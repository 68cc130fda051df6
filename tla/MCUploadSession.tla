-------------------------- MODULE MCUploadSession --------------------------
(***************************************************************************)
(* Instances of UploadSession for TLC.                                     *)
(***************************************************************************)
EXTENDS UploadSession, TLC

CONSTANTS c1, c2

\* Two telescopes of a cohort capture in the same second.  (In different
\* seconds their uploads have nothing in common but the task.)
Together == {c1 :> 1 @@ c2 :> 1}

\* Every device is bound to its telescope, or one is not.
BoundOrNot == {{c1, c2}, {c1}}
=============================================================================
