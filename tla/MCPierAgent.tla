---------------------------- MODULE MCPierAgent ----------------------------
(***************************************************************************)
(* Instances of PierAgent for TLC.                                         *)
(***************************************************************************)
EXTENDS PierAgent, TLC

CONSTANTS a1, p1, x1

\* An assignment, a preemption of it, and an abort.
Commands == a1 :> "assign" @@ p1 :> "preempt" @@ x1 :> "abort"
=============================================================================
