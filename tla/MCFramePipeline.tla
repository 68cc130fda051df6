-------------------------- MODULE MCFramePipeline --------------------------
(***************************************************************************)
(* Instances of FramePipeline for TLC.                                     *)
(***************************************************************************)
EXTENDS FramePipeline

CONSTANTS f1, f2, f3, t1, t2, w1, w2

\* A frame fills the budget of the first task, two the second's.
Assigned == f1 :> t1 @@ f2 :> t2 @@ f3 :> t2
Ones == f1 :> 1 @@ f2 :> 1 @@ f3 :> 1
Budgets == t1 :> 1 @@ t2 :> 2

\* All frames are of the first task.
AssignedToOne == f1 :> t1 @@ f2 :> t1 @@ f3 :> t1
=============================================================================
