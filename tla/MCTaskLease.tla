---------------------------- MODULE MCTaskLease ----------------------------
(***************************************************************************)
(* Instances of TaskLease for TLC.                                         *)
(***************************************************************************)
EXTENDS TaskLease, TLC

CONSTANTS t1, t2, n1, n2

\* t2 is urgent enough to preempt t1.
SecondPreemptsFirst == {<<t1, t2>>}

NodeSymmetry == Permutations(Nodes)
=============================================================================
