----------------------------- MODULE MCAccounts -----------------------------
(* Two devices of one user, two requests in flight, four refresh tokens,   *)
(* one change of the password and one database error or lost answer.       *)
EXTENDS Accounts, TLC

Symmetry == Permutations(Devices) \cup Permutations(Calls)

=============================================================================
