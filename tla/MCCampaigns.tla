---------------------------- MODULE MCCampaigns ----------------------------
(***************************************************************************)
(* Instances of Campaigns for TLC.                                         *)
(***************************************************************************)
EXTENDS Campaigns, TLC

CONSTANTS r1, r2, s1, a1

Concurrent == {r1, r2}
Interchangeable == Permutations(Concurrent)
=============================================================================
