---------------------------- MODULE MCDeliveries ----------------------------
(***************************************************************************)
(* Instances of Deliveries for TLC: two deliveries to the owner of a       *)
(* campaign and two to a developer, one of the frame that the first of the *)
(* owner's is of, and both of one task.                                    *)
(***************************************************************************)
EXTENDS Deliveries, TLC

CONSTANTS c1, c2, d1, d2

Boxed == c1 :> "campaign" @@ c2 :> "campaign"
           @@ d1 :> "developer" @@ d2 :> "developer"
Objects == c1 :> 1 @@ c2 :> 2 @@ d1 :> 1 @@ d2 :> 3
Saved == c1 :> 1 @@ c2 :> 2 @@ d1 :> 3 @@ d2 :> 3
=============================================================================
