----------------------------- MODULE MCPierCode -----------------------------
(* Two campaigns that ship one program, six assignments: with the default  *)
(* grants, with next_capture under wide and under narrow bounds, switched  *)
(* off, and of the other campaign with grants and with all of them set to  *)
(* false; three board messages, one of them without an id; a history of    *)
(* two; four events around the agent.                                      *)
EXTENDS PierCode, TLC

CONSTANTS c1, c2, n1, n2, m1, m2, m3, h

MCCampaigns == {c1, c2}
MCTopic == (m1 :> [campaign |-> c1, node |-> n1])
        @@ (m2 :> [campaign |-> c1, node |-> n2])
        @@ (m3 :> [campaign |-> c1, node |-> n1])

Of(c, actions, disabled, integration, filters) ==
    [campaign |-> c, hash |-> h, actions |-> actions, disabled |-> disabled,
     integration |-> integration, filters |-> filters]
Steering == {"next_capture", "board_post"}
MCAssignments ==
    {Of(c1, None, FALSE, 2, <<"r">>),
     Of(c1, Steering, FALSE, 0, <<"r", "g">>),
     Of(c1, Steering, FALSE, 1, <<"r">>),
     Of(c1, Steering, TRUE, 0, <<"r", "g">>),
     Of(c2, Steering, FALSE, 2, << >>),
     Of(c2, {}, FALSE, 0, << >>)}

MCGrantLists == {{}, Steering, {"board_post", "dance"}}
MCAsked == {Record(x) : x \in {"state", "dance", "board_post", "board_read"}}
    \cup [action : {"next_capture"}, exposure : {0, 2, None}, filter : {"g", None}]

=============================================================================
