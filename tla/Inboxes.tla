------------------------------ MODULE Inboxes ------------------------------
(***************************************************************************)
(* The two inboxes graded frames are delivered to, and what their readers  *)
(* may rely on: the state that the deliveries, the store and the clients   *)
(* are in, without the steps, which are those of Deliveries.               *)
(***************************************************************************)
EXTENDS Naturals, Sequences, FiniteSets

CONSTANTS
    Deliveries,
    Box,            \* [Deliveries -> {"campaign", "developer"}]
    Key, Keys,      \* [Deliveries -> Keys]: the object each delivery is of
    File, Files,    \* [Deliveries -> Files]: where the SDK saves it, by delivery
                    \* in the campaign's directory, by task in the developer's
    Limit           \* bound: LIMIT of the poll (200)

Boxes == {"campaign", "developer"}

ASSUME BoxAssumption == Box \in [Deliveries -> Boxes]
ASSUME KeyAssumption == Key \in [Deliveries -> Keys]
ASSUME FileAssumption ==
    /\ File \in [Deliveries -> Files]
    /\ \A d, e \in Deliveries : Box[d] = "campaign" /\ File[d] = File[e] => d = e
ASSUME LimitAssumption == Limit \in Nat \ {0}

VARIABLES
    \* Postgres: inbox_deliveries and developer_deliveries
    delivery, stamp, \* each delivery's state, and its created_at
    now,
    \* the hot store
    hot,            \* the keys that are stored
    removing,       \* keys an acknowledgement has yet to delete
    \* the SDK's clients, one per box
    place,          \* where each is in its loop
    todo,           \* the deliveries it has polled and not finished with
    cursor,         \* how far the campaign's worker has come
    file,           \* the files saved: whose delivery's frame, if it is whole
    \* history
    tried,          \* deliveries whose download or callback has failed
    overtaken       \* deliveries committed after a later one

SameFile(d) == {e \in Deliveries : File[e] = File[d]}

(* What has been acknowledged is on the client's disk, whatever failed or  *)
(* was answered late ("download completed FITS ... before ack"): in the    *)
(* campaign's inbox its own frame, in the developer's that of a delivery of*)
(* the same task, which saves to the same file - unless the download of one*)
(* has failed, that is still to be acknowledged, and has spoilt the file.  *)
AckedIsSaved ==
    \A d \in Deliveries : delivery[d] = "acked" =>
        \/ file[File[d]] \in SameFile(d)
        \/ \E e \in SameFile(d) : delivery[e] = "unread" /\ e \in tried

Passed(d) == Box[d] = "campaign" /\ delivery[d] = "unread" /\ stamp[d] <= cursor

(* The worker's cursor moves past no delivery it has not had in its hands, *)
(* except one whose INSERT was still in progress when a later one's had    *)
(* ended (ORDER BY created_at ASC, LIMIT, created_at > since).             *)
CursorPassesNone == \A d \in Deliveries : Passed(d) => d \in tried \cup overtaken

=============================================================================
