----------------------------- MODULE Deliveries -----------------------------
(***************************************************************************)
(* The two inboxes graded frames are delivered to, the campaign owner's and*)
(* the developer's, with the SDK's clients that drain them: the run_worker *)
(* loop of the campaign inbox, which remembers how far it has come, and    *)
(* the developer's drain, which does not.  Acknowledging a campaign's      *)
(* delivery deletes its object from the hot store.                         *)
(*                                                                         *)
(* Every action is one statement of a handler, one request, or one call to *)
(* the store.  All deliveries here are completed ones: those of failed     *)
(* frames have nothing to download.                                        *)
(***************************************************************************)
EXTENDS Inboxes, SequencesExt

CONSTANT MaxFaults   \* bound: how many steps fail

ASSUME FaultAssumption == MaxFaults \in Nat

VARIABLE faults

table == <<delivery, stamp, now>>
store == <<hot, removing>>
client == <<place, todo, cursor, file>>
history == <<tried, overtaken, faults>>
vars == <<table, store, client, history>>

Nobody == "none"

Init == /\ delivery = [d \in Deliveries |-> "absent"]
        /\ stamp = [d \in Deliveries |-> 0] /\ now = 0
        /\ hot = {} /\ removing = {}
        /\ place = [b \in Boxes |-> "poll"]
        /\ todo = [b \in Boxes |-> << >>]
        /\ cursor = 0
        /\ file = [f \in Files |-> Nobody]
        /\ tried = {} /\ overtaken = {} /\ faults = 0

Fault == faults < MaxFaults /\ faults' = faults + 1
Goto(b, p) == place' = [place EXCEPT ![b] = p]
-----------------------------------------------------------------------------
(* The ingest of a grade: its INSERT is stamped when it begins and read by *)
(* others when it has ended.                                               *)

Insert(d) ==
    /\ delivery[d] = "absent"
    /\ now' = now + 1
    /\ stamp' = [stamp EXCEPT ![d] = now + 1]
    /\ delivery' = [delivery EXCEPT ![d] = "inserting"]
    /\ hot' = IF \E e \in Deliveries : Key[e] = Key[d] /\ delivery[e] # "absent"
              THEN hot ELSE hot \cup {Key[d]}
    /\ UNCHANGED <<removing, client, history>>

Commit(d) ==
    /\ delivery[d] = "inserting"
    /\ delivery' = [delivery EXCEPT ![d] = "unread"]
    /\ overtaken' = IF \E e \in Deliveries : /\ delivery[e] \in {"unread", "acked"}
                                             /\ stamp[e] > stamp[d]
                    THEN overtaken \cup {d} ELSE overtaken
    /\ UNCHANGED <<stamp, now, store, client, tried, faults>>

(* createInboxDeliveryFromGrade, createDeveloperDeliveryFromGrade.         *)
CreateDeliveryFromGrade(d) == Insert(d) \/ Commit(d)
-----------------------------------------------------------------------------
(* handleInboxPoll and handleDeveloperInboxPoll.                           *)

Earlier(d, e) == stamp[d] < stamp[e]

Sorted(s) == \A i, j \in DOMAIN s : i < j => Earlier(s[i], s[j])
\* No delivery is left out but one that comes after the last of a full answer.
Accounted(s, d) == d \notin ToSet(s) => Len(s) = Limit /\ Earlier(s[Limit], d)

\* Mutant: the newest rows first.
NewestRows(rows) ==
    {s \in SeqOf(rows, Limit) : /\ Sorted(Reverse(s))
                               /\ \A d \in rows : d \notin ToSet(s) =>
                                     Len(s) = Limit /\ Earlier(d, s[Limit])}

FirstRows(rows) ==
    {s \in SeqOf(rows, Limit) : Sorted(s) /\ \A d \in rows : Accounted(s, d)}

InboxRows == FirstRows({d \in Deliveries :
    Box[d] = "campaign" /\ delivery[d] = "unread" /\ stamp[d] > cursor})

\* Mutant: the developer's poll takes the cursor, too.
DeveloperRowsSince == FirstRows({d \in Deliveries :
    Box[d] = "developer" /\ delivery[d] = "unread" /\ stamp[d] > cursor})

DeveloperRows == FirstRows({d \in Deliveries :
    Box[d] = "developer" /\ delivery[d] = "unread"})

Rows(b) == IF b = "campaign" THEN InboxRows ELSE DeveloperRows

(* A poll that fails is tried again, and so is one that finds nothing.     *)
Poll(b) ==
    /\ place[b] = "poll"
    /\ \E rows \in Rows(b) :
         rows # << >> /\ todo' = [todo EXCEPT ![b] = rows]
    /\ Goto(b, "fetch")
    /\ UNCHANGED <<table, store, cursor, file, history>>
-----------------------------------------------------------------------------
(* The clients.                                                            *)

Next1(b) == Head(todo[b])

\* The loop goes on with the rest of the list, or polls again.
Advance(b) == /\ todo' = [todo EXCEPT ![b] = Tail(@)]
              /\ Goto(b, IF Len(todo[b]) = 1 THEN "poll" ELSE "fetch")

(* The download or the callback fails: run_worker goes on with the next    *)
(* delivery, drain raises and is called anew.                              *)
Fails(b) ==
    /\ tried' = tried \cup {Next1(b)}
    /\ IF b = "campaign" THEN Advance(b)
       ELSE Goto(b, "poll") /\ todo' = [todo EXCEPT ![b] = << >>]

\* Mutant: what was not downloaded is acknowledged too.
DownloadOrNot(b) ==
    /\ place[b] = "fetch"
    /\ IF Key[Next1(b)] \in hot
       THEN file' = [file EXCEPT ![File[Next1(b)]] = Next1(b)]
       ELSE UNCHANGED file
    /\ Goto(b, "ack")
    /\ UNCHANGED <<table, store, todo, cursor, history>>

Saves(d, frame) == file' = [file EXCEPT ![File[d]] = frame]

(* The frame is downloaded and saved, and the callback called.  A key that *)
(* is not stored any more answers 404.  Whatever else fails: the file is   *)
(* untouched, or opened and not written to its end, or saved and only the  *)
(* callback raised.                                                        *)
Download(b) ==
    LET d == Next1(b) IN
    /\ place[b] = "fetch"
    /\ \/ /\ Key[d] \in hot
          /\ Saves(d, d)
          /\ Goto(b, "ack")
          /\ UNCHANGED <<todo, tried, faults>>
       \/ /\ Key[d] \notin hot
          /\ Fails(b)
          /\ UNCHANGED <<file, faults>>
       \/ /\ Fault
          /\ Fails(b)
          /\ \/ UNCHANGED file
             \/ Key[d] \in hot /\ \E frame \in {d, Nobody} : Saves(d, frame)
    /\ UNCHANGED <<table, store, cursor, overtaken>>

(* The acknowledgement was answered: the worker's cursor follows.          *)
Acknowledged(b) ==
    /\ Advance(b)
    /\ cursor' = IF b = "campaign" THEN stamp[Next1(b)] ELSE cursor

(* An acknowledgement that raises ends run_worker; drain is called anew.   *)
Raises(b) ==
    /\ Goto(b, IF b = "campaign" THEN "stopped" ELSE "poll")
    /\ todo' = [todo EXCEPT ![b] = << >>]
    /\ UNCHANGED cursor

(* handleInboxAck and handleDeveloperInboxAck: the row is marked, and then *)
(* a goroutine deletes the campaign's object.  The answer may be lost.     *)
Acknowledge(b) ==
    LET d == Next1(b) IN
    /\ place[b] = "ack"
    /\ \/ /\ delivery[d] = "unread"
          /\ delivery' = [delivery EXCEPT ![d] = "acked"]
          /\ removing' = IF b = "campaign" THEN removing \cup {Key[d]} ELSE removing
          /\ \/ Acknowledged(b) /\ UNCHANGED faults
             \/ Fault /\ Raises(b)
       \/ Fault /\ Raises(b) /\ UNCHANGED <<delivery, removing>>
    /\ UNCHANGED <<stamp, now, hot, file, tried, overtaken>>

(* The worker is stopped, maybe amid a download, and run again: it begins  *)
(* at the beginning.                                                       *)
Restart ==
    /\ place["campaign"] # "poll"
    /\ place["campaign"] = "stopped" \/ faults < MaxFaults
    /\ faults' = IF place["campaign"] = "stopped" THEN faults ELSE faults + 1
    /\ Goto("campaign", "poll")
    /\ todo' = [todo EXCEPT !["campaign"] = << >>]
    /\ cursor' = 0
    /\ \/ UNCHANGED file
       \/ place["campaign"] = "fetch" /\ Saves(Next1("campaign"), Nobody)
    /\ UNCHANGED <<table, store, tried, overtaken>>

(* deleteLandingObjectsAfterAck.  An error is logged, and the object stays.*)
DeleteLandingObjectsAfterAck(k) ==
    /\ k \in removing
    /\ removing' = removing \ {k}
    /\ \/ hot' = hot \ {k} /\ UNCHANGED faults
       \/ Fault /\ UNCHANGED hot
    /\ UNCHANGED <<table, client, tried, overtaken>>
-----------------------------------------------------------------------------
ClientStep(b) == Poll(b) \/ Download(b) \/ Acknowledge(b)

Next == \/ \E d \in Deliveries : CreateDeliveryFromGrade(d)
        \/ \E b \in Boxes : ClientStep(b)
        \/ Restart
        \/ \E k \in Keys : DeleteLandingObjectsAfterAck(k)

Spec == Init /\ [][Next]_vars

(* Postgres commits, and the clients poll again and again.  Nobody need    *)
(* restart a worker that has stopped.                                      *)
Fairness == /\ \A d \in Deliveries : WF_vars(Commit(d))
            /\ \A b \in Boxes : WF_vars(ClientStep(b))

FairSpec == Spec /\ Fairness
-----------------------------------------------------------------------------
(* Properties.                                                             *)

(* Every variable stays in its type.                                       *)
TypeOK ==
    /\ delivery \in [Deliveries -> {"absent", "inserting", "unread", "acked"}]
    /\ stamp \in [Deliveries -> 0..Cardinality(Deliveries)]
    /\ now \in 0..Cardinality(Deliveries)
    /\ hot \subseteq Keys /\ removing \subseteq Keys
    /\ place \in [Boxes -> {"poll", "fetch", "ack", "stopped"}]
    /\ todo \in [Boxes -> Seq(Deliveries)]
    /\ \A b \in Boxes : place[b] \in {"fetch", "ack"} <=> todo[b] # << >>
    /\ cursor \in 0..Cardinality(Deliveries)
    /\ file \in [Files -> Deliveries \cup {Nobody}]
    /\ tried \subseteq Deliveries /\ overtaken \subseteq Deliveries
    /\ faults \in 0..MaxFaults

Blocked(d) == \E e \in Deliveries : /\ Box[e] = Box[d] /\ delivery[e] = "unread"
                                    /\ stamp[e] <= stamp[d] /\ Key[e] \notin hot

(* No delivery stays unread for ever, unless the cursor is past it, the    *)
(* campaign's worker has stopped, or, at the developer's, a delivery of it *)
(* or before it has lost its object, which drain does not get past.        *)
EveryDeliveryIsDrained ==
    \A d \in Deliveries :
        []<>(\/ delivery[d] \in {"absent", "acked"} \/ Passed(d) \/ Blocked(d)
             \/ Box[d] = "campaign" /\ place["campaign"] = "stopped")

=============================================================================
