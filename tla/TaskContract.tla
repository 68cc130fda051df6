---------------------------- MODULE TaskContract ----------------------------
(***************************************************************************)
(* What the task server promises about the life of an observing task, with *)
(* nothing of how it keeps the promise: no queues, no orchestrator loops,  *)
(* no assignment rows, no Redis.  A task is claimed by one telescope at a  *)
(* time, goes back to pending only by preemption or by losing its lease,   *)
(* is given up after MaxFailures lost leases, and never comes back once it *)
(* is completed, superseded or expired.  TaskLease implements this module  *)
(* with its columns status, assigned_telescope_id and failure_count.       *)
(***************************************************************************)
EXTENDS Naturals

CONSTANTS
    Tasks,          \* task ids
    Nodes,          \* telescope ids
    NoNode,         \* the NULL of assigned_telescope_id
    MaxFailures     \* TASK_MAX_FAILURES; 0 disables the terminal expiry

VARIABLES
    status,         \* tasks.status
    owner,          \* tasks.assigned_telescope_id
    failures        \* tasks.failure_count

cvars == <<status, owner, failures>>

Open == {"pending", "assigned"}
Terminal == {"completed", "expired", "superseded"}
Status == {"absent"} \cup Open \cup Terminal

CInit == /\ status = [t \in Tasks |-> "absent"]
         /\ owner = [t \in Tasks |-> NoNode]
         /\ failures = [t \in Tasks |-> 0]

(* A researcher creates the task.                                          *)
Submit(t) == /\ status[t] = "absent"
             /\ status' = [status EXCEPT ![t] = "pending"]
             /\ UNCHANGED <<owner, failures>>

(* One telescope wins a pending, unowned task.                             *)
Win(t, n) == /\ status[t] = "pending" /\ owner[t] = NoNode
             /\ status' = [status EXCEPT ![t] = "assigned"]
             /\ owner' = [owner EXCEPT ![t] = n]
             /\ UNCHANGED failures

(* The owner is preempted: the task waits again, at no cost to it.         *)
Yield(t) == /\ status[t] = "assigned"
            /\ status' = [status EXCEPT ![t] = "pending"]
            /\ owner' = [owner EXCEPT ![t] = NoNode]
            /\ UNCHANGED failures

(* The lease is lost: the loss is counted, and the task waits again unless *)
(* that was its last chance.                                               *)
LoseLease(t) ==
    /\ status[t] = "assigned"
    /\ failures' = [failures EXCEPT ![t] = @ + 1]
    /\ status' = [status EXCEPT ![t] =
                    IF MaxFailures > 0 /\ failures[t] + 1 >= MaxFailures
                    THEN "expired" ELSE "pending"]
    /\ owner' = [owner EXCEPT ![t] = NoNode]

(* The work is done, or the researcher replaced the task.  A late grade    *)
(* may still complete a task that had been given up.                       *)
Close(t) == /\ status[t] # "absent"
            /\ \E s \in {"completed", "superseded"} :
                  status' = [status EXCEPT ![t] = s]
            /\ UNCHANGED <<owner, failures>>

(* A researcher replaces a task: the edited copy is submitted in the same  *)
(* transaction that closes the original.                                   *)
Replace(t, new) ==
    /\ t # new /\ status[t] # "absent" /\ status[new] = "absent"
    /\ status' = [status EXCEPT ![t] = "superseded", ![new] = "pending"]
    /\ UNCHANGED <<owner, failures>>

CStep(t) == \/ Submit(t)
            \/ \E n \in Nodes : Win(t, n)
            \/ Yield(t)
            \/ LoseLease(t)
            \/ Close(t)
            \/ \E new \in Tasks : Replace(t, new)

CNext == \E t \in Tasks : CStep(t)

CSpec == CInit /\ [][CNext]_cvars
-----------------------------------------------------------------------------
CTypeOK == /\ status \in [Tasks -> Status]
           /\ owner \in [Tasks -> Nodes \cup {NoNode}]
           /\ failures \in [Tasks -> Nat]

(* The owner column agrees with the status column: a waiting task has no   *)
(* owner (or no other telescope could ever win it), an assigned task has   *)
(* one.                                                                    *)
OwnerMatchesStatus ==
    \A t \in Tasks : /\ status[t] \in {"absent", "pending"} => owner[t] = NoNode
                     /\ status[t] = "assigned" => owner[t] \in Nodes

(* Lost leases are counted exactly: a task still waiting or running has    *)
(* chances left, and a task is given up at the limit, never before or      *)
(* after it.                                                               *)
FailureAccounting ==
    \A t \in Tasks :
        /\ status[t] \in Open /\ MaxFailures > 0 => failures[t] < MaxFailures
        /\ status[t] = "expired" => MaxFailures > 0 /\ failures[t] = MaxFailures

(* No step reopens a task that is completed, superseded or expired.        *)
TerminalIsFinal ==
    [][\A t \in Tasks : status[t] \in Terminal => status'[t] \in Terminal]_cvars
=============================================================================
