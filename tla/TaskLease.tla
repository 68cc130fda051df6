----------------------------- MODULE TaskLease -----------------------------
(***************************************************************************)
(* The task server's assignment hot path: the orchestrator's NOTIFY and    *)
(* drain loops, its lease-reclaim loop, the apiserver handlers that create,*)
(* edit and complete tasks, and the collector's lease renewal and          *)
(* node-state reconciliation.  They share two Postgres tables (tasks,      *)
(* task_assignments) and a Redis cache (queues, per-node assignment        *)
(* marker) and nothing else; every action below is one SQL statement or    *)
(* transaction, one Redis round trip, or one MQTT publish.                 *)
(*                                                                         *)
(* Data the properties do not tell apart is nondeterministic: which nodes  *)
(* pass the selector's gates, whether a task is in its backoff window or   *)
(* its campaign is paused, whether a call fails.                           *)
(***************************************************************************)
EXTENDS Naturals, Sequences

CONSTANTS
    Tasks, Nodes, NoTask, NoNode,
    MaxFailures,    \* TASK_MAX_FAILURES
    MaxCohort,      \* shared.CohortMaxNodes
    PlannedLane,    \* tasks whose campaign pack classifies them as planned
    Preempts,       \* <<victim, t>>: t's priority lets it preempt victim
    Requests,       \* the requests users make: "patch", "complete", "grade"
    Faults,         \* the kinds of call that may fail in this instance
    Delays,         \* "pass": a lease or a backoff may run out during a loop's
                    \* pass; "sweep": a row may be claimed afresh between the
                    \* sweep that read it as lapsed and its reclaim
    MaxReturns,     \* bound: how often one task may go back to pending
    MaxCrashes      \* bound: orchestrator restarts

Loops == {"notify", "drain"}

ASSUME MaxFailuresAssumption == MaxFailures \in Nat
ASSUME CohortAssumption == MaxCohort \in Nat \ {0}
ASSUME DelaysAssumption == Delays \subseteq {"pass", "sweep"}
ASSUME BoundsAssumption == MaxReturns \in Nat /\ MaxCrashes \in Nat
ASSUME NullsAssumption == NoNode \notin Nodes /\ NoTask \notin Tasks
ASSUME LaneAssumption == PlannedLane \subseteq Tasks
ASSUME PreemptsAssumption == Preempts \subseteq Tasks \X Tasks

VARIABLES
    \* Postgres
    status, owner, failures,   \* tasks.status, assigned_telescope_id, failure_count
    cooling,                   \* tasks whose last_assignment_attempt_at is recent
    row,                       \* task_assignments, by task and telescope
    \* Redis
    queued, parked, marker,    \* tasks:queued, tasks:queued:planned, current_task_id
    notes,                     \* NOTIFYs the orchestrator has not taken yet
    \* the orchestrator
    loop, sweep, reclaim, mode,
    \* the apiserver's handlers in progress
    api, patching,
    \* the piers: which command each may be executing
    working,
    \* history and bounds
    returns, claims, crashes,
    lost                       \* pending tasks that a failed call has let go of,
                               \* until they are claimed or recovered

tasksTable == <<status, owner, failures, cooling>>
redis == <<queued, parked, marker>>
orch == <<loop, sweep, reclaim, mode>>
apiserver == <<api, patching>>
ghosts == <<returns, claims, crashes, lost>>
vars == <<tasksTable, row, redis, notes, orch, apiserver, working, ghosts>>

(* What the hot path promises, with the three columns of the tasks table.  *)
Contract == INSTANCE TaskContract
              WITH status <- status, owner <- owner, failures <- failures

Active(t, n) == row[t][n].status = "assigned"
Assignable(t) == status[t] = "pending" /\ owner[t] = NoNode

(* The reclaim transaction holds the row lock of the pair it is expiring   *)
(* from its first UPDATE to its commit; other writers of that row wait.    *)
Locked(t, n) == reclaim.pc = "decide" /\ reclaim.task = t /\ reclaim.node = n

NoRow == [status |-> "none", role |-> "cohort", lapsed |-> FALSE]
Idle == [pc |-> "idle", task |-> NoTask, picks |-> << >>, i |-> 0, victim |-> NoTask]
Resting == [pc |-> "idle", task |-> NoTask, node |-> NoNode, left |-> {},
            act |-> "none"]
NoRequest == [pc |-> "idle", todo |-> {}, node |-> NoNode]

Init == /\ status = [t \in Tasks |-> "absent"]
        /\ owner = [t \in Tasks |-> NoNode]
        /\ failures = [t \in Tasks |-> 0]
        /\ cooling = {}
        /\ row = [t \in Tasks |-> [n \in Nodes |-> NoRow]]
        /\ queued = {} /\ parked = {} /\ notes = {}
        /\ marker = [n \in Nodes |-> NoTask]
        /\ loop = [l \in Loops |-> Idle]
        /\ sweep = {} /\ reclaim = Resting /\ mode = "running"
        /\ api = [t \in Tasks |-> NoRequest]
        /\ patching = {} /\ working = {}
        /\ returns = [t \in Tasks |-> 0]
        /\ claims = [t \in Tasks |-> 0]
        /\ crashes = 0 /\ lost = {}
-----------------------------------------------------------------------------
(* Taking a task into a loop.                                              *)

(* Of these tasks the queues and the notifications have nothing now: those *)
(* that are still waiting are lost.                                        *)
Losing(S) ==
    lost' = lost \cup {t \in S : /\ status[t] = "pending"
                                /\ t \notin queued' \cup parked' \cup notes'}

(* runNotifyLoop hands one notification to handleTaskNotification.         *)
TakeNote == /\ mode = "running" /\ loop["notify"].pc = "idle"
            /\ \E t \in notes :
                  /\ notes' = notes \ {t}
                  /\ loop' = [loop EXCEPT !["notify"] =
                                [Idle EXCEPT !.pc = "fetch", !.task = t]]
            /\ UNCHANGED <<tasksTable, row, redis, sweep, reclaim, mode,
                           apiserver, working, ghosts>>

(* The connection that listens breaks: WaitForNotification fails, and what *)
(* was on its way is gone.  From then on this may happen to every NOTIFY.  *)
LoseNotes == /\ mode = "running" /\ "listen" \in Faults
             /\ notes # {} /\ notes' = {}
             /\ UNCHANGED <<tasksTable, row, redis, orch, apiserver, working,
                            returns, claims, crashes>>
             /\ Losing(notes)

(* drainLoop pops a member of tasks:queued.  The ZSET's priority order is  *)
(* abstracted: any member may be the lowest score.                         *)
PopQueued == /\ mode = "running" /\ loop["drain"].pc = "idle"
             /\ \E t \in queued :
                   /\ queued' = queued \ {t}
                   /\ loop' = [loop EXCEPT !["drain"] =
                                 [Idle EXCEPT !.pc = "fetch", !.task = t]]
             /\ UNCHANGED <<tasksTable, row, parked, marker, notes, sweep,
                            reclaim, mode, apiserver, working, ghosts>>

Drop(l) == loop' = [loop EXCEPT ![l] = Idle]

(* enqueueByLane: a ZADD whose error is ignored.                           *)
Enqueue(lane, t) == \/ lane' = lane \cup {t}
                    \/ "enqueue" \in Faults /\ lane' = lane

\* Mutant: the drain loop drops a task in backoff instead of putting it back.
FetchDropsBackoff(l) ==
    LET t == loop[l].task IN
    /\ loop[l].pc = "fetch"
    /\ \/ /\ \/ ~Assignable(t) \/ "fetch" \in Faults
             \/ t \in cooling /\ l = "drain"
          /\ Drop(l)
          /\ UNCHANGED redis
       \/ /\ Assignable(t) /\ l = "notify"
          /\ Drop(l)
          /\ Enqueue(parked, t)
          /\ UNCHANGED <<queued, marker>>
       \/ /\ Assignable(t) /\ t \notin cooling
          /\ l = "notify" => t \notin PlannedLane
          /\ loop' = [loop EXCEPT ![l].pc = "select"]
          /\ UNCHANGED redis
    /\ UNCHANGED <<tasksTable, row, notes, sweep, reclaim, mode, apiserver,
                   working, returns, claims, crashes>>
    /\ IF loop'[l].pc = "idle" /\ t \notin cooling THEN Losing({t})
       ELSE UNCHANGED lost

(* fetchTaskNotifyPayload and what each loop does with its four outcomes:  *)
(* an error or an unassignable task is dropped, a task in backoff or of a  *)
(* paused campaign is put back (the NOTIFY loop into the planned lane, the *)
(* drain loop into its own queue), and a loaded task goes on to selection, *)
(* except that the NOTIFY loop leaves planned work to the planner.         *)
Fetch(l) ==
    LET t == loop[l].task IN
    /\ loop[l].pc = "fetch"
    /\ \/ /\ ~Assignable(t) \/ "fetch" \in Faults
          /\ Drop(l)
          /\ UNCHANGED redis
       \/ /\ Assignable(t)
          /\ Drop(l)
          /\ IF l = "notify" THEN Enqueue(parked, t) /\ UNCHANGED queued
                             ELSE Enqueue(queued, t) /\ UNCHANGED parked
          /\ UNCHANGED marker
       \/ /\ Assignable(t) /\ t \notin cooling
          /\ l = "notify" => t \notin PlannedLane
          /\ loop' = [loop EXCEPT ![l].pc = "select"]
          /\ UNCHANGED redis
    /\ UNCHANGED <<tasksTable, row, notes, sweep, reclaim, mode, apiserver,
                   working, returns, claims, crashes>>
    /\ IF loop'[l].pc = "idle" THEN Losing({t}) ELSE UNCHANGED lost

(* Requeue: enqueueByLane(interrupt), whichever loop gives up.             *)
Requeue(l) == Drop(l) /\ Enqueue(queued, loop[l].task)
-----------------------------------------------------------------------------
(* assignTask and assignOnce.                                              *)

IdleNodes == {n \in Nodes : marker[n] = NoTask}

(* Ordered cohorts of at most MaxCohort distinct telescopes.               *)
Cohorts(S) ==
    UNION {{p \in [1..k -> S] : \A i, j \in 1..k : p[i] = p[j] => i = j} :
                k \in 1..MaxCohort}

(* The selector works from one reading of the node markers: a cohort of    *)
(* unmarked telescopes, or a single telescope that is preempted, or none.  *)
(* A Redis error also requeues.  A task that used up MaxReturns finds no   *)
(* eligible telescope any more.                                            *)
Select(l) ==
    /\ loop[l].pc = "select"
    /\ \/ /\ Requeue(l)
          /\ UNCHANGED <<parked, marker>>
       \/ /\ returns[loop[l].task] <= MaxReturns
          /\ \E p \in Cohorts(IdleNodes) :
                loop' = [loop EXCEPT ![l] =
                           [@ EXCEPT !.pc = "claim", !.picks = p, !.i = 1]]
          /\ UNCHANGED redis
       \/ /\ returns[loop[l].task] <= MaxReturns
          /\ \E n \in Nodes :
                /\ <<marker[n], loop[l].task>> \in Preempts
                /\ loop' = [loop EXCEPT ![l] =
                              [@ EXCEPT !.pc = "claim", !.picks = <<n>>,
                                        !.i = 1, !.victim = marker[n]]]
          /\ UNCHANGED redis
    /\ UNCHANGED <<tasksTable, row, notes, sweep, reclaim, mode, apiserver,
                   working, returns, claims, crashes>>
    /\ IF loop'[l].pc = "idle" THEN Losing({loop[l].task}) ELSE UNCHANGED lost

\* Mutant: the UPDATE does not check that the task is pending and unowned.
CommitClaimBlindly(t, n) ==
    /\ "sweep" \in Delays \/ <<t, n>> \notin sweep
    /\ status' = [status EXCEPT ![t] = "assigned"]
    /\ owner' = [owner EXCEPT ![t] = n]
    /\ row' = [row EXCEPT ![t][n] =
                 [status |-> "assigned", role |-> "primary", lapsed |-> FALSE]]
    /\ cooling' = cooling \cup {t}
    /\ claims' = [claims EXCEPT ![t] = @ + 1]
    /\ lost' = lost \ {t}
    /\ UNCHANGED failures

\* Mutant: the INSERT leaves an old row of the same telescope alone.
CommitClaimKeepsRow(t, n) ==
    /\ Assignable(t)
    /\ "sweep" \in Delays \/ <<t, n>> \notin sweep
    /\ status' = [status EXCEPT ![t] = "assigned"]
    /\ owner' = [owner EXCEPT ![t] = n]
    /\ row' = IF row[t][n].status # "none" THEN row
              ELSE [row EXCEPT ![t][n] =
                      [status |-> "assigned", role |-> "primary", lapsed |-> FALSE]]
    /\ cooling' = cooling \cup {t}
    /\ claims' = [claims EXCEPT ![t] = @ + 1]
    /\ lost' = lost \ {t}
    /\ UNCHANGED failures

(* persistTaskAssignment: the compare-and-set on the task row and the      *)
(* upsert of the primary assignment row, in one transaction.               *)
CommitClaim(t, n) ==
    /\ Assignable(t)
    /\ "sweep" \in Delays \/ <<t, n>> \notin sweep
    /\ status' = [status EXCEPT ![t] = "assigned"]
    /\ owner' = [owner EXCEPT ![t] = n]
    /\ row' = [row EXCEPT ![t][n] =
                 [status |-> "assigned", role |-> "primary", lapsed |-> FALSE]]
    /\ cooling' = cooling \cup {t}
    /\ claims' = [claims EXCEPT ![t] = @ + 1]
    /\ lost' = lost \ {t}
    /\ UNCHANGED failures

Claimed(l) == loop' = [loop EXCEPT ![l].pc = "publish"]

(* ClaimPrimary has four outcomes: claimed, lost to another path (skip),   *)
(* an error that changed nothing, and an error of the COMMIT after the     *)
(* server applied it; both errors requeue.  A claim of the very row the    *)
(* reclaim transaction holds deadlocks with it (each holds the row the     *)
(* other wants) and Postgres aborts one of the two.                        *)
Claim(l) ==
    LET t == loop[l].task
        n == loop[l].picks[1] IN
    /\ loop[l].pc = "claim"
    /\ \/ /\ CommitClaim(t, n) /\ Claimed(l)
          /\ IF Locked(t, n) THEN reclaim' = Resting ELSE UNCHANGED reclaim
          /\ UNCHANGED queued
       \/ /\ ~Assignable(t)
          /\ Drop(l)
          /\ UNCHANGED <<tasksTable, row, claims, queued, reclaim, lost>>
       \/ /\ "claim" \in Faults \/ (Locked(t, n) /\ Assignable(t))
          /\ Requeue(l)
          /\ UNCHANGED <<tasksTable, row, claims, parked, notes, reclaim>>
          /\ Losing({t})
       \/ /\ "commit" \in Faults /\ ~Locked(t, n)
          /\ CommitClaim(t, n) /\ Requeue(l)
          /\ UNCHANGED reclaim
    /\ UNCHANGED <<parked, marker, notes, sweep, mode, apiserver, working,
                   returns, crashes>>

(* RecordCohort for the i-th telescope: an INSERT that leaves an existing  *)
(* row alone.  Its failure is only logged.                                 *)
Record(l) ==
    LET t == loop[l].task
        n == loop[l].picks[loop[l].i] IN
    /\ loop[l].pc = "record"
    /\ loop' = [loop EXCEPT ![l].pc = "publish"]
    /\ \/ /\ row[t][n].status = "none"
          /\ row' = [row EXCEPT ![t][n] =
                       [status |-> "assigned", role |-> "cohort", lapsed |-> FALSE]]
       \/ /\ row[t][n].status # "none" \/ "record" \in Faults
          /\ UNCHANGED row
    /\ UNCHANGED <<tasksTable, redis, notes, sweep, reclaim, mode, apiserver,
                   working, ghosts>>

(* PublishAssign succeeded: on to the next member of the cohort, or to the *)
(* victim of the preemption, or to the Redis update.                       *)
Publish(l) ==
    /\ loop[l].pc = "publish"
    /\ working' = working \cup {<<loop[l].task, loop[l].picks[loop[l].i]>>}
    /\ loop' = [loop EXCEPT ![l] =
                  [@ EXCEPT !.i = loop[l].i + 1,
                            !.pc = IF loop[l].i < Len(loop[l].picks) THEN "record"
                                   ELSE IF loop[l].victim # NoTask THEN "release"
                                   ELSE "flush"]]
    /\ UNCHANGED <<tasksTable, row, redis, notes, sweep, reclaim, mode,
                   apiserver, ghosts>>

(* PublishAssign failed or timed out; the command may have been delivered  *)
(* all the same.  The claim stays, and the victim, if any, is not touched. *)
PublishFails(l) ==
    /\ loop[l].pc = "publish" /\ "publish" \in Faults
    /\ working' \in {working,
                     working \cup {<<loop[l].task, loop[l].picks[loop[l].i]>>}}
    /\ loop' = [loop EXCEPT ![l] =
                  [@ EXCEPT !.pc = IF loop[l].i > 1 THEN "unrecord" ELSE "flush",
                            !.victim = NoTask]]
    /\ UNCHANGED <<tasksTable, row, redis, notes, sweep, reclaim, mode,
                   apiserver, ghosts>>

(* The UPDATE by which a telescope gives its row up.                       *)
Release(t, n) == row' = [row EXCEPT ![t][n].status = "released"]

(* ReleaseCohort of the member whose command could not be published.       *)
Unrecord(l) ==
    LET t == loop[l].task
        n == loop[l].picks[loop[l].i] IN
    /\ loop[l].pc = "unrecord"
    /\ ~Locked(t, n)
    /\ loop' = [loop EXCEPT ![l].pc = "flush"]
    /\ \/ Active(t, n) /\ row[t][n].role = "cohort" /\ Release(t, n)
       \/ /\ ~(Active(t, n) /\ row[t][n].role = "cohort") \/ "release" \in Faults
          /\ UNCHANGED row
    /\ UNCHANGED <<tasksTable, redis, notes, sweep, reclaim, mode, apiserver,
                   working, ghosts>>

(* The WHERE clause of clearTaskAssignment.                                *)
StillHeld(v, n) == status[v] = "assigned" /\ owner[v] \in {NoNode, n}

(* clearTaskAssignment, first statement: the victim goes back to pending   *)
(* if this telescope still owns it.                                        *)
ReleaseVictim(l) ==
    LET v == loop[l].victim
        held == StillHeld(v, loop[l].picks[1]) IN
    /\ loop[l].pc = "release"
    /\ \/ /\ held
          /\ status' = [status EXCEPT ![v] = "pending"]
          /\ owner' = [owner EXCEPT ![v] = NoNode]
          /\ returns' = [returns EXCEPT ![v] = @ + 1]
          /\ loop' = [loop EXCEPT ![l].pc = "releaseRow"]
       \/ /\ ~held
          /\ loop' = [loop EXCEPT ![l].pc = "releaseRow"]
          /\ UNCHANGED <<status, owner, returns>>
       \/ /\ "release" \in Faults
          /\ loop' = [loop EXCEPT ![l].pc = "flush"]
          /\ UNCHANGED <<status, owner, returns>>
    /\ UNCHANGED <<failures, cooling, row, redis, notes, sweep, reclaim,
                   mode, apiserver, working, claims, crashes, lost>>

(* clearTaskAssignment, second statement: the victim's row on this         *)
(* telescope is released.                                                  *)
ReleaseVictimRow(l) ==
    LET v == loop[l].victim
        n == loop[l].picks[1] IN
    /\ loop[l].pc = "releaseRow"
    /\ ~Locked(v, n)
    /\ loop' = [loop EXCEPT ![l].pc = "flush"]
    /\ \/ Active(v, n) /\ Release(v, n)
       \/ (~Active(v, n) \/ "release" \in Faults) /\ UNCHANGED row
    /\ UNCHANGED <<tasksTable, redis, notes, sweep, reclaim, mode, apiserver,
                   working, ghosts>>

(* Flush: the pipeline of the whole assignment.  The victim is queued, the *)
(* telescopes whose command went out are marked busy with the task, and    *)
(* the task leaves tasks:queued.                                           *)
Flush(l) ==
    LET t == loop[l].task
        busy == {loop[l].picks[k] : k \in 1..(loop[l].i - 1)} IN
    /\ loop[l].pc = "flush"
    /\ Drop(l)
    /\ \/ /\ queued' = (queued \cup ({loop[l].victim} \ {NoTask})) \ {t}
          /\ marker' = [n \in Nodes |-> IF n \in busy THEN t ELSE marker[n]]
          /\ UNCHANGED <<parked, notes, lost>>
       \/ /\ "flush" \in Faults
          /\ UNCHANGED <<queued, marker, parked, notes>>
          /\ Losing({loop[l].victim} \ {NoTask})
    /\ UNCHANGED <<tasksTable, row, sweep, reclaim, mode, apiserver, working,
                   returns, claims, crashes>>
-----------------------------------------------------------------------------
(* reclaimLoop.                                                            *)

(* No pass of a loop has the task in hand.                                 *)
Unhandled(t) == \A l \in Loops : t \notin {loop[l].task, loop[l].victim}

(* TASK_LEASE_TTL passes without a renewal.  Unless delayed, the TTL is    *)
(* longer than one pass of a loop: 15 minutes, against a few round trips   *)
(* and at most MaxCohort publishes of two seconds each.                    *)
LeaseLapses(t, n) ==
    /\ "pass" \in Delays \/ Unhandled(t)
    /\ Active(t, n) /\ ~row[t][n].lapsed
    /\ row' = [row EXCEPT ![t][n].lapsed = TRUE]
    /\ UNCHANGED <<tasksTable, redis, notes, orch, apiserver, working, ghosts>>

(* The backoff window since last_assignment_attempt_at runs out.  Unless   *)
(* delayed, it outlasts the pass or the reclaim that stamped it: two       *)
(* minutes at least (TASK_RECLAIM_BACKOFF_BASE).                           *)
BackoffEnds(t) ==
    /\ "pass" \in Delays \/ (Unhandled(t) /\ reclaim.task # t)
    /\ t \in cooling
    /\ cooling' = cooling \ {t}
    /\ UNCHANGED <<status, owner, failures, row, redis, notes, orch, apiserver,
                   working, ghosts>>

(* reclaimExpiredLeases reads the lapsed rows once, then works through     *)
(* what it read.                                                           *)
SweepLeases ==
    /\ mode = "running" /\ sweep = {} /\ reclaim.pc = "idle"
    /\ sweep' = {p \in Tasks \X Nodes : Active(p[1], p[2]) /\ row[p[1]][p[2]].lapsed}
    /\ sweep' # {}
    /\ UNCHANGED <<tasksTable, row, redis, notes, loop, reclaim, mode,
                   apiserver, working, ghosts>>

(* reclaimOne opens its transaction: the row is expired if still active,   *)
(* and the other active assignees are read, before the task row is locked. *)
(* The uncommitted row change shows only as the row lock.                  *)
BeginReclaim ==
    /\ reclaim.pc = "idle"
    /\ \E p \in sweep :
          /\ sweep' = sweep \ {p}
          /\ IF Active(p[1], p[2])
             THEN reclaim' = [Resting EXCEPT
                                !.pc = "decide", !.task = p[1], !.node = p[2],
                                !.left = {n \in Nodes \ {p[2]} : Active(p[1], n)}]
             ELSE UNCHANGED reclaim
    /\ UNCHANGED <<tasksTable, row, redis, notes, loop, mode, apiserver,
                   working, ghosts>>

\* Mutant: the limit is compared with the count before this loss.
ReclaimActLate(t) == IF status[t] # "assigned" \/ reclaim.left # {} THEN "none"
                     ELSE IF MaxFailures > 0 /\ failures[t] >= MaxFailures THEN "expire"
                     ELSE "requeue"

\* Mutant: a task that was completed in the meantime is requeued as well.
ReclaimActAny(t) == IF status[t] = "absent" \/ reclaim.left # {} THEN "none"
                    ELSE IF MaxFailures > 0 /\ failures[t] + 1 >= MaxFailures
                         THEN "expire"
                    ELSE "requeue"

(* The decision under the task's row lock: decideReclaim, for a task that  *)
(* is still active.                                                        *)
ReclaimAct(t) == IF status[t] # "assigned" \/ reclaim.left # {} THEN "none"
                 ELSE IF MaxFailures > 0 /\ failures[t] + 1 >= MaxFailures THEN "expire"
                 ELSE "requeue"

\* Mutant: assigned_telescope_id is not set to NULL.
MoveTaskKeepsOwner(t, act) ==
    /\ status' = [status EXCEPT ![t] = IF act = "expire" THEN "expired" ELSE "pending"]
    /\ failures' = [failures EXCEPT ![t] = @ + 1]
    /\ cooling' = cooling \cup {t}
    /\ returns' = IF act = "expire" THEN returns ELSE [returns EXCEPT ![t] = @ + 1]
    /\ UNCHANGED owner

(* The UPDATE of the task row that goes with the decision.                 *)
MoveTask(t, act) ==
    /\ status' = [status EXCEPT ![t] = IF act = "expire" THEN "expired" ELSE "pending"]
    /\ owner' = [owner EXCEPT ![t] = NoNode]
    /\ failures' = [failures EXCEPT ![t] = @ + 1]
    /\ cooling' = cooling \cup {t}
    /\ returns' = IF act = "expire" THEN returns ELSE [returns EXCEPT ![t] = @ + 1]

(* The rest of reclaimOne's transaction, to its commit.                    *)
CommitReclaim ==
    LET t == reclaim.task
        act == ReclaimAct(t) IN
    /\ reclaim.pc = "decide"
    /\ row' = [row EXCEPT ![t][reclaim.node].status = "expired"]
    /\ IF act = "none" THEN UNCHANGED <<tasksTable, returns>> ELSE MoveTask(t, act)
    /\ UNCHANGED <<redis, notes, loop, sweep, mode, apiserver, working, claims,
                   crashes>>

(* The transaction commits: the telescope and the queue come next.         *)
DecideReclaim ==
    /\ CommitReclaim
    /\ reclaim' = [reclaim EXCEPT !.pc = "marker", !.act = ReclaimAct(reclaim.task)]
    /\ UNCHANGED lost

(* The transaction fails and rolls back; the row lock goes with it.        *)
ReclaimFails ==
    /\ reclaim.pc = "decide" /\ "reclaim" \in Faults
    /\ reclaim' = Resting
    /\ UNCHANGED <<tasksTable, row, redis, notes, loop, sweep, mode,
                   apiserver, working, ghosts>>

(* The COMMIT is answered with an error after the server applied it: the   *)
(* function returns before it frees the marker and queues the task.        *)
ReclaimUnheard ==
    /\ "reclaimCommit" \in Faults
    /\ CommitReclaim
    /\ reclaim' = Resting
    /\ lost' = IF ReclaimAct(reclaim.task) = "requeue"
               THEN lost \cup ({reclaim.task} \ queued) ELSE lost

\* Mutant: only a task that was requeued or expired gives its node free.
FreeReclaimedNodeIfMoved ==
    /\ reclaim.pc = "marker"
    /\ reclaim' = [reclaim EXCEPT !.pc = "queue"]
    /\ \/ marker' = [marker EXCEPT ![reclaim.node] =
                       IF @ = reclaim.task /\ reclaim.act # "none" THEN NoTask ELSE @]
       \/ "flush" \in Faults /\ UNCHANGED marker
    /\ UNCHANGED <<tasksTable, row, queued, parked, notes, loop, sweep, mode,
                   apiserver, working, ghosts>>

(* clearReclaimedNode: WATCH, compare, clear.                              *)
FreeReclaimedNode ==
    /\ reclaim.pc = "marker"
    /\ reclaim' = [reclaim EXCEPT !.pc = "queue"]
    /\ \/ marker' = [marker EXCEPT ![reclaim.node] =
                       IF @ = reclaim.task THEN NoTask ELSE @]
       \/ "flush" \in Faults /\ UNCHANGED marker
    /\ UNCHANGED <<tasksTable, row, queued, parked, notes, loop, sweep, mode,
                   apiserver, working, ghosts>>

(* The queue half of the reclaim's Redis cleanup.                          *)
QueueReclaimed ==
    /\ reclaim.pc = "queue"
    /\ reclaim' = Resting
    /\ \/ queued' = CASE reclaim.act = "requeue" -> queued \cup {reclaim.task}
                      [] reclaim.act = "expire" -> queued \ {reclaim.task}
                      [] OTHER -> queued
       \/ "flush" \in Faults /\ UNCHANGED queued
    /\ UNCHANGED <<tasksTable, row, parked, marker, notes, loop, sweep, mode,
                   apiserver, working, returns, claims, crashes>>
    /\ Losing(IF reclaim.act = "requeue" THEN {reclaim.task} ELSE {})
-----------------------------------------------------------------------------
(* The planner loads each task of the planned lane again.                  *)
(* A task in backoff or of a paused campaign stays where it is.  Otherwise *)
(* it leaves the planned lane: interrupt work is promoted to the hot path, *)
(* planned work goes onto a telescope's agenda, which no component reads   *)
(* back, and what is not assignable or cannot be read is dropped.          *)
Plan(t) ==
    /\ mode = "running" /\ t \in parked
    /\ parked' = parked \ {t}
    /\ \/ /\ Assignable(t) /\ t \notin cooling /\ t \notin PlannedLane
          /\ Enqueue(queued, t)
       \/ /\ \/ ~Assignable(t)
             \/ t \in PlannedLane \ cooling
             \/ "fetch" \in Faults
          /\ UNCHANGED queued
    /\ UNCHANGED <<tasksTable, row, marker, notes, orch, apiserver, working,
                   returns, claims, crashes>>
    /\ Losing({t})
-----------------------------------------------------------------------------
(* Restarts of the orchestrator.                                           *)

(* The process dies between any two steps and comes back: an open          *)
(* transaction rolls back, the start-up cleanup deletes the queues, and    *)
(* notifications sent while nobody listened are gone.                      *)
Crash ==
    /\ crashes < MaxCrashes /\ mode = "running"
    /\ crashes' = crashes + 1
    /\ mode' = "starting"
    /\ loop' = [l \in Loops |-> Idle]
    /\ sweep' = {} /\ reclaim' = Resting
    /\ queued' = {} /\ parked' = {} /\ notes' = {}
    /\ UNCHANGED <<tasksTable, row, marker, apiserver, working, returns, claims,
                   lost>>

(* recoverPendingTasks, after LISTEN and before the loops start.  Of a     *)
(* pipeline that fails any part may have been executed.                    *)
Recover ==
    LET waiting == {t \in Tasks : Assignable(t)} IN
    /\ mode = "starting"
    /\ mode' = "running"
    /\ \E found \in SUBSET waiting :
          /\ found = waiting \/ "recover" \in Faults
          /\ queued' = queued \cup found
          /\ lost' = (lost \ found) \cup (waiting \ (found \cup notes))
    /\ UNCHANGED <<tasksTable, row, parked, marker, notes, loop, sweep,
                   reclaim, apiserver, working, returns, claims, crashes>>
-----------------------------------------------------------------------------
(* The apiserver.                                                          *)

(* handleCreateTask: the INSERT trigger sends the NOTIFY.                  *)
Create(t) ==
    /\ status[t] = "absent"
    /\ status' = [status EXCEPT ![t] = "pending"]
    /\ notes' = notes \cup {t}
    /\ UNCHANGED <<owner, failures, cooling, row, redis, orch, apiserver,
                   working, ghosts>>

(* handlePatchTask, the check: only an unassigned pending task is edited.  *)
CheckPatch(t) ==
    /\ "patch" \in Requests
    /\ Assignable(t)
    /\ patching' = patching \cup {t}
    /\ UNCHANGED <<tasksTable, row, redis, notes, orch, api, working, ghosts>>

(* handlePatchTask, the transaction: insert the edited copy and supersede  *)
(* the original, whatever it has become since the check.                   *)
CommitPatch(t) ==
    /\ t \in patching
    /\ patching' = patching \ {t}
    /\ \/ \E new \in Tasks :
             /\ status[new] = "absent"
             /\ status' = [status EXCEPT ![t] = "superseded", ![new] = "pending"]
             /\ notes' = notes \cup {new}
       \/ "patch" \in Faults /\ UNCHANGED <<status, notes>>
    /\ UNCHANGED <<owner, failures, cooling, row, redis, orch, api, working,
                   ghosts>>

(* handleCompleteTask: the compare-and-set on the task row.                *)
Complete(t) ==
    /\ "complete" \in Requests
    /\ status[t] \in Contract!Open /\ api[t].pc = "idle"
    /\ status' = [status EXCEPT ![t] = "completed"]
    /\ api' = [api EXCEPT ![t].pc = "rows"]
    /\ UNCHANGED <<owner, failures, cooling, row, redis, notes, orch, patching,
                   working, ghosts>>

(* handleCompleteTask, next: every active assignment row is completed, and *)
(* clearNodeAssignmentForTask lists the telescopes to visit.               *)
CompleteRows(t) ==
    /\ api[t].pc = "rows"
    /\ \A n \in Nodes : ~Locked(t, n)
    /\ row' = [row EXCEPT ![t] = [n \in Nodes |->
                 IF Active(t, n) THEN [row[t][n] EXCEPT !.status = "completed"]
                                 ELSE row[t][n]]]
    /\ api' = [api EXCEPT ![t] =
                 [pc |-> "nodes", node |-> NoNode,
                  todo |-> {n \in Nodes : row[t][n].status # "none" \/ owner[t] = n}]]
    /\ UNCHANGED <<tasksTable, redis, notes, orch, patching, working, ghosts>>

(* clearNodeAssignmentForTask reads one telescope's marker and compares.   *)
PeekNode(t) ==
    /\ api[t].pc = "nodes"
    /\ \/ \E n \in api[t].todo :
             api' = [api EXCEPT ![t] =
                       [@ EXCEPT !.todo = api[t].todo \ {n},
                                 !.node = IF marker[n] = t THEN n ELSE NoNode,
                                 !.pc = IF marker[n] = t THEN "clear" ELSE "nodes"]]
       \/ api[t].todo = {} /\ api' = [api EXCEPT ![t] = NoRequest]
    /\ UNCHANGED <<tasksTable, row, redis, notes, orch, patching, working, ghosts>>

(* Then it deletes the marker, in a round trip of its own.                 *)
ClearNode(t) ==
    /\ api[t].pc = "clear"
    /\ marker' = [marker EXCEPT ![api[t].node] = NoTask]
    /\ api' = [api EXCEPT ![t] = [@ EXCEPT !.pc = "nodes", !.node = NoNode]]
    /\ UNCHANGED <<tasksTable, row, queued, parked, notes, orch, patching,
                   working, ghosts>>

(* The request's context ends, or the apiserver does, between two of the   *)
(* steps above: what is left of the handler does not happen.               *)
Abandon(t) ==
    /\ "request" \in Faults /\ api[t].pc # "idle"
    /\ api' = [api EXCEPT ![t] = NoRequest]
    /\ UNCHANGED <<tasksTable, row, redis, notes, orch, patching, working, ghosts>>

(* applyTaskBudgetDebit: the grade of an assignee's frame fills the        *)
(* integration budget, which completes any task not yet completed or       *)
(* superseded, and leaves the assignment rows and the markers alone.       *)
FillBudget(t) ==
    /\ "grade" \in Requests
    /\ \E n \in Nodes : row[t][n].status # "none"
    /\ status[t] \notin {"completed", "superseded"}
    /\ status' = [status EXCEPT ![t] = "completed"]
    /\ UNCHANGED <<owner, failures, cooling, row, redis, notes, orch,
                   apiserver, working, ghosts>>
-----------------------------------------------------------------------------
(* The collector and the piers.                                            *)

(* renewTaskLease, on telemetry of a pier that reports this task.          *)
Renew(t, n) ==
    /\ <<t, n>> \in working
    /\ Active(t, n) /\ row[t][n].lapsed /\ ~Locked(t, n)
    /\ row' = [row EXCEPT ![t][n].lapsed = FALSE]
    /\ UNCHANGED <<tasksTable, redis, notes, orch, apiserver, working, ghosts>>

(* The pier finishes, aborts or dies: it reports the task no more.         *)
PierStops(t, n) ==
    /\ <<t, n>> \in working
    /\ working' = working \ {<<t, n>>}
    /\ UNCHANGED <<tasksTable, row, redis, notes, orch, apiserver, ghosts>>

(* reconcileNodeState: an idle heartbeat of a telescope whose marked task  *)
(* Postgres says is completed or expired.                                  *)
Reconcile(n) ==
    /\ marker[n] # NoTask
    /\ status[marker[n]] \in {"completed", "expired"}
    /\ marker' = [marker EXCEPT ![n] = NoTask]
    /\ UNCHANGED <<tasksTable, row, queued, parked, notes, orch, apiserver,
                   working, ghosts>>
-----------------------------------------------------------------------------
Take == TakeNote \/ LoseNotes \/ PopQueued
LoopStep(l) == \/ Fetch(l) \/ Select(l) \/ Claim(l) \/ Record(l)
               \/ Publish(l) \/ PublishFails(l) \/ Unrecord(l)
               \/ ReleaseVictim(l) \/ ReleaseVictimRow(l) \/ Flush(l)
ReclaimStep == \/ BeginReclaim \/ DecideReclaim
               \/ ReclaimFails \/ ReclaimUnheard
               \/ FreeReclaimedNode \/ QueueReclaimed
ApiStep(t) == \/ Create(t) \/ CheckPatch(t) \/ CommitPatch(t) \/ Complete(t)
              \/ CompleteRows(t) \/ PeekNode(t) \/ ClearNode(t) \/ Abandon(t)
              \/ FillBudget(t)
PairStep(t, n) == LeaseLapses(t, n) \/ Renew(t, n) \/ PierStops(t, n)

Next == \/ Take
        \/ \E l \in Loops : LoopStep(l)
        \/ SweepLeases \/ ReclaimStep
        \/ \E t \in Tasks : Plan(t) \/ ApiStep(t) \/ BackoffEnds(t)
        \/ \E t \in Tasks, n \in Nodes : PairStep(t, n)
        \/ \E n \in Nodes : Reconcile(n)
        \/ Crash \/ Recover

Spec == Init /\ [][Next]_vars

(* The loops are goroutines that never stop, time passes, piers finish or  *)
(* die, and the planner and the collector run on their timers.  Time       *)
(* passes also while loops pass over the task, hence the strong fairness.  *)
(* No researcher has to act and no call has to fail.                       *)
Fairness ==
    /\ WF_vars(TakeNote) /\ WF_vars(PopQueued) /\ WF_vars(SweepLeases)
    /\ WF_vars(ReclaimStep) /\ WF_vars(Recover)
    /\ \A l \in Loops : WF_vars(LoopStep(l))
    /\ \A t \in Tasks : SF_vars(BackoffEnds(t))
    /\ \A t \in Tasks : WF_vars(Plan(t)) /\ WF_vars(CompleteRows(t))
                        /\ WF_vars(PeekNode(t)) /\ WF_vars(ClearNode(t))
    /\ \A t \in Tasks, n \in Nodes :
          SF_vars(LeaseLapses(t, n)) /\ WF_vars(PierStops(t, n))
    /\ \A n \in Nodes : WF_vars(Reconcile(n))

FairSpec == Spec /\ Fairness
-----------------------------------------------------------------------------
(* Properties.                                                             *)

LoopPC == {"idle", "fetch", "select", "claim", "publish", "record",
           "unrecord", "release", "releaseRow", "flush"}

(* Every variable stays in its type.                                       *)
TypeOK ==
    /\ Contract!CTypeOK
    /\ row \in [Tasks -> [Nodes ->
          [status : {"none", "assigned", "completed", "released", "expired"},
           role : {"primary", "cohort"}, lapsed : BOOLEAN]]]
    /\ cooling \subseteq Tasks
    /\ queued \subseteq Tasks /\ parked \subseteq Tasks /\ notes \subseteq Tasks
    /\ marker \in [Nodes -> Tasks \cup {NoTask}]
    /\ loop \in [Loops -> [pc : LoopPC, task : Tasks \cup {NoTask},
                           picks : Seq(Nodes), i : Nat,
                           victim : Tasks \cup {NoTask}]]
    /\ sweep \subseteq Tasks \X Nodes
    /\ reclaim \in [pc : {"idle", "decide", "marker", "queue"},
                    task : Tasks \cup {NoTask}, node : Nodes \cup {NoNode},
                    left : SUBSET Nodes, act : {"none", "requeue", "expire"}]
    /\ mode \in {"running", "starting"}
    /\ api \in [Tasks -> [pc : {"idle", "rows", "nodes", "clear"},
                          todo : SUBSET Nodes, node : Nodes \cup {NoNode}]]
    /\ patching \subseteq Tasks /\ working \subseteq Tasks \X Nodes
    /\ returns \in [Tasks -> Nat] /\ claims \in [Tasks -> Nat] /\ crashes \in Nat
    /\ lost \subseteq Tasks

(* One dispatch per return to pending: however the two loops, restarts,    *)
(* failed commits and reclaims interleave, a task has been claimed once    *)
(* more than it was given back, or exactly as often (the compare-and-set   *)
(* of #400: "so a second path cannot win").                                *)
OneClaimPerReturn ==
    \A t \in Tasks :
        /\ status[t] \in {"absent", "pending"} => claims[t] = returns[t]
        /\ status[t] \in {"assigned", "expired"} => claims[t] = returns[t] + 1
        /\ status[t] \in {"completed", "superseded"} =>
              claims[t] \in {returns[t], returns[t] + 1}

(* The owner and failure-count columns keep what the contract says of them *)
(* although four writers that share no lock but the row's update them.     *)
OwnerMatchesStatus == Contract!OwnerMatchesStatus
FailureAccounting == Contract!FailureAccounting

(* No interleaving reopens a finished task.                                *)
TerminalIsFinal == Contract!TerminalIsFinal

(* A pending task is never forgotten: it is in a queue, on its way in a    *)
(* notification, in the hands of a loop that will claim or requeue it, or  *)
(* about to be queued by a reclaim, a preemption or a restart, or one of   *)
(* the calls whose failure is only logged has let go of it (see Losing and *)
(* its uses) and no restart has recovered it since.  Of a task that was    *)
(* preempted the code does not keep this (see the README).                 *)
Carried(t) ==
    \/ t \in queued \cup parked \cup notes
    \/ mode = "starting"
    \/ \E l \in Loops :
          \/ loop[l].task = t /\ loop[l].pc \in {"fetch", "select", "claim"}
          \/ loop[l].victim = t /\ loop[l].pc \in {"releaseRow", "flush"}
    \/ reclaim.task = t /\ reclaim.act = "requeue"

PendingIsCarried ==
    \A t \in Tasks : status[t] = "pending" => Carried(t) \/ t \in lost

(* An assigned task never stays assigned for ever.                         *)
AssignmentEnds ==
    \A t \in Tasks : status[t] = "assigned" ~> status[t] # "assigned"

(* A telescope is never left marked with one task for ever: the marker is  *)
(* what keeps the selector from giving it other work.                      *)
MarkerIsFreed ==
    \A n \in Nodes, t \in Tasks : marker[n] = t ~> marker[n] # t

(* An assigned task always has an active assignment row for the sweep to   *)
(* find, or its telescope's death would strand it.  The code as it is does *)
(* not keep this (see the README's finding).                               *)
AssignedHasRow ==
    \A t \in Tasks : status[t] = "assigned" => \E n \in Nodes : Active(t, n)

(* Every step of the server is a step of the contract.                     *)
Implements == Contract!CSpec
=============================================================================
