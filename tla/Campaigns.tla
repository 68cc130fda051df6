----------------------------- MODULE Campaigns -----------------------------
(***************************************************************************)
(* The life of one campaign: created as a draft, published (which expands  *)
(* its pack into tasks), paused, resumed and completed, while its tasks are*)
(* assigned and finished, and while its coverage plan is set by requests of*)
(* the researcher and refreshed by the orchestrator's replan loop.         *)
(*                                                                         *)
(* Every action is one SQL statement, or one transaction up to its commit; *)
(* what a handler has read earlier is in its local state.  A request may   *)
(* stop after any step: the ten seconds of campaignCtx are over, the server*)
(* restarts, or the database fails.                                        *)
(*                                                                         *)
(* A pack is reduced to its coverage intent and the gate status of its     *)
(* stored plan.  How leases lapse and how grades fill a budget is          *)
(* TaskLease and FramePipeline; here both may happen to any task the       *)
(* UPDATE allows.  Of the events sent to the researcher those of the life  *)
(* cycle are counted, the coverage ones are left out.                      *)
(***************************************************************************)
EXTENDS Integers

CONSTANTS
    Requests,       \* the requests that can be in progress at once
    Specs,          \* the tasks the pack expands to
    Added,          \* tasks the researcher may add by hand
    MaxCalls,       \* bound: how many requests are made
    MaxPasses       \* bound: passes of the replan loop

Tasks == Specs \cup Added
Nobody == "nobody"

ASSUME RequestsAssumption == Nobody \notin Requests
ASSUME SpecsAssumption == Specs \cap Added = {}
ASSUME BoundsAssumption == MaxCalls \in Nat /\ MaxPasses \in Nat

Intents == {"off", "soft", "hard"}
Gates == {"ok", "failed", "insufficient_data"}   \* "ok" is "degraded", too
Packs == [coverage : Intents, plan : Gates \cup {"none"}]
Statuses == {"none", "draft", "active", "paused", "completed"}

VARIABLES
    \* the campaign's row
    status, expanded, pack,
    lock,           \* the request that holds the row FOR UPDATE
    \* its tasks
    row,            \* each task's status
    copies,         \* how often each task of the pack has been inserted
    windowed,       \* the tasks with a handoff window
    \* local state
    call,           \* of each request: the call, its step, what it has read
    hand,           \* of the orchestrator: the tasks it is about to claim
    closing,        \* of the ingest: the tasks whose completion it follows up
    planner,        \* of the replan loop: its step and the pack it has read
    \* history
    unreported,     \* publications and completions less the events of them
    calls, passes

campaign == <<status, expanded, pack, lock>>
tasks == <<row, copies, windowed>>
local == <<call, hand, closing, planner>>
history == <<unreported, calls, passes>>
vars == <<campaign, tasks, local, history>>

Idle == [at |-> "idle", intent |-> "off", gate |-> "none", known |-> FALSE]
NoPlanner == [at |-> "idle", intent |-> "off", gate |-> "none"]

Init == /\ status = "none" /\ expanded = FALSE /\ lock = Nobody
        /\ pack = [coverage |-> "off", plan |-> "none"]
        /\ row = [t \in Tasks |-> "absent"]
        /\ copies = [s \in Specs |-> 0]
        /\ windowed = {}
        /\ call = [r \in Requests |-> Idle]
        /\ hand = [t \in Tasks |-> "none"]
        /\ closing = [t \in Tasks |-> "none"]
        /\ planner = NoPlanner
        /\ unreported = [e \in {"published", "completed"} |-> 0]
        /\ calls = 0 /\ passes = 0

\* An UPDATE of the row, or the foreign key of a task, waits for the holder.
RowFree == lock = Nobody

\* status NOT IN ('completed', 'superseded'): an expired task remains.  (A failed
\* or cancelled one would, too, but nothing writes these.)
Live == {t \in Tasks : row[t] \in {"pending", "assigned", "expired"}}

Arrives(r) == call[r].at = "idle" /\ calls < MaxCalls /\ calls' = calls + 1
Goes(r, l) == call' = [call EXCEPT ![r] = l]
At(r, s) == call[r].at = s
-----------------------------------------------------------------------------
(* Creating and publishing.  The transaction of a publication reads the row*)
(* FOR UPDATE and everything it writes shows at its commit.                *)

CreateCampaign(r, i) ==
    /\ Arrives(r) /\ status = "none"
    /\ status' = "draft" /\ pack' = [coverage |-> i, plan |-> "none"]
    /\ UNCHANGED <<expanded, lock, tasks, local, unreported, passes>>

\* Without the lock on the row.
PublishBeginUnlocked(r) ==
    /\ Arrives(r) /\ status # "none"
    /\ Goes(r, [Idle EXCEPT !.at = "publish", !.known = expanded])
    /\ UNCHANGED <<campaign, tasks, hand, closing, planner, unreported, passes>>

\* (An archived campaign is refused, but nothing archives one.)
PublishBegin(r) ==
    /\ Arrives(r) /\ status # "none" /\ RowFree
    /\ lock' = r
    /\ Goes(r, [Idle EXCEPT !.at = "publish", !.known = expanded])
    /\ UNCHANGED <<status, expanded, pack, tasks, hand, closing, planner,
                   unreported, passes>>

PublishCommit(r) ==
    /\ At(r, "publish")
    /\ IF call[r].known THEN UNCHANGED <<row, copies>>
       ELSE /\ row' = [t \in Tasks |->
                         IF t \in Specs THEN "pending" ELSE row[t]]
            /\ copies' = [s \in Specs |-> copies[s] + 1]
    /\ expanded' = TRUE /\ status' = "active" /\ lock' = Nobody
    /\ unreported' = [unreported EXCEPT !["published"] = @ + 1]
    /\ Goes(r, [Idle EXCEPT !.at = "tell"])
    /\ UNCHANGED <<pack, windowed, hand, closing, planner, calls, passes>>

PublishedEvent(r) ==
    /\ At(r, "tell")
    /\ unreported' = [unreported EXCEPT !["published"] = @ - 1]
    /\ Goes(r, Idle)
    /\ UNCHANGED <<campaign, tasks, hand, closing, planner, calls, passes>>

\* A request that ends early, refused, failed or out of time, rolls back.
Stops(r) == /\ ~At(r, "idle")
            /\ lock' = IF lock = r THEN Nobody ELSE lock
            /\ Goes(r, Idle)
            /\ UNCHANGED <<status, expanded, pack, tasks, hand, closing,
                           planner, history>>

AddCampaignTask(r, t) ==
    /\ Arrives(r) /\ status # "none" /\ RowFree
    /\ t \in Added /\ row[t] = "absent"
    /\ row' = [row EXCEPT ![t] = "pending"]
    /\ UNCHANGED <<campaign, copies, windowed, local, unreported, passes>>
-----------------------------------------------------------------------------
(* Pause and resume: the status is read and checked by one statement and   *)
(* written by the next.                                                    *)

CanPause(s) == s = "active"
CanResumeDraft(s) == s \in {"draft", "paused"}
CanResume(s) == s = "paused"

TransitionRead(r, target) ==
    /\ Arrives(r)
    /\ \/ target = "paused" /\ CanPause(status)
       \/ target = "active" /\ CanResume(status)
    /\ Goes(r, [Idle EXCEPT !.at = target])
    /\ UNCHANGED <<campaign, tasks, hand, closing, planner, unreported, passes>>

TransitionWrite(r) ==
    /\ call[r].at \in {"paused", "active"} /\ RowFree
    /\ status' = call[r].at
    /\ Goes(r, Idle)
    /\ UNCHANGED <<expanded, pack, lock, tasks, hand, closing, planner, history>>
-----------------------------------------------------------------------------
(* Coverage requests.  Setting an intent reads the pack and writes it back *)
(* whole, the plan with it unless the intent is off; applying one does the *)
(* same, plans, and writes the pack again with the plan.                   *)

Enabled(i) == i # "off"

\* What the greedy plan's gates can come to under an intent.
GatesOf(i) == IF Enabled(i) THEN Gates ELSE {"insufficient_data"}

WithIntent(p, i) == [coverage |-> i, plan |-> IF Enabled(i) THEN p.plan ELSE "none"]
WithPlan(i, g) == [coverage |-> i, plan |-> IF Enabled(i) THEN g ELSE "none"]

CoverageRead(r, step, i) ==
    /\ Arrives(r) /\ status # "none"
    /\ Goes(r, [at |-> step, intent |-> i, known |-> FALSE,
                gate |-> IF step = "plan" THEN "none" ELSE pack.plan])
    /\ UNCHANGED <<campaign, tasks, hand, closing, planner, unreported, passes>>

SetCoverage(r) == \E i \in Intents : CoverageRead(r, "set", i)
ApplyCoverage(r) == \/ \E i \in Intents : CoverageRead(r, "apply", i)
                    \/ CoverageRead(r, "plan", pack.coverage)

CoverageWrite(r) ==
    /\ call[r].at \in {"set", "apply"} /\ RowFree
    /\ pack' = WithIntent([pack EXCEPT !.plan = call[r].gate], call[r].intent)
    /\ Goes(r, IF At(r, "set") THEN Idle
               ELSE [call[r] EXCEPT !.at = "plan", !.gate = "none"])
    /\ UNCHANGED <<status, expanded, lock, tasks, hand, closing, planner,
                   unreported, calls, passes>>

\* A hard intent whose gates failed is answered 409 and nothing is planned.
GreedyFill(r) ==
    /\ At(r, "plan")
    /\ \E g \in GatesOf(call[r].intent) :
         Goes(r, IF call[r].intent = "hard" /\ g = "failed" THEN Idle
                 ELSE [call[r] EXCEPT !.at = "persist", !.gate = g])
    /\ UNCHANGED <<campaign, tasks, hand, closing, planner, history>>

PersistPlan(r) ==
    /\ At(r, "persist") /\ RowFree
    /\ pack' = WithPlan(call[r].intent, call[r].gate)
    /\ Goes(r, [call[r] EXCEPT !.at = "windows"])
    /\ UNCHANGED <<status, expanded, lock, tasks, hand, closing, planner,
                   unreported, calls, passes>>

OpenWindows(r) ==
    /\ At(r, "windows")
    /\ windowed' = IF ~Enabled(call[r].intent) THEN windowed \ Live
                   ELSE IF call[r].gate # "failed" THEN windowed \cup Live
                   ELSE windowed
    /\ Goes(r, Idle)
    /\ UNCHANGED <<campaign, row, copies, hand, closing, planner, history>>
-----------------------------------------------------------------------------
(* The replan loop of the orchestrator: one query reads the packs of every *)
(* campaign with coverage, the weather of every site is fetched, and each  *)
(* pack is written back with its new plan.                                 *)

ReplanRead ==
    /\ planner.at = "idle" /\ passes < MaxPasses
    /\ status \in {"active", "paused"} /\ Enabled(pack.coverage)
    /\ planner' = [at |-> "persist", intent |-> pack.coverage, gate |-> "none"]
    /\ passes' = passes + 1
    /\ UNCHANGED <<campaign, tasks, call, hand, closing, unreported, calls>>

\* The plan alone written into the pack as it is by then.
ReplanWritePlan ==
    /\ planner.at = "persist" /\ RowFree
    /\ \E g \in GatesOf(planner.intent) :
         /\ pack' = [pack EXCEPT !.plan = g]
         /\ planner' = [planner EXCEPT !.at = "windows", !.gate = g]
    /\ UNCHANGED <<status, expanded, lock, tasks, call, hand, closing, history>>

ReplanWrite ==
    /\ planner.at = "persist" /\ RowFree
    /\ \E g \in GatesOf(planner.intent) :
         /\ pack' = WithPlan(planner.intent, g)
         /\ planner' = [planner EXCEPT !.at = "windows", !.gate = g]
    /\ UNCHANGED <<status, expanded, lock, tasks, call, hand, closing, history>>

ReplanWindows ==
    /\ planner.at = "windows"
    /\ windowed' = IF planner.intent = "hard" /\ planner.gate = "failed"
                   THEN windowed ELSE windowed \cup Live
    /\ planner' = NoPlanner
    /\ UNCHANGED <<campaign, row, copies, call, hand, closing, history>>

\* The process ends, or the write fails and the pass goes on to the next one.
ReplanStops ==
    /\ planner.at # "idle" /\ planner' = NoPlanner
    /\ UNCHANGED <<campaign, tasks, call, hand, closing, history>>
-----------------------------------------------------------------------------
(* The orchestrator assigns a task: it reads the task with its campaign,   *)
(* selects, claims with a compare-and-set and renews the handoff window.   *)

AllowsAssign(s) == s = "active"

HydratePayload(t) ==
    /\ hand[t] = "none" /\ row[t] = "pending" /\ AllowsAssign(status)
    /\ hand' = [hand EXCEPT ![t] = IF Enabled(pack.coverage) THEN "covered"
                                   ELSE "plain"]
    /\ UNCHANGED <<campaign, tasks, call, closing, planner, history>>

Claim(t) ==
    /\ hand[t] \in {"covered", "plain"}
    /\ IF row[t] = "pending"
       THEN /\ row' = [row EXCEPT ![t] = "assigned"]
            /\ hand' = [hand EXCEPT ![t] = IF @ = "covered" THEN "roll" ELSE "none"]
       ELSE hand' = [hand EXCEPT ![t] = "none"] /\ UNCHANGED row
    /\ UNCHANGED <<campaign, copies, windowed, call, closing, planner, history>>

RollCoverageSession(t) ==
    /\ hand[t] = "roll"
    /\ windowed' = windowed \cup ({t} \cap Live)
    /\ hand' = [hand EXCEPT ![t] = "none"]
    /\ UNCHANGED <<campaign, row, copies, call, closing, planner, history>>

AssignStops(t) ==
    /\ hand[t] # "none" /\ hand' = [hand EXCEPT ![t] = "none"]
    /\ UNCHANGED <<campaign, tasks, call, closing, planner, history>>

\* The sweep of the lapsed leases opens the task again, or gives it up.
ReclaimTask(t) ==
    /\ row[t] = "assigned"
    /\ \E s \in {"pending", "expired"} : row' = [row EXCEPT ![t] = s]
    /\ UNCHANGED <<campaign, copies, windowed, local, history>>
-----------------------------------------------------------------------------
(* The ingest of the grade that earns a task's budget completes the task,  *)
(* whatever its status, counts what remains, and closes the campaign.  The *)
(* researcher may complete an open task too, of which nothing follows.     *)

Follows(t, step) == closing' = [closing EXCEPT ![t] = step]

FinishTask(t) ==
    /\ t \in Live /\ closing[t] = "none"
    /\ row' = [row EXCEPT ![t] = "completed"]
    /\ Follows(t, "count")
    /\ UNCHANGED <<campaign, copies, windowed, call, hand, planner, history>>

CompleteTask(t) ==
    /\ row[t] \in {"pending", "assigned"}
    /\ row' = [row EXCEPT ![t] = "completed"]
    /\ UNCHANGED <<campaign, copies, windowed, local, history>>

CountRemaining(t) ==
    /\ closing[t] = "count"
    /\ Follows(t, IF Live = {} THEN "close" ELSE "none")
    /\ UNCHANGED <<campaign, tasks, call, hand, planner, history>>

\* Closing without looking at what the UPDATE changed.
CloseAndTell(t) ==
    /\ closing[t] = "close" /\ RowFree
    /\ status' = IF status = "active" THEN "completed" ELSE status
    /\ unreported' = [unreported EXCEPT !["completed"] =
                        IF status = "active" THEN @ + 1 ELSE @]
    /\ Follows(t, "tell")
    /\ UNCHANGED <<expanded, pack, lock, tasks, call, hand, planner,
                   calls, passes>>

MaybeCompleteCampaign(t) ==
    /\ closing[t] = "close" /\ RowFree
    /\ IF status = "active"
       THEN /\ status' = "completed"
            /\ unreported' = [unreported EXCEPT !["completed"] = @ + 1]
            /\ Follows(t, "tell")
       ELSE UNCHANGED <<status, unreported>> /\ Follows(t, "none")
    /\ UNCHANGED <<expanded, pack, lock, tasks, call, hand, planner,
                   calls, passes>>

CompletedEvent(t) ==
    /\ closing[t] = "tell"
    /\ unreported' = [unreported EXCEPT !["completed"] = @ - 1]
    /\ Follows(t, "none")
    /\ UNCHANGED <<campaign, tasks, call, hand, planner, calls, passes>>

FollowUpStops(t) ==
    /\ closing[t] # "none" /\ Follows(t, "none")
    /\ UNCHANGED <<campaign, tasks, call, hand, planner, history>>
-----------------------------------------------------------------------------
RequestStep(r) ==
    \/ \E i \in Intents : CreateCampaign(r, i)
    \/ PublishBegin(r) \/ PublishCommit(r) \/ PublishedEvent(r)
    \/ \E t \in Added : AddCampaignTask(r, t)
    \/ \E target \in {"paused", "active"} : TransitionRead(r, target)
    \/ TransitionWrite(r)
    \/ SetCoverage(r) \/ ApplyCoverage(r) \/ CoverageWrite(r)
    \/ GreedyFill(r) \/ PersistPlan(r) \/ OpenWindows(r)
    \/ Stops(r)

Replan == ReplanRead \/ ReplanWrite \/ ReplanWindows \/ ReplanStops

TaskStep(t) ==
    \/ HydratePayload(t) \/ Claim(t) \/ RollCoverageSession(t) \/ AssignStops(t)
    \/ ReclaimTask(t) \/ CompleteTask(t)
    \/ FinishTask(t) \/ CountRemaining(t) \/ MaybeCompleteCampaign(t)
    \/ CompletedEvent(t) \/ FollowUpStops(t)

Next == \/ \E r \in Requests : RequestStep(r)
        \/ Replan
        \/ \E t \in Tasks : TaskStep(t)

Spec == Init /\ [][Next]_vars
-----------------------------------------------------------------------------
(* Every variable has a value of its type.                                 *)
TypeOK ==
    /\ status \in Statuses /\ expanded \in BOOLEAN /\ pack \in Packs
    /\ lock \in Requests \cup {Nobody}
    /\ row \in [Tasks -> {"absent", "pending", "assigned", "expired", "completed"}]
    /\ copies \in [Specs -> Nat] /\ windowed \subseteq Tasks
    /\ call \in [Requests ->
                   [at : {"idle", "publish", "tell", "paused", "active", "set",
                          "apply", "plan", "persist", "windows"},
                    intent : Intents, gate : Gates \cup {"none"}, known : BOOLEAN]]
    /\ hand \in [Tasks -> {"none", "covered", "plain", "roll"}]
    /\ closing \in [Tasks -> {"none", "count", "close", "tell"}]
    /\ planner \in [at : {"idle", "persist", "windows"}, intent : Intents,
                    gate : Gates \cup {"none"}]
    /\ unreported \in [{"published", "completed"} -> Int]
    /\ calls \in 0..MaxCalls /\ passes \in 0..MaxPasses

(* The pack is expanded once, however many publications run together, fail *)
(* before or after their commit and are asked for again: no task of it is  *)
(* inserted twice.                                                         *)
ExpandedOnce == \A s \in Specs : copies[s] = IF expanded THEN 1 ELSE 0

(* Nothing of a campaign that was never published is run: no task of it is *)
(* in the orchestrator's hands, assigned or given up, though one may have  *)
(* been added and even completed by hand or by a grade; and no pause,      *)
(* resume or completion takes the campaign out of draft.                   *)
NothingRunsUnpublished ==
    \/ status \notin {"none", "draft"}
    \/ \E t \in Tasks : hand[t] # "none" \/ row[t] \in {"assigned", "expired"}
    => expanded

(* A plan is stored only beside an intent that asks for one, although five *)
(* statements of three handlers and the replan loop write the pack, each   *)
(* from a pack read earlier.                                               *)
PlanOnlyWithIntent == pack.plan # "none" => Enabled(pack.coverage)

(* The researcher is told of a publication or a completion at most as often*)
(* as there was one: of two tasks that finish together one completes the   *)
(* campaign and reports it.                                                *)
EventsAreTrue == \A e \in DOMAIN unreported : unreported[e] >= 0

=============================================================================
