-------------------------- MODULE CampaignsProofs --------------------------
(***************************************************************************)
(* What Campaigns keeps for any requests, tasks and bounds: the pack is    *)
(* expanded once, nothing of a draft runs, a plan has its intent, and what *)
(* the researcher is told has happened. And what Deliveries keeps of the   *)
(* frames that the campaigns' and developers' inboxes give out.            *)
(*                                                                         *)
(* The expansion happens once because the publication that holds the row's *)
(* lock knows whether the pack was expanded (Locked); a task leaves        *)
(* "pending" for the orchestrator only once the campaign has left "draft"  *)
(* (Started); an event                                                     *)
(* is told by a request or a job that can be pointed at (Told). A delivery *)
(* is acknowledged of what a client has in its hands (InHand), and the     *)
(* worker of a campaign takes them in the order of their stamps (Followed).*)
(***************************************************************************)
EXTENDS Campaigns, Inboxes, FiniteSetTheorems, TLAPS

(* The publication in progress holds the lock, nobody else does, and what  *)
(* it read about the expansion is still so.                                *)
Locked ==
    /\ lock # Nobody => call[lock].at = "publish"
    /\ \A r \in Requests : call[r].at = "publish" => lock = r /\ call[r].known = expanded

(* A campaign that has left "draft", or is about to, has been expanded, and*)
(* a task is in the orchestrator's hands only of such a campaign.          *)
Started ==
    /\ status \notin {"none", "draft"} => expanded
    /\ \A r \in Requests : call[r].at \in {"paused", "active"} => expanded
    /\ \A t \in Tasks : hand[t] # "none" \/ row[t] \in {"assigned", "expired"} => expanded

CampaignInv == TypeOK /\ Locked /\ Started /\ ExpandedOnce /\ PlanOnlyWithIntent

Calls ==
    [at : {"idle", "publish", "tell", "paused", "active", "set", "apply", "plan",
           "persist", "windows"},
     intent : Intents, gate : Gates \cup {"none"}, known : BOOLEAN]

LEMMA InitInv == Init => CampaignInv
<1> SUFFICES ASSUME Init PROVE CampaignInv
  OBVIOUS
<1> USE DEF Init
<1>1. Idle \in Calls /\ NoPlanner \in [at : {"idle", "persist", "windows"}, intent : Intents,
                                      gate : Gates \cup {"none"}]
  BY DEF Idle, NoPlanner, Calls, Intents, Gates
<1>2. pack \in Packs /\ PlanOnlyWithIntent
  BY DEF Packs, Intents, Gates, PlanOnlyWithIntent
<1>3. TypeOK
  <2>1. call \in [Requests -> Calls]
    BY <1>1
  <2>2. 0 \in 0..MaxCalls /\ 0 \in 0..MaxPasses
    BY BoundsAssumption
  <2>3. unreported \in [{"published", "completed"} -> Int] /\ copies \in [Specs -> Nat]
    OBVIOUS
  <2> QED
    BY <1>1, <1>2, <2>1, <2>2, <2>3 DEF TypeOK, Calls, Statuses
<1>4. Locked
  BY DEF Locked, Idle
<1>5. Started
  BY DEF Started, Idle
<1>6. ExpandedOnce
  BY DEF ExpandedOnce
<1> QED
  BY <1>2, <1>3, <1>4, <1>5, <1>6 DEF CampaignInv

(* One request moves, the others stay where they are.                      *)
LEMMA GoesOn ==
    ASSUME TypeOK, NEW r \in Requests, NEW l \in Calls, Goes(r, l)
    PROVE  /\ call' \in [Requests -> Calls] /\ call'[r] = l
           /\ \A q \in Requests : q # r => call'[q] = call[q]
BY DEF TypeOK, Goes, Calls

LEMMA Locations ==
    ASSUME TypeOK, NEW r \in Requests
    PROVE  /\ call[r] \in Calls /\ Idle \in Calls /\ pack \in Packs
           /\ pack.coverage \in Intents /\ pack.plan \in Gates \cup {"none"}
BY DEF TypeOK, Calls, Idle, Intents, Gates, Packs

(* The type of everything but the calls.                                   *)
Rest ==
    /\ status \in Statuses /\ expanded \in BOOLEAN /\ pack \in Packs
    /\ lock \in Requests \cup {Nobody}
    /\ row \in [Tasks -> {"absent", "pending", "assigned", "expired", "completed"}]
    /\ copies \in [Specs -> Nat] /\ windowed \subseteq Tasks
    /\ hand \in [Tasks -> {"none", "covered", "plain", "roll"}]
    /\ closing \in [Tasks -> {"none", "count", "close", "tell"}]
    /\ planner \in [at : {"idle", "persist", "windows"}, intent : Intents,
                    gate : Gates \cup {"none"}]
    /\ unreported \in [{"published", "completed"} -> Int]
    /\ calls \in 0..MaxCalls /\ passes \in 0..MaxPasses

LEMMA Types == TypeOK <=> Rest /\ call \in [Requests -> Calls]
BY DEF TypeOK, Rest, Calls

(* A step of a request leaves the orchestrator, the ingest and the replan  *)
(* loop alone.  What it changes of the row is a case of its own.           *)
LEMMA RequestInv ==
    ASSUME CampaignInv, NEW r \in Requests, RequestStep(r)
    PROVE  CampaignInv'
<1> DEFINE Inv == Locked /\ Started /\ ExpandedOnce /\ PlanOnlyWithIntent
<1> USE RequestsAssumption
    DEF campaign, tasks, local, history, At, RowFree
<1>0. TypeOK /\ Rest /\ Inv /\ call \in [Requests -> Calls] /\ call[r] \in Calls /\ Idle \in Calls
      /\ Idle.at = "idle" /\ pack.coverage \in Intents /\ pack.plan \in Gates \cup {"none"}
  BY Types, Locations DEF CampaignInv, Idle
<1>g. ASSUME NEW l \in Calls, Goes(r, l)
      PROVE  /\ call' \in [Requests -> Calls] /\ call'[r] = l
             /\ \A q \in Requests : q # r => call'[q] = call[q]
  BY <1>0, <1>g, GoesOn
<1>q. Rest' /\ (call \in [Requests -> Calls])' /\ Inv' => CampaignInv'
  BY Types DEF CampaignInv, Types, TypeOK, Rest, Calls
<1>n. ASSUME Arrives(r)
      PROVE  calls' \in 0..MaxCalls /\ call[r].at = "idle"
  BY <1>0, <1>n, BoundsAssumption DEF Arrives, Rest
(* A request that only reads, and goes to a place where it holds nothing.  *)
<1>r. ASSUME NEW l \in Calls, Goes(r, l), l.at \notin {"publish", "paused", "active"},
             call[r].at # "publish", UNCHANGED <<campaign, hand, closing, planner, unreported, row, copies>>,
             windowed' \subseteq Tasks, calls' \in 0..MaxCalls, passes' = passes
      PROVE  CampaignInv'
  <2>1. Rest'
    BY <1>0, <1>r DEF Rest
  <2>2. Locked'
    BY <1>0, <1>g, <1>r DEF Locked, Rest
  <2>3. Started'
    BY <1>0, <1>g, <1>r DEF Started
  <2>4. ExpandedOnce' /\ PlanOnlyWithIntent'
    BY <1>0, <1>r DEF ExpandedOnce, PlanOnlyWithIntent
  <2> QED
    BY <1>g, <1>q, <1>r, <2>1, <2>2, <2>3, <2>4
<1>1. ASSUME NEW i \in Intents, CreateCampaign(r, i) PROVE CampaignInv'
  <2> USE <1>1 DEF CreateCampaign
  <2>1. pack' \in Packs /\ PlanOnlyWithIntent'
    BY DEF PlanOnlyWithIntent, Packs, Gates
  <2>2. Rest' /\ (call \in [Requests -> Calls])'
    BY <1>0, <1>n, <2>1 DEF Rest, Statuses
  <2>3. Locked' /\ Started' /\ ExpandedOnce'
    BY <1>0 DEF Locked, Started, ExpandedOnce
  <2> QED
    BY <1>q, <2>1, <2>2, <2>3
<1>2. CASE PublishBegin(r)
  <2> DEFINE l == [Idle EXCEPT !.at = "publish", !.known = expanded]
  <2> USE <1>2 DEF PublishBegin
  <2>1. l \in Calls /\ l.at = "publish" /\ l.known = expanded
    BY <1>0 DEF Calls, Idle, Rest
  <2>2. Goes(r, l)
    OBVIOUS
  <2> HIDE DEF l
  <2>3. Rest' /\ (call \in [Requests -> Calls])'
    BY <1>0, <1>n, <1>g, <2>1, <2>2 DEF Rest
  <2>4. Locked'
    BY <1>0, <1>g, <2>1, <2>2 DEF Locked
  <2>5. Started'
    BY <1>0, <1>g, <2>1, <2>2 DEF Started
  <2>6. ExpandedOnce' /\ PlanOnlyWithIntent'
    BY <1>0 DEF ExpandedOnce, PlanOnlyWithIntent
  <2> QED
    BY <1>q, <2>3, <2>4, <2>5, <2>6
<1>3. CASE PublishCommit(r)
  <2> DEFINE l == [Idle EXCEPT !.at = "tell"]
  <2> USE <1>3 DEF PublishCommit
  <2>1. l \in Calls /\ l.at = "tell" /\ Goes(r, l)
    BY <1>0 DEF Calls, Idle
  <2> HIDE DEF l
  <2>2. lock = r /\ call[r].known = expanded
    BY <1>0 DEF Locked
  <2>3. row' \in [Tasks -> {"absent", "pending", "assigned", "expired", "completed"}]
        /\ copies' \in [Specs -> Nat]
    BY <1>0 DEF Rest
  <2>4. Rest'
    BY <1>0, <2>3 DEF Rest, Statuses
  <2>5. Locked'
    BY <1>0, <1>g, <2>1, <2>2 DEF Locked
  <2>6. Started'
    BY <1>0 DEF Started
  <2>7. ExpandedOnce' /\ PlanOnlyWithIntent'
    BY <1>0, <2>2 DEF ExpandedOnce, PlanOnlyWithIntent, Rest
  <2> QED
    BY <1>q, <1>g, <2>1, <2>4, <2>5, <2>6, <2>7
<1>4. CASE PublishedEvent(r)
  <2> USE <1>4 DEF PublishedEvent
  <2>1. Rest' /\ (call \in [Requests -> Calls])'
    BY <1>0, <1>g DEF Rest
  <2>2. Locked'
    BY <1>0, <1>g DEF Locked, Rest
  <2>3. Started'
    BY <1>0, <1>g DEF Started
  <2>4. ExpandedOnce' /\ PlanOnlyWithIntent'
    BY <1>0 DEF ExpandedOnce, PlanOnlyWithIntent
  <2> QED
    BY <1>q, <2>1, <2>2, <2>3, <2>4
<1>5. ASSUME NEW t \in Added, AddCampaignTask(r, t) PROVE CampaignInv'
  <2> USE <1>5 DEF AddCampaignTask
  <2>1. Rest' /\ (call \in [Requests -> Calls])'
    BY <1>0, <1>n DEF Rest
  <2>2. Locked' /\ Started' /\ ExpandedOnce' /\ PlanOnlyWithIntent'
    BY <1>0 DEF Locked, Started, ExpandedOnce, PlanOnlyWithIntent, Rest
  <2> QED
    BY <1>q, <2>1, <2>2
<1>6. ASSUME NEW target \in {"paused", "active"}, TransitionRead(r, target) PROVE CampaignInv'
  <2> DEFINE l == [Idle EXCEPT !.at = target]
  <2> USE <1>6 DEF TransitionRead
  <2>1. l \in Calls /\ l.at = target /\ Goes(r, l)
    BY <1>0 DEF Calls, Idle
  <2> HIDE DEF l
  <2>2. expanded
    BY <1>0 DEF CanPause, CanResume, Started
  <2>3. Rest' /\ (call \in [Requests -> Calls])'
    BY <1>0, <1>n, <1>g, <2>1 DEF Rest
  <2>4. Locked'
    BY <1>0, <1>n, <1>g, <2>1 DEF Locked, Rest
  <2>5. Started' /\ ExpandedOnce' /\ PlanOnlyWithIntent'
    BY <1>0, <2>2 DEF Started, ExpandedOnce, PlanOnlyWithIntent
  <2> QED
    BY <1>q, <2>3, <2>4, <2>5
<1>7. CASE TransitionWrite(r)
  <2> USE <1>7 DEF TransitionWrite
  <2>1. expanded
    BY <1>0 DEF Started
  <2>2. Rest' /\ (call \in [Requests -> Calls])'
    BY <1>0, <1>g DEF Rest, Statuses
  <2>3. Locked'
    BY <1>0, <1>g DEF Locked, Rest
  <2>4. Started' /\ ExpandedOnce' /\ PlanOnlyWithIntent'
    BY <1>0, <2>1 DEF Started, ExpandedOnce, PlanOnlyWithIntent
  <2> QED
    BY <1>q, <2>2, <2>3, <2>4
<1>8. ASSUME NEW i \in Intents, NEW step \in {"set", "apply", "plan"}, CoverageRead(r, step, i)
      PROVE CampaignInv'
  <2> DEFINE l == [at |-> step, intent |-> i, known |-> FALSE,
                   gate |-> IF step = "plan" THEN "none" ELSE pack.plan]
  <2> USE <1>8 DEF CoverageRead
  <2>1. l \in Calls /\ l.at = step /\ Goes(r, l)
    BY <1>0 DEF Calls
  <2> HIDE DEF l
  <2>2. windowed' \subseteq Tasks
    BY <1>0 DEF Rest
  <2> QED
    BY <1>n, <1>r, <2>1, <2>2
<1>9. CASE SetCoverage(r)
  BY <1>8, <1>9 DEF SetCoverage
<1>10. CASE ApplyCoverage(r)
  BY <1>0, <1>8, <1>10 DEF ApplyCoverage
<1>11. CASE CoverageWrite(r) \/ PersistPlan(r)
  <2> DEFINE next == IF CoverageWrite(r) /\ At(r, "set") THEN Idle
                     ELSE IF CoverageWrite(r)
                          THEN [call[r] EXCEPT !.at = "plan", !.gate = "none"]
                          ELSE [call[r] EXCEPT !.at = "windows"]
  <2>1. next \in Calls /\ next.at \in {"idle", "plan", "windows"} /\ call[r].at # "publish"
    BY <1>0, <1>11 DEF Calls, CoverageWrite, PersistPlan
  <2>2. Goes(r, next)
    BY <1>11, <1>0 DEF CoverageWrite, PersistPlan
  <2>3. pack' \in Packs /\ PlanOnlyWithIntent'
    BY <1>0, <1>11 DEF CoverageWrite, PersistPlan, WithIntent, WithPlan, Enabled, Packs, Intents, Gates,
       Calls, PlanOnlyWithIntent
  <2>4. UNCHANGED <<status, expanded, lock, tasks, hand, closing, planner, history>>
    BY <1>11 DEF CoverageWrite, PersistPlan
  <2> HIDE DEF next
  <2>5. Rest' /\ (call \in [Requests -> Calls])'
    BY <1>0, <1>g, <2>1, <2>2, <2>3, <2>4 DEF Rest
  <2>6. Locked'
    BY <1>0, <1>g, <2>1, <2>2, <2>4 DEF Locked, Rest
  <2>7. Started' /\ ExpandedOnce'
    BY <1>0, <1>g, <2>1, <2>2, <2>4 DEF Started, ExpandedOnce
  <2> QED
    BY <1>q, <2>3, <2>5, <2>6, <2>7
<1>12. CASE GreedyFill(r)
  <2>1. PICK g \in GatesOf(call[r].intent) :
          Goes(r, IF call[r].intent = "hard" /\ g = "failed" THEN Idle
                  ELSE [call[r] EXCEPT !.at = "persist", !.gate = g])
    BY <1>12 DEF GreedyFill
  <2> DEFINE l == IF call[r].intent = "hard" /\ g = "failed" THEN Idle
                  ELSE [call[r] EXCEPT !.at = "persist", !.gate = g]
  <2>2. g \in Gates
    BY DEF GatesOf, Gates
  <2>3. l \in Calls /\ l.at \notin {"publish", "paused", "active"} /\ Goes(r, l)
    BY <1>0, <2>1, <2>2 DEF Calls
  <2> HIDE DEF l
  <2>4. windowed' \subseteq Tasks /\ calls' \in 0..MaxCalls
    BY <1>0, <1>12 DEF Rest, GreedyFill
  <2> QED
    BY <1>r, <1>12, <2>3, <2>4 DEF GreedyFill
<1>13. CASE OpenWindows(r)
  <2>1. windowed' \subseteq Tasks /\ calls' \in 0..MaxCalls
    BY <1>0, <1>13 DEF Rest, OpenWindows, Live
  <2> QED
    BY <1>0, <1>r, <1>13, <2>1 DEF OpenWindows
<1>14. CASE Stops(r)
  <2> USE <1>14 DEF Stops
  <2>1. Rest' /\ (call \in [Requests -> Calls])'
    BY <1>0, <1>g DEF Rest
  <2>2. Locked'
    BY <1>0, <1>g DEF Locked, Rest
  <2>3. Started' /\ ExpandedOnce' /\ PlanOnlyWithIntent'
    BY <1>0, <1>g DEF Started, ExpandedOnce, PlanOnlyWithIntent
  <2> QED
    BY <1>q, <2>1, <2>2, <2>3
<1> QED
  BY <1>1, <1>2, <1>3, <1>4, <1>5, <1>6, <1>7, <1>9, <1>10, <1>11, <1>12, <1>13, <1>14,
     RequestStep(r)
     DEF RequestStep

(* The replan loop writes the plan beside the intent it has read.          *)
LEMMA ReplanInv ==
    ASSUME CampaignInv, Replan
    PROVE  CampaignInv'
<1> USE DEF campaign, tasks, local, history
<1>1. Rest /\ call \in [Requests -> Calls] /\ Locked /\ Started /\ ExpandedOnce
      /\ PlanOnlyWithIntent
  BY Types DEF CampaignInv
<1>2. Rest'
  <2>1. CASE ReplanRead
    <3>1. planner' \in [at : {"idle", "persist", "windows"}, intent : Intents,
                        gate : Gates \cup {"none"}]
      BY <1>1, <2>1 DEF ReplanRead, Rest, Packs
    <3>2. passes' \in 0..MaxPasses
      BY <1>1, <2>1, BoundsAssumption DEF ReplanRead, Rest
    <3> QED
      BY <1>1, <2>1, <3>1, <3>2 DEF ReplanRead, Rest
  <2>2. CASE ReplanWrite
    <3>1. PICK g \in GatesOf(planner.intent) :
            /\ pack' = WithPlan(planner.intent, g)
            /\ planner' = [planner EXCEPT !.at = "windows", !.gate = g]
      BY <2>2 DEF ReplanWrite
    <3>2. g \in Gates /\ planner.intent \in Intents
      BY <1>1 DEF GatesOf, Gates, Rest
    <3>3. pack' \in Packs
      BY <3>1, <3>2 DEF WithPlan, Packs
    <3>4. planner' \in [at : {"idle", "persist", "windows"}, intent : Intents,
                        gate : Gates \cup {"none"}]
      BY <1>1, <3>1, <3>2 DEF Rest
    <3> QED
      BY <1>1, <2>2, <3>3, <3>4 DEF ReplanWrite, Rest
  <2>3. CASE ReplanWindows
    BY <1>1, <2>3 DEF ReplanWindows, Rest, NoPlanner, Intents, Live
  <2>4. CASE ReplanStops
    BY <1>1, <2>4 DEF ReplanStops, Rest, NoPlanner, Intents
  <2> QED
    BY <2>1, <2>2, <2>3, <2>4, Replan DEF Replan
<1>3. PlanOnlyWithIntent'
  <2>1. CASE ReplanWrite
    BY <2>1 DEF ReplanWrite, WithPlan, PlanOnlyWithIntent, Enabled
  <2>2. CASE UNCHANGED pack
    BY <1>1, <2>2 DEF PlanOnlyWithIntent
  <2> QED
    BY <2>1, <2>2, Replan DEF Replan, ReplanRead, ReplanWindows, ReplanStops
<1>4. UNCHANGED <<call, lock, status, expanded, row, copies, hand>>
  BY Replan DEF Replan, ReplanRead, ReplanWrite, ReplanWindows, ReplanStops
<1>5. Locked' /\ Started' /\ ExpandedOnce' /\ (call \in [Requests -> Calls])'
  BY <1>1, <1>4 DEF Locked, Started, ExpandedOnce, Calls
<1> QED
  BY <1>2, <1>3, <1>5, Types DEF CampaignInv, TypeOK, Rest, Calls

(* A task is claimed, or completes its campaign, only when the campaign is *)
(* active or its task was taken in hand while it was.                      *)
LEMMA TaskInv ==
    ASSUME CampaignInv, NEW t \in Tasks, TaskStep(t)
    PROVE  CampaignInv'
<1> USE DEF campaign, tasks, local, history
<1>1. Rest /\ call \in [Requests -> Calls] /\ Locked /\ Started /\ ExpandedOnce
      /\ PlanOnlyWithIntent
  BY Types DEF CampaignInv
<1>2. Rest'
  <2>1. CASE HydratePayload(t)
    BY <1>1, <2>1 DEF HydratePayload, Rest
  <2>2. CASE Claim(t)
    BY <1>1, <2>2 DEF Claim, Rest
  <2>3. CASE RollCoverageSession(t)
    BY <1>1, <2>3 DEF RollCoverageSession, Rest
  <2>4. CASE AssignStops(t)
    BY <1>1, <2>4 DEF AssignStops, Rest
  <2>5. CASE FinishTask(t)
    BY <1>1, <2>5 DEF FinishTask, Follows, Rest
  <2>6. CASE CountRemaining(t)
    BY <1>1, <2>6 DEF CountRemaining, Follows, Rest
  <2>7. CASE MaybeCompleteCampaign(t)
    BY <1>1, <2>7 DEF MaybeCompleteCampaign, Follows, Rest, Statuses
  <2>8. CASE CompletedEvent(t)
    BY <1>1, <2>8 DEF CompletedEvent, Follows, Rest
  <2>9. CASE FollowUpStops(t)
    BY <1>1, <2>9 DEF FollowUpStops, Follows, Rest
  <2>10. CASE ReclaimTask(t) \/ CompleteTask(t)
    BY <1>1, <2>10 DEF ReclaimTask, CompleteTask, Rest
  <2> QED
    BY <2>1, <2>2, <2>3, <2>4, <2>5, <2>6, <2>7, <2>8, <2>9, <2>10, TaskStep(t) DEF TaskStep
<1>3. UNCHANGED <<call, lock, expanded, pack, copies>>
  BY TaskStep(t)
     DEF TaskStep, HydratePayload, Claim, RollCoverageSession, AssignStops, ReclaimTask, CompleteTask, FinishTask,
         CountRemaining, MaybeCompleteCampaign, CompletedEvent, FollowUpStops
<1>4. status' \notin {"none", "draft"} => expanded
  BY <1>1, TaskStep(t)
     DEF Started, TaskStep, HydratePayload, Claim, RollCoverageSession, AssignStops, ReclaimTask, CompleteTask, FinishTask,
         CountRemaining, MaybeCompleteCampaign, CompletedEvent, FollowUpStops
<1>5. expanded \/ (hand' = hand /\ \A u \in Tasks : row'[u] \in {row[u], "completed"})
  BY <1>1, TaskStep(t)
     DEF Started, Rest, TaskStep, HydratePayload, AllowsAssign, Claim, RollCoverageSession,
         AssignStops, ReclaimTask, CompleteTask, FinishTask, CountRemaining,
         MaybeCompleteCampaign, CompletedEvent, FollowUpStops
<1>6. Started' /\ Locked' /\ ExpandedOnce' /\ PlanOnlyWithIntent' /\ (call \in [Requests -> Calls])'
  BY <1>1, <1>3, <1>4, <1>5 DEF Started, Locked, ExpandedOnce, PlanOnlyWithIntent, Calls
<1> QED
  BY <1>2, <1>6, Types DEF CampaignInv, TypeOK, Rest, Calls

(* The inductive invariant.                                                *)
THEOREM CampaignInvariant == Spec => []CampaignInv
<1>1. CampaignInv /\ [Next]_vars => CampaignInv'
  <2> SUFFICES ASSUME CampaignInv, [Next]_vars PROVE CampaignInv'
    OBVIOUS
  <2>1. CASE UNCHANGED vars
    BY <2>1 DEF vars, campaign, tasks, local, history, CampaignInv, TypeOK, Locked, Started,
       ExpandedOnce, PlanOnlyWithIntent
  <2>2. CASE Next
    BY <2>2, RequestInv, ReplanInv, TaskInv DEF Next
  <2> QED
    BY <2>1, <2>2
<1> QED
  BY <1>1, InitInv, PTL DEF Spec

(* However publications overlap, fail and are repeated, the pack is        *)
(* expanded once (Publish, SELECT ... FOR UPDATE).                         *)
THEOREM CampaignExpandedOnce == Spec => []ExpandedOnce
BY CampaignInvariant, PTL DEF CampaignInv

(* Whatever requests, sweeps and grades overlap, no task of a campaign that*)
(* was never published is taken by the orchestrator, and the campaign      *)
(* stays a draft (AllowsAssign, CanResume).                                *)
THEOREM CampaignNothingUnpublished == Spec => []NothingRunsUnpublished
<1>1. CampaignInv => NothingRunsUnpublished
  BY DEF CampaignInv, Started, NothingRunsUnpublished
<1> QED
  BY <1>1, CampaignInvariant, PTL

(* A stored plan has its intent, whichever of the writers came last.       *)
THEOREM CampaignPlanWithIntent == Spec => []PlanOnlyWithIntent
BY CampaignInvariant, PTL DEF CampaignInv

(***************************************************************************)
(* What the researcher is told.  A request between the commit of its       *)
(* publication and its event, and a follow-up between the UPDATE and its   *)
(* event, each have one to send: no more wait to be sent than there were.  *)
(***************************************************************************)
Telling == {r \in Requests : call[r].at = "tell"}
Reporting == {t \in Tasks : closing[t] = "tell"}

Told == /\ IsFiniteSet(Telling) /\ unreported["published"] >= Cardinality(Telling)
        /\ IsFiniteSet(Reporting) /\ unreported["completed"] >= Cardinality(Reporting)

(* One more, one less.                                                     *)
LEMMA OneMore ==
    ASSUME NEW S, IsFiniteSet(S), NEW x
    PROVE  /\ Cardinality(S) \in Nat
           /\ IsFiniteSet(S \cup {x}) /\ Cardinality(S \cup {x}) \in Nat
           /\ Cardinality(S \cup {x}) <= Cardinality(S) + 1
BY FS_AddElement, FS_CardinalityType

LEMMA OneLess ==
    ASSUME NEW S, IsFiniteSet(S), NEW x
    PROVE  /\ Cardinality(S) \in Nat
           /\ IsFiniteSet(S \ {x}) /\ Cardinality(S \ {x}) \in Nat
           /\ Cardinality(S \ {x}) <= Cardinality(S)
           /\ x \in S => Cardinality(S \ {x}) = Cardinality(S) - 1
<1>1. CASE x \in S
  <2>1. IsFiniteSet(S \ {x}) /\ Cardinality(S \ {x}) = Cardinality(S) - 1
    BY <1>1, FS_RemoveElement
  <2>2. QED
    BY <1>1, <2>1, FS_CardinalityType
<1>2. CASE x \notin S
  <2>1. S \ {x} = S
    BY <1>2
  <2>2. Cardinality(S) \in Nat
    BY FS_CardinalityType
  <2>3. IsFiniteSet(S \ {x}) /\ Cardinality(S \ {x}) = Cardinality(S)
    BY <2>1, Zenon
  <2>4. QED
    BY <1>2, <2>2, <2>3
<1>3. QED
  BY <1>1, <1>2

(* A request goes somewhere else than to an event.                         *)
LEMMA GoesElsewhere ==
    ASSUME TypeOK, Told, NEW r \in Requests, NEW l \in Calls, Goes(r, l), l.at # "tell",
           UNCHANGED <<closing, unreported>>
    PROVE  Told'
<1>1. Telling' = Telling \ {r} /\ Reporting' = Reporting
  BY GoesOn DEF Telling, Reporting
<1>2. IsFiniteSet(Telling \ {r}) /\ Cardinality(Telling \ {r}) \in Nat
      /\ Cardinality(Telling) \in Nat /\ Cardinality(Telling \ {r}) <= Cardinality(Telling)
  BY OneLess DEF Told
<1>3. unreported["published"] \in Int
  BY DEF TypeOK
<1>4. QED
  BY <1>1, <1>2, <1>3 DEF Told

(* Nothing that counts changes.                                            *)
LEMMA TellsNothing ==
    ASSUME Told, UNCHANGED <<call, closing, unreported>>
    PROVE  Told'
<1>1. Telling' = Telling /\ Reporting' = Reporting
  BY DEF Telling, Reporting
<1>2. QED
  BY <1>1 DEF Told

LEMMA RequestTold ==
    ASSUME TypeOK, Told, NEW r \in Requests, RequestStep(r)
    PROVE  Told'
<1> USE DEF campaign, tasks, local, history, At, RowFree
<1>0. /\ call[r] \in Calls /\ Idle \in Calls /\ Idle.at = "idle"
      /\ pack.coverage \in Intents /\ pack.plan \in Gates \cup {"none"}
      /\ unreported \in [{"published", "completed"} -> Int] /\ expanded \in BOOLEAN
  BY Locations DEF TypeOK, Idle
<1>1. ASSUME NEW i \in Intents, CreateCampaign(r, i) PROVE Told'
  BY <1>1, TellsNothing DEF CreateCampaign
<1>2. CASE PublishBegin(r)
  <2>1. [Idle EXCEPT !.at = "publish", !.known = expanded] \in Calls
    BY <1>0 DEF Calls, Idle
  <2>2. [Idle EXCEPT !.at = "publish", !.known = expanded].at # "tell"
    BY DEF Idle
  <2>3. QED
    BY <1>2, <2>1, <2>2, GoesElsewhere DEF PublishBegin
<1>3. CASE PublishCommit(r)
  <2> DEFINE l == [Idle EXCEPT !.at = "tell"]
  <2>1. l \in Calls /\ l.at = "tell"
    BY <1>0 DEF Calls, Idle
  <2>2. Goes(r, l) /\ closing' = closing
        /\ unreported' = [unreported EXCEPT !["published"] = @ + 1]
    BY <1>3 DEF PublishCommit
  <2> HIDE DEF l
  <2>3. Telling' = Telling \cup {r} /\ Reporting' = Reporting
    BY <2>1, <2>2, GoesOn DEF Telling, Reporting
  <2>4. IsFiniteSet(Telling \cup {r}) /\ Cardinality(Telling \cup {r}) \in Nat
        /\ Cardinality(Telling) \in Nat /\ Cardinality(Telling \cup {r}) <= Cardinality(Telling) + 1
    BY OneMore DEF Told
  <2>5. unreported'["published"] = unreported["published"] + 1
        /\ unreported'["completed"] = unreported["completed"]
    BY <1>0, <2>2
  <2>6. unreported'["published"] >= Cardinality(Telling \cup {r})
    BY <1>0, <2>4, <2>5 DEF Told
  <2>7. QED
    BY <2>3, <2>4, <2>5, <2>6 DEF Told
<1>4. CASE PublishedEvent(r)
  <2>1. Goes(r, Idle) /\ closing' = closing /\ call[r].at = "tell"
        /\ unreported' = [unreported EXCEPT !["published"] = @ - 1]
    BY <1>4 DEF PublishedEvent
  <2>2. Telling' = Telling \ {r} /\ Reporting' = Reporting /\ r \in Telling
    BY <1>0, <2>1, GoesOn DEF Telling, Reporting
  <2>3. IsFiniteSet(Telling \ {r}) /\ Cardinality(Telling) \in Nat
        /\ Cardinality(Telling \ {r}) = Cardinality(Telling) - 1
    BY <2>2, OneLess DEF Told
  <2>4. unreported'["published"] = unreported["published"] - 1
        /\ unreported'["completed"] = unreported["completed"]
    BY <1>0, <2>1
  <2>5. unreported'["published"] >= Cardinality(Telling \ {r})
    BY <1>0, <2>3, <2>4 DEF Told
  <2>6. QED
    BY <2>2, <2>3, <2>4, <2>5 DEF Told
<1>5. ASSUME NEW t \in Added, AddCampaignTask(r, t) PROVE Told'
  BY <1>5, TellsNothing DEF AddCampaignTask
<1>6. ASSUME NEW target \in {"paused", "active"}, TransitionRead(r, target) PROVE Told'
  <2>1. [Idle EXCEPT !.at = target] \in Calls /\ [Idle EXCEPT !.at = target].at # "tell"
    BY <1>0 DEF Calls, Idle
  <2>2. QED
    BY <1>6, <2>1, GoesElsewhere DEF TransitionRead
<1>7. CASE TransitionWrite(r)
  BY <1>0, <1>7, GoesElsewhere DEF TransitionWrite
<1>8. ASSUME NEW s \in {"set", "apply", "plan"}, NEW i \in Intents, CoverageRead(r, s, i)
      PROVE  Told'
  <2> DEFINE l == [at |-> s, intent |-> i, known |-> FALSE,
                   gate |-> IF s = "plan" THEN "none" ELSE pack.plan]
  <2>1. l \in Calls /\ l.at # "tell"
    BY <1>0 DEF Calls
  <2>2. Goes(r, l) /\ UNCHANGED <<closing, unreported>>
    BY <1>8 DEF CoverageRead
  <2> HIDE DEF l
  <2>3. QED
    BY <2>1, <2>2, GoesElsewhere
<1>9. CASE CoverageWrite(r)
  <2> DEFINE l == IF At(r, "set") THEN Idle
                  ELSE [call[r] EXCEPT !.at = "plan", !.gate = "none"]
  <2>1. l \in Calls /\ l.at # "tell"
    BY <1>0 DEF Calls
  <2>2. Goes(r, l) /\ UNCHANGED <<closing, unreported>>
    BY <1>9 DEF CoverageWrite
  <2> HIDE DEF l
  <2>3. QED
    BY <2>1, <2>2, GoesElsewhere
<1>10. CASE GreedyFill(r)
  <2>1. PICK g \in GatesOf(call[r].intent) :
           Goes(r, IF call[r].intent = "hard" /\ g = "failed" THEN Idle
                   ELSE [call[r] EXCEPT !.at = "persist", !.gate = g])
    BY <1>10 DEF GreedyFill
  <2> DEFINE l == IF call[r].intent = "hard" /\ g = "failed" THEN Idle
                  ELSE [call[r] EXCEPT !.at = "persist", !.gate = g]
  <2>2. g \in Gates
    BY <2>1 DEF GatesOf, Gates
  <2>3. l \in Calls /\ l.at # "tell"
    BY <1>0, <2>2 DEF Calls
  <2>4. Goes(r, l) /\ UNCHANGED <<closing, unreported>>
    BY <1>10, <2>1 DEF GreedyFill
  <2> HIDE DEF l
  <2>5. QED
    BY <2>3, <2>4, GoesElsewhere
<1>11. CASE PersistPlan(r)
  <2>1. [call[r] EXCEPT !.at = "windows"] \in Calls /\ [call[r] EXCEPT !.at = "windows"].at # "tell"
    BY <1>0 DEF Calls
  <2>2. QED
    BY <1>11, <2>1, GoesElsewhere DEF PersistPlan
<1>12. CASE OpenWindows(r)
  BY <1>0, <1>12, GoesElsewhere DEF OpenWindows
<1>13. CASE Stops(r)
  BY <1>0, <1>13, GoesElsewhere DEF Stops
<1>14. QED
  BY <1>0, <1>1, <1>2, <1>3, <1>4, <1>5, <1>6, <1>7, <1>8, <1>9, <1>10, <1>11, <1>12, <1>13,
     RequestStep(r) DEF RequestStep, SetCoverage, ApplyCoverage

LEMMA TaskTold ==
    ASSUME TypeOK, Told, NEW t \in Tasks, TaskStep(t)
    PROVE  Told'
<1> USE DEF campaign, tasks, local, history
<1>0. /\ closing \in [Tasks -> {"none", "count", "close", "tell"}]
      /\ unreported \in [{"published", "completed"} -> Int]
  BY DEF TypeOK
<1>1. CASE HydratePayload(t) \/ Claim(t) \/ RollCoverageSession(t) \/ AssignStops(t)
          \/ ReclaimTask(t) \/ CompleteTask(t)
  BY <1>1, TellsNothing DEF HydratePayload, Claim, RollCoverageSession, AssignStops,
     ReclaimTask, CompleteTask
<1>2. ASSUME NEW step, step # "tell", Follows(t, step), UNCHANGED <<call, unreported>>
      PROVE  Told'
  <2>1. Telling' = Telling /\ Reporting' = Reporting \ {t}
    BY <1>0, <1>2 DEF Telling, Reporting, Follows
  <2>2. IsFiniteSet(Reporting \ {t}) /\ Cardinality(Reporting \ {t}) \in Nat
        /\ Cardinality(Reporting) \in Nat /\ Cardinality(Reporting \ {t}) <= Cardinality(Reporting)
    BY OneLess DEF Told
  <2>3. QED
    BY <1>0, <1>2, <2>1, <2>2 DEF Told
<1>3. CASE FinishTask(t) \/ CountRemaining(t) \/ FollowUpStops(t)
  <2>1. CASE Follows(t, "count")
    BY <1>2, <1>3, <2>1 DEF FinishTask, CountRemaining, FollowUpStops
  <2>2. CASE Follows(t, "close")
    BY <1>2, <1>3, <2>2 DEF FinishTask, CountRemaining, FollowUpStops
  <2>3. CASE Follows(t, "none")
    BY <1>2, <1>3, <2>3 DEF FinishTask, CountRemaining, FollowUpStops
  <2>4. QED
    BY <1>3, <2>1, <2>2, <2>3 DEF FinishTask, CountRemaining, FollowUpStops
<1>4. CASE MaybeCompleteCampaign(t) /\ status = "active"
  <2>1. Follows(t, "tell") /\ call' = call
        /\ unreported' = [unreported EXCEPT !["completed"] = @ + 1]
    BY <1>4 DEF MaybeCompleteCampaign
  <2>2. Telling' = Telling /\ Reporting' = Reporting \cup {t}
    BY <1>0, <2>1 DEF Telling, Reporting, Follows
  <2>3. IsFiniteSet(Reporting \cup {t}) /\ Cardinality(Reporting \cup {t}) \in Nat
        /\ Cardinality(Reporting) \in Nat
        /\ Cardinality(Reporting \cup {t}) <= Cardinality(Reporting) + 1
    BY OneMore DEF Told
  <2>4. unreported'["published"] = unreported["published"]
        /\ unreported'["completed"] = unreported["completed"] + 1
    BY <1>0, <2>1
  <2>5. unreported'["completed"] >= Cardinality(Reporting \cup {t})
    BY <1>0, <2>3, <2>4 DEF Told
  <2>6. QED
    BY <2>2, <2>3, <2>4, <2>5 DEF Told
<1>5. CASE MaybeCompleteCampaign(t) /\ status # "active"
  BY <1>2, <1>5 DEF MaybeCompleteCampaign
<1>6. CASE CompletedEvent(t)
  <2>1. Follows(t, "none") /\ call' = call /\ closing[t] = "tell"
        /\ unreported' = [unreported EXCEPT !["completed"] = @ - 1]
    BY <1>6 DEF CompletedEvent
  <2>2. Telling' = Telling /\ Reporting' = Reporting \ {t} /\ t \in Reporting
    BY <1>0, <2>1 DEF Telling, Reporting, Follows
  <2>3. IsFiniteSet(Reporting \ {t}) /\ Cardinality(Reporting) \in Nat
        /\ Cardinality(Reporting \ {t}) = Cardinality(Reporting) - 1
    BY <2>2, OneLess DEF Told
  <2>4. unreported'["published"] = unreported["published"]
        /\ unreported'["completed"] = unreported["completed"] - 1
    BY <1>0, <2>1
  <2>5. unreported'["completed"] >= Cardinality(Reporting \ {t})
    BY <1>0, <2>3, <2>4 DEF Told
  <2>6. QED
    BY <2>2, <2>3, <2>4, <2>5 DEF Told
<1>7. QED
  BY <1>1, <1>3, <1>4, <1>5, <1>6, TaskStep(t) DEF TaskStep

(* The researcher is told of a publication or a completion at most as often*)
(* as there was one, whatever requests, follow-ups and failures overlap    *)
(* (emitCampaignUpdate, maybeCompleteCampaign).                          *)
THEOREM CampaignEventsAreTrue == Spec => []EventsAreTrue
<1>1. Init => Told
  <2> SUFFICES ASSUME Init PROVE Told
    OBVIOUS
  <2>1. Telling = {} /\ Reporting = {}
    BY DEF Init, Telling, Reporting, Idle
  <2>2. QED
    BY <2>1, FS_EmptySet DEF Told, Init
<1>2. TypeOK /\ Told /\ [Next]_vars => Told'
  <2> SUFFICES ASSUME TypeOK, Told, [Next]_vars PROVE Told'
    OBVIOUS
  <2>1. CASE Replan \/ UNCHANGED vars
    BY <2>1, TellsNothing
       DEF Replan, ReplanRead, ReplanWrite, ReplanWindows, ReplanStops, vars, campaign, tasks,
           local, history
  <2>2. CASE \E r \in Requests : RequestStep(r)
    BY <2>2, RequestTold
  <2>3. CASE \E t \in Tasks : TaskStep(t)
    BY <2>3, TaskTold
  <2>4. QED
    BY <2>1, <2>2, <2>3 DEF Next
<1>3. TypeOK /\ Told => EventsAreTrue
  <2> SUFFICES ASSUME TypeOK, Told PROVE EventsAreTrue
    OBVIOUS
  <2>1. Cardinality(Telling) \in Nat /\ Cardinality(Reporting) \in Nat
    BY FS_CardinalityType DEF Told
  <2>2. unreported \in [{"published", "completed"} -> Int]
    BY DEF TypeOK
  <2>3. QED
    BY <2>1, <2>2 DEF Told, EventsAreTrue
<1>4. CampaignInv => TypeOK
  BY DEF CampaignInv
<1>5. QED
  BY <1>1, <1>2, <1>3, <1>4, CampaignInvariant, PTL DEF Spec

(***************************************************************************)
(* The inboxes: the steps of Deliveries, under the name Inbox, keep what   *)
(* Inboxes promises.                                                       *)
(***************************************************************************)
CONSTANT MaxFaults
VARIABLE faults

Inbox == INSTANCE Deliveries

(* A frame of the delivery is on the disk: its own, or that of another     *)
(* delivery of the developer's same task; or it was spoilt by the download *)
(* of one that is still to be acknowledged.                                *)
OnDisk(d) == file[File[d]] \in SameFile(d)
Spoilt(d) == \E e \in SameFile(d) : delivery[e] = "unread" /\ e \in tried
Committed(d) == delivery[d] \in {"unread", "acked"}
CampaignHand == todo["campaign"]
LastInHand == CampaignHand[Len(CampaignHand)]

DTypes ==
    /\ delivery \in [Deliveries -> {"absent", "inserting", "unread", "acked"}]
    /\ stamp \in [Deliveries -> Nat] /\ now \in Nat
    /\ place \in [Inbox!Boxes -> {"poll", "fetch", "ack", "stopped"}]
    /\ todo \in [Inbox!Boxes -> Seq(Deliveries)]
    /\ cursor \in Nat
    /\ file \in [Files -> Deliveries \cup {Inbox!Nobody}]
    /\ tried \subseteq Deliveries /\ overtaken \subseteq Deliveries

(* No two deliveries have the same created_at.                             *)
Stamped ==
    /\ \A d \in Deliveries : delivery[d] # "absent" => 1 <= stamp[d] /\ stamp[d] <= now
    /\ \A d, e \in Deliveries :
          delivery[d] # "absent" /\ delivery[e] # "absent" /\ stamp[d] = stamp[e] => d = e

(* A client has deliveries of its box in its hands that are still to be    *)
(* acknowledged, each once, and what it is about to acknowledge is saved.  *)
InHand ==
    /\ \A b \in Inbox!Boxes : \A i \in DOMAIN todo[b] :
          Box[todo[b][i]] = b /\ delivery[todo[b][i]] = "unread"
    /\ \A b \in Inbox!Boxes : \A i, j \in DOMAIN todo[b] : todo[b][i] = todo[b][j] => i = j
    /\ \A b \in Inbox!Boxes : place[b] \in {"fetch", "ack"} <=> todo[b] # << >>
    /\ \A b \in Inbox!Boxes : place[b] = "ack" => OnDisk(Inbox!Next1(b))

Seen(d) == d \in Inbox!ToSet(CampaignHand) \cup tried \cup overtaken

(* The worker of the campaign has what comes before the last it has in its *)
(* hands, and its cursor is at a delivery it has acknowledged.             *)
Followed ==
    /\ Inbox!Sorted(CampaignHand)
    /\ CampaignHand # << >> =>
          \A d \in Deliveries :
             Box[d] = "campaign" /\ delivery[d] = "unread" /\ stamp[d] <= stamp[LastInHand] => Seen(d)
    /\ cursor = 0 \/ \E e \in Deliveries : delivery[e] = "acked" /\ stamp[e] = cursor

DeliveryInv == /\ DTypes /\ Stamped /\ InHand /\ Followed
               /\ AckedIsSaved /\ CursorPassesNone

LEMMA InitDeliveries == Inbox!Init => DeliveryInv
<1> SUFFICES ASSUME Inbox!Init PROVE DeliveryInv
  OBVIOUS
<1>1. DTypes
  BY DEF Inbox!Init, DTypes
<1>2. Stamped /\ AckedIsSaved
  BY DEF Inbox!Init, Stamped, AckedIsSaved
<1>3. InHand
  BY DEF Inbox!Init, InHand
<1>4. Followed
  BY DEF Inbox!Init, Followed, Inbox!Sorted, CampaignHand, Inbox!Boxes
<1>5. CursorPassesNone
  BY DEF Inbox!Init, CursorPassesNone, Passed
<1>6. QED
  BY <1>1, <1>2, <1>3, <1>4, <1>5 DEF DeliveryInv

LEMMA InsertDeliveries ==
    ASSUME DeliveryInv, NEW d \in Deliveries, Inbox!Insert(d)
    PROVE  DeliveryInv'
<1> USE DEF Inbox!client, Inbox!history, DeliveryInv
<1>0. delivery[d] = "absent" /\ now' = now + 1 /\ stamp' = [stamp EXCEPT ![d] = now + 1]
      /\ delivery' = [delivery EXCEPT ![d] = "inserting"]
      /\ UNCHANGED <<place, todo, cursor, file, tried, overtaken>>
  BY DEF Inbox!Insert
<1>1. DTypes'
  BY <1>0 DEF DTypes
<1>2. \A e \in Deliveries : /\ e # d => delivery'[e] = delivery[e] /\ stamp'[e] = stamp[e]
                            /\ Committed(e) => e # d
                            /\ delivery'[e] \in {"unread", "acked"} => e # d
  BY <1>0 DEF DTypes, Committed
<1>3. Stamped'
  <2>1. stamp'[d] = now + 1 /\ now \in Nat /\ \A e \in Deliveries : stamp[e] \in Nat
    BY <1>0 DEF DTypes
  <2>2. \A e \in Deliveries : e # d /\ delivery'[e] # "absent" => 1 <= stamp'[e] /\ stamp'[e] <= now
    BY <1>2 DEF Stamped
  <2>3. \A e \in Deliveries : delivery'[e] # "absent" => 1 <= stamp'[e] /\ stamp'[e] <= now'
    BY <1>0, <1>2, <2>1, <2>2
  <2>4. ASSUME NEW e \in Deliveries, NEW f \in Deliveries, delivery'[e] # "absent",
               delivery'[f] # "absent", stamp'[e] = stamp'[f]
        PROVE  e = f
    <3>1. CASE e # d /\ f # d
      BY <1>2, <2>4, <3>1 DEF Stamped
    <3>2. CASE e = d /\ f # d
      BY <1>2, <2>1, <2>2, <2>4, <3>2
    <3>3. CASE e # d /\ f = d
      BY <1>2, <2>1, <2>2, <2>4, <3>3
    <3>4. QED
      BY <3>1, <3>2, <3>3
  <2>5. QED
    BY <2>3, <2>4 DEF Stamped
<1>4. \A b \in Inbox!Boxes : \A i \in DOMAIN todo[b] : todo[b][i] \in Deliveries /\ todo[b][i] # d
  BY <1>2 DEF InHand, DTypes, Committed
<1>5. InHand'
  <2>1. \A b \in Inbox!Boxes : \A i \in DOMAIN todo[b] :
           Box[todo[b][i]] = b /\ delivery'[todo[b][i]] = "unread"
    BY <1>2, <1>4 DEF InHand, Committed
  <2>2. QED
    BY <1>0, <2>1 DEF InHand, OnDisk, SameFile, Inbox!Next1
<1>6. Followed'
  <2>1. Inbox!Sorted(CampaignHand)'
    <3>1. "campaign" \in Inbox!Boxes
      BY DEF Inbox!Boxes
    <3>2. \A i \in DOMAIN CampaignHand : CampaignHand[i] \in Deliveries /\ CampaignHand[i] # d
      BY <1>4, <3>1 DEF CampaignHand
    <3>3. QED
      BY <1>0, <1>2, <3>2 DEF Followed, Inbox!Sorted, Inbox!Earlier, CampaignHand
  <2>2. CampaignHand # << >> => LastInHand \in Deliveries /\ LastInHand # d
    BY <1>4 DEF CampaignHand, LastInHand, DTypes, Inbox!Boxes
  <2>3. cursor = 0 \/ \E e \in Deliveries : delivery'[e] = "acked" /\ stamp'[e] = cursor
    BY <1>0, <1>2 DEF Followed
  <2>4. CampaignHand # << >> =>
          \A e \in Deliveries :
             Box[e] = "campaign" /\ delivery'[e] = "unread" /\ stamp'[e] <= stamp'[LastInHand] => Seen(e)
    BY <1>0, <1>2, <2>2 DEF Followed
  <2>5. CampaignHand' = CampaignHand /\ LastInHand' = LastInHand /\ \A e : Seen(e)' <=> Seen(e)
    BY <1>0 DEF CampaignHand, LastInHand, Seen
  <2>6. QED
    BY <1>0, <2>1, <2>3, <2>4, <2>5 DEF Followed
<1>7. AckedIsSaved'
  BY <1>0, <1>2 DEF AckedIsSaved, SameFile
<1>8. CursorPassesNone'
  BY <1>0, <1>2 DEF CursorPassesNone, Passed
<1>9. QED
  BY <1>1, <1>3, <1>5, <1>6, <1>7, <1>8

LEMMA CommitDeliveries ==
    ASSUME DeliveryInv, NEW d \in Deliveries, Inbox!Commit(d)
    PROVE  DeliveryInv'
<1> USE DEF Inbox!store, Inbox!client, DeliveryInv
<1>0. delivery[d] = "inserting" /\ delivery' = [delivery EXCEPT ![d] = "unread"]
      /\ UNCHANGED <<stamp, now, place, todo, cursor, file, tried>>
  BY DEF Inbox!Commit
<1>a. overtaken' = IF \E e \in Deliveries : Committed(e) /\ stamp[e] > stamp[d]
                   THEN overtaken \cup {d} ELSE overtaken
  BY DEF Inbox!Commit, Committed
<1>1. DTypes'
  BY <1>0, <1>a DEF DTypes
<1>2. /\ \A e \in Deliveries : /\ e # d => delivery'[e] = delivery[e]
                               /\ Committed(e) => e # d
                               /\ delivery'[e] # "absent" => delivery[e] # "absent"
                               /\ delivery'[e] = "acked" => delivery[e] = "acked"
      /\ delivery'[d] = "unread"
      /\ overtaken \subseteq overtaken'
  BY <1>0, <1>a DEF DTypes, Committed
<1>3. Stamped'
  BY <1>0, <1>2 DEF Stamped
<1>4. \A b \in Inbox!Boxes : \A i \in DOMAIN todo[b] : todo[b][i] \in Deliveries /\ Committed(todo[b][i])
  BY DEF InHand, DTypes, Committed
<1>5. InHand'
  <2>1. \A b \in Inbox!Boxes : \A i \in DOMAIN todo[b] :
           Box[todo[b][i]] = b /\ delivery'[todo[b][i]] = "unread"
    BY <1>2, <1>4 DEF InHand, Committed
  <2>2. QED
    BY <1>0, <2>1 DEF InHand, OnDisk, SameFile, Inbox!Next1
(* A delivery committed after one with a later stamp, or an equal one,     *)
(* which is its own.                                                       *)
<1>6. ASSUME NEW e \in Deliveries, Committed(e), stamp[d] <= stamp[e] PROVE d \in overtaken'
  <2>1. e # d /\ delivery[e] # "absent" /\ delivery[d] # "absent"
    BY <1>0, <1>2, <1>6 DEF Committed
  <2>2. stamp[e] \in Nat /\ stamp[d] \in Nat /\ stamp[e] # stamp[d]
    BY <2>1 DEF Stamped, DTypes
  <2>3. stamp[e] > stamp[d]
    BY <1>6, <2>2
  <2>4. QED
    BY <1>6, <1>a, <2>3
<1>7. Followed'
  <2>1. CampaignHand' = CampaignHand /\ LastInHand' = LastInHand /\ \A e : Seen(e) => Seen(e)'
    BY <1>0, <1>2 DEF CampaignHand, LastInHand, Seen
  <2>2. CampaignHand # << >> => LastInHand \in Deliveries /\ Committed(LastInHand)
    <3>1. "campaign" \in Inbox!Boxes /\ todo["campaign"] \in Seq(Deliveries)
      BY DEF Inbox!Boxes, DTypes
    <3>2. todo["campaign"] # << >> => Len(todo["campaign"]) \in DOMAIN todo["campaign"]
      BY <3>1
    <3>3. QED
      BY <1>4, <3>1, <3>2 DEF CampaignHand, LastInHand
  <2>3. ASSUME CampaignHand # << >>, NEW e \in Deliveries, Box[e] = "campaign", delivery'[e] = "unread",
               stamp[e] <= stamp[LastInHand]
        PROVE  Seen(e)'
    <3>1. CASE e = d
      BY <1>6, <2>2, <2>3, <3>1 DEF Seen
    <3>2. CASE e # d
      BY <1>2, <2>1, <2>3, <3>2 DEF Followed
    <3>3. QED
      BY <3>1, <3>2
  <2>4. cursor = 0 \/ \E e \in Deliveries : delivery'[e] = "acked" /\ stamp[e] = cursor
    BY <1>2 DEF Followed, Committed
  <2>5. Inbox!Sorted(CampaignHand)'
    BY <1>0, <2>1 DEF Followed, Inbox!Sorted, Inbox!Earlier
  <2>6. QED
    BY <1>0, <2>1, <2>3, <2>4, <2>5 DEF Followed
<1>8. AckedIsSaved'
  BY <1>0, <1>2 DEF AckedIsSaved, SameFile
<1>9. CursorPassesNone'
  <2> SUFFICES ASSUME NEW e \in Deliveries, Passed(e)' PROVE (e \in tried \cup overtaken)'
    BY DEF CursorPassesNone
  <2>1. CASE e # d
    BY <1>0, <1>2, <2>1 DEF CursorPassesNone, Passed
  <2>2. CASE e = d
    <3>1. stamp[d] <= cursor /\ 1 <= stamp[d] /\ stamp[d] \in Nat
      BY <1>0, <2>2 DEF Passed, Stamped, DTypes
    <3>2. PICK f \in Deliveries : delivery[f] = "acked" /\ stamp[f] = cursor
      BY <3>1 DEF Followed
    <3>3. QED
      BY <1>6, <2>2, <3>1, <3>2 DEF Committed
  <2>3. QED
    BY <2>1, <2>2
<1>10. QED
  BY <1>1, <1>3, <1>5, <1>7, <1>8, <1>9
LEMMA AnswersAreSequences ==
    ASSUME NEW S, NEW n \in Nat, NEW s \in Inbox!SeqOf(S, n)
    PROVE  s \in Seq(S) /\ \A i \in DOMAIN s : s[i] \in S
<1>1. PICK m \in 0 .. n : s \in [1 .. m -> S]
  BY DEF Inbox!SeqOf
<1>2. QED
  BY <1>1

(* A client goes somewhere else than to an acknowledgement, with another   *)
(* list in its hands.                                                      *)
Hands(b, l, p) == Inbox!Goto(b, p) /\ todo' = [todo EXCEPT ![b] = l] /\ (p = "fetch" <=> l # << >>)
Fits(b, l) == /\ \A i \in DOMAIN l : Box[l[i]] = b /\ delivery'[l[i]] = "unread"
              /\ \A i, j \in DOMAIN l : l[i] = l[j] => i = j

(* What the other client has in its hands stays as it was.                 *)
Leaves(b) == \A d \in Deliveries : Box[d] # b =>
                /\ delivery[d] = "unread" => delivery'[d] = "unread"
                /\ OnDisk(d) => OnDisk(d)'

LEMMA HandsOver ==
    ASSUME DTypes, InHand, NEW b \in Inbox!Boxes, NEW l \in Seq(Deliveries),
           NEW p \in {"poll", "fetch", "stopped"}, Hands(b, l, p), Fits(b, l), Leaves(b)
    PROVE  /\ InHand' /\ todo' \in [Inbox!Boxes -> Seq(Deliveries)]
           /\ place' \in [Inbox!Boxes -> {"poll", "fetch", "ack", "stopped"}]
<1>1. todo' \in [Inbox!Boxes -> Seq(Deliveries)] /\ todo'[b] = l
      /\ \A c \in Inbox!Boxes : c # b => todo'[c] = todo[c]
  BY DEF DTypes, Hands
<1>2. place' \in [Inbox!Boxes -> {"poll", "fetch", "ack", "stopped"}] /\ place'[b] = p
      /\ \A c \in Inbox!Boxes : c # b => place'[c] = place[c]
  BY DEF DTypes, Inbox!Goto, Hands
<1>3. ASSUME NEW c \in Inbox!Boxes
      PROVE  /\ \A i \in DOMAIN todo'[c] : Box[todo'[c][i]] = c /\ delivery'[todo'[c][i]] = "unread"
             /\ \A i, j \in DOMAIN todo'[c] : todo'[c][i] = todo'[c][j] => i = j
  <2>1. CASE c = b
    <3>1. todo'[c] = l
      BY <1>1, <2>1
    <3>2. QED
      BY <2>1, <3>1 DEF Fits
  <2>2. CASE c # b
    <3>1. todo'[c] = todo[c] /\ todo[c] \in Seq(Deliveries)
      BY <1>1, <2>2 DEF DTypes
    <3>2. \A i \in DOMAIN todo[c] : /\ todo[c][i] \in Deliveries /\ Box[todo[c][i]] = c
                                   /\ delivery[todo[c][i]] = "unread"
      BY <3>1 DEF InHand
    <3>3. \A i \in DOMAIN todo[c] : delivery'[todo[c][i]] = "unread"
      BY <2>2, <3>2 DEF Leaves
    <3>4. QED
      BY <3>1, <3>2, <3>3 DEF InHand
  <2>3. QED
    BY <2>1, <2>2
<1>4. ASSUME NEW c \in Inbox!Boxes
      PROVE  /\ place'[c] \in {"fetch", "ack"} <=> todo'[c] # << >>
             /\ place'[c] = "ack" => OnDisk(Inbox!Next1(c))'
  <2>1. CASE c = b
    BY <1>1, <1>2, <2>1 DEF Hands
  <2>2. CASE c # b
    <3>1. todo'[c] = todo[c] /\ place'[c] = place[c] /\ todo[c] \in Seq(Deliveries)
      BY <1>1, <1>2, <2>2 DEF DTypes
    <3>2. place[c] \in {"fetch", "ack"} <=> todo[c] # << >>
      BY DEF InHand
    <3>3. PICK d : d = Inbox!Next1(c)
      OBVIOUS
    <3>4. Inbox!Next1(c)' = d
      BY <3>1, <3>3 DEF Inbox!Next1
    <3>5. todo[c] # << >> => d \in Deliveries /\ Box[d] = c
      BY <3>1, <3>3 DEF InHand, Inbox!Next1
    <3>6. place[c] = "ack" => OnDisk(d)'
      BY <2>2, <3>2, <3>3, <3>5 DEF InHand, Leaves
    <3>7. place'[c] = "ack" => OnDisk(Inbox!Next1(c))'
      BY <3>1, <3>4, <3>6 DEF OnDisk, SameFile
    <3>8. QED
      BY <3>1, <3>2, <3>7
  <2>3. QED
    BY <2>1, <2>2
<1>5. QED
  BY <1>1, <1>2, <1>3, <1>4 DEF InHand

(* The worker has done with the first it has in its hands, which is tried  *)
(* or acknowledged.                                                        *)
LEMMA FollowsOn ==
    ASSUME DTypes, Followed, CampaignHand # << >>, CampaignHand' = Tail(CampaignHand),
           UNCHANGED <<stamp, overtaken>>, tried \subseteq tried',
           \A d \in Deliveries : delivery'[d] = "unread" => delivery[d] = "unread",
           delivery'[Head(CampaignHand)] # "unread" \/ Head(CampaignHand) \in tried'
    PROVE  /\ Inbox!Sorted(CampaignHand)'
           /\ CampaignHand' # << >> =>
                 \A d \in Deliveries :
                    Box[d] = "campaign" /\ delivery'[d] = "unread" /\ stamp'[d] <= stamp'[LastInHand'] =>
                      Seen(d)'
<1>1. CampaignHand \in Seq(Deliveries)
  BY DEF CampaignHand, DTypes, Inbox!Boxes
<1> DEFINE l == CampaignHand
           t == Tail(l)
<1>2. l \in Seq(Deliveries) /\ l # << >>
  BY <1>1
<1>3. /\ t \in Seq(Deliveries) /\ Len(t) = Len(l) - 1 /\ Len(l) \in Nat \ {0}
      /\ \A i \in 1 .. Len(t) : i + 1 \in 1 .. Len(l) /\ t[i] = l[i + 1]
      /\ DOMAIN t = 1 .. Len(t) /\ DOMAIN l = 1 .. Len(l)
  BY <1>2
<1>4. \A i, j \in 1 .. Len(l) : i < j => stamp[l[i]] < stamp[l[j]]
  BY <1>3 DEF Followed, Inbox!Sorted, Inbox!Earlier
<1>5. \A i, j \in 1 .. Len(t) : i < j => stamp[t[i]] < stamp[t[j]]
  <2> SUFFICES ASSUME NEW i \in 1 .. Len(t), NEW j \in 1 .. Len(t), i < j
               PROVE  stamp[t[i]] < stamp[t[j]]
    OBVIOUS
  <2>1. i + 1 < j + 1 /\ i + 1 \in 1 .. Len(l) /\ j + 1 \in 1 .. Len(l)
    BY <1>3
  <2>2. QED
    BY <1>3, <1>4, <2>1
<1>6. Inbox!Sorted(CampaignHand)'
  BY <1>3, <1>5 DEF Inbox!Sorted, Inbox!Earlier
<1>7. t # << >> => t[Len(t)] = l[Len(l)]
  BY <1>3
<1>8. \A d : d \in Inbox!ToSet(l) => d = Head(l) \/ d \in Inbox!ToSet(t)
  <2> SUFFICES ASSUME NEW i \in 1 .. Len(l) PROVE l[i] = Head(l) \/ l[i] \in Inbox!ToSet(t)
    BY <1>3 DEF Inbox!ToSet
  <2>1. CASE i = 1
    BY <1>2, <2>1
  <2>2. CASE i # 1
    <3>1. i - 1 \in 1 .. Len(t) /\ t[i - 1] = l[i]
      BY <1>3, <2>2
    <3>2. QED
      BY <1>3, <3>1 DEF Inbox!ToSet
  <2>3. QED
    BY <2>1, <2>2
<1>9. ASSUME t # << >>, NEW d \in Deliveries, Box[d] = "campaign", delivery'[d] = "unread",
             stamp[d] <= stamp[t[Len(t)]]
      PROVE  d \in Inbox!ToSet(t) \cup tried' \cup overtaken
  <2>1. Seen(d)
    BY <1>2, <1>7, <1>9 DEF Followed, LastInHand
  <2>2. CASE d \in Inbox!ToSet(l)
    BY <1>8, <1>9, <2>2
  <2>3. CASE d \in tried \cup overtaken
    BY <2>3
  <2>4. QED
    BY <2>1, <2>2, <2>3 DEF Seen
<1>10. ASSUME CampaignHand' # << >>, NEW d \in Deliveries, Box[d] = "campaign", delivery'[d] = "unread",
              stamp'[d] <= stamp'[LastInHand']
       PROVE  Seen(d)'
  <2>1. CampaignHand' = t /\ LastInHand' = t[Len(t)] /\ stamp' = stamp
    BY DEF LastInHand
  <2>2. d \in Inbox!ToSet(t) \cup tried' \cup overtaken
    BY <1>9, <1>10, <2>1
  <2>3. QED
    BY <2>1, <2>2 DEF Seen
<1>11. QED
  BY <1>6, <1>10

LEMMA PollDeliveries ==
    ASSUME DeliveryInv, NEW b \in Inbox!Boxes, Inbox!Poll(b)
    PROVE  DeliveryInv'
<1> USE DEF Inbox!table, Inbox!store, Inbox!history, DeliveryInv
<1>0. PICK l \in Inbox!Rows(b) : l # << >> /\ todo' = [todo EXCEPT ![b] = l]
  BY DEF Inbox!Poll
<1>1. Inbox!Goto(b, "fetch") /\ UNCHANGED <<delivery, stamp, now, hot, removing, cursor, file, tried, overtaken>>
  BY DEF Inbox!Poll
<1> DEFINE C == {d \in Deliveries : Box[d] = "campaign" /\ delivery[d] = "unread" /\ stamp[d] > cursor}
           D == {d \in Deliveries : Box[d] = "developer" /\ delivery[d] = "unread"}
<1>2. /\ b = "campaign" => l \in Inbox!FirstRows(C)
      /\ b # "campaign" => l \in Inbox!FirstRows(D)
  BY <1>0 DEF Inbox!Rows, Inbox!InboxRows, Inbox!DeveloperRows
<1>3. Limit \in Nat \ {0}
  BY LimitAssumption
<1>4. /\ b = "campaign" => l \in Seq(C) /\ \A i \in DOMAIN l : l[i] \in C
      /\ b # "campaign" => l \in Seq(D) /\ \A i \in DOMAIN l : l[i] \in D
  BY <1>2, <1>3, AnswersAreSequences DEF Inbox!FirstRows
<1>5. l \in Seq(Deliveries) /\ \A i \in DOMAIN l : Box[l[i]] = b /\ delivery[l[i]] = "unread"
  BY <1>4 DEF Inbox!Boxes
<1>d. \A i, j \in DOMAIN l : l[i] = l[j] => i = j
  <2> SUFFICES ASSUME NEW i \in DOMAIN l, NEW j \in DOMAIN l, l[i] = l[j], i # j PROVE FALSE
    OBVIOUS
  <2>1. Inbox!Sorted(l)
    BY <1>2 DEF Inbox!FirstRows
  <2>2. DOMAIN l = 1 .. Len(l) /\ l[i] \in Deliveries /\ stamp[l[i]] \in Nat
    BY <1>5 DEF DTypes
  <2>3. i < j \/ j < i
    BY <2>2
  <2>4. QED
    BY <2>1, <2>2, <2>3 DEF Inbox!Sorted, Inbox!Earlier
<1>h. Hands(b, l, "fetch") /\ Fits(b, l) /\ Leaves(b)
  BY <1>0, <1>1, <1>5, <1>d DEF Hands, Fits, Leaves, OnDisk, SameFile
<1>6. /\ InHand' /\ todo' \in [Inbox!Boxes -> Seq(Deliveries)]
      /\ place' \in [Inbox!Boxes -> {"poll", "fetch", "ack", "stopped"}]
  BY <1>5, <1>h, HandsOver
<1>7. DTypes' /\ Stamped' /\ AckedIsSaved' /\ CursorPassesNone'
  BY <1>1, <1>6 DEF DTypes, Stamped, AckedIsSaved, SameFile, CursorPassesNone, Passed
<1>8. Followed'
  <2>1. CASE b # "campaign"
    <3>1. CampaignHand' = CampaignHand
      BY <1>0, <2>1 DEF CampaignHand, DTypes, Inbox!Boxes
    <3>2. QED
      BY <1>1, <3>1 DEF Followed, Inbox!Sorted, Inbox!Earlier, LastInHand, Seen
  <2>2. CASE b = "campaign"
    <3>1. CampaignHand' = l
      BY <1>0, <2>2 DEF CampaignHand, DTypes, Inbox!Boxes
    <3>2. Inbox!Sorted(l) /\ \A d \in C : Inbox!Accounted(l, d)
      BY <1>2, <2>2 DEF Inbox!FirstRows
    <3>3. ASSUME NEW d \in Deliveries, Box[d] = "campaign", delivery[d] = "unread",
                 stamp[d] <= stamp[l[Len(l)]]
          PROVE  d \in Inbox!ToSet(l) \cup tried \cup overtaken
      <4>1. Len(l) \in DOMAIN l /\ l[Len(l)] \in Deliveries
        BY <1>0, <1>5
      <4>2. stamp[d] \in Nat /\ stamp[l[Len(l)]] \in Nat /\ cursor \in Nat
        BY <4>1 DEF DTypes
      <4>3. CASE stamp[d] <= cursor
        BY <3>3, <4>3 DEF CursorPassesNone, Passed
      <4>4. CASE stamp[d] > cursor
        <5>1. Inbox!Accounted(l, d)
          BY <3>2, <3>3, <4>4
        <5>2. QED
          BY <3>3, <4>2, <5>1 DEF Inbox!Accounted, Inbox!Earlier
      <4>5. QED
        BY <4>2, <4>3, <4>4
    <3>4. LastInHand' = l[Len(l)] /\ \A d : Seen(d)' <=> d \in Inbox!ToSet(l) \cup tried \cup overtaken
      BY <1>1, <3>1 DEF LastInHand, Seen
    <3>5. Inbox!Sorted(CampaignHand)'
      BY <1>1, <3>1, <3>2 DEF Inbox!Sorted, Inbox!Earlier
    <3>6. QED
      BY <1>1, <3>1, <3>3, <3>4, <3>5 DEF Followed
  <2>3. QED
    BY <2>1, <2>2
<1>9. QED
  BY <1>6, <1>7, <1>8

(* What is saved in the file of a delivery, or left there, is of no other  *)
(* file.                                                                   *)
LEMMA SavesOne ==
    ASSUME DTypes, NEW h \in Deliveries, NEW x \in {h, Inbox!Nobody}, Inbox!Saves(h, x)
    PROVE  /\ file' \in [Files -> Deliveries \cup {Inbox!Nobody}]
           /\ x = h => \A d \in Deliveries : d \in SameFile(h) => OnDisk(d)'
           /\ \A d \in Deliveries : d \notin SameFile(h) /\ OnDisk(d) => OnDisk(d)'
           /\ \A d \in Deliveries : Box[d] # Box[h] => d \notin SameFile(h)
<1>1. /\ file' \in [Files -> Deliveries \cup {Inbox!Nobody}] /\ file'[File[h]] = x
      /\ \A f \in Files : f # File[h] => file'[f] = file[f]
  BY FileAssumption DEF DTypes, Inbox!Saves
<1>2. ASSUME x = h, NEW d \in Deliveries, d \in SameFile(h) PROVE OnDisk(d)'
  BY <1>1, <1>2 DEF OnDisk, SameFile
<1>3. ASSUME NEW d \in Deliveries, d \notin SameFile(h), OnDisk(d) PROVE OnDisk(d)'
  <2>1. File[d] # File[h] /\ File[d] \in Files
    BY <1>3, FileAssumption DEF SameFile
  <2>2. QED
    BY <1>1, <1>3, <2>1 DEF OnDisk, SameFile
<1>4. ASSUME NEW d \in Deliveries, Box[d] # Box[h] PROVE d \notin SameFile(h)
  BY <1>4, FileAssumption, BoxAssumption DEF SameFile, Boxes
<1>5. QED
  BY <1>1, <1>2, <1>3, <1>4

LEMMA Saved == AckedIsSaved <=> \A d \in Deliveries : delivery[d] = "acked" => OnDisk(d) \/ Spoilt(d)
BY DEF AckedIsSaved, OnDisk, Spoilt

(* A client has something in its hands: the first of it and the rest.      *)
LEMMA Firsts ==
    ASSUME DTypes, InHand, NEW b \in Inbox!Boxes, todo[b] # << >>
    PROVE  /\ Inbox!Next1(b) \in Deliveries /\ Box[Inbox!Next1(b)] = b
           /\ delivery[Inbox!Next1(b)] = "unread"
           /\ Tail(todo[b]) \in Seq(Deliveries)
           /\ (Len(todo[b]) = 1) <=> Tail(todo[b]) = << >>
           /\ \A i \in DOMAIN Tail(todo[b]) :
                 /\ Tail(todo[b])[i] \in Deliveries /\ Tail(todo[b])[i] # Inbox!Next1(b)
                 /\ Box[Tail(todo[b])[i]] = b /\ delivery[Tail(todo[b])[i]] = "unread"
           /\ \A i, j \in DOMAIN Tail(todo[b]) : Tail(todo[b])[i] = Tail(todo[b])[j] => i = j
<1> DEFINE l == todo[b]
           t == Tail(l)
<1>1. l \in Seq(Deliveries) /\ l # << >>
  BY DEF DTypes
<1>2. /\ \A i \in DOMAIN l : l[i] \in Deliveries /\ Box[l[i]] = b /\ delivery[l[i]] = "unread"
      /\ \A i, j \in DOMAIN l : l[i] = l[j] => i = j
  BY <1>1 DEF InHand
<1>3. 1 \in DOMAIN l /\ l[1] = Head(l)
  BY <1>1
<1>4. /\ t \in Seq(Deliveries) /\ Len(t) = Len(l) - 1 /\ Len(l) \in Nat \ {0}
      /\ DOMAIN t = 1 .. Len(t) /\ DOMAIN l = 1 .. Len(l)
      /\ \A i \in 1 .. Len(t) : t[i] = l[i + 1]
  BY <1>1
<1>e. \A x \in Seq(Deliveries) : x = << >> <=> Len(x) = 0
  OBVIOUS
<1>5. Len(l) = 1 <=> t = << >>
  <2> HIDE DEF t, l
  <2>1. t = << >> <=> Len(t) = 0
    BY <1>4, <1>e
  <2>2. QED
    BY <1>4, <2>1
<1>6. \A i \in DOMAIN t : i + 1 \in DOMAIN l /\ t[i] = l[i + 1] /\ i + 1 # 1 /\ i \in Nat
  BY <1>4
<1> HIDE DEF t, l
<1>7. \A i \in DOMAIN t : t[i] # Head(l)
  BY <1>2, <1>3, <1>6
<1>8. ASSUME NEW i \in DOMAIN t, NEW j \in DOMAIN t, t[i] = t[j] PROVE i = j
  <2>1. i + 1 = j + 1 /\ i \in Nat /\ j \in Nat
    BY <1>2, <1>6, <1>8
  <2>2. QED
    BY <2>1
<1>9. \A i \in DOMAIN t : t[i] \in Deliveries /\ Box[t[i]] = b /\ delivery[t[i]] = "unread"
  BY <1>2, <1>6
<1>10. Head(l) \in Deliveries /\ Box[Head(l)] = b /\ delivery[Head(l)] = "unread"
  BY <1>2, <1>3
<1>11. QED
  BY <1>4, <1>5, <1>7, <1>8, <1>9, <1>10 DEF Inbox!Next1, t, l

LEMMA AdvanceHands ==
    ASSUME DTypes, InHand, NEW b \in Inbox!Boxes, todo[b] # << >>, Inbox!Advance(b), Leaves(b),
           \A d \in Deliveries : d # Inbox!Next1(b) /\ delivery[d] = "unread" => delivery'[d] = "unread"
    PROVE  /\ InHand' /\ todo' \in [Inbox!Boxes -> Seq(Deliveries)]
           /\ place' \in [Inbox!Boxes -> {"poll", "fetch", "ack", "stopped"}]
           /\ b = "campaign" => CampaignHand # << >> /\ CampaignHand' = Tail(CampaignHand)
           /\ b # "campaign" => CampaignHand' = CampaignHand
<1> DEFINE p == IF Len(todo[b]) = 1 THEN "poll" ELSE "fetch"
           t == Tail(todo[b])
<1>1. Inbox!Goto(b, p) /\ todo' = [todo EXCEPT ![b] = t]
  BY DEF Inbox!Advance
<1>2. t \in Seq(Deliveries) /\ p \in {"poll", "fetch", "stopped"} /\ (p = "fetch" <=> t # << >>)
  BY Firsts
<1>3. /\ \A i \in DOMAIN t : Box[t[i]] = b /\ t[i] \in Deliveries /\ delivery'[t[i]] = "unread"
      /\ \A i, j \in DOMAIN t : t[i] = t[j] => i = j
  BY Firsts
<1>4. PICK l : l = t
  OBVIOUS
<1>5. l \in Seq(Deliveries) /\ (p = "fetch" <=> l # << >>) /\ todo' = [todo EXCEPT ![b] = l]
  BY <1>1, <1>2, <1>4
<1>6. /\ \A i \in DOMAIN l : Box[l[i]] = b /\ delivery'[l[i]] = "unread"
      /\ \A i, j \in DOMAIN l : l[i] = l[j] => i = j
  BY <1>3, <1>4
<1>7. Fits(b, l)
  BY <1>6 DEF Fits
<1>8. PICK q : q = p
  OBVIOUS
<1>9. q \in {"poll", "fetch", "stopped"} /\ Inbox!Goto(b, q) /\ (q = "fetch" <=> l # << >>)
  BY <1>1, <1>2, <1>5, <1>8
<1>10. /\ InHand' /\ todo' \in [Inbox!Boxes -> Seq(Deliveries)]
       /\ place' \in [Inbox!Boxes -> {"poll", "fetch", "ack", "stopped"}]
  BY <1>5, <1>7, <1>9, HandsOver DEF Hands
<1>11. /\ b = "campaign" => CampaignHand # << >> /\ CampaignHand' = Tail(CampaignHand)
       /\ b # "campaign" => CampaignHand' = CampaignHand
  BY <1>1 DEF CampaignHand, DTypes, Inbox!Boxes
<1>12. QED
  BY <1>10, <1>11

LEMMA DropHands ==
    ASSUME DTypes, InHand, NEW b \in Inbox!Boxes, NEW p \in {"poll", "stopped"}, Inbox!Goto(b, p),
           todo' = [todo EXCEPT ![b] = << >>], Leaves(b)
    PROVE  /\ InHand' /\ todo' \in [Inbox!Boxes -> Seq(Deliveries)]
           /\ place' \in [Inbox!Boxes -> {"poll", "fetch", "ack", "stopped"}]
           /\ b = "campaign" => CampaignHand' = << >>
           /\ b # "campaign" => CampaignHand' = CampaignHand
<1>1. PICK q : q = p
  OBVIOUS
<1>2. PICK l : l = << >>
  OBVIOUS
<1>3. Fits(b, l)
  BY <1>2 DEF Fits
<1>4. /\ l \in Seq(Deliveries) /\ (q = "fetch" <=> l # << >>) /\ todo' = [todo EXCEPT ![b] = l]
      /\ q \in {"poll", "fetch", "stopped"} /\ Inbox!Goto(b, q)
  BY <1>1, <1>2
<1>5. /\ InHand' /\ todo' \in [Inbox!Boxes -> Seq(Deliveries)]
      /\ place' \in [Inbox!Boxes -> {"poll", "fetch", "ack", "stopped"}]
  BY <1>3, <1>4, HandsOver DEF Hands
<1>6. /\ b = "campaign" => CampaignHand' = << >>
      /\ b # "campaign" => CampaignHand' = CampaignHand
  BY DEF CampaignHand, DTypes, Inbox!Boxes
<1>7. QED
  BY <1>5, <1>6

(* What Followed says when the worker holds what it held, or nothing.      *)
LEMMA StillFollows ==
    ASSUME Followed, CampaignHand' = CampaignHand \/ CampaignHand' = << >>,
           UNCHANGED <<stamp, overtaken>>, tried \subseteq tried',
           \A d \in Deliveries : delivery'[d] = "unread" => delivery[d] = "unread",
           \/ cursor' = 0
           \/ \E e \in Deliveries : delivery'[e] = "acked" /\ stamp[e] = cursor'
    PROVE  Followed'
<1>1. CASE CampaignHand' = << >>
  BY <1>1 DEF Followed, Inbox!Sorted
<1>2. CASE CampaignHand' = CampaignHand
  <2>1. LastInHand' = LastInHand /\ \A d : Seen(d) => Seen(d)'
    BY <1>2 DEF LastInHand, Seen
  <2>2. QED
    BY <1>2, <2>1 DEF Followed, Inbox!Sorted, Inbox!Earlier
<1>3. QED
  BY <1>1, <1>2

(* Nothing but the clients' hands, their files and what has failed changes:*)
(* the table and the cursor stay.                                          *)
LEMMA HandsMove ==
    ASSUME DeliveryInv, InHand', todo' \in [Inbox!Boxes -> Seq(Deliveries)],
           place' \in [Inbox!Boxes -> {"poll", "fetch", "ack", "stopped"}], Followed',
           UNCHANGED <<delivery, stamp, now, overtaken>>, tried \subseteq tried',
           tried' \subseteq Deliveries, cursor' \in {0, cursor},
           file' \in [Files -> Deliveries \cup {Inbox!Nobody}], AckedIsSaved'
    PROVE  DeliveryInv'
<1>1. DTypes' /\ Stamped'
  BY DEF DeliveryInv, DTypes, Stamped
<1>2. CursorPassesNone'
  <2>1. \A d \in Deliveries : Passed(d)' => Passed(d) \/ cursor' = 0
    BY DEF Passed
  <2>2. ASSUME cursor' = 0, NEW d \in Deliveries PROVE ~Passed(d)'
    <3>1. delivery[d] = "unread" => 1 <= stamp[d]
      BY DEF DeliveryInv, Stamped
    <3>2. stamp[d] \in Nat
      BY DEF DeliveryInv, DTypes
    <3>3. QED
      BY <2>2, <3>1, <3>2 DEF Passed
  <2>3. QED
    BY <2>1, <2>2 DEF CursorPassesNone, DeliveryInv
<1>3. QED
  BY <1>1, <1>2 DEF DeliveryInv

(* Files that are not touched keep what the property says of them.         *)
LEMMA Untouched ==
    ASSUME DeliveryInv, UNCHANGED <<delivery, file>>, tried \subseteq tried'
    PROVE  /\ file' \in [Files -> Deliveries \cup {Inbox!Nobody}] /\ AckedIsSaved'
           /\ \A b : Leaves(b)
BY DEF DeliveryInv, DTypes, AckedIsSaved, SameFile, Leaves, OnDisk

(* A file saved, or spoilt by a download that is tried again.              *)
LEMMA SavesInHand ==
    ASSUME DeliveryInv, NEW h \in Deliveries, NEW x \in {h, Inbox!Nobody}, Inbox!Saves(h, x),
           delivery[h] = "unread", UNCHANGED delivery, tried \subseteq tried', x = h \/ h \in tried'
    PROVE  /\ file' \in [Files -> Deliveries \cup {Inbox!Nobody}] /\ AckedIsSaved'
           /\ Leaves(Box[h])
<1>1. /\ file' \in [Files -> Deliveries \cup {Inbox!Nobody}]
      /\ x = h => \A d \in Deliveries : d \in SameFile(h) => OnDisk(d)'
      /\ \A d \in Deliveries : d \notin SameFile(h) /\ OnDisk(d) => OnDisk(d)'
      /\ \A d \in Deliveries : Box[d] # Box[h] => d \notin SameFile(h)
  BY SavesOne DEF DeliveryInv
<1>2. Leaves(Box[h])
  BY <1>1 DEF Leaves
<1>3. ASSUME NEW d \in Deliveries, delivery'[d] = "acked" PROVE OnDisk(d)' \/ Spoilt(d)'
  <2>1. CASE d \in SameFile(h)
    <3>1. CASE x = h
      BY <1>1, <2>1, <3>1
    <3>2. CASE h \in tried'
      BY <2>1, <3>2 DEF Spoilt, SameFile
    <3>3. QED
      BY <3>1, <3>2
  <2>2. CASE d \notin SameFile(h)
    <3>1. OnDisk(d) \/ Spoilt(d)
      BY <1>3, Saved DEF DeliveryInv
    <3>2. Spoilt(d) => Spoilt(d)'
      BY DEF Spoilt, SameFile
    <3>3. QED
      BY <1>1, <2>2, <3>1, <3>2
  <2>3. QED
    BY <2>1, <2>2
<1>4. AckedIsSaved'
  BY <1>3 DEF AckedIsSaved, OnDisk, Spoilt
<1>5. QED
  BY <1>1, <1>2, <1>4

(* A failed download leaves the delivery tried.                            *)
LEMMA FailsDeliveries ==
    ASSUME DeliveryInv, NEW b \in Inbox!Boxes, place[b] = "fetch", Inbox!Fails(b),
           UNCHANGED <<delivery, stamp, now, cursor, overtaken>>,
           UNCHANGED file \/ \E x \in {Inbox!Next1(b), Inbox!Nobody} : Inbox!Saves(Inbox!Next1(b), x)
    PROVE  DeliveryInv'
<1> USE DEF DeliveryInv
<1>1. todo[b] # << >>
  BY DEF InHand
<1>2. Inbox!Next1(b) \in Deliveries /\ tried' = tried \cup {Inbox!Next1(b)}
  BY <1>1, Firsts DEF Inbox!Fails
<1>3. tried \subseteq tried' /\ tried' \subseteq Deliveries
  BY <1>2 DEF DTypes
<1>4. /\ file' \in [Files -> Deliveries \cup {Inbox!Nobody}] /\ AckedIsSaved'
      /\ Leaves(b)
  <2>1. PICK h : h = Inbox!Next1(b)
    OBVIOUS
  <2>2. h \in Deliveries /\ Box[h] = b /\ delivery[h] = "unread" /\ h \in tried'
    BY <1>1, <1>2, <2>1, Firsts
  <2>3. CASE UNCHANGED file
    BY <1>3, <2>3, Untouched
  <2>4. CASE \E x \in {h, Inbox!Nobody} : Inbox!Saves(h, x)
    BY <1>3, <2>2, <2>4, SavesInHand
  <2>5. QED
    BY <2>1, <2>3, <2>4
<1>5. CASE b = "campaign"
  <2>1. Inbox!Advance(b)
    BY <1>5 DEF Inbox!Fails
  <2>2. /\ InHand' /\ todo' \in [Inbox!Boxes -> Seq(Deliveries)]
        /\ place' \in [Inbox!Boxes -> {"poll", "fetch", "ack", "stopped"}]
        /\ CampaignHand # << >> /\ CampaignHand' = Tail(CampaignHand)
    BY <1>1, <1>4, <1>5, <2>1, AdvanceHands
  <2>3. Head(CampaignHand) \in tried'
    BY <1>2, <1>5 DEF Inbox!Next1, CampaignHand
  <2>4. Followed'
    BY <1>3, <2>2, <2>3, FollowsOn DEF Followed
  <2>5. QED
    BY <1>3, <1>4, <2>2, <2>4, HandsMove
<1>6. CASE b # "campaign"
  <2>1. Inbox!Goto(b, "poll") /\ todo' = [todo EXCEPT ![b] = << >>]
    BY <1>6 DEF Inbox!Fails
  <2>2. /\ InHand' /\ todo' \in [Inbox!Boxes -> Seq(Deliveries)]
        /\ place' \in [Inbox!Boxes -> {"poll", "fetch", "ack", "stopped"}]
        /\ CampaignHand' = CampaignHand
    BY <1>4, <1>6, <2>1, DropHands
  <2>3. Followed'
    BY <1>3, <2>2, StillFollows DEF Followed
  <2>4. QED
    BY <1>3, <1>4, <2>2, <2>3, HandsMove
<1>7. QED
  BY <1>5, <1>6

LEMMA DownloadDeliveries ==
    ASSUME DeliveryInv, NEW b \in Inbox!Boxes, Inbox!Download(b)
    PROVE  DeliveryInv'
<1> USE DEF DeliveryInv, Inbox!table, Inbox!store
<1>0. place[b] = "fetch" /\ UNCHANGED <<delivery, stamp, now, cursor, overtaken>>
  BY DEF Inbox!Download
<1>1. CASE /\ Inbox!Fails(b)
           /\ UNCHANGED file \/ \E x \in {Inbox!Next1(b), Inbox!Nobody} : Inbox!Saves(Inbox!Next1(b), x)
  BY <1>0, <1>1, FailsDeliveries
<1>2. CASE /\ Inbox!Saves(Inbox!Next1(b), Inbox!Next1(b))
           /\ Inbox!Goto(b, "ack") /\ UNCHANGED <<todo, tried>>
  <2>1. todo[b] # << >>
    BY <1>0 DEF InHand
  <2>2. /\ Inbox!Next1(b) \in Deliveries /\ delivery[Inbox!Next1(b)] = "unread"
        /\ Box[Inbox!Next1(b)] = b
    BY <2>1, Firsts
  <2>3. PICK h : h = Inbox!Next1(b)
    OBVIOUS
  <2>4. h \in Deliveries /\ Inbox!Saves(h, h) /\ delivery[h] = "unread" /\ Box[h] = b
    BY <1>2, <2>2, <2>3
  <2>5. /\ file' \in [Files -> Deliveries \cup {Inbox!Nobody}] /\ AckedIsSaved' /\ Leaves(b)
    BY <1>0, <1>2, <2>4, SavesInHand
  <2>a. OnDisk(h)'
    BY <2>4, SavesOne DEF SameFile
  <2>6. /\ place' \in [Inbox!Boxes -> {"poll", "fetch", "ack", "stopped"}] /\ place'[b] = "ack"
        /\ \A c \in Inbox!Boxes : c # b => place'[c] = place[c]
    BY <1>2 DEF DTypes, Inbox!Goto
  <2>7. DTypes' /\ Stamped' /\ CursorPassesNone'
    BY <1>0, <1>2, <2>5, <2>6 DEF DTypes, Stamped, CursorPassesNone, Passed
  <2>9. Followed'
    <3>1. CampaignHand' = CampaignHand
      BY <1>2 DEF CampaignHand
    <3>2. QED
      BY <1>0, <1>2, <3>1, StillFollows DEF Followed
  <2>10. InHand'
    <3>1. \A c \in Inbox!Boxes :
             /\ \A i \in DOMAIN todo[c] : Box[todo[c][i]] = c /\ delivery'[todo[c][i]] = "unread"
             /\ \A i, j \in DOMAIN todo[c] : todo[c][i] = todo[c][j] => i = j
      BY <1>0, <1>2 DEF InHand
    <3>2. ASSUME NEW c \in Inbox!Boxes
          PROVE  /\ place'[c] \in {"fetch", "ack"} <=> todo[c] # << >>
                 /\ place'[c] = "ack" => OnDisk(Inbox!Next1(c))'
      <4>1. CASE c = b
        <5>1. Inbox!Next1(c)' = h
          BY <1>2, <2>3, <4>1 DEF Inbox!Next1
        <5>2. OnDisk(Inbox!Next1(c))'
          BY <2>a, <5>1 DEF OnDisk, SameFile
        <5>3. QED
          BY <2>1, <2>6, <4>1, <5>2
      <4>2. CASE c # b
        <5>1. place'[c] = place[c] /\ (place[c] \in {"fetch", "ack"} <=> todo[c] # << >>)
          BY <2>6, <4>2 DEF InHand
        <5>2. PICK d : d = Inbox!Next1(c)
          OBVIOUS
        <5>3. Inbox!Next1(c)' = d
          BY <1>2, <5>2 DEF Inbox!Next1
        <5>4. place[c] = "ack" => d \in Deliveries /\ OnDisk(d) /\ Box[d] = c
          BY <5>1, <5>2, Firsts DEF InHand
        <5>5. place[c] = "ack" => OnDisk(d)'
          BY <2>5, <4>2, <5>4 DEF Leaves
        <5>7. place[c] = "ack" => OnDisk(Inbox!Next1(c))'
          BY <5>3, <5>5 DEF OnDisk, SameFile
        <5>6. QED
          BY <5>1, <5>7
      <4>3. QED
        BY <4>1, <4>2
    <3>3. QED
      BY <1>2, <3>1, <3>2 DEF InHand
  <2>11. QED
    BY <2>5, <2>7, <2>9, <2>10
<1>3. QED
  BY <1>0, <1>1, <1>2 DEF Inbox!Download

(* What is acknowledged is on the disk, and the cursor comes to the first  *)
(* the worker has in its hands.                                            *)
LEMMA AcknowledgeDeliveries ==
    ASSUME DeliveryInv, NEW b \in Inbox!Boxes, Inbox!Acknowledge(b)
    PROVE  DeliveryInv'
<1> USE DEF DeliveryInv
<1>1. PICK h : h = Inbox!Next1(b)
  OBVIOUS
<1>2. place[b] = "ack" /\ UNCHANGED <<stamp, now, hot, file, tried, overtaken>>
  BY DEF Inbox!Acknowledge
<1>3. todo[b] # << >>
  BY <1>2 DEF InHand
<1>4. h \in Deliveries /\ OnDisk(h) /\ Box[h] = b /\ delivery[h] = "unread"
  BY <1>1, <1>2, <1>3, Firsts DEF InHand
<1>5. \/ delivery' = [delivery EXCEPT ![h] = "acked"] /\ (Inbox!Acknowledged(b) \/ Inbox!Raises(b))
      \/ delivery' = delivery /\ Inbox!Raises(b)
  BY <1>1 DEF Inbox!Acknowledge
<1>6. /\ delivery' \in [Deliveries -> {"absent", "inserting", "unread", "acked"}]
      /\ \A d \in Deliveries : /\ delivery'[d] = "unread" => delivery[d] = "unread"
                               /\ delivery'[d] # "absent" => delivery[d] # "absent"
                               /\ delivery[d] = "acked" => delivery'[d] = "acked"
                               /\ delivery'[d] = "acked" => delivery[d] = "acked" \/ d = h
                               /\ d # h /\ delivery[d] = "unread" => delivery'[d] = "unread"
  BY <1>4, <1>5 DEF DTypes
<1>7. Stamped'
  BY <1>2, <1>6 DEF Stamped
<1>8. AckedIsSaved'
  <2> SUFFICES ASSUME NEW d \in Deliveries, delivery'[d] = "acked" PROVE OnDisk(d)' \/ Spoilt(d)'
    BY DEF AckedIsSaved, OnDisk, Spoilt
  <2>1. CASE d \in SameFile(h)
    BY <1>2, <1>4, <2>1 DEF OnDisk, SameFile
  <2>2. CASE d \notin SameFile(h)
    <3>1. d # h
      BY <1>4, <2>2 DEF SameFile
    <3>2. OnDisk(d) \/ Spoilt(d)
      BY <1>6, <3>1, Saved
    <3>3. Spoilt(d) => Spoilt(d)'
      BY <1>2, <1>4, <1>6, <2>2 DEF Spoilt, SameFile
    <3>4. QED
      BY <1>2, <3>2, <3>3 DEF OnDisk, SameFile
  <2>3. QED
    BY <2>1, <2>2
<1>l. Leaves(b)
  BY <1>2, <1>4, <1>6 DEF Leaves, OnDisk, SameFile
<1>9. CASE Inbox!Raises(b)
  <2> DEFINE p == IF b = "campaign" THEN "stopped" ELSE "poll"
  <2>1. Inbox!Goto(b, p) /\ todo' = [todo EXCEPT ![b] = << >>] /\ cursor' = cursor
        /\ p \in {"poll", "stopped"}
    BY <1>9 DEF Inbox!Raises
  <2> HIDE DEF p
  <2>2. /\ InHand' /\ todo' \in [Inbox!Boxes -> Seq(Deliveries)]
        /\ place' \in [Inbox!Boxes -> {"poll", "fetch", "ack", "stopped"}]
        /\ CampaignHand' = << >> \/ CampaignHand' = CampaignHand
    BY <1>l, <2>1, DropHands
  <2>3. cursor' = 0 \/ \E e \in Deliveries : delivery'[e] = "acked" /\ stamp[e] = cursor'
    BY <1>6, <2>1 DEF Followed
  <2>4. Followed'
    BY <1>2, <1>6, <2>2, <2>3, StillFollows
  <2>5. DTypes' /\ CursorPassesNone'
    BY <1>2, <1>6, <2>1, <2>2 DEF DTypes, CursorPassesNone, Passed
  <2>6. QED
    BY <1>7, <1>8, <2>2, <2>4, <2>5
<1>10. CASE Inbox!Acknowledged(b) /\ delivery' = [delivery EXCEPT ![h] = "acked"]
  <2>1. Inbox!Advance(b) /\ cursor' = IF b = "campaign" THEN stamp[h] ELSE cursor
    BY <1>1, <1>10 DEF Inbox!Acknowledged
  <2>2. /\ InHand' /\ todo' \in [Inbox!Boxes -> Seq(Deliveries)]
        /\ place' \in [Inbox!Boxes -> {"poll", "fetch", "ack", "stopped"}]
        /\ b = "campaign" => CampaignHand # << >> /\ CampaignHand' = Tail(CampaignHand)
        /\ b # "campaign" => CampaignHand' = CampaignHand
    BY <1>1, <1>3, <1>6, <1>l, <2>1, AdvanceHands
  <2>3. DTypes'
    BY <1>2, <1>4, <1>6, <2>1, <2>2 DEF DTypes
  <2>4. delivery'[h] = "acked"
    BY <1>4, <1>10 DEF DTypes
  <2>5. CASE b # "campaign"
    <3>1. cursor' = cursor
      BY <2>1, <2>5
    <3>2. Followed'
      BY <1>2, <1>6, <2>2, <2>5, <3>1, StillFollows DEF Followed
    <3>3. CursorPassesNone'
      BY <1>2, <1>6, <3>1 DEF CursorPassesNone, Passed
    <3>4. QED
      BY <1>7, <1>8, <2>2, <2>3, <3>2, <3>3
  <2>6. CASE b = "campaign"
    <3>1. Head(CampaignHand) = h /\ cursor' = stamp[h]
      BY <1>1, <2>1, <2>6 DEF CampaignHand, Inbox!Next1
    <3>2. Followed'
      <4>1. /\ Inbox!Sorted(CampaignHand)'
            /\ CampaignHand' # << >> =>
                  \A d \in Deliveries :
                     Box[d] = "campaign" /\ delivery'[d] = "unread"
                     /\ stamp'[d] <= stamp'[LastInHand'] => Seen(d)'
        BY <1>2, <1>6, <2>2, <2>4, <2>6, <3>1, FollowsOn
      <4>2. \E e \in Deliveries : delivery'[e] = "acked" /\ stamp'[e] = cursor'
        BY <1>2, <1>4, <2>4, <3>1
      <4>3. QED
        BY <4>1, <4>2 DEF Followed
    <3>3. CursorPassesNone'
      <4> SUFFICES ASSUME NEW d \in Deliveries, Passed(d)' PROVE d \in tried \cup overtaken
        BY <1>2 DEF CursorPassesNone
      <4>1. Box[d] = "campaign" /\ delivery'[d] = "unread" /\ stamp[d] <= stamp[h] /\ delivery[d] = "unread"
            /\ d # h
        BY <1>2, <1>6, <2>4, <3>1 DEF Passed
      <4>2. CampaignHand \in Seq(Deliveries) /\ CampaignHand # << >>
        BY <2>2, <2>6 DEF CampaignHand, DTypes
      <4>3. PICK l : l = CampaignHand
        OBVIOUS
      <4>4. /\ l \in Seq(Deliveries) /\ Len(l) \in Nat \ {0} /\ DOMAIN l = 1 .. Len(l)
            /\ l[1] = h /\ Inbox!Sorted(l)
        BY <3>1, <4>2, <4>3 DEF Followed
      <4>5. \A i \in 2 .. Len(l) : stamp[h] < stamp[l[i]]
        BY <4>4 DEF Inbox!Sorted, Inbox!Earlier
      <4>6. l[Len(l)] \in Deliveries /\ \A e \in Deliveries : stamp[e] \in Nat
        BY <4>4 DEF DTypes
      <4>7. stamp[h] <= stamp[l[Len(l)]]
        BY <1>4, <4>4, <4>5, <4>6
      <4>8. stamp[d] <= stamp[l[Len(l)]]
        BY <1>4, <4>1, <4>6, <4>7
      <4>9. d \in Inbox!ToSet(l) \cup tried \cup overtaken
        BY <4>1, <4>2, <4>3, <4>8 DEF Followed, LastInHand, Seen
      <4>10. d \notin Inbox!ToSet(l)
        <5> SUFFICES ASSUME NEW i \in DOMAIN l, l[i] = d PROVE FALSE
          BY DEF Inbox!ToSet
        <5>1. i # 1 /\ i \in 2 .. Len(l)
          BY <4>1, <4>4
        <5>2. stamp[h] < stamp[d] /\ stamp[h] \in Nat /\ stamp[d] \in Nat
          BY <1>4, <4>5, <4>6, <5>1
        <5>3. QED
          BY <4>1, <5>2
      <4>11. QED
        BY <4>9, <4>10
    <3>4. QED
      BY <1>7, <1>8, <2>2, <2>3, <3>2, <3>3
  <2>7. QED
    BY <2>5, <2>6
<1>11. QED
  BY <1>5, <1>9, <1>10

LEMMA RestartDeliveries ==
    ASSUME DeliveryInv, Inbox!Restart
    PROVE  DeliveryInv'
<1> USE DEF DeliveryInv, Inbox!table, Inbox!store
<1>1. /\ Inbox!Goto("campaign", "poll") /\ todo' = [todo EXCEPT !["campaign"] = << >>]
      /\ cursor' = 0 /\ UNCHANGED <<delivery, stamp, now, tried, overtaken>>
  BY DEF Inbox!Restart
<1>2. "campaign" \in Inbox!Boxes /\ tried' \subseteq Deliveries
  BY <1>1 DEF Inbox!Boxes, DTypes
<1>3. file' \in [Files -> Deliveries \cup {Inbox!Nobody}] /\ AckedIsSaved' /\ Leaves("campaign")
  <2>1. CASE UNCHANGED file
    BY <1>1, <2>1, Untouched
  <2>2. CASE place["campaign"] = "fetch" /\ Inbox!Saves(Inbox!Next1("campaign"), Inbox!Nobody)
    <3>1. PICK h : h = Inbox!Next1("campaign")
      OBVIOUS
    <3>2. todo["campaign"] # << >>
      BY <1>2, <2>2 DEF InHand
    <3>3. h \in Deliveries /\ Box[h] = "campaign" /\ delivery[h] = "unread"
      BY <1>2, <3>1, <3>2, Firsts
    <3>4. Inbox!Saves(h, Inbox!Nobody)
      BY <2>2, <3>1
    <3>5. /\ file' \in [Files -> Deliveries \cup {Inbox!Nobody}]
          /\ \A d \in Deliveries : d \notin SameFile(h) /\ OnDisk(d) => OnDisk(d)'
          /\ \A d \in Deliveries : Box[d] # Box[h] => d \notin SameFile(h)
      BY <3>3, <3>4, SavesOne
    <3>6. ASSUME NEW d \in Deliveries, delivery'[d] = "acked" PROVE OnDisk(d)' \/ Spoilt(d)'
      <4>1. d # h /\ (OnDisk(d) \/ Spoilt(d))
        BY <1>1, <3>3, <3>6, Saved
      <4>2. d \notin SameFile(h)
        BY <3>3, <4>1, FileAssumption DEF SameFile
      <4>3. Spoilt(d) => Spoilt(d)'
        BY <1>1 DEF Spoilt, SameFile
      <4>4. QED
        BY <3>5, <4>1, <4>2, <4>3
    <3>7. AckedIsSaved'
      BY <3>6 DEF AckedIsSaved, OnDisk, Spoilt
    <3>8. Leaves("campaign")
      BY <1>1, <3>3, <3>5 DEF Leaves
    <3>9. QED
      BY <3>5, <3>7, <3>8
  <2>3. QED
    BY <2>1, <2>2 DEF Inbox!Restart
<1>4. /\ InHand' /\ todo' \in [Inbox!Boxes -> Seq(Deliveries)]
      /\ place' \in [Inbox!Boxes -> {"poll", "fetch", "ack", "stopped"}]
      /\ CampaignHand' = << >>
  BY <1>1, <1>2, <1>3, DropHands
<1>5. Followed'
  BY <1>1, <1>4, StillFollows
<1>6. QED
  BY <1>1, <1>2, <1>3, <1>4, <1>5, HandsMove

(* The inductive invariant.                                                *)
THEOREM DeliveriesInvariant == Inbox!Spec => []DeliveryInv
<1>1. DeliveryInv /\ [Inbox!Next]_Inbox!vars => DeliveryInv'
  <2> SUFFICES ASSUME DeliveryInv, [Inbox!Next]_Inbox!vars PROVE DeliveryInv'
    OBVIOUS
  <2>1. ASSUME UNCHANGED <<Inbox!table, Inbox!client, tried, overtaken>> PROVE DeliveryInv'
    BY <2>1
       DEF Inbox!table, Inbox!client, DeliveryInv, DTypes, Stamped, InHand, Followed, AckedIsSaved, CursorPassesNone,
           OnDisk, SameFile, Inbox!Next1, Committed, Inbox!Sorted, Inbox!Earlier, CampaignHand, LastInHand, Seen, Passed
  <2>2. CASE UNCHANGED Inbox!vars
    BY <2>1, <2>2 DEF Inbox!vars, Inbox!history
  <2>3. CASE \E d \in Deliveries : Inbox!CreateDeliveryFromGrade(d)
    BY <2>3, InsertDeliveries, CommitDeliveries DEF Inbox!CreateDeliveryFromGrade
  <2>4. CASE \E b \in Inbox!Boxes : Inbox!ClientStep(b)
    BY <2>4, PollDeliveries, DownloadDeliveries, AcknowledgeDeliveries DEF Inbox!ClientStep
  <2>5. CASE Inbox!Restart
    BY <2>5, RestartDeliveries
  <2>6. CASE \E k \in Keys : Inbox!DeleteLandingObjectsAfterAck(k)
    BY <2>1, <2>6 DEF Inbox!DeleteLandingObjectsAfterAck
  <2>7. QED
    BY <2>2, <2>3, <2>4, <2>5, <2>6 DEF Inbox!Next
<1>2. QED
  BY <1>1, InitDeliveries, PTL DEF Inbox!Spec

(* What has been acknowledged is on the client's disk, its own frame or one*)
(* of the same developer's task, or was spoilt by the failed download of   *)
(* one that is still to be acknowledged, however many deliveries, objects  *)
(* and faults there are (run_worker, drain, handleInboxAck).               *)
THEOREM DeliveriesAckedIsSaved == Inbox!Spec => []AckedIsSaved
BY DeliveriesInvariant, PTL DEF DeliveryInv

(* The worker's cursor moves past no delivery it has not had in its hands, *)
(* whatever the LIMIT of a poll, but one that was overtaken by the commit  *)
(* of a later one (handleInboxPoll, run_worker).                           *)
THEOREM DeliveriesCursorPassesNone == Inbox!Spec => []CursorPassesNone
BY DeliveriesInvariant, PTL DEF DeliveryInv

=============================================================================
