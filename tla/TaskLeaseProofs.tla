-------------------------- MODULE TaskLeaseProofs --------------------------
(***************************************************************************)
(* What holds of TaskLease for any set of tasks and telescopes, any        *)
(* failure limit, any faults and any number of restarts: its types, one    *)
(* claim per return to pending, that it implements TaskContract, whose     *)
(* properties are proved from the contract alone, and that it forgets no   *)
(* pending task while no call fails that it has no second chance for.      *)
(***************************************************************************)
EXTENDS TaskLease, SequenceTheorems, TLAPS
-----------------------------------------------------------------------------
(* The contract by itself.                                                 *)

(* FailureAccounting is not inductive by itself: submitting a task must    *)
(* find its failure count at zero.                                         *)
FreshTasks == \A t \in Tasks : status[t] = "absent" => failures[t] = 0

CInv == /\ Contract!CTypeOK /\ Contract!OwnerMatchesStatus
        /\ Contract!FailureAccounting /\ FreshTasks

LEMMA CInvInit == MaxFailures \in Nat /\ Contract!CInit => CInv
  BY DEF CInv, FreshTasks, Contract!CInit, Contract!CTypeOK,
         Contract!OwnerMatchesStatus, Contract!FailureAccounting,
         Contract!Status, Contract!Open, Contract!Terminal

(* The status column takes one new value, or two when a task is replaced.  *)
LEMMA CTypeStep ==
    Contract!CTypeOK /\ [Contract!CNext]_(Contract!cvars) => Contract!CTypeOK'
<1> SUFFICES ASSUME Contract!CTypeOK, [Contract!CNext]_(Contract!cvars)
             PROVE  Contract!CTypeOK'
  OBVIOUS
<1> USE DEF Contract!CTypeOK
<1>s. \A s \in {"absent", "pending", "assigned", "completed", "expired", "superseded"} :
         s \in Contract!Status
  BY DEF Contract!Status, Contract!Open, Contract!Terminal
<1>1. CASE UNCHANGED Contract!cvars
  BY <1>1 DEF Contract!cvars
<1>2. ASSUME NEW t \in Tasks, Contract!Submit(t) PROVE Contract!CTypeOK'
  BY <1>2, <1>s DEF Contract!Submit
<1>3. ASSUME NEW t \in Tasks, NEW n \in Nodes, Contract!Win(t, n) PROVE Contract!CTypeOK'
  BY <1>3, <1>s DEF Contract!Win
<1>4. ASSUME NEW t \in Tasks, Contract!Yield(t) PROVE Contract!CTypeOK'
  BY <1>4, <1>s DEF Contract!Yield
<1>5. ASSUME NEW t \in Tasks, Contract!LoseLease(t) PROVE Contract!CTypeOK'
  BY <1>5, <1>s DEF Contract!LoseLease
<1>6. ASSUME NEW t \in Tasks, Contract!Close(t) PROVE Contract!CTypeOK'
  BY <1>6, <1>s DEF Contract!Close
<1>7. ASSUME NEW t \in Tasks, NEW new \in Tasks, Contract!Replace(t, new)
      PROVE Contract!CTypeOK'
  BY <1>7, <1>s DEF Contract!Replace
<1>8. QED
  BY <1>1, <1>2, <1>3, <1>4, <1>5, <1>6, <1>7 DEF Contract!CNext, Contract!CStep

LEMMA CInvStep == MaxFailures \in Nat /\ CInv /\ [Contract!CNext]_(Contract!cvars) => CInv'
<1> SUFFICES ASSUME MaxFailures \in Nat, CInv, [Contract!CNext]_(Contract!cvars)
             PROVE  (/\ Contract!OwnerMatchesStatus /\ Contract!FailureAccounting
                     /\ FreshTasks)'
  BY CTypeStep DEF CInv
<1> DEFINE Good(u) ==
      /\ status[u] \in {"absent", "pending"} => owner[u] = NoNode
      /\ status[u] = "assigned" => owner[u] \in Nodes
      /\ status[u] \in {"pending", "assigned"} /\ MaxFailures > 0
            => failures[u] < MaxFailures
      /\ status[u] = "expired" => MaxFailures > 0 /\ failures[u] = MaxFailures
      /\ status[u] = "absent" => failures[u] = 0
<1>g. \A u \in Tasks : Good(u)
  BY DEF CInv, FreshTasks, Contract!OwnerMatchesStatus, Contract!FailureAccounting,
         Contract!Open
<1> SUFFICES ASSUME NEW u \in Tasks PROVE Good(u)'
  BY DEF Contract!OwnerMatchesStatus, Contract!FailureAccounting, FreshTasks, Contract!Open
<1>t. /\ status \in [Tasks -> Contract!Status] /\ owner \in [Tasks -> Nodes \cup {NoNode}]
      /\ failures \in [Tasks -> Nat] /\ MaxFailures \in Nat
  BY DEF CInv, Contract!CTypeOK
<1>1. CASE UNCHANGED Contract!cvars
  BY <1>1, <1>g DEF Contract!cvars
<1>2. ASSUME NEW t \in Tasks, Contract!Submit(t) PROVE Good(u)'
  BY <1>2, <1>g, <1>t DEF Contract!Submit
<1>3. ASSUME NEW t \in Tasks, NEW n \in Nodes, Contract!Win(t, n) PROVE Good(u)'
  BY <1>3, <1>g, <1>t DEF Contract!Win
<1>4. ASSUME NEW t \in Tasks, Contract!Yield(t) PROVE Good(u)'
  BY <1>4, <1>g, <1>t DEF Contract!Yield
<1>5. ASSUME NEW t \in Tasks, Contract!LoseLease(t) PROVE Good(u)'
  BY <1>5, <1>g, <1>t DEF Contract!LoseLease
<1>6. ASSUME NEW t \in Tasks, Contract!Close(t) PROVE Good(u)'
  BY <1>6, <1>g, <1>t DEF Contract!Close
<1>7. ASSUME NEW t \in Tasks, NEW new \in Tasks, Contract!Replace(t, new) PROVE Good(u)'
  BY <1>7, <1>g, <1>t DEF Contract!Replace
<1>8. QED
  BY <1>1, <1>2, <1>3, <1>4, <1>5, <1>6, <1>7 DEF Contract!CNext, Contract!CStep

(* Every reachable state keeps the types, the agreement of owner and       *)
(* status, and the exact count of lost leases.                             *)
THEOREM ContractInvariant ==
    ASSUME MaxFailures \in Nat
    PROVE  Contract!CSpec => []CInv
<1>1. Contract!CInit => CInv
  BY CInvInit
<1>2. CInv /\ [Contract!CNext]_(Contract!cvars) => CInv'
  BY CInvStep
<1>3. QED
  BY <1>1, <1>2, PTL DEF Contract!CSpec

LEMMA TerminalStep ==
    Contract!CTypeOK /\ [Contract!CNext]_(Contract!cvars) =>
        \A t \in Tasks : status[t] \in Contract!Terminal => status'[t] \in Contract!Terminal
<1> SUFFICES ASSUME Contract!CTypeOK, [Contract!CNext]_(Contract!cvars),
                    NEW u \in Tasks, status[u] \in Contract!Terminal
             PROVE  status'[u] \in Contract!Terminal
  OBVIOUS
<1> USE DEF Contract!CTypeOK, Contract!Terminal
<1>1. CASE UNCHANGED Contract!cvars
  BY <1>1 DEF Contract!cvars
<1>2. ASSUME NEW t \in Tasks, Contract!Submit(t) PROVE status'[u] \in Contract!Terminal
  BY <1>2 DEF Contract!Submit
<1>3. ASSUME NEW t \in Tasks, NEW n \in Nodes, Contract!Win(t, n)
      PROVE status'[u] \in Contract!Terminal
  BY <1>3 DEF Contract!Win
<1>4. ASSUME NEW t \in Tasks, Contract!Yield(t) PROVE status'[u] \in Contract!Terminal
  BY <1>4 DEF Contract!Yield
<1>5. ASSUME NEW t \in Tasks, Contract!LoseLease(t) PROVE status'[u] \in Contract!Terminal
  BY <1>5 DEF Contract!LoseLease
<1>6. ASSUME NEW t \in Tasks, Contract!Close(t) PROVE status'[u] \in Contract!Terminal
  BY <1>6 DEF Contract!Close
<1>7. ASSUME NEW t \in Tasks, NEW new \in Tasks, Contract!Replace(t, new)
      PROVE status'[u] \in Contract!Terminal
  BY <1>7 DEF Contract!Replace
<1>8. QED
  BY <1>1, <1>2, <1>3, <1>4, <1>5, <1>6, <1>7 DEF Contract!CNext, Contract!CStep

(* No step reopens a completed, superseded or expired task.                *)
THEOREM ContractTerminal ==
    ASSUME MaxFailures \in Nat
    PROVE  Contract!CSpec => Contract!TerminalIsFinal
<1>1. Contract!CSpec => []Contract!CTypeOK
  BY ContractInvariant, PTL DEF CInv
<1>2. Contract!CTypeOK /\ [Contract!CNext]_(Contract!cvars) =>
        [\A t \in Tasks : status[t] \in Contract!Terminal
             => status'[t] \in Contract!Terminal]_(Contract!cvars)
  BY TerminalStep
<1>3. QED
  BY <1>1, <1>2, PTL DEF Contract!CSpec, Contract!TerminalIsFinal
-----------------------------------------------------------------------------
(* The server.                                                             *)

(* What the program counters say of the fields that come with them.        *)
LoopShape(r) ==
    /\ r.pc # "idle" => r.task \in Tasks
    /\ r.pc \in {"claim", "publish", "record", "unrecord"} => r.i \in 1..Len(r.picks)
    /\ r.pc \in {"release", "releaseRow"} => r.victim \in Tasks /\ Len(r.picks) >= 1

Shaped == /\ \A l \in Loops : LoopShape(loop[l])
          /\ reclaim.pc # "idle" => reclaim.task \in Tasks /\ reclaim.node \in Nodes
          /\ \A t \in Tasks : api[t].pc = "clear" => api[t].node \in Nodes

(* Whatever a step has in hand has been created: the budget of a grade,    *)
(* and the edit of a task, would otherwise close a task that is not there. *)
Known == /\ \A l \in Loops : loop[l].pc \in {"publish", "record"} =>
                                status[loop[l].task] # "absent"
         /\ reclaim.pc = "decide" => status[reclaim.task] # "absent"
         /\ \A t \in patching : status[t] # "absent"
         /\ \A t \in Tasks, n \in Nodes : row[t][n].status # "none" =>
                                             status[t] # "absent"

IInv == TypeOK /\ Shaped /\ Known /\ OneClaimPerReturn
-----------------------------------------------------------------------------
(* Refinement: what each step does to the three columns of the contract.   *)

(* A step outside the contract's columns is a stutter of the contract.     *)
LEMMA Stutters ==
    ASSUME UNCHANGED <<status, owner, failures>>
    PROVE  [Contract!CNext]_(Contract!cvars)
  BY DEF Contract!cvars

(* A claim, by either of its two committing outcomes, is a Win.            *)
LEMMA ClaimRefines ==
    ASSUME TypeOK, Shaped, NEW l \in Loops, Claim(l)
    PROVE  [Contract!CNext]_(Contract!cvars)
<1> DEFINE t == loop[l].task
           n == loop[l].picks[1]
<1>1. t \in Tasks /\ n \in Nodes
  BY DEF Claim, TypeOK, Shaped, LoopShape
<1>2. ASSUME CommitClaim(t, n) PROVE [Contract!CNext]_(Contract!cvars)
  <2>1. Contract!Win(t, n)
    BY <1>2 DEF CommitClaim, Assignable, Contract!Win
  <2>2. QED
    BY <1>1, <2>1 DEF Contract!CNext, Contract!CStep
<1>3. ASSUME UNCHANGED tasksTable PROVE [Contract!CNext]_(Contract!cvars)
  BY <1>3, Stutters DEF tasksTable
<1>4. QED
  BY <1>2, <1>3 DEF Claim

(* Releasing the victim of a preemption is a Yield, or nothing.            *)
LEMMA ReleaseRefines ==
    ASSUME TypeOK, Shaped, NEW l \in Loops, ReleaseVictim(l)
    PROVE  [Contract!CNext]_(Contract!cvars)
<1> DEFINE v == loop[l].victim
<1>1. v \in Tasks
  BY DEF ReleaseVictim, Shaped, LoopShape
<1>2. CASE UNCHANGED <<status, owner>>
  BY <1>2, Stutters DEF ReleaseVictim
<1>3. CASE ~ UNCHANGED <<status, owner>>
  <2>1. Contract!Yield(v)
    BY <1>3 DEF ReleaseVictim, StillHeld, Contract!Yield
  <2>2. QED
    BY <1>1, <2>1 DEF Contract!CNext, Contract!CStep
<1>4. QED
  BY <1>2, <1>3

(* The reclaim decides under the row lock: the lease is lost, or the task  *)
(* row is left alone.                                                      *)
LEMMA ReclaimRefines ==
    ASSUME TypeOK, Shaped, CommitReclaim
    PROVE  [Contract!CNext]_(Contract!cvars)
<1> DEFINE t == reclaim.task
<1>1. t \in Tasks
  BY DEF CommitReclaim, Shaped
<1>2. CASE UNCHANGED tasksTable
  BY <1>2, Stutters DEF tasksTable
<1>3. CASE ~ UNCHANGED tasksTable
  <2>1. Contract!LoseLease(t)
    BY <1>3 DEF CommitReclaim, ReclaimAct, MoveTask, Contract!LoseLease
  <2>2. QED
    BY <1>1, <2>1 DEF Contract!CNext, Contract!CStep
<1>4. QED
  BY <1>2, <1>3

(* The apiserver's statements submit, replace or close a task.             *)
LEMMA ApiRefines ==
    ASSUME TypeOK, Known, NEW t \in Tasks, ApiStep(t)
    PROVE  [Contract!CNext]_(Contract!cvars)
<1> USE DEF Contract!CNext, Contract!CStep
<1>1. CASE Create(t)
  BY <1>1 DEF Create, Contract!Submit
<1>2. CASE CommitPatch(t)
  <2>1. status[t] # "absent"
    BY <1>2 DEF CommitPatch, Known
  <2>2. CASE UNCHANGED status
    BY <1>2, <2>2, Stutters DEF CommitPatch
  <2>3. ASSUME NEW new \in Tasks, status[new] = "absent",
               status' = [status EXCEPT ![t] = "superseded", ![new] = "pending"]
        PROVE  [Contract!CNext]_(Contract!cvars)
    <3>1. Contract!Replace(t, new)
      BY <1>2, <2>1, <2>3 DEF CommitPatch, Contract!Replace
    <3>2. QED
      BY <3>1
  <2>4. QED
    BY <1>2, <2>2, <2>3 DEF CommitPatch
<1>3. CASE Complete(t)
  <2>1. Contract!Close(t)
    BY <1>3 DEF Complete, Contract!Close, Contract!Open
  <2>2. QED
    BY <2>1
<1>4. CASE FillBudget(t)
  <2>1. status[t] # "absent"
    BY <1>4 DEF FillBudget, Known
  <2>2. Contract!Close(t)
    BY <1>4, <2>1 DEF FillBudget, Contract!Close
  <2>3. QED
    BY <2>2
<1>5. CASE \/ CheckPatch(t) \/ CompleteRows(t) \/ PeekNode(t) \/ ClearNode(t)
           \/ Abandon(t)
  BY <1>5, Stutters
  DEF CheckPatch, CompleteRows, PeekNode, ClearNode, Abandon, tasksTable
<1>6. QED
  BY <1>1, <1>2, <1>3, <1>4, <1>5 DEF ApiStep

(* Every step of the server is a step of the contract or a stutter of it.  *)
LEMMA StepRefines ==
    TypeOK /\ Shaped /\ Known /\ [Next]_vars => [Contract!CNext]_(Contract!cvars)
<1> SUFFICES ASSUME TypeOK, Shaped, Known, [Next]_vars
             PROVE  [Contract!CNext]_(Contract!cvars)
  OBVIOUS
<1>1. CASE UNCHANGED vars
  BY <1>1, Stutters DEF vars, tasksTable
<1>2. CASE Take
  BY <1>2, Stutters DEF Take, TakeNote, LoseNotes, PopQueued, tasksTable
<1>3. ASSUME NEW l \in Loops, LoopStep(l) PROVE [Contract!CNext]_(Contract!cvars)
  <2>1. CASE \/ Fetch(l) \/ Select(l) \/ Record(l) \/ Publish(l) \/ PublishFails(l)
             \/ Unrecord(l) \/ ReleaseVictimRow(l) \/ Flush(l)
    BY <2>1, Stutters DEF Fetch, Select, Record, Publish, PublishFails, Unrecord,
                          ReleaseVictimRow, Flush, tasksTable
  <2>2. CASE Claim(l)
    BY <2>2, ClaimRefines
  <2>3. CASE ReleaseVictim(l)
    BY <2>3, ReleaseRefines
  <2>4. QED
    BY <1>3, <2>1, <2>2, <2>3 DEF LoopStep
<1>4. CASE SweepLeases \/ Crash \/ Recover
  BY <1>4, Stutters DEF SweepLeases, Crash, Recover, tasksTable
<1>5. CASE ReclaimStep
  <2>1. CASE \/ BeginReclaim \/ ReclaimFails \/ FreeReclaimedNode \/ QueueReclaimed
    BY <2>1, Stutters DEF BeginReclaim, ReclaimFails, FreeReclaimedNode,
                          QueueReclaimed, tasksTable
  <2>2. CASE DecideReclaim \/ ReclaimUnheard
    BY <2>2, ReclaimRefines DEF DecideReclaim, ReclaimUnheard
  <2>3. QED
    BY <1>5, <2>1, <2>2 DEF ReclaimStep
<1>6. ASSUME NEW t \in Tasks, Plan(t) \/ BackoffEnds(t)
      PROVE [Contract!CNext]_(Contract!cvars)
  BY <1>6, Stutters DEF Plan, BackoffEnds, tasksTable
<1>7. ASSUME NEW t \in Tasks, ApiStep(t) PROVE [Contract!CNext]_(Contract!cvars)
  BY <1>7, ApiRefines
<1>8. ASSUME NEW t \in Tasks, NEW n \in Nodes, PairStep(t, n)
      PROVE [Contract!CNext]_(Contract!cvars)
  BY <1>8, Stutters DEF PairStep, LeaseLapses, Renew, PierStops, tasksTable
<1>9. ASSUME NEW n \in Nodes, Reconcile(n) PROVE [Contract!CNext]_(Contract!cvars)
  BY <1>9, Stutters DEF Reconcile, tasksTable
<1>10. QED
  BY <1>1, <1>2, <1>3, <1>4, <1>5, <1>6, <1>7, <1>8, <1>9 DEF Next
-----------------------------------------------------------------------------
(* Types.                                                                  *)

RowType == [status : {"none", "assigned", "completed", "released", "expired"},
            role : {"primary", "cohort"}, lapsed : BOOLEAN]
LoopType == [pc : LoopPC, task : Tasks \cup {NoTask}, picks : Seq(Nodes), i : Nat,
             victim : Tasks \cup {NoTask}]
ReclaimType == [pc : {"idle", "decide", "marker", "queue"},
                task : Tasks \cup {NoTask}, node : Nodes \cup {NoNode},
                left : SUBSET Nodes, act : {"none", "requeue", "expire"}]
ApiType == [pc : {"idle", "rows", "nodes", "clear"},
            todo : SUBSET Nodes, node : Nodes \cup {NoNode}]

RowsOK == row \in [Tasks -> [Nodes -> RowType]]
LoopsOK == /\ loop \in [Loops -> LoopType]
           /\ \A l \in Loops : LoopShape(loop[l])
ReclaimOK == /\ reclaim \in ReclaimType /\ sweep \subseteq Tasks \X Nodes
             /\ reclaim.pc # "idle" => reclaim.task \in Tasks /\ reclaim.node \in Nodes
ApiOK == /\ api \in [Tasks -> ApiType]
         /\ \A t \in Tasks : api[t].pc = "clear" => api[t].node \in Nodes
SetsOK == /\ cooling \subseteq Tasks /\ queued \subseteq Tasks
          /\ parked \subseteq Tasks /\ notes \subseteq Tasks
          /\ patching \subseteq Tasks /\ working \subseteq Tasks \X Nodes
          /\ marker \in [Nodes -> Tasks \cup {NoTask}]
          /\ mode \in {"running", "starting"}
CountsOK == /\ returns \in [Tasks -> Nat] /\ claims \in [Tasks -> Nat]
            /\ crashes \in Nat /\ lost \subseteq Tasks

Rest == RowsOK /\ LoopsOK /\ ReclaimOK /\ ApiOK /\ SetsOK /\ CountsOK

LEMMA Split == TypeOK /\ Shaped <=> Contract!CTypeOK /\ Rest
  BY DEF TypeOK, Shaped, Rest, RowsOK, LoopsOK, ReclaimOK, ApiOK, SetsOK, CountsOK,
         RowType, LoopType, ReclaimType, ApiType

(* A cohort is a non-empty sequence of telescopes.                         *)
LEMMA CohortsAreSequences ==
    ASSUME NEW S \in SUBSET Nodes, NEW p \in Cohorts(S)
    PROVE  p \in Seq(Nodes) /\ Len(p) \in Nat \ {0}
<1>1. PICK k \in 1..MaxCohort : p \in [1..k -> S]
  BY DEF Cohorts
<1>2. k \in Nat \ {0}
  BY <1>1, CohortAssumption
<1>3. p \in Seq(S) /\ Len(p) = k
  BY <1>1, <1>2
<1>4. QED
  BY <1>2, <1>3

LEMMA TypeInit == Init => TypeOK /\ Shaped
<1> SUFFICES ASSUME Init PROVE Contract!CTypeOK /\ Rest
  BY Split
<1>1. Contract!CTypeOK
  BY DEF Init, Contract!CTypeOK, Contract!Status
<1>2. RowsOK
  BY DEF Init, RowsOK, RowType, NoRow
<1>3. LoopsOK
  BY DEF Init, LoopsOK, LoopType, LoopShape, LoopPC, Idle
<1>4. ReclaimOK /\ ApiOK
  BY DEF Init, ReclaimOK, ReclaimType, Resting, ApiOK, ApiType, NoRequest
<1>5. SetsOK /\ CountsOK
  BY DEF Init, SetsOK, CountsOK
<1>6. QED
  BY <1>1, <1>2, <1>3, <1>4, <1>5 DEF Rest
-----------------------------------------------------------------------------
(* Frames: which steps may change which part of the state.                 *)

LEMMA LoopFrame ==
    ASSUME [Next]_vars
    PROVE  \/ UNCHANGED loop
           \/ Take \/ Crash \/ \E l \in Loops : LoopStep(l)
<1> USE DEF orch
<1>1. CASE UNCHANGED vars
  BY <1>1 DEF vars
<1>2. CASE SweepLeases \/ Recover \/ ReclaimStep
  BY <1>2 DEF SweepLeases, Recover, ReclaimStep, BeginReclaim, DecideReclaim,
              ReclaimUnheard, CommitReclaim, ReclaimFails, FreeReclaimedNode,
              QueueReclaimed
<1>3. CASE \E t \in Tasks : Plan(t) \/ ApiStep(t) \/ BackoffEnds(t)
  BY <1>3 DEF Plan, BackoffEnds, ApiStep, Create, CheckPatch, CommitPatch, Complete,
              CompleteRows, PeekNode, ClearNode, Abandon, FillBudget
<1>4. CASE \/ \E t \in Tasks, n \in Nodes : PairStep(t, n)
           \/ \E n \in Nodes : Reconcile(n)
  BY <1>4 DEF PairStep, LeaseLapses, Renew, PierStops, Reconcile
<1>5. QED
  BY <1>1, <1>2, <1>3, <1>4 DEF Next

(* The reclaim decides and commits, heard or not.                          *)
Decides == DecideReclaim \/ ReclaimUnheard

LEMMA DecidesCommits ==
    /\ Decides => CommitReclaim
    /\ Decides /\ reclaim \in ReclaimType => reclaim'.pc # "decide"
<1>1. Decides => CommitReclaim
  BY DEF Decides, DecideReclaim, ReclaimUnheard
<1>2. ASSUME DecideReclaim, reclaim \in ReclaimType PROVE reclaim'.pc # "decide"
  <2> DEFINE a == ReclaimAct(reclaim.task)
  <2>1. reclaim' = [reclaim EXCEPT !.pc = "marker", !.act = a]
    BY <1>2 DEF DecideReclaim
  <2> HIDE DEF a
  <2>2. QED
    BY <1>2, <2>1 DEF ReclaimType
<1>3. ASSUME ReclaimUnheard PROVE reclaim'.pc # "decide"
  BY <1>3 DEF ReclaimUnheard, Resting
<1>4. QED
  BY <1>1, <1>2, <1>3 DEF Decides

RowWrite == \/ \E l \in Loops : Claim(l) \/ Record(l) \/ Unrecord(l) \/ ReleaseVictimRow(l)
            \/ Decides
            \/ \E t \in Tasks : CompleteRows(t)
            \/ \E t \in Tasks, n \in Nodes : LeaseLapses(t, n) \/ Renew(t, n)

LEMMA RowFrame ==
    ASSUME [Next]_vars
    PROVE  UNCHANGED row \/ RowWrite
<1>1. CASE UNCHANGED vars
  BY <1>1 DEF vars
<1>2. CASE Take \/ Crash \/ Recover \/ SweepLeases \/ \E n \in Nodes : Reconcile(n)
  BY <1>2 DEF Take, TakeNote, LoseNotes, PopQueued, Crash, Recover, SweepLeases, Reconcile
<1>3. CASE \E l \in Loops : LoopStep(l)
  BY <1>3 DEF LoopStep, Fetch, Select, Publish, PublishFails, ReleaseVictim, Flush,
              RowWrite
<1>4. CASE ReclaimStep
  BY <1>4 DEF ReclaimStep, BeginReclaim, Decides,
              ReclaimFails, FreeReclaimedNode, QueueReclaimed, RowWrite
<1>5. CASE \E t \in Tasks : Plan(t) \/ ApiStep(t) \/ BackoffEnds(t)
  BY <1>5 DEF Plan, BackoffEnds, ApiStep, Create, CheckPatch, CommitPatch, Complete,
              PeekNode, ClearNode, Abandon, FillBudget, RowWrite
<1>6. CASE \E t \in Tasks, n \in Nodes : PairStep(t, n)
  BY <1>6 DEF PairStep, PierStops, RowWrite
<1>7. QED
  BY <1>1, <1>2, <1>3, <1>4, <1>5, <1>6 DEF Next

LEMMA ReclaimFrame ==
    ASSUME [Next]_vars
    PROVE  \/ UNCHANGED <<reclaim, sweep>>
           \/ SweepLeases \/ ReclaimStep \/ Crash \/ \E l \in Loops : Claim(l)
<1> USE DEF orch
<1>1. CASE UNCHANGED vars
  BY <1>1 DEF vars
<1>2. CASE Take \/ Recover \/ \E n \in Nodes : Reconcile(n)
  BY <1>2 DEF Take, TakeNote, LoseNotes, PopQueued, Recover, Reconcile
<1>3. CASE \E l \in Loops : LoopStep(l)
  BY <1>3 DEF LoopStep, Fetch, Select, Record, Publish, PublishFails, Unrecord,
              ReleaseVictim, ReleaseVictimRow, Flush
<1>4. CASE \E t \in Tasks : Plan(t) \/ ApiStep(t) \/ BackoffEnds(t)
  BY <1>4 DEF Plan, BackoffEnds, ApiStep, Create, CheckPatch, CommitPatch, Complete,
              CompleteRows, PeekNode, ClearNode, Abandon, FillBudget
<1>5. CASE \E t \in Tasks, n \in Nodes : PairStep(t, n)
  BY <1>5 DEF PairStep, LeaseLapses, Renew, PierStops
<1>6. QED
  BY <1>1, <1>2, <1>3, <1>4, <1>5 DEF Next

LEMMA ApiFrame ==
    ASSUME [Next]_vars
    PROVE  \/ UNCHANGED <<api, patching>>
           \/ \E t \in Tasks : ApiStep(t)
<1> USE DEF apiserver
<1>1. CASE UNCHANGED vars
  BY <1>1 DEF vars
<1>2. CASE Take \/ Crash \/ Recover \/ SweepLeases \/ \E n \in Nodes : Reconcile(n)
  BY <1>2 DEF Take, TakeNote, LoseNotes, PopQueued, Crash, Recover, SweepLeases, Reconcile
<1>3. CASE \E l \in Loops : LoopStep(l)
  BY <1>3 DEF LoopStep, Fetch, Select, Claim, Record, Publish, PublishFails, Unrecord,
              ReleaseVictim, ReleaseVictimRow, Flush
<1>4. CASE ReclaimStep
  BY <1>4 DEF ReclaimStep, BeginReclaim, DecideReclaim, ReclaimUnheard,
              CommitReclaim, ReclaimFails, FreeReclaimedNode, QueueReclaimed
<1>5. CASE \E t \in Tasks : Plan(t) \/ BackoffEnds(t)
  BY <1>5 DEF Plan, BackoffEnds
<1>6. CASE \E t \in Tasks, n \in Nodes : PairStep(t, n)
  BY <1>6 DEF PairStep, LeaseLapses, Renew, PierStops
<1>7. QED
  BY <1>1, <1>2, <1>3, <1>4, <1>5, <1>6 DEF Next

(* The steps that write the status column or the history of claims.        *)
StatusWrite == \/ \E l \in Loops : Claim(l) \/ ReleaseVictim(l)
               \/ Decides
               \/ \E t \in Tasks : Create(t) \/ CommitPatch(t) \/ Complete(t) \/ FillBudget(t)

LEMMA StatusFrame ==
    ASSUME [Next]_vars
    PROVE  UNCHANGED <<status, claims, returns>> \/ StatusWrite
<1> USE DEF tasksTable, ghosts
<1>1. CASE UNCHANGED vars
  BY <1>1 DEF vars
<1>2. CASE Take \/ Crash \/ Recover \/ SweepLeases \/ \E n \in Nodes : Reconcile(n)
  BY <1>2 DEF Take, TakeNote, LoseNotes, PopQueued, Crash, Recover, SweepLeases, Reconcile
<1>3. CASE \E l \in Loops : LoopStep(l)
  BY <1>3 DEF LoopStep, Fetch, Select, Record, Publish, PublishFails, Unrecord,
              ReleaseVictimRow, Flush, StatusWrite
<1>4. CASE ReclaimStep
  BY <1>4 DEF ReclaimStep, BeginReclaim, Decides,
              ReclaimFails, FreeReclaimedNode, QueueReclaimed, StatusWrite
<1>5. CASE \E t \in Tasks : Plan(t) \/ ApiStep(t) \/ BackoffEnds(t)
  BY <1>5 DEF Plan, BackoffEnds, ApiStep, CheckPatch, CompleteRows, PeekNode,
              ClearNode, Abandon, StatusWrite
<1>6. CASE \E t \in Tasks, n \in Nodes : PairStep(t, n)
  BY <1>6 DEF PairStep, LeaseLapses, Renew, PierStops
<1>7. QED
  BY <1>1, <1>2, <1>3, <1>4, <1>5, <1>6 DEF Next
-----------------------------------------------------------------------------
(* Each part of the state keeps its type.                                  *)

(* One loop at a time moves on.                                            *)
LEMMA LoopUpdate ==
    ASSUME LoopsOK, NEW l \in Loops, NEW r, r \in LoopType, LoopShape(r),
           loop' = [loop EXCEPT ![l] = r]
    PROVE  LoopsOK'
  BY DEF LoopsOK, LoopShape

LEMMA IdleOK == Idle \in LoopType /\ LoopShape(Idle)
  BY DEF Idle, LoopType, LoopPC, LoopShape

LEMMA LoopsStep ==
    ASSUME Rest, [Next]_vars
    PROVE  LoopsOK'
<1>1. CASE UNCHANGED loop
  BY <1>1 DEF Rest, LoopsOK, LoopShape
<1>2. CASE Crash
  BY <1>2, IdleOK DEF Crash, LoopsOK, LoopShape
<1>3. CASE Take /\ ~UNCHANGED loop
  <2>1. PICK l \in Loops, t \in Tasks :
           loop' = [loop EXCEPT ![l] = [Idle EXCEPT !.pc = "fetch", !.task = t]]
    BY <1>3 DEF Take, TakeNote, LoseNotes, PopQueued, Loops, Rest, SetsOK, orch
  <2> DEFINE q == [Idle EXCEPT !.pc = "fetch", !.task = t]
  <2>2. q \in LoopType
    BY IdleOK DEF LoopType, LoopPC
  <2>3. q.pc = "fetch" /\ q.task = t
    BY IdleOK DEF LoopType
  <2> HIDE DEF q
  <2>4. LoopShape(q)
    BY <2>3 DEF LoopShape
  <2>5. QED
    BY <2>1, <2>2, <2>4, LoopUpdate DEF Rest, q
<1>4. ASSUME NEW l \in Loops, LoopStep(l) PROVE LoopsOK'
  <2> DEFINE r == loop[l]
             Moved(q) == q \in LoopType /\ LoopShape(q) /\ loop' = [loop EXCEPT ![l] = q]
  <2>t. /\ r \in LoopType /\ LoopShape(r) /\ loop \in [Loops -> LoopType]
        /\ r.pc # "idle" => r.task \in Tasks
    BY DEF Rest, LoopsOK, LoopShape
  <2>m. ASSUME NEW q, Moved(q) PROVE LoopsOK'
    BY <2>m, LoopUpdate DEF Rest
  <2>1. ASSUME Drop(l) PROVE LoopsOK'
    BY <2>1, <2>m, IdleOK DEF Drop
  <2>2. ASSUME NEW c \in {"select", "publish", "flush", "releaseRow"},
               loop' = [loop EXCEPT ![l].pc = c],
               c = "publish" => r.pc \in {"claim", "record"},
               c = "select" => r.pc = "fetch",
               c = "flush" => r.pc # "idle",
               c = "releaseRow" => r.pc = "release"
        PROVE  LoopsOK'
    <3> DEFINE q == [r EXCEPT !.pc = c]
    <3>1. q \in LoopType
      BY <2>t DEF LoopType, LoopPC
    <3>2. q.pc = c /\ q.task = r.task /\ q.picks = r.picks /\ q.i = r.i
             /\ q.victim = r.victim
      BY <2>t DEF LoopType
    <3> HIDE DEF q
    <3>3. LoopShape(q)
      BY <2>2, <2>t, <3>2 DEF LoopShape
    <3>4. QED
      BY <2>2, <2>m, <3>1, <3>3 DEF q
  <2>3. CASE Fetch(l)
    BY <2>1, <2>2, <2>3 DEF Fetch
  <2>4. CASE Select(l)
    <3>1. ASSUME NEW p \in Seq(Nodes), Len(p) \in Nat \ {0}, r.pc = "select",
                 NEW v \in Tasks \cup {NoTask},
                 loop' = [loop EXCEPT ![l] =
                            [r EXCEPT !.pc = "claim", !.picks = p, !.i = 1,
                                      !.victim = v]]
          PROVE  LoopsOK'
      <4> DEFINE q == [r EXCEPT !.pc = "claim", !.picks = p, !.i = 1, !.victim = v]
      <4>1. q \in LoopType
        BY <3>1, <2>t DEF LoopType, LoopPC
      <4>2. q.pc = "claim" /\ q.task = r.task /\ q.picks = p /\ q.i = 1
        BY <2>t DEF LoopType
      <4> HIDE DEF q
      <4>3. LoopShape(q)
        BY <3>1, <2>t, <4>2 DEF LoopShape
      <4>4. QED
        BY <2>m, <3>1, <4>1, <4>3 DEF q
    <3>2. ASSUME NEW p \in Cohorts(IdleNodes), r.pc = "select",
                 loop' = [loop EXCEPT ![l] =
                            [r EXCEPT !.pc = "claim", !.picks = p, !.i = 1]]
          PROVE  LoopsOK'
      <4> DEFINE q == [r EXCEPT !.pc = "claim", !.picks = p, !.i = 1]
      <4>1. p \in Seq(Nodes) /\ Len(p) \in Nat \ {0}
        BY CohortsAreSequences DEF IdleNodes
      <4>2. q \in LoopType
        BY <4>1, <2>t DEF LoopType, LoopPC
      <4>3. q.pc = "claim" /\ q.task = r.task /\ q.picks = p /\ q.i = 1
        BY <2>t DEF LoopType
      <4> HIDE DEF q
      <4>4. LoopShape(q)
        BY <3>2, <2>t, <4>1, <4>3 DEF LoopShape
      <4>5. QED
        BY <2>m, <3>2, <4>2, <4>4 DEF q
    <3>3. ASSUME NEW n \in Nodes, r.pc = "select",
                 <<marker[n], r.task>> \in Preempts,
                 loop' = [loop EXCEPT ![l] =
                            [r EXCEPT !.pc = "claim", !.picks = <<n>>, !.i = 1,
                                      !.victim = marker[n]]]
          PROVE  LoopsOK'
      <4>1. <<n>> \in Seq(Nodes) /\ Len(<<n>>) \in Nat \ {0}
        OBVIOUS
      <4>2. marker[n] \in Tasks \cup {NoTask}
        BY DEF Rest, SetsOK
      <4>3. QED
        BY <3>1, <3>3, <4>1, <4>2
    <3>4. QED
      BY <2>1, <2>4, <3>2, <3>3 DEF Select, Requeue
  <2>5. CASE Claim(l)
    BY <2>1, <2>2, <2>5 DEF Claim, Claimed, Requeue
  <2>6. CASE Record(l)
    BY <2>2, <2>6 DEF Record
  <2>7. CASE Publish(l)
    <3> DEFINE c == IF r.i < Len(r.picks) THEN "record"
                    ELSE IF r.victim # NoTask THEN "release" ELSE "flush"
               q == [r EXCEPT !.i = r.i + 1, !.pc = c]
    <3>1. r.i \in 1..Len(r.picks) /\ r.picks \in Seq(Nodes)
             /\ r.victim \in Tasks \cup {NoTask}
      BY <2>7, <2>t DEF Publish, LoopShape, LoopType
    <3>c. c \in LoopPC /\ r.i + 1 \in Nat
      BY <3>1 DEF LoopPC
    <3> HIDE DEF c
    <3>2. q \in LoopType
      BY <2>t, <3>c DEF LoopType
    <3>3. q.pc = c /\ q.task = r.task /\ q.picks = r.picks /\ q.i = r.i + 1
             /\ q.victim = r.victim
      BY <2>t DEF LoopType
    <3>4. r.task \in Tasks
      BY <2>7, <2>t DEF Publish
    <3>5. loop' = [loop EXCEPT ![l] = q]
      BY <2>7 DEF Publish, c
    <3> HIDE DEF q
    <3>6. LoopShape(q)
      BY <3>1, <3>3, <3>4 DEF LoopShape, c
    <3>7. QED
      BY <2>m, <3>2, <3>5, <3>6
  <2>8. CASE PublishFails(l)
    <3> DEFINE c == IF r.i > 1 THEN "unrecord" ELSE "flush"
               q == [r EXCEPT !.pc = c, !.victim = NoTask]
    <3>1. q \in LoopType
      BY <2>t DEF LoopType, LoopPC
    <3>2. q.pc = c /\ q.task = r.task /\ q.picks = r.picks /\ q.i = r.i
      BY <2>t DEF LoopType
    <3>3. loop' = [loop EXCEPT ![l] = q]
      BY <2>8 DEF PublishFails
    <3> HIDE DEF q
    <3>4. LoopShape(q)
      BY <2>8, <2>t, <3>2 DEF PublishFails, LoopShape
    <3>5. QED
      BY <2>m, <3>1, <3>3, <3>4
  <2>9. CASE Unrecord(l) \/ ReleaseVictim(l) \/ ReleaseVictimRow(l)
    BY <2>2, <2>9 DEF Unrecord, ReleaseVictim, ReleaseVictimRow
  <2>10. CASE Flush(l)
    BY <2>1, <2>10 DEF Flush
  <2>11. QED
    BY <1>4, <2>3, <2>4, <2>5, <2>6, <2>7, <2>8, <2>9, <2>10 DEF LoopStep
<1>5. QED
  BY <1>1, <1>2, <1>3, <1>4, LoopFrame

LEMMA RowFields ==
    ASSUME NEW r \in RowType,
           NEW c \in {"completed", "released", "expired"}, NEW b \in BOOLEAN
    PROVE  [r EXCEPT !.status = c] \in RowType /\ [r EXCEPT !.lapsed = b] \in RowType
  BY DEF RowType

(* One assignment row at a time is written, except by a completion.        *)
LEMMA RowsStep ==
    ASSUME Rest, [Next]_vars
    PROVE  RowsOK'
<1>t. row \in [Tasks -> [Nodes -> RowType]]
  BY DEF Rest, RowsOK
<1>w. ASSUME NEW t \in Tasks, NEW n \in Nodes, NEW r \in RowType,
             row' = [row EXCEPT ![t][n] = r]
      PROVE  RowsOK'
  BY <1>w, <1>t DEF RowsOK
<1>s. ASSUME NEW t \in Tasks, NEW n \in Nodes, NEW c \in {"released", "expired"},
             row' = [row EXCEPT ![t][n].status = c]
      PROVE  RowsOK'
  <2> DEFINE r == [row[t][n] EXCEPT !.status = c]
  <2>1. r \in RowType
    BY <1>t, RowFields
  <2>2. row' = [row EXCEPT ![t][n] = r]
    BY <1>s
  <2> HIDE DEF r
  <2>3. QED
    BY <1>w, <2>1, <2>2
<1>l. ASSUME NEW t \in Tasks, NEW n \in Nodes, NEW b \in BOOLEAN,
             row' = [row EXCEPT ![t][n].lapsed = b]
      PROVE  RowsOK'
  <2> DEFINE r == [row[t][n] EXCEPT !.lapsed = b]
  <2>1. r \in RowType
    BY <1>t, RowFields
  <2>2. row' = [row EXCEPT ![t][n] = r]
    BY <1>l
  <2> HIDE DEF r
  <2>3. QED
    BY <1>w, <2>1, <2>2
<1>1. CASE UNCHANGED row
  BY <1>1, <1>t DEF RowsOK
<1>2. ASSUME NEW l \in Loops, Claim(l) \/ Record(l) \/ Unrecord(l) \/ ReleaseVictimRow(l)
      PROVE  RowsOK'
  <2>t. LoopShape(loop[l]) /\ loop[l] \in LoopType
    BY DEF Rest, LoopsOK
  <2>1. CASE Claim(l)
    <3>1. loop[l].task \in Tasks /\ loop[l].picks[1] \in Nodes
      BY <2>1, <2>t DEF Claim, LoopShape, LoopType
    <3>2. [status |-> "assigned", role |-> "primary", lapsed |-> FALSE] \in RowType
      BY DEF RowType
    <3>3. QED
      BY <1>1, <1>w, <2>1, <3>1, <3>2 DEF Claim, CommitClaim
  <2>2. CASE Record(l)
    <3>1. loop[l].task \in Tasks /\ loop[l].picks[loop[l].i] \in Nodes
      BY <2>2, <2>t DEF Record, LoopShape, LoopType
    <3>2. [status |-> "assigned", role |-> "cohort", lapsed |-> FALSE] \in RowType
      BY DEF RowType
    <3>3. QED
      BY <1>1, <1>w, <2>2, <3>1, <3>2 DEF Record
  <2>3. CASE Unrecord(l)
    <3>1. loop[l].task \in Tasks /\ loop[l].picks[loop[l].i] \in Nodes
      BY <2>3, <2>t DEF Unrecord, LoopShape, LoopType
    <3>2. QED
      BY <1>1, <1>s, <2>3, <3>1 DEF Unrecord, Release
  <2>4. CASE ReleaseVictimRow(l)
    <3>1. loop[l].victim \in Tasks /\ loop[l].picks[1] \in Nodes
      BY <2>4, <2>t DEF ReleaseVictimRow, LoopShape, LoopType
    <3>2. QED
      BY <1>1, <1>s, <2>4, <3>1 DEF ReleaseVictimRow, Release
  <2>5. QED
    BY <1>2, <2>1, <2>2, <2>3, <2>4
<1>3. CASE Decides
  <2>1. reclaim.task \in Tasks /\ reclaim.node \in Nodes
    BY <1>3, DecidesCommits DEF CommitReclaim, Rest, ReclaimOK
  <2>2. QED
    BY <1>3, <1>s, <2>1, DecidesCommits DEF CommitReclaim
<1>4. ASSUME NEW t \in Tasks, CompleteRows(t) PROVE RowsOK'
  <2> DEFINE q(n) == IF Active(t, n) THEN [row[t][n] EXCEPT !.status = "completed"]
                                     ELSE row[t][n]
  <2>1. ASSUME NEW n \in Nodes PROVE q(n) \in RowType
    BY <1>t, RowFields
  <2>2. row' = [row EXCEPT ![t] = [n \in Nodes |-> q(n)]]
    BY <1>4 DEF CompleteRows
  <2> HIDE DEF q
  <2>3. [n \in Nodes |-> q(n)] \in [Nodes -> RowType]
    BY <2>1
  <2>4. QED
    BY <1>t, <2>2, <2>3 DEF RowsOK
<1>5. ASSUME NEW t \in Tasks, NEW n \in Nodes, LeaseLapses(t, n) \/ Renew(t, n)
      PROVE  RowsOK'
  BY <1>5, <1>l DEF LeaseLapses, Renew
<1>6. QED
  BY <1>1, <1>2, <1>3, <1>4, <1>5, RowFrame DEF RowWrite

LEMMA ReclaimTypeStep ==
    ASSUME Rest, [Next]_vars
    PROVE  ReclaimOK'
<1> USE DEF ReclaimOK
<1>r. Resting \in ReclaimType /\ Resting.pc = "idle"
  BY DEF Resting, ReclaimType
<1>t. ReclaimOK
  BY DEF Rest
<1>1. CASE UNCHANGED <<reclaim, sweep>>
  BY <1>1, <1>t
<1>2. CASE SweepLeases
  BY <1>2, <1>t DEF SweepLeases
<1>3. CASE Crash
  BY <1>3, <1>r DEF Crash
<1>4. ASSUME NEW l \in Loops, Claim(l) PROVE ReclaimOK'
  BY <1>4, <1>t, <1>r DEF Claim
<1>5. CASE ReclaimFails \/ ReclaimUnheard \/ QueueReclaimed
  BY <1>5, <1>t, <1>r DEF ReclaimFails, ReclaimUnheard, CommitReclaim, QueueReclaimed
<1>6. CASE BeginReclaim
  <2>1. PICK p \in sweep :
           /\ sweep' = sweep \ {p}
           /\ \/ UNCHANGED reclaim
              \/ reclaim' = [Resting EXCEPT
                               !.pc = "decide", !.task = p[1], !.node = p[2],
                               !.left = {n \in Nodes \ {p[2]} : Active(p[1], n)}]
    BY <1>6 DEF BeginReclaim
  <2>2. p[1] \in Tasks /\ p[2] \in Nodes
    BY <1>t
  <2> DEFINE c == {n \in Nodes \ {p[2]} : Active(p[1], n)}
             q == [Resting EXCEPT !.pc = "decide", !.task = p[1], !.node = p[2],
                                  !.left = c]
  <2>3. c \in SUBSET Nodes
    OBVIOUS
  <2>4. reclaim' = reclaim \/ reclaim' = q
    BY <2>1
  <2> HIDE DEF c
  <2>5. q \in ReclaimType /\ q.task = p[1] /\ q.node = p[2]
    BY <1>r, <2>2, <2>3 DEF ReclaimType
  <2> HIDE DEF q
  <2>6. QED
    BY <1>t, <2>1, <2>2, <2>4, <2>5
<1>7. CASE DecideReclaim
  <2>1. PICK act \in {"none", "requeue", "expire"} :
           reclaim' = [reclaim EXCEPT !.pc = "marker", !.act = act]
    BY <1>7 DEF DecideReclaim, CommitReclaim, ReclaimAct
  <2> DEFINE q == [reclaim EXCEPT !.pc = "marker", !.act = act]
  <2>2. q \in ReclaimType /\ q.task = reclaim.task /\ q.node = reclaim.node
    BY <1>t DEF ReclaimType
  <2> HIDE DEF q
  <2>3. UNCHANGED sweep /\ reclaim.pc # "idle"
    BY <1>7 DEF DecideReclaim, CommitReclaim
  <2>4. QED
    BY <1>t, <2>1, <2>2, <2>3 DEF q
<1>8. CASE FreeReclaimedNode
  <2> DEFINE q == [reclaim EXCEPT !.pc = "queue"]
  <2>1. q \in ReclaimType /\ q.task = reclaim.task /\ q.node = reclaim.node
    BY <1>t DEF ReclaimType
  <2> HIDE DEF q
  <2>2. UNCHANGED sweep /\ reclaim.pc # "idle" /\ reclaim' = q
    BY <1>8 DEF FreeReclaimedNode, q
  <2>3. QED
    BY <1>t, <2>1, <2>2
<1>9. QED
  BY <1>1, <1>2, <1>3, <1>4, <1>5, <1>6, <1>7, <1>8, ReclaimFrame DEF ReclaimStep

LEMMA ApiTypeStep ==
    ASSUME Rest, [Next]_vars
    PROVE  ApiOK'
<1> USE DEF ApiOK
<1>t. ApiOK
  BY DEF Rest
<1>r. NoRequest \in ApiType /\ NoRequest.pc = "idle"
  BY DEF NoRequest, ApiType
<1>1. CASE UNCHANGED api
  BY <1>1, <1>t
<1>w. ASSUME NEW t \in Tasks, NEW q \in ApiType, q.pc = "clear" => q.node \in Nodes,
             api' = [api EXCEPT ![t] = q]
      PROVE  ApiOK'
  BY <1>w, <1>t
<1>2. ASSUME NEW t \in Tasks, ApiStep(t) PROVE ApiOK'
  <2>t. api[t] \in ApiType /\ (api[t].pc = "clear" => api[t].node \in Nodes)
    BY <1>t
  <2>1. CASE Create(t) \/ CheckPatch(t) \/ CommitPatch(t) \/ FillBudget(t)
    BY <1>1, <2>1 DEF Create, CheckPatch, CommitPatch, FillBudget, apiserver
  <2>2. CASE Complete(t)
    <3> DEFINE q == [api[t] EXCEPT !.pc = "rows"]
    <3>1. q \in ApiType /\ q.pc = "rows"
      BY <2>t DEF ApiType
    <3>2. api' = [api EXCEPT ![t] = q]
      BY <2>2 DEF Complete
    <3> HIDE DEF q
    <3>3. QED
      BY <1>w, <3>1, <3>2
  <2>3. CASE CompleteRows(t)
    <3> DEFINE c == {n \in Nodes : row[t][n].status # "none" \/ owner[t] = n}
               q == [pc |-> "nodes", node |-> NoNode, todo |-> c]
    <3>1. c \in SUBSET Nodes
      OBVIOUS
    <3>2. api' = [api EXCEPT ![t] = q]
      BY <2>3 DEF CompleteRows
    <3> HIDE DEF c
    <3>3. q \in ApiType /\ q.pc = "nodes"
      BY <3>1 DEF ApiType
    <3> HIDE DEF q
    <3>4. QED
      BY <1>w, <3>2, <3>3
  <2>4. CASE PeekNode(t)
    <3>1. CASE api' = [api EXCEPT ![t] = NoRequest]
      BY <1>w, <1>r, <3>1
    <3>2. ASSUME NEW n \in api[t].todo,
                 api' = [api EXCEPT ![t] =
                           [@ EXCEPT !.todo = api[t].todo \ {n},
                                     !.node = IF marker[n] = t THEN n ELSE NoNode,
                                     !.pc = IF marker[n] = t THEN "clear" ELSE "nodes"]]
          PROVE  ApiOK'
      <4> DEFINE m == IF marker[n] = t THEN n ELSE NoNode
                 c == IF marker[n] = t THEN "clear" ELSE "nodes"
                 q == [api[t] EXCEPT !.todo = api[t].todo \ {n}, !.node = m, !.pc = c]
      <4>1. n \in Nodes /\ api[t].todo \in SUBSET Nodes
        BY <2>t DEF ApiType
      <4>2. /\ m \in Nodes \cup {NoNode} /\ c \in {"clear", "nodes"}
            /\ c = "clear" => m \in Nodes
        BY <4>1
      <4>3. api' = [api EXCEPT ![t] = q]
        BY <3>2
      <4> HIDE DEF m, c
      <4>4. q \in ApiType /\ q.pc = c /\ q.node = m
        BY <2>t, <4>1, <4>2 DEF ApiType
      <4> HIDE DEF q
      <4>5. QED
        BY <1>w, <4>2, <4>3, <4>4
    <3>3. QED
      BY <2>4, <3>1, <3>2 DEF PeekNode
  <2>5. CASE ClearNode(t)
    <3> DEFINE q == [api[t] EXCEPT !.pc = "nodes", !.node = NoNode]
    <3>1. q \in ApiType /\ q.pc = "nodes"
      BY <2>t DEF ApiType
    <3>2. api' = [api EXCEPT ![t] = q]
      BY <2>5 DEF ClearNode
    <3> HIDE DEF q
    <3>3. QED
      BY <1>w, <3>1, <3>2
  <2>6. CASE Abandon(t)
    BY <1>w, <1>r, <2>6 DEF Abandon
  <2>7. QED
    BY <1>2, <2>1, <2>2, <2>3, <2>4, <2>5, <2>6 DEF ApiStep
<1>3. QED
  BY <1>1, <1>2, ApiFrame

(* Queues, sets and markers.                                               *)
LEMMA SetsStep ==
    ASSUME Contract!CTypeOK, Rest, [Next]_vars
    PROVE  SetsOK'
<1> USE DEF SetsOK, tasksTable, redis, orch, apiserver
<1>t. SetsOK
  BY DEF Rest
<1>1. CASE UNCHANGED vars
  BY <1>1, <1>t DEF vars
<1>2. CASE Take
  BY <1>2, <1>t DEF Take, TakeNote, LoseNotes, PopQueued
<1>3. ASSUME NEW l \in Loops, LoopStep(l) PROVE SetsOK'
  <2>t. LoopShape(loop[l]) /\ loop[l] \in LoopType
    BY DEF Rest, LoopsOK
  <2>0. loop[l].pc # "idle" => loop[l].task \in Tasks
    BY <2>t DEF LoopShape
  <2>1. CASE Fetch(l)
    BY <2>1, <1>t, <2>0 DEF Fetch, Enqueue
  <2>2. CASE Select(l)
    BY <2>2, <1>t, <2>0 DEF Select, Requeue, Enqueue
  <2>3. CASE Claim(l)
    BY <2>3, <1>t, <2>0 DEF Claim, CommitClaim, Requeue, Enqueue
  <2>4. CASE Record(l) \/ Unrecord(l) \/ ReleaseVictim(l) \/ ReleaseVictimRow(l)
    BY <2>4, <1>t DEF Record, Unrecord, ReleaseVictim, ReleaseVictimRow
  <2>5. CASE Publish(l) \/ PublishFails(l)
    <3>1. loop[l].task \in Tasks /\ loop[l].picks[loop[l].i] \in Nodes
      BY <2>5, <2>t DEF Publish, PublishFails, LoopShape, LoopType
    <3>2. QED
      BY <2>5, <1>t, <3>1 DEF Publish, PublishFails
  <2>6. CASE Flush(l)
    <3>1. loop[l].task \in Tasks /\ loop[l].victim \in Tasks \cup {NoTask}
      BY <2>6, <2>t, <2>0 DEF Flush, LoopType
    <3>2. queued' \subseteq Tasks
      BY <2>6, <1>t, <3>1 DEF Flush
    <3>3. marker' \in [Nodes -> Tasks \cup {NoTask}]
      BY <2>6, <1>t, <3>1 DEF Flush
    <3>4. QED
      BY <2>6, <1>t, <3>2, <3>3 DEF Flush
  <2>7. QED
    BY <1>3, <2>1, <2>2, <2>3, <2>4, <2>5, <2>6 DEF LoopStep
<1>4. CASE ReclaimStep
  <2>0. reclaim.pc # "idle" => reclaim.task \in Tasks /\ reclaim.node \in Nodes
    BY DEF Rest, ReclaimOK
  <2>1. CASE BeginReclaim \/ ReclaimFails
    BY <2>1, <1>t DEF BeginReclaim, ReclaimFails
  <2>2. CASE DecideReclaim \/ ReclaimUnheard
    BY <2>2, <1>t, <2>0 DEF DecideReclaim, ReclaimUnheard, CommitReclaim, MoveTask
  <2>3. CASE FreeReclaimedNode
    BY <2>3, <1>t, <2>0 DEF FreeReclaimedNode
  <2>4. CASE QueueReclaimed
    BY <2>4, <1>t, <2>0 DEF QueueReclaimed
  <2>5. QED
    BY <1>4, <2>1, <2>2, <2>3, <2>4 DEF ReclaimStep
<1>5. CASE SweepLeases \/ Crash \/ Recover
  BY <1>5, <1>t DEF SweepLeases, Crash, Recover
<1>6. ASSUME NEW t \in Tasks, Plan(t) \/ BackoffEnds(t) PROVE SetsOK'
  BY <1>6, <1>t DEF Plan, BackoffEnds, Enqueue
<1>7. ASSUME NEW t \in Tasks, ApiStep(t) PROVE SetsOK'
  <2>1. CASE Create(t) \/ CheckPatch(t) \/ Complete(t) \/ CompleteRows(t) \/ PeekNode(t)
             \/ Abandon(t) \/ FillBudget(t)
    BY <2>1, <1>t DEF Create, CheckPatch, Complete, CompleteRows, PeekNode, Abandon,
                      FillBudget
  <2>2. CASE CommitPatch(t)
    BY <2>2, <1>t DEF CommitPatch
  <2>3. CASE ClearNode(t)
    BY <2>3, <1>t DEF ClearNode
  <2>4. QED
    BY <1>7, <2>1, <2>2, <2>3 DEF ApiStep
<1>8. ASSUME NEW t \in Tasks, NEW n \in Nodes, PairStep(t, n) PROVE SetsOK'
  BY <1>8, <1>t DEF PairStep, LeaseLapses, Renew, PierStops
<1>9. ASSUME NEW n \in Nodes, Reconcile(n) PROVE SetsOK'
  BY <1>9, <1>t DEF Reconcile
<1>10. QED
  BY <1>1, <1>2, <1>3, <1>4, <1>5, <1>6, <1>7, <1>8, <1>9 DEF Next

LEMMA CrashFrame ==
    ASSUME [Next]_vars
    PROVE  UNCHANGED crashes \/ Crash
<1> USE DEF ghosts
<1>1. CASE UNCHANGED vars
  BY <1>1 DEF vars
<1>2. CASE Take \/ Recover \/ SweepLeases \/ \E n \in Nodes : Reconcile(n)
  BY <1>2 DEF Take, TakeNote, LoseNotes, PopQueued, Recover, SweepLeases, Reconcile
<1>3. CASE \E l \in Loops : LoopStep(l)
  BY <1>3 DEF LoopStep, Fetch, Select, Claim, Record, Publish, PublishFails, Unrecord,
              ReleaseVictim, ReleaseVictimRow, Flush
<1>4. CASE ReclaimStep
  BY <1>4 DEF ReclaimStep, BeginReclaim, DecideReclaim, ReclaimUnheard,
              CommitReclaim, ReclaimFails, FreeReclaimedNode, QueueReclaimed
<1>5. CASE \E t \in Tasks : Plan(t) \/ ApiStep(t) \/ BackoffEnds(t)
  BY <1>5 DEF Plan, BackoffEnds, ApiStep, Create, CheckPatch, CommitPatch, Complete,
              CompleteRows, PeekNode, ClearNode, Abandon, FillBudget
<1>6. CASE \E t \in Tasks, n \in Nodes : PairStep(t, n)
  BY <1>6 DEF PairStep, LeaseLapses, Renew, PierStops
<1>7. QED
  BY <1>1, <1>2, <1>3, <1>4, <1>5, <1>6 DEF Next

(* The lost tasks are tasks.                                               *)
LEMMA LostStep ==
    ASSUME Rest, [Next]_vars
    PROVE  lost' \subseteq Tasks
<1>t. /\ lost \subseteq Tasks /\ notes \subseteq Tasks
      /\ \A l \in Loops : /\ loop[l].pc # "idle" => loop[l].task \in Tasks
                          /\ loop[l].victim \in Tasks \cup {NoTask}
      /\ reclaim.pc # "idle" => reclaim.task \in Tasks
  BY DEF Rest, CountsOK, SetsOK, LoopsOK, LoopType, LoopShape, ReclaimOK
<1>s. ASSUME NEW S \in SUBSET Tasks, Losing(S) PROVE lost' \subseteq Tasks
  BY <1>t, <1>s DEF Losing
<1>u. ASSUME UNCHANGED lost PROVE lost' \subseteq Tasks
  BY <1>t, <1>u
<1> USE DEF ghosts
<1>1. CASE UNCHANGED vars
  BY <1>u, <1>1 DEF vars
<1>2. CASE Take
  BY <1>2, <1>s, <1>t, <1>u DEF Take, TakeNote, LoseNotes, PopQueued
<1>3. ASSUME NEW l \in Loops, LoopStep(l) PROVE lost' \subseteq Tasks
  <2>1. CASE Fetch(l)
    <3>1. {loop[l].task} \subseteq Tasks
      BY <1>t, <2>1 DEF Fetch
    <3>2. QED
      BY <1>s, <1>u, <2>1, <3>1 DEF Fetch
  <2>2. CASE Select(l)
    <3>1. {loop[l].task} \subseteq Tasks
      BY <1>t, <2>2 DEF Select
    <3>2. QED
      BY <1>s, <1>u, <2>2, <3>1 DEF Select
  <2>3. CASE Claim(l)
    <3>1. {loop[l].task} \subseteq Tasks
      BY <1>t, <2>3 DEF Claim
    <3>2. lost' \subseteq lost \/ Losing({loop[l].task})
      BY <2>3 DEF Claim, CommitClaim
    <3>3. QED
      BY <1>s, <1>t, <3>1, <3>2
  <2>4. CASE Flush(l)
    <3>1. {loop[l].victim} \ {NoTask} \subseteq Tasks
      BY <1>t
    <3>2. QED
      BY <1>s, <1>u, <2>4, <3>1 DEF Flush
  <2>5. CASE \/ Record(l) \/ Publish(l) \/ PublishFails(l) \/ Unrecord(l)
             \/ ReleaseVictim(l) \/ ReleaseVictimRow(l)
    BY <1>u, <2>5 DEF Record, Publish, PublishFails, Unrecord, ReleaseVictim,
                      ReleaseVictimRow
  <2>6. QED
    BY <1>3, <2>1, <2>2, <2>3, <2>4, <2>5 DEF LoopStep
<1>4. CASE ReclaimStep
  <2>1. CASE BeginReclaim \/ DecideReclaim \/ ReclaimFails \/ FreeReclaimedNode
    BY <1>u, <2>1 DEF BeginReclaim, DecideReclaim, ReclaimFails, FreeReclaimedNode
  <2>2. CASE ReclaimUnheard
    <3>1. reclaim.task \in Tasks
      BY <1>t, <2>2 DEF ReclaimUnheard, CommitReclaim
    <3>2. QED
      BY <1>t, <2>2, <3>1 DEF ReclaimUnheard
  <2>3. CASE QueueReclaimed
    <3>1. {reclaim.task} \subseteq Tasks
      BY <1>t, <2>3 DEF QueueReclaimed
    <3>2. QED
      BY <1>s, <2>3, <3>1 DEF QueueReclaimed
  <2>4. QED
    BY <1>4, <2>1, <2>2, <2>3 DEF ReclaimStep
<1>5. CASE SweepLeases \/ Crash
  BY <1>u, <1>5 DEF SweepLeases, Crash
<1>6. CASE Recover
  BY <1>t, <1>6 DEF Recover
<1>7. ASSUME NEW t \in Tasks, Plan(t) PROVE lost' \subseteq Tasks
  BY <1>s, <1>7 DEF Plan
<1>8. ASSUME NEW t \in Tasks, ApiStep(t) \/ BackoffEnds(t) PROVE lost' \subseteq Tasks
  BY <1>u, <1>8
  DEF BackoffEnds, ApiStep, Create, CheckPatch, CommitPatch, Complete, CompleteRows,
      PeekNode, ClearNode, Abandon, FillBudget
<1>9. CASE \/ \E t \in Tasks, n \in Nodes : PairStep(t, n)
           \/ \E n \in Nodes : Reconcile(n)
  BY <1>u, <1>9 DEF PairStep, LeaseLapses, Renew, PierStops, Reconcile
<1>10. QED
  BY <1>1, <1>2, <1>3, <1>4, <1>5, <1>6, <1>7, <1>8, <1>9 DEF Next
-----------------------------------------------------------------------------
(* The history of claims, step by step of the status column.               *)

(* What one step does to the status and the history of one task u.         *)
Same(u) == UNCHANGED <<status[u], claims[u], returns[u]>>
Won(u) == /\ status[u] = "pending" /\ status'[u] = "assigned"
          /\ claims'[u] = claims[u] + 1 /\ UNCHANGED returns[u]
Back(u) == /\ status[u] = "assigned" /\ status'[u] = "pending"
           /\ returns'[u] = returns[u] + 1 /\ UNCHANGED claims[u]
Ended(u) == /\ \/ status[u] = "assigned" /\ status'[u] = "expired"
               \/ status[u] # "absent" /\ status'[u] \in {"completed", "superseded"}
            /\ UNCHANGED <<claims[u], returns[u]>>
Born(u) == /\ status[u] = "absent" /\ status'[u] = "pending"
           /\ UNCHANGED <<claims[u], returns[u]>>

LEMMA HistoryStep ==
    ASSUME Contract!CTypeOK, Rest, Known, [Next]_vars
    PROVE  /\ CountsOK'
           /\ \A u \in Tasks : Same(u) \/ Won(u) \/ Back(u) \/ Ended(u) \/ Born(u)
<1> USE DEF Same, Won, Back, Ended, Born
<1> DEFINE Goal ==
      /\ CountsOK'
      /\ \A u \in Tasks : Same(u) \/ Won(u) \/ Back(u) \/ Ended(u) \/ Born(u)
<1>t. /\ status \in [Tasks -> Contract!Status]
      /\ returns \in [Tasks -> Nat] /\ claims \in [Tasks -> Nat]
  BY DEF Contract!CTypeOK, Rest, CountsOK
<1>c. crashes' \in Nat /\ lost' \subseteq Tasks
  <2>1. crashes \in Nat
    BY DEF Rest, CountsOK
  <2>2. QED
    BY <2>1, CrashFrame, LostStep DEF Crash
<1> USE DEF CountsOK
<1>1. CASE UNCHANGED <<status, claims, returns>>
  BY <1>1, <1>t, <1>c
<1>2. ASSUME NEW l \in Loops, Claim(l) PROVE Goal
  <2> DEFINE t == loop[l].task
             n == loop[l].picks[1]
  <2>0. t \in Tasks
    BY <1>2 DEF Claim, Rest, LoopsOK, LoopShape
  <2>1. CASE CommitClaim(t, n)
    <3>1. UNCHANGED returns
      BY <1>2 DEF Claim
    <3> HIDE DEF t, n
    <3>2. QED
      BY <2>0, <2>1, <3>1, <1>t, <1>c DEF CommitClaim, Assignable
  <2>2. CASE UNCHANGED <<status, claims>>
    BY <1>2, <2>2, <1>1 DEF Claim
  <2>3. QED
    BY <1>2, <2>1, <2>2 DEF Claim, tasksTable
<1>3. ASSUME NEW l \in Loops, ReleaseVictim(l) PROVE Goal
  <2>1. loop[l].victim \in Tasks
    BY <1>3 DEF ReleaseVictim, Rest, LoopsOK, LoopShape
  <2>2. QED
    BY <1>3, <2>1, <1>t, <1>c DEF ReleaseVictim, StillHeld
<1>4. CASE Decides
  <2>1. reclaim.task \in Tasks
    BY <1>4, DecidesCommits DEF CommitReclaim, Rest, ReclaimOK
  <2>2. QED
    BY <1>4, <2>1, <1>t, <1>c, DecidesCommits
    DEF CommitReclaim, ReclaimAct, MoveTask, tasksTable
<1>5. ASSUME NEW t \in Tasks, Create(t) \/ Complete(t) PROVE Goal
  BY <1>5, <1>t, <1>c DEF Create, Complete, Contract!Open, ghosts
<1>6. ASSUME NEW t \in Tasks, CommitPatch(t) PROVE Goal
  <2>1. status[t] # "absent"
    BY <1>6 DEF CommitPatch, Known
  <2>2. QED
    BY <1>6, <2>1, <1>t, <1>c DEF CommitPatch, ghosts
<1>7. ASSUME NEW t \in Tasks, FillBudget(t) PROVE Goal
  <2>1. status[t] # "absent"
    BY <1>7 DEF FillBudget, Known
  <2>2. QED
    BY <1>7, <2>1, <1>t, <1>c DEF FillBudget, ghosts
<1>8. QED
  BY <1>1, <1>2, <1>3, <1>4, <1>5, <1>6, <1>7, StatusFrame DEF StatusWrite

LEMMA OneClaimStep ==
    ASSUME Contract!CTypeOK, Rest, Known, OneClaimPerReturn, [Next]_vars
    PROVE  OneClaimPerReturn'
<1>1. \A u \in Tasks : Same(u) \/ Won(u) \/ Back(u) \/ Ended(u) \/ Born(u)
  BY HistoryStep
<1>2. \A u \in Tasks : claims[u] \in Nat /\ returns[u] \in Nat
                       /\ status[u] \in Contract!Status
  BY DEF Rest, CountsOK, Contract!CTypeOK
<1>3. QED
  BY <1>1, <1>2 DEF OneClaimPerReturn, Same, Won, Back, Ended, Born,
                    Contract!Status, Contract!Open, Contract!Terminal
-----------------------------------------------------------------------------
(* Nothing is held of a task that was never created.                       *)

LEMMA KnownStep ==
    ASSUME Contract!CTypeOK, Rest, Known, [Next]_vars
    PROVE  Known'
<1>m. \A u \in Tasks : status[u] # "absent" => status'[u] # "absent"
  <2>1. \A u \in Tasks : Same(u) \/ Won(u) \/ Back(u) \/ Ended(u) \/ Born(u)
    BY HistoryStep
  <2>2. QED
    BY <2>1 DEF Same, Won, Back, Ended, Born
<1>t. /\ loop \in [Loops -> LoopType] /\ \A k \in Loops : LoopShape(loop[k])
      /\ \A k \in Loops : loop[k].pc \in {"publish", "record"} =>
            loop[k].task \in Tasks /\ status[loop[k].task] # "absent"
  BY DEF Rest, LoopsOK, LoopShape, Known
<1>w. \A t \in Tasks : status'[t] = "assigned" => status'[t] # "absent"
  OBVIOUS
<1> DEFINE LoopKnown(k) == loop[k].pc \in {"publish", "record"} =>
                              status[loop[k].task] # "absent"
<1>1. ASSUME NEW k \in Loops PROVE LoopKnown(k)'
  <2>1. CASE UNCHANGED loop[k]
    BY <2>1, <1>m, <1>t
  <2>2. CASE Take /\ ~UNCHANGED loop
    <3>1. PICK l \in Loops, t \in Tasks :
             loop' = [loop EXCEPT ![l] = [Idle EXCEPT !.pc = "fetch", !.task = t]]
      BY <2>2 DEF Take, TakeNote, LoseNotes, PopQueued, Loops, Rest, SetsOK, orch
    <3> DEFINE q == [Idle EXCEPT !.pc = "fetch", !.task = t]
    <3>2. q.pc = "fetch"
      BY IdleOK DEF LoopType
    <3>3. loop' = [loop EXCEPT ![l] = q]
      BY <3>1
    <3> HIDE DEF q
    <3>4. QED
      BY <2>1, <1>t, <3>2, <3>3
  <2>3. CASE Crash
    <3>1. loop'[k] = Idle /\ Idle.pc = "idle"
      BY <2>3 DEF Crash, Idle
    <3>2. QED
      BY <3>1
  <2>4. ASSUME NEW l \in Loops, LoopStep(l), k # l PROVE LoopKnown(k)'
    <3>1. loop'[k] = loop[k]
      BY <2>4, <1>t DEF LoopStep, Fetch, Select, Claim, Claimed, Record, Publish, PublishFails,
              Unrecord, ReleaseVictim, ReleaseVictimRow, Flush, Requeue, Drop
    <3>2. QED
      BY <2>1, <3>1
  <2>5. ASSUME LoopStep(k) PROVE LoopKnown(k)'
    <3> DEFINE r == loop[k]
    <3>t. r \in LoopType
      BY <1>t
    <3>1. ASSUME NEW c \in {"select", "flush", "releaseRow"},
                 loop' = [loop EXCEPT ![k].pc = c]
          PROVE  LoopKnown(k)'
      BY <3>1, <1>t, <3>t DEF LoopType
    <3>2. ASSUME Drop(k) PROVE LoopKnown(k)'
      BY <3>2, <1>t DEF Drop, Idle
    <3>3. ASSUME loop' = [loop EXCEPT ![k].pc = "publish"], r.task \in Tasks,
                 status'[r.task] # "absent"
          PROVE  LoopKnown(k)'
      BY <3>3, <1>t, <3>t DEF LoopType
    <3>4. CASE Fetch(k) \/ Flush(k) \/ Unrecord(k) \/ ReleaseVictim(k) \/ ReleaseVictimRow(k)
      BY <3>1, <3>2, <3>4 DEF Fetch, Flush, Unrecord, ReleaseVictim, ReleaseVictimRow
    <3>5. CASE Select(k)
      <4>1. loop'[k].pc \in {"idle", "claim"}
        <5>1. Idle.pc = "idle"
          BY DEF Idle
        <5>2. CASE Drop(k)
          BY <1>t, <5>1, <5>2 DEF Drop
        <5>3. ASSUME NEW p,
                     loop' = [loop EXCEPT ![k] =
                                [r EXCEPT !.pc = "claim", !.picks = p, !.i = 1]]
              PROVE  loop'[k].pc = "claim"
          <6>1. [r EXCEPT !.pc = "claim", !.picks = p, !.i = 1].pc = "claim"
            BY <3>t DEF LoopType
          <6>2. QED
            BY <1>t, <5>3, <6>1
        <5>4. ASSUME NEW n \in Nodes,
                     loop' = [loop EXCEPT ![k] =
                                [r EXCEPT !.pc = "claim", !.picks = <<n>>, !.i = 1,
                                          !.victim = marker[n]]]
              PROVE  loop'[k].pc = "claim"
          <6>1. [r EXCEPT !.pc = "claim", !.picks = <<n>>, !.i = 1,
                          !.victim = marker[n]].pc = "claim"
            BY <3>t DEF LoopType
          <6>2. QED
            BY <1>t, <5>4, <6>1
        <5>5. QED
          BY <3>5, <5>2, <5>3, <5>4 DEF Select, Requeue
      <4>2. QED
        BY <4>1
    <3>6. CASE Claim(k)
      <4>1. r.task \in Tasks
        BY <3>6, <1>t DEF Claim, LoopShape
      <4>2. ASSUME CommitClaim(r.task, r.picks[1]) PROVE status'[r.task] # "absent"
        BY <4>1, <4>2 DEF CommitClaim, Contract!CTypeOK
      <4>3. QED
        BY <3>2, <3>3, <3>6, <4>1, <4>2 DEF Claim, Claimed, Requeue
    <3>7. CASE Record(k)
      BY <3>3, <3>7, <1>m, <1>t DEF Record
    <3>8. CASE Publish(k) \/ PublishFails(k)
      <4>1. r.pc = "publish" /\ loop'[k].task = r.task
        <5> DEFINE c == IF r.i < Len(r.picks) THEN "record"
                        ELSE IF r.victim # NoTask THEN "release" ELSE "flush"
                   d == IF r.i > 1 THEN "unrecord" ELSE "flush"
                   j == r.i + 1
                   q1 == [r EXCEPT !.i = j, !.pc = c]
                   q2 == [r EXCEPT !.pc = d, !.victim = NoTask]
        <5>1. loop' = [loop EXCEPT ![k] = q1] \/ loop' = [loop EXCEPT ![k] = q2]
          BY <3>8 DEF Publish, PublishFails
        <5> HIDE DEF c, d, j
        <5>2. q1.task = r.task /\ q2.task = r.task
          BY <3>t DEF LoopType
        <5> HIDE DEF q1, q2
        <5>3. r.pc = "publish"
          BY <3>8 DEF Publish, PublishFails
        <5>4. QED
          BY <1>t, <5>1, <5>2, <5>3
      <4>2. QED
        BY <4>1, <1>m, <1>t
    <3>9. QED
      BY <2>5, <3>4, <3>5, <3>6, <3>7, <3>8 DEF LoopStep
  <2>6. QED
    BY <2>1, <2>2, <2>3, <2>4, <2>5, LoopFrame
<1>a. \A t \in Tasks, n \in Nodes : Active(t, n) => status[t] # "absent"
  BY DEF Known, Active
<1>2. reclaim'.pc = "decide" => status'[reclaim'.task] # "absent"
  <2>t. ReclaimOK /\ Resting.pc = "idle"
    BY DEF Rest, Resting
  <2>1. CASE UNCHANGED reclaim
    BY <2>1, <2>t, <1>m DEF Known, ReclaimOK
  <2>2. CASE SweepLeases
    BY <2>1, <2>2 DEF SweepLeases
  <2>3. CASE \/ Crash \/ ReclaimFails \/ ReclaimUnheard \/ QueueReclaimed
             \/ \E l \in Loops : Claim(l)
    BY <2>1, <2>3, <2>t DEF Crash, ReclaimFails, ReclaimUnheard, QueueReclaimed, Claim
  <2>4. CASE BeginReclaim
    <3>1. PICK p \in sweep :
             IF Active(p[1], p[2])
             THEN reclaim' = [Resting EXCEPT
                                !.pc = "decide", !.task = p[1], !.node = p[2],
                                !.left = {n \in Nodes \ {p[2]} : Active(p[1], n)}]
             ELSE UNCHANGED reclaim
      BY <2>4 DEF BeginReclaim
    <3>2. p[1] \in Tasks /\ p[2] \in Nodes
      BY <2>t DEF ReclaimOK
    <3> DEFINE c == {n \in Nodes \ {p[2]} : Active(p[1], n)}
               q == [Resting EXCEPT !.pc = "decide", !.task = p[1], !.node = p[2],
                                    !.left = c]
    <3>3. UNCHANGED reclaim \/ (Active(p[1], p[2]) /\ reclaim' = q)
      BY <3>1
    <3> HIDE DEF c
    <3>4. q.task = p[1]
      BY DEF Resting
    <3> HIDE DEF q
    <3>5. QED
      BY <2>1, <3>2, <3>3, <3>4, <1>a, <1>m
  <2>5. CASE DecideReclaim \/ FreeReclaimedNode
    <3>1. reclaim'.pc # "decide"
      <4>1. ASSUME NEW act
            PROVE  [reclaim EXCEPT !.pc = "marker", !.act = act].pc = "marker"
                   /\ [reclaim EXCEPT !.pc = "queue"].pc = "queue"
        BY <2>t DEF ReclaimOK, ReclaimType
      <4>2. CASE FreeReclaimedNode
        BY <4>1, <4>2 DEF FreeReclaimedNode
      <4>3. CASE DecideReclaim
        <5>1. PICK act \in {"none", "requeue", "expire"} :
                 reclaim' = [reclaim EXCEPT !.pc = "marker", !.act = act]
          BY <4>3 DEF DecideReclaim, ReclaimAct
        <5>2. QED
          BY <4>1, <5>1
      <4>4. QED
        BY <2>5, <4>2, <4>3
    <3>2. QED
      BY <3>1
  <2>6. QED
    BY <2>1, <2>2, <2>3, <2>4, <2>5, ReclaimFrame DEF ReclaimStep
<1>3. \A t \in patching' : status'[t] # "absent"
  <2>t. /\ patching \subseteq Tasks
        /\ \A t \in patching : status[t] # "absent"
    BY DEF Rest, SetsOK, Known
  <2>1. CASE UNCHANGED patching
    BY <2>1, <2>t, <1>m
  <2>2. ASSUME NEW t \in Tasks, ApiStep(t) PROVE \A u \in patching' : status'[u] # "absent"
    <3>1. CASE Create(t) \/ Complete(t) \/ CompleteRows(t) \/ PeekNode(t) \/ ClearNode(t)
               \/ Abandon(t) \/ FillBudget(t)
      BY <2>1, <3>1 DEF Create, Complete, CompleteRows, PeekNode, ClearNode, Abandon,
                        FillBudget, apiserver
    <3>2. CASE CheckPatch(t)
      BY <3>2, <2>t, <1>m DEF CheckPatch, Assignable
    <3>3. CASE CommitPatch(t)
      BY <3>3, <2>t, <1>m DEF CommitPatch
    <3>4. QED
      BY <2>2, <3>1, <3>2, <3>3 DEF ApiStep
  <2>3. QED
    BY <2>1, <2>2, ApiFrame
<1>4. \A t \in Tasks, n \in Nodes : row'[t][n].status # "none" => status'[t] # "absent"
  <2>t. row \in [Tasks -> [Nodes -> RowType]]
    BY DEF Rest, RowsOK
  <2> SUFFICES ASSUME NEW t \in Tasks, NEW n \in Nodes, row'[t][n].status # "none"
               PROVE  status'[t] # "absent"
    OBVIOUS
  <2>1. CASE row[t][n].status # "none"
    BY <2>1, <1>m DEF Known
  <2>2. CASE row[t][n].status = "none"
    <3>0. ~ UNCHANGED row[t][n]
      BY <2>2
    <3>1. ASSUME NEW l \in Loops, Claim(l) PROVE status'[t] # "absent"
      <4>1. UNCHANGED row \/ CommitClaim(loop[l].task, loop[l].picks[1])
        BY <3>1 DEF Claim
      <4>2. loop[l].task \in Tasks
        BY <3>1, <1>t DEF Claim, LoopShape
      <4>3. ASSUME CommitClaim(loop[l].task, loop[l].picks[1]), t = loop[l].task
            PROVE  status'[t] # "absent"
        BY <4>2, <4>3 DEF CommitClaim, Contract!CTypeOK
      <4>4. ASSUME CommitClaim(loop[l].task, loop[l].picks[1]), t # loop[l].task
            PROVE  UNCHANGED row[t]
        BY <4>2, <4>4, <2>t DEF CommitClaim
      <4>5. QED
        BY <3>0, <4>1, <4>3, <4>4
    <3>2. ASSUME NEW l \in Loops, Record(l) PROVE status'[t] # "absent"
      <4>1. t = loop[l].task \/ UNCHANGED row[t]
        BY <3>2, <1>t, <2>t DEF Record
      <4>2. status[loop[l].task] # "absent" /\ loop[l].task \in Tasks
        BY <3>2, <1>t DEF Record
      <4>3. QED
        BY <3>0, <4>1, <4>2, <1>m
    <3>3. ASSUME NEW l \in Loops, Unrecord(l) \/ ReleaseVictimRow(l)
          PROVE  UNCHANGED row[t][n]
      <4>1. ASSUME NEW u, NEW m, Active(u, m), Release(u, m)
            PROVE  UNCHANGED row[t][n]
        <5>1. ~(u = t /\ m = n)
          BY <4>1, <2>2 DEF Active
        <5> DEFINE q == [row[u][m] EXCEPT !.status = "released"]
        <5>2. row' = [row EXCEPT ![u][m] = q]
          BY <4>1 DEF Release
        <5> HIDE DEF q
        <5>3. QED
          BY <2>t, <5>1, <5>2
      <4>2. QED
        BY <3>3, <4>1 DEF Unrecord, ReleaseVictimRow
    <3>4. CASE Decides
      <4>1. reclaim.task \in Tasks /\ status[reclaim.task] # "absent"
        BY <3>4, DecidesCommits DEF CommitReclaim, Rest, ReclaimOK, Known
      <4>2. t = reclaim.task \/ UNCHANGED row[t]
        BY <3>4, <2>t, DecidesCommits DEF CommitReclaim
      <4>3. QED
        BY <3>0, <4>1, <4>2, <1>m
    <3>5. ASSUME NEW u \in Tasks, CompleteRows(u) PROVE UNCHANGED row[t][n]
      <4> DEFINE q(m) == IF Active(u, m) THEN [row[u][m] EXCEPT !.status = "completed"]
                                         ELSE row[u][m]
      <4>1. row' = [row EXCEPT ![u] = [m \in Nodes |-> q(m)]]
        BY <3>5 DEF CompleteRows
      <4>2. t = u => q(n) = row[t][n]
        BY <2>2 DEF Active
      <4> HIDE DEF q
      <4>3. QED
        BY <2>t, <4>1, <4>2
    <3>6. ASSUME NEW u \in Tasks, NEW m \in Nodes, LeaseLapses(u, m) \/ Renew(u, m)
          PROVE  UNCHANGED row[t][n]
      BY <3>6, <2>2, <2>t DEF LeaseLapses, Renew, Active
    <3>7. QED
      BY <3>0, <3>1, <3>2, <3>3, <3>4, <3>5, <3>6, RowFrame DEF RowWrite
  <2>3. QED
    BY <2>1, <2>2
<1>5. QED
  BY <1>1, <1>2, <1>3, <1>4 DEF Known
-----------------------------------------------------------------------------
(* The theorems.                                                           *)

LEMMA KnownInit == Init => Known /\ OneClaimPerReturn
  BY DEF Init, Known, OneClaimPerReturn, Idle, Resting, NoRow, Loops

LEMMA IInvInit == Init => IInv
  BY TypeInit, KnownInit DEF IInv

LEMMA IInvStep == IInv /\ [Next]_vars => IInv'
<1> SUFFICES ASSUME IInv, [Next]_vars PROVE IInv'
  OBVIOUS
<1>1. Contract!CTypeOK /\ Rest /\ TypeOK /\ Shaped /\ Known /\ OneClaimPerReturn
  BY Split DEF IInv
<1>2. Contract!CTypeOK'
  BY <1>1, StepRefines, CTypeStep
<1>3. RowsOK' /\ LoopsOK' /\ ReclaimOK' /\ ApiOK' /\ SetsOK' /\ CountsOK'
  BY <1>1, RowsStep, LoopsStep, ReclaimTypeStep, ApiTypeStep, SetsStep, HistoryStep
<1>4. TypeOK' /\ Shaped'
  <2>1. Rest'
    BY <1>3 DEF Rest
  <2>2. (Contract!CTypeOK /\ Rest => TypeOK /\ Shaped)'
    BY DEF TypeOK, Shaped, Rest, RowsOK, LoopsOK, ReclaimOK, ApiOK, SetsOK, CountsOK,
           RowType, LoopType, ReclaimType, ApiType
  <2>3. QED
    BY <1>2, <2>1, <2>2
<1>5. Known'
  BY <1>1, KnownStep
<1>6. OneClaimPerReturn'
  BY <1>1, OneClaimStep
<1>7. QED
  BY <1>4, <1>5, <1>6 DEF IInv

(* The inductive invariant holds in every reachable state.                 *)
THEOREM LeaseInvariant == Spec => []IInv
<1>1. QED
  BY IInvInit, IInvStep, PTL DEF Spec

(* Every variable stays in its type, whatever interleaves.                 *)
THEOREM LeaseTypes == Spec => []TypeOK
<1>1. IInv => TypeOK
  BY DEF IInv
<1>2. QED
  BY <1>1, LeaseInvariant, PTL

(* A task is claimed exactly once per return to pending: no interleaving   *)
(* of the two loops, the reclaim, restarts, failed commits and the         *)
(* apiserver's handlers dispatches it twice.                               *)
THEOREM LeaseOneClaim == Spec => []OneClaimPerReturn
<1>1. IInv => OneClaimPerReturn
  BY DEF IInv
<1>2. QED
  BY <1>1, LeaseInvariant, PTL

(* The server implements the contract.                                     *)
THEOREM LeaseImplements == Spec => Implements
<1>1. Init => Contract!CInit
  BY DEF Init, Contract!CInit
<1>2. IInv /\ [Next]_vars => [Contract!CNext]_(Contract!cvars)
  BY StepRefines DEF IInv
<1>3. QED
  BY <1>1, <1>2, LeaseInvariant, PTL DEF Spec, Implements, Contract!CSpec

LEMMA LeasePromise == Spec => []CInv
<1>1. Init => CInv
  <2>1. Init => Contract!CInit
    BY DEF Init, Contract!CInit
  <2>2. QED
    BY <2>1, CInvInit, MaxFailuresAssumption
<1>2. IInv /\ CInv /\ [Next]_vars => CInv'
  BY StepRefines, CInvStep, MaxFailuresAssumption DEF IInv
<1>3. QED
  BY <1>1, <1>2, LeaseInvariant, PTL DEF Spec

(* A waiting task has no owner and an assigned one has.                    *)
THEOREM LeaseOwner == Spec => []OwnerMatchesStatus
<1>1. CInv => OwnerMatchesStatus
  BY DEF CInv, OwnerMatchesStatus
<1>2. QED
  BY <1>1, LeasePromise, PTL

(* A task is given up at exactly MaxFailures lost leases.                  *)
THEOREM LeaseFailures == Spec => []FailureAccounting
<1>1. CInv => FailureAccounting
  BY DEF CInv, FailureAccounting
<1>2. QED
  BY <1>1, LeasePromise, PTL

(* A completed, superseded or expired task is never opened again.          *)
THEOREM LeaseTerminal == Spec => TerminalIsFinal
<1>1. IInv /\ [Next]_vars =>
        [\A t \in Tasks : status[t] \in Contract!Terminal
            => status'[t] \in Contract!Terminal]_(Contract!cvars)
  BY StepRefines, TerminalStep, Split DEF IInv
<1>2. QED
  BY <1>1, LeaseInvariant, PTL DEF Spec, TerminalIsFinal, Contract!TerminalIsFinal
-----------------------------------------------------------------------------
(* No pending task is forgotten unseen, where nothing preempts and no      *)
(* lease or backoff runs out during the pass that holds the task.          *)

(* The circumstances.  With preemption the code does lose tasks: the two   *)
(* loops may release one victim twice, and a victim may wait with an       *)
(* active row left over from its cohort or from a crash, which a reclaim   *)
(* then takes for the lost lease of its next claim.  A slow pass loses one *)
(* in the same way.  Any call may fail, and any task may be planned work.  *)
Undisturbed == Preempts = {} /\ Delays = {}

InHand(l) == loop[l].pc \in {"publish", "record", "unrecord", "flush"}

NoVictims == \A l \in Loops : loop[l].victim = NoTask

(* A task a loop has claimed and not let go: no lease of it has lapsed, so *)
(* that neither the sweep nor a reclaim in progress gives it back.         *)
Held(t) == /\ status[t] \notin {"absent", "pending"}
           /\ \A n \in Nodes : Active(t, n) => /\ ~row[t][n].lapsed
                                               /\ <<t, n>> \notin sweep
           /\ reclaim.pc = "decide" => reclaim.task # t

HandsHold == \A l \in Loops, t \in Tasks :
                InHand(l) /\ loop[l].task = t => Held(t)

(* A waiting task has no active row.                                       *)
WaitsAlone ==
    \A t \in Tasks : status[t] = "pending" => \A n \in Nodes : ~Active(t, n)

(* What the reclaim in progress knows is still so when it decides.         *)
Deciding ==
    reclaim.pc = "decide" =>
        /\ Active(reclaim.task, reclaim.node)
        /\ \A n \in Nodes : Active(reclaim.task, n) =>
                                n \in reclaim.left \cup {reclaim.node}

Outcomes == /\ reclaim.pc \in {"idle", "decide"} => reclaim.act = "none"
            /\ reclaim.act = "expire" => status[reclaim.task] \in Contract!Terminal
            /\ \A p \in sweep : row[p[1]][p[2]].status # "none"

Calm == NoVictims /\ HandsHold /\ WaitsAlone /\ Deciding /\ Outcomes

(* The part of the invariant proved above that the steps below use.        *)
Ground == /\ Contract!CTypeOK /\ Rest /\ Known /\ OwnerMatchesStatus
          /\ Undisturbed

(* Loop l goes on to c with the task it has, or is idle again.             *)
To(l, c) == /\ \A k \in Loops : k # l => loop'[k] = loop[k]
            /\ loop'[l].pc = c
            /\ c # "idle" => loop'[l].task = loop[l].task
            /\ loop'[l].victim = NoTask

LEMMA LoopGoesTo ==
    ASSUME Ground, NoVictims, NEW l \in Loops
    PROVE  /\ loop[l].pc \notin {"release", "releaseRow"}
           /\ Drop(l) => To(l, "idle")
           /\ \A c : loop' = [loop EXCEPT ![l].pc = c] => To(l, c)
           /\ Select(l) => \/ Requeue(l)
                           \/ To(l, "claim") /\ UNCHANGED redis
           /\ Publish(l) => To(l, "record") \/ To(l, "flush")
           /\ PublishFails(l) => To(l, "unrecord") \/ To(l, "flush")
<1> DEFINE r == loop[l]
<1>t. /\ loop \in [Loops -> LoopType] /\ LoopShape(r) /\ r \in LoopType
      /\ r.victim = NoTask /\ Preempts = {}
  BY DEF Ground, Rest, LoopsOK, NoVictims, Undisturbed
<1>1. loop[l].pc \notin {"release", "releaseRow"}
  BY <1>t, NullsAssumption DEF LoopShape
<1>2. Drop(l) => To(l, "idle")
  <2>1. Idle.pc = "idle" /\ Idle.victim = NoTask
    BY DEF Idle
  <2>2. QED
    BY <1>t, <2>1 DEF Drop, To
<1>3. ASSUME NEW q, loop' = [loop EXCEPT ![l] = q], q.task = r.task,
             q.victim = NoTask
      PROVE  To(l, q.pc)
  BY <1>t, <1>3 DEF To
<1>4. ASSUME NEW c, loop' = [loop EXCEPT ![l].pc = c] PROVE To(l, c)
  <2> DEFINE q == [r EXCEPT !.pc = c]
  <2>1. q.pc = c /\ q.task = r.task /\ q.victim = NoTask
    BY <1>t DEF LoopType
  <2>2. loop' = [loop EXCEPT ![l] = q]
    BY <1>4
  <2> HIDE DEF q
  <2>3. QED
    BY <1>3, <2>1, <2>2
<1>5. ASSUME Select(l) PROVE Requeue(l) \/ (To(l, "claim") /\ UNCHANGED redis)
  <2>1. ASSUME NEW p, loop' = [loop EXCEPT ![l] =
                                 [r EXCEPT !.pc = "claim", !.picks = p, !.i = 1]]
        PROVE  To(l, "claim")
    <3> DEFINE q == [r EXCEPT !.pc = "claim", !.picks = p, !.i = 1]
    <3>1. q.pc = "claim" /\ q.task = r.task /\ q.victim = NoTask
      BY <1>t DEF LoopType
    <3>2. loop' = [loop EXCEPT ![l] = q]
      BY <2>1
    <3> HIDE DEF q
    <3>3. QED
      BY <1>3, <3>1, <3>2
  <2>2. ASSUME NEW n \in Nodes PROVE <<marker[n], loop[l].task>> \notin Preempts
    BY <1>t
  <2>3. QED
    BY <1>5, <2>1, <2>2 DEF Select
<1>6. ASSUME Publish(l) PROVE To(l, "record") \/ To(l, "flush")
  <2> DEFINE c == IF r.i < Len(r.picks) THEN "record" ELSE "flush"
             j == r.i + 1
             q == [r EXCEPT !.i = j, !.pc = c]
  <2>1. loop' = [loop EXCEPT ![l] = q]
    BY <1>6, <1>t DEF Publish
  <2> HIDE DEF c, j
  <2>2. q.pc = c /\ q.task = r.task /\ q.victim = NoTask
    BY <1>t DEF LoopType
  <2> HIDE DEF q
  <2>3. To(l, c)
    BY <1>3, <2>1, <2>2
  <2>4. QED
    BY <2>3 DEF c
<1>7. ASSUME PublishFails(l) PROVE To(l, "unrecord") \/ To(l, "flush")
  <2> DEFINE c == IF r.i > 1 THEN "unrecord" ELSE "flush"
             q == [r EXCEPT !.pc = c, !.victim = NoTask]
  <2>1. loop' = [loop EXCEPT ![l] = q]
    BY <1>7 DEF PublishFails
  <2> HIDE DEF c
  <2>2. q.pc = c /\ q.task = r.task /\ q.victim = NoTask
    BY <1>t DEF LoopType
  <2> HIDE DEF q
  <2>3. To(l, c)
    BY <1>3, <2>1, <2>2
  <2>4. QED
    BY <2>3 DEF c
<1>8. QED
  BY <1>1, <1>2, <1>4, <1>5, <1>6, <1>7

(* What one step of a loop may do to what it holds.                        *)
LEMMA LoopHands ==
    ASSUME Ground, NoVictims, NEW l \in Loops, LoopStep(l)
    PROVE  /\ \A k \in Loops : k # l => loop'[k] = loop[k]
           /\ loop'[l].victim = NoTask
           /\ InHand(l)' =>
                 /\ loop'[l].task = loop[l].task
                 /\ InHand(l) \/ (Claim(l) /\ CommitClaim(loop[l].task, loop[l].picks[1]))
<1> USE LoopGoesTo DEF To, InHand
<1>1. CASE Fetch(l)
  BY <1>1 DEF Fetch
<1>2. CASE Select(l)
  BY <1>2 DEF Requeue
<1>3. CASE Claim(l)
  BY <1>3 DEF Claim, Claimed, Requeue
<1>4. CASE Record(l)
  BY <1>4 DEF Record
<1>5. CASE Publish(l)
  BY <1>5 DEF Publish
<1>6. CASE PublishFails(l)
  BY <1>6 DEF PublishFails
<1>7. CASE Unrecord(l) \/ Flush(l)
  BY <1>7 DEF Unrecord, Flush
<1>8. CASE ReleaseVictim(l) \/ ReleaseVictimRow(l)
  BY <1>8 DEF ReleaseVictim, ReleaseVictimRow
<1>9. QED
  BY <1>1, <1>2, <1>3, <1>4, <1>5, <1>6, <1>7, <1>8 DEF LoopStep

(* What a step may do to one assignment row: keep its status, end it (but  *)
(* not under the reclaim's row lock), or open it.                          *)
KeepsRow(t, n) == /\ row'[t][n].status = row[t][n].status
                  /\ row'[t][n].lapsed => row[t][n].lapsed \/ Unhandled(t)
EndsRow(t, n) == /\ row'[t][n].status \in {"completed", "released", "expired"}
                 /\ ~Locked(t, n) \/ Decides
OpensRow(t, n) == \E l \in Loops :
    /\ loop[l].task = t
    /\ \/ Claim(l) /\ CommitClaim(t, n) /\ n = loop[l].picks[1]
       \/ Record(l) /\ row[t][n].status = "none"
    /\ row'[t][n].status = "assigned" /\ ~row'[t][n].lapsed

LEMMA RowMoves ==
    ASSUME Ground, NoVictims, [Next]_vars, NEW t \in Tasks, NEW n \in Nodes
    PROVE  KeepsRow(t, n) \/ EndsRow(t, n) \/ OpensRow(t, n)
<1> DEFINE Goal == KeepsRow(t, n) \/ EndsRow(t, n) \/ OpensRow(t, n)
<1>t. row \in [Tasks -> [Nodes -> RowType]]
  BY DEF Ground, Rest, RowsOK
<1>r. row[t][n] \in RowType
  BY <1>t
<1>0. CASE UNCHANGED row[t][n]
  BY <1>0 DEF KeepsRow
<1>1. ASSUME NEW l \in Loops, Claim(l) PROVE Goal
  <2> DEFINE u == loop[l].task
             m == loop[l].picks[1]
  <2>1. UNCHANGED row \/ CommitClaim(u, m)
    BY <1>1 DEF Claim
  <2>2. ASSUME CommitClaim(u, m), u = t, m = n PROVE Goal
    <3> DEFINE q == [status |-> "assigned", role |-> "primary", lapsed |-> FALSE]
    <3>1. row' = [row EXCEPT ![t][n] = q]
      BY <2>2 DEF CommitClaim
    <3>2. q.status = "assigned" /\ q.lapsed = FALSE
      OBVIOUS
    <3> HIDE DEF q
    <3>3. row'[t][n] = q
      BY <1>t, <3>1
    <3>4. CommitClaim(t, n) /\ loop[l].task = t /\ n = loop[l].picks[1]
      BY <2>2
    <3>5. QED
      BY <1>1, <3>2, <3>3, <3>4 DEF OpensRow
  <2>3. ASSUME CommitClaim(u, m), ~(u = t /\ m = n) PROVE UNCHANGED row[t][n]
    <3> DEFINE q == [status |-> "assigned", role |-> "primary", lapsed |-> FALSE]
    <3>1. row' = [row EXCEPT ![u][m] = q]
      BY <2>3 DEF CommitClaim
    <3> HIDE DEF q, u, m
    <3>2. QED
      BY <1>t, <2>3, <3>1
  <2>4. QED
    BY <1>0, <2>1, <2>2, <2>3
<1>2. ASSUME NEW l \in Loops, Record(l) PROVE Goal
  <2> DEFINE u == loop[l].task
             m == loop[l].picks[loop[l].i]
             q == [status |-> "assigned", role |-> "cohort", lapsed |-> FALSE]
  <2>1. UNCHANGED row \/ (row[u][m].status = "none" /\ row' = [row EXCEPT ![u][m] = q])
    BY <1>2 DEF Record
  <2>2. q.status = "assigned" /\ q.lapsed = FALSE
    OBVIOUS
  <2>e. u = loop[l].task
    OBVIOUS
  <2> HIDE DEF q, u, m
  <2>3. CASE u = t /\ m = n /\ ~UNCHANGED row
    <3>1. row'[t][n] = q
      BY <1>t, <2>1, <2>3
    <3>2. QED
      BY <1>2, <2>1, <2>2, <2>3, <2>e, <3>1 DEF OpensRow
  <2>4. CASE ~(u = t /\ m = n)
    BY <1>t, <1>0, <2>1, <2>4
  <2>5. QED
    BY <1>0, <2>3, <2>4
<1>3. ASSUME NEW l \in Loops, Unrecord(l) \/ ReleaseVictimRow(l) PROVE Goal
  <2>1. ASSUME NEW u, NEW m, ~Locked(u, m), Release(u, m) PROVE Goal
    <3> DEFINE q == [row[u][m] EXCEPT !.status = "released"]
    <3>1. row' = [row EXCEPT ![u][m] = q]
      BY <2>1 DEF Release
    <3>2. CASE u = t /\ m = n
      <4>1. q.status = "released"
        BY <1>r, <3>2 DEF RowType
      <4> HIDE DEF q
      <4>2. row'[t][n] = q
        BY <1>t, <3>1, <3>2
      <4>3. QED
        BY <2>1, <3>2, <4>1, <4>2 DEF EndsRow
    <3> HIDE DEF q
    <3>3. CASE ~(u = t /\ m = n)
      BY <1>t, <1>0, <3>1, <3>3
    <3>4. QED
      BY <3>2, <3>3
  <2>2. QED
    BY <1>3, <1>0, <2>1 DEF Unrecord, ReleaseVictimRow
<1>4. CASE Decides
  <2> DEFINE u == reclaim.task
             m == reclaim.node
             q == [row[u][m] EXCEPT !.status = "expired"]
  <2>1. row' = [row EXCEPT ![u][m] = q]
    BY <1>4, DecidesCommits DEF CommitReclaim
  <2>2. CASE u = t /\ m = n
    <3>1. q.status = "expired"
      BY <1>r, <2>2 DEF RowType
    <3> HIDE DEF q, u, m
    <3>2. row'[t][n] = q
      BY <1>t, <2>1, <2>2
    <3>3. QED
      BY <1>4, <3>1, <3>2 DEF EndsRow
  <2> HIDE DEF q, u, m
  <2>3. CASE ~(u = t /\ m = n)
    BY <1>t, <1>0, <2>1, <2>3
  <2>4. QED
    BY <2>2, <2>3
<1>5. ASSUME NEW u \in Tasks, CompleteRows(u) PROVE Goal
  <2> DEFINE q(m) == IF Active(u, m) THEN [row[u][m] EXCEPT !.status = "completed"]
                                     ELSE row[u][m]
  <2>1. row' = [row EXCEPT ![u] = [m \in Nodes |-> q(m)]] /\ ~Locked(u, n)
    BY <1>5 DEF CompleteRows
  <2>2. t = u => q(n) = row[t][n] \/ q(n).status = "completed"
    BY <1>r DEF RowType
  <2> HIDE DEF q
  <2>3. row'[t][n] = (IF t = u THEN q(n) ELSE row[t][n])
    BY <1>t, <2>1
  <2>4. QED
    BY <1>0, <2>1, <2>2, <2>3 DEF EndsRow
<1>6. ASSUME NEW u \in Tasks, NEW m \in Nodes, LeaseLapses(u, m) \/ Renew(u, m) PROVE Goal
  <2>1. \/ row' = [row EXCEPT ![u][m].lapsed = TRUE] /\ Unhandled(u)
        \/ row' = [row EXCEPT ![u][m].lapsed = FALSE]
    BY <1>6 DEF LeaseLapses, Renew, Ground, Undisturbed
  <2>2. CASE u = t /\ m = n
    <3> DEFINE q(b) == [row[t][n] EXCEPT !.lapsed = b]
    <3>1. \E b \in BOOLEAN : row' = [row EXCEPT ![t][n] = q(b)] /\ (b => Unhandled(t))
      BY <2>1, <2>2
    <3>2. \A b : q(b).status = row[t][n].status /\ q(b).lapsed = b
      BY <1>r DEF RowType
    <3> HIDE DEF q
    <3>3. \E b \in BOOLEAN : row'[t][n] = q(b) /\ (b => Unhandled(t))
      BY <1>t, <3>1
    <3>4. QED
      BY <3>2, <3>3 DEF KeepsRow
  <2>3. CASE ~(u = t /\ m = n)
    BY <1>t, <1>0, <2>1, <2>3
  <2>4. QED
    BY <2>2, <2>3
<1>7. QED
  BY <1>0, <1>1, <1>2, <1>3, <1>4, <1>5, <1>6, RowFrame DEF RowWrite

(* What a step may do to the reclaim and the sweep.                        *)
LEMMA ReclaimMoves ==
    ASSUME Ground, [Next]_vars
    PROVE  /\ \/ UNCHANGED reclaim
              \/ reclaim' = Resting
              \/ /\ BeginReclaim
                 /\ reclaim'.pc = "decide" /\ reclaim'.act = "none"
                 /\ Active(reclaim'.task, reclaim'.node)
                 /\ <<reclaim'.task, reclaim'.node>> \in sweep
                 /\ \A n \in Nodes : Active(reclaim'.task, n) =>
                       n \in reclaim'.left \cup {reclaim'.node}
              \/ /\ DecideReclaim
                 /\ reclaim'.pc = "marker" /\ reclaim'.task = reclaim.task
                 /\ reclaim'.act = ReclaimAct(reclaim.task)
              \/ /\ FreeReclaimedNode
                 /\ reclaim'.pc = "queue" /\ reclaim'.task = reclaim.task
                 /\ reclaim'.act = reclaim.act
           /\ \A p \in sweep' :
                 p \in sweep \/ (Active(p[1], p[2]) /\ row[p[1]][p[2]].lapsed)
<1>t. reclaim \in ReclaimType /\ sweep \subseteq Tasks \X Nodes
  BY DEF Ground, Rest, ReclaimOK
<1>s. \A p \in sweep' : p \in sweep \/ (Active(p[1], p[2]) /\ row[p[1]][p[2]].lapsed)
  <2>1. CASE UNCHANGED sweep
    BY <2>1
  <2>2. CASE SweepLeases
    BY <2>2 DEF SweepLeases
  <2>3. CASE ReclaimStep
    BY <2>3 DEF ReclaimStep, BeginReclaim, DecideReclaim, ReclaimUnheard, CommitReclaim,
                ReclaimFails, FreeReclaimedNode, QueueReclaimed
  <2>4. ASSUME NEW l \in Loops, Claim(l) PROVE UNCHANGED sweep
    BY <2>4 DEF Claim
  <2>5. QED
    BY <2>1, <2>2, <2>3, <2>4, ReclaimFrame DEF Crash
<1>1. CASE UNCHANGED reclaim
  BY <1>s, <1>1
<1>2. CASE reclaim' = Resting
  BY <1>s, <1>2
<1>3. CASE BeginReclaim
  <2>1. PICK p \in sweep :
           IF Active(p[1], p[2])
           THEN reclaim' = [Resting EXCEPT
                              !.pc = "decide", !.task = p[1], !.node = p[2],
                              !.left = {n \in Nodes \ {p[2]} : Active(p[1], n)}]
           ELSE UNCHANGED reclaim
    BY <1>3 DEF BeginReclaim
  <2> DEFINE c == {n \in Nodes \ {p[2]} : Active(p[1], n)}
             q == [Resting EXCEPT !.pc = "decide", !.task = p[1], !.node = p[2],
                                  !.left = c]
  <2>2. UNCHANGED reclaim \/ (Active(p[1], p[2]) /\ reclaim' = q)
    BY <2>1
  <2>3. \A n \in Nodes : Active(p[1], n) => n \in c \cup {p[2]}
    OBVIOUS
  <2> HIDE DEF c
  <2>4. q.pc = "decide" /\ q.task = p[1] /\ q.node = p[2] /\ q.left = c /\ q.act = "none"
    BY DEF Resting
  <2> HIDE DEF q
  <2>5. p = <<p[1], p[2]>>
    BY <1>t
  <2>6. QED
    BY <1>1, <1>3, <1>s, <2>2, <2>3, <2>4, <2>5
<1>4. CASE DecideReclaim
  <2> DEFINE a == ReclaimAct(reclaim.task)
  <2>1. reclaim' = [reclaim EXCEPT !.pc = "marker", !.act = a]
    BY <1>4 DEF DecideReclaim
  <2> HIDE DEF a
  <2>2. reclaim'.pc = "marker" /\ reclaim'.task = reclaim.task /\ reclaim'.act = a
    BY <1>t, <2>1 DEF ReclaimType
  <2>3. QED
    BY <1>4, <1>s, <2>2 DEF a
<1>5. CASE FreeReclaimedNode
  <2>1. reclaim'.pc = "queue" /\ reclaim'.task = reclaim.task /\ reclaim'.act = reclaim.act
    BY <1>t, <1>5 DEF FreeReclaimedNode, ReclaimType
  <2>2. QED
    BY <1>5, <1>s, <2>1
<1>6. CASE SweepLeases
  BY <1>1, <1>6 DEF SweepLeases
<1>7. CASE Crash \/ ReclaimFails \/ ReclaimUnheard \/ QueueReclaimed
  BY <1>2, <1>7 DEF Crash, ReclaimFails, ReclaimUnheard, QueueReclaimed
<1>8. ASSUME NEW l \in Loops, Claim(l) PROVE UNCHANGED reclaim \/ reclaim' = Resting
  BY <1>8 DEF Claim
<1>9. QED
  BY <1>1, <1>2, <1>3, <1>4, <1>5, <1>6, <1>7, <1>8, ReclaimFrame DEF ReclaimStep

(* Nothing but a lost lease sends a task back.                             *)
LEMMA BackIsReclaim ==
    ASSUME Ground, NoVictims, [Next]_vars, NEW t \in Tasks, Back(t)
    PROVE  Decides /\ reclaim.task = t
<1>1. status'[t] = "pending" /\ status[t] = "assigned"
  BY DEF Back
<1>2. status \in [Tasks -> Contract!Status]
  BY DEF Ground, Contract!CTypeOK
<1>3. ASSUME NEW l \in Loops, Claim(l) PROVE FALSE
  <2>1. UNCHANGED status \/ CommitClaim(loop[l].task, loop[l].picks[1])
    BY <1>3 DEF Claim, tasksTable
  <2>2. QED
    BY <1>1, <1>2, <2>1 DEF CommitClaim
<1>4. ASSUME NEW l \in Loops, ReleaseVictim(l) PROVE FALSE
  BY <1>4, LoopGoesTo DEF ReleaseVictim
<1>5. ASSUME Decides, reclaim.task # t PROVE FALSE
  BY <1>1, <1>2, <1>5, DecidesCommits DEF CommitReclaim, MoveTask, tasksTable
<1>6. ASSUME NEW u \in Tasks, Create(u) \/ CommitPatch(u) \/ Complete(u) \/ FillBudget(u)
      PROVE  FALSE
  BY <1>1, <1>2, <1>6 DEF Create, CommitPatch, Complete, FillBudget
<1>7. QED
  BY <1>1, <1>3, <1>4, <1>5, <1>6, StatusFrame DEF StatusWrite

(* A held task stays held while the loop has it.                           *)
LEMMA HeldStep ==
    ASSUME Ground, Calm, [Next]_vars, NEW k \in Loops, NEW t \in Tasks,
           InHand(k), loop[k].task = t
    PROVE  Held(t)'
<1>t. ~Unhandled(t)
  BY DEF Unhandled
<1>h. Held(t) /\ Outcomes
  BY DEF Calm, HandsHold
<1>1. status'[t] \notin {"absent", "pending"}
  <2>1. Same(t) \/ Won(t) \/ Back(t) \/ Ended(t) \/ Born(t)
    BY <1>t, HistoryStep DEF Ground
  <2>3. ~Back(t)
    BY <1>h, BackIsReclaim, DecidesCommits DEF Calm, Held, CommitReclaim
  <2>4. QED
    BY <1>h, <2>1, <2>3 DEF Held, Same, Won, Ended, Born
<1>2. ASSUME NEW n \in Nodes, Active(t, n)'
      PROVE  ~row'[t][n].lapsed /\ <<t, n>> \notin sweep'
  <2>1. KeepsRow(t, n) \/ EndsRow(t, n) \/ OpensRow(t, n)
    BY <1>t, RowMoves DEF Calm
  <2>2. row'[t][n].status = "assigned"
    BY <1>2 DEF Active
  <2>3. <<t, n>> \in sweep' =>
           <<t, n>> \in sweep \/ (Active(t, n) /\ row[t][n].lapsed)
    BY ReclaimMoves
  <2>4. CASE KeepsRow(t, n)
    BY <1>t, <1>h, <2>2, <2>3, <2>4 DEF KeepsRow, Held, Active
  <2>5. CASE OpensRow(t, n)
    <3>1. ~row'[t][n].lapsed
      BY <2>5 DEF OpensRow
    <3>2. ~CommitClaim(t, n)
      BY <1>h DEF Held, CommitClaim, Assignable
    <3>3. row[t][n].status = "none"
      BY <2>5, <3>2 DEF OpensRow
    <3>4. <<t, n>> \notin sweep
      BY <1>h, <3>3 DEF Outcomes
    <3>5. QED
      BY <2>3, <3>1, <3>3, <3>4 DEF Active
  <2>6. QED
    BY <2>1, <2>2, <2>4, <2>5 DEF EndsRow
<1>3. reclaim'.pc = "decide" => reclaim'.task # t
  <2>1. ASSUME Active(reclaim'.task, reclaim'.node), reclaim'.task = t,
               <<reclaim'.task, reclaim'.node>> \in sweep
        PROVE  FALSE
    <3>1. reclaim'.node \in Nodes
      BY <2>1 DEF Ground, Rest, ReclaimOK
    <3>2. QED
      BY <1>h, <2>1, <3>1 DEF Held
  <2>2. Resting.pc = "idle"
    BY DEF Resting
  <2>3. QED
    BY <1>h, <2>1, <2>2, ReclaimMoves DEF Held
<1>4. QED
  BY <1>1, <1>2, <1>3 DEF Held

(* A claim takes the task in hand: nothing was active, nothing swept.      *)
LEMMA ClaimHolds ==
    ASSUME Ground, Calm, [Next]_vars, NEW l \in Loops, NEW t \in Tasks, NEW m,
           Claim(l), CommitClaim(t, m)
    PROVE  Held(t)'
<1>t. /\ status[t] = "pending"
      /\ status' = [status EXCEPT ![t] = "assigned"]
      /\ <<t, m>> \notin sweep
      /\ row' = [row EXCEPT ![t][m] =
                   [status |-> "assigned", role |-> "primary", lapsed |-> FALSE]]
  BY DEF CommitClaim, Assignable, Ground, Undisturbed
<1>s. UNCHANGED sweep /\ (UNCHANGED reclaim \/ reclaim' = Resting)
  BY DEF Claim
<1>1. status'[t] \notin {"absent", "pending"}
  BY <1>t DEF Ground, Contract!CTypeOK
<1>2. ASSUME NEW n \in Nodes, Active(t, n)'
      PROVE  ~row'[t][n].lapsed /\ <<t, n>> \notin sweep'
  <2>0. row \in [Tasks -> [Nodes -> RowType]] /\ ~Active(t, n)
    BY <1>t DEF Ground, Rest, RowsOK, Calm, WaitsAlone
  <2> DEFINE q == [status |-> "assigned", role |-> "primary", lapsed |-> FALSE]
  <2>1. row' = [row EXCEPT ![t][m] = q] /\ q.lapsed = FALSE
    BY <1>t
  <2> HIDE DEF q
  <2>2. n = m
    BY <1>t, <1>2, <2>0, <2>1 DEF Active
  <2>3. QED
    BY <1>t, <1>s, <2>0, <2>1, <2>2
<1>3. reclaim'.pc = "decide" => reclaim'.task # t
  <2>1. reclaim.pc = "decide" => reclaim.task # t
    BY <1>t DEF Calm, WaitsAlone, Deciding, Ground, Rest, ReclaimOK
  <2>2. Resting.pc = "idle"
    BY DEF Resting
  <2>3. QED
    BY <1>s, <2>1, <2>2
<1>4. QED
  BY <1>1, <1>2, <1>3 DEF Held

LEMMA HandsStep ==
    ASSUME Ground, Calm, [Next]_vars
    PROVE  NoVictims' /\ HandsHold'
<1> USE DEF InHand
<1>t. loop \in [Loops -> LoopType] /\ NoVictims
  BY DEF Ground, Rest, LoopsOK, Calm
<1>i. Idle.pc = "idle" /\ Idle.victim = NoTask
  BY DEF Idle
<1> DEFINE Goal(k) ==
      /\ loop'[k].victim = NoTask
      /\ \A t \in Tasks :
            loop'[k].pc \in {"publish", "record", "unrecord", "flush"}
                /\ loop'[k].task = t => Held(t)'
<1> SUFFICES ASSUME NEW k \in Loops PROVE Goal(k)
  BY DEF NoVictims, HandsHold
<1>0. CASE UNCHANGED loop[k]
  BY <1>0, <1>t, HeldStep DEF NoVictims
<1>1. CASE Crash
  BY <1>1, <1>i DEF Crash
<1>2. CASE Take /\ ~UNCHANGED loop
  <2>1. PICK l \in Loops, t \in Tasks :
           loop' = [loop EXCEPT ![l] = [Idle EXCEPT !.pc = "fetch", !.task = t]]
    BY <1>2 DEF Take, TakeNote, LoseNotes, PopQueued, Loops, Ground, Rest, SetsOK, orch
  <2> DEFINE q == [Idle EXCEPT !.pc = "fetch", !.task = t]
  <2>2. q.pc = "fetch" /\ q.victim = NoTask
    BY <1>i DEF Idle
  <2>3. loop' = [loop EXCEPT ![l] = q]
    BY <2>1
  <2> HIDE DEF q
  <2>4. QED
    BY <1>0, <1>t, <2>2, <2>3
<1>3. ASSUME NEW l \in Loops, LoopStep(l), k # l PROVE Goal(k)
  BY <1>3, <1>t, <1>0, LoopHands
<1>4. ASSUME LoopStep(k) PROVE Goal(k)
  <2>1. ASSUME NEW t \in Tasks, InHand(k)', loop'[k].task = t PROVE Held(t)'
    <3>1. loop[k].task = t
      BY <1>4, <1>t, <2>1, LoopHands
    <3>2. CASE InHand(k)
      BY <3>1, <3>2, HeldStep
    <3>3. CASE Claim(k) /\ CommitClaim(loop[k].task, loop[k].picks[1])
      BY <3>1, <3>3, ClaimHolds
    <3>4. QED
      BY <1>4, <1>t, <2>1, <3>2, <3>3, LoopHands
  <2>2. QED
    BY <1>4, <1>t, <2>1, LoopHands
<1>5. QED
  BY <1>0, <1>1, <1>2, <1>3, <1>4, LoopFrame

LEMMA WaitsStep ==
    ASSUME Ground, Calm, [Next]_vars
    PROVE  WaitsAlone'
<1> SUFFICES ASSUME NEW t \in Tasks, NEW n \in Nodes,
                    status'[t] = "pending", row'[t][n].status = "assigned"
             PROVE  FALSE
  BY DEF WaitsAlone, Active
<1>1. Same(t) \/ Back(t) \/ Born(t)
  BY HistoryStep DEF Ground, Won, Ended
<1>2. KeepsRow(t, n) \/ OpensRow(t, n)
  BY RowMoves DEF Calm, EndsRow
<1>3. ASSUME NEW l \in Loops, loop[l].task = t, Record(l) PROVE Held(t)
  BY <1>3 DEF Calm, HandsHold, InHand, Record
<1>4. ASSUME CommitClaim(t, n) PROVE FALSE
  BY <1>4 DEF CommitClaim, Ground, Contract!CTypeOK
<1>5. ASSUME OpensRow(t, n) PROVE Held(t)
  BY <1>3, <1>4, <1>5 DEF OpensRow
<1>6. CASE Same(t)
  BY <1>2, <1>5, <1>6 DEF Same, Calm, WaitsAlone, Active, KeepsRow, Held
<1>7. CASE Born(t)
  BY <1>2, <1>5, <1>7 DEF Born, Ground, Known, KeepsRow, Held
<1>8. CASE Back(t)
  <2>1. CommitReclaim /\ reclaim.task = t /\ status[t] = "assigned"
    BY <1>8, BackIsReclaim, DecidesCommits DEF Calm, Back
  <2>2. reclaim.left = {} /\ ~UNCHANGED status
    BY <1>8, <2>1 DEF CommitReclaim, ReclaimAct, tasksTable, Back
  <2>3. ~Held(t)
    BY <2>1 DEF Held, CommitReclaim
  <2>4. Active(t, n)
    BY <1>2, <1>5, <2>3 DEF KeepsRow, Active
  <2>5. n = reclaim.node
    BY <2>1, <2>2, <2>4 DEF Calm, Deciding, CommitReclaim
  <2>6. row'[t][n].status = "expired"
    <3>1. row \in [Tasks -> [Nodes -> RowType]]
      BY DEF Ground, Rest, RowsOK
    <3> DEFINE q == [row[t][n] EXCEPT !.status = "expired"]
    <3>2. row' = [row EXCEPT ![t][n] = q]
      BY <2>1, <2>5 DEF CommitReclaim
    <3>3. q.status = "expired"
      BY <3>1 DEF RowType
    <3> HIDE DEF q
    <3>4. QED
      BY <3>1, <3>2, <3>3
  <2>7. QED
    BY <2>6
<1>9. QED
  BY <1>1, <1>6, <1>7, <1>8

LEMMA DecidingStep ==
    ASSUME Ground, Calm, [Next]_vars
    PROVE  Deciding'
<1> DEFINE t == reclaim'.task
           m == reclaim'.node
<1> SUFFICES ASSUME reclaim'.pc = "decide"
             PROVE  /\ row'[t][m].status = "assigned"
                    /\ \A n \in Nodes : row'[t][n].status = "assigned"
                          => n \in reclaim'.left \cup {m}
  BY DEF Deciding, Active
<1>r. Resting.pc = "idle"
  BY DEF Resting
<1>1. CASE UNCHANGED reclaim
  <2>t. t \in Tasks /\ m \in Nodes /\ Active(t, m) /\ ~Decides
    <3>1. reclaim.pc = "decide" /\ t = reclaim.task /\ m = reclaim.node
      BY <1>1
    <3>2. ~Decides
      BY <1>1, <3>1, DecidesCommits DEF Ground, Rest, ReclaimOK
    <3>3. QED
      BY <3>1, <3>2 DEF Ground, Rest, ReclaimOK, Calm, Deciding
  <2> HIDE DEF t, m
  <2>1. ASSUME NEW n \in Nodes PROVE row'[t][n].status = "assigned" => Active(t, n)
    <3>1. status[t] # "pending"
      BY <2>t DEF Calm, WaitsAlone
    <3>2. ~Held(t)
      BY <1>1 DEF Held, t
    <3>3. ~OpensRow(t, n)
      BY <2>t, <3>1, <3>2 DEF OpensRow, CommitClaim, Assignable, Record, Calm,
                              HandsHold, InHand
    <3>4. QED
      BY <2>t, <3>3, RowMoves DEF Calm, EndsRow, KeepsRow, Active
  <2>2. row'[t][m].status = "assigned"
    <3>1. Locked(t, m)
      BY <1>1 DEF Locked, t, m
    <3>2. QED
      BY <2>t, <3>1, RowMoves DEF Calm, EndsRow, KeepsRow, OpensRow, Active
  <2>3. QED
    BY <1>1, <2>1, <2>2 DEF Calm, Deciding, t, m
<1>2. CASE BeginReclaim /\ Active(t, m)
  BY <1>1, <1>2, <1>r, ReclaimMoves DEF BeginReclaim, Active
<1>3. QED
  BY <1>1, <1>2, <1>r, ReclaimMoves

LEMMA OutcomesStep ==
    ASSUME Ground, Calm, [Next]_vars
    PROVE  Outcomes'
<1>r. Resting.act = "none"
  BY DEF Resting
<1>o. /\ reclaim.pc \in {"idle", "decide"} => reclaim.act = "none"
      /\ reclaim.act = "expire" => status[reclaim.task] \in Contract!Terminal
      /\ \A p \in sweep : row[p[1]][p[2]].status # "none"
      /\ reclaim.pc # "idle" => reclaim.task \in Tasks
  BY DEF Calm, Outcomes, Ground, Rest, ReclaimOK
<1>1. reclaim'.pc \in {"idle", "decide"} => reclaim'.act = "none"
  BY <1>r, <1>o, ReclaimMoves
<1>2. reclaim'.act = "expire" => status'[reclaim'.task] \in Contract!Terminal
  <2>1. CASE UNCHANGED reclaim \/ FreeReclaimedNode
    <3>1. ASSUME reclaim.act = "expire" PROVE status'[reclaim.task] \in Contract!Terminal
      <4>1. reclaim.task \in Tasks /\ status[reclaim.task] \in Contract!Terminal
        BY <1>o, <3>1
      <4>2. [Contract!CNext]_(Contract!cvars)
        BY StepRefines, Split DEF Ground
      <4>3. QED
        BY <4>1, <4>2, TerminalStep DEF Ground
    <3>2. reclaim'.act = reclaim.act /\ reclaim'.task = reclaim.task
      BY <2>1 DEF FreeReclaimedNode, Ground, Rest, ReclaimOK, ReclaimType
    <3>3. QED
      BY <3>1, <3>2
  <2>2. CASE DecideReclaim
    <3>1. reclaim.task \in Tasks /\ status \in [Tasks -> Contract!Status]
      BY <1>o, <2>2 DEF DecideReclaim, CommitReclaim, Ground, Contract!CTypeOK
    <3>2. reclaim'.act = ReclaimAct(reclaim.task) /\ reclaim'.task = reclaim.task
      BY <2>2 DEF DecideReclaim, Ground, Rest, ReclaimOK, ReclaimType
    <3>3. ASSUME ReclaimAct(reclaim.task) = "expire" PROVE status'[reclaim.task] = "expired"
      BY <2>2, <3>1, <3>3 DEF DecideReclaim, CommitReclaim, MoveTask
    <3>4. QED
      BY <3>2, <3>3 DEF Contract!Terminal
  <2>3. QED
    BY <1>r, <2>1, <2>2, ReclaimMoves
<1>3. ASSUME NEW p \in sweep' PROVE row'[p[1]][p[2]].status # "none"
  <2>1. p[1] \in Tasks /\ p[2] \in Nodes /\ row[p[1]][p[2]].status # "none"
    <3>1. p \in sweep \/ Active(p[1], p[2])
      BY ReclaimMoves
    <3>2. p \in Tasks \X Nodes
      <4>1. ReclaimOK'
        BY ReclaimTypeStep DEF Ground
      <4>2. QED
        BY <4>1 DEF ReclaimOK
    <3>3. QED
      BY <1>o, <3>1, <3>2 DEF Active
  <2>2. QED
    BY <2>1, RowMoves DEF Calm, KeepsRow, EndsRow, OpensRow
<1>4. QED
  BY <1>1, <1>2, <1>3 DEF Outcomes

(* Where a waiting task may be, as no pass has a victim in hand.           *)
Waiting(t) ==
    \/ t \in queued \cup parked \cup notes \cup lost
    \/ mode = "starting"
    \/ \E l \in Loops : loop[l].task = t /\ loop[l].pc \in {"fetch", "select", "claim"}
    \/ reclaim.task = t /\ reclaim.act = "requeue"

Kept(t) == Carried(t) \/ t \in lost

(* A call that fails leaves what it was to keep in another queue, or it is *)
(* known to be lost.                                                       *)
LEMMA LosingKeeps ==
    ASSUME NEW S, Losing(S), NEW t, status[t] = "pending"
    PROVE  /\ t \in S => t \in queued' \cup parked' \cup notes' \cup lost'
           /\ t \in lost => t \in lost'
  BY DEF Losing

(* A pass keeps the task it takes in its hands or in a queue, or loses it. *)
LEMMA LoopCarries ==
    ASSUME Ground, Calm, [Next]_vars, NEW l \in Loops, LoopStep(l), NEW t \in Tasks,
           status[t] = "pending", status'[t] = "pending", Waiting(t)
    PROVE  Kept(t)'
<1> DEFINE Queues == t \in queued' \cup parked' \cup notes' \cup lost'
           Hands(k) == loop'[k].task = t /\ loop'[k].pc \in {"fetch", "select", "claim"}
           Goal == \/ Queues \/ mode' = "starting" \/ \E k \in Loops : Hands(k)
                   \/ reclaim'.task = t /\ reclaim'.act = "requeue"
<1>g. SUFFICES Goal
  BY DEF Kept, Carried
<1>a. Assignable(t)
  BY DEF Ground, OwnerMatchesStatus, Contract!OwnerMatchesStatus, Assignable
<1>n. UNCHANGED <<notes, mode>>
  BY DEF LoopStep, Fetch, Select, Claim, Record, Publish, PublishFails, Unrecord,
         ReleaseVictim, ReleaseVictimRow, Flush
<1>h. loop[l].task = t => ~InHand(l)
  BY DEF Calm, HandsHold, Held
<1>v. NoVictims /\ loop[l].pc \notin {"release", "releaseRow"}
  BY LoopGoesTo DEF Calm
<1>l. ASSUME NEW c, To(l, c) PROVE \A k \in Loops : k # l => loop'[k] = loop[k]
  BY <1>l DEF To
<1>r. UNCHANGED reclaim \/ reclaim.act = "none"
  <2>1. ASSUME Claim(l) PROVE UNCHANGED reclaim \/ reclaim.pc = "decide"
    BY <2>1 DEF Claim, Locked
  <2>2. ASSUME ~Claim(l) PROVE UNCHANGED reclaim
    BY <2>2 DEF LoopStep, Fetch, Select, Record, Publish, PublishFails, Unrecord,
                ReleaseVictim, ReleaseVictimRow, Flush
  <2>3. QED
    BY <2>1, <2>2 DEF Calm, Outcomes
<1>k. \A k \in Loops : k # l => loop'[k] = loop[k]
  BY <1>v, LoopHands
<1>1. CASE loop[l].task = t
  <2>d. Drop(l) => loop'[l].pc = "idle"
    BY <1>v, LoopGoesTo DEF To
  <2>f. Losing({t}) => Queues
    BY LosingKeeps
  <2>1. CASE Fetch(l)
    <3>1. Losing({t}) \/ loop' = [loop EXCEPT ![l].pc = "select"]
      BY <1>1, <2>d, <2>1 DEF Fetch
    <3>2. loop' = [loop EXCEPT ![l].pc = "select"] => To(l, "select")
      BY <1>v, LoopGoesTo
    <3>3. QED
      BY <1>1, <2>f, <3>1, <3>2 DEF To
  <2>2. CASE Select(l)
    <3>1. Requeue(l) => Losing({t})
      BY <1>1, <2>d, <2>2 DEF Select, Requeue
    <3>2. QED
      BY <1>1, <1>v, <2>2, <2>f, <3>1, LoopGoesTo DEF To
  <2>3. CASE Claim(l)
    <3>1. ~CommitClaim(t, loop[l].picks[1])
      BY DEF CommitClaim, Ground, Contract!CTypeOK
    <3>2. Losing({t})
      BY <1>1, <1>a, <2>3, <3>1 DEF Claim
    <3>3. QED
      BY <2>f, <3>2
  <2>4. QED
    BY <1>1, <1>h, <1>v, <2>1, <2>2, <2>3
    DEF LoopStep, Record, Publish, PublishFails, Unrecord, ReleaseVictim,
        ReleaseVictimRow, Flush, InHand
<1>2. CASE loop[l].task # t
  <2>1. t \in queued \cup parked => t \in queued' \cup parked'
    BY <1>2 DEF LoopStep, Fetch, Select, Requeue, Enqueue, Claim, Record, Publish,
                PublishFails, Unrecord, ReleaseVictim, ReleaseVictimRow, Flush, redis
  <2>2. t \in lost => t \in lost'
    BY <1>2, LosingKeeps
    DEF LoopStep, Fetch, Select, Claim, CommitClaim, Record, Publish, PublishFails,
        Unrecord, ReleaseVictim, ReleaseVictimRow, Flush, ghosts
  <2>3. QED
    BY <1>2, <1>k, <1>n, <1>r, <2>1, <2>2 DEF Waiting
<1>3. QED
  BY <1>1, <1>2

LEMMA CarriedStep ==
    ASSUME Ground, Calm, PendingIsCarried, [Next]_vars
    PROVE  PendingIsCarried'
<1> SUFFICES ASSUME NEW t \in Tasks, status'[t] = "pending"
             PROVE  Kept(t)'
  BY DEF PendingIsCarried, Kept
<1>1. Same(t) \/ Back(t) \/ Born(t)
  BY HistoryStep DEF Ground, Won, Ended
<1>2. CASE Back(t)
  <2>1. Decides /\ CommitReclaim /\ reclaim.task = t
    BY <1>2, BackIsReclaim, DecidesCommits DEF Calm
  <2>2. ReclaimAct(t) # "none"
    BY <1>2, <2>1 DEF CommitReclaim, Back, tasksTable
  <2>3. ReclaimAct(t) # "expire"
    BY <2>1, <2>2 DEF CommitReclaim, MoveTask, Ground, Contract!CTypeOK
  <2>4. ReclaimAct(t) = "requeue"
    BY <2>2, <2>3 DEF ReclaimAct
  <2>5. CASE DecideReclaim
    <3>1. reclaim'.task = t /\ reclaim'.act = ReclaimAct(t)
      BY <2>1, <2>5 DEF DecideReclaim, Ground, Rest, ReclaimOK, ReclaimType
    <3>2. QED
      BY <2>4, <3>1 DEF Kept, Carried
  <2>6. CASE ReclaimUnheard
    BY <2>1, <2>4, <2>6 DEF ReclaimUnheard, CommitReclaim, redis, Kept, Carried
  <2>7. QED
    BY <2>1, <2>5, <2>6 DEF Decides
<1>3. CASE Born(t)
  <2>1. status[t] = "absent" /\ status \in [Tasks -> Contract!Status]
    BY <1>3 DEF Born, Ground, Contract!CTypeOK
  <2>2. ASSUME NEW u \in Tasks, Create(u) \/ CommitPatch(u) \/ Complete(u) \/ FillBudget(u)
        PROVE  t \in notes'
    BY <2>1, <2>2 DEF Create, CommitPatch, Complete, FillBudget
  <2>3. ASSUME NEW l \in Loops, Claim(l) PROVE FALSE
    <3>1. UNCHANGED status \/ CommitClaim(loop[l].task, loop[l].picks[1])
      BY <2>3 DEF Claim, tasksTable
    <3>2. QED
      BY <2>1, <3>1 DEF CommitClaim
  <2>4. ASSUME NEW l \in Loops, ReleaseVictim(l) PROVE FALSE
    BY <2>4, LoopGoesTo DEF ReleaseVictim, Calm
  <2>5. CASE Decides
    BY <1>3, <2>1, <2>5, DecidesCommits
    DEF CommitReclaim, ReclaimAct, MoveTask, tasksTable, Born
  <2>6. QED
    BY <1>3, <2>1, <2>2, <2>3, <2>4, <2>5, StatusFrame DEF StatusWrite, Kept, Carried, Born
<1>4. CASE Same(t)
  <2>1. status[t] = "pending" /\ Waiting(t)
    BY <1>4, NullsAssumption DEF Same, PendingIsCarried, Carried, Waiting, Calm, NoVictims
  <2>2. Assignable(t)
    BY <2>1 DEF Ground, OwnerMatchesStatus, Contract!OwnerMatchesStatus, Assignable
  <2>o. /\ reclaim.pc \in {"idle", "decide"} => reclaim.act = "none"
        /\ reclaim.act = "expire" => reclaim.task # t
    BY <2>1 DEF Calm, Outcomes, Contract!Terminal
  <2>u. ASSUME UNCHANGED <<queued, parked, mode, loop>>, notes \subseteq notes',
               lost \subseteq lost',
               UNCHANGED reclaim \/ reclaim.pc \in {"idle", "decide"}
        PROVE  Kept(t)'
    BY <2>1, <2>o, <2>u DEF Waiting, Kept, Carried
  <2>3. CASE UNCHANGED vars
    BY <2>u, <2>3 DEF vars, redis, orch, ghosts
  <2>4. CASE TakeNote \/ PopQueued
    <3>1. PICK l \in Loops, u \in Tasks :
             /\ loop[l].pc = "idle"
             /\ loop' = [loop EXCEPT ![l] = [Idle EXCEPT !.pc = "fetch", !.task = u]]
             /\ \A v \in queued \cup parked \cup notes :
                   v # u => v \in queued' \cup parked' \cup notes'
      <4>1. CASE TakeNote
        <5>1. PICK u \in notes :
                 /\ notes' = notes \ {u}
                 /\ loop' = [loop EXCEPT !["notify"] =
                               [Idle EXCEPT !.pc = "fetch", !.task = u]]
          BY <4>1 DEF TakeNote
        <5>2. loop["notify"].pc = "idle" /\ UNCHANGED redis /\ "notify" \in Loops
          BY <4>1 DEF TakeNote, Loops
        <5>3. u \in Tasks
          BY DEF Ground, Rest, SetsOK
        <5>4. QED
          BY <5>1, <5>2, <5>3 DEF redis
      <4>2. CASE PopQueued
        <5>1. PICK u \in queued :
                 /\ queued' = queued \ {u}
                 /\ loop' = [loop EXCEPT !["drain"] =
                               [Idle EXCEPT !.pc = "fetch", !.task = u]]
          BY <4>2 DEF PopQueued
        <5>2. loop["drain"].pc = "idle" /\ UNCHANGED <<parked, notes>> /\ "drain" \in Loops
          BY <4>2 DEF PopQueued, Loops
        <5>3. u \in Tasks
          BY DEF Ground, Rest, SetsOK
        <5>4. QED
          BY <5>1, <5>2, <5>3
      <4>3. QED
        BY <2>4, <4>1, <4>2
    <3> DEFINE q == [Idle EXCEPT !.pc = "fetch", !.task = u]
    <3>2. q.pc = "fetch" /\ q.task = u
      BY DEF Idle
    <3>3. loop' = [loop EXCEPT ![l] = q] /\ loop \in [Loops -> LoopType]
      BY <3>1 DEF Ground, Rest, LoopsOK
    <3> HIDE DEF q
    <3>4. UNCHANGED <<reclaim, mode, lost>>
      BY <2>4 DEF TakeNote, PopQueued, ghosts
    <3>5. QED
      BY <2>1, <3>1, <3>2, <3>3, <3>4 DEF Waiting, Kept, Carried
  <2>l. CASE LoseNotes
    BY <2>1, <2>l, LosingKeeps DEF LoseNotes, Waiting, Kept, Carried, redis, orch
  <2>5. ASSUME NEW l \in Loops, LoopStep(l) PROVE Kept(t)'
    BY <1>4, <2>1, <2>5, LoopCarries DEF Same
  <2>6. CASE SweepLeases \/ BeginReclaim \/ ReclaimFails \/ Decides
    <3>1. lost \subseteq lost'
      BY <2>6 DEF SweepLeases, BeginReclaim, ReclaimFails, Decides, DecideReclaim,
                  ReclaimUnheard, ghosts
    <3>2. QED
      BY <2>u, <2>6, <3>1, DecidesCommits
      DEF SweepLeases, BeginReclaim, ReclaimFails, CommitReclaim, redis
  <2>7. CASE FreeReclaimedNode
    <3>1. reclaim'.task = reclaim.task /\ reclaim'.act = reclaim.act
      BY <2>7 DEF FreeReclaimedNode, Ground, Rest, ReclaimOK, ReclaimType
    <3>2. QED
      BY <2>1, <2>7, <3>1 DEF FreeReclaimedNode, Waiting, Kept, Carried, ghosts
  <2>8. CASE QueueReclaimed
    BY <2>1, <2>8, <2>o, LosingKeeps DEF QueueReclaimed, Waiting, Kept, Carried
  <2>9. ASSUME NEW u \in Tasks, Plan(u) PROVE Kept(t)'
    BY <2>1, <2>9, LosingKeeps DEF Plan, Enqueue, Waiting, Kept, Carried, orch
  <2>10. ASSUME NEW u \in Tasks, ApiStep(u) \/ BackoffEnds(u) PROVE Kept(t)'
    BY <2>u, <2>10
    DEF BackoffEnds, ApiStep, Create, CheckPatch, CommitPatch, Complete, CompleteRows,
        PeekNode, ClearNode, Abandon, FillBudget, redis, orch, ghosts
  <2>11. CASE \/ \E u \in Tasks, n \in Nodes : PairStep(u, n)
              \/ \E n \in Nodes : Reconcile(n)
    BY <2>u, <2>11 DEF PairStep, LeaseLapses, Renew, PierStops, Reconcile, redis, orch,
                    ghosts
  <2>12. CASE Crash
    BY <2>12 DEF Crash, Kept, Carried
  <2>13. CASE Recover
    BY <2>2, <2>13 DEF Recover, Kept, Carried
  <2>14. QED
    BY <2>3, <2>4, <2>l, <2>5, <2>6, <2>7, <2>8, <2>9, <2>10, <2>11, <2>12, <2>13
    DEF Next, Take, ReclaimStep, Decides
<1>5. QED
  BY <1>1, <1>2, <1>3, <1>4

(* A pending task is never forgotten unseen: whatever the two loops, the   *)
(* reclaim, restarts and the apiserver's handlers interleave to, it is in  *)
(* a queue, in a notification or in the hands of a step that will queue or *)
(* claim it, or one of the calls whose error the code drops has failed for *)
(* it (or it was put on an agenda) and no restart has recovered it yet.    *)
(* Every call may fail; nothing preempts, and no lease or backoff runs out *)
(* within a pass.                                                          *)
THEOREM LeasePendingIsCarried ==
    ASSUME Undisturbed
    PROVE  Spec => []PendingIsCarried
<1>1. Init => Calm /\ PendingIsCarried
  BY DEF Init, Calm, NoVictims, HandsHold, InHand, WaitsAlone, Deciding, Outcomes,
         PendingIsCarried, Idle, Resting, Active, NoRow, Loops
<1>2. IInv /\ OwnerMatchesStatus /\ Calm /\ PendingIsCarried /\ [Next]_vars
        => (Calm /\ PendingIsCarried)'
  <2> SUFFICES ASSUME IInv, OwnerMatchesStatus, Calm, PendingIsCarried, [Next]_vars
               PROVE  (Calm /\ PendingIsCarried)'
    OBVIOUS
  <2>1. Ground
    BY Split DEF IInv, Ground
  <2>2. NoVictims' /\ HandsHold' /\ WaitsAlone' /\ Deciding' /\ Outcomes'
    BY <2>1, HandsStep, WaitsStep, DecidingStep, OutcomesStep
  <2>3. PendingIsCarried'
    BY <2>1, CarriedStep
  <2>4. QED
    BY <2>2, <2>3 DEF Calm
<1>3. QED
  BY <1>1, <1>2, LeaseInvariant, LeaseOwner, PTL DEF Spec
=============================================================================
