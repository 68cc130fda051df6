# TLA+ models and proofs for Saucepan

Saucepan is a network of robotic telescopes: researchers submit observing tasks, a task server assigns each to a
telescope, an agent beside the telescope ("pier") takes the image, and a pipeline uploads, grades and delivers it.
This directory models the parts of it whose correctness depends on interleaving, failure and order, checks the models
with TLC on small instances, and proves the central invariants with TLAPS for every instance.

Paths are relative to `src/`. `TS` is `SaucepanServer/task-server`, `DL` is `SaucepanServer/storage-server/datalake`,
`PA` is `SaucepanClient/internal/pieragent`.

| module | what it is |
| --- | --- |
| `TaskContract` | what the task server promises about the life of a task: the abstract specification |
| `TaskLease` | the orchestrator's hot path, the handlers that create, edit and complete tasks, lease renewal |
| `PierAgent` | the agent of one telescope: commands, captures, aborts, the hardware |
| `PierCode` | researcher code on a pier: consent, the runner, overrides of the next capture, the campaign board |
| `UploadSession` | a frame's way from the pier to the worker's queue: uploader, handlers, sweeper, object store |
| `FramePipeline` | a frame from the end of its upload through queue, worker and grade ingest to the inbox |
| `Inboxes`, `Deliveries` | the state of the two inboxes with what their readers rely on; the steps: acknowledgement, deletion, and the SDK's clients that drain them |
| `Campaigns` | the life of a campaign, its publication, its tasks, its coverage plan and the replan loop |
| `Accounts` | registration, login, refresh rotation, logout and change of the password |
| `Selection` | gates, ranking, preemption, cohorts, lanes and agendas, as functions |
| `SchedSim` | the scheduler simulator, a small state machine over `Selection` |
| `SkySafety`, `Handoff` | where a telescope may point, and when a task must be handed on, as functions |
| `CoveragePlan`, `CampaignPack` | the coverage planner and the checks and expansion of packs, as functions |
| `MC...` | instances for TLC; one `.cfg` per run |
| `TaskLeaseProofs` (with `TaskContract`), `PierAgentProofs`, `FramePipelineProofs`, `PierCodeProofs`, `CampaignsProofs` (with `Deliveries`), `AccountsProofs`, `UploadSessionProofs`, `SchedulingProofs` (the functions and the simulator) | theorems and their proofs |

The modules meet at their edges. The `working` set of `TaskLease` (the commands a pier may be executing) is what
`PierAgent` details; a frame of `PierAgent` is what `UploadSession` carries and `PierCode` is run on; a job queued by
`UploadSession` is what `FramePipeline` begins with; the deliveries it creates are those of `Deliveries`. The completion
of a task by `FramePipeline` is the action `FillBudget` of `TaskLease`, and the `closing` handler of `Campaigns`. What
`TaskLease` chooses freely (which telescope, which victim) `Selection` computes, and `SchedSim` puts to work.

## 1. The system

### Components

**Orchestrator** (`TS/cmd/orchestrator`). One process, three loops over shared stores. `runNotifyLoop` takes Postgres
NOTIFYs of new tasks; `drainLoop` pops the Redis queue `tasks:queued`; `reclaimLoop` expires assignment rows whose lease
lapsed and requeues or gives up their tasks. A fourth loop (`runPlannerOnce`) moves planned work from
`tasks:queued:planned` to agendas. State: Postgres `tasks` (status, owner, failure count, last attempt) and
`task_assignments` (one row per task and telescope, with a lease); Redis queues and per-telescope markers
(`current_task_id`). Nothing but those stores and MQTT connects it with the other processes.
*Hard:* both loops may hold one task; a claim, a publish and a Redis update are in three stores with no common
transaction; markers are read long before they are acted on; leases lapse while a task is being handled; restarts.
*Correct when:* a task is dispatched once per return to pending; no pending task is forgotten; an assignment ends; the
owner, failure and status columns agree; a finished task stays finished.

**Apiserver** (`TS/cmd/apiserver`). Stateless HTTP handlers over Postgres, Redis and an object store: tasks (create, edit,
complete), campaigns, uploads, the worker queue (a table with an in-memory fallback), grade ingest with the integration
budget, inboxes, developer API, authentication. *Hard:* check-then-act on rows, several statements without a
transaction, answers that are lost after their effect. *Correct when:* frames are credited and delivered once, budgets
and campaigns close when they should, edits only touch what nobody works on.

**Collector** (`TS/cmd/collector`). MQTT telemetry into Redis and Postgres: renews leases of reported tasks
(`lease_renew.go`), frees markers of tasks that are over (`nodestate_reconcile.go`), bridges the campaign boards.
*Hard:* telemetry is late, repeated or lost.

**Pier agent** (`PA`). An MQTT callback runs commands against an Alpaca mount, filter wheel and camera, guarded by two
mutexes and a stop flag; then it uploads the frame and runs on-pier code. *Hard:* an abort races the capture, devices
hang, calls fail halfway, callbacks run in order or at once. *Correct when:* an abort leaves the hardware idle, nothing
moves unattended, a frame is of the target it is filed under.

**Datalake worker** (`DL/worker/orchestrator.py`). Polls jobs from the apiserver, pulls, normalizes and grades each
frame, stacks, requeues failed jobs. **Datalake upload routes** (`DL/routes`): catalog uploads, staging, presigned PUTs.
**Compute server** (`SaucepanServer/compute-server`): numerical reduction and grading, stateless requests.

**User server** (`SaucepanServer/user-server`). Accounts and refresh-token sessions in two tables. *Hard:* refreshes of
one token race, answers are lost, a password change runs beside logins. *Correct when:* a login has one live token, a
change ends the sessions there were, nobody loses a session for another's doing.

**Campaigns and coverage** (`TS/cmd/apiserver/campaigns.go`, `coverage.go`, `TS/cmd/orchestrator/orchestrator_coverage.go`).
A row of `campaigns` with its status and its pack, written by six handlers, the grade ingest and the replan loop. *Hard:*
pack and status are read, changed in memory and written back unconditionally. *Correct when:* a pack is expanded once,
nothing of a draft runs, a stored plan belongs to an intent that asks for it.

**Researcher code** (`PA/research.go`, `PA/boardwatch.go`, `TS/cmd/saucepan-runner`, `TS/shared/consent`). After a frame
the agent runs the campaign's program and applies what it asks for. *Hard:* approvals are revoked, assignments change and
messages repeat between question and effect. *Correct when:* no effect without the operator's approval, no capture outside
its own bounds.

**Algorithms** (`TS/shared`): selection, agendas, pointing safety, handoff, coverage, packs. *Hard:* boundaries: north, the
date line, empty and unset values, ties. **Python SDK** (`SaucepanSDK/python/saucepan`): HTTP wrappers, and the inbox
clients of `Deliveries`. Simulator, metrics tools, contracts: offline or data.

`PROJECT.json` lists every component with what is modelled of it, and every hazard with its line.

### How they interact

    researcher --HTTP--> apiserver --INSERT/NOTIFY--> orchestrator --MQTT command--> pier agent
                             ^  ^                        |   ^                          |  |
          inbox delivery ----+  +--- Redis markers <-----+   +-- leases <-- collector <-+  | upload
                             ^                                                             v
                             +--- grade ingest <--- worker / compute <--- queue <--- apiserver

## 2. The models

### TaskContract

Three columns of `tasks` and the transitions a researcher may rely on: `Submit`, `Win`, `Yield` (preempted, at no cost),
`LoseLease` (counted, and terminal at `MaxFailures`), `Close`, `Replace`. No loops, rows, queues or Redis.

### TaskLease

Every action is one SQL statement or transaction, one Redis round trip or one publish, in the order of the code.

| code | actions |
| --- | --- |
| `runNotifyLoop`, `drainLoop` | `TakeNote`, `LoseNotes`, `PopQueued` |
| `fetchTaskNotifyPayload` | `Fetch` (dropped, parked for backoff or pause, or loaded) |
| `assignTask`, `assignOnce` | `Select`, `Claim`, `Record`, `Publish`, `PublishFails`, `Unrecord`, `ReleaseVictim`, `ReleaseVictimRow`, `Flush` |
| `reclaimExpiredLeases`, `reclaimOne` | `SweepLeases`, `BeginReclaim`, `DecideReclaim`, `ReclaimFails`, `ReclaimUnheard`, `FreeReclaimedNode`, `QueueReclaimed` |
| `runPlannerOnce` | `Plan` |
| restart, `recoverPendingTasks` | `Crash`, `Recover` |
| `handleCreateTask`, `handlePatchTask`, `handleCompleteTask`, budget | `Create`, `CheckPatch`, `CommitPatch`, `Complete`, `CompleteRows`, `PeekNode`, `ClearNode`, `Abandon`, `FillBudget` |
| collector, piers | `Renew`, `Reconcile`, `PierStops` |

Abstractions. Which telescopes the selector prefers is nondeterministic (any ordered cohort of unmarked telescopes, or
one victim that `Preempts` allows): its scoring is floating-point geometry. The priority order of the ZSET is dropped:
any member may be popped. Row locks show where they matter: the reclaim transaction holds its assignment row from its
first UPDATE to its commit (`Locked`), other writers of the row wait, and a claim of that row deadlocks with it, as the
two lock in opposite orders. A commit may fail after the server applied it (`ReclaimUnheard` for the reclaim's), and a ZADD
may fail (`Enqueue`): the code ignores its error. Which tasks such a failure leaves pending in no queue, the variable
`lost` names (`Losing`); no action reads it. Time is nondeterministic, with two
assumptions that `Delays` can withdraw: a lease (15 minutes) does not lapse and a backoff (2 minutes at least) does not end
within one pass of a loop ("pass"), and a row the sweep has read is not released and claimed afresh before its reclaim
("sweep").

### PierAgent

Every action runs between two points where another goroutine or the hardware may act: a lock, a device call, a turn of a
polling loop. `ordered` is the MQTT library's `OrderMatters`: the code leaves it at its default (callbacks one after the
other), its tests and the comment at `PA/agent.go:93` call handlers concurrently; both are checked. The devices are the
environment: a movement settles when it likes or never, and with `Faults` any call may fail, with or without effect.

### FramePipeline

Upload completion, `enqueueWorkerJob` in its four steps with both stores, the hand-out, the worker threads with requeue
and stacks, and `ingestGradePayload` statement by statement. `grading` chooses between the two deployments: the worker
posts grades itself and a refusal fails the job, or the compute server posts them (`COMPUTE_POST_INGEST=1`) and swallows a
refusal. `Refusable` frames are those the ingest answers 404 or 400 between the duplicate check and the INSERT
(`grades.go:141`): such a job is requeued again and again. A frame is its object key, which is also its
idempotency key; a job is the sequence of its keys. Left out, because nothing in the pipeline reads it: accumulated
exposure, reputation, the frame catalog, event feeds, the single retry of a 502. One late request per worker thread is
followed; a later one of that thread waits for it.

### UploadSession

Named by capture: pier, handler of its current request, session row, multipart upload. `Reply` and `Refuse` end a request;
a pier that has hung up (thirty minutes) leaves its handler running with a cancelled context. The sweeper lists expired
sessions, aborts and deletes one by one; `generous` says whether `UPLOAD_SESSION_TTL` outlasts the pier's patience.
`HandOut`, `Pull` and `RequeueFailedJob` are the worker, whose job is done when it is handed out, and `IngestGrade` has
`assertObjectKeyNotForeignRegistered`, which lets a grade pass when its query fails: an object key ends in the second of
the capture, so two telescopes of a cohort may share one.

### Inboxes, Deliveries

`Inboxes` declares the state and states the promises, `Deliveries` adds the steps. An INSERT is stamped when it begins and
seen when it commits, so stamps and visibility may disagree (`overtaken`). A download opens its file for writing before it
streams, so one that fails may leave the file as it was, whole, or spoilt (`Download`, and `Restart` amid one). The
campaign's worker has a cursor in memory and goes on after a failure; the developer's drain has none and starts again.
Deleting an acknowledged object is a later step.

### Campaigns

One action per SQL statement or transaction; a handler's local state is the pack it has read. A task is finished from
whatever status it has, also a pending one (`FinishTask`, `CompleteTask`); the statuses `failed` and `cancelled` of a task
and `archived` of a campaign, which some statements test for, are written by nothing in the repository. `Stop` of a
request at any step stands for a timeout, a restart or an error. The status of a pack's plan is kept, the plan itself not.

### Accounts

One user, several devices, several calls in flight. `LockSession` is `SELECT ... FOR UPDATE`; `EndSessions` is an UPDATE
that sees the rows of when it began and looks at each again; a row inserted meanwhile escapes (`amid`). A password is the
number of passwords set before it; bcrypt, signatures and hashes of tokens are given.

### PierCode

`Handle` is the agent's MQTT callback from an assignment through capture, fetch of the program, runner, and one record
after another (`Apply`). Beside it the operator approves and revokes, the cache is damaged, the agent restarts, and the
board hears messages when no callback is running. The program is its hash; what it emits is any sequence from `Asked`.

### Selection, SchedSim, SkySafety, Handoff, CoveragePlan, CampaignPack

Functions of what the code has read, checked by `MCScheduling` on enumerated inputs (its variable `question`) against
definitions written differently: an arc of mount limits against two comparisons, a span of longitudes against all arcs.
Angles are integers, 12 to a circle; scores are integers, with fractions multiplied out. `SchedSim` has the simulator's
state (queue, clock, seats, log) and its steps within a tick.

## 3. The runs

| run | bounds | states | shows |
| --- | --- | --- | --- |
| `hotpath` | 2 tasks, 1 telescope, 1 restart, 1 return each, the second task preempts the first, commits, publishes and releases fail, late sweeps | 4.0 M | `OneClaimPerReturn`, `Implements` |
| `cohort` | 1 task, 2 telescopes in cohorts, 1 restart, every request; every statement, commit, publish, queueing and notification may fail | 1.5 M | `OwnerMatchesStatus`, `FailureAccounting`, `PendingIsCarried`, `TerminalIsFinal` |
| `live` | 2 tasks, 1 telescope, failing publishes, edits, preemption, no restart | 80 k | `AssignmentEnds`, `MarkerIsFreed` |
| `stranded` | 2 tasks, 1 telescope, 1 restart, no fault | 35 k | the finding below |
| `pier` | an assignment, a preemption and an abort, in any order of arrival, both callback modes, every call may fail | 146 k | `IdleAfterAbort`, `NothingMovesUnattended`, `FrameIsOnTarget`, `EveryCommandEnds` |
| `piercode` | 6 assignments of 2 campaigns (actions absent, granted, all refused), 3 frames, 4 events, a history of 2 messages, 2 records per run | 2.5 M | `EffectsAreConsented`, `ShotIsBounded`, `SignalOnce` |
| `uploads` | 2 captures of one second, 2 parts, 1 fault, both lengths of the TTL, devices bound or not | 1.2 M | `QueuedIsStored`, `GradedIsOwn`, `SweeperSparesTheLiving`, `StoredIsQueued` |
| `frames` | 3 frames of 2 tasks, 2 workers, both deployments, per-frame and stack products, queue limit 2, one refusable frame, any one call fails, and any requeue after it | 539 k | `CreditedOnce`, `CompletionIsEarned`, `FramesAreKept`, `FramesAreGraded` |
| `deliveries` | 2 deliveries in each box, one object shared by both boxes, one file shared by two tasks' deliveries, polls of 2, 1 fault | 695 k | `AckedIsSaved`, `CursorPassesNone`, `EveryDeliveryIsDrained` |
| `campaigns` | 2 requests at once, 4 in all, 1 pass of the replan loop, 1 expanded and 1 added task | 6.4 M | `ExpandedOnce`, `NothingRunsUnpublished`, `PlanOnlyWithIntent`, `EventsAreTrue` |
| `accounts` | 2 devices, 2 calls at once, 4 tokens, 2 passwords, 1 fault, 1 expiry | 3.6 M | `OneLivePerLogin`, `ChangeEndsSessions`, `SessionsEndForAReason` |
| `scheduling` | 3 tasks on 2 telescopes to a horizon of 6; agendas (windows open, past or absent; preferences inside and outside the fleet), pointings, tracks (stored and live masks, mounts, least altitudes), intents and packs as enumerated | 342 k | `WavesAreOne`, `RunEnds`, `AgendaIsSound`, `PointingIsSafe`, `HandoffWarnsInTime`, `PlanKeepsIntent`, `PublishedPackIsSound` |

Why the bounds are enough. The hot path's races need two loops on one task, or a claimer and a victim: two tasks and one
telescope give them (not the victim of two tasks at once, which takes a third: section 5), and a restart puts one task into
both loops. One return makes the second claim of a task
reachable, with `MaxFailures` 2 both sides of the limit. Two telescopes are the smallest cohort with a second assignee. In
the pipeline, duplicates arise from one ambiguous or late call and need two workers; two tasks are needed to close a
campaign by two handlers at once; a limit of two makes the queue fill. One fault at a time is a limit of the `frames` run:
combinations of faults are not covered by it. Deadlock checking is off in every run but
`scheduling`, because their systems do stop: the bounds run out, and no researcher has to act.

Two uploads of one second are the smallest conflict over a key; captures of different seconds share nothing but the
task. Two requests at once and a third loop give every read-modify-write race of a pack; four requests suffice for create,
publish and two that meet. Two calls at once reach every race of a refresh with a refresh, logout or change, and the proofs
lift that bound. Three frames are an override asked for, a change of the assignment, and the exposure that uses it.

Every property of a passing run has a mutant of the code (named `... Mutant:` beside the definition it changes) that
violates it.

### Fairness

`TaskLease!Fairness`: the loops are goroutines that never exit, the collector and the planner run on timers, piers finish
or die, time passes. Strong fairness is used only for time (`LeaseLapses`, `BackoffEnds`): their assumption about a pass is
true again and again while loops handle the task. Requests, faults and crashes are never required. `PierAgent!Fairness`:
Go schedules runnable goroutines and its mutexes are starvation-free; no device has to settle. `FramePipeline!Fairness`:
the worker polls for ever, threads and handlers go on; no upload has to happen, and faults are bounded.
`UploadSession!Fairness`: handlers and the pier go on, sessions expire, the ticker sweeps. `Deliveries!Fairness`: Postgres
commits and clients poll; nobody has to restart a worker that has stopped. The simulator's run goes on until its horizon.

`AssignmentEnds` is checked without restarts and with cohorts of one: with either, `AssignedHasRow` fails (below) and an
assignment can be stranded. Backoff and pause are one nondeterministic reason to postpone a task.

## 4. The proofs

Every safety property that a passing run checks is proved here;
liveness is only model-checked. `PROJECT.json` lists the theorems.

### State machines

`ContractInvariant` (types, `OwnerMatchesStatus`, `FailureAccounting`) and the finality of terminal statuses follow from the
contract alone, for any `MaxFailures` in Nat.

`TaskLeaseProofs`, for any sets of tasks and telescopes, any cohort size, fault set, delays, and any number of restarts:

- `LeaseInvariant`: `Spec => []IInv`, where `IInv == TypeOK /\ Shaped /\ Known /\ OneClaimPerReturn`. `Shaped` says what
  each loop and the reclaim hold at each of their program counters (a loop that publishes has a cohort and a position in
  it; a reclaim that has begun has a task and a telescope): without it neither the types nor the refinement are inductive.
  `Known` says that whatever a queue, a loop, a row or a marker names exists: without it `Claim` could move an absent
  task. `OneClaimPerReturn` counts claims against returns by status, and is inductive only for tasks that are known.
- `LeaseTypes`, `LeaseOneClaim`: the first and last conjunct.
- `LeaseImplements`: `Spec => Contract!CSpec`; each action is a contract step or leaves the three columns alone.
- `LeaseOwner`, `LeaseFailures`, `LeaseTerminal`: the contract's theorems, carried down the refinement.
- `LeasePendingIsCarried`: no pending task is forgotten, for any number of telescopes, any cohorts and any faults, provided
  nothing is preempted and a pass is not overtaken by a lease or a backoff (`Undisturbed`): it is in a queue or in somebody's
  hands, or it has been let go by name (`lost`). What lets go of a task: a notification lost with the listening connection
  (`main.go:154`); a fetch that fails; a ZADD that fails, of a loop that requeues or postpones the task, of the planner that
  promotes it, or of the reclaim; a COMMIT of the reclaim that is applied but answered with an error
  (`orchestrator_reclaim.go:294`); a recovery whose query or pipeline fails; and, without any failure, the planner, which
  moves planned work to an agenda that nobody reads. The invariant is `Calm`: a task that a loop has
  claimed and not let go has no lapsed lease and no reclaim (`HandsHold`), a waiting task has no active row (`WaitsAlone`),
  and a reclaim that decides knows every active row of its task (`Deciding`). The run checks it under the same conditions;
  with preemption it is false (section 5).

`PierAgentProofs`, for any set of commands and any faults:

- `PierInvariant`: an abort that has begun to stop devices holds `hardwareMu`; of the devices it has dealt with without a
  failure none moves, because every start needs the mutex and the stop flag down, and the flag goes down only under the
  mutex; and `quiet` implies the flag is up. This carries over the abort's three calls to its return.
- `PierTypes`: the types, with each mutex held by exactly one handler, in the section it protects.
- `PierIdleAfterAbort`: `IdleAfterAbort`, in both callback modes.
- `PierNothingMovesUnattended`: `NothingMovesUnattended`, from a stronger invariant (`Attended`): a capture watches only the
  device it is waiting for, and only as long as the stop flag is down; when the flag goes up, the handler that raised it
  has yet to halt every device, so a capture that leaves because of it leaves nothing behind.
- `PierFrameIsOnTarget`: `FrameIsOnTarget`, for callbacks in order. `Alone` (one handler is under way at a time) and
  `OnCourse` (each device that a capture is done with is where it put it, the one it waits for moves for nobody else) are
  inductive together; neither holds when callbacks overlap.

`CampaignsProofs`, for any requests, tasks and bounds: `CampaignInvariant` says who holds the campaign's row lock, what
each handler and the replan loop has read, which tasks may be in hand (`Started`), and what still waits to be told.
`ExpandedOnce` follows because the copies of a task change only under the lock, together with `expanded`;
`NothingRunsUnpublished` because nobody leaves draft but the publication and the orchestrator's claim asks for a published
campaign, while completing a task of a draft moves neither; `PlanOnlyWithIntent` because every writer of a pack writes
plan and intent together. `CampaignEventsAreTrue` compares the events sent with the statuses reached; its invariant `Told`
counts those between their UPDATE and their event, by cardinalities.

`Deliveries` (also in `CampaignsProofs`), for any deliveries, files, polls and faults: `DeliveryInv` is the types, `Stamped`
(no two stamps are equal), `InHand` (what is about to be acknowledged is on the disk, and whoever spoilt a file is unread
and has been tried) and `Followed` (the worker has in
hand, has tried, or was overtaken by, whatever comes before the last it holds, in the order of the stamps).
`DeliveriesAckedIsSaved` and `DeliveriesCursorPassesNone` follow.

`FramePipelineProofs`, for any frames, tasks, workers, faults and both deployments:

- `FramesTypes`: the types.
- `FramesCreditedOnce`: a call that has inserted its grade is the only one of that frame, because the insert is refused
  when the key is there; credit and delivery follow the insert in the same call (`Once`).
- `FramesCompletionIsEarned`: two ingests may read one sum, and the second then undoes what the first added, so what a task
  has earned is bounded by, not equal to, the worth of its credited frames (`Earned`); the budget is filled only by frames
  that were graded. The worth of a set is a recursive function; that it grows with the set is shown by a least
  counterexample.
- `FramesKept`: an accepted frame is graded, dropped by name, or in a list or a hand. `KeptInv` adds that every job in a
  list or a hand has frames (`ListsSound`, `HandsSound`) and that a thread and its calls agree about the job (`Settled`);
  each action is shown to pass every frame it takes to somebody (`Carries`).

`PierCodeProofs`: `CodeInvariant` ties what the agent holds to the assignment it serves, and records each effect with the
approval that was read for it. From it `EffectsAreConsented` and `ShotIsBounded`; an approval is of a campaign and its
actions, whatever its program. `CodeSignalOnce`: what waits for a run is the end of what the agent remembers, and of what
it remembers nothing that was given out waits again (`Hearing`). It says nothing of messages without an id, of those the
bounded history has lost, and of retained ones that the broker brings to a restarted agent.

`AccountsProofs`: `AccountsInvariant` (`Fresh`, `Rooted`, `Locked`, `Sweeps`, `Registered`): a new token is in one call's
hands, a rotation's row stays live until it commits because its lock keeps others off, a change has seen every live row
that was not inserted beside it. From it `OneLivePerLogin` and `ChangeEndsSessions`; with `Presented`, which counts the
calls that hold an exchanged token, also the action property `SessionsEndForAReason`.

`UploadSessionProofs`, for any captures, parts, TTLs, bindings and number of faults: `UploadInvariant` says what there is of
an upload at each place of its pier and its handlers (`Placed`), that a key with a frame has a whole one of its second
(`Stored`), that the sweeper only holds what is past its term and that a generous term ends after pier and handlers have
(`Swept`), and that the frame in the worker's hands is whole and of the job's second (`Graded`). From it `QueuedIsStored`;
`GradedIsOwn`, because a whole frame has had a session, which is registered until it is swept, so that only a check whose
query fails overlooks it; and
`SweeperSparesTheLiving`.

### Functions (`SchedulingProofs`)

For every input, not only the enumerated; each theorem's hypotheses describe inputs as the code's stores hold them, and
every question of the run satisfies them.

- Handoff, for any leads, end times and intervals: the urgency of a task never falls as time passes (`UrgencyNeverFalls`),
  the boost for a task in the window without an urgency is never used (`SearchIsUrgent`), a telescope's sight only adds to
  it (`SightOnlyAdds`, if the polling intervals fall with urgency, as the defaults do), and a permitted emergency request
  is heard everywhere until it is cleared (`EmergencyIsHeard`).
- Pointing (`PassingIsSafe`): the two comparisons of the mount limits are an arc (`LimitsAreAnArc`), the interpolated
  horizon meets its points (`HorizonAtPoint`), a ray from inside a rectangle crosses one edge (`InsideIsForbidden`), and
  so no sample of a slew is inside one (`SlewAvoids`). Assumed: rectangles that do not cross north, a horizon sorted by
  azimuth.
- Forecast (`LossIsAnnounced`): the scan's own body (`forbiddenAt`, by the live mask if there is one) and the safety check's
  (`PassesAltAzSafety`) are written out separately, and the announced loss is a step at which the check fails, before which
  nothing but its slew fails; the urgency follows. For a known site with a mask in use: without one nothing is announced.
- Agendas (`EveryAgendaIsSound`, any backlog, telescopes and horizon): the ranks of an order enumerate a set once each
  (`EveryRankIsTaken`); the loop over them keeps that each telescope is free from the end of its last slot and its cadence on
  (`Kept`). A window that does not end after it begins is open for the horizon, and a task none of whose
  preferred telescopes is in the fleet takes any: both are in the statement, as in the code.
- Waves (`SimulatedWavesAreOne`, of the simulator's specification): a wave begins only for a task without seats, and every
  assignment appends the entry of the current wave (`OneWave`).
- Packs (`PublishingIsSound`): the tasks of a target correspond one to one to its named filters, through the ranks of the
  pairs of target and filter. Assumed: the targets are distinct rows.
- Coverage (`EveryPlanKeepsIntent`): each pick adds a site of the pool not yet named while there is room (`GoodChoice`);
  and a turn less the widest gap is the least arc (`SpanIsLeast`: the last site seen from any point is at least that far).
  Assumed: longitudes from a turn west to a turn east.

### Only model-checked

The liveness properties, which are out of the prover's reach: `AssignmentEnds`, `MarkerIsFreed`, `EveryCommandEnds`,
`StoredIsQueued`, `FramesAreGraded`, `EveryDeliveryIsDrained`, `RunEnds`.

## 5. Findings

`stranded` (`TS/cmd/orchestrator/orchestrator_assign.go:537`): the second statement of `clearTaskAssignment` releases a row
that a new claim of the same telescope has just written. The task is assigned without an active row; no sweep finds it.

### Seen while modelling

These are behaviours of the code that the models have, and that the properties therefore except by name.

*Orchestrator and tasks.* Active assignees are counted before the task row is locked, so a fresh claim may be counted as a
lost lease (`orchestrator_reclaim.go:238`). A task claimed between the check and the transaction of an edit is superseded
while a telescope works on it (`tasks.go:209`). Planned work leaves its queue for an agenda that no component assigns from
(`orchestrator_lanes.go:203`).
A preempted task may end up pending in no queue, until a restart recovers it. In each of three ways it goes back to pending
while a loop is assigning it, and that loop's last step takes it off the queue (`orchestrator_assign.go:537`): the victim is
of a cohort, only its owner's row is released, the other member's row lapses, and its reclaim, which saw no other active
row, meets the next claim; both loops preempt one victim for two other tasks, and the second release finds it claimed afresh
by the same telescope; or a crash between the two statements of the release leaves the active row. TLC finds the first with
two tasks and cohorts of two, the others with three tasks on one telescope, the
last from the state the crash leaves, in minutes. A harness test has the preempted
task "go back to the queue" (`orchestrator_assign_harness_test.go:318`). The planner's
"past window — skip" (`TS/shared/lanes/planner.go:65`) spares a task without a start: its start is now, its past end is not
after that, so it gets a window of six hours and is planned. The sweep reads lapsed rows and reclaims them later, and a row
renewed in between is expired all the same (`orchestrator_reclaim.go:223`). The upsert of a cohort row does not revive an
expired row, so a telescope may be commanded without a lease (`orchestrator_assign.go:512`). The compare-and-delete of a
marker is not atomic (`redis_sync.go:153`). Recovery puts planned tasks on the interrupt queue (`orchestrator_pg.go:82`).

*Pier.* An abort waits for the capture it should stop and is dropped as stale after five minutes, as the library delivers in order (`PA/main.go:109`; the comment at
`PA/agent.go:93` expects otherwise). With concurrent callbacks a preemption clears the stop flag before the aborted capture
has seen it (`PA/agent.go:499`), which is why `FrameIsOnTarget` is claimed for ordered callbacks only. The clean MQTT
session is resumed without renewing subscriptions (`TS/shared/mqtt_client.go:38`). The runner gets an empty environment
(`PA/research.go:97`), so `consent.DefaultPath` finds no file and every job is refused, unless the configured runner is a
wrapper that sets `HOME`; both are in the model (`RunnerEnvs`). Signals drained for a campaign that is switched off, or
whose program cannot be fetched, are lost. A damaged cache file is never fetched again. A message without an id is given
again, and so is one the bounded history has lost or the broker retained for a restarted agent. An override outside the new bounds fails the capture it would have changed.

*Uploads.* A device without a binding can start an upload but not finish it. A failed `createUploadSession` leaves a
multipart upload that no sweeper knows, and so does an abort that fails before its row is deleted. A frame whose completion
was ambiguous, or whose handler died, is stored and never queued. A session that could not be marked complete is swept, and
the registry then forgets whose object it was. Two frames of one second have one job, and both grades are refused, so the
job is queued again for ever. The check of foreign objects lets a grade pass when its query fails
(`grades_object_key.go:167`, where the comment wants it so; the trust model at line 21 has bound keys rejected).

*Pipeline.* Two grades ingested at once credit one frame (`budget.go:55`). A failed stack job comes back with its first
frame only (`worker_pending.go:58`). A job whose frame was ingested fails for ever on the duplicate check when the worker
ingests itself (`DL/worker/orchestrator.py:302`), and so does one whose frame the ingest refuses (`grades.go:141`):
`FramesAreGraded` excepts `Refusable` frames there. A failed debit answers 500 after the grade is in, and the frame is never
credited (`grades.go:243`).

*Inboxes.* The cursor passes a delivery whose download or callback failed (`campaign_inbox.py:187`), and one committed late
with an earlier `created_at`. An acknowledgement that fails ends `run_worker`. Two developer deliveries of one task are
saved to one file, and a download that fails halfway destroys what an acknowledged one had saved there
(`SaucepanSDK/python/saucepan/_http.py:172`). A delivery whose object is gone blocks `drain` for ever.

*Campaigns and coverage.* A task added to a draft can be completed by hand or by a grade before the campaign is published
(`tasks.go:331`). Pause and resume read, then write unconditionally, and a publication sets `active` whatever the
status is. A campaign whose last task earned its budget while it was paused is not completed after it is resumed.
`addTask` does not look at the status. Hard coverage fails open when the plan is empty or "insufficient_data", although
`TS/shared/coverage/plan.go:52` says otherwise. The replan loop writes back a pack read earlier, so an intent set meanwhile
is lost. Switching coverage off leaves the windows it opened. The status report takes a longitude of zero for unknown and
skips the span gate when fewer than two are known. The geometry factor takes an arithmetic mean of longitudes. A filter
listed twice becomes two tasks.

*Pointing.* `math.Mod` keeps its sign (`TS/shared/obstruction.go:97`), so a slew that crosses north westward is compared
with negative azimuths and misses polygons there; `PointingIsSafe` excepts such slews. A polygon across north becomes a wide
one. `SecondsUntilObstructionLoss` knows no answer for an empty mask. A PATCH of a handoff cannot clear its end times.

*User server.* A session inserted while a change of the password, or the ending of all sessions on reuse, is being written
survives it; so does one of a login that compared the old hash. The logout of a rotated token reports success while its
successor lives. A lost answer to a refresh makes the retry of the old token end every session.

*Simulator.* The queue is sorted by the larger number while preemption takes the lower for more urgent; a preempted task
whose entry is gone is not queued again; one unassignable task at the head ends the drain of that tick.

## 6. Not modelled

Photometry, points, reputation and the weights of the selector's score are numerical. Authentication of the apiserver and
signature checks are stateless, apart from a rate limiter. The collector's copies of telemetry are last-writer-wins; no
modelled decision depends on their order except through the marker, which `TaskLease` has. Catalog uploads, metrics, the
WASM host, the message board's handlers and most of the SDK and the command line are I/O around data. `PROJECT.json` has a
status and a reason for each.

## 7. Plan

Next modules, in order:

1. `BoardBridge`: the campaign board from the apiserver over MQTT to the piers and back, to which `PierCode` is the end.
2. `TaskEdits`: two PATCHes of one task, with the metadata sync of telescopes.
3. The priority order of the queue, and what starves behind a task in backoff, as a refinement of `TaskLease`'s queue.
4. A composition of `TaskLease` with `PierAgent`'s contract of a pier in place of `working`, and of `UploadSession` with
   `FramePipeline`'s queue.
5. `CatalogUpload`, the datalake's archive uploads with staging and rollback.

Next proofs: what a preempted task is still promised (it is queued, owned, or found by the next recovery); the invariants of
the new modules as they come.
