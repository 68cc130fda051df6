------------------------------ MODULE SchedSim ------------------------------
(***************************************************************************)
(* The scheduler simulator (shared/schedsim): a fleet and a stream of      *)
(* tasks driven through the selector of module Selection, tick by tick,    *)
(* until the horizon.  It has the two switches the scenarios turn: the     *)
(* planned lane with plan-aware preemption, and the replay of the          *)
(* duplicate assignment of issue 400.                                      *)
(*                                                                         *)
(* One unit of time is a minute; what remains of a plan is in seconds, as  *)
(* the selector takes it.  Frames and the KPI report are computed from the *)
(* log at the end and not looked into beyond the seats.                    *)
(***************************************************************************)
EXTENDS Selection

CONSTANTS
  Fleet,      \* the telescopes, in the order of their ids
  Tasks,
  Streams,    \* what may arrive: [Tasks -> [arrive, priority, length, lane, start, req]]
  Configs,    \* [threshold, lanes, cohort, bug]
  Seats,      \* CohortMaxNodes
  Horizon

VARIABLES
  stream, config,    \* the scenario
  now, phase,        \* the clock, and where Run is in its loop
  arrived,           \* tasks the loop has ingested
  sim,               \* nodes, queue, seats, waves and log of the Simulator
  deferred           \* planned tasks waiting for their agenda slot

vars == <<stream, config, now, phase, arrived, sim, deferred>>

Ids == {Fleet[i].id : i \in DOMAIN Fleet}
Dynamic == [status |-> "idle", task |-> Unknown, priority |-> Unknown,
            plan |-> Unknown, until |-> 0]

\* New: every telescope is copied; the clock starts with the first arrival.
New ==
  /\ stream \in Streams /\ config \in Configs
  /\ now = Min({stream[t].arrive : t \in Tasks})
  /\ phase = "promote" /\ arrived = {}
  /\ sim = [nodes |-> [i \in DOMAIN Fleet |-> Dynamic @@ Fleet[i]],
            queue |-> << >>, log |-> << >>,
            seats |-> [t \in Tasks |-> {}], waves |-> [t \in Tasks |-> 0]]
  /\ deferred = [t \in Tasks |-> Unknown]

(***************************************************************************)
(* The queue: the larger priority first, then the earlier; a task is in it *)
(* once.                                                                   *)
(***************************************************************************)
Queued(s, t) == \E i \in DOMAIN s.queue : s.queue[i].task = t
Enqueue(s, t, at) ==
  LET e == [task |-> t, priority |-> stream[t].priority, at |-> at]
      ahead == {i \in DOMAIN s.queue :
                  \/ s.queue[i].priority > e.priority
                  \/ s.queue[i].priority = e.priority /\ s.queue[i].at <= at}
  IN  IF Queued(s, t) THEN s
      ELSE [s EXCEPT !.queue = InsertAt(@, Cardinality(ahead) + 1, e)]

(***************************************************************************)
(* Seats                                                                   *)
(***************************************************************************)
Seat(s, t, i) ==
  LET n == s.nodes[i]
      victim == IF Preempting(n) THEN n.task ELSE Unknown
      begin == Max({n.until, now})
      taken == [n EXCEPT !.status = "busy", !.task = t, !.priority = stream[t].priority,
                         !.until = begin + stream[t].length]
      entry == [task |-> t, node |-> n.id, at |-> now, wave |-> s.waves[t],
                victim |-> victim]
  IN  IF n.id \in s.seats[t] /\ ~config.bug THEN s
      ELSE [s EXCEPT !.nodes[i] = taken, !.log = Append(@, entry),
                     !.seats = [u \in Tasks |->
                        IF u = victim THEN @[u] \ {n.id}
                        ELSE IF u = t THEN @[u] \cup {n.id} ELSE @[u]]]

\* The replayed defect: an assigned task is queued again while some telescope
\* without it is idle.
BugRequeue(s, t) ==
  IF /\ config.bug
     /\ \E i \in DOMAIN s.nodes : /\ s.nodes[i].task = Unknown
                                  /\ s.nodes[i].id \notin s.seats[t]
  THEN Enqueue(s, t, now) ELSE s

ApplyAssignments(s, t, picks) ==
  LET seated[i \in 0 .. Len(Fleet)] ==
        IF i = 0 THEN [s EXCEPT !.waves[t] = @ + 1]
        ELSE IF i \in picks THEN Seat(seated[i - 1], t, i) ELSE seated[i - 1]
  IN  BugRequeue(seated[Len(Fleet)], t)

\* mutant: only a second seat counts as taken
TakenTwice(s, t) == ~config.bug /\ Cardinality(s.seats[t]) > 1
Taken(s, t) == ~config.bug /\ s.seats[t] # {}
\* The evaluations, narrowed to the sites a coverage plan prefers.
Evals(s, t) == FilterPreferred(s.nodes, stream[t].req.preferred, stream[t].req.failOpen)
At == [id \in Ids |-> CHOOSE i \in DOMAIN Fleet : Fleet[i].id = id]
BestOf(evals, t) ==
  LET k == SelectBestNode(evals, stream[t].req, stream[t].priority, config.threshold)
  IN  IF k = 0 THEN {} ELSE {At[evals[k].id]}
Best(s, t) == LET evals == Evals(s, t) IN BestOf(evals, t)
\* A cohort of idle telescopes if the notify path has one, else the best one.
Picks(s, t) ==
  LET evals == Evals(s, t)
      cohorts == IF config.cohort THEN CohortsOf(evals, stream[t].req, Seats) ELSE {}
  IN  IF cohorts = {} THEN {BestOf(evals, t)}
      ELSE {{At[evals[k].id] : k \in c} : c \in cohorts}

\* What tryAssign may make of a task that is queued.
TryAssign(s, t) ==
  IF Taken(s, t) THEN {s}
  ELSE {IF picks = {} THEN s ELSE ApplyAssignments(s, t, picks) : picks \in Picks(s, t)}

(***************************************************************************)
(* The loop of Run                                                         *)
(***************************************************************************)
\* Slots of the planned lane that are due; Go ranges over a map, in any order.
Due == {t \in Tasks : deferred[t] # Unknown /\ deferred[t] <= now}
PromoteDeferred ==
  /\ phase = "promote"
  /\ \/ \E t \in Due :
          /\ deferred' = [deferred EXCEPT ![t] = Unknown]
          /\ sim' \in IF sim.seats[t] # {} \/ Queued(sim, t) THEN {sim}
                      ELSE TryAssign(Enqueue(sim, t, now), t)
          /\ UNCHANGED phase
     \/ Due = {} /\ phase' = "ingest" /\ UNCHANGED <<sim, deferred>>
  /\ UNCHANGED <<stream, config, now, arrived>>

Earlier(t, u) ==
  \/ stream[t].arrive < stream[u].arrive
  \/ stream[t].arrive = stream[u].arrive /\ t < u
Coming == Tasks \ arrived
Arrives == {t \in Coming : stream[t].arrive <= now}
StartOf(t) == IF stream[t].start = Unknown THEN stream[t].arrive + 5 ELSE stream[t].start
IngestArrival(t) ==
  /\ phase = "ingest" /\ t \in Arrives /\ \A u \in Arrives \ {t} : Earlier(t, u)
  /\ arrived' = arrived \cup {t}
  /\ IF config.lanes /\ stream[t].lane = "planned" /\ StartOf(t) > now
     THEN deferred' = [deferred EXCEPT ![t] = StartOf(t)] /\ UNCHANGED sim
     ELSE /\ sim' \in TryAssign(Enqueue(sim, t, stream[t].arrive), t)
          /\ UNCHANGED deferred
  /\ UNCHANGED <<stream, config, now, phase>>

\* releaseFinishedNodes and stampPlanRemaining at a given time.
Release(nodes, at) ==
  [i \in DOMAIN nodes |->
     IF nodes[i].task # Unknown /\ nodes[i].until <= at
     THEN [nodes[i] EXCEPT !.status = "idle", !.task = Unknown, !.priority = Unknown]
     ELSE nodes[i]]
Stamp(nodes, at) ==
  [i \in DOMAIN nodes |->
     [nodes[i] EXCEPT !.plan =
        CASE ~config.lanes -> @
          [] config.lanes /\ nodes[i].task # Unknown /\ nodes[i].until > at ->
               60 * (nodes[i].until - at)
          [] OTHER -> Unknown]]
Settle(s) == [s EXCEPT !.nodes = Stamp(Release(@, now), now)]

Settled ==
  /\ phase = "ingest" /\ Arrives = {}
  /\ sim' = Settle(sim) /\ phase' = "drain"
  /\ UNCHANGED <<stream, config, now, arrived, deferred>>

\* One turn of the drain loop.  A task that finds nobody goes back, and the loop
\* waits for the next event.
Requeue(s, t) == Enqueue(s, t, now)
\* mutant: the loop tries again at once
DrainOnceAgain ==
  LET t == Head(sim.queue).task
      popped == [sim EXCEPT !.queue = Tail(@)]
      best == Best(popped, t)
  IN
  /\ phase = "drain" /\ sim.queue # << >>
  /\ sim' = IF Taken(popped, t) THEN popped
            ELSE IF best = {} THEN Requeue(popped, t)
            ELSE Settle(ApplyAssignments(popped, t, best))
  /\ UNCHANGED <<stream, config, now, phase, arrived, deferred>>
DrainOnce ==
  LET t == Head(sim.queue).task
      popped == [sim EXCEPT !.queue = Tail(@)]
      best == Best(popped, t)
  IN
  /\ phase = "drain" /\ sim.queue # << >>
  /\ \/ Taken(popped, t) /\ sim' = popped /\ UNCHANGED phase
     \/ /\ ~Taken(popped, t) /\ best = {}
        /\ sim' = Requeue(popped, t) /\ phase' = "advance"
     \/ /\ ~Taken(popped, t) /\ best # {}
        /\ sim' = Settle(ApplyAssignments(popped, t, best)) /\ UNCHANGED phase
  /\ UNCHANGED <<stream, config, now, arrived, deferred>>

Drained ==
  /\ phase = "drain" /\ sim.queue = << >> /\ phase' = "advance"
  /\ UNCHANGED <<stream, config, now, arrived, sim, deferred>>

\* nextEvent: an arrival, a telescope that comes free, or an agenda slot.
Events ==
  {x \in {stream[t].arrive : t \in Coming}
         \cup {sim.nodes[i].until : i \in {j \in DOMAIN Fleet : sim.nodes[j].task # Unknown}}
         \cup {deferred[t] : t \in {u \in Tasks : deferred[u] # Unknown}} : x > now}

Advance ==
  /\ phase = "advance"
  /\ IF Events # {} /\ Min(Events) <= Horizon
     THEN now' = Min(Events) /\ phase' = "promote" /\ UNCHANGED sim
     ELSE /\ now' = Horizon /\ phase' = "done"
          /\ sim' = [sim EXCEPT !.nodes = Release(@, Horizon)]
  /\ UNCHANGED <<stream, config, arrived, deferred>>

Run ==
  \/ PromoteDeferred \/ (\E t \in Tasks : IngestArrival(t)) \/ Settled
  \/ DrainOnce \/ Drained \/ Advance
\* Run is a plain loop: WF_vars(Run), with ENABLED <<Run>>_vars written out.
Running == phase # "done"
Spec == New /\ [][Run]_vars /\ ([]<>~Running \/ []<><<Run>>_vars)

-----------------------------------------------------------------------------
\* Without the defect switched on, the seats a task holds were granted in one
\* wave, whatever the queue still holds of it (issue 400); a second wave only
\* follows the loss of every seat of the first.
LastEntry(t, n) ==
  sim.log[Max({k \in DOMAIN sim.log : sim.log[k].task = t /\ sim.log[k].node = n})]
WavesAreOne ==
  ~config.bug =>
    \A t \in Tasks : Cardinality({LastEntry(t, n).wave : n \in sim.seats[t]}) <= 1

\* The drain loop never spins: the run reaches its horizon.
RunEnds == <>(phase = "done")

=============================================================================
