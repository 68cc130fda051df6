----------------------------- MODULE Selection -----------------------------
(***************************************************************************)
(* How the task server chooses telescopes, as functions of what it has     *)
(* read: the gates a telescope has to pass, the ranking of the idle ones,  *)
(* the preemption of a busy one weighed against its remaining plan, the    *)
(* narrowing of the fleet to preferred or standby telescopes, the lane a   *)
(* task takes and the agenda the planner builds.                           *)
(*                                                                         *)
(* Times and scores are naturals of one unit each.  A capability is a      *)
(* level, Unknown when the telescope did not declare it; the conversions   *)
(* of optics into levels (plate scale, predicted PSF, field of view with   *)
(* headroom) are not looked into.                                          *)
(***************************************************************************)
EXTENDS Integers, Sequences, SequencesExt

CONSTANTS
  Unknown,       \* a pointer the code leaves nil; also an unset time
  FailOpen       \* capabilities that only count when they are declared; without
                 \* any other, a request for it is refused

IdleStatuses == {"", "idle", "online"}
BusyStatuses == {"busy", "observing", "uploading"}
DownStatuses == {"offline", "error"}

(***************************************************************************)
(* The gates and the scores                                                *)
(***************************************************************************)
\* A request names the least level it needs of some capabilities.  Sky safety
\* (SkySafety) is one of the fail-closed ones: no site, no evaluation.
Passes(cap, need) ==
  \A f \in DOMAIN need :
     IF cap[f] = Unknown THEN f \in FailOpen ELSE cap[f] >= need[f]
PassesNodeGates(n, req) ==
  /\ n.emulator = req.emulator
  /\ n.status \notin DownStatuses
  /\ req.filters \subseteq n.filters
  /\ Passes(n.cap, req.need)

\* premium telescopes are preferred, community ones held back.
TierScale(tier, x) ==
  CASE tier = "premium" -> (x * 7) \div 10
    [] tier = "community" -> (x * 13) \div 10
    [] OTHER -> x
IdleScore(n) == (TierScale(n.tier, n.startup + n.slew) * (20 - n.reliability)) \div 10
NodeIsIdle(n) == n.status \in IdleStatuses

PlanPreemptCost(remaining) == IF remaining > 0 THEN remaining ELSE 0
EffectiveThreshold(base, remaining) ==
  Max({base, 0}) + (IF remaining > 0 THEN remaining \div 60 ELSE 0)
\* The lower a priority number, the more urgent; a nearby telescope is cheap to
\* turn, so only its plan protects it.
MayPreempt(diff, base, remaining, nearby) ==
  /\ diff > 0
  /\ diff >= IF nearby THEN 1 + (IF remaining > 0 THEN remaining \div 120 ELSE 0)
                       ELSE EffectiveThreshold(base, remaining)

(***************************************************************************)
(* SelectEligibleNodes, SelectCohort, SelectBestNode                       *)
(***************************************************************************)
Eligible(nodes, req) ==
  {i \in DOMAIN nodes : /\ NodeIsIdle(nodes[i]) /\ nodes[i].task = Unknown
                        /\ PassesNodeGates(nodes[i], req)}
Anchors(nodes, eligible) ==
  {i \in eligible : \A j \in eligible : IdleScore(nodes[i]) <= IdleScore(nodes[j])}

\* An anchor and idle telescopes like it, as many as the seats allow; which ones
\* are alike is a distance between vectors of optics, and left open.
CohortsOf(nodes, req, seats) ==
  LET eligible == Eligible(nodes, req)
      anchors == Anchors(nodes, eligible)
  IN  {s \in SUBSET eligible : Cardinality(s) <= seats /\ s \cap anchors # {}}

Plan(n) == IF n.plan = Unknown THEN 0 ELSE n.plan
\* What SelectBestNode makes of one telescope: nothing, or a scored candidate.
Preemptable(n, priority, threshold) ==
  \/ n.priority = Unknown
  \/ /\ n.status \in BusyStatuses
     /\ MayPreempt(n.priority - priority, threshold, Plan(n), n.nearby)
IsCandidate(n, req, priority, threshold) ==
  /\ PassesNodeGates(n, req)
  /\ (NodeIsIdle(n) /\ n.task = Unknown) \/ Preemptable(n, priority, threshold)
Preempting(n) == ~(NodeIsIdle(n) /\ n.task = Unknown) /\ n.priority # Unknown
CandidateScore(n) ==
  CASE ~Preempting(n) -> IdleScore(n)
    [] n.nearby -> n.slew + PlanPreemptCost(Plan(n))
    [] OTHER -> TierScale(n.tier, n.slew + n.startup + PlanPreemptCost(Plan(n)))

\* The index of the choice, 0 for none: the first telescope of the least score.
SelectBestNode(nodes, req, priority, threshold) ==
  LET can == {i \in DOMAIN nodes : IsCandidate(nodes[i], req, priority, threshold)}
      least == {i \in can : \A j \in can : CandidateScore(nodes[i]) <= CandidateScore(nodes[j])}
  IN  IF can = {} THEN 0 ELSE Min(least)

(***************************************************************************)
(* Narrowing the fleet                                                     *)
(***************************************************************************)
\* Sites of a coverage plan: soft mode falls back on the whole fleet.
FilterPreferred(nodes, preferred, failOpen) ==
  LET hits == SelectSeq(nodes, LAMBDA n : n.id \in preferred)
  IN  IF preferred = {} \/ (hits = << >> /\ failOpen) THEN nodes ELSE hits

\* The standby roster of an alert class, in roster order; never blocks a ToO.
PreferRoster(nodes, roster) ==
  LET known == SelectSeq(roster, LAMBDA id : \E i \in DOMAIN nodes : nodes[i].id = id)
      Node(id) == nodes[CHOOSE i \in DOMAIN nodes : nodes[i].id = id]
  IN  IF known = << >> THEN nodes ELSE [k \in DOMAIN known |-> Node(known[k])]

\* RankStandby, BuildStandbyFromEligible: the best few by score, then by id.
RankStandby(nodes, scored, limit) ==
  LET before(a, b) == \/ IdleScore(nodes[a]) < IdleScore(nodes[b])
                      \/ IdleScore(nodes[a]) = IdleScore(nodes[b]) /\ a < b
      all == SetToSortSeq(scored, before)
      best == IF limit > 0 /\ Len(all) > limit THEN SubSeq(all, 1, limit) ELSE all
  IN  [k \in DOMAIN best |-> nodes[best[k]].id]

(***************************************************************************)
(* Lanes and the planner's agenda                                          *)
(***************************************************************************)
ClassifyLane(season) ==
  IF /\ ~season.emergency
     /\ season.kind \in {"continuous", "sparse"}
     /\ season.urgency \notin {"elevated", "critical"}
  THEN "planned" ELSE "interrupt"
AlertClass(season) ==
  CASE season.kind = "too" -> "too"
    [] season.kind # "too" /\ season.urgency \in {"critical", "elevated"} -> season.urgency
    [] OTHER -> "default"

WindowStart(t, now) == IF t.from = Unknown THEN now ELSE t.from
WindowEnd(t, now, horizon) ==
  IF t.to = Unknown \/ t.to <= WindowStart(t, now)
  THEN WindowStart(t, now) + horizon ELSE t.to
Cadence(t) == IF t.cadence > 0 THEN t.cadence ELSE Max({t.length, 1})
\* The k-th of some places.
Nth(places, k) == CHOOSE i \in places : Cardinality({j \in places : j < i}) = k - 1
Sites(t, nodes) ==
  LET liked == {i \in DOMAIN nodes : nodes[i] \in t.preferred}
  IN  IF liked = {} THEN nodes ELSE [k \in 1 .. Cardinality(liked) |-> nodes[Nth(liked, k)]]
EarliestOn(n, t, free, now) == Max({free[n], WindowStart(t, now), now})

\* The telescope that is free first, the round robin deciding between equals.
Slot(t, nodes, free, turn, now, horizon) ==
  LET sites == Sites(t, nodes)
      At(i) == sites[((turn + i) % Len(sites)) + 1]
      Begins(i) == EarliestOn(At(i), t, free, now)
      fits == {i \in 0 .. Len(sites) - 1 :
                 Begins(i) + t.length <= WindowEnd(t, now, horizon)}
      first == {i \in fits : \A j \in fits : Begins(i) <= Begins(j)}
  IN  IF fits = {} THEN << >>
      ELSE <<[task |-> t.id, node |-> At(Min(first)), start |-> Begins(Min(first)),
              end |-> Begins(Min(first)) + t.length]>>

MoreUrgent(a, b) == a.priority < b.priority \/ (a.priority = b.priority /\ a.id < b.id)
ByUrgency(tasks) ==
  [k \in 1 .. Cardinality(tasks) |->
     CHOOSE t \in tasks : Cardinality({u \in tasks : MoreUrgent(u, t)}) = k - 1]

\* mutant: the telescope is free again when its slot ends
AfterSlotNoCadence(plan, t, s) ==
  [slots |-> Append(plan.slots, s),
   free |-> [plan.free EXCEPT ![s.node] = s.end],
   turn |-> plan.turn + 1]
\* Where the planner is after a slot: the telescope is kept for the cadence too.
AfterSlot(plan, t, s) ==
  [slots |-> Append(plan.slots, s),
   free |-> [plan.free EXCEPT ![s.node] = s.end + Cadence(t)],
   turn |-> plan.turn + 1]

\* A task whose window is past, or that fits nowhere, is left out.
Place(plan, t, nodes, now, horizon) ==
  LET slot == Slot(t, nodes, plan.free, plan.turn, now, horizon)
  IN  IF WindowEnd(t, now, horizon) < now \/ slot = << >> THEN plan
      ELSE AfterSlot(plan, t, slot[1])
BuildAgenda(tasks, nodes, now, horizon) ==
  LET sorted == ByUrgency(tasks)
      plan[k \in 0 .. Cardinality(tasks)] ==
        IF k = 0 THEN [slots |-> << >>, free |-> [n \in ToSet(nodes) |-> now], turn |-> 0]
        ELSE Place(plan[k - 1], sorted[k], nodes, now, horizon)
  IN  IF nodes = << >> THEN << >> ELSE plan[Cardinality(tasks)].slots

\* The preemption cost of a telescope with an agenda: what is left of the slot
\* it is in, else the longest slot to come.
RemainingOf(s, now) ==
  CASE now < s.start -> s.end - s.start
    [] now \in s.start .. s.end - 1 -> s.end - now
    [] OTHER -> 0
ActiveRemaining(slots, now) ==
  LET current == {k \in DOMAIN slots : now \in slots[k].start .. slots[k].end - 1}
  IN  IF current # {} THEN RemainingOf(slots[Min(current)], now)
      ELSE Max({0} \cup {RemainingOf(slots[k], now) : k \in DOMAIN slots})

=============================================================================
