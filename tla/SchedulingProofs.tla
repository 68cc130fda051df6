------------------------- MODULE SchedulingProofs ---------------------------
(***************************************************************************)
(* The algorithms of the task server for every input: how the urgency of a *)
(* handoff moves, where a telescope may point that passes the safety check, *)
(* for which moment the loss of a target is announced, what an agenda of   *)
(* any backlog looks like, which waves the simulator seats, what a         *)
(* published pack names and what a coverage plan keeps.                    *)
(***************************************************************************)
EXTENDS MCScheduling, FiniteSetTheorems, WellFoundedInduction, TLAPS

(***************************************************************************)
(* The urgency of a handoff: it never falls by itself, a telescope that    *)
(* loses sight of its target only adds to it, and an emergency is answered *)
(* at once by the assignment, the status and the broadcast alike.          *)
(***************************************************************************)
TaskType == [id : Nat, schedEnd : Int \cup {Unset}, userEnd : Int \cup {Unset},
             lead : Int \cup {Unset}, emergency : BOOLEAN, coverage : BOOLEAN,
             status : STRING]

(* The order the code means the urgencies to have.                         *)
AsUrgent(u, v) == Boosts[u] >= Boosts[v]
\* A more urgent telescope asks at least as often.
PollsFollowUrgency ==
    \A u, v \in Urgencies : AsUrgent(u, v) => PollSeconds[u] <= PollSeconds[v]

LEMMA UrgencyCases ==
    ASSUME NEW task \in TaskType, NEW when \in Int
    PROVE  \/ task.emergency /\ UrgencyForTask(task, when) = "emergency"
           \/ ~task.emergency /\ UserWindow(task, when) /\ UrgencyForTask(task, when) = "user"
           \/ /\ ~task.emergency /\ ~UserWindow(task, when)
              /\ PlannedWindow(task, when) \/ task.coverage
              /\ UrgencyForTask(task, when) = "planned"
           \/ /\ ~task.emergency /\ ~UserWindow(task, when)
              /\ ~PlannedWindow(task, when) /\ ~task.coverage
              /\ UrgencyForTask(task, when) = "none"
<1>1. task.emergency \in BOOLEAN /\ task.coverage \in BOOLEAN
  BY DEF TaskType
<1>2. UserWindow(task, when) \in BOOLEAN /\ PlannedWindow(task, when) \in BOOLEAN
  BY DEF UserWindow, PlannedWindow
<1>3. CASE task.emergency
  BY <1>3 DEF UrgencyForTask
<1>4. CASE ~task.emergency /\ UserWindow(task, when)
  BY <1>4 DEF UrgencyForTask
<1>5. CASE /\ ~task.emergency /\ ~UserWindow(task, when)
           /\ PlannedWindow(task, when) \/ task.coverage
  BY <1>5 DEF UrgencyForTask
<1>6. CASE ~task.emergency /\ ~UserWindow(task, when) /\ ~PlannedWindow(task, when) /\ ~task.coverage
  BY <1>6 DEF UrgencyForTask
<1> QED
  BY <1>1, <1>2, <1>3, <1>4, <1>5, <1>6

LEMMA BoostValues ==
    /\ Boosts["emergency"] = 100 /\ Boosts["user"] = 50 /\ Boosts["obstruction"] = 40
    /\ Boosts["planned"] = 20 /\ Boosts["none"] = 0
BY DEF Boosts

(* The windows of a task open once, and stay open.                         *)
LEMMA WindowsStayOpen ==
    ASSUME NEW task \in TaskType, NEW when \in Int, NEW later \in Int, when <= later
    PROVE  /\ UserWindow(task, when) => UserWindow(task, later)
           /\ PlannedWindow(task, when) => PlannedWindow(task, later)
<1>1. effectiveHandoffLeadSeconds(task) \in Int
  BY LeadAssumption DEF TaskType, effectiveHandoffLeadSeconds
<1>2. UserWindow(task, when) => UserWindow(task, later)
  BY LeadAssumption DEF TaskType, UserWindow
<1>3. PlannedWindow(task, when) => PlannedWindow(task, later)
  BY <1>1 DEF TaskType, PlannedWindow
<1> QED
  BY <1>2, <1>3

(* Whoever is being looked for is urgent: the last branch of               *)
(* EffectiveAssignPriority, a boost for a task in the search window        *)
(* without an urgency, is never taken.                                     *)
THEOREM SearchIsUrgent ==
    ASSUME NEW task \in TaskType, NEW when \in Int
    PROVE  /\ TaskInHandoffSearchWindow(task, when) => UrgencyForTask(task, when) # "none"
           /\ Boost(task, when) = Boosts[UrgencyForTask(task, when)]
<1>1. TaskInHandoffSearchWindow(task, when) => UrgencyForTask(task, when) # "none"
  BY UrgencyCases DEF TaskInHandoffSearchWindow
<1> QED
  BY <1>1 DEF Boost

(* As time passes a task only becomes more urgent, its priority number     *)
(* only falls, and a search or a broadcast that is on stays on             *)
(* (UrgencyForTask, EffectiveAssignPriority, AnyHandoffBroadcastActive).   *)
THEOREM UrgencyNeverFalls ==
    ASSUME NEW task \in TaskType, NEW base \in Int,
           NEW when \in Int, NEW later \in Int, when <= later
    PROVE  /\ AsUrgent(UrgencyForTask(task, later), UrgencyForTask(task, when))
           /\ TaskInHandoffSearchWindow(task, when) => TaskInHandoffSearchWindow(task, later)
           /\ EffectiveAssignPriority(base, task, later) <= EffectiveAssignPriority(base, task, when)
<1>1. /\ UserWindow(task, when) => UserWindow(task, later)
      /\ PlannedWindow(task, when) => PlannedWindow(task, later)
  BY WindowsStayOpen
<1>2. AsUrgent(UrgencyForTask(task, later), UrgencyForTask(task, when))
  <2>1. CASE task.emergency
    BY <2>1, UrgencyCases, BoostValues DEF AsUrgent
  <2>2. CASE ~task.emergency
    BY <1>1, <2>2, UrgencyCases, BoostValues DEF AsUrgent
  <2> QED
    BY <2>1, <2>2
<1>3. TaskInHandoffSearchWindow(task, when) => TaskInHandoffSearchWindow(task, later)
  BY <1>1 DEF TaskInHandoffSearchWindow
<1>4. Boost(task, later) >= Boost(task, when) /\ Boost(task, when) \in Int /\ Boost(task, later) \in Int
  BY <1>2, SearchIsUrgent, UrgencyCases, BoostValues DEF AsUrgent
<1>5. EffectiveAssignPriority(base, task, later) <= EffectiveAssignPriority(base, task, when)
  BY <1>4 DEF EffectiveAssignPriority
<1> QED
  BY <1>2, <1>3, <1>5

(* What a telescope sees can only make the task it holds more urgent than  *)
(* the task is for all, and makes the telescope ask no less often          *)
(* (CombinedUrgency, BuildHandoffStatusPayload).                           *)
THEOREM SightOnlyAdds ==
    ASSUME NEW task \in TaskType, NEW when \in Int, NEW path, NEW minAlt, NEW site, NEW live,
           PollsFollowUrgency
    PROVE  LET status == BuildHandoffStatusPayload(task, when, path, minAlt, site, live)
           IN  /\ AsUrgent(status.urgency, UrgencyForTask(task, when))
               /\ status.poll <= RecommendedPollSeconds(UrgencyForTask(task, when))
<1> DEFINE eta == SecondsUntilObstructionLoss(task, path, minAlt, site, live)
           base == UrgencyForTask(task, when)
           u == CombinedUrgency(task, when, eta)
<1>1. base \in {"emergency", "user", "planned", "none"}
  BY UrgencyCases
<1>2. u \in {base, "obstruction"} /\ (base \in {"emergency", "user"} => u = base)
  BY DEF CombinedUrgency
<1>3. u \in Urgencies /\ base \in Urgencies /\ AsUrgent(u, base)
  BY <1>1, <1>2, BoostValues DEF AsUrgent, Urgencies
<1>4. /\ BuildHandoffStatusPayload(task, when, path, minAlt, site, live).urgency = u
      /\ BuildHandoffStatusPayload(task, when, path, minAlt, site, live).poll = PollSeconds[u]
  BY DEF BuildHandoffStatusPayload, RecommendedPollSeconds
<1> HIDE DEF u, base
<1>5. PollSeconds[u] <= PollSeconds[base]
  BY <1>3 DEF PollsFollowUrgency
<1> QED
  BY <1>3, <1>4, <1>5 DEF RecommendedPollSeconds, base

(* A permitted request for an emergency handoff of a task somebody waits   *)
(* for is seen by all who may take it: from then on, whatever the owner    *)
(* changes but the request itself, the task is at the top, every status    *)
(* says so, and the broadcast is on (HandleEmergencyHandoff,               *)
(* HandleUpdateTaskHandoff, HandleHandoffBroadcast).                       *)
THEOREM EmergencyIsHeard ==
    ASSUME NEW task \in TaskType, NEW body, ~body.clearEmergency, NEW permitted \in BOOLEAN,
           NEW when \in Int, NEW base \in Int, NEW tasks,
           task.status \in LiveStatuses,
           HandleUpdateTaskHandoff(HandleEmergencyHandoff(task, TRUE), body, permitted) \in tasks
    PROVE  LET t == HandleUpdateTaskHandoff(HandleEmergencyHandoff(task, TRUE), body, permitted)
           IN  /\ UrgencyForTask(t, when) = "emergency"
               /\ EffectiveAssignPriority(base, t, when) <= 1
                  \/ EffectiveAssignPriority(base, t, when) = base - 100
               /\ HandleHandoffBroadcast(tasks, when).active
<1> DEFINE e == HandleEmergencyHandoff(task, TRUE)
           t == HandleUpdateTaskHandoff(e, body, permitted)
<1>1. e = [task EXCEPT !.emergency = TRUE]
  BY DEF HandleEmergencyHandoff
<1>2. e = [id |-> task.id, schedEnd |-> task.schedEnd, userEnd |-> task.userEnd, lead |-> task.lead,
           emergency |-> TRUE, coverage |-> task.coverage, status |-> task.status]
  BY <1>1 DEF TaskType
<1> HIDE DEF e
<1>3. \E schedEnd, userEnd, lead :
         t = [id |-> task.id, schedEnd |-> schedEnd, userEnd |-> userEnd, lead |-> lead,
              emergency |-> TRUE, coverage |-> task.coverage, status |-> task.status]
  <2>1. CASE ~permitted
    BY <1>2, <2>1 DEF HandleUpdateTaskHandoff
  <2>2. CASE permitted
    BY <1>2, <2>2 DEF HandleUpdateTaskHandoff
  <2> QED
    BY <2>1, <2>2
<1>4. t \in tasks
  BY DEF e
<1> HIDE DEF t
<1>5. UrgencyForTask(t, when) = "emergency"
  BY <1>3 DEF UrgencyForTask
<1>6. EffectiveAssignPriority(base, t, when) <= 1 \/ EffectiveAssignPriority(base, t, when) = base - 100
  BY <1>5, BoostValues DEF EffectiveAssignPriority, Boost
<1>7. HandleHandoffBroadcast(tasks, when).active
  <2> DEFINE read == {toSharedHandoffTask(x) : x \in tasks}
             r == toSharedHandoffTask(t)
  <2>1. r \in read
    BY <1>4
  <2>2. r.emergency = TRUE /\ r.status \in LiveStatuses
    BY <1>3 DEF toSharedHandoffTask
  <2> HIDE DEF r
  <2>3. r \in Broadcasting(read, when)
    BY <2>1, <2>2 DEF Broadcasting, TaskInHandoffSearchWindow
  <2> QED
    BY <2>3 DEF HandleHandoffBroadcast, AnyHandoffBroadcastActive
<1> QED
  BY <1>5, <1>6, <1>7 DEF t, e

-----------------------------------------------------------------------------
\* Induction over the natural numbers, without an operator as a parameter.
LEMMA LeastElement ==
    ASSUME NEW T \in SUBSET Nat, T # {}
    PROVE  \E n \in T : \A m \in T : n <= m
<1>1. PICK n \in T : \A m \in T : ~(<<m, n>> \in OpToRel(<, Nat))
  BY NatLessThanWellFounded, WFMin
<1>2. \A m \in T : ~(m < n)
  BY <1>1 DEF OpToRel
<1>3. QED
  BY <1>2

LEMMA NatInduct ==
    ASSUME NEW P \in SUBSET Nat, 0 \in P, \A n \in P : n + 1 \in P
    PROVE  P = Nat
<1> SUFFICES ASSUME Nat \ P # {} PROVE FALSE
  OBVIOUS
<1>1. PICK n \in Nat \ P : \A m \in Nat \ P : n <= m
  BY LeastElement
<1>2. n \in Nat /\ n # 0 /\ n \notin P
  OBVIOUS
<1>3. n - 1 \in Nat /\ n - 1 < n /\ (n - 1) + 1 = n
  BY <1>2
<1>4. n - 1 \in P
  BY <1>1, <1>3
<1>5. QED
  BY <1>2, <1>3, <1>4


-----------------------------------------------------------------------------
(***************************************************************************)
(* Where a telescope may point                                             *)
(***************************************************************************)
Azimuths == 0 .. Turn - 1
Places == [alt : Int, az : Azimuths]

(* A rectangle that does not reach across north.                           *)
Rectangular(r) ==
    /\ r.low \in Int /\ r.high \in Int /\ r.low < r.high
    /\ r.from \in Azimuths /\ r.to \in Azimuths /\ r.from < r.to
Bounds(limits) ==
    /\ limits.azMin \in (0 .. Turn) \cup {Unset} /\ limits.azMax \in (0 .. Turn) \cup {Unset}
(* The points of a horizon, in the order of their azimuths.                *)
Profile(h) ==
    h \in Seq(Places) /\ \A i, j \in DOMAIN h : i < j => h[i].az < h[j].az

LEMMA ModWithin ==
    ASSUME NEW b \in Nat, b > 0, NEW a \in 0 .. b - 1
    PROVE  a % b = a
OBVIOUS

LEMMA ModRange ==
    ASSUME NEW b \in Nat, b > 0, NEW a \in Int
    PROVE  a % b \in 0 .. b - 1
OBVIOUS

LEMMA ModWraps ==
    ASSUME NEW b \in Nat, b > 0, NEW a \in Int
    PROVE  /\ -b <= a /\ a < 0 => a % b = a + b
           /\ b <= a /\ a < 2 * b => a % b = a - b
OBVIOUS

LEMMA TurnIsPositive == Turn \in Nat /\ Turn > 0
BY TurnAssumption

LEMMA Plainly ==
    ASSUME NEW az \in Azimuths
    PROVE  az \in Nat /\ az < Turn /\ GoMod(az, Turn) = az /\ normalizeAzimuth(az) = az
<1>1. az \in Nat /\ az < Turn /\ az \in 0 .. Turn - 1 /\ az >= 0
  BY TurnIsPositive DEF Azimuths
<1>2. az % Turn = az
  BY <1>1, TurnIsPositive, ModWithin
<1>3. GoMod(az, Turn) = az
  BY <1>1, <1>2 DEF GoMod
<1>4. QED
  BY <1>1, <1>3 DEF normalizeAzimuth

(* A position the mount's limits allow is in the arc from the lower bound  *)
(* to the higher.                                                          *)
LEMMA LimitsAreAnArc ==
    ASSUME Unset \notin Int, NEW limits, Bounds(limits), limits # Unset,
           NEW alt, NEW az \in Azimuths, ValidateMountLimits(alt, az, limits)
    PROVE  WithinArc(az, limits)
<1> DEFINE lo == Coalesce(limits.azMin, 0)
           hi == Coalesce(limits.azMax, Turn)
<1>1. lo \in 0 .. Turn /\ hi \in 0 .. Turn /\ 0 \in Int
  BY TurnIsPositive DEF Bounds, Coalesce
<1>2. normalizeAzimuth(az) = az /\ az \in 0 .. Turn - 1
  BY Plainly DEF Azimuths
<1>3. \A x \in 0 .. Turn : normalizeAzimuthBound(x) = x
  <2> SUFFICES ASSUME NEW x \in 0 .. Turn PROVE normalizeAzimuthBound(x) = x
    OBVIOUS
  <2>1. CASE x = Turn
    BY <2>1 DEF normalizeAzimuthBound
  <2>2. CASE x # Turn
    <3>1. x \in Azimuths
      BY <2>2, TurnIsPositive DEF Azimuths
    <3>2. QED
      BY <2>2, <3>1, Plainly DEF normalizeAzimuthBound
  <2>3. QED
    BY <2>1, <2>2
<1>4. hi - lo < Turn => IF lo <= hi THEN az >= lo /\ az <= hi ELSE ~(az > hi /\ az < lo)
  <2> DEFINE min == limits.azMin
             max == limits.azMax
  <2>0. /\ min # Unset /\ max # Unset =>
              \/ max - min >= Turn
              \/ InAzimuth(az, normalizeAzimuthBound(min), normalizeAzimuthBound(max))
        /\ min # Unset /\ max = Unset => az >= normalizeAzimuthBound(min)
        /\ min = Unset /\ max # Unset => az <= normalizeAzimuthBound(max)
    BY <1>2 DEF ValidateMountLimits
  <2>1. CASE min # Unset /\ max # Unset
    <3>1. lo = min /\ hi = max /\ min \in 0 .. Turn /\ max \in 0 .. Turn
      BY <2>1 DEF Coalesce, Bounds
    <3>2. max - min >= Turn \/ InAzimuth(az, min, max)
      BY <2>0, <2>1, <3>1, <1>3
    <3>3. QED
      BY <1>2, <3>1, <3>2, TurnIsPositive DEF InAzimuth
  <2>2. CASE min # Unset /\ max = Unset
    <3>1. lo = min /\ hi = Turn /\ min \in 0 .. Turn
      BY <2>2 DEF Coalesce, Bounds
    <3>2. az >= min
      BY <2>0, <2>2, <3>1, <1>3
    <3>3. QED
      BY <1>2, <3>1, <3>2, TurnIsPositive
  <2>3. CASE min = Unset /\ max # Unset
    <3>1. lo = 0 /\ hi = max /\ max \in 0 .. Turn
      BY <2>3 DEF Coalesce, Bounds
    <3>2. az <= max
      BY <2>0, <2>3, <3>1, <1>3
    <3>3. QED
      BY <1>2, <3>1, <3>2, TurnIsPositive
  <2>4. CASE min = Unset /\ max = Unset
    <3>1. lo = 0 /\ hi = Turn
      BY <2>4 DEF Coalesce
    <3>2. QED
      BY <3>1, TurnIsPositive
  <2>5. QED
    BY <2>1, <2>2, <2>3, <2>4
<1>5. hi - lo < Turn => (az - lo) % Turn <= (hi - lo) % Turn
  <2> HIDE DEF lo, hi
  <2> SUFFICES ASSUME hi - lo < Turn PROVE (az - lo) % Turn <= (hi - lo) % Turn
    OBVIOUS
  <2>1. az \in Int /\ lo \in Int /\ hi \in Int /\ az - lo \in Int /\ hi - lo \in Int
    BY <1>1, <1>2, TurnIsPositive
  <2>2. CASE lo <= hi
    <3>1. az - lo \in 0 .. Turn - 1 /\ hi - lo \in 0 .. Turn - 1 /\ az - lo <= hi - lo
      BY <1>1, <1>2, <1>4, <2>2, TurnIsPositive
    <3>2. QED
      BY <3>1, TurnIsPositive, ModWithin
  <2>3. CASE lo > hi
    <3>1. -Turn <= hi - lo /\ hi - lo < 0
      BY <1>1, <2>3, TurnIsPositive
    <3>2. (hi - lo) % Turn = hi - lo + Turn
      BY <2>1, <3>1, TurnIsPositive, ModWraps
    <3>3. CASE az >= lo
      <4>1. az - lo \in 0 .. Turn - 1 /\ az - lo <= hi - lo + Turn
        BY <1>1, <1>2, <3>3, TurnIsPositive
      <4>2. QED
        BY <3>2, <4>1, TurnIsPositive, ModWithin
    <3>4. CASE az < lo
      <4>1. az <= hi
        BY <1>1, <1>2, <1>4, <2>3, <3>4
      <4>2. -Turn <= az - lo /\ az - lo < 0 /\ az - lo + Turn <= hi - lo + Turn
        BY <1>1, <1>2, <3>4, <4>1, TurnIsPositive
      <4>3. (az - lo) % Turn = az - lo + Turn
        BY <2>1, <4>2, TurnIsPositive, ModWraps
      <4>4. QED
        BY <3>2, <4>2, <4>3
    <3>5. QED
      BY <2>1, <3>3, <3>4
  <2>4. QED
    BY <2>1, <2>2, <2>3
<1>6. QED
  BY <1>5 DEF WithinArc

(* Of a rectangle's edges only the second upright one is to the east of a  *)
(* point inside.                                                           *)
LEMMA OneEdgeIsMet ==
    ASSUME NEW x \in Int, NEW y \in Int, NEW v,
           NEW f \in Int, NEW t \in Int, NEW l \in Int, NEW h \in Int,
           f < x, x < t, l < y, y < h,
           v = <<[x |-> f, y |-> l], [x |-> t, y |-> l], [x |-> t, y |-> h], [x |-> f, y |-> h]>>
    PROVE  PointInPolygon(x, y, v)
<1>1. Len(v) = 4 /\ 1 .. 4 = {1, 2, 3, 4}
  OBVIOUS
<1>2. /\ v[1] = [x |-> f, y |-> l] /\ v[2] = [x |-> t, y |-> l]
      /\ v[3] = [x |-> t, y |-> h] /\ v[4] = [x |-> f, y |-> h]
  OBVIOUS
<1>3. ~Meets(x, y, v[1], v[4])
  <2>1. (f - f) * (y - l) = 0 /\ h - l > 0 /\ x - f > 0
    OBVIOUS
  <2>2. (x - f) * (h - l) > 0
    BY <2>1
  <2>3. QED
    BY <1>2, <2>1, <2>2 DEF Meets
<1>4. ~Meets(x, y, v[2], v[1])
  BY <1>2 DEF Meets
<1>5. Meets(x, y, v[3], v[2])
  <2>1. (t - t) * (y - h) = 0 /\ l - h < 0 /\ x - t < 0 /\ ~(l - h > 0)
    OBVIOUS
  <2>2. (x - t) * (l - h) > 0
    BY <2>1
  <2>3. QED
    BY <1>2, <2>1, <2>2 DEF Meets
<1>6. ~Meets(x, y, v[4], v[3])
  BY <1>2 DEF Meets
<1>7. {i \in 1 .. Len(v) : Meets(x, y, v[i], v[IF i = 1 THEN Len(v) ELSE i - 1])} = {3}
  BY <1>1, <1>3, <1>4, <1>5, <1>6
<1>8. Cardinality({3}) = 1 /\ 1 % 2 = 1
  <2>1. Cardinality({3}) = 1
    BY FS_Singleton
  <2>2. QED
    BY <2>1
<1>9. QED
  BY <1>1, <1>7, <1>8 DEF PointInPolygon

LEMMA Scales ==
    ASSUME NEW n \in Nat, n > 0, NEW a \in Int, NEW b \in Int
    PROVE  /\ n * a \in Int /\ n * b \in Int
           /\ a < b => n * a < n * b
           /\ a >= 0 => n * a >= 0
           /\ n * a + n = n * (a + 1)
OBVIOUS

LEMMA InsideIsForbidden ==
    ASSUME NEW n \in Nat, n > 0, NEW r, Rectangular(r), NEW alt \in Int, NEW az \in Int,
           Inside(r, alt, az, n), NEW mask, Polygon(r) \in mask
    PROVE  PointInForbidden(alt, az, mask, n)
<1> DEFINE Corner(p) == [x |-> n * GoMod(p.az, Turn), y |-> n * p.alt]
           poly == Polygon(r)
           v == [i \in DOMAIN poly |-> Corner(poly[i])]
<1>1. /\ r.from \in Azimuths /\ r.to \in Azimuths /\ r.low \in Int /\ r.high \in Int
      /\ r.from \in Int /\ r.to \in Int /\ r.from >= 0 /\ r.to < Turn
      /\ GoMod(r.from, Turn) = r.from /\ GoMod(r.to, Turn) = r.to
  BY Plainly DEF Rectangular
<1>2. v = <<[x |-> n * r.from, y |-> n * r.low], [x |-> n * r.to, y |-> n * r.low],
            [x |-> n * r.to, y |-> n * r.high], [x |-> n * r.from, y |-> n * r.high]>>
  <2>1. DOMAIN poly = {1, 2, 3, 4} /\ DOMAIN poly = 1 .. 4
    BY DEF Polygon
  <2>2. /\ poly[1] = [alt |-> r.low, az |-> r.from] /\ poly[2] = [alt |-> r.low, az |-> r.to]
        /\ poly[3] = [alt |-> r.high, az |-> r.to] /\ poly[4] = [alt |-> r.high, az |-> r.from]
    BY DEF Polygon
  <2>3. /\ v[1] = [x |-> n * r.from, y |-> n * r.low] /\ v[2] = [x |-> n * r.to, y |-> n * r.low]
        /\ v[3] = [x |-> n * r.to, y |-> n * r.high] /\ v[4] = [x |-> n * r.from, y |-> n * r.high]
    BY <1>1, <2>1, <2>2
  <2>4. v = [i \in 1 .. 4 |-> v[i]]
    BY <2>1
  <2>5. QED
    BY <2>3, <2>4
<1>3. /\ n * r.from < az /\ az < n * r.to /\ n * r.low < alt /\ alt < n * r.high
      /\ n * r.from \in Int /\ n * r.to \in Int /\ n * r.low \in Int /\ n * r.high \in Int
      /\ n * r.from >= 0 /\ n * r.to < n * Turn /\ n * Turn \in Int
  BY <1>1, Scales, TurnIsPositive DEF Inside
<1>4. GoMod(az, n * Turn) = az
  <2>1. az \in 0 .. (n * Turn) - 1 /\ n * Turn \in Nat /\ n * Turn > 0
    BY <1>3
  <2>2. az % (n * Turn) = az
    BY <2>1, ModWithin
  <2>3. QED
    BY <2>1, <2>2 DEF GoMod
<1>5. PointInPolygon(az, alt, v)
  <2> HIDE DEF v
  <2> QED
    BY <1>2, <1>3, OneEdgeIsMet
<1>6. QED
  BY <1>4, <1>5 DEF PointInForbidden

(***************************************************************************)
(* The horizon at the azimuth of one of its points is that point.          *)
(***************************************************************************)
NextPoint(h, i) == IF i = Len(h) THEN 1 ELSE i + 1

LEMMA PointsGoRound ==
    ASSUME NEW n \in Nat, NEW i \in 1 .. n
    PROVE  (i % n) + 1 = IF i = n THEN 1 ELSE i + 1
<1>1. CASE i = n
  <2>1. i % n = i - n
    BY <1>1, ModWraps
  <2>2. QED
    BY <1>1, <2>1
<1>2. CASE i < n
  <2>1. i % n = i
    BY <1>2, ModWithin
  <2>2. QED
    BY <1>2, <2>1
<1>3. QED
  BY <1>1, <1>2

(* What the altitude of the horizon is taken from: the point on the side   *)
(* before az and the next, and how far az is from one to the other.        *)
OnSide(h, az, i) ==
    LET a == h[i].az
        b == h[NextPoint(h, i)].az
    IN  IF a <= b THEN az >= a /\ az <= b ELSE az >= a \/ az <= b
AlongSide(h, az, i) ==
    LET p == h[i]
        q == h[NextPoint(h, i)]
    IN  IF p.az <= q.az THEN Between(p, q, az - p.az, q.az - p.az)
        ELSE Between(p, q, IF az <= q.az THEN Turn - p.az + az ELSE az - p.az, Turn - p.az + q.az)

LEMMA HorizonIsAlongASide ==
    ASSUME NEW h, Profile(h), Len(h) > 1, NEW az \in Azimuths, NEW k \in DOMAIN h, OnSide(h, az, k)
    PROVE  \E i \in DOMAIN h : OnSide(h, az, i) /\ HorizonAltAt(az, h) = AlongSide(h, az, i)
<1> DEFINE m == GoMod(az, Turn)
           From(i) == GoMod(h[i].az, Turn)
           After(i) == (i % Len(h)) + 1
           To(i) == From(After(i))
           Holds(i) == IF From(i) <= To(i) THEN m >= From(i) /\ m <= To(i)
                       ELSE m >= From(i) \/ m <= To(i)
           Along(i) ==
             CASE From(i) <= To(i) ->
                    Between(h[i], h[After(i)], m - From(i), To(i) - From(i))
               [] From(i) > To(i) ->
                    Between(h[i], h[After(i)],
                            IF m <= To(i) THEN Turn - From(i) + m ELSE m - From(i),
                            Turn - From(i) + To(i))
           sides == {i \in DOMAIN h : Holds(i)}
<1>1. /\ Len(h) \in Nat /\ DOMAIN h = 1 .. Len(h)
      /\ \A i \in DOMAIN h : h[i].az \in Azimuths /\ h[i].az \in Int
  <2>1. h \in Seq(Places)
    BY DEF Profile
  <2>2. \A i \in DOMAIN h : h[i] \in Places
    BY <2>1
  <2>3. QED
    BY <2>1, <2>2, Plainly DEF Places
<1>2. m = az /\ az \in Int /\ \A i \in DOMAIN h : From(i) = h[i].az
  BY <1>1, Plainly
<1>3. \A i \in DOMAIN h : After(i) = NextPoint(h, i) /\ After(i) \in DOMAIN h
  <2> SUFFICES ASSUME NEW i \in DOMAIN h
               PROVE  After(i) = NextPoint(h, i) /\ NextPoint(h, i) \in DOMAIN h
    OBVIOUS
  <2>1. After(i) = IF i = Len(h) THEN 1 ELSE i + 1
    BY <1>1, PointsGoRound
  <2>2. QED
    BY <1>1, <2>1 DEF NextPoint
<1>4. HorizonAltAt(az, h) =
        CASE h = << >> -> Whole(-(Turn \div 4))
          [] Len(h) = 1 \/ (h # << >> /\ sides = {}) -> Whole(h[1].alt)
          [] OTHER -> Along(CHOOSE i \in sides : \A j \in sides : i <= j)
  BY DEF HorizonAltAt
<1> HIDE DEF m, From, After
<1>5. \A i \in DOMAIN h : To(i) = h[NextPoint(h, i)].az
  BY <1>2, <1>3
<1>6. \A i \in DOMAIN h : Holds(i) <=> OnSide(h, az, i)
  <2> HIDE DEF To
  <2> QED
    BY <1>2, <1>5 DEF OnSide
<1>7. \A i \in DOMAIN h : Along(i) = AlongSide(h, az, i)
  <2> HIDE DEF To
  <2> SUFFICES ASSUME NEW i \in DOMAIN h PROVE Along(i) = AlongSide(h, az, i)
    OBVIOUS
  <2>1. From(i) = h[i].az /\ To(i) = h[NextPoint(h, i)].az /\ After(i) = NextPoint(h, i) /\ m = az
    BY <1>2, <1>3, <1>5
  <2>2. h[i].az \in Int /\ h[NextPoint(h, i)].az \in Int
    BY <1>1, <1>3
  <2>3. (From(i) <= To(i)) \/ From(i) > To(i)
    BY <2>1, <2>2
  <2>4. ~(From(i) <= To(i) /\ From(i) > To(i))
    BY <2>1, <2>2
  <2>5. CASE From(i) <= To(i)
    <3>1. Along(i) = Between(h[i], h[After(i)], m - From(i), To(i) - From(i))
      BY <2>4, <2>5
    <3> HIDE DEF Along
    <3>2. QED
      BY <2>1, <2>5, <3>1 DEF AlongSide
  <2>6. CASE From(i) > To(i)
    <3>1. Along(i) = Between(h[i], h[After(i)],
                            IF m <= To(i) THEN Turn - From(i) + m ELSE m - From(i),
                            Turn - From(i) + To(i))
      BY <2>4, <2>6
    <3>2. ~(h[i].az <= h[NextPoint(h, i)].az)
      BY <2>1, <2>4, <2>6
    <3> HIDE DEF Along
    <3>3. QED
      BY <2>1, <3>1, <3>2 DEF AlongSide
  <2>7. QED
    BY <2>3, <2>5, <2>6
<1> HIDE DEF To, Holds, Along
<1>8. k \in sides /\ sides \in SUBSET Nat
  BY <1>1, <1>6
<1>9. \E i \in sides : \A j \in sides : i <= j
  BY <1>8, LeastElement
<1>10. (CHOOSE i \in sides : \A j \in sides : i <= j) \in sides
  BY <1>9
<1>11. h # << >> /\ Len(h) # 1 /\ sides # {}
  BY <1>1, <1>8
<1>12. HorizonAltAt(az, h) = Along(CHOOSE i \in sides : \A j \in sides : i <= j)
  <2> HIDE DEF sides
  <2> QED
    BY <1>4, <1>11
<1>13. \A i \in sides : i \in DOMAIN h /\ OnSide(h, az, i) /\ Along(i) = AlongSide(h, az, i)
  BY <1>6, <1>7
<1>14. QED
  <2> HIDE DEF sides
  <2> QED
    BY <1>10, <1>12, <1>13

LEMMA HorizonAtPoint ==
    ASSUME NEW h, Profile(h), NEW k \in DOMAIN h
    PROVE  \E den \in Int : den > 0 /\ HorizonAltAt(h[k].az, h) = [num |-> h[k].alt * den, den |-> den]
<1> DEFINE n == Len(h)
           az == h[k].az
<1>1. /\ n \in Nat /\ DOMAIN h = 1 .. n /\ k \in 1 .. n /\ n > 0 /\ h # << >>
      /\ \A i \in 1 .. n : h[i].alt \in Int /\ h[i].az \in Azimuths /\ h[i].az \in Int
                          /\ h[i].az >= 0 /\ h[i].az < Turn
      /\ \A i, j \in 1 .. n : i < j => h[i].az < h[j].az
  <2>1. h \in Seq(Places)
    BY DEF Profile
  <2>2. n \in Nat /\ DOMAIN h = 1 .. n /\ \A i \in DOMAIN h : h[i] \in Places
    BY <2>1
  <2>3. \A i \in DOMAIN h : h[i].alt \in Int /\ h[i].az \in Azimuths
    BY <2>2 DEF Places
  <2>4. \A i \in DOMAIN h : h[i].az \in Nat /\ h[i].az < Turn
    BY <2>3, Plainly
  <2>5. \A i, j \in 1 .. n : i < j => h[i].az < h[j].az
    BY <2>2 DEF Profile
  <2>6. n > 0 /\ k \in 1 .. n
    BY <2>2
  <2>7. QED
    BY <2>1, <2>2, <2>3, <2>4, <2>5, <2>6
<1>2. CASE n = 1
  <2>1. HorizonAltAt(az, h) = Whole(h[1].alt)
    BY <1>1, <1>2 DEF HorizonAltAt
  <2>2. k = 1 /\ h[1].alt \in Int
    BY <1>1, <1>2
  <2>3. Whole(h[1].alt) = [num |-> h[1].alt * 1, den |-> 1]
    BY <2>2 DEF Whole
  <2>4. QED
    BY <2>1, <2>2, <2>3
<1>3. CASE n > 1
  <2>1. OnSide(h, az, k)
    BY <1>1 DEF OnSide
  <2>2. az \in Azimuths
    BY <1>1
  <2>3. PICK i \in DOMAIN h : OnSide(h, az, i) /\ HorizonAltAt(az, h) = AlongSide(h, az, i)
    BY <1>3, <2>1, <2>2, HorizonIsAlongASide
  <2> DEFINE p == h[i]
             q == h[NextPoint(h, i)]
  <2>4. i \in 1 .. n /\ NextPoint(h, i) \in 1 .. n /\ NextPoint(h, i) # i
    BY <1>1, <1>3 DEF NextPoint
  <2>5. /\ p.alt \in Int /\ q.alt \in Int /\ p.az \in Int /\ q.az \in Int
        /\ p.az >= 0 /\ q.az >= 0 /\ p.az < Turn /\ q.az < Turn /\ p.az # q.az
    BY <1>1, <2>4
  <2>6. k = i \/ k = NextPoint(h, i)
    <3>1. CASE i < n
      <4>1. NextPoint(h, i) = i + 1 /\ h[i].az < h[i + 1].az
        BY <1>1, <2>4, <3>1 DEF NextPoint
      <4>2. h[i].az <= az /\ az <= h[i + 1].az
        BY <1>1, <2>3, <2>4, <4>1 DEF OnSide
      <4>3. ~(k < i) /\ ~(k > i + 1)
        BY <1>1, <2>4, <3>1, <4>2
      <4>4. QED
        BY <1>1, <2>4, <4>1, <4>3
    <3>2. CASE i = n
      <4>1. NextPoint(h, i) = 1 /\ h[1].az < h[i].az
        BY <1>1, <1>3, <2>4, <3>2 DEF NextPoint
      <4>2. az >= h[i].az \/ az <= h[1].az
        BY <1>1, <2>3, <2>4, <4>1 DEF OnSide
      <4>3. /\ k < i => az < h[i].az
            /\ k > 1 => az > h[1].az
        BY <1>1, <2>4
      <4>4. QED
        BY <1>1, <2>4, <3>2, <4>1, <4>2, <4>3
    <3>3. QED
      BY <1>1, <2>4, <3>1, <3>2
  <2>7. CASE k = i
    <3>1. PICK span \in Int : span > 0 /\ AlongSide(h, az, i) = Between(p, q, 0, span)
      <4>1. az = p.az /\ az - p.az = 0 /\ ~(p.az <= q.az) => ~(az <= q.az)
        BY <2>5, <2>7
      <4>2. CASE p.az <= q.az
        <5>1. AlongSide(h, az, i) = Between(p, q, 0, q.az - p.az)
          BY <2>5, <2>7, <4>2 DEF AlongSide
        <5>2. q.az - p.az \in Int /\ q.az - p.az > 0
          BY <2>5, <4>2
        <5>3. QED
          BY <5>1, <5>2
      <4>3. CASE ~(p.az <= q.az)
        <5>1. AlongSide(h, az, i) = Between(p, q, 0, Turn - p.az + q.az)
          BY <2>5, <2>7, <4>3 DEF AlongSide
        <5>2. Turn - p.az + q.az \in Int /\ Turn - p.az + q.az > 0
          BY <2>5, TurnIsPositive
        <5>3. QED
          BY <5>1, <5>2
      <4>4. QED
        BY <4>2, <4>3
    <3>2. Between(p, q, 0, span) = [num |-> p.alt * span, den |-> span]
      <4>1. 0 * (q.alt - p.alt) = 0 /\ p.alt * span \in Int /\ span # 0
        BY <2>5, <3>1
      <4>2. p.alt * span + 0 * (q.alt - p.alt) = p.alt * span
        BY <4>1
      <4>3. QED
        BY <4>1, <4>2 DEF Between
    <3>3. QED
      BY <2>3, <2>7, <3>1, <3>2
  <2>8. CASE k = NextPoint(h, i)
    <3>1. PICK span \in Int : span > 0 /\ AlongSide(h, az, i) = Between(p, q, span, span)
      <4>2. CASE p.az <= q.az
        <5>1. AlongSide(h, az, i) = Between(p, q, q.az - p.az, q.az - p.az)
          BY <2>5, <2>8, <4>2 DEF AlongSide
        <5>2. q.az - p.az \in Int /\ q.az - p.az > 0
          BY <2>5, <4>2
        <5>3. QED
          BY <5>1, <5>2
      <4>3. CASE ~(p.az <= q.az)
        <5>1. AlongSide(h, az, i) = Between(p, q, Turn - p.az + q.az, Turn - p.az + q.az)
          BY <2>5, <2>8, <4>3 DEF AlongSide
        <5>2. Turn - p.az + q.az \in Int /\ Turn - p.az + q.az > 0
          BY <2>5, TurnIsPositive
        <5>3. QED
          BY <5>1, <5>2
      <4>4. QED
        BY <4>2, <4>3
    <3>2. Between(p, q, span, span) = [num |-> q.alt * span, den |-> span]
      <4>1. p.alt * span + span * (q.alt - p.alt) = q.alt * span /\ span # 0
        BY <2>5, <3>1
      <4>2. QED
        BY <4>1 DEF Between
    <3>3. QED
      BY <2>3, <2>8, <3>1, <3>2
  <2>9. QED
    BY <2>6, <2>7, <2>8
<1>4. n = 1 \/ n > 1
  BY <1>1
<1>5. QED
  BY <1>2, <1>3, <1>4

(***************************************************************************)
(* The slew                                                                *)
(***************************************************************************)
LEMMA DeltaType ==
    ASSUME NEW a \in Azimuths, NEW b \in Azimuths
    PROVE  DeltaAz(a, b) \in Int
<1>1. a \in Int /\ b \in Int /\ Turn \in Nat /\ Turn > 0
  BY Plainly, TurnIsPositive
<1> DEFINE d == b - a + (3 * Turn) \div 2
<1>2. (3 * Turn) \div 2 \in Int /\ Turn \div 2 \in Int /\ d \in Int
  BY <1>1
<1>3. GoMod(d, Turn) \in Int
  <2>1. \A x \in Int : x % Turn \in Int
    BY <1>1, ModRange
  <2> HIDE DEF d
  <2>2. QED
    BY <1>2, <2>1 DEF GoMod
<1>4. QED
  BY <1>2, <1>3 DEF DeltaAz

LEMMA AlongTheSlew ==
    ASSUME NEW n \in Nat, n > 0, NEW a \in Nat, NEW d \in Int, a + d >= 0, NEW i \in 0 .. n
    PROVE  n * a + i * d \in Nat
<1>1. n * a \in Int /\ i * d \in Int /\ n * d \in Int /\ n * a >= 0
  OBVIOUS
<1>2. CASE d >= 0
  <2>1. i * d >= 0
    BY <1>2
  <2>2. QED
    BY <1>1, <2>1
<1>3. CASE d < 0
  <2>1. (n - i) * d <= 0
    BY <1>3
  <2>2. (n - i) * d = n * d - i * d
    OBVIOUS
  <2>3. n * (a + d) >= 0
    OBVIOUS
  <2>4. n * (a + d) = n * a + n * d
    OBVIOUS
  <2>5. QED
    BY <1>1, <2>1, <2>2, <2>3, <2>4
<1>4. QED
  BY <1>2, <1>3

LEMMA SlewAvoids ==
    ASSUME NEW mask, NEW r, Rectangular(r), Polygon(r) \in mask,
           NEW from \in Places, NEW to \in Places,
           ~PassesNorthWestward(from, to), ~SlewPathHitsForbidden(from, to, mask)
    PROVE  SlewIsClear(r, from, to)
<1> DEFINE d == DeltaAz(from.az, to.az)
           x(i) == Samples * from.az + i * d
           y(i) == Samples * from.alt + i * (to.alt - from.alt)
           all == Samples * Turn
<1>1. /\ from.az \in Azimuths /\ to.az \in Azimuths /\ from.alt \in Int /\ to.alt \in Int
      /\ from.az \in Nat /\ d \in Int /\ Samples \in Nat /\ Samples > 0
      /\ all \in Nat /\ all > 0
  BY Plainly, DeltaType, SamplesAssumption, TurnIsPositive DEF Places
<1>2. from.az + d >= 0
  BY <1>1 DEF PassesNorthWestward
<1> HIDE DEF d
<1> SUFFICES ASSUME NEW i \in 0 .. Samples
             PROVE  ~Inside(r, y(i), x(i) % all, Samples)
  BY DEF SlewIsClear, d
<1>3. x(i) \in Nat /\ y(i) \in Int
  BY <1>1, <1>2, AlongTheSlew
<1>4. x(i) % all \in Int
  <2> HIDE DEF x, all
  <2> QED
    BY <1>1, <1>3, ModRange
<1>5. SlewPoint(from, to, i) = [alt |-> y(i), az |-> x(i) % all]
  <2>1. GoMod(x(i), all) = x(i) % all
    <3> HIDE DEF x, all
    <3> QED
      BY <1>3 DEF GoMod
  <2>2. QED
    BY <2>1 DEF SlewPoint, d
<1>6. ~PointInForbidden(y(i), x(i) % all, mask, Samples)
  <2>1. ~PointInForbidden(SlewPoint(from, to, i).alt, SlewPoint(from, to, i).az, mask, Samples)
    BY DEF SlewPathHitsForbidden
  <2> HIDE DEF x, y, all
  <2>2. QED
    BY <1>5, <2>1
<1>7. QED
  <2> HIDE DEF x, y, all
  <2> QED
    BY <1>1, <1>3, <1>4, <1>6, InsideIsForbidden

(* A question about a pointing: a site whose forbidden regions are         *)
(* rectangles, however many, and whose horizon, if it has one, is in the   *)
(* order of the azimuths.                                                  *)
PointingQuestion(q) ==
    /\ q.at \in Places
    /\ q.site.limits # Unset => Bounds(q.site.limits)
    /\ q.site.horizon # Unset => Profile(q.site.horizon)
    /\ q.site.mount # Unset => q.site.mount \in Places
    /\ \A r \in q.mask : Rectangular(r)
    /\ q.site.mask = {Polygon(r) : r \in q.mask}

(* A telescope that passes the safety check points within its limits, over *)
(* its horizon and into no forbidden region, at the target and along the   *)
(* slew, for any site, circle and sampling (PassesAltAzSafety,             *)
(* ValidateMountLimits, AboveHorizonProfile, SlewPathHitsForbidden).       *)
THEOREM PassingIsSafe ==
    ASSUME Unset \notin Int, question.about = "pointing" => PointingQuestion(question)
    PROVE  PointingIsSafe
<1> DEFINE site == question.site
           at == question.at
<1> SUFFICES ASSUME question.about = "pointing", PassesAltAzSafety(at, Unset, site)
             PROVE  /\ site.located
                    /\ site.limits # Unset => WithinArc(at.az, site.limits)
                    /\ site.horizon # Unset =>
                         \A i \in DOMAIN site.horizon :
                           site.horizon[i].az = at.az => at.alt > site.horizon[i].alt
                    /\ \A r \in question.mask :
                         /\ ~Inside(r, at.alt, at.az, 1)
                         /\ (site.mount # Unset /\ ~PassesNorthWestward(site.mount, at)) =>
                              SlewIsClear(r, site.mount, at)
  BY DEF PointingIsSafe
<1>1. PointingQuestion(question) /\ at \in Places /\ at.az \in Azimuths /\ at.alt \in Int /\ at.az \in Int
  BY Plainly DEF PointingQuestion, Places
<1>2. /\ site.located /\ ValidateMountLimits(at.alt, at.az, site.limits)
      /\ AboveHorizonProfile(at.alt, at.az, site.horizon)
      /\ ~PointInForbidden(at.alt, at.az, site.mask, 1)
      /\ (site.mount # Unset /\ site.mask # {}) => ~SlewPathHitsForbidden(site.mount, at, site.mask)
  <2>1. site.mask = {} => ~PointInForbidden(at.alt, at.az, site.mask, 1)
    BY DEF PointInForbidden
  <2>2. QED
    BY <2>1 DEF PassesAltAzSafety, PointInForbiddenAltAz
<1>3. ASSUME site.limits # Unset PROVE WithinArc(at.az, site.limits)
  BY <1>1, <1>2, <1>3, LimitsAreAnArc DEF PointingQuestion
<1>4. ASSUME site.horizon # Unset, NEW i \in DOMAIN site.horizon, site.horizon[i].az = at.az
      PROVE  at.alt > site.horizon[i].alt
  <2> DEFINE h == site.horizon
  <2>1. Profile(h)
    BY <1>1, <1>4 DEF PointingQuestion
  <2>2. PICK den \in Int : den > 0 /\ HorizonAltAt(at.az, h) = [num |-> h[i].alt * den, den |-> den]
    BY <1>4, <2>1, HorizonAtPoint
  <2>3. at.alt * den > h[i].alt * den
    BY <1>2, <1>4, <2>2 DEF AboveHorizonProfile
  <2>4. h[i].alt \in Int
    <3>1. h \in Seq(Places) /\ i \in DOMAIN h
      BY <1>4, <2>1 DEF Profile
    <3>2. h[i] \in Places
      BY <3>1
    <3>3. QED
      BY <3>2 DEF Places
  <2>5. ~(at.alt <= h[i].alt)
    <3>1. at.alt <= h[i].alt => at.alt * den <= h[i].alt * den
      BY <1>1, <2>2, <2>4
    <3>2. QED
      BY <1>1, <2>2, <2>3, <2>4, <3>1
  <2>6. QED
    BY <1>1, <2>4, <2>5
<1>5. ASSUME NEW r \in question.mask
      PROVE  /\ Rectangular(r) /\ Polygon(r) \in site.mask /\ site.mask # {}
             /\ ~Inside(r, at.alt, at.az, 1)
  <2>1. Rectangular(r) /\ Polygon(r) \in site.mask
    BY <1>1, <1>5 DEF PointingQuestion
  <2>2. QED
    BY <1>1, <1>2, <2>1, InsideIsForbidden
<1>6. ASSUME NEW r \in question.mask, site.mount # Unset, ~PassesNorthWestward(site.mount, at)
      PROVE  SlewIsClear(r, site.mount, at)
  <2>1. site.mount \in Places
    BY <1>1, <1>6 DEF PointingQuestion
  <2>2. QED
    BY <1>1, <1>2, <1>5, <1>6, <2>1, SlewAvoids
<1>7. QED
  BY <1>2, <1>3, <1>4, <1>5, <1>6

(***************************************************************************)
(* The loss of the target                                                  *)
(***************************************************************************)
(* A question about a track: a site is a record of its fields, altitudes   *)
(* are numbers, and the task may have no least one.                        *)
TrackQuestion(q) ==
    /\ q.site = [located |-> q.site.located, mask |-> q.site.mask, limits |-> q.site.limits,
                 horizon |-> q.site.horizon, mount |-> q.site.mount]
    /\ q.at.alt \in Int /\ q.task.minAlt \in Int \cup {Unset}

LEMMA StepsAreOrdered ==
    ASSUME NEW j \in Nat \ {0}, NEW k \in Nat \ {0}
    PROVE  /\ (k - 1) * Step \in Nat /\ j * Step - Step = (j - 1) * Step
           /\ (k - 1) * Step > (j - 1) * Step <=> k > j
           /\ (k - 1) * Step = (j - 1) * Step <=> k = j
<1>1. Step \in Nat /\ Step > 0 /\ k - 1 \in Nat /\ j - 1 \in Nat
  BY StepAssumption
<1>2. \A x, y \in Nat : x < y => x * Step < y * Step
  BY <1>1
<1>3. QED
  BY <1>1, <1>2

(* The telescope may not point, as the scan asks it, exactly when the      *)
(* safety check fails for the same mask and a mount that is not known; and *)
(* then it fails wherever the mount stands.                                *)
LEMMA ScanAsksForSafety ==
    ASSUME Unset \notin Int, NEW at, at.alt \in Int, NEW minAlt \in Int \cup {Unset},
           NEW mask, mask # {}, NEW old, NEW s, NEW bare,
           s.located, s.mask = mask, s.limits = old.limits, s.horizon = old.horizon,
           bare.located, bare.mask = mask, bare.limits = old.limits,
           bare.horizon = old.horizon, bare.mount = Unset
    PROVE  /\ forbiddenAt(at, minAlt, old, mask) <=> ~PassesAltAzSafety(at, minAlt, bare)
           /\ forbiddenAt(at, minAlt, old, mask) => ~PassesAltAzSafety(at, minAlt, s)
<1>1. (minAlt # Unset /\ at.alt < minAlt) <=> ~(minAlt # Unset => at.alt >= minAlt)
  OBVIOUS
<1>2. QED
  BY <1>1 DEF forbiddenAt, PassesAltAzSafety

(* The scan: nothing is announced without a site or a mask; otherwise the  *)
(* first step at which the telescope may not point, or never.              *)
LEMMA ScanFindsTheFirst ==
    ASSUME Unset \notin Int, NEW path, DOMAIN path = 1 .. 4, NEW minAlt, NEW site, NEW mask
    PROVE  LET eta == FirstLoss(path, minAlt, site, mask)
               Lost(k) == forbiddenAt(path[k], minAlt, site, mask)
           IN  IF ~site.located \/ mask = {} THEN eta = Unset
               ELSE \/ eta = Never /\ \A k \in 1 .. 4 : ~Lost(k)
                    \/ \E f \in 1 .. 4 : /\ eta = (f - 1) * Step /\ Lost(f)
                                         /\ \A k \in 1 .. 4 : Lost(k) => f <= k
<1> DEFINE lost == {k \in DOMAIN path : forbiddenAt(path[k], minAlt, site, mask)}
           f == CHOOSE k \in lost : \A l \in lost : k <= l
<1>1. path # << >>
  <2>1. 1 \in DOMAIN path /\ DOMAIN << >> = {}
    OBVIOUS
  <2>2. QED
    BY <2>1
<1>2. FirstLoss(path, minAlt, site, mask) =
        IF ~site.located \/ mask = {} THEN Unset
        ELSE IF lost = {} THEN Never ELSE f * Step - Step
  BY <1>1 DEF FirstLoss
<1>3. \A k \in 1 .. 4 : k \in lost <=> forbiddenAt(path[k], minAlt, site, mask)
  OBVIOUS
<1>4. lost # {} => f \in lost /\ \A l \in lost : f <= l
  <2>1. lost \in SUBSET (1 .. 4)
    OBVIOUS
  <2> HIDE DEF lost
  <2>2. lost # {} => \E k \in lost : \A l \in lost : k <= l
    BY <2>1, LeastElement
  <2>3. QED
    BY <2>2
<1>5. lost \in SUBSET (1 .. 4)
  OBVIOUS
<1> HIDE DEF lost, f
<1>6. ASSUME lost # {} PROVE f \in 1 .. 4 /\ f * Step - Step = (f - 1) * Step
  <2>1. f \in 1 .. 4
    BY <1>4, <1>5, <1>6
  <2>2. QED
    BY <2>1, StepsAreOrdered
<1>7. QED
  BY <1>2, <1>3, <1>4, <1>5, <1>6

(* The loss of a target is announced in time, by the mask in use, for any  *)
(* site, mask, mount, least altitude, step and circle, and as an           *)
(* obstruction exactly when it is near (SecondsUntilObstructionLoss,       *)
(* CombinedUrgency, PassesAltAzSafety).                                    *)
THEOREM LossIsAnnounced ==
    ASSUME Unset \notin Int, question.about = "track" => TrackQuestion(question)
    PROVE  HandoffWarnsInTime
<1> DEFINE task == question.task
           old == question.site
           site == InUse(old, question.live)
           mask == IF question.live # {} THEN question.live ELSE old.mask
           bare == [site EXCEPT !.mount = Unset]
           path == Track(question.at.alt, question.at.az)
           eta == SecondsUntilObstructionLoss(task, path, task.minAlt, old, question.live)
           When(k) == (k - 1) * Step
           Safe(k) == PassesAltAzSafety(path[k], task.minAlt, bare)
           Lost(k) == forbiddenAt(path[k], task.minAlt, old, mask)
           Warned == CombinedUrgency(task, Now, eta) = "obstruction"
           First == UrgencyForTask(task, Now) \in {"emergency", "user"}
<1> SUFFICES ASSUME question.about = "track"
             PROVE  IF ~site.located \/ site.mask = {} THEN eta = Unset /\ ~Warned
                    ELSE /\ eta # Never =>
                              \E k \in DOMAIN path :
                                When(k) = eta /\ ~PassesAltAzSafety(path[k], task.minAlt, site)
                         /\ \A k \in DOMAIN path : eta = Never \/ When(k) < eta => Safe(k)
                         /\ Warned <=>
                              /\ UrgencyForTask(task, Now) \notin {"emergency", "user"}
                              /\ \E k \in DOMAIN path :
                                   When(k) <= ObstructionApproachSeconds /\ ~Safe(k)
  BY DEF HandoffWarnsInTime
<1>1. TrackQuestion(question)
  OBVIOUS
<1>2. /\ site = [located |-> old.located, mask |-> mask, limits |-> old.limits,
                horizon |-> old.horizon, mount |-> old.mount]
      /\ bare = [located |-> old.located, mask |-> mask, limits |-> old.limits,
                horizon |-> old.horizon, mount |-> Unset]
  <2>1. site = [old EXCEPT !.mask = mask]
    BY DEF InUse
  <2>2. old = [located |-> old.located, mask |-> old.mask, limits |-> old.limits,
               horizon |-> old.horizon, mount |-> old.mount]
    BY <1>1 DEF TrackQuestion
  <2> HIDE DEF old, mask, site
  <2>3. site = [located |-> old.located, mask |-> mask, limits |-> old.limits,
                horizon |-> old.horizon, mount |-> old.mount]
    BY <2>1, <2>2
  <2> HIDE DEF bare
  <2>4. bare = [site EXCEPT !.mount = Unset]
    BY DEF bare
  <2>5. bare = [located |-> old.located, mask |-> mask, limits |-> old.limits,
                horizon |-> old.horizon, mount |-> Unset]
    BY <2>3, <2>4
  <2>6. QED
    BY <2>3, <2>5
<1>3. site.located = old.located /\ site.mask = mask
  BY <1>2
<1>4. /\ DOMAIN path = 1 .. 4
      /\ \A k \in 1 .. 4 : path[k].alt \in Int
  BY <1>1 DEF Track, TrackQuestion
<1>5. eta = FirstLoss(path, task.minAlt, old, mask)
  BY DEF SecondsUntilObstructionLoss
<1>6. ~Warned \/ (~First /\ eta \notin {Unset, Never} /\ eta <= ObstructionApproachSeconds)
  BY DEF CombinedUrgency, UrgencyForTask
<1>7. ~First /\ eta \notin {Unset, Never} /\ eta <= ObstructionApproachSeconds => Warned
  BY DEF CombinedUrgency
<1>8. task.minAlt \in Int \cup {Unset} /\ Never = -1 /\ ObstructionApproachSeconds \in Nat
  BY <1>1, LeadAssumption DEF TrackQuestion, Never
<1> HIDE DEF site, bare, path, eta, mask, Warned, First
<1>9. CASE ~site.located \/ site.mask = {}
  <2>1. eta = Unset
    BY <1>3, <1>4, <1>5, <1>9, ScanFindsTheFirst
  <2>2. QED
    BY <1>6, <1>9, <2>1
<1>10. CASE site.located /\ site.mask # {}
  <2>1. \A k \in 1 .. 4 : /\ Lost(k) <=> ~Safe(k)
                          /\ Lost(k) => ~PassesAltAzSafety(path[k], task.minAlt, site)
    <3> SUFFICES ASSUME NEW k \in 1 .. 4
                 PROVE  /\ Lost(k) <=> ~Safe(k)
                        /\ Lost(k) => ~PassesAltAzSafety(path[k], task.minAlt, site)
      OBVIOUS
    <3>1. mask # {} /\ old.located
      BY <1>3, <1>10
    <3>2. path[k].alt \in Int
      BY <1>4
    <3>3. /\ site.located /\ site.mask = mask
          /\ site.limits = old.limits /\ site.horizon = old.horizon
          /\ bare.located /\ bare.mask = mask /\ bare.limits = old.limits
          /\ bare.horizon = old.horizon /\ bare.mount = Unset
      BY <1>2, <1>10, <3>1
    <3> HIDE DEF old, task
    <3>4. QED
      BY <1>8, <3>1, <3>2, <3>3, ScanAsksForSafety
  <2>2. \/ eta = Never /\ \A k \in 1 .. 4 : ~Lost(k)
        \/ \E f \in 1 .. 4 : /\ eta = When(f) /\ Lost(f)
                             /\ \A k \in 1 .. 4 : Lost(k) => f <= k
    <3>1. old.located /\ mask # {}
      BY <1>3, <1>10
    <3> HIDE DEF old, task
    <3>2. QED
      BY <1>4, <1>5, <3>1, ScanFindsTheFirst
  <2>3. \A k \in 1 .. 4 : When(k) \in Nat
    BY StepsAreOrdered
  <2>4. \A j, k \in 1 .. 4 : When(k) < When(j) => k < j
    BY StepsAreOrdered
  <2> HIDE DEF Lost, Safe, When
  <2>5. CASE eta = Never /\ \A k \in 1 .. 4 : ~Lost(k)
    BY <1>4, <1>6, <1>10, <2>1, <2>5
  <2>6. ASSUME NEW f \in 1 .. 4, eta = When(f), Lost(f), \A k \in 1 .. 4 : Lost(k) => f <= k
        PROVE  /\ eta # Never =>
                    \E k \in DOMAIN path :
                      When(k) = eta /\ ~PassesAltAzSafety(path[k], task.minAlt, site)
               /\ \A k \in DOMAIN path : eta = Never \/ When(k) < eta => Safe(k)
               /\ Warned <=>
                    /\ ~First
                    /\ \E k \in DOMAIN path : When(k) <= ObstructionApproachSeconds /\ ~Safe(k)
    <3>1. eta \in Nat /\ eta \notin {Unset, Never}
      BY <1>8, <2>3, <2>6
    <3>2. \A k \in 1 .. 4 : When(k) < eta => Safe(k)
      BY <2>1, <2>4, <2>6
    <3>3. \A k \in 1 .. 4 : ~Safe(k) => eta <= When(k)
      BY <2>3, <3>1, <3>2
    <3>4. (\E k \in 1 .. 4 : When(k) <= ObstructionApproachSeconds /\ ~Safe(k))
             <=> eta <= ObstructionApproachSeconds
      BY <1>8, <2>1, <2>3, <2>6, <3>1, <3>3
    <3>5. QED
      BY <1>4, <1>6, <1>7, <2>1, <2>6, <3>1, <3>2, <3>4
  <2>7. QED
    BY <1>10, <2>2, <2>5, <2>6 DEF First
<1>11. QED
  BY <1>9, <1>10

-----------------------------------------------------------------------------
(***************************************************************************)
(* The planner: its order and its candidates are the members of a finite   *)
(* set by their ranks, of which each is taken once.                        *)
(***************************************************************************)
Orders(S, R) ==
    /\ \A a \in S : <<a, a>> \notin R
    /\ \A a, b, c \in S : <<a, b>> \in R /\ <<b, c>> \in R => <<a, c>> \in R
    /\ \A a, b \in S : a # b => <<a, b>> \in R \/ <<b, a>> \in R
RankOf(S, R, t) == Cardinality({u \in S : <<u, t>> \in R})

LEMMA EveryRankIsTaken ==
    ASSUME NEW S, IsFiniteSet(S), NEW R, Orders(S, R), NEW k \in 1 .. Cardinality(S)
    PROVE  \E t \in S : RankOf(S, R, t) = k - 1
<1> USE DEF Orders, RankOf
<1> DEFINE n == Cardinality(S)
           Below(t) == {u \in S : <<u, t>> \in R}
           rank == [t \in S |-> Cardinality(Below(t)) + 1]
<1>1. n \in Nat /\ IsFiniteSet(1 .. n) /\ Cardinality(1 .. n) = n
  BY FS_CardinalityType, FS_Interval
<1>2. \A t \in S : IsFiniteSet(Below(t)) /\ Cardinality(Below(t)) \in Nat /\ Cardinality(Below(t)) < n
  <2> SUFFICES ASSUME NEW t \in S
               PROVE  /\ IsFiniteSet(Below(t)) /\ Cardinality(Below(t)) \in Nat
                      /\ Cardinality(Below(t)) < n
    OBVIOUS
  <2>1. IsFiniteSet(S \ {t}) /\ Cardinality(S \ {t}) = n - 1
    BY FS_RemoveElement
  <2>2. Below(t) \in SUBSET (S \ {t})
    OBVIOUS
  <2>3. IsFiniteSet(Below(t)) /\ Cardinality(Below(t)) <= Cardinality(S \ {t})
    BY <2>1, <2>2, FS_Subset
  <2>4. Cardinality(Below(t)) \in Nat
    BY <2>3, FS_CardinalityType
  <2> HIDE DEF Below
  <2>5. QED
    BY <1>1, <2>1, <2>3, <2>4
<1>3. \A a, b \in S : <<a, b>> \in R => Cardinality(Below(a)) < Cardinality(Below(b))
  <2> SUFFICES ASSUME NEW a \in S, NEW b \in S, <<a, b>> \in R
               PROVE  Cardinality(Below(a)) < Cardinality(Below(b))
    OBVIOUS
  <2>1. a \notin Below(a) /\ Below(a) \cup {a} \in SUBSET Below(b)
    OBVIOUS
  <2> HIDE DEF Below
  <2>2. Cardinality(Below(a) \cup {a}) = Cardinality(Below(a)) + 1
    BY <1>2, <2>1, FS_AddElement
  <2>3. Cardinality(Below(a) \cup {a}) <= Cardinality(Below(b))
    BY <1>2, <2>1, FS_Subset
  <2>4. QED
    BY <1>2, <2>2, <2>3
<1>4. rank \in [S -> 1 .. n]
  <2> HIDE DEF Below
  <2> QED
    BY <1>1, <1>2
<1>5. \A a, b \in S : rank[a] = rank[b] => a = b
  <2> SUFFICES ASSUME NEW a \in S, NEW b \in S, rank[a] = rank[b], a # b PROVE FALSE
    OBVIOUS
  <2>1. <<a, b>> \in R \/ <<b, a>> \in R
    OBVIOUS
  <2>2. Cardinality(Below(a)) < Cardinality(Below(b)) \/ Cardinality(Below(b)) < Cardinality(Below(a))
    BY <1>3, <2>1
  <2>3. Cardinality(Below(a)) = Cardinality(Below(b))
    <3> HIDE DEF Below
    <3> QED
      BY <1>2
  <2> HIDE DEF Below
  <2>4. QED
    BY <1>2, <2>2, <2>3
<1>6. rank \in Injection(S, 1 .. n)
  <2> HIDE DEF rank
  <2>1. DOMAIN rank = S
    BY <1>4
  <2> QED
    BY <1>4, <1>5, <2>1 DEF Injection, IsInjective
<1>7. rank \in Surjection(S, 1 .. n)
  <2> HIDE DEF rank
  <2> QED
    BY <1>1, <1>6, FS_Injection
<1>8. PICK t \in S : rank[t] = k
  <2> HIDE DEF rank
  <2> QED
    BY <1>7 DEF Surjection
<1>9. QED
  <2>1. Cardinality(Below(t)) + 1 = k
    BY <1>8
  <2>2. Cardinality(Below(t)) \in Nat
    BY <1>2
  <2> HIDE DEF Below
  <2>3. Cardinality(Below(t)) = k - 1
    BY <2>1, <2>2
  <2>4. QED
    BY <2>3 DEF Below

(* A backlog of the planner, and its fleet.                                *)
PlanTask(t) ==
    /\ t.id \in Int /\ t.priority \in Int /\ t.length \in Nat /\ t.cadence \in Int
    /\ t.from \in Int \cup {Unknown} /\ t.to \in Int \cup {Unknown}
Backlog(tasks) ==
    /\ IsFiniteSet(tasks) /\ \A t \in tasks : PlanTask(t)
    /\ \A t, u \in tasks : t.id = u.id => t = u

LEMMA ByUrgencyIsAnOrder ==
    ASSUME NEW tasks, Backlog(tasks)
    PROVE  /\ Cardinality(tasks) \in Nat
           /\ \A k \in 1 .. Cardinality(tasks) : ByUrgency(tasks)[k] \in tasks
           /\ \A j, k \in 1 .. Cardinality(tasks) :
                 j # k => ByUrgency(tasks)[j] # ByUrgency(tasks)[k]
<1> DEFINE n == Cardinality(tasks)
           Rank(t) == Cardinality({u \in tasks : MoreUrgent(u, t)})
           R == {p \in tasks \X tasks : MoreUrgent(p[1], p[2])}
<1>1. n \in Nat /\ IsFiniteSet(tasks)
  BY FS_CardinalityType DEF Backlog
<1>2. \A a, b \in tasks : <<a, b>> \in R <=> MoreUrgent(a, b)
  OBVIOUS
<1>3. \A a \in tasks : a.priority \in Int /\ a.id \in Int
  BY DEF Backlog, PlanTask
<1>4. /\ \A a \in tasks : ~MoreUrgent(a, a)
      /\ \A a, b, c \in tasks : MoreUrgent(a, b) /\ MoreUrgent(b, c) => MoreUrgent(a, c)
      /\ \A a, b \in tasks : a # b => MoreUrgent(a, b) \/ MoreUrgent(b, a)
  BY <1>3 DEF MoreUrgent, Backlog
<1>5. \A t \in tasks : {u \in tasks : <<u, t>> \in R} = {u \in tasks : MoreUrgent(u, t)}
  BY <1>2
<1>6. ASSUME NEW k \in 1 .. n PROVE \E t \in tasks : Rank(t) = k - 1
  <2> HIDE DEF R
  <2>1. Orders(tasks, R)
    BY <1>2, <1>4 DEF Orders
  <2>2. PICK t \in tasks : RankOf(tasks, R, t) = k - 1
    BY <1>1, <2>1, EveryRankIsTaken
  <2>3. QED
    BY <1>5, <2>2 DEF RankOf
<1> HIDE DEF Rank, R
<1>7. \A k \in 1 .. n : ByUrgency(tasks)[k] \in tasks /\ Rank(ByUrgency(tasks)[k]) = k - 1
  <2> SUFFICES ASSUME NEW k \in 1 .. n
               PROVE  ByUrgency(tasks)[k] \in tasks /\ Rank(ByUrgency(tasks)[k]) = k - 1
    OBVIOUS
  <2>1. ByUrgency(tasks)[k] = CHOOSE t \in tasks : Rank(t) = k - 1
    BY DEF ByUrgency, Rank
  <2>2. QED
    BY <1>6, <2>1
<1>8. QED
  BY <1>1, <1>7

(* The sites a task may go to: all those of the fleet it prefers, or all   *)
(* of the fleet.                                                           *)
LEMMA SitesOfTheFleet ==
    ASSUME NEW Names, NEW nodes \in Seq(Names), nodes # << >>, NEW t
    PROVE  /\ Len(Sites(t, nodes)) \in Nat \ {0}
           /\ \A i \in 1 .. Len(Sites(t, nodes)) :
                 /\ Sites(t, nodes)[i] \in ToSet(nodes)
                 /\ t.preferred \cap ToSet(nodes) # {} => Sites(t, nodes)[i] \in t.preferred
<1> DEFINE liked == {i \in DOMAIN nodes : nodes[i] \in t.preferred}
<1>1. /\ Len(nodes) \in Nat \ {0} /\ DOMAIN nodes = 1 .. Len(nodes)
      /\ \A i \in DOMAIN nodes : nodes[i] \in ToSet(nodes)
  BY DEF ToSet
<1>2. liked = {} <=> t.preferred \cap ToSet(nodes) = {}
  BY DEF ToSet
<1>3. CASE liked = {}
  <2>1. Sites(t, nodes) = nodes
    BY <1>3 DEF Sites
  <2>2. QED
    BY <1>1, <1>2, <1>3, <2>1
<1>4. CASE liked # {}
  <2> DEFINE c == Cardinality(liked)
             s == [k \in 1 .. c |-> nodes[Nth(liked, k)]]
             R == {p \in liked \X liked : p[1] < p[2]}
  <2>1. Sites(t, nodes) = s
    BY <1>4 DEF Sites
  <2>2. IsFiniteSet(liked)
    <3>1. IsFiniteSet(1 .. Len(nodes))
      BY <1>1, FS_Interval
    <3>2. liked \in SUBSET (1 .. Len(nodes))
      BY <1>1
    <3> HIDE DEF liked
    <3>3. QED
      BY <3>1, <3>2, FS_Subset
  <2>3. c \in Nat \ {0}
    BY <1>4, <2>2, FS_CardinalityType, FS_EmptySet
  <2>4. \A a \in liked : a \in Int /\ a \in DOMAIN nodes /\ nodes[a] \in t.preferred
    BY <1>1
  <2>5. ASSUME NEW k \in 1 .. c PROVE Nth(liked, k) \in liked
    <3>1. \A a, b \in liked : <<a, b>> \in R <=> a < b
      OBVIOUS
    <3> HIDE DEF liked
    <3>2. Orders(liked, R)
      <4> HIDE DEF R
      <4> QED
        BY <2>4, <3>1 DEF Orders
    <3>3. \A i \in liked : {j \in liked : <<j, i>> \in R} = {j \in liked : j < i}
      <4> HIDE DEF R
      <4> QED
        BY <3>1
    <3> HIDE DEF R
    <3>4. PICK i \in liked : RankOf(liked, R, i) = k - 1
      BY <2>2, <3>2, EveryRankIsTaken
    <3>5. Cardinality({j \in liked : j < i}) = k - 1
      BY <3>3, <3>4 DEF RankOf
    <3>6. QED
      BY <3>5 DEF Nth
  <2> HIDE DEF liked, c
  <2>6. s \in Seq(ToSet(nodes)) /\ Len(s) = c
    BY <1>1, <2>3, <2>4, <2>5
  <2>7. \A i \in 1 .. c : s[i] \in ToSet(nodes) /\ s[i] \in t.preferred
    BY <1>1, <2>4, <2>5
  <2>8. QED
    BY <2>1, <2>3, <2>6, <2>7
<1>5. QED
  BY <1>3, <1>4

LEMMA GreatestOfThree ==
    ASSUME NEW a \in Int, NEW b \in Int, NEW c \in Int
    PROVE  Max({a, b, c}) \in Int /\ Max({a, b, c}) >= a /\ Max({a, b, c}) >= b /\ Max({a, b, c}) >= c
<1>1. \E x \in {a, b, c} : \A y \in {a, b, c} : x >= y
  <2>1. CASE a >= b /\ a >= c
    BY <2>1
  <2>2. CASE b >= a /\ b >= c
    BY <2>2
  <2>3. CASE c >= a /\ c >= b
    BY <2>3
  <2>4. QED
    BY <2>1, <2>2, <2>3
<1>2. Max({a, b, c}) \in {a, b, c} /\ \A y \in {a, b, c} : Max({a, b, c}) >= y
  BY <1>1 DEF Max
<1>3. QED
  BY <1>2

LEMMA CadenceType ==
    ASSUME NEW t, PlanTask(t)
    PROVE  Cadence(t) \in Int /\ Cadence(t) > 0
<1>1. t.cadence \in Int /\ t.length \in Nat
  BY DEF PlanTask
<1>2. \E x \in {t.length, 1} : \A y \in {t.length, 1} : x >= y
  <2>1. CASE t.length >= 1
    BY <1>1, <2>1
  <2>2. CASE t.length < 1
    BY <1>1, <2>2
  <2>3. QED
    BY <1>1, <2>1, <2>2
<1>3. Max({t.length, 1}) \in {t.length, 1} /\ \A y \in {t.length, 1} : Max({t.length, 1}) >= y
  BY <1>2 DEF Max
<1>4. QED
  BY <1>1, <1>3 DEF Cadence

(* A slot as SoundAgenda wants it, on a telescope that is free.            *)
Suits(s, t, nodes, start, horizon) ==
    /\ s.task = t.id
    /\ InWindow(s, t, start, horizon)
    /\ \/ s.node \in t.preferred
       \/ s.node \in ToSet(nodes) /\ t.preferred \cap ToSet(nodes) = {}
SlotsOf(nodes) == [task : Int, node : ToSet(nodes), start : Int, end : Int]
FreeFor(s, t, free, nodes) ==
    s \in SlotsOf(nodes) /\ s.start >= free[s.node] /\ s.end >= s.start

LEMMA SlotSuits ==
    ASSUME Unknown \notin Int,
           NEW Names, NEW nodes \in Seq(Names), nodes # << >>, NEW t, PlanTask(t), NEW start \in Int,
           NEW horizon \in Int,
           NEW free \in [ToSet(nodes) -> Int], NEW turn \in Nat
    PROVE  \/ Slot(t, nodes, free, turn, start, horizon) = << >>
           \/ \E s : /\ Slot(t, nodes, free, turn, start, horizon) = <<s>>
                     /\ Suits(s, t, nodes, start, horizon) /\ FreeFor(s, t, free, nodes)
<1> DEFINE sites == Sites(t, nodes)
           n == Len(sites)
           Dish(i) == sites[((turn + i) % Len(sites)) + 1]
           Begins(i) == EarliestOn(Dish(i), t, free, start)
           Liked(d) == d \in t.preferred \/ t.preferred \cap ToSet(nodes) = {}
           fits == {i \in 0 .. Len(sites) - 1 :
                      Begins(i) + t.length <= WindowEnd(t, start, horizon)}
           first == {i \in fits : \A j \in fits : Begins(i) <= Begins(j)}
           b == Min(first)
           slot == [task |-> t.id, node |-> Dish(b), start |-> Begins(b), end |-> Begins(b) + t.length]
<1>1. /\ t.id \in Int /\ t.length \in Nat /\ t.length \in Int
      /\ t.from \in Int \cup {Unknown} /\ t.to \in Int \cup {Unknown}
  BY DEF PlanTask
<1>2. WindowStart(t, start) \in Int /\ (t.from # Unknown => WindowStart(t, start) = t.from)
  BY <1>1 DEF WindowStart
<1>3. LET opens == IF t.from = Unknown THEN start ELSE t.from IN
      /\ WindowStart(t, start) = opens
      /\ WindowEnd(t, start, horizon) =
           IF t.to # Unknown /\ t.to > opens THEN t.to ELSE opens + horizon
  BY <1>1 DEF WindowEnd, WindowStart
<1>4. WindowEnd(t, start, horizon) \in Int
  BY <1>1, <1>2 DEF WindowEnd
<1>5. n \in Nat \ {0}
  BY SitesOfTheFleet
<1>6. ASSUME NEW i \in 0 .. n - 1
      PROVE  /\ Dish(i) \in ToSet(nodes) /\ Liked(Dish(i))
             /\ Begins(i) \in Int /\ Begins(i) >= free[Dish(i)] /\ Begins(i) >= start
             /\ Begins(i) >= WindowStart(t, start)
  <2>1. ((turn + i) % n) + 1 \in 1 .. n
    <3>1. (turn + i) % n \in 0 .. n - 1
      <4> HIDE DEF n
      <4> QED
        BY <1>5, ModRange
    <3> HIDE DEF n
    <3>2. QED
      BY <1>5, <3>1
  <2>2. Dish(i) \in ToSet(nodes) /\ Liked(Dish(i))
    BY <2>1, SitesOfTheFleet
  <2> HIDE DEF Dish
  <2>3. free[Dish(i)] \in Int
    BY <2>2
  <2>4. Begins(i) = Max({free[Dish(i)], WindowStart(t, start), start})
    BY DEF EarliestOn
  <2> HIDE DEF Begins
  <2>5. QED
    BY <1>2, <2>2, <2>3, <2>4, GreatestOfThree
<1>7. Slot(t, nodes, free, turn, start, horizon) = IF fits = {} THEN << >> ELSE <<slot>>
  BY DEF Slot
<1> HIDE DEF Dish, Begins, n
<1>8. CASE fits # {}
  <2>1. fits \in SUBSET (0 .. n - 1)
    BY DEF n
  <2> DEFINE T == {Begins(i) - start : i \in fits}
  <2>2. T \in SUBSET Nat /\ T # {}
    BY <1>6, <1>8, <2>1
  <2>3. PICK m \in T : \A x \in T : m <= x
    <3> HIDE DEF T
    <3> QED
      BY <2>2, LeastElement
  <2>4. PICK i \in fits : m = Begins(i) - start
    OBVIOUS
  <2>5. \A j \in fits : Begins(i) <= Begins(j)
    <3> SUFFICES ASSUME NEW j \in fits PROVE Begins(i) <= Begins(j)
      OBVIOUS
    <3>1. Begins(j) - start \in T
      OBVIOUS
    <3>2. Begins(i) - start <= Begins(j) - start
      BY <2>3, <2>4, <3>1
    <3>3. Begins(i) \in Int /\ Begins(j) \in Int
      BY <1>6, <2>1
    <3>4. QED
      BY <3>2, <3>3
  <2>6. first \in SUBSET Nat /\ first # {}
    <3>1. fits \in SUBSET Nat
      BY <1>5, <2>1
    <3> HIDE DEF fits
    <3>2. i \in first
      BY <2>5
    <3>3. QED
      BY <3>1, <3>2
  <2>7. b \in first
    <3> HIDE DEF first
    <3>1. \E x \in first : \A y \in first : x <= y
      BY <2>6, LeastElement
    <3>2. QED
      BY <3>1 DEF Min
  <2> HIDE DEF b
  <2>8. b \in 0 .. n - 1 /\ Begins(b) + t.length <= WindowEnd(t, start, horizon)
    BY <2>1, <2>7
  <2>9. /\ Dish(b) \in ToSet(nodes) /\ Liked(Dish(b))
        /\ Begins(b) \in Int /\ Begins(b) >= free[Dish(b)] /\ Begins(b) >= start
        /\ Begins(b) >= WindowStart(t, start)
    BY <1>6, <2>8
  <2> HIDE DEF fits
  <2>11. /\ slot.task = t.id /\ slot.node = Dish(b) /\ slot.start = Begins(b)
         /\ slot.end = Begins(b) + t.length /\ slot \in SlotsOf(nodes)
    BY <1>1, <2>9 DEF SlotsOf
  <2> HIDE DEF slot
  <2>12. Suits(slot, t, nodes, start, horizon)
    BY <1>1, <1>2, <1>3, <2>8, <2>9, <2>11 DEF Suits, InWindow
  <2>13. FreeFor(slot, t, free, nodes)
    BY <1>1, <2>9, <2>11 DEF FreeFor
  <2>14. QED
    BY <1>7, <1>8, <2>12, <2>13
<1>9. QED
  BY <1>7, <1>8

(***************************************************************************)
(* The planner's loop: its slots are sound, and every telescope is taken   *)
(* until the cadence of each of its slots is over.                         *)
(***************************************************************************)
Plans(nodes) == [slots : Seq(SlotsOf(nodes)), free : [ToSet(nodes) -> Int], turn : Nat]
Kept(p, done, nodes, start, horizon) ==
    /\ p \in Plans(nodes)
    /\ \A i \in DOMAIN p.slots : \E t \in done :
          /\ Suits(p.slots[i], t, nodes, start, horizon) /\ p.slots[i].node \in ToSet(nodes)
          /\ p.slots[i].end + Cadence(t) <= p.free[p.slots[i].node]
    /\ \A i, j \in DOMAIN p.slots : i < j =>
          /\ p.slots[i].task # p.slots[j].task
          /\ p.slots[i].node = p.slots[j].node =>
                \A t \in done : t.id = p.slots[i].task =>
                   p.slots[j].start >= p.slots[i].end + Cadence(t)

LEMMA PlaceKeeps ==
    ASSUME Unknown \notin Int, NEW tasks, Backlog(tasks),
           NEW Names, NEW nodes \in Seq(Names), nodes # << >>, NEW start \in Int, NEW horizon \in Int,
           NEW done \in SUBSET tasks, NEW t \in tasks, t \notin done,
           NEW p, Kept(p, done, nodes, start, horizon)
    PROVE  Kept(Place(p, t, nodes, start, horizon), done \cup {t}, nodes, start, horizon)
<1> DEFINE q == Place(p, t, nodes, start, horizon)
<1>1. /\ PlanTask(t) /\ \A u \in done : PlanTask(u) /\ u.id # t.id
      /\ \A u, v \in done : u.id = v.id => u = v
  BY DEF Backlog
<1>2. /\ p.slots \in Seq(SlotsOf(nodes)) /\ p.free \in [ToSet(nodes) -> Int] /\ p.turn \in Nat
  BY DEF Kept, Plans
<1>3. Cadence(t) \in Int /\ Cadence(t) > 0 /\ \A u \in done : Cadence(u) \in Int /\ Cadence(u) > 0
  BY <1>1, CadenceType
<1>4. \A i \in DOMAIN p.slots : p.slots[i].task # t.id /\ p.slots[i] \in SlotsOf(nodes)
  BY <1>1, <1>2 DEF Kept, Suits
<1>5. CASE q = p
  <2>1. \A i \in DOMAIN p.slots : \E u \in done \cup {t} :
          /\ Suits(p.slots[i], u, nodes, start, horizon) /\ p.slots[i].node \in ToSet(nodes)
          /\ p.slots[i].end + Cadence(u) <= p.free[p.slots[i].node]
    BY DEF Kept
  <2>2. \A i, j \in DOMAIN p.slots : i < j =>
          /\ p.slots[i].task # p.slots[j].task
          /\ p.slots[i].node = p.slots[j].node =>
                \A u \in done \cup {t} : u.id = p.slots[i].task =>
                   p.slots[j].start >= p.slots[i].end + Cadence(u)
    BY <1>4 DEF Kept
  <2>3. QED
    BY <1>5, <2>1, <2>2 DEF Kept
<1>6. ASSUME NEW s, Suits(s, t, nodes, start, horizon), FreeFor(s, t, p.free, nodes), q = AfterSlot(p, t, s)
      PROVE  Kept(q, done \cup {t}, nodes, start, horizon)
  <2> DEFINE n == Len(p.slots)
             f == [p.free EXCEPT ![s.node] = s.end + Cadence(t)]
  <2>1. q = [slots |-> Append(p.slots, s), free |-> f, turn |-> p.turn + 1]
    BY <1>6 DEF AfterSlot
  <2>2. /\ s \in SlotsOf(nodes) /\ s.start \in Int /\ s.end \in Int /\ s.node \in ToSet(nodes)
        /\ s.start >= p.free[s.node] /\ s.end >= s.start /\ s.task = t.id
        /\ p.free[s.node] \in Int
    BY <1>2, <1>6 DEF FreeFor, SlotsOf, Suits
  <2>3. f \in [ToSet(nodes) -> Int]
    BY <1>2, <1>3, <2>2
  <2>4. \A m \in ToSet(nodes) : f[m] >= p.free[m]
    BY <1>2, <1>3, <2>2
  <2>5. f[s.node] = s.end + Cadence(t)
    BY <1>2, <2>2
  <2> HIDE DEF f
  <2>6. /\ n \in Nat /\ Append(p.slots, s) \in Seq(SlotsOf(nodes)) /\ DOMAIN p.slots = 1 .. n
        /\ DOMAIN Append(p.slots, s) = 1 .. n + 1 /\ Append(p.slots, s)[n + 1] = s
        /\ \A i \in 1 .. n : Append(p.slots, s)[i] = p.slots[i]
    BY <1>2, <2>2
  <2> DEFINE r == Append(p.slots, s)
  <2> HIDE DEF r
  <2>7. /\ q \in Plans(nodes) /\ q.slots = r /\ q.free = f
    BY <1>2, <2>1, <2>3, <2>6 DEF Plans, r
  <2>8. /\ DOMAIN r = 1 .. n + 1 /\ r[n + 1] = s /\ \A i \in 1 .. n : r[i] = p.slots[i]
        /\ n \in Nat /\ DOMAIN p.slots = 1 .. n
    BY <2>6 DEF r
  <2> HIDE DEF q, n
  <2>9. ASSUME NEW i \in DOMAIN r
        PROVE  \E u \in done \cup {t} :
                  /\ Suits(r[i], u, nodes, start, horizon) /\ r[i].node \in ToSet(nodes)
                  /\ r[i].end + Cadence(u) <= f[r[i].node]
    <3>1. CASE i = n + 1
      BY <1>3, <1>6, <2>2, <2>5, <2>8, <3>1
    <3>2. CASE i \in 1 .. n
      <4>1. r[i] = p.slots[i] /\ i \in DOMAIN p.slots
        BY <2>8, <3>2
      <4>2. PICK u \in done : /\ Suits(p.slots[i], u, nodes, start, horizon) /\ p.slots[i].node \in ToSet(nodes)
                              /\ p.slots[i].end + Cadence(u) <= p.free[p.slots[i].node]
        BY <4>1 DEF Kept
      <4>3. p.slots[i].end \in Int
        BY <1>4, <4>1 DEF SlotsOf
      <4> DEFINE m == p.slots[i].node
                 e == p.slots[i].end + Cadence(u)
      <4>4. e \in Int
        BY <1>3, <4>3
      <4>5. p.free[m] \in Int /\ f[m] \in Int /\ f[m] >= p.free[m] /\ e <= p.free[m]
        <5>1. m \in ToSet(nodes)
          BY <4>2
        <5>2. p.free[m] \in Int /\ f[m] \in Int
          BY <1>2, <2>3, <5>1
        <5>3. QED
          BY <2>4, <4>2, <5>1, <5>2
      <4>6. e <= f[m]
        <5> HIDE DEF e
        <5> QED
          BY <4>4, <4>5
      <4>7. QED
        BY <4>1, <4>2, <4>6
    <3>3. QED
      BY <2>8, <3>1, <3>2
  <2>10. ASSUME NEW i \in DOMAIN r, NEW j \in DOMAIN r, i < j
         PROVE  /\ r[i].task # r[j].task
                /\ r[i].node = r[j].node =>
                      \A u \in done \cup {t} : u.id = r[i].task => r[j].start >= r[i].end + Cadence(u)
    <3>1. i \in 1 .. n /\ r[i] = p.slots[i] /\ i \in DOMAIN p.slots
      BY <2>8, <2>10
    <3>2. r[i].task # t.id /\ r[i].end \in Int
      BY <1>4, <3>1 DEF SlotsOf
    <3>3. CASE j \in 1 .. n
      <4>1. r[j] = p.slots[j] /\ j \in DOMAIN p.slots
        BY <2>8, <3>3
      <4>2. QED
        BY <2>10, <3>1, <3>2, <4>1 DEF Kept
    <3>4. CASE j = n + 1
      <4>1. r[j] = s
        BY <2>8, <3>4
      <4>2. PICK v \in done : /\ Suits(p.slots[i], v, nodes, start, horizon) /\ p.slots[i].node \in ToSet(nodes)
                              /\ p.slots[i].end + Cadence(v) <= p.free[p.slots[i].node]
        BY <3>1 DEF Kept
      <4>3. \A u \in done \cup {t} : u.id = r[i].task => u = v
        BY <1>1, <3>1, <3>2, <4>2 DEF Suits
      <4>4. r[i].node = s.node => s.start >= r[i].end + Cadence(v)
        BY <1>3, <2>2, <3>1, <3>2, <4>2
      <4>5. QED
        BY <2>2, <3>2, <4>1, <4>3, <4>4
    <3>5. QED
      BY <2>8, <3>3, <3>4
  <2>11. QED
    BY <2>7, <2>9, <2>10 DEF Kept
<1>7. QED
  <2>1. CASE q = p
    BY <1>5, <2>1
  <2>2. CASE q # p
    <3> DEFINE slot == Slot(t, nodes, p.free, p.turn, start, horizon)
    <3>1. slot # << >> /\ q = AfterSlot(p, t, slot[1])
      BY <2>2 DEF Place
    <3>2. PICK s : slot = <<s>> /\ Suits(s, t, nodes, start, horizon) /\ FreeFor(s, t, p.free, nodes)
      BY <1>1, <1>2, <3>1, SlotSuits
    <3>3. slot[1] = s
      BY <3>2
    <3> HIDE DEF q, slot
    <3>4. QED
      BY <1>6, <3>1, <3>2, <3>3 DEF q
  <2>3. QED
    BY <2>1, <2>2

(* The loop as a function of the number of tasks it has looked at.         *)
LoopOf(n, g, sorted, nodes, start, horizon) ==
    g = [k \in 0 .. n |->
           IF k = 0 THEN [slots |-> << >>, free |-> [m \in ToSet(nodes) |-> start], turn |-> 0]
           ELSE Place(g[k - 1], sorted[k], nodes, start, horizon)]

LEMMA LoopExists ==
    ASSUME NEW sorted, NEW nodes, NEW start, NEW horizon
    PROVE  \A n \in Nat : \E g : LoopOf(n, g, sorted, nodes, start, horizon)
<1> DEFINE empty == [slots |-> << >>, free |-> [m \in ToSet(nodes) |-> start], turn |-> 0]
           Next1(p, k) == Place(p, sorted[k], nodes, start, horizon)
           P == {n \in Nat : \E g : LoopOf(n, g, sorted, nodes, start, horizon)}
<1>0. \A n, g : LoopOf(n, g, sorted, nodes, start, horizon) <=>
                g = [k \in 0 .. n |-> IF k = 0 THEN empty ELSE Next1(g[k - 1], k)]
  BY DEF LoopOf
<1> HIDE DEF empty, Next1
<1>1. 0 \in P
  <2> DEFINE g == [k \in 0 .. 0 |-> empty]
  <2>1. g = [k \in 0 .. 0 |-> IF k = 0 THEN empty ELSE Next1(g[k - 1], k)]
    OBVIOUS
  <2> HIDE DEF g
  <2>2. QED
    BY <1>0, <2>1
<1>2. ASSUME NEW n \in P PROVE n + 1 \in P
  <2>1. PICK g : LoopOf(n, g, sorted, nodes, start, horizon)
    OBVIOUS
  <2>2. n \in Nat /\ g = [k \in 0 .. n |-> IF k = 0 THEN empty ELSE Next1(g[k - 1], k)]
    BY <1>0, <2>1
  <2> DEFINE h == [k \in 0 .. n + 1 |-> IF k = 0 THEN empty ELSE Next1(g[k - 1], k)]
  <2>3. \A k \in 0 .. n : h[k] = g[k]
    <3>1. \A k \in 0 .. n : k \in 0 .. n + 1
      BY <2>2
    <3>2. QED
      BY <2>2, <3>1
  <2>4. \A k \in 0 .. n + 1 : k # 0 => k - 1 \in 0 .. n
    BY <2>2
  <2>5. \A k \in 0 .. n + 1 : k # 0 => g[k - 1] = h[k - 1]
    <3> HIDE DEF h
    <3> QED
      BY <2>3, <2>4
  <2>6. \A k \in 0 .. n + 1 : h[k] = IF k = 0 THEN empty ELSE Next1(h[k - 1], k)
    <3> SUFFICES ASSUME NEW k \in 0 .. n + 1
                 PROVE  h[k] = IF k = 0 THEN empty ELSE Next1(h[k - 1], k)
      OBVIOUS
    <3>1. h[k] = IF k = 0 THEN empty ELSE Next1(g[k - 1], k)
      OBVIOUS
    <3> HIDE DEF h
    <3>2. QED
      BY <2>5, <3>1
  <2>7. h = [k \in 0 .. n + 1 |-> h[k]]
    OBVIOUS
  <2> HIDE DEF h
  <2>8. h = [k \in 0 .. n + 1 |-> IF k = 0 THEN empty ELSE Next1(h[k - 1], k)]
    BY <2>6, <2>7
  <2>9. n + 1 \in Nat /\ LoopOf(n + 1, h, sorted, nodes, start, horizon)
    <3>1. n + 1 \in Nat
      BY <2>2
    <3>2. LoopOf(n + 1, h, sorted, nodes, start, horizon) <=>
             h = [k \in 0 .. n + 1 |-> IF k = 0 THEN empty ELSE Next1(h[k - 1], k)]
      BY <1>0
    <3>3. QED
      BY <2>8, <3>1, <3>2
  <2>10. QED
    BY <2>9
<1>3. P = Nat
  <2>1. P \in SUBSET Nat
    OBVIOUS
  <2> HIDE DEF P
  <2>2. QED
    BY <1>1, <1>2, <2>1, NatInduct
<1>4. QED
  BY <1>3

LEMMA LoopKeeps ==
    ASSUME Unknown \notin Int, NEW tasks, Backlog(tasks),
           NEW Names, NEW nodes \in Seq(Names), nodes # << >>, NEW start \in Int, NEW horizon \in Int,
           NEW g, LoopOf(Cardinality(tasks), g, ByUrgency(tasks), nodes, start, horizon)
    PROVE  Kept(g[Cardinality(tasks)], tasks, nodes, start, horizon)
<1> DEFINE n == Cardinality(tasks)
           sorted == ByUrgency(tasks)
           Done(k) == {sorted[m] : m \in 1 .. k}
           P == {k \in Nat : k <= n => Kept(g[k], Done(k), nodes, start, horizon)}
<1>1. /\ n \in Nat /\ \A k \in 1 .. n : sorted[k] \in tasks
      /\ \A j, k \in 1 .. n : j # k => sorted[j] # sorted[k]
  BY ByUrgencyIsAnOrder
<1>2. /\ g[0] = [slots |-> << >>, free |-> [m \in ToSet(nodes) |-> start], turn |-> 0]
      /\ \A k \in 1 .. n : g[k] = Place(g[k - 1], sorted[k], nodes, start, horizon)
  <2>1. g = [k \in 0 .. n |->
               IF k = 0 THEN [slots |-> << >>, free |-> [m \in ToSet(nodes) |-> start], turn |-> 0]
               ELSE Place(g[k - 1], sorted[k], nodes, start, horizon)]
    BY DEF LoopOf
  <2>2. 0 \in 0 .. n /\ \A k \in 1 .. n : k \in 0 .. n /\ k # 0
    BY <1>1
  <2> HIDE DEF n, sorted
  <2>3. QED
    BY <2>1, <2>2
<1> HIDE DEF n, sorted
<1>3. 0 \in P
  <2>1. g[0].slots = << >> /\ DOMAIN << >> = {} /\ g[0] \in Plans(nodes)
    BY <1>2 DEF Plans
  <2>2. Kept(g[0], Done(0), nodes, start, horizon)
    BY <2>1 DEF Kept
  <2>3. QED
    BY <2>2
<1>4. ASSUME NEW k \in P PROVE k + 1 \in P
  <2> SUFFICES ASSUME k + 1 <= n PROVE Kept(g[k + 1], Done(k + 1), nodes, start, horizon)
    OBVIOUS
  <2>1. k \in Nat /\ k + 1 \in 1 .. n /\ (k + 1) - 1 = k /\ k <= n
    BY <1>1
  <2>2. Kept(g[k], Done(k), nodes, start, horizon)
    BY <2>1
  <2>3. g[k + 1] = Place(g[k], sorted[k + 1], nodes, start, horizon)
    BY <1>2, <2>1
  <2>4. Done(k) \in SUBSET tasks /\ sorted[k + 1] \in tasks /\ sorted[k + 1] \notin Done(k)
    BY <1>1, <2>1
  <2>5. Done(k + 1) = Done(k) \cup {sorted[k + 1]}
    <3>1. 1 .. k + 1 = 1 .. k \cup {k + 1}
      BY <2>1
    <3>2. QED
      BY <3>1
  <2> HIDE DEF P, Done
  <2>7. QED
    BY <2>2, <2>3, <2>4, <2>5, PlaceKeeps
<1>5. P = Nat
  <2>1. P \in SUBSET Nat
    OBVIOUS
  <2> HIDE DEF P
  <2>2. QED
    BY <1>3, <1>4, <2>1, NatInduct
<1>6. Kept(g[n], Done(n), nodes, start, horizon)
  <2>1. n \in P
    BY <1>1, <1>5
  <2>2. n <= n
    BY <1>1
  <2> HIDE DEF Done
  <2>3. QED
    BY <2>1, <2>2
<1>7. Done(n) \in SUBSET tasks /\ IsFiniteSet(tasks) /\ n = Cardinality(tasks)
  BY <1>1 DEF Backlog, n
<1>8. \A t \in tasks : t \in Done(n)
  <2> DEFINE f == [m \in 1 .. n |-> sorted[m]]
  <2>1. f \in Injection(1 .. n, tasks)
    BY <1>1 DEF Injection, IsInjective
  <2>2. Cardinality(1 .. n) = n
    BY <1>1, FS_Interval
  <2>3. f \in Surjection(1 .. n, tasks)
    <3> HIDE DEF f
    <3> QED
      BY <1>7, <2>1, <2>2, FS_Injection
  <2>4. QED
    BY <2>3 DEF Surjection
<1>9. Done(n) = tasks
  <2> HIDE DEF Done
  <2> QED
    BY <1>7, <1>8
<1>10. QED
  BY <1>6, <1>9 DEF n

(* The agenda of any backlog, for any fleet and horizon: each task at most *)
(* once, not in the past and in its window, or within the horizon when the *)
(* window has no end after its beginning; on a telescope it prefers, and   *)
(* on another only when the fleet has none of those; a telescope never in  *)
(* two slots, nor sooner than the cadence (BuildAgenda).                   *)
THEOREM EveryAgendaIsSound ==
    ASSUME Unknown \notin Int, NEW tasks, Backlog(tasks),
           NEW Names, NEW nodes \in Seq(Names), nodes # << >>, NEW start \in Int, NEW horizon \in Int
    PROVE  SoundAgenda(BuildAgenda(tasks, nodes, start, horizon), tasks, nodes, start, horizon)
<1> DEFINE n == Cardinality(tasks)
           sorted == ByUrgency(tasks)
           plan == CHOOSE g : LoopOf(n, g, sorted, nodes, start, horizon)
           agenda == BuildAgenda(tasks, nodes, start, horizon)
           TaskOf(s) == CHOOSE t \in tasks : t.id = s.task
<1>1. n \in Nat
  BY ByUrgencyIsAnOrder
<1>2. LoopOf(n, plan, sorted, nodes, start, horizon)
  <2>1. \E g : LoopOf(n, g, sorted, nodes, start, horizon)
    BY <1>1, LoopExists
  <2>2. QED
    BY <2>1
<1>3. agenda = plan[n].slots
  BY DEF BuildAgenda, LoopOf
<1>4. Kept(plan[n], tasks, nodes, start, horizon)
  <2> HIDE DEF plan
  <2> QED
    BY <1>2, LoopKeeps
<1> HIDE DEF agenda, plan, n
<1>5. \A i \in DOMAIN agenda : /\ TaskOf(agenda[i]) \in tasks
                               /\ TaskOf(agenda[i]).id = agenda[i].task
                               /\ Suits(agenda[i], TaskOf(agenda[i]), nodes, start, horizon)
  <2> SUFFICES ASSUME NEW i \in DOMAIN agenda
               PROVE  /\ TaskOf(agenda[i]) \in tasks /\ TaskOf(agenda[i]).id = agenda[i].task
                      /\ Suits(agenda[i], TaskOf(agenda[i]), nodes, start, horizon)
    OBVIOUS
  <2>1. PICK t \in tasks : Suits(agenda[i], t, nodes, start, horizon)
    BY <1>3, <1>4 DEF Kept
  <2>2. t.id = agenda[i].task
    BY <2>1 DEF Suits
  <2>3. TaskOf(agenda[i]) \in tasks /\ TaskOf(agenda[i]).id = agenda[i].task
    BY <2>2
  <2> HIDE DEF TaskOf
  <2>4. TaskOf(agenda[i]) = t
    BY <2>2, <2>3 DEF Backlog
  <2>5. QED
    BY <2>1, <2>3, <2>4
<1> HIDE DEF TaskOf
<1>6. \A i \in DOMAIN agenda :
         /\ InWindow(agenda[i], TaskOf(agenda[i]), start, horizon)
         /\ \/ agenda[i].node \in TaskOf(agenda[i]).preferred
            \/ /\ agenda[i].node \in ToSet(nodes)
               /\ TaskOf(agenda[i]).preferred \cap ToSet(nodes) = {}
  BY <1>5 DEF Suits
<1>7. \A i, j \in DOMAIN agenda : i < j =>
          /\ agenda[i].task # agenda[j].task
          /\ agenda[i].node = agenda[j].node =>
               agenda[j].start >= agenda[i].end + Cadence(TaskOf(agenda[i]))
  BY <1>3, <1>4, <1>5 DEF Kept
<1>8. QED
  BY <1>6, <1>7 DEF SoundAgenda, TaskOf, agenda

(* The same of the agendas the run looks at.                               *)
THEOREM PlannedAgendaIsSound ==
    ASSUME Unknown \notin Int,
           question.about = "agenda" => Backlog(question.tasks)
    PROVE  AgendaIsSound
<1> SUFFICES ASSUME question.about = "agenda"
             PROVE  SoundAgenda(Agenda(question.tasks), question.tasks, AgendaFleet, AgendaNow, 6)
  BY DEF AgendaIsSound
<1>1. <<"a", "b">> \in Seq({"a", "b"})
  <2>1. <<"a", "b">> \in [1 .. 2 -> {"a", "b"}]
    OBVIOUS
  <2>2. QED
    BY <2>1, 2 \in Nat
<1>2. <<"a", "b">> # << >>
  OBVIOUS
<1>3. AgendaNow \in Int /\ 6 \in Int
  BY DEF AgendaNow
<1>4. QED
  BY <1>1, <1>2, <1>3, EveryAgendaIsSound DEF Agenda, AgendaFleet

-----------------------------------------------------------------------------
(***************************************************************************)
(* The simulator: the seats of a task are of one wave.                     *)
(***************************************************************************)
(* A simulator has its fields, and a log one can append to.                *)
SimShaped(s) ==
    s = [nodes |-> s.nodes, queue |-> s.queue, log |-> s.log, seats |-> s.seats, waves |-> s.waves]
Logged(s) == \E S : s.log \in Seq(S)
(* The last entry of a seat is of the wave w.                              *)
EntriesOf(log, t, n) == {k \in DOMAIN log : log[k].task = t /\ log[k].node = n}
LastIs(log, t, n, w) ==
    \E k \in EntriesOf(log, t, n) :
        log[k].wave = w /\ \A j \in EntriesOf(log, t, n) : j <= k
InWave(s, t, w) == \A n \in s.seats[t] : LastIs(s.log, t, n, w)
OneWave(s) == SimShaped(s) /\ Logged(s) /\ \A t \in Tasks : \E w : InWave(s, t, w)

LEMMA AppendToLog ==
    ASSUME NEW log, NEW S, log \in Seq(S), NEW e
    PROVE  /\ Append(log, e) \in Seq(S \cup {e})
           /\ Len(log) \in Nat /\ DOMAIN log = 1 .. Len(log)
           /\ DOMAIN Append(log, e) = 1 .. Len(log) + 1
           /\ Append(log, e)[Len(log) + 1] = e
           /\ \A k \in 1 .. Len(log) : Append(log, e)[k] = log[k]
<1>1. Len(log) \in Nat /\ log \in [1 .. Len(log) -> S]
  OBVIOUS
<1>2. log \in [1 .. Len(log) -> S \cup {e}]
  BY <1>1
<1>3. log \in Seq(S \cup {e})
  BY <1>1, <1>2
<1>4. QED
  BY <1>1, <1>3

LEMMA LastStays ==
    ASSUME NEW log, NEW S, log \in Seq(S), NEW e, NEW u, NEW n, NEW w,
           LastIs(log, u, n, w), ~(e.task = u /\ e.node = n)
    PROVE  LastIs(Append(log, e), u, n, w)
<1> DEFINE new == Append(log, e)
<1>1. /\ Len(log) \in Nat /\ DOMAIN log = 1 .. Len(log)
      /\ DOMAIN new = 1 .. Len(log) + 1 /\ new[Len(log) + 1] = e
      /\ \A k \in 1 .. Len(log) : new[k] = log[k]
  BY AppendToLog
<1> HIDE DEF new
<1>2. EntriesOf(new, u, n) = EntriesOf(log, u, n)
  <2>1. \A k \in DOMAIN new : k # Len(log) + 1 => k \in DOMAIN log
    BY <1>1
  <2>2. \A k \in DOMAIN log : k \in DOMAIN new
    BY <1>1
  <2>3. QED
    BY <1>1, <2>1, <2>2 DEF EntriesOf
<1>3. PICK k \in EntriesOf(log, u, n) :
         log[k].wave = w /\ \A j \in EntriesOf(log, u, n) : j <= k
  BY DEF LastIs
<1>4. new[k].wave = w
  BY <1>1, <1>3 DEF EntriesOf
<1>5. QED
  BY <1>2, <1>3, <1>4 DEF LastIs, new

LEMMA LastIsNew ==
    ASSUME NEW log, NEW S, log \in Seq(S), NEW e
    PROVE  LastIs(Append(log, e), e.task, e.node, e.wave)
<1> DEFINE new == Append(log, e)
<1>1. /\ Len(log) \in Nat /\ DOMAIN new = 1 .. Len(log) + 1 /\ new[Len(log) + 1] = e
  BY AppendToLog
<1> HIDE DEF new
<1>2. Len(log) + 1 \in EntriesOf(new, e.task, e.node)
  BY <1>1 DEF EntriesOf
<1>3. \A j \in EntriesOf(new, e.task, e.node) : j <= Len(log) + 1
  BY <1>1 DEF EntriesOf
<1>4. new[Len(log) + 1].wave = e.wave
  BY <1>1
<1>5. QED
  BY <1>2, <1>3, <1>4 DEF LastIs, new

(* A wave that is being seated: as far as it has come.                     *)
Seating(s, r, t) ==
    /\ SimShaped(r) /\ Logged(r)
    /\ t \in Tasks => InWave(r, t, s.waves[t])
    /\ r.waves = s.waves
    /\ \A u \in Tasks \ {t} : \E w : InWave(r, u, w)

LEMMA SeatKeeps ==
    ASSUME NEW s, NEW r, NEW t, NEW i, Seating(s, r, t)
    PROVE  Seating(s, Seat(r, t, i), t)
<1> DEFINE n == r.nodes[i]
           victim == IF Preempting(n) THEN n.task ELSE Unknown
           begin == Max({n.until, now})
           taken == [n EXCEPT !.status = "busy", !.task = t, !.priority = stream[t].priority,
                              !.until = begin + stream[t].length]
           entry == [task |-> t, node |-> n.id, at |-> now, wave |-> r.waves[t], victim |-> victim]
           seats == [u \in Tasks |-> IF u = victim THEN r.seats[u] \ {n.id}
                                     ELSE IF u = t THEN r.seats[u] \cup {n.id} ELSE r.seats[u]]
           q == [nodes |-> [r.nodes EXCEPT ![i] = taken], queue |-> r.queue,
                 log |-> Append(r.log, entry), seats |-> seats, waves |-> r.waves]
<1>1. CASE Seat(r, t, i) = r
  BY <1>1
<1>2. CASE Seat(r, t, i) # r
  <2>1. Seat(r, t, i) = [r EXCEPT !.nodes[i] = taken, !.log = Append(@, entry), !.seats = seats]
    BY <1>2 DEF Seat
  <2>2. entry.task = t /\ entry.node = n.id /\ entry.wave = r.waves[t]
    OBVIOUS
  <2>3. \A u \in Tasks : /\ u # t => seats[u] \subseteq r.seats[u]
                         /\ u = t => seats[u] \subseteq r.seats[t] \cup {n.id}
    OBVIOUS
  <2> HIDE DEF n, taken, entry, seats
  <2>4. Seat(r, t, i) = q
    BY <2>1 DEF Seating, SimShaped
  <2>5. /\ q.log = Append(r.log, entry) /\ q.seats = seats /\ q.waves = r.waves
        /\ SimShaped(q)
    BY DEF SimShaped
  <2> HIDE DEF q
  <2>6. PICK S : r.log \in Seq(S)
    BY DEF Seating, Logged
  <2>7. Logged(q)
    <3>1. q.log \in Seq(S \cup {entry})
      BY <2>5, <2>6, AppendToLog
    <3>2. QED
      BY <3>1 DEF Logged
  <2>8. ASSUME NEW u \in Tasks \ {t}, NEW w, InWave(r, u, w)
        PROVE  InWave(q, u, w)
    BY <2>2, <2>3, <2>5, <2>6, <2>8, LastStays DEF InWave
  <2>9. t \in Tasks => InWave(q, t, s.waves[t])
    <3> SUFFICES ASSUME t \in Tasks, NEW m \in seats[t] PROVE LastIs(q.log, t, m, s.waves[t])
      BY <2>5 DEF InWave
    <3>1. r.waves = s.waves /\ \A x \in r.seats[t] : LastIs(r.log, t, x, s.waves[t])
      BY DEF Seating, InWave
    <3>2. CASE m = n.id
      BY <2>2, <2>5, <2>6, <3>1, <3>2, LastIsNew
    <3>3. CASE m # n.id
      BY <2>2, <2>3, <2>5, <2>6, <3>1, <3>3, LastStays
    <3>4. QED
      BY <3>2, <3>3
  <2>10. q.waves = s.waves
    BY <2>5 DEF Seating
  <2>11. QED
    BY <2>4, <2>5, <2>7, <2>8, <2>9, <2>10 DEF Seating
<1>3. QED
  BY <1>1, <1>2

(* A wave as a function of the telescopes it has looked at.                *)
WaveOf(g, s, t, picks) ==
    g = [i \in 0 .. Len(Fleet) |->
           IF i = 0 THEN [s EXCEPT !.waves[t] = @ + 1]
           ELSE IF i \in picks THEN Seat(g[i - 1], t, i) ELSE g[i - 1]]

LEMMA WaveExists ==
    ASSUME NEW s, NEW t, NEW picks, Len(Fleet) \in Nat
    PROVE  \E g : WaveOf(g, s, t, picks)
<1> DEFINE first == [s EXCEPT !.waves[t] = @ + 1]
           After(p, i) == IF i \in picks THEN Seat(p, t, i) ELSE p
           Upto(n, g) == g = [i \in 0 .. n |-> IF i = 0 THEN first ELSE After(g[i - 1], i)]
           P == {n \in Nat : \E g : Upto(n, g)}
<1>0. \A g : WaveOf(g, s, t, picks) <=> Upto(Len(Fleet), g)
  BY DEF WaveOf
<1> HIDE DEF first, After
<1>1. 0 \in P
  <2> DEFINE g == [i \in 0 .. 0 |-> first]
  <2>1. g = [i \in 0 .. 0 |-> IF i = 0 THEN first ELSE After(g[i - 1], i)]
    OBVIOUS
  <2> HIDE DEF g
  <2>2. QED
    BY <2>1
<1>2. ASSUME NEW n \in P PROVE n + 1 \in P
  <2>1. PICK g : n \in Nat /\ Upto(n, g)
    OBVIOUS
  <2> DEFINE h == [i \in 0 .. n + 1 |-> IF i = 0 THEN first ELSE After(g[i - 1], i)]
  <2>3. \A i \in 0 .. n : h[i] = g[i]
    <3>1. \A i \in 0 .. n : i \in 0 .. n + 1
      BY <2>1
    <3>2. QED
      BY <2>1, <3>1
  <2>4. \A i \in 0 .. n + 1 : i # 0 => i - 1 \in 0 .. n
    BY <2>1
  <2>5. \A i \in 0 .. n + 1 : i # 0 => g[i - 1] = h[i - 1]
    <3> HIDE DEF h
    <3> QED
      BY <2>3, <2>4
  <2>6. \A i \in 0 .. n + 1 : h[i] = IF i = 0 THEN first ELSE After(h[i - 1], i)
    <3> SUFFICES ASSUME NEW i \in 0 .. n + 1
                 PROVE  h[i] = IF i = 0 THEN first ELSE After(h[i - 1], i)
      OBVIOUS
    <3>1. h[i] = IF i = 0 THEN first ELSE After(g[i - 1], i)
      OBVIOUS
    <3> HIDE DEF h
    <3>2. QED
      BY <2>5, <3>1
  <2>7. h = [i \in 0 .. n + 1 |-> h[i]]
    OBVIOUS
  <2> HIDE DEF h
  <2>8. Upto(n + 1, h)
    BY <2>6, <2>7
  <2> HIDE DEF Upto
  <2>9. QED
    BY <2>1, <2>8
<1>3. P = Nat
  <2>1. P \in SUBSET Nat
    OBVIOUS
  <2> HIDE DEF P
  <2>2. QED
    BY <1>1, <1>2, <2>1, NatInduct
<1> HIDE DEF Upto
<1>4. QED
  BY <1>0, <1>3

(* Seats granted to a task that had none are of one wave.                  *)
LEMMA WaveKeeps ==
    ASSUME ~config.bug, Len(Fleet) \in Nat, NEW s, OneWave(s), NEW t,
           t \in Tasks => s.seats[t] = {}, NEW picks
    PROVE  OneWave(ApplyAssignments(s, t, picks))
<1> DEFINE g == CHOOSE f : WaveOf(f, s, t, picks)
           first == [s EXCEPT !.waves[t] = @ + 1]
           n == Len(Fleet)
           P == {i \in Nat : i <= n => Seating(first, g[i], t)}
<1>1. WaveOf(g, s, t, picks)
  <2>1. \E f : WaveOf(f, s, t, picks)
    BY WaveExists
  <2>2. QED
    BY <2>1
<1>2. ApplyAssignments(s, t, picks) = g[n]
  BY DEF ApplyAssignments, BugRequeue, WaveOf
<1> HIDE DEF g
<1>3. /\ g[0] = first
      /\ \A i \in 1 .. n : g[i] = g[i - 1] \/ g[i] = Seat(g[i - 1], t, i)
  <2>1. 0 \in 0 .. n /\ \A i \in 1 .. n : i \in 0 .. n /\ i # 0
    OBVIOUS
  <2> HIDE DEF first
  <2>2. QED
    BY <1>1, <2>1 DEF WaveOf, first
<1>4. Seating(first, first, t)
  <2> DEFINE waves == [s.waves EXCEPT ![t] = @ + 1]
  <2>1. first = [nodes |-> s.nodes, queue |-> s.queue, log |-> s.log, seats |-> s.seats,
                 waves |-> waves]
    BY DEF OneWave, SimShaped
  <2> HIDE DEF waves, first
  <2>2. SimShaped(first) /\ first.log = s.log /\ first.seats = s.seats
    BY <2>1 DEF SimShaped
  <2>3. \A u, w : InWave(s, u, w) => InWave(first, u, w)
    BY <2>2 DEF InWave
  <2>4. t \in Tasks => InWave(first, t, first.waves[t])
    BY <2>2 DEF InWave
  <2>5. QED
    BY <2>2, <2>3, <2>4 DEF Seating, OneWave, Logged
<1> HIDE DEF first
<1>5. 0 \in P
  BY <1>3, <1>4
<1>6. ASSUME NEW i \in P PROVE i + 1 \in P
  <2> SUFFICES ASSUME i + 1 <= n PROVE Seating(first, g[i + 1], t)
    OBVIOUS
  <2>1. i \in Nat /\ i <= n /\ i + 1 \in 1 .. n /\ (i + 1) - 1 = i
    OBVIOUS
  <2>2. Seating(first, g[i], t)
    BY <2>1
  <2>3. g[i + 1] = g[i] \/ g[i + 1] = Seat(g[i], t, i + 1)
    BY <1>3, <2>1
  <2> HIDE DEF P
  <2>4. QED
    BY <2>2, <2>3, SeatKeeps
<1>7. P = Nat
  <2>1. P \in SUBSET Nat
    OBVIOUS
  <2> HIDE DEF P
  <2>2. QED
    BY <1>5, <1>6, <2>1, NatInduct
<1>8. Seating(first, g[n], t)
  <2>1. n \in P /\ n <= n
    BY <1>7
  <2>2. QED
    BY <2>1
<1>9. QED
  BY <1>2, <1>8 DEF Seating, OneWave

(* What leaves the log and the seats alone.                                *)
LEMMA WaveOfOthers ==
    ASSUME NEW s, OneWave(s), NEW q, SimShaped(q), q.log = s.log, q.seats = s.seats
    PROVE  OneWave(q)
BY DEF OneWave, Logged, InWave

LEMMA QueueIsOther ==
    ASSUME NEW s, OneWave(s), NEW t, NEW at, NEW queue
    PROVE  /\ OneWave([s EXCEPT !.queue = queue]) /\ OneWave(Enqueue(s, t, at))
           /\ Enqueue(s, t, at).seats = s.seats /\ [s EXCEPT !.queue = queue].seats = s.seats
<1>1. \A x : OneWave([s EXCEPT !.queue = x]) /\ [s EXCEPT !.queue = x].seats = s.seats
  <2> SUFFICES ASSUME NEW x
               PROVE  OneWave([s EXCEPT !.queue = x]) /\ [s EXCEPT !.queue = x].seats = s.seats
    OBVIOUS
  <2> DEFINE q == [s EXCEPT !.queue = x]
  <2>1. q = [nodes |-> s.nodes, queue |-> x, log |-> s.log, seats |-> s.seats, waves |-> s.waves]
    BY DEF OneWave, SimShaped
  <2> HIDE DEF q
  <2>2. SimShaped(q) /\ q.log = s.log /\ q.seats = s.seats
    BY <2>1 DEF SimShaped
  <2>3. OneWave(q)
    BY <2>2, WaveOfOthers
  <2>4. QED
    BY <2>2, <2>3 DEF q
<1>2. Enqueue(s, t, at) = s \/ \E x : Enqueue(s, t, at) = [s EXCEPT !.queue = x]
  BY DEF Enqueue
<1>3. QED
  BY <1>1, <1>2

LEMMA NodesAreOther ==
    ASSUME NEW s, OneWave(s), NEW nodes
    PROVE  OneWave([s EXCEPT !.nodes = nodes])
<1> DEFINE q == [s EXCEPT !.nodes = nodes]
<1>1. q = [nodes |-> nodes, queue |-> s.queue, log |-> s.log, seats |-> s.seats, waves |-> s.waves]
  BY DEF OneWave, SimShaped
<1> HIDE DEF q
<1>2. SimShaped(q) /\ q.log = s.log /\ q.seats = s.seats
  BY <1>1 DEF SimShaped
<1>3. OneWave(q)
  BY <1>2, WaveOfOthers
<1>4. QED
  BY <1>3 DEF q

LEMMA TryAssignKeeps ==
    ASSUME ~config.bug, Len(Fleet) \in Nat, NEW s, OneWave(s), NEW t, NEW q \in TryAssign(s, t)
    PROVE  OneWave(q)
<1>1. CASE Taken(s, t)
  BY <1>1 DEF TryAssign
<1>2. CASE ~Taken(s, t)
  <2>1. s.seats[t] = {}
    BY <1>2 DEF Taken
  <2>2. q = s \/ \E picks : q = ApplyAssignments(s, t, picks)
    BY <1>2 DEF TryAssign
  <2>3. QED
    BY <2>1, <2>2, WaveKeeps
<1>3. QED
  BY <1>1, <1>2

WavesInv == ~config.bug => OneWave(sim)

LEMMA WavesInit ==
    ASSUME New PROVE WavesInv
<1>1. SimShaped(sim) /\ sim.log = << >> /\ sim.seats = [t \in Tasks |-> {}]
  BY DEF New, SimShaped
<1>2. << >> \in Seq({})
  OBVIOUS
<1>3. \A t \in Tasks : InWave(sim, t, 0)
  BY <1>1 DEF InWave
<1>4. QED
  BY <1>1, <1>2, <1>3 DEF WavesInv, OneWave, Logged

LEMMA WavesStep ==
    ASSUME Len(Fleet) \in Nat, WavesInv, [Run]_vars
    PROVE  WavesInv'
<1> SUFFICES ASSUME Run, ~config.bug, config' = config, OneWave(sim)
             PROVE  OneWave(sim')
  <2>1. config' = config
    BY DEF Run, vars, PromoteDeferred, IngestArrival, Settled, DrainOnce, Drained, Advance
  <2>2. ASSUME UNCHANGED vars PROVE WavesInv'
    BY <2>2 DEF vars, WavesInv, OneWave, SimShaped, Logged, InWave
  <2>3. WavesInv' <=> (~config'.bug => OneWave(sim'))
    BY DEF WavesInv, OneWave, SimShaped, Logged, InWave
  <2>4. QED
    BY <2>1, <2>2, <2>3 DEF WavesInv
<1>1. CASE PromoteDeferred
  <2>1. sim' = sim \/ \E t : sim' \in TryAssign(Enqueue(sim, t, now), t)
    BY <1>1 DEF PromoteDeferred
  <2>2. QED
    BY <2>1, QueueIsOther, TryAssignKeeps
<1>2. CASE \E t \in Tasks : IngestArrival(t)
  <2>1. sim' = sim \/ \E t, at : sim' \in TryAssign(Enqueue(sim, t, at), t)
    BY <1>2 DEF IngestArrival
  <2>2. QED
    BY <2>1, QueueIsOther, TryAssignKeeps
<1>3. \A s : OneWave(s) => OneWave(Settle(s))
  BY NodesAreOther DEF Settle
<1>4. CASE Settled
  BY <1>3, <1>4 DEF Settled
<1>5. CASE DrainOnce
  <2> DEFINE t == Head(sim.queue).task
             popped == [sim EXCEPT !.queue = Tail(@)]
             best == Best(popped, t)
  <2>1. OneWave(popped)
    BY QueueIsOther
  <2>2. CASE sim' = popped
    BY <2>1, <2>2
  <2>3. CASE sim' = Requeue(popped, t)
    <3> HIDE DEF popped, t
    <3> QED
      BY <2>1, <2>3, QueueIsOther DEF Requeue
  <2>4. CASE ~Taken(popped, t) /\ sim' = Settle(ApplyAssignments(popped, t, best))
    <3> HIDE DEF popped, t, best
    <3>1. popped.seats[t] = {}
      BY <2>4 DEF Taken
    <3>2. OneWave(ApplyAssignments(popped, t, best))
      BY <2>1, <3>1, WaveKeeps
    <3>3. QED
      BY <1>3, <2>4, <3>2
  <2>5. QED
    <3> HIDE DEF popped, best
    <3> QED
      BY <1>5, <2>2, <2>3, <2>4 DEF DrainOnce, popped, best
<1>6. CASE Drained
  BY <1>6 DEF Drained
<1>7. CASE Advance
  BY <1>7, NodesAreOther DEF Advance
<1>8. QED
  BY <1>1, <1>2, <1>4, <1>5, <1>6, <1>7 DEF Run

LEMMA WavesAreCounted ==
    ASSUME WavesInv PROVE WavesAreOne
<1> SUFFICES ASSUME OneWave(sim), NEW t \in Tasks
             PROVE  Cardinality({LastEntry(t, n).wave : n \in sim.seats[t]}) <= 1
  BY DEF WavesInv, WavesAreOne
<1>1. PICK w : \A n \in sim.seats[t] : LastIs(sim.log, t, n, w)
  BY DEF OneWave, InWave
<1>2. DOMAIN sim.log \subseteq Nat
  BY DEF OneWave, Logged
<1>3. ASSUME NEW n \in sim.seats[t] PROVE LastEntry(t, n).wave = w
  <2> DEFINE K == {k \in DOMAIN sim.log : sim.log[k].task = t /\ sim.log[k].node = n}
  <2>1. PICK k \in K : sim.log[k].wave = w /\ \A j \in K : j <= k
    BY <1>1 DEF LastIs, EntriesOf
  <2>2. K \subseteq Nat
    BY <1>2
  <2>3. LastEntry(t, n) = sim.log[Max(K)]
    BY DEF LastEntry
  <2> HIDE DEF K
  <2>4. Max(K) \in K /\ \A j \in K : Max(K) >= j
    BY <2>1, <2>2 DEF Max
  <2>5. Max(K) = k
    <3>1. Max(K) \in Nat /\ k \in Nat /\ Max(K) <= k /\ Max(K) >= k
      BY <2>1, <2>2, <2>4
    <3>2. QED
      BY <3>1
  <2>6. QED
    BY <2>1, <2>3, <2>5
<1> DEFINE W == {LastEntry(t, n).wave : n \in sim.seats[t]}
<1>4. W \in SUBSET {w}
  BY <1>3
<1> HIDE DEF W
<1>5. Cardinality({w}) = 1 /\ IsFiniteSet({w})
  BY FS_Singleton
<1>6. Cardinality(W) <= 1
  BY <1>4, <1>5, FS_Subset
<1>7. QED
  BY <1>6 DEF W

(* Without the defect switched on, the seats a task holds were granted in  *)
(* one wave: for any fleet, stream, configuration and horizon (tryAssign,  *)
(* applyAssignments).                                                      *)
THEOREM SimulatedWavesAreOne ==
    ASSUME Len(Fleet) \in Nat
    PROVE  Spec => []WavesAreOne
<1>1. New => WavesInv
  BY WavesInit
<1>2. WavesInv /\ [Run]_vars => WavesInv'
  BY WavesStep
<1>3. WavesInv => WavesAreOne
  BY WavesAreCounted
<1>4. QED
  BY <1>1, <1>2, <1>3, PTL DEF Spec

(* The same beside the questions of the run.                               *)
THEOREM AskedWavesAreOne ==
    ASSUME Len(Fleet) \in Nat
    PROVE  MCSpec => []WavesAreOne
<1>1. Init => WavesInv
  BY WavesInit DEF Init, NoSimulation, WavesInv
<1>2. WavesInv /\ [Next]_<<vars, question>> => WavesInv'
  BY WavesStep DEF Next
<1>3. WavesInv => WavesAreOne
  BY WavesAreCounted
<1>4. QED
  BY <1>1, <1>2, <1>3, PTL DEF MCSpec

-----------------------------------------------------------------------------
(***************************************************************************)
(* A published pack names the targets it was asked for, in their order.    *)
(***************************************************************************)
(* The members by their ranks: each once.                                  *)
LEMMA RanksEnumerate ==
    ASSUME NEW S, IsFiniteSet(S), NEW R, Orders(S, R),
           NEW f, f = [k \in 1 .. Cardinality(S) |-> CHOOSE t \in S : RankOf(S, R, t) = k - 1]
    PROVE  /\ Cardinality(S) \in Nat
           /\ f \in Injection(1 .. Cardinality(S), S) /\ f \in Surjection(1 .. Cardinality(S), S)
<1> DEFINE n == Cardinality(S)
<1>1. n \in Nat /\ IsFiniteSet(S) /\ Cardinality(1 .. n) = n
  BY FS_CardinalityType, FS_Interval
<1>2. \A k \in 1 .. n : f[k] \in S /\ RankOf(S, R, f[k]) = k - 1
  <2> SUFFICES ASSUME NEW k \in 1 .. n PROVE f[k] \in S /\ RankOf(S, R, f[k]) = k - 1
    OBVIOUS
  <2>1. \E t \in S : RankOf(S, R, t) = k - 1
    BY EveryRankIsTaken
  <2>2. QED
    BY <2>1
<1>3. f \in [1 .. n -> S]
  <2>1. DOMAIN f = 1 .. n /\ f = [k \in DOMAIN f |-> f[k]]
    OBVIOUS
  <2> HIDE DEF n
  <2>2. QED
    BY <1>2, <2>1
<1>4. \A j, k \in 1 .. n : f[j] = f[k] => j = k
  <2> SUFFICES ASSUME NEW j \in 1 .. n, NEW k \in 1 .. n, f[j] = f[k] PROVE j = k
    OBVIOUS
  <2>1. j \in Int /\ k \in Int
    OBVIOUS
  <2>2. j - 1 = k - 1
    BY <1>2
  <2>3. QED
    BY <2>1, <2>2
<1>5. f \in Injection(1 .. n, S)
  <2> HIDE DEF n
  <2> QED
    BY <1>3, <1>4 DEF Injection, IsInjective
<1>6. f \in Surjection(1 .. n, S)
  BY <1>1, <1>5, FS_Injection
<1>7. QED
  BY <1>1, <1>5, <1>6

(***************************************************************************)
(* The publishing of a pack                                                *)
(***************************************************************************)
(* A pack as it is stored: its fields, lists of targets and filters, and   *)
(* targets of different names.                                             *)
Stored(p) ==
    /\ p = [name |-> p.name, testOnly |-> p.testOnly, hookImageRef |-> p.hookImageRef,
            hookPlacement |-> p.hookPlacement, product |-> p.product, coverage |-> p.coverage,
            season |-> p.season, pierCode |-> p.pierCode, targets |-> p.targets]
    /\ \E S : p.targets \in Seq(S)
    /\ \A i \in DOMAIN p.targets :
          LET t == p.targets[i]
          IN  (\E S : t.filters \in Seq(S)) /\ t.exposure \in Int /\ t.frames \in Int
    /\ \A i, j \in DOMAIN p.targets : p.targets[i].id = p.targets[j].id => i = j

LEMMA WantedIsFinite ==
    ASSUME NEW p, Stored(p)
    PROVE  IsFiniteSet(Wanted(p))
<1> DEFINE Of(i) == {i} \X DOMAIN p.targets[i].filters
           D == DOMAIN p.targets
           F == {Of(i) : i \in D}
           f == [i \in D |-> Of(i)]
<1>1. IsFiniteSet(D)
  <2>1. Len(p.targets) \in Nat /\ D = 1 .. Len(p.targets)
    BY DEF Stored
  <2>2. IsFiniteSet(1 .. Len(p.targets))
    BY <2>1, FS_Interval
  <2>3. QED
    BY <2>1, <2>2
<1>2. \A i \in D : IsFiniteSet(Of(i))
  <2> SUFFICES ASSUME NEW i \in D PROVE IsFiniteSet(Of(i))
    OBVIOUS
  <2>1. Len(p.targets[i].filters) \in Nat /\ DOMAIN p.targets[i].filters = 1 .. Len(p.targets[i].filters)
    BY DEF Stored
  <2>2. IsFiniteSet(1 .. Len(p.targets[i].filters))
    BY <2>1, FS_Interval
  <2>3. IsFiniteSet({i})
    BY FS_Singleton
  <2>4. QED
    BY <2>1, <2>2, <2>3, FS_Product
<1> HIDE DEF Of, D
<1>3. f \in Surjection(D, F)
  BY DEF Surjection
<1>4. IsFiniteSet(F)
  <2> HIDE DEF F, f
  <2> QED
    BY <1>1, <1>3, FS_Surjection
<1>5. IsFiniteSet(UNION F)
  <2>1. \A T \in F : IsFiniteSet(T)
    BY <1>2
  <2> HIDE DEF F
  <2>2. QED
    BY <1>4, <2>1, FS_UNION
<1>6. Wanted(p) \in SUBSET UNION F
  BY DEF Wanted, Of, D
<1> HIDE DEF F
<1>7. QED
  BY <1>5, <1>6, FS_Subset

LEMMA WantedInOrder ==
    ASSUME NEW p, Stored(p), NEW f,
           f = [k \in 1 .. Cardinality(Wanted(p)) |-> KthWanted(p, k)]
    PROVE  /\ Cardinality(Wanted(p)) \in Nat
           /\ f \in Injection(1 .. Cardinality(Wanted(p)), Wanted(p))
           /\ f \in Surjection(1 .. Cardinality(Wanted(p)), Wanted(p))
<1> DEFINE W == Wanted(p)
           R == {r \in W \X W : Sooner(r[1], r[2])}
<1>1. \A x \in W : /\ x[1] \in Int /\ x[2] \in Int /\ x = <<x[1], x[2]>>
  <2> SUFFICES ASSUME NEW x \in W PROVE x[1] \in Int /\ x[2] \in Int /\ x = <<x[1], x[2]>>
    OBVIOUS
  <2>1. PICK i \in DOMAIN p.targets : x \in {i} \X DOMAIN p.targets[i].filters
    BY DEF Wanted
  <2>2. i \in Int /\ DOMAIN p.targets[i].filters \subseteq Int
    BY DEF Stored
  <2>3. QED
    BY <2>1, <2>2
<1>2. \A a, b \in W : <<a, b>> \in R <=> Sooner(a, b)
  OBVIOUS
<1> HIDE DEF W, R
<1>3. Orders(W, R)
  <2>1. \A a \in W : ~Sooner(a, a)
    BY <1>1 DEF Sooner
  <2>2. \A a, b, c \in W : Sooner(a, b) /\ Sooner(b, c) => Sooner(a, c)
    BY <1>1 DEF Sooner
  <2>3. \A a, b \in W : a # b => Sooner(a, b) \/ Sooner(b, a)
    BY <1>1 DEF Sooner
  <2>4. QED
    BY <1>2, <2>1, <2>2, <2>3 DEF Orders
<1>4. \A t \in W : {u \in W : <<u, t>> \in R} = {u \in W : Sooner(u, t)}
  BY <1>2
<1>5. \A t \in W : RankOf(W, R, t) = Cardinality({u \in W : Sooner(u, t)})
  BY <1>4 DEF RankOf
<1>6. \A k : KthWanted(p, k) = CHOOSE t \in W : RankOf(W, R, t) = k - 1
  <2> SUFFICES ASSUME NEW k
               PROVE  KthWanted(p, k) = CHOOSE t \in W : RankOf(W, R, t) = k - 1
    OBVIOUS
  <2>1. KthWanted(p, k) = CHOOSE t \in W : Cardinality({u \in W : Sooner(u, t)}) = k - 1
    BY DEF KthWanted, W
  <2>2. \A t : (t \in W /\ Cardinality({u \in W : Sooner(u, t)}) = k - 1)
               <=> (t \in W /\ RankOf(W, R, t) = k - 1)
    BY <1>5
  <2>3. QED
    BY <2>1, <2>2
<1>7. f = [k \in 1 .. Cardinality(W) |-> CHOOSE t \in W : RankOf(W, R, t) = k - 1]
  BY <1>6 DEF W
<1>8. IsFiniteSet(W)
  BY WantedIsFinite DEF W
<1>9. QED
  BY <1>3, <1>7, <1>8, RanksEnumerate DEF W

LEMMA WantedPlaces ==
    ASSUME NEW p, NEW x \in Wanted(p)
    PROVE  /\ x[1] \in DOMAIN p.targets /\ x[2] \in DOMAIN p.targets[x[1]].filters
           /\ p.targets[x[1]].filters[x[2]] # "" /\ x = <<x[1], x[2]>>
<1>1. PICK i \in DOMAIN p.targets : x \in {i} \X DOMAIN p.targets[i].filters
  BY DEF Wanted
<1>2. x = <<x[1], x[2]>> /\ x[1] = i /\ x[2] \in DOMAIN p.targets[i].filters
  BY <1>1
<1>3. p.targets[x[1]].filters[x[2]] # ""
  BY DEF Wanted
<1>4. QED
  BY <1>2, <1>3

LEMMA SpecFields ==
    ASSUME NEW p, NEW t, NEW filter
    PROVE  /\ TaskSpec(p, t, filter).target = t.id
           /\ TaskSpec(p, t, filter).budget = t.frames * t.exposure
           /\ TaskSpec(p, t, filter).allowEmulator = p.testOnly
BY DEF TaskSpec

IsSpecOf(p, spec) ==
    \E i \in DOMAIN p.targets : \E filter : spec = TaskSpec(p, p.targets[i], filter)
NamedOf(t) == {j \in DOMAIN t.filters : t.filters[j] # ""}
SpecsFor(specs, id) == {k \in DOMAIN specs : specs[k].target = id}

(* Of each target, as many specs as it names filters; and every spec is of *)
(* a named filter of a target.                                             *)
LEMMA SpecsOfTheTargets ==
    ASSUME NEW p, Stored(p), NEW specs,
           specs = [k \in 1 .. Cardinality(Wanted(p)) |-> SpecOf(p, KthWanted(p, k))]
    PROVE  /\ \A k \in DOMAIN specs : IsSpecOf(p, specs[k])
           /\ \A i \in DOMAIN p.targets :
                 Cardinality(SpecsFor(specs, p.targets[i].id)) = Cardinality(NamedOf(p.targets[i]))
<1> DEFINE W == Wanted(p)
           n == Cardinality(W)
           f == [k \in 1 .. n |-> KthWanted(p, k)]
<1>1. n \in Nat /\ f \in Injection(1 .. n, W) /\ f \in Surjection(1 .. n, W)
  BY WantedInOrder
<1>2. /\ \A k \in 1 .. n : f[k] \in W
      /\ \A j, k \in 1 .. n : f[j] = f[k] => j = k
      /\ \A x \in W : \E k \in 1 .. n : f[k] = x
  BY <1>1 DEF Injection, IsInjective, Surjection
<1>3. \A k \in 1 .. n : KthWanted(p, k) = f[k]
  OBVIOUS
<1>4. DOMAIN specs = 1 .. n /\ \A k \in 1 .. n : specs[k] = SpecOf(p, f[k])
  BY <1>3
<1>5. \A x \in W : /\ x[1] \in DOMAIN p.targets /\ x[2] \in DOMAIN p.targets[x[1]].filters
                   /\ p.targets[x[1]].filters[x[2]] # "" /\ x = <<x[1], x[2]>>
  BY WantedPlaces
<1>6. \A i \in DOMAIN p.targets : \A j \in DOMAIN p.targets[i].filters :
         p.targets[i].filters[j] # "" => <<i, j>> \in W
  <2> SUFFICES ASSUME NEW i \in DOMAIN p.targets, NEW j \in DOMAIN p.targets[i].filters,
                      p.targets[i].filters[j] # ""
               PROVE  <<i, j>> \in W
    OBVIOUS
  <2>1. <<i, j>> \in {i} \X DOMAIN p.targets[i].filters
    OBVIOUS
  <2>2. <<i, j>> \in UNION {{l} \X DOMAIN p.targets[l].filters : l \in DOMAIN p.targets}
    BY <2>1
  <2>3. QED
    BY <2>2 DEF Wanted
<1> HIDE DEF W, n, f
<1>7. \A k \in 1 .. n : specs[k] = TaskSpec(p, p.targets[f[k][1]], p.targets[f[k][1]].filters[f[k][2]])
  BY <1>4 DEF SpecOf
<1>8. ASSUME NEW i \in DOMAIN p.targets
      PROVE  Cardinality(SpecsFor(specs, p.targets[i].id)) = Cardinality(NamedOf(p.targets[i]))
  <2> DEFINE K == SpecsFor(specs, p.targets[i].id)
             J == NamedOf(p.targets[i])
             g == [k \in K |-> f[k][2]]
  <2>1. \A k \in 1 .. n : specs[k].target = p.targets[f[k][1]].id
    BY <1>7, SpecFields
  <2>2. \A k \in 1 .. n : k \in K <=> f[k][1] = i
    <3> SUFFICES ASSUME NEW k \in 1 .. n PROVE k \in K <=> f[k][1] = i
      OBVIOUS
    <3>1. f[k][1] \in DOMAIN p.targets
      BY <1>2, <1>5
    <3>2. p.targets[f[k][1]].id = p.targets[i].id <=> f[k][1] = i
      BY <3>1 DEF Stored
    <3>3. k \in K <=> specs[k].target = p.targets[i].id
      BY <1>4 DEF SpecsFor
    <3>4. QED
      BY <2>1, <3>2, <3>3
  <2>3. K \in SUBSET (1 .. n)
    BY <1>4 DEF SpecsFor
  <2> HIDE DEF K
  <2>4. \A k \in K : f[k] = <<i, f[k][2]>> /\ f[k][2] \in J
    <3> SUFFICES ASSUME NEW k \in K PROVE f[k] = <<i, f[k][2]>> /\ f[k][2] \in J
      OBVIOUS
    <3>1. k \in 1 .. n /\ f[k][1] = i /\ f[k] \in W
      BY <1>2, <2>2, <2>3
    <3>2. QED
      BY <1>5, <3>1 DEF NamedOf
  <2>5. g \in Injection(K, J)
    <3>1. g \in [K -> J]
      BY <2>4
    <3>2. \A a, b \in K : g[a] = g[b] => a = b
      <4> SUFFICES ASSUME NEW a \in K, NEW b \in K, g[a] = g[b] PROVE a = b
        OBVIOUS
      <4>1. f[a][2] = f[b][2]
        OBVIOUS
      <4>2. f[a] = f[b]
        BY <2>4, <4>1
      <4>3. QED
        BY <1>2, <2>3, <4>2
    <3> HIDE DEF g, J
    <3>3. QED
      BY <3>1, <3>2 DEF Injection, IsInjective
  <2>6. \A j \in J : \E k \in K : g[k] = j
    <3> SUFFICES ASSUME NEW j \in J PROVE \E k \in K : g[k] = j
      OBVIOUS
    <3>1. <<i, j>> \in W
      BY <1>6 DEF NamedOf
    <3>2. PICK k \in 1 .. n : f[k] = <<i, j>>
      BY <1>2, <3>1
    <3>3. f[k][1] = i /\ f[k][2] = j
      BY <3>2
    <3>4. k \in K
      BY <2>2, <3>3
    <3>5. g[k] = f[k][2]
      BY <3>4
    <3>6. QED
      BY <3>3, <3>4, <3>5
  <2>7. g \in Bijection(K, J)
    <3> HIDE DEF g, J
    <3>1. g \in [K -> J]
      BY <2>5 DEF Injection
    <3>2. QED
      BY <2>5, <2>6, <3>1 DEF Bijection, Surjection
  <2>8. IsFiniteSet(K)
    <3>1. IsFiniteSet(1 .. n)
      BY <1>1, FS_Interval
    <3>2. QED
      BY <2>3, <3>1, FS_Subset
  <2>9. Cardinality(J) = Cardinality(K)
    <3> HIDE DEF g, J
    <3>1. ExistsBijection(K, J)
      BY <2>7 DEF ExistsBijection
    <3>2. QED
      BY <2>8, <3>1, FS_Bijection
  <2>10. QED
    BY <2>9 DEF K
<1>9. ASSUME NEW k \in DOMAIN specs PROVE IsSpecOf(p, specs[k])
  <2>1. k \in 1 .. n /\ f[k][1] \in DOMAIN p.targets
    BY <1>2, <1>4, <1>5
  <2>2. QED
    BY <1>7, <2>1 DEF IsSpecOf
<1>10. QED
  BY <1>8, <1>9

(* Whatever is published is sound: any pack with any targets and filters,  *)
(* approved or not, test or not (Publish, ExpandPack).                     *)
THEOREM PublishingIsSound ==
    ASSUME question.about = "pack" => Stored(question.pack) /\ question.testOnly \in BOOLEAN
    PROVE  PublishedPackIsSound
<1> DEFINE p == question.pack
           tasks == Publish(p, question.keys, question.testOnly, question.approved, Circle)
           Of(t) == {k \in DOMAIN tasks : tasks[k].target = t.id}
           Named(t) == {i \in DOMAIN t.filters : t.filters[i] # ""}
<1> SUFFICES ASSUME question.about = "pack", tasks # Invalid
    PROVE /\ question.keys \subseteq ClientPackKeys \cup {"coverage_plan"}
          /\ p.hookImageRef # "" <=> Placement(p) # "none"
          /\ p.hookPlacement # "moon"
          /\ \A k \in DOMAIN tasks : tasks[k].allowEmulator = question.testOnly
          /\ Placement(p) = "compute" => question.approved
          /\ \A i \in DOMAIN p.targets :
               LET t == p.targets[i] IN
               /\ Cardinality(Of(t)) = Cardinality(Named(t))
               /\ \A k \in Of(t) : /\ tasks[k].budget = t.frames * t.exposure
                                   /\ tasks[k].budget > 0
               /\ t.saturation # Absent /\ t.saturation.max # Absent =>
                    t.exposure <= t.saturation.max
  BY DEF PublishedPackIsSound
<1> DEFINE q == [p EXCEPT !.testOnly = question.testOnly]
<1>1. Stored(p) /\ question.testOnly \in BOOLEAN
  OBVIOUS
<1>2. /\ validatePackObjectKeys(question.keys, TRUE) /\ ValidateHookPublish(p, question.approved)
      /\ tasks = ExpandPack(q, Circle)
  BY DEF Publish
<1>3. q = [name |-> p.name, testOnly |-> question.testOnly, hookImageRef |-> p.hookImageRef,
           hookPlacement |-> p.hookPlacement, product |-> p.product, coverage |-> p.coverage,
           season |-> p.season, pierCode |-> p.pierCode, targets |-> p.targets]
  BY <1>1 DEF Stored
<1>4. ValidatePack(q, Circle) /\ tasks = [k \in 1 .. Cardinality(Wanted(q)) |-> SpecOf(q, KthWanted(q, k))]
  BY <1>2 DEF ExpandPack
<1> HIDE DEF tasks, q
<1>5. q.targets = p.targets /\ q.testOnly = question.testOnly /\ Stored(q)
  BY <1>1, <1>3 DEF Stored
<1>6. question.keys \subseteq ClientPackKeys \cup {"coverage_plan"}
  BY <1>2 DEF validatePackObjectKeys, ServerPackKeys
<1>7. /\ p.hookImageRef # "" <=> Placement(p) # "none"
      /\ p.hookPlacement # "moon"
      /\ Placement(p) = "compute" => question.approved
  BY <1>2 DEF ValidateHookPublish, ValidateHookFields, HasScienceHook, Placement
<1>8. /\ \A k \in DOMAIN tasks : IsSpecOf(q, tasks[k])
      /\ \A i \in DOMAIN p.targets :
            Cardinality(SpecsFor(tasks, p.targets[i].id)) = Cardinality(NamedOf(p.targets[i]))
  <2>1. Stored(q) /\ tasks = [k \in 1 .. Cardinality(Wanted(q)) |-> SpecOf(q, KthWanted(q, k))]
    BY <1>4, <1>5
  <2>2. /\ \A k \in DOMAIN tasks : IsSpecOf(q, tasks[k])
        /\ \A i \in DOMAIN q.targets :
              Cardinality(SpecsFor(tasks, q.targets[i].id)) = Cardinality(NamedOf(q.targets[i]))
    BY <2>1, SpecsOfTheTargets
  <2>3. QED
    BY <1>5, <2>2
<1>9. \A k \in DOMAIN tasks : tasks[k].allowEmulator = question.testOnly
  BY <1>5, <1>8, SpecFields DEF IsSpecOf
<1>10. ASSUME NEW i \in DOMAIN p.targets
       PROVE  LET t == p.targets[i] IN
               /\ Cardinality(Of(t)) = Cardinality(Named(t))
               /\ \A k \in Of(t) : /\ tasks[k].budget = t.frames * t.exposure
                                   /\ tasks[k].budget > 0
               /\ t.saturation # Absent /\ t.saturation.max # Absent =>
                    t.exposure <= t.saturation.max
  <2> DEFINE t == p.targets[i]
  <2>1. Cardinality(Of(t)) = Cardinality(Named(t))
    BY <1>8 DEF SpecsFor, NamedOf
  <2>2. ValidateTarget(t)
    BY <1>4, <1>5 DEF ValidatePack
  <2>3. t.frames \in Int /\ t.exposure \in Int /\ t.exposure > 0 /\ t.frames > 0
    BY <1>1, <2>2 DEF Stored, ValidateTarget
  <2>4. ASSUME NEW k \in Of(t) PROVE tasks[k].budget = t.frames * t.exposure
    <3>1. IsSpecOf(q, tasks[k]) /\ tasks[k].target = t.id
      BY <1>8
    <3>2. PICK j \in DOMAIN p.targets : \E filter : tasks[k] = TaskSpec(q, p.targets[j], filter)
      BY <1>5, <3>1 DEF IsSpecOf
    <3>3. p.targets[j].id = t.id /\ tasks[k].budget = p.targets[j].frames * p.targets[j].exposure
      BY <3>1, <3>2, SpecFields
    <3>4. i = j
      BY <1>1, <3>3 DEF Stored
    <3>5. QED
      BY <3>3, <3>4
  <2>5. t.frames * t.exposure > 0
    BY <2>3
  <2>6. t.saturation # Absent /\ t.saturation.max # Absent => t.exposure <= t.saturation.max
    BY <2>2 DEF ValidateTarget
  <2>7. QED
    BY <2>1, <2>4, <2>5, <2>6
<1>11. QED
  BY <1>6, <1>7, <1>9, <1>10

-----------------------------------------------------------------------------
(***************************************************************************)
(* Coverage: what the greedy choice keeps.                                 *)
(***************************************************************************)
(* Sites of the pool, none twice, as many as are wanted.                   *)
SitesIn(sites, pool) == {sites[i] : i \in pool}
GoodChoice(chosen, sites, pool, max) ==
    /\ chosen \in Seq(SitesIn(sites, pool))
    /\ Len(chosen) <= max
    /\ \A i, j \in DOMAIN chosen : i # j => chosen[i].id # chosen[j].id

LEMMA PickOneKeeps ==
    ASSUME NEW intent, intent.maxSites \in Nat, NEW sites, NEW pool, NEW chosen,
           GoodChoice(chosen, sites, pool, intent.maxSites)
    PROVE  GoodChoice(PickOne(intent, sites, Free(sites, pool, chosen), chosen),
                      sites, pool, intent.maxSites)
<1> DEFINE free == Free(sites, pool, chosen)
           S == SitesIn(sites, pool)
           q == PickOne(intent, sites, free, chosen)
           Rate(i) == Score(intent, sites[i], chosen)
           best == {i \in free : \A j \in free : \/ Rate(i) > Rate(j)
                                                 \/ Rate(i) = Rate(j) /\ i <= j}
           b == CHOOSE i \in best : TRUE
<1>1. CASE q = chosen
  BY <1>1
<1>2. CASE q # chosen
  <2>1. q = IF Len(chosen) >= intent.maxSites \/ best = {} THEN chosen
            ELSE Append(chosen, sites[b])
    BY DEF PickOne
  <2>2. ~(Len(chosen) >= intent.maxSites) /\ best # {} /\ q = Append(chosen, sites[b])
    BY <1>2, <2>1
  <2>3. b \in free
    BY <2>2
  <2> HIDE DEF b, best, q
  <2>4. b \in pool /\ \A i \in DOMAIN chosen : chosen[i].id # sites[b].id
    BY <2>3 DEF Free, IdsOf
  <2> DEFINE e == sites[b]
  <2>5. e \in S
    BY <2>4 DEF SitesIn
  <2> HIDE DEF e, S
  <2>6. chosen \in Seq(S) /\ Len(chosen) \in Nat /\ DOMAIN chosen = 1 .. Len(chosen)
    BY DEF GoodChoice, S
  <2> DEFINE r == Append(chosen, e)
  <2>7. /\ r \in Seq(S) /\ Len(r) = Len(chosen) + 1 /\ DOMAIN r = 1 .. Len(chosen) + 1
        /\ r[Len(chosen) + 1] = e /\ \A i \in 1 .. Len(chosen) : r[i] = chosen[i]
    BY <2>5, <2>6
  <2> HIDE DEF r
  <2>8. Len(r) <= intent.maxSites
    BY <2>2, <2>6, <2>7
  <2>9. ASSUME NEW i \in DOMAIN r, NEW j \in DOMAIN r, i # j
        PROVE  r[i].id # r[j].id
    <3>1. CASE i \in 1 .. Len(chosen) /\ j \in 1 .. Len(chosen)
      BY <2>6, <2>7, <2>9, <3>1 DEF GoodChoice
    <3>2. CASE i = Len(chosen) + 1 /\ j \in 1 .. Len(chosen)
      BY <2>4, <2>6, <2>7, <3>2 DEF e
    <3>3. CASE j = Len(chosen) + 1 /\ i \in 1 .. Len(chosen)
      BY <2>4, <2>6, <2>7, <3>3 DEF e
    <3>4. QED
      BY <2>6, <2>7, <2>9, <3>1, <3>2, <3>3
  <2>10. q = r
    BY <2>2 DEF r, e
  <2>11. GoodChoice(r, sites, pool, intent.maxSites)
    BY <2>7, <2>8, <2>9 DEF GoodChoice, S
  <2>12. QED
    BY <2>10, <2>11 DEF q
<1>3. QED
  BY <1>1, <1>2

(* The choice as a function of the sites it has picked.                    *)
PickOf(n, g, intent, sites, pool, already) ==
    g = [k \in 0 .. n |->
           IF k = 0 THEN already
           ELSE PickOne(intent, sites, Free(sites, pool, g[k - 1]), g[k - 1])]

LEMMA PickExists ==
    ASSUME NEW intent, NEW sites, NEW pool, NEW already
    PROVE  \A n \in Nat : \E g : PickOf(n, g, intent, sites, pool, already)
<1> DEFINE After(c) == PickOne(intent, sites, Free(sites, pool, c), c)
           P == {n \in Nat : \E g : PickOf(n, g, intent, sites, pool, already)}
<1>0. \A n, g : PickOf(n, g, intent, sites, pool, already) <=>
                g = [k \in 0 .. n |-> IF k = 0 THEN already ELSE After(g[k - 1])]
  BY DEF PickOf
<1> HIDE DEF After
<1>1. 0 \in P
  <2> DEFINE g == [k \in 0 .. 0 |-> already]
  <2>1. g = [k \in 0 .. 0 |-> IF k = 0 THEN already ELSE After(g[k - 1])]
    OBVIOUS
  <2> HIDE DEF g
  <2>2. QED
    BY <1>0, <2>1
<1>2. ASSUME NEW n \in P PROVE n + 1 \in P
  <2>1. PICK g : PickOf(n, g, intent, sites, pool, already)
    OBVIOUS
  <2>2. n \in Nat /\ g = [k \in 0 .. n |-> IF k = 0 THEN already ELSE After(g[k - 1])]
    BY <1>0, <2>1
  <2> DEFINE h == [k \in 0 .. n + 1 |-> IF k = 0 THEN already ELSE After(g[k - 1])]
  <2>3. \A k \in 0 .. n : h[k] = g[k]
    <3>1. \A k \in 0 .. n : k \in 0 .. n + 1
      BY <2>2
    <3>2. QED
      BY <2>2, <3>1
  <2>4. \A k \in 0 .. n + 1 : k # 0 => k - 1 \in 0 .. n
    BY <2>2
  <2>5. \A k \in 0 .. n + 1 : k # 0 => g[k - 1] = h[k - 1]
    <3> HIDE DEF h
    <3> QED
      BY <2>3, <2>4
  <2>6. \A k \in 0 .. n + 1 : h[k] = IF k = 0 THEN already ELSE After(h[k - 1])
    <3> SUFFICES ASSUME NEW k \in 0 .. n + 1
                 PROVE  h[k] = IF k = 0 THEN already ELSE After(h[k - 1])
      OBVIOUS
    <3>1. h[k] = IF k = 0 THEN already ELSE After(g[k - 1])
      OBVIOUS
    <3> HIDE DEF h
    <3>2. QED
      BY <2>5, <3>1
  <2>7. h = [k \in 0 .. n + 1 |-> h[k]]
    OBVIOUS
  <2> HIDE DEF h
  <2>8. h = [k \in 0 .. n + 1 |-> IF k = 0 THEN already ELSE After(h[k - 1])]
    BY <2>6, <2>7
  <2>9. n + 1 \in Nat /\ PickOf(n + 1, h, intent, sites, pool, already)
    <3>1. n + 1 \in Nat
      BY <2>2
    <3>2. PickOf(n + 1, h, intent, sites, pool, already) <=>
             h = [k \in 0 .. n + 1 |-> IF k = 0 THEN already ELSE After(h[k - 1])]
      BY <1>0
    <3>3. QED
      BY <2>8, <3>1, <3>2
  <2>10. QED
    BY <2>9
<1>3. P = Nat
  <2>1. P \in SUBSET Nat
    OBVIOUS
  <2> HIDE DEF P
  <2>2. QED
    BY <1>1, <1>2, <2>1, NatInduct
<1>4. QED
  BY <1>3

LEMMA PickKeeps ==
    ASSUME NEW intent, intent.maxSites \in Nat, NEW sites, NEW pool, NEW n \in Nat, NEW already,
           GoodChoice(already, sites, pool, intent.maxSites)
    PROVE  GoodChoice(Pick(intent, sites, pool, n, already), sites, pool, intent.maxSites)
<1> DEFINE g == CHOOSE f : PickOf(n, f, intent, sites, pool, already)
           Good(c) == GoodChoice(c, sites, pool, intent.maxSites)
           P == {k \in Nat : k <= n => Good(g[k])}
<1>1. PickOf(n, g, intent, sites, pool, already)
  <2>1. \E f : PickOf(n, f, intent, sites, pool, already)
    BY PickExists
  <2>2. QED
    BY <2>1
<1>2. Pick(intent, sites, pool, n, already) = g[n]
  BY DEF Pick, PickOf
<1> HIDE DEF g
<1>3. /\ g[0] = already
      /\ \A k \in 1 .. n : g[k] = PickOne(intent, sites, Free(sites, pool, g[k - 1]), g[k - 1])
  <2>1. 0 \in 0 .. n /\ \A k \in 1 .. n : k \in 0 .. n /\ k # 0
    OBVIOUS
  <2>2. QED
    BY <1>1, <2>1 DEF PickOf
<1>4. 0 \in P
  BY <1>3
<1>5. ASSUME NEW k \in P PROVE k + 1 \in P
  <2> SUFFICES ASSUME k + 1 <= n PROVE Good(g[k + 1])
    OBVIOUS
  <2>1. k \in Nat /\ k <= n /\ k + 1 \in 1 .. n /\ (k + 1) - 1 = k
    OBVIOUS
  <2>2. Good(g[k])
    BY <2>1
  <2>3. g[k + 1] = PickOne(intent, sites, Free(sites, pool, g[k]), g[k])
    BY <1>3, <2>1
  <2> HIDE DEF P
  <2>4. QED
    BY <2>2, <2>3, PickOneKeeps
<1>6. P = Nat
  <2>1. P \in SUBSET Nat
    OBVIOUS
  <2> HIDE DEF P
  <2>2. QED
    BY <1>4, <1>5, <2>1, NatInduct
<1>7. Good(g[n])
  <2>1. n \in P /\ n <= n
    BY <1>6
  <2>2. QED
    BY <2>1
<1>8. QED
  BY <1>2, <1>7

LEMMA NoSiteTwice ==
    ASSUME NEW chosen, NEW sites, NEW pool, NEW max, GoodChoice(chosen, sites, pool, max)
    PROVE  Cardinality({s.id : s \in ToSet(chosen)}) = Len(chosen)
<1> DEFINE n == Len(chosen)
           ids == {s.id : s \in ToSet(chosen)}
           f == [i \in 1 .. n |-> chosen[i].id]
<1>1. n \in Nat /\ DOMAIN chosen = 1 .. n
  BY DEF GoodChoice
<1>2. ids = {chosen[i].id : i \in 1 .. n}
  BY <1>1 DEF ToSet
<1> HIDE DEF ids, n
<1>3. f \in [1 .. n -> ids]
  BY <1>2
<1>4. f \in Surjection(1 .. n, ids)
  <2>1. \A x \in ids : \E i \in 1 .. n : f[i] = x
    BY <1>2
  <2> HIDE DEF f
  <2>2. QED
    BY <1>3, <2>1 DEF Surjection
<1>5. f \in Injection(1 .. n, ids)
  <2>1. \A i, j \in 1 .. n : f[i] = f[j] => i = j
    BY <1>1 DEF GoodChoice
  <2> HIDE DEF f
  <2>2. QED
    BY <1>3, <2>1 DEF Injection, IsInjective
<1>6. IsFiniteSet(1 .. n) /\ Cardinality(1 .. n) = n
  BY <1>1, FS_Interval
<1> HIDE DEF f
<1>7. Cardinality(ids) = n
  BY <1>4, <1>5, <1>6, FS_Surjection
<1>8. QED
  BY <1>7 DEF ids, n

(***************************************************************************)
(* The arc that holds the sites                                            *)
(***************************************************************************)
LEMMA CircleIsPositive == Circle \in Nat /\ Circle > 0
BY CircleAssumption

Offset(y, from) == IF y >= from THEN y - from ELSE y - from + Circle

LEMMA OffsetOf ==
    ASSUME NEW lon \in Int, -Circle <= lon, lon <= Circle, NEW from \in 0 .. Circle - 1
    PROVE  /\ lon % Circle \in 0 .. Circle - 1
           /\ (lon - from) % Circle = Offset(lon % Circle, from)
<1> DEFINE r == lon % Circle
<1>0. Circle \in Nat /\ Circle > 0 /\ from \in Int /\ 0 <= from /\ from < Circle
  BY CircleIsPositive
<1>1. r \in 0 .. Circle - 1
  BY <1>0, ModRange
<1>2. r = lon \/ r = lon + Circle \/ r = lon - Circle
  <2>1. CASE lon < 0
    BY <1>0, <2>1, ModWraps
  <2>2. CASE 0 <= lon /\ lon < Circle
    BY <1>0, <2>2, ModWithin
  <2>3. CASE lon = Circle
    BY <1>0, <2>3, ModWraps
  <2>4. QED
    BY <1>0, <2>1, <2>2, <2>3
<1> HIDE DEF r
<1>3. \A a \in Int : 0 <= a /\ a < Circle => a % Circle = a
  BY <1>0, ModWithin
<1>4. \A a \in Int : /\ -Circle <= a /\ a < 0 => a % Circle = a + Circle
                     /\ -(2 * Circle) <= a /\ a < -Circle => a % Circle = a + 2 * Circle
                     /\ Circle <= a /\ a < 2 * Circle => a % Circle = a - Circle
  <2>1. \A a \in Int : -(2 * Circle) <= a /\ a < -Circle => a % Circle = a + 2 * Circle
    BY <1>0
  <2>2. QED
    BY <1>0, <2>1, ModWraps
<1>5. Offset(r, from) \in 0 .. Circle - 1
  BY <1>0, <1>1 DEF Offset
<1>6. \/ lon - from = Offset(r, from) \/ lon - from = Offset(r, from) - Circle
      \/ lon - from = Offset(r, from) + Circle \/ lon - from = Offset(r, from) - 2 * Circle
  BY <1>0, <1>1, <1>2 DEF Offset
<1> DEFINE d == lon - from
<1>7. d \in Int
  BY <1>0
<1>8. d % Circle = Offset(r, from)
  <2> HIDE DEF d
  <2>1. d = Offset(r, from) \/ d = Offset(r, from) - Circle \/ d = Offset(r, from) + Circle
        \/ d = Offset(r, from) - 2 * Circle
    BY <1>6 DEF d
  <2>2. QED
    BY <1>0, <1>3, <1>4, <1>5, <1>7, <2>1
<1>9. QED
  BY <1>1, <1>8 DEF r

LEMMA LeastOf ==
    ASSUME NEW T \in SUBSET Nat, T # {}
    PROVE  Min(T) \in T /\ \A y \in T : Min(T) <= y
<1>1. \E x \in T : \A y \in T : x <= y
  BY LeastElement
<1>2. QED
  BY <1>1 DEF Min

LEMMA GreatestOf ==
    ASSUME NEW b \in Nat, NEW T \in SUBSET (0 .. b), T # {}
    PROVE  Max(T) \in T /\ \A y \in T : Max(T) >= y
<1> DEFINE U == {b - x : x \in T}
<1>1. U \in SUBSET Nat /\ U # {}
  <2>1. \A x \in T : b - x \in Nat
    OBVIOUS
  <2>2. PICK x \in T : TRUE
    OBVIOUS
  <2>3. b - x \in U
    OBVIOUS
  <2>4. QED
    BY <2>1, <2>3
<1>2. PICK m \in U : \A u \in U : m <= u
  <2> HIDE DEF U
  <2> QED
    BY <1>1, LeastElement
<1>3. PICK x \in T : m = b - x
  OBVIOUS
<1>4. \A y \in T : x >= y
  <2> SUFFICES ASSUME NEW y \in T PROVE x >= y
    OBVIOUS
  <2>1. b - y \in U
    OBVIOUS
  <2>2. b - x <= b - y
    BY <1>2, <1>3, <2>1
  <2>3. x \in Int /\ y \in Int
    OBVIOUS
  <2>4. QED
    BY <2>2, <2>3
<1>5. \E z \in T : \A y \in T : z >= y
  BY <1>4
<1>6. QED
  BY <1>5 DEF Max

(* The sites fit in no arc that is shorter than their span.                *)
LEMMA SpanIsLeast ==
    ASSUME NEW lons, \A lon \in lons : lon \in Int /\ -Circle <= lon /\ lon <= Circle,
           NEW span \in Nat, span > 0, ~(CircularLonSpanDeg(lons) < span),
           NEW from \in 0 .. Circle - 1
    PROVE  \E lon \in lons : (lon - from) % Circle >= span
<1> DEFINE norm == {lon % Circle : lon \in lons}
           Above(x) == {y - x : y \in {z \in norm : z > x}}
           Gap(x) == IF \E y \in norm : y > x THEN Min({y - x : y \in {z \in norm : z > x}})
                     ELSE Min(norm) + Circle - x
           gaps == {Gap(x) : x \in norm}
<1>0. Circle \in Nat /\ Circle > 0 /\ from \in Int /\ 0 <= from /\ from < Circle
  BY CircleIsPositive
<1>1. CircularLonSpanDeg(lons) = IF Cardinality(norm) <= 1 THEN 0 ELSE Circle - Max(gaps)
  BY DEF CircularLonSpanDeg
<1>2. ~(Cardinality(norm) <= 1)
  BY <1>1
<1>3. ~(Circle - Max(gaps) < span)
  BY <1>1, <1>2
<1>4. norm # {}
  BY <1>2, FS_EmptySet
<1>5. \A x \in norm : x \in 0 .. Circle - 1
  BY OffsetOf
<1>6. ASSUME NEW x \in norm
      PROVE  /\ Gap(x) \in 0 .. Circle
             /\ \A y \in norm : y > x => \E z \in norm : z > x /\ Gap(x) = z - x
             /\ (\A y \in norm : ~(y > x)) => Gap(x) = Min(norm) + Circle - x
  <2>1. CASE \E y \in norm : y > x
    <3>1. Gap(x) = Min(Above(x))
      BY <2>1
    <3>2. Above(x) \in SUBSET Nat /\ Above(x) # {}
      <4>1. \A y \in norm : y > x => y - x \in Nat
        <5> SUFFICES ASSUME NEW y \in norm, y > x PROVE y - x \in Nat
          OBVIOUS
        <5> HIDE DEF norm
        <5>1. x \in 0 .. Circle - 1 /\ y \in 0 .. Circle - 1
          BY <1>5
        <5>2. QED
          BY <1>0, <5>1
      <4>2. PICK y \in norm : y > x
        BY <2>1
      <4> HIDE DEF norm
      <4>3. y - x \in Above(x)
        BY <4>2
      <4>4. QED
        BY <4>1, <4>3
    <3>3. Min(Above(x)) \in Above(x)
      <4> HIDE DEF Above
      <4> QED
        BY <3>2, LeastOf
    <3>4. \E z \in norm : z > x /\ Gap(x) = z - x
      BY <3>1, <3>3
    <3>5. Gap(x) \in 0 .. Circle
      <4> HIDE DEF Gap
      <4> QED
        BY <1>0, <1>5, <3>4
    <3> HIDE DEF Gap
    <3>6. QED
      BY <2>1, <3>4, <3>5
  <2>2. CASE \A y \in norm : ~(y > x)
    <3>1. Gap(x) = Min(norm) + Circle - x
      BY <2>2
    <3>2. norm \in SUBSET Nat
      BY <1>5
    <3> HIDE DEF norm, Gap
    <3>3. Min(norm) \in norm /\ Min(norm) <= x
      BY <1>4, <3>2, LeastOf
    <3>4. Gap(x) \in 0 .. Circle
      BY <1>0, <1>5, <3>1, <3>3
    <3>5. QED
      BY <2>2, <3>1, <3>4
  <2> HIDE DEF Gap, norm
  <2>3. QED
    BY <2>1, <2>2
<1>7. gaps \in SUBSET (0 .. Circle) /\ gaps # {}
  <2>1. \A x \in norm : Gap(x) \in 0 .. Circle
    BY <1>6
  <2> HIDE DEF Gap, norm
  <2>2. QED
    BY <1>4, <2>1
<1>8. Max(gaps) \in gaps /\ \A g \in gaps : Max(gaps) >= g
  <2> HIDE DEF gaps
  <2> QED
    BY <1>0, <1>7, GreatestOf
<1>9. \A x \in norm : Gap(x) <= Circle - span
  <2> SUFFICES ASSUME NEW x \in norm PROVE Gap(x) <= Circle - span
    OBVIOUS
  <2>1. Gap(x) \in gaps
    OBVIOUS
  <2>2. Gap(x) \in Int
    BY <1>6
  <2> HIDE DEF gaps, Gap, norm
  <2>3. Max(gaps) \in Int
    <3>1. Max(gaps) \in 0 .. Circle
      BY <1>7, <1>8
    <3>2. QED
      BY <1>0, <3>1
  <2>4. Max(gaps) >= Gap(x)
    BY <1>8, <2>1
  <2>5. QED
    BY <1>0, <1>3, <2>2, <2>3, <2>4
<1> DEFINE away == {Offset(x, from) : x \in norm}
<1>10. PICK x \in norm : \A y \in norm : Offset(x, from) >= Offset(y, from)
  <2>1. \A y \in norm : Offset(y, from) \in 0 .. Circle
    BY <1>0, <1>5 DEF Offset
  <2>2. away \in SUBSET (0 .. Circle) /\ away # {}
    <3> HIDE DEF norm
    <3> QED
      BY <1>4, <2>1
  <2>3. Max(away) \in away /\ \A a \in away : Max(away) >= a
    <3> HIDE DEF away
    <3> QED
      BY <1>0, <2>2, GreatestOf
  <2> HIDE DEF norm
  <2>4. PICK x \in norm : Max(away) = Offset(x, from)
    BY <2>3
  <2>5. \A y \in norm : Offset(y, from) \in away
    OBVIOUS
  <2>6. QED
    BY <2>3, <2>4, <2>5
<1> HIDE DEF norm, Gap, gaps, away
<1>11. Gap(x) >= Circle - Offset(x, from)
  <2>1. x \in 0 .. Circle - 1 /\ x \in Int
    BY <1>5
  <2>2. CASE \E y \in norm : y > x
    <3>1. PICK z \in norm : z > x /\ Gap(x) = z - x
      BY <1>6, <2>2
    <3>2. z \in 0 .. Circle - 1 /\ Offset(x, from) >= Offset(z, from)
      BY <1>5, <1>10
    <3>3. QED
      BY <1>0, <2>1, <3>1, <3>2 DEF Offset
  <2>3. CASE \A y \in norm : ~(y > x)
    <3>1. Gap(x) = Min(norm) + Circle - x
      BY <1>6, <2>3
    <3>2. norm \in SUBSET Nat
      BY <1>5
    <3>3. PICK m : m = Min(norm)
      OBVIOUS
    <3>4. m \in norm
      BY <1>4, <3>2, <3>3, LeastOf
    <3>5. m \in 0 .. Circle - 1 /\ m <= x /\ Offset(x, from) >= Offset(m, from)
      BY <1>5, <1>10, <2>1, <2>3, <3>4
    <3>6. QED
      BY <1>0, <2>1, <3>1, <3>3, <3>5 DEF Offset
  <2>4. QED
    BY <2>2, <2>3
<1>12. Offset(x, from) >= span
  <2>1. Gap(x) \in Int /\ Gap(x) <= Circle - span
    BY <1>6, <1>9
  <2>2. Offset(x, from) \in Int
    BY <1>0, <1>5 DEF Offset
  <2>3. QED
    BY <1>0, <1>11, <2>1, <2>2
<1>13. PICK lon \in lons : x = lon % Circle
  BY DEF norm
<1>14. (lon - from) % Circle = Offset(x, from)
  BY <1>13, OffsetOf
<1>15. QED
  BY <1>12, <1>14

(***************************************************************************)
(* The coverage plan                                                       *)
(***************************************************************************)
(* A question about coverage: an intent with its fields, and sites on the  *)
(* circle, from half a turn west or a turn east on.                        *)
CoverageQuestion(q) ==
    LET in == q.intent
    IN  /\ in = [enabled |-> in.enabled, mode |-> in.mode, nMain |-> in.nMain,
                 redundancy |-> in.redundancy, maxSites |-> in.maxSites, minSites |-> in.minSites,
                 minSpan |-> in.minSpan, maxGapMin |-> in.maxGapMin, preferred |-> in.preferred]
        /\ in.nMain \in Nat /\ in.maxSites \in Nat /\ in.minSites \in Nat /\ in.minSpan \in Nat
        /\ \E S : q.sites \in Seq(S)
        /\ \A i \in DOMAIN q.sites :
              /\ q.sites[i].lon \in Int
              /\ -Circle <= q.sites[i].lon /\ q.sites[i].lon <= Circle

LEMMA NormalizedIntent ==
    ASSUME NEW q, CoverageQuestion(q), NEW in, in = Normalize(q.intent)
    PROVE  /\ in.nMain \in Nat \ {0} /\ in.nMain >= q.intent.nMain
           /\ in.maxSites \in Nat /\ (q.intent.maxSites > 0 => in.maxSites = q.intent.maxSites)
           /\ in.minSites = q.intent.minSites /\ in.minSpan = q.intent.minSpan
           /\ in.preferred = q.intent.preferred
           /\ q.intent.mode = "hard" => IsHard(in)
<1> DEFINE d == q.intent
<1>1. in = [enabled |-> d.enabled, mode |-> IF d.mode = "" THEN "soft" ELSE d.mode,
            nMain |-> PositiveOr(d.nMain, 1), redundancy |-> d.redundancy,
            maxSites |-> PositiveOr(d.maxSites, 8), minSites |-> d.minSites,
            minSpan |-> d.minSpan, maxGapMin |-> PositiveOr(d.maxGapMin, 45),
            preferred |-> d.preferred]
  BY DEF CoverageQuestion, Normalize
<1>2. d.nMain \in Nat /\ d.maxSites \in Nat
  BY DEF CoverageQuestion
<1> HIDE DEF d
<1>3. /\ in.nMain = PositiveOr(d.nMain, 1) /\ in.maxSites = PositiveOr(d.maxSites, 8)
      /\ in.minSites = d.minSites /\ in.minSpan = d.minSpan /\ in.preferred = d.preferred
      /\ in.mode = IF d.mode = "" THEN "soft" ELSE d.mode
  <2>1. in.nMain = PositiveOr(d.nMain, 1) /\ in.maxSites = PositiveOr(d.maxSites, 8)
    BY ONLY <1>1
  <2>2. in.minSites = d.minSites /\ in.minSpan = d.minSpan /\ in.preferred = d.preferred
    BY ONLY <1>1
  <2>3. in.mode = IF d.mode = "" THEN "soft" ELSE d.mode
    BY ONLY <1>1, Zenon
  <2>4. QED
    BY <2>1, <2>2, <2>3
<1>4. PositiveOr(d.nMain, 1) \in Nat \ {0} /\ PositiveOr(d.nMain, 1) >= d.nMain
  BY <1>2 DEF PositiveOr
<1>5. /\ PositiveOr(d.maxSites, 8) \in Nat
      /\ d.maxSites > 0 => PositiveOr(d.maxSites, 8) = d.maxSites
  BY <1>2 DEF PositiveOr
<1>6. d.mode = "hard" => IsHard(in)
  BY <1>3 DEF IsHard
<1>7. QED
  BY <1>3, <1>4, <1>5, <1>6 DEF d

(* What is chosen of a pool is of the pool, and fits.                      *)
LEMMA ChosenIsGood ==
    ASSUME NEW in, in.maxSites \in Nat, in.nMain \in Nat, NEW sites, NEW pool
    PROVE  GoodChoice(ChosenSites(in, sites, pool), sites, pool, in.maxSites)
<1> DEFINE primary == Pick(in, sites, pool, in.nMain, << >>)
<1>1. GoodChoice(<< >>, sites, pool, in.maxSites)
  BY DEF GoodChoice
<1>2. GoodChoice(primary, sites, pool, in.maxSites)
  BY <1>1, PickKeeps
<1>3. (in.nMain + 1) \div 2 \in Nat
  OBVIOUS
<1> HIDE DEF primary
<1>4. GoodChoice(Pick(in, sites, pool, (in.nMain + 1) \div 2, primary), sites, pool, in.maxSites)
  BY <1>2, <1>3, PickKeeps
<1>5. QED
  BY <1>2, <1>4 DEF ChosenSites, WithRedundancy, primary

(* A coverage plan keeps the researcher's intent: any intent, any sites    *)
(* and scores (GreedyFill, EvaluateGates, CircularLonSpanDeg).             *)
THEOREM EveryPlanKeepsIntent ==
    ASSUME NEW q, CoverageQuestion(q), NEW plan,
           plan = GreedyFill(q.intent, q.sites, q.allowEmulator)
    PROVE  KeepsIntent(plan, ToSet(plan.sites), q.intent, q.allowEmulator)
<1> DEFINE in == Normalize(q.intent)
           pool == Pool(in, q.sites, q.allowEmulator)
           c == ChosenSites(in, q.sites, pool)
           n == Len(c)
           span == CircularLonSpanDeg({c[i].lon : i \in 1 .. n})
           met == MeetsGap(in, span, n)
           gates == Gates(in, n, span, met)
           wanted == IF q.intent.minSites > 0 THEN q.intent.minSites ELSE q.intent.nMain
<1>1. CASE ~q.intent.enabled \/ q.sites = << >>
  <2>1. plan.sites = << >> /\ plan.status = "insufficient_data"
    BY <1>1 DEF GreedyFill
  <2>2. ToSet(plan.sites) = {} /\ Len(plan.sites) = 0
    BY <2>1 DEF ToSet
  <2>3. {s.id : s \in ToSet(plan.sites)} = {}
    BY <2>2
  <2>4. Cardinality({s.id : s \in ToSet(plan.sites)}) = 0
    BY <2>3, FS_EmptySet
  <2>5. q.intent.maxSites \in Nat
    BY DEF CoverageQuestion
  <2>6. QED
    BY <2>1, <2>2, <2>4, <2>5 DEF KeepsIntent
<1>2. CASE ~(~q.intent.enabled \/ q.sites = << >>)
  <2>1. plan = [sites |-> c, span |-> span, status |-> gates.status, reasons |-> gates.reasons]
    BY <1>2 DEF GreedyFill, PlanOf
  <2>2. /\ in.nMain \in Nat \ {0} /\ in.nMain >= q.intent.nMain
        /\ in.maxSites \in Nat /\ (q.intent.maxSites > 0 => in.maxSites = q.intent.maxSites)
        /\ in.minSites = q.intent.minSites /\ in.minSpan = q.intent.minSpan
        /\ in.preferred = q.intent.preferred
        /\ q.intent.mode = "hard" => IsHard(in)
    BY NormalizedIntent
  <2> HIDE DEF in
  <2>3. GoodChoice(c, q.sites, pool, in.maxSites)
    BY <2>2, ChosenIsGood
  <2> HIDE DEF c
  <2>4. \A s \in SitesIn(q.sites, pool) :
           /\ s.emulator => q.allowEmulator
           /\ IsHard(in) /\ in.preferred # {} => s.id \in in.preferred
           /\ s.lon \in Int /\ -Circle <= s.lon /\ s.lon <= Circle
    BY DEF SitesIn, Pool, CoverageQuestion
  <2> HIDE DEF pool, gates
  <2>5. /\ n \in Nat /\ DOMAIN c = 1 .. n /\ ToSet(c) = {c[i] : i \in 1 .. n}
        /\ \A i \in 1 .. n : c[i] \in SitesIn(q.sites, pool)
    BY <2>3 DEF GoodChoice, ToSet
  <2>6. plan.sites = c /\ plan.status = gates.status
    BY <2>1
  <2>7. Cardinality({s.id : s \in ToSet(c)}) = Len(c)
    BY <2>3, NoSiteTwice
  <2>8. q.intent.maxSites > 0 => Len(c) <= q.intent.maxSites
    BY <2>2, <2>3 DEF GoodChoice
  <2>9. \A s \in ToSet(c) :
           /\ s.emulator => q.allowEmulator
           /\ q.intent.mode = "hard" /\ q.intent.preferred # {} => s.id \in q.intent.preferred
    BY <2>2, <2>4, <2>5
  <2>10. ASSUME gates.status = "ok"
         PROVE  /\ n > 0 /\ n >= wanted
                /\ in.minSpan > 0 => ~(span < in.minSpan)
    <3> DEFINE minSites == IF in.minSites > 0 THEN in.minSites ELSE in.nMain
               reasons == (IF n < minSites THEN {"min_sites"} ELSE {})
                 \cup (IF in.minSpan > 0 /\ span < in.minSpan THEN {"span"} ELSE {})
                 \cup (IF n > 0 /\ ~met THEN {"gap"} ELSE {})
                 \cup (IF n = 0 THEN {"none"} ELSE {})
    <3>1. gates.status = CASE reasons = {} -> "ok"
                           [] reasons # {} /\ (IsHard(in) \/ n = 0) -> "failed"
                           [] OTHER -> "degraded"
      BY DEF gates, Gates
    <3> HIDE DEF reasons, n, span, met
    <3>2. reasons = {}
      BY <2>10, <3>1
    <3>3. ~(n < minSites) /\ ~(in.minSpan > 0 /\ span < in.minSpan) /\ n # 0
      BY <3>2 DEF reasons
    <3>4. n \in Nat /\ minSites \in Nat
      <4>1. n \in Nat
        BY <2>5
      <4>2. minSites \in Nat
        BY <2>2 DEF CoverageQuestion
      <4>3. QED
        BY <4>1, <4>2
    <3>5. minSites >= wanted
      BY <2>2 DEF CoverageQuestion
    <3>6. in.minSpan \in Nat /\ wanted \in Nat
      BY <2>2 DEF CoverageQuestion
    <3> HIDE DEF minSites, wanted
    <3>7. QED
      BY <3>3, <3>4, <3>5, <3>6
  <2>11. ASSUME gates.status = "ok", q.intent.minSpan > 0, NEW from \in 0 .. Circle - 1
         PROVE  \E s \in ToSet(c) : (s.lon - from) % Circle >= q.intent.minSpan
    <3> DEFINE lons == {c[i].lon : i \in 1 .. n}
    <3>1. ~(CircularLonSpanDeg(lons) < q.intent.minSpan)
      BY <2>2, <2>10, <2>11
    <3>2. \A lon \in lons : lon \in Int /\ -Circle <= lon /\ lon <= Circle
      BY <2>4, <2>5
    <3>3. q.intent.minSpan \in Nat
      BY DEF CoverageQuestion
    <3> HIDE DEF lons
    <3>4. PICK lon \in lons : (lon - from) % Circle >= q.intent.minSpan
      BY <2>11, <3>1, <3>2, <3>3, SpanIsLeast
    <3>5. PICK i \in 1 .. n : lon = c[i].lon
      BY DEF lons
    <3>6. c[i] \in ToSet(c)
      BY <2>5, <3>5
    <3>7. QED
      BY <3>4, <3>5, <3>6
  <2>12. gates.status = "ok" => ToSet(c) # {}
    <3>1. n > 0 => 1 \in 1 .. n
      BY <2>5
    <3>2. QED
      BY <2>5, <2>10, <3>1
  <2> HIDE DEF n, gates, wanted
  <2>13. gates.status = "ok" =>
           /\ ToSet(c) # {} /\ Len(c) >= wanted
           /\ q.intent.minSpan > 0 =>
                \A from \in 0 .. Circle - 1 :
                  \E s \in ToSet(c) : (s.lon - from) % Circle >= q.intent.minSpan
    BY <2>10, <2>11, <2>12 DEF n
  <2>14. QED
    BY <2>6, <2>7, <2>8, <2>9, <2>13 DEF KeepsIntent, wanted
<1>3. QED
  BY <1>1, <1>2

(* The same of the questions of the run.                                   *)
THEOREM CoveragePlanKeepsIntent ==
    ASSUME question.about = "coverage" => CoverageQuestion(question)
    PROVE  PlanKeepsIntent
BY EveryPlanKeepsIntent DEF PlanKeepsIntent

=============================================================================
