---------------------------- MODULE MCScheduling ----------------------------
(***************************************************************************)
(* The algorithms of the task server over bounded inputs, each against a   *)
(* reference definition: the planner's agenda, the safety of a pointing,   *)
(* the time until a target is lost, the coverage plan and the publishing   *)
(* of a pack; and the simulator that drives the selection tick by tick.    *)
(* A behaviour is a run of the simulator, or one question about one of the *)
(* algorithms that stays as it is.                                         *)
(***************************************************************************)
EXTENDS SchedSim, Handoff, CoveragePlan, CampaignPack

MCPollSeconds == [none |-> 60, planned |-> 5, obstruction |-> 3, user |-> 2, emergency |-> 1]

VARIABLE question    \* what is asked, and of which input

(***************************************************************************)
(* The planner: three tasks, each with a window, a cadence and a preferred *)
(* telescope, which the fleet may not have, or none, on two telescopes.  A *)
(* window may be open, or its end past.                                    *)
(***************************************************************************)
Planned(id, window, cadence, preferred) ==
  [id |-> id, priority |-> 10 - id, length |-> 2, from |-> window[1], to |-> window[2],
   cadence |-> cadence, preferred |-> preferred]
Windows == {<<Unknown, Unknown>>, <<Unknown, 0>>, <<0, 4>>, <<3, 9>>}
Backlogs ==
  {{Planned(id, w[id], c[id], p[id]) : id \in 1 .. 3} :
     w \in [1 .. 3 -> Windows], c \in {<<0, 0, 0>>, <<3, 0, 3>>, <<0, 3, 3>>, <<3, 3, 0>>},
     p \in [1 .. 3 -> {{}, {"b"}, {"c"}}]}
AgendaNow == 1
AgendaFleet == <<"a", "b">>
Agenda(tasks) == BuildAgenda(tasks, AgendaFleet, AgendaNow, 6)

InWindow(s, t, start, horizon) ==
  LET opens == IF t.from = Unknown THEN start ELSE t.from
  IN  /\ s.start >= start /\ s.start >= opens /\ s.end = s.start + t.length
      /\ IF t.to # Unknown /\ t.to > opens THEN s.end <= t.to ELSE s.end <= opens + horizon
SoundAgenda(agenda, tasks, nodes, start, horizon) ==
  LET TaskOf(s) == CHOOSE t \in tasks : t.id = s.task
  IN  /\ \A k \in DOMAIN agenda :
           LET s == agenda[k] IN
           /\ InWindow(s, TaskOf(s), start, horizon)
           /\ \/ s.node \in TaskOf(s).preferred
              \/ s.node \in ToSet(nodes) /\ TaskOf(s).preferred \cap ToSet(nodes) = {}
      /\ \A j, k \in DOMAIN agenda :
           j < k => /\ agenda[j].task # agenda[k].task
                    /\ agenda[j].node = agenda[k].node =>
                         agenda[k].start >= agenda[j].end + Cadence(TaskOf(agenda[j]))

\* An agenda puts each task at most once, not in the past and not before its
\* window, which is open until its end, or for the horizon when it has no end or
\* one that is over before it begins; on a telescope it prefers, and on another
\* of the fleet only when the fleet has none of those; a telescope is never in
\* two slots, nor sooner in the next than the cadence of the task before
\* (BuildAgenda).
AgendaIsSound ==
  question.about = "agenda" =>
    SoundAgenda(Agenda(question.tasks), question.tasks, AgendaFleet, AgendaNow, 6)

(***************************************************************************)
(* Pointing: a circle of twelve azimuths, altitudes up to the zenith at 3. *)
(***************************************************************************)
Limits(azMin, azMax) == [altMin |-> Unset, altMax |-> 3, azMin |-> azMin, azMax |-> azMax]
Positions == [alt : {0, 2}, az : 0 .. 11]
\* A forbidden polygon is a rectangle that does not reach across north.
Polygon(r) == <<[alt |-> r.low, az |-> r.from], [alt |-> r.low, az |-> r.to],
                [alt |-> r.high, az |-> r.to], [alt |-> r.high, az |-> r.from]>>
Rectangles == {r \in [low : {-1}, high : {1, 3}, from : {2, 8}, to : {4, 11}] : r.from < r.to}
Masks == {{}} \cup {{r} : r \in Rectangles}
Scopes(m) ==
  [located : BOOLEAN, mask : {{Polygon(r) : r \in m}},
   limits : {Unset} \cup {Limits(x[1], x[2]) :
               x \in {<<2, 7>>, <<7, 2>>, <<10, 12>>, <<0, 12>>, <<5, Unset>>, <<Unset, 5>>}},
   horizon : {Unset, <<[alt |-> 1, az |-> 0]>>,
              <<[alt |-> -1, az |-> 0], [alt |-> 3, az |-> 3], [alt |-> 0, az |-> 9]>>},
   mount : {Unset} \cup [alt : {0}, az : {0, 4, 10}]]

\* A position, in parts of n of an angle, inside a rectangle.
Inside(r, alt, az, n) ==
  n * r.low < alt /\ alt < n * r.high /\ n * r.from < az /\ az < n * r.to
\* The slew goes the shorter way round; going west it does not pass north, where
\* the code's remainder is negative and meets no polygon.
PassesNorthWestward(from, to) == from.az + DeltaAz(from.az, to.az) < 0
WithinArc(az, limits) ==
  LET min == Coalesce(limits.azMin, 0)
      max == Coalesce(limits.azMax, Turn)
  IN  max - min < Turn => (az - min) % Turn <= (max - min) % Turn
SlewIsClear(r, from, to) ==
  \A i \in 0 .. Samples :
    ~Inside(r, Samples * from.alt + i * (to.alt - from.alt),
            (Samples * from.az + i * DeltaAz(from.az, to.az)) % (Samples * Turn), Samples)

\* A telescope that passes the safety check has a known site, points inside the
\* arc of its mount limits, above the points of its horizon, and into no
\* forbidden region, neither at the target nor at a sample of the slew
\* (PassesAltAzSafety).
PointingIsSafe ==
  question.about = "pointing" =>
    LET site == question.site
        at == question.at
    IN  PassesAltAzSafety(at, Unset, site) =>
          /\ site.located
          /\ site.limits # Unset => WithinArc(at.az, site.limits)
          /\ site.horizon # Unset =>
               \A i \in DOMAIN site.horizon :
                 site.horizon[i].az = at.az => at.alt > site.horizon[i].alt
          /\ \A r \in question.mask :
               /\ ~Inside(r, at.alt, at.az, 1)
               /\ (site.mount # Unset /\ ~PassesNorthWestward(site.mount, at)) =>
                    SlewIsClear(r, site.mount, at)

\* Four steps of a target that drifts with the sky.
Track(alt, az) == [k \in 1 .. 4 |-> [alt |-> alt, az |-> (az + k - 1) % Turn]]

\* A task whose telescope is asked: quiet, near its planned end, or near that of
\* its owner, and with a least altitude or without.
Followed(schedEnd, userEnd, minAlt) ==
  [schedEnd |-> schedEnd, userEnd |-> userEnd, lead |-> Unset, emergency |-> FALSE,
   coverage |-> FALSE, minAlt |-> minAlt]
FollowedTasks == {Followed(Unset, Unset, Unset), Followed(2, Unset, 1), Followed(Unset, 1, Unset)}
Now == 0

LiveMask == {Polygon([low |-> -1, high |-> 3, from |-> 3, to |-> 6])}
\* The site with the mask the telescope goes by now.
InUse(site, live) == [site EXCEPT !.mask = IF live # {} THEN live ELSE @]

\* A telescope with a known site and a mask is told of the loss of its target in
\* time: the moment announced is one at which the safety check fails by the mask
\* in use, at no step of the scan before it does anything but the slew fail, and
\* the urgency is that of an obstruction exactly when the check so fails soon,
\* unless the owner or an emergency comes first.  Without a mask or a site
\* nothing is announced, even where the check fails (CombinedUrgency,
\* SecondsUntilObstructionLoss, PassesAltAzSafety).
HandoffWarnsInTime ==
  question.about = "track" =>
    LET task == question.task
        site == InUse(question.site, question.live)
        path == Track(question.at.alt, question.at.az)
        eta == SecondsUntilObstructionLoss(task, path, task.minAlt, question.site, question.live)
        When(k) == (k - 1) * Step
        Safe(k) == PassesAltAzSafety(path[k], task.minAlt, [site EXCEPT !.mount = Unset])
        Warned == CombinedUrgency(task, Now, eta) = "obstruction"
    IN  IF ~site.located \/ site.mask = {} THEN eta = Unset /\ ~Warned
        ELSE /\ eta # Never =>
                  \E k \in DOMAIN path :
                    When(k) = eta /\ ~PassesAltAzSafety(path[k], task.minAlt, site)
             /\ \A k \in DOMAIN path : eta = Never \/ When(k) < eta => Safe(k)
             /\ Warned <=>
                  /\ UrgencyForTask(task, Now) \notin {"emergency", "user"}
                  /\ \E k \in DOMAIN path :
                       When(k) <= ObstructionApproachSeconds /\ ~Safe(k)

(***************************************************************************)
(* Coverage: four sites on the circle, one of them an emulator.            *)
(***************************************************************************)
Site(id, lon, emulator, cohort) ==
  [id |-> id, lon |-> lon, emulator |-> emulator, cohort |-> cohort, weather |-> 0, reliability |-> 0]
SitesAt(lons, cohort) ==
  <<Site("a", lons[1], FALSE, cohort), Site("b", lons[2], FALSE, 0),
    Site("c", lons[3], FALSE, One), Site("d", 6, TRUE, One)>>
Intents ==
  [enabled : {TRUE}, mode : {"", "soft", "hard"}, nMain : 0 .. 3, redundancy : BOOLEAN, maxSites : {0, 2},
   minSites : {0, 2}, minSpan : {0, 5}, maxGapMin : {0, 1200}, preferred : {{}, {"a", "d"}}]

KeepsIntent(plan, chosen, intent, allowEmulator) ==
  LET wanted == IF intent.minSites > 0 THEN intent.minSites ELSE intent.nMain
  IN  /\ Cardinality({s.id : s \in chosen}) = Len(plan.sites)
      /\ intent.maxSites > 0 => Len(plan.sites) <= intent.maxSites
      /\ \A s \in chosen :
           /\ s.emulator => allowEmulator
           /\ intent.mode = "hard" /\ intent.preferred # {} => s.id \in intent.preferred
      /\ plan.status = "ok" =>
           /\ chosen # {} /\ Len(plan.sites) >= wanted
           /\ intent.minSpan > 0 =>
                \A from \in 0 .. Circle - 1 :
                  \E s \in chosen : (s.lon - from) % Circle >= intent.minSpan
\* A coverage plan names no site twice, no more sites than wanted, no emulator
\* for a real campaign and, in hard mode, only preferred sites; a plan called ok
\* has the sites it needs, and they fit in no arc shorter than the span asked
\* for (GreedyFill, EvaluateGates, CircularLonSpanDeg).
PlanKeepsIntent ==
  question.about = "coverage" =>
    \A plan \in {GreedyFill(question.intent, question.sites, question.allowEmulator)} :
      KeepsIntent(plan, ToSet(plan.sites), question.intent, question.allowEmulator)

(***************************************************************************)
(* Packs: one target or two, with a hook or without.                       *)
(***************************************************************************)
Target(id, filters, exposure, frames, max) ==
  [id |-> id, filters |-> filters, exposure |-> exposure, frames |-> frames,
   saturation |-> IF max = 0 THEN Absent ELSE [strategy |-> "short", max |-> max]]
TargetsOf(id) ==
  {Target(id, fs, exposure, frames, max) :
     fs \in {<< >>, <<"">>, <<"L">>, <<"L", "", "R">>}, exposure \in {0, 30}, frames \in {0, 2},
     max \in {0, 20, 60}}
Packs ==
  [name : {"n"}, testOnly : {TRUE}, hookImageRef : {"", "img"},
   hookPlacement : {"", "none", "edge", "compute", "moon"},
   product : {Absent, [mode |-> "time_bin", timeBinFrames |-> 1], [mode |-> "stack", timeBinFrames |-> 0]},
   coverage : {Absent}, season : {Absent}, pierCode : {Absent},
   targets : {<<t, Target(2, <<"L">>, 30, 2, 0)>> : t \in TargetsOf(1)}]

\* A pack becomes tasks only if every hook has an image and a place to run, was
\* approved if that place is the compute server, an emulator is allowed only for a
\* campaign stored as a test, and every named filter of every
\* target gets one task with the integration of all its frames, none exposed
\* beyond the saturation it declares (Publish, ExpandPack).
PublishedPackIsSound ==
  question.about = "pack" =>
    LET p == question.pack
        tasks == Publish(p, question.keys, question.testOnly, question.approved, Circle)
        Of(t) == {k \in DOMAIN tasks : tasks[k].target = t.id}
        Named(t) == {i \in DOMAIN t.filters : t.filters[i] # ""}
    IN  tasks # Invalid =>
          /\ question.keys \subseteq ClientPackKeys \cup {"coverage_plan"}
          /\ p.hookImageRef # "" <=> Placement(p) # "none"
          /\ p.hookPlacement # "moon"
          /\ \A k \in DOMAIN tasks : tasks[k].allowEmulator = question.testOnly
          /\ Placement(p) = "compute" => question.approved
          /\ \A i \in DOMAIN p.targets :
               LET t == p.targets[i] IN
               /\ Cardinality(Of(t)) = Cardinality(Named(t))
               /\ \A k \in Of(t) : /\ tasks[k].budget = t.frames * t.exposure
                                   /\ tasks[k].budget > 0
               /\ t.saturation # Absent /\ t.saturation.max # Absent =>
                    t.exposure <= t.saturation.max

(***************************************************************************)
(* The simulator: two telescopes, one of them nearly pointed at the field, *)
(* and three tasks of two minutes that are more or less urgent: the first  *)
(* and the last planned or not, the second arriving with either of them    *)
(* and needing a filter that only one telescope has, or none.  A planned   *)
(* task prefers the first telescope and, when urgent, would take the other *)
(* too.                                                                    *)
(***************************************************************************)
Scope(id, filters, startup, nearby) ==
  [id |-> id, emulator |-> FALSE, filters |-> filters, cap |-> << >>, tier |-> "standard",
   startup |-> startup, slew |-> 1, reliability |-> 10, nearby |-> nearby]
MCFleet == <<Scope("a", {"L"}, 2, FALSE), Scope("b", {"L", "R"}, 4, TRUE)>>

MCTasks == 1 .. 3
Task(arrive, priority, length, lane, filters) ==
  [arrive |-> arrive, priority |-> priority, length |-> length, lane |-> lane,
   start |-> IF lane = "planned" THEN 2 ELSE Unknown,
   req |-> [emulator |-> FALSE, filters |-> filters, need |-> << >>,
           preferred |-> IF lane = "planned" THEN {"a"} ELSE {}, failOpen |-> priority = 10]]
SimLanes == {"planned", "interrupt"}
MCStreams ==
  {<<Task(0, p1, 2, q1, {}), Task(a2, p2, 2, "interrupt", f2), Task(1, p3, 2, q3, {})>> :
     p1, p2, p3 \in {10, 30}, q1, q3 \in SimLanes, a2 \in {0, 1}, f2 \in {{}, {"R"}}}
MCConfigs ==
  [threshold : {19}, lanes : BOOLEAN, cohort : BOOLEAN, bug : BOOLEAN]

-----------------------------------------------------------------------------
Question ==
  \/ \E tasks \in Backlogs : question = [about |-> "agenda", tasks |-> tasks]
  \/ \E m \in Masks : \E site \in Scopes(m), at \in Positions :
       \/ question = [about |-> "pointing", mask |-> m, site |-> site, at |-> at]
       \/ \E task \in FollowedTasks, live \in {{}, LiveMask} :
            question = [about |-> "track", site |-> site, at |-> at, task |-> task, live |-> live]
  \/ \E intent \in Intents, x, y, z \in {0, 2, 7}, cohort \in {0, One}, allow \in BOOLEAN :
       question = [about |-> "coverage", intent |-> intent,
                   sites |-> SitesAt(<<x, y, z>>, cohort), allowEmulator |-> allow]
  \/ \E p \in Packs, approved, testOnly \in BOOLEAN,
          keys \in {{"targets"}, {"coverage_plan"}, {"owner"}} :
       question = [about |-> "pack", pack |-> p, testOnly |-> testOnly, approved |-> approved,
                   keys |-> keys]

\* The simulator is over while a question is looked at.
NoSimulation ==
  /\ config = [threshold |-> 0, lanes |-> FALSE, cohort |-> FALSE, bug |-> TRUE]
  /\ stream = << >> /\ now = 0 /\ phase = "done"
  /\ arrived = {} /\ sim = << >> /\ deferred = << >>

Init == \/ question = [about |-> "simulation"] /\ New
        \/ Question /\ NoSimulation
Next == \/ Run /\ UNCHANGED question
        \/ ~Running /\ UNCHANGED <<vars, question>>
MCSpec == Init /\ [][Next]_<<vars, question>> /\ ([]<>~Running \/ []<><<Run>>_vars)

=============================================================================
