---------------------------- MODULE CoveragePlan ----------------------------
(***************************************************************************)
(* The coverage planner: which sites a campaign should follow a target     *)
(* from, whether the choice meets the researcher's intent, and how the     *)
(* frames that came in compare with it.                                    *)
(*                                                                         *)
(* An intent is a record; a site has an id, a longitude and three scores.  *)
(* Longitudes are integers, Circle of them a circle; a score of One is 1.0   *)
(* and the sums are multiplied out, so that comparing them is exact.       *)
(***************************************************************************)
EXTENDS Integers, SequencesExt

CONSTANTS Circle, One
ASSUME CircleAssumption == Circle \in Nat \ {0} /\ Circle % 2 = 0
ASSUME OneAssumption == One \in Nat \ {0} /\ One % 2 = 0

PositiveOr(x, default) == IF x > 0 THEN x ELSE default
Normalize(intent) ==
  [intent EXCEPT !.nMain = PositiveOr(@, 1), !.maxGapMin = PositiveOr(@, 45),
                 !.maxSites = PositiveOr(@, 8), !.mode = IF @ = "" THEN "soft" ELSE @]
IsHard(intent) == intent.mode = "hard"

(***************************************************************************)
(* Scores of a site, beside those already chosen                           *)
(***************************************************************************)
\* loadCoverageSites, EnrichWeather: an unknown score is neutral.
Neutral(x) == IF x > 0 THEN x ELSE One \div 2
LonSum(already) == FoldLeft(LAMBDA sum, s : sum + s.lon, 0, already)
\* The distance from the mean of the chosen longitudes, as a share of half a
\* turn and Len(already) times as large; the mean knows no wrapping.
FromMean(site, already) ==
  LET k == Len(already)
      away == site.lon * k - LonSum(already)
      d == IF away < 0 THEN -away ELSE away
  IN  IF 2 * d > Circle * k THEN Circle * k - d ELSE d
Score(intent, site, already) ==
  LET k == Max({Len(already), 1})
      half == Circle \div 2
      geometry == IF already = << >> THEN half * One ELSE FromMean(site, already) * One
      bias == IF ~IsHard(intent) /\ site.id \in intent.preferred THEN 2 * One ELSE 0
  IN  geometry + half * k * (site.cohort + Neutral(site.weather) + Neutral(site.reliability) + bias)

(***************************************************************************)
(* GreedyFill                                                              *)
(***************************************************************************)
IdsOf(sites) == {sites[i].id : i \in DOMAIN sites}
\* The places of the sites that may be chosen, and of those not chosen yet.
Pool(intent, sites, allowEmulator) ==
  {i \in DOMAIN sites :
     /\ allowEmulator \/ ~sites[i].emulator
     /\ IsHard(intent) /\ intent.preferred # {} => sites[i].id \in intent.preferred}
Free(sites, pool, chosen) == {i \in pool : sites[i].id \notin IdsOf(chosen)}
\* While there is room, the best site beside those chosen; the first of the pool
\* among equals.
PickOne(intent, sites, free, chosen) ==
  LET Rate(i) == Score(intent, sites[i], chosen)
      best == {i \in free : \A j \in free : \/ Rate(i) > Rate(j)
                                            \/ Rate(i) = Rate(j) /\ i <= j}
  IN  IF Len(chosen) >= intent.maxSites \/ best = {} THEN chosen
      ELSE Append(chosen, sites[CHOOSE i \in best : TRUE])
Pick(intent, sites, pool, n, already) ==
  LET Longer(chosen) == PickOne(intent, sites, Free(sites, pool, chosen), chosen)
      chosen[k \in 0 .. n] == IF k = 0 THEN already ELSE Longer(chosen[k - 1])
  IN  chosen[n]

\* The least arc that holds the longitudes: a turn less the widest gap.
\* mutant: the gap across the origin is not looked at
SpanUnwrapped(lons) ==
  LET norm == {lon % Circle : lon \in lons}
      Gap(x) == Min({y - x : y \in {z \in norm : z > x}})
      gaps == {Gap(x) : x \in norm \ {Max(norm)}}
  IN  IF gaps = {} THEN 0 ELSE Circle - Max(gaps)
CircularLonSpanDeg(lons) ==
  LET norm == {lon % Circle : lon \in lons}
      Gap(x) == IF \E y \in norm : y > x THEN Min({y - x : y \in {z \in norm : z > x}})
                ELSE Min(norm) + Circle - x
  IN  IF Cardinality(norm) <= 1 THEN 0 ELSE Circle - Max({Gap(x) : x \in norm})

\* EvaluateGates; met is TRUE, FALSE or, for a plan without sites, not known.
Gates(intent, count, span, met) ==
  LET minSites == IF intent.minSites > 0 THEN intent.minSites ELSE intent.nMain
      reasons == (IF count < minSites THEN {"min_sites"} ELSE {})
                 \cup (IF intent.minSpan > 0 /\ span < intent.minSpan THEN {"span"} ELSE {})
                 \cup (IF count > 0 /\ ~met THEN {"gap"} ELSE {})
                 \cup (IF count = 0 THEN {"none"} ELSE {})
  IN  [reasons |-> reasons,
       status |-> CASE reasons = {} -> "ok"
                    [] reasons # {} /\ (IsHard(intent) \/ count = 0) -> "failed"
                    [] OTHER -> "degraded"]

\* The estimate: hours covered and the gap left between them, times Circle.
CoverageHours(span, count) ==
  Min({24 * Circle, Max({24 * span * count, 3 * count * Circle})})
MeetsGap(intent, span, count) ==
  (24 * Circle - CoverageHours(span, count)) * 60 <= intent.maxGapMin * Max({1, count}) * Circle

\* The plan that names these sites, judged against the intent.
PlanOf(intent, chosen, count) ==
  LET span == CircularLonSpanDeg({chosen[i].lon : i \in 1 .. count})
      Judged(gates) == [sites |-> chosen, span |-> span,
                        status |-> gates.status, reasons |-> gates.reasons]
  IN  Judged(Gates(intent, count, span, MeetsGap(intent, span, count)))

\* The main sites, and half as many again that take over.
WithRedundancy(intent, sites, pool, primary) ==
  IF intent.redundancy
  THEN Pick(intent, sites, pool, (intent.nMain + 1) \div 2, primary) ELSE primary
ChosenSites(intent, sites, pool) ==
  WithRedundancy(intent, sites, pool, Pick(intent, sites, pool, intent.nMain, << >>))
GreedyFill(declared, sites, allowEmulator) ==
  LET intent == Normalize(declared)
      Judge(chosen) == PlanOf(intent, chosen, Len(chosen))
  IN  IF ~declared.enabled \/ sites = << >>
      THEN [sites |-> << >>, span |-> 0, status |-> "insufficient_data", reasons |-> {}]
      ELSE Judge(ChosenSites(intent, sites, Pool(intent, sites, allowEmulator)))

(***************************************************************************)
(* Coverage status: the frames that came in, in the order of their times,  *)
(* each with its telescope, its longitude (0 when unknown) and its time.   *)
(***************************************************************************)
WidestGap(samples) == Max({0} \cup {samples[i + 1].at - samples[i].at : i \in 1 .. Len(samples) - 1})
\* The bins of the season that hold a frame; the last one takes the end too.
Bins(samples, bin) ==
  Max({1, (samples[Len(samples)].at - samples[1].at + bin - 1) \div bin})
Filled(samples, bin) ==
  {Min({(samples[i].at - samples[1].at) \div bin, Bins(samples, bin) - 1}) : i \in DOMAIN samples}

\* Each broken limit makes an ok degraded, or anything failed in hard mode; the
\* span is only judged when two longitudes are known.
MeasuredStatus(intent, samples) ==
  LET tels == {samples[i].tel : i \in DOMAIN samples}
      lons == {samples[i].lon : i \in {j \in DOMAIN samples : samples[j].lon # 0}}
      known == {samples[i].tel : i \in {j \in DOMAIN samples : samples[j].lon # 0}}
      broken == (IF Len(samples) >= 2 /\ intent.maxGapMin > 0
                    /\ WidestGap(samples) > intent.maxGapMin THEN {"gap"} ELSE {})
                \cup (IF intent.minSites > 0 /\ Cardinality(tels) < intent.minSites
                      THEN {"min_sites"} ELSE {})
                \cup (IF intent.minSpan > 0 /\ CircularLonSpanDeg(lons) < intent.minSpan
                         /\ Cardinality(known) >= 2 THEN {"span"} ELSE {})
  IN  CASE broken # {} /\ IsHard(intent) -> "failed"
        [] broken # {} /\ ~IsHard(intent) /\ Len(samples) >= 2 -> "degraded"
        [] OTHER -> IF Len(samples) >= 2 THEN "ok" ELSE "insufficient_data"

=============================================================================
