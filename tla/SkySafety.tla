----------------------------- MODULE SkySafety -----------------------------
(***************************************************************************)
(* Where a telescope may point: its mount limits, the profile of its       *)
(* horizon and the polygons its owner forbids, at the target and along the *)
(* slew that leads there.                                                  *)
(*                                                                         *)
(* Angles are integers, Turn of them a full circle; what the code computes *)
(* in floating point is exact here, fractions being multiplied out.  The   *)
(* apparent position of a target is given: ComputeTargetAltAz.             *)
(***************************************************************************)
EXTENDS Integers, Sequences, FiniteSets

CONSTANTS
  Turn,        \* 360 degrees
  Samples,     \* how many steps a slew is sampled in
  Unset        \* a nil pointer

ASSUME TurnAssumption == Turn \in Nat /\ Turn > 0 /\ Turn % 4 = 0
ASSUME SamplesAssumption == Samples \in Nat \ {0}

\* math.Mod: the remainder has the sign of the dividend.
GoMod(a, b) == IF a >= 0 THEN a % b ELSE -((-a) % b)

(***************************************************************************)
(* Mount limits: a bound may be missing; azimuths may wrap through north.  *)
(***************************************************************************)
normalizeAzimuth(az) == LET m == GoMod(az, Turn) IN IF m < 0 THEN m + Turn ELSE m
normalizeAzimuthBound(az) == IF az = Turn THEN Turn ELSE normalizeAzimuth(az)

\* mutant: the interval is taken as if it always wrapped
InAzimuthWrapped(az, lo, hi) == ~(az > hi /\ az < lo)
InAzimuth(az, lo, hi) ==
  IF lo <= hi THEN az >= lo /\ az <= hi ELSE ~(az > hi /\ az < lo)

ValidateMountLimits(alt, azDeg, limits) ==
  LET az == normalizeAzimuth(azDeg)
      min == limits.azMin
      max == limits.azMax
  IN
  limits # Unset =>
    /\ limits.altMin # Unset => alt >= limits.altMin
    /\ limits.altMax # Unset => alt <= limits.altMax
    /\ CASE min # Unset /\ max # Unset ->
              \/ max - min >= Turn
              \/ InAzimuth(az, normalizeAzimuthBound(min), normalizeAzimuthBound(max))
         [] min # Unset /\ max = Unset -> az >= normalizeAzimuthBound(min)
         [] min = Unset /\ max # Unset -> az <= normalizeAzimuthBound(max)
         [] OTHER -> TRUE

(***************************************************************************)
(* The horizon: altitudes between the points of a profile, as fractions.   *)
(***************************************************************************)
Whole(n) == [num |-> n, den |-> 1]
Between(p, q, part, span) ==
  IF span = 0 THEN Whole(p.alt)
  ELSE [num |-> p.alt * span + part * (q.alt - p.alt), den |-> span]

HorizonAltAt(azDeg, profile) ==
  LET az == GoMod(azDeg, Turn)
      From(i) == GoMod(profile[i].az, Turn)
      Next(i) == (i % Len(profile)) + 1
      To(i) == From(Next(i))
      Holds(i) == IF From(i) <= To(i) THEN az >= From(i) /\ az <= To(i)
                  ELSE az >= From(i) \/ az <= To(i)
      Along(i) ==
        CASE From(i) <= To(i) -> Between(profile[i], profile[Next(i)], az - From(i), To(i) - From(i))
          [] From(i) > To(i) ->
               Between(profile[i], profile[Next(i)],
                       IF az <= To(i) THEN Turn - From(i) + az ELSE az - From(i),
                       Turn - From(i) + To(i))
      sides == {i \in DOMAIN profile : Holds(i)}
  IN  CASE profile = << >> -> Whole(-(Turn \div 4))
        [] Len(profile) = 1 \/ (profile # << >> /\ sides = {}) -> Whole(profile[1].alt)
        [] OTHER -> Along(CHOOSE i \in sides : \A j \in sides : i <= j)

AboveHorizonProfile(alt, az, profile) ==
  profile # Unset => LET h == HorizonAltAt(az, profile) IN alt * h.den > h.num

(***************************************************************************)
(* Forbidden polygons                                                      *)
(***************************************************************************)
ValidateObstructionMask(mask) ==
  \A poly \in mask :
    Len(poly) >= 3 /\ \A i \in DOMAIN poly : 4 * poly[i].alt \in -Turn .. Turn

\* The ray from (x, y) meets the edge from q to p: (xj-xi)*(y-yi)/(yj-yi)+xi,
\* multiplied out.
Meets(x, y, p, q) ==
  LET run == (q.x - p.x) * (y - p.y)
      rise == q.y - p.y
  IN  /\ (p.y > y) # (q.y > y)
      /\ IF rise > 0 THEN (x - p.x) * rise < run ELSE (x - p.x) * rise > run
PointInPolygon(x, y, vertices) ==
  LET n == Len(vertices)
      Before(i) == IF i = 1 THEN n ELSE i - 1
  IN  /\ n >= 3
      /\ Cardinality({i \in 1 .. n : Meets(x, y, vertices[i], vertices[Before(i)])}) % 2 = 1

\* In units of 1/n of an angle.
PointInForbidden(alt, az, mask, n) ==
  LET Corner(p) == [x |-> n * GoMod(p.az, Turn), y |-> n * p.alt]
  IN  \E poly \in mask :
        PointInPolygon(GoMod(az, n * Turn), alt, [i \in DOMAIN poly |-> Corner(poly[i])])
PointInForbiddenAltAz(alt, az, mask) == PointInForbidden(alt, az, mask, 1)

\* The shorter way round, from -Turn/2 up to Turn/2.
DeltaAz(az0, az1) == GoMod(az1 - az0 + (3 * Turn) \div 2, Turn) - Turn \div 2
\* The points of a slew, in units of 1/Samples.
SlewPoint(from, to, i) ==
  [alt |-> Samples * from.alt + i * (to.alt - from.alt),
   az |-> GoMod(Samples * from.az + i * DeltaAz(from.az, to.az), Samples * Turn)]
SlewPathHitsForbidden(from, to, mask) ==
  \E i \in 0 .. Samples :
    LET p == SlewPoint(from, to, i) IN PointInForbidden(p.alt, p.az, mask, Samples)

(***************************************************************************)
(* PassesAltAzSafety                                                       *)
(***************************************************************************)
\* A telescope whose site is unknown cannot be evaluated and does not pass.
PassesAltAzSafety(at, minAlt, site) ==
  /\ site.located
  /\ minAlt # Unset => at.alt >= minAlt
  /\ ValidateMountLimits(at.alt, at.az, site.limits)
  /\ AboveHorizonProfile(at.alt, at.az, site.horizon)
  /\ site.mask # {} => ~PointInForbiddenAltAz(at.alt, at.az, site.mask)
  /\ (site.mount # Unset /\ site.mask # {}) => ~SlewPathHitsForbidden(site.mount, at, site.mask)

=============================================================================
