------------------------------ MODULE Handoff ------------------------------
(***************************************************************************)
(* When a task has to be handed to another telescope: its urgency, how     *)
(* long the telescope still sees the target, how often a telescope should  *)
(* ask, and what the owner and the telescope may change about it.          *)
(*                                                                         *)
(* A task is a record of its end times, its lead, its emergency request    *)
(* and its status; path gives the position of its target at every step of  *)
(* the scan, Unset when it has no target.                                  *)
(***************************************************************************)
EXTENDS SkySafety

CONSTANTS
  DefaultHandoffLeadSeconds, UserHandoffLeadSeconds, ObstructionApproachSeconds,
  PollSeconds,   \* the polling interval of each urgency
  Step           \* of the scan, at least 15 seconds

Urgencies == {"none", "planned", "obstruction", "user", "emergency"}
ASSUME LeadAssumption == /\ DefaultHandoffLeadSeconds \in Nat
                         /\ UserHandoffLeadSeconds \in Nat
                         /\ ObstructionApproachSeconds \in Nat
ASSUME PollAssumption == PollSeconds \in [Urgencies -> Nat]
ASSUME StepAssumption == Step \in Nat \ {0}

effectiveHandoffLeadSeconds(task) ==
  IF task.lead # Unset /\ task.lead > 0 THEN task.lead ELSE DefaultHandoffLeadSeconds

UserWindow(task, now) == task.userEnd # Unset /\ now >= task.userEnd - UserHandoffLeadSeconds
PlannedWindow(task, now) ==
  task.schedEnd # Unset /\ now >= task.schedEnd - effectiveHandoffLeadSeconds(task)

UrgencyForTask(task, now) ==
  CASE task.emergency -> "emergency"
    [] ~task.emergency /\ UserWindow(task, now) -> "user"
    [] ~task.emergency /\ ~UserWindow(task, now)
         /\ (PlannedWindow(task, now) \/ task.coverage) -> "planned"
    [] OTHER -> "none"

TaskInHandoffSearchWindow(task, now) ==
  task.emergency \/ UserWindow(task, now) \/ PlannedWindow(task, now)

(***************************************************************************)
(* The loss of the target                                                  *)
(***************************************************************************)
Never == -1    \* math.Inf: not within the horizon
\* The telescope may not point at its target, as the scan asks it.
forbiddenAt(at, minAlt, site, mask) ==
  \/ minAlt # Unset /\ at.alt < minAlt
  \/ ~ValidateMountLimits(at.alt, at.az, site.limits)
  \/ ~AboveHorizonProfile(at.alt, at.az, site.horizon)
  \/ PointInForbiddenAltAz(at.alt, at.az, mask)

FirstLoss(path, minAlt, site, mask) ==
  LET lost == {k \in DOMAIN path : forbiddenAt(path[k], minAlt, site, mask)}
  IN  IF path = << >> \/ ~site.located \/ mask = {} THEN Unset
      ELSE IF lost = {} THEN Never
      ELSE (CHOOSE k \in lost : \A l \in lost : k <= l) * Step - Step
\* mutant: the live mask is not looked at when there is a stored one
LossByStoredMask(task, path, minAlt, site, live) ==
  FirstLoss(path, minAlt, site, IF site.mask # {} THEN site.mask ELSE live)
\* Unset when it cannot be computed, which an empty mask is taken for.  A live
\* mask of the telescope takes the place of the stored one.
SecondsUntilObstructionLoss(task, path, minAlt, site, live) ==
  FirstLoss(path, minAlt, site, IF live # {} THEN live ELSE site.mask)

CombinedUrgency(task, now, eta) ==
  LET base == UrgencyForTask(task, now)
  IN  IF base \in {"emergency", "user"} THEN base
      ELSE IF eta \notin {Unset, Never} /\ eta <= ObstructionApproachSeconds
           THEN "obstruction" ELSE base

RecommendedPollSeconds(u) == PollSeconds[u]

\* BuildHandoffStatusPayload: the lead is the default when none is set.
BuildHandoffStatusPayload(task, now, path, minAlt, site, live) ==
  LET eta == SecondsUntilObstructionLoss(task, path, minAlt, site, live)
      urgency == CombinedUrgency(task, now, eta)
      lead == effectiveHandoffLeadSeconds(task)
  IN  [urgency |-> urgency, poll |-> RecommendedPollSeconds(urgency), lead |-> lead,
       windowStart |-> IF task.schedEnd = Unset THEN Unset ELSE task.schedEnd - lead,
       eta |-> IF eta = Never THEN Unset ELSE eta]

(***************************************************************************)
(* Assignment and broadcast                                                *)
(***************************************************************************)
Boosts == [emergency |-> 100, user |-> 50, obstruction |-> 40, planned |-> 20, none |-> 0]
Boost(task, now) ==
  LET urgency == UrgencyForTask(task, now)
  IN  IF urgency = "none" /\ TaskInHandoffSearchWindow(task, now) THEN 20 ELSE Boosts[urgency]
\* The lower the number, the more urgent.
EffectiveAssignPriority(base, task, now) ==
  LET p == base - Boost(task, now) IN IF p < 1 THEN 1 ELSE p

LiveStatuses == {"pending", "assigned", "in_progress"}
Broadcasting(tasks, now) ==
  {t \in tasks : t.status \in LiveStatuses /\ TaskInHandoffSearchWindow(t, now)}
AnyHandoffBroadcastActive(tasks, now) == Broadcasting(tasks, now) # {}
BroadcastRecommendedPollSeconds(tasks, now) ==
  LET polls == {PollSeconds["none"]}
               \cup {RecommendedPollSeconds(UrgencyForTask(t, now)) : t \in Broadcasting(tasks, now)}
  IN  CHOOSE p \in polls : \A q \in polls : p <= q
\* The handlers read a task without its coverage.
toSharedHandoffTask(t) == [t EXCEPT !.coverage = FALSE]
HandleHandoffBroadcast(tasks, now) ==
  LET read == {toSharedHandoffTask(t) : t \in tasks}
      active == AnyHandoffBroadcastActive(read, now)
  IN  [active |-> active,
       poll |-> IF active THEN BroadcastRecommendedPollSeconds(read, now) ELSE Unset]

(***************************************************************************)
(* The handlers.  A telescope may ask for the status and for an emergency  *)
(* handoff of a task assigned to it, a researcher for those of his own.    *)
(***************************************************************************)
Coalesce(new, old) == IF new = Unset THEN old ELSE new
\* The task a status is about: the one in the query, else that of the last
\* telemetry, and none unless it is assigned to the telescope.
HandoffStatusTask(asked, telemetry, assigned) ==
  IF Coalesce(asked, telemetry) \in assigned THEN Coalesce(asked, telemetry) ELSE Unset

HandleEmergencyHandoff(task, permitted) ==
  IF permitted THEN [task EXCEPT !.emergency = TRUE] ELSE task

\* COALESCE: what the body leaves out stays; only the emergency can be cleared.
HandleUpdateTaskHandoff(task, body, permitted) ==
  IF permitted
  THEN [task EXCEPT !.schedEnd = Coalesce(body.schedEnd, @),
                    !.userEnd = Coalesce(body.userEnd, @),
                    !.lead = Coalesce(body.lead, @),
                    !.emergency = @ /\ ~body.clearEmergency]
  ELSE task

=============================================================================
