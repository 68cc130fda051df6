---------------------------- MODULE CampaignPack ----------------------------
(***************************************************************************)
(* A campaign pack: what a researcher declares, the checks it has to pass  *)
(* before it is stored and published, and the tasks it is expanded into.   *)
(*                                                                         *)
(* A pack is a record with all its fields; Absent stands for a field that  *)
(* was not sent, "" for one of blanks.  Whether an artifact reference is   *)
(* well formed is given (PierCodeRef.Validate is in module PierCode).      *)
(***************************************************************************)
EXTENDS Integers, Sequences, FiniteSets

CONSTANT Absent

ClientPackKeys == {"name", "description", "test_only", "hook_image_ref", "hook_placement",
                   "comp_stars", "product", "coverage", "season", "pier_code", "targets"}
ServerPackKeys == {"coverage_plan"}
\* A researcher may not send what the server writes.
validatePackObjectKeys(keys, allowServerKeys) ==
  keys \subseteq ClientPackKeys \cup (IF allowServerKeys THEN ServerPackKeys ELSE {})

ValidateProduct(product) ==
  \/ product = Absent
  \/ product.mode \in {"", "per_frame", "stack"} /\ product.timeBinFrames = 0
  \/ product.mode = "time_bin" /\ product.timeBinFrames >= 2
NormalizedProductMode(product) ==
  IF product = Absent \/ (product # Absent /\ product.mode = "") THEN "per_frame" ELSE product.mode
WantsStack(product) == NormalizedProductMode(product) = "stack"

ValidateCoverage(coverage, fullTurn) ==
  coverage = Absent \/ (coverage.mode \in {"", "soft", "hard"} /\ coverage.minSpan \in 0 .. fullTurn)
ValidateSeason(season) ==
  \/ season = Absent
  \/ /\ season.kind \in {"", "continuous", "sparse", "too"}
     /\ season.urgency \in {"", "normal", "elevated", "critical"}
     /\ (season.duty = Absent \/ season.duty \in 0 .. 100)    \* percent

PierCodeActions == {"read_frame", "board_post", "board_read", "inbox_alert", "urgency_flag",
                    "list_piers", "request_time", "next_capture"}
ValidatePierCode(pierCode) ==
  \/ pierCode = Absent
  \/ /\ DOMAIN pierCode.actions \subseteq PierCodeActions
     /\ \/ pierCode.artifact = Absent
        \/ pierCode.artifact.valid /\ pierCode.artifact.url # ""

ValidateTarget(t) ==
  /\ t.filters # << >> /\ t.exposure > 0 /\ t.frames > 0
  /\ \/ t.saturation = Absent
     \/ /\ t.saturation.strategy \in {"", "short", "defocus", "nd", "manual"}
        /\ (t.saturation.max = Absent \/ t.exposure <= t.saturation.max)

ValidatePack(p, fullTurn) ==
  /\ p.name # "" /\ p.targets # << >>
  /\ ValidateProduct(p.product) /\ ValidateCoverage(p.coverage, fullTurn)
  /\ ValidateSeason(p.season) /\ ValidatePierCode(p.pierCode)
  /\ \A i \in DOMAIN p.targets : ValidateTarget(p.targets[i])

(***************************************************************************)
(* Science hooks: an image and where it is to run.                         *)
(***************************************************************************)
Placement(p) == IF p.hookPlacement = "" THEN "none" ELSE p.hookPlacement
HasScienceHook(p) == p.hookImageRef # "" \/ Placement(p) # "none"
ValidateHookFields(p) ==
  HasScienceHook(p) => Placement(p) \in {"edge", "compute"} /\ p.hookImageRef # ""
\* mutant: a hook on the compute server needs no approval
ValidateHookUnapproved(p, hookApproved) == ValidateHookFields(p)
ValidateHookPublish(p, hookApproved) ==
  ValidateHookFields(p) /\ (Placement(p) = "compute" => hookApproved)

(***************************************************************************)
(* ExpandPack: a task for each filter of each target, with the integration *)
(* that all its frames make as its budget; none is an error.               *)
(***************************************************************************)
TaskSpec(p, t, filter) ==
  [target |-> t.id, filter |-> filter, integration |-> t.exposure,
   budget |-> t.frames * t.exposure, allowEmulator |-> p.testOnly,
   mode |-> NormalizedProductMode(p.product)]
\* The named filters of the targets, and the specs in the order in which the
\* loop over targets and the loop over filters come to them.
Wanted(p) ==
  {x \in UNION {{i} \X DOMAIN p.targets[i].filters : i \in DOMAIN p.targets} :
     p.targets[x[1]].filters[x[2]] # ""}
Sooner(x, y) == x[1] < y[1] \/ (x[1] = y[1] /\ x[2] < y[2])
KthWanted(p, k) ==
  CHOOSE x \in Wanted(p) : Cardinality({y \in Wanted(p) : Sooner(y, x)}) = k - 1
SpecOf(p, x) == TaskSpec(p, p.targets[x[1]], p.targets[x[1]].filters[x[2]])
Invalid == << >>
ExpandPack(p, fullTurn) ==
  IF ValidatePack(p, fullTurn) /\ ValidateHookFields(p)
  THEN [k \in 1 .. Cardinality(Wanted(p)) |-> SpecOf(p, KthWanted(p, k))]
  ELSE Invalid

\* What publishing needs of the stored pack, and what it makes of it; whether the
\* campaign is a test is a column of its own.
Publish(p, keys, testOnly, hookApproved, fullTurn) ==
  IF validatePackObjectKeys(keys, TRUE) /\ ValidateHookPublish(p, hookApproved)
  THEN ExpandPack([p EXCEPT !.testOnly = testOnly], fullTurn) ELSE Invalid

=============================================================================
