------------------------------ MODULE PierCode ------------------------------
(***************************************************************************)
(* Researcher code on a pier: after each captured frame the agent gives    *)
(* the campaign's program to a sandboxed runner and carries out what the   *)
(* program asks for.  The agent's handler runs in the MQTT client's        *)
(* callback, so the board hears nothing while a frame is in hand.  Around  *)
(* it the operator approves and revokes campaigns, the cache on the disk   *)
(* may be damaged, and the agent may be restarted at any point.            *)
(***************************************************************************)
EXTENDS Naturals, Sequences, FiniteSets

CONSTANTS
    Campaigns, Hashes, None,
    Assignments,        \* the assignments that may arrive, see IsAssignment
    GrantLists,         \* what `saucepan consent --approve` may be given
    Messages, Topic,    \* board messages; [Messages -> [campaign, node]]
    Legacy,             \* messages published without a message id
    Filters,
    Asked,              \* the records a program may emit, see IsRecord
    DefaultExposure,    \* of a task that declares no integration time
    RunnerEnvs,         \* what may be set in the runner's environment
    MaxBoard,           \* maxBoardMessagesPerCampaign
    MaxRecords, MaxFrames, MaxChanges  \* bounds: records of a run, frames,
                                       \* and events around the agent

PierCodeActions == {"read_frame", "board_post", "board_read", "inbox_alert",
                    "urgency_flag", "list_piers", "request_time", "next_capture"}
DefaultPierCodeGrants == {"read_frame", "board_post", "board_read"}
PullActions == {"read_frame", "board_read", "list_piers"}

(* The actions the pack sets to true, None for a pack that lists no        *)
(* actions at all; hash is None when the pack ships no artifact.           *)
IsAssignment(a) ==
    /\ a.campaign \in Campaigns /\ a.hash \in Hashes \cup {None}
    /\ a.actions \in (SUBSET PierCodeActions) \cup {None} /\ a.disabled \in BOOLEAN
    /\ a.integration \in Nat /\ a.filters \in Seq(Filters)

ASSUME AssignmentsAssumption == \A a \in Assignments : IsAssignment(a)
(* What the payload of a record changes of the next exposure; None leaves  *)
(* it to the task.  The gain is left out: no rig applies it.               *)
IsRecord(rec) ==
    /\ rec.action \in STRING \ {"done", "error"}
    /\ rec.exposure \in Nat \cup {None} /\ rec.filter \in Filters \cup {None}

ASSUME AskedAssumption == \A rec \in Asked : IsRecord(rec)
ASSUME GrantListsAssumption == \A l \in GrantLists : l \subseteq STRING
ASSUME BoundsAssumption == MaxBoard \in Nat \ {0} /\ DefaultExposure \in Nat \ {0}

VARIABLES
    env,                \* the runner's environment, one of RunnerEnvs
    consent,            \* the consent file: [Campaigns -> actions or None]
    cache,              \* [Hashes -> {"absent", "good", "damaged"}]
    notes, pending,     \* the board: recent messages, those not yet given out
    pendingCapture,     \* the override each campaign waits to apply, or None
    phase, assign,      \* where the handler is, with which assignment
    shot,               \* the exposure being handled, None before the first
    out, rejected,      \* the runner: records written, an emit was refused
    frames, changes,    \* counters for the bounds
    \* history, of the frame in hand
    checked,            \* what the operator's file allowed at the gate
    loaded,             \* the cached file as it was when the code was loaded
    applied,            \* actions carried out
    given               \* board messages given out, by campaign

files == <<env, consent, cache>>
board == <<notes, pending, given>>
frame == <<assign, shot>>
runner == <<out, rejected, checked, loaded, applied>>
bounds == <<frames, changes>>
vars == <<files, board, pendingCapture, phase, frame, runner, bounds>>

InSeq(s) == {s[i] : i \in DOMAIN s}

Init ==
    /\ env \in RunnerEnvs
    /\ consent = [c \in Campaigns |-> None]
    /\ cache = [h \in Hashes |-> "absent"]
    /\ notes = [c \in Campaigns |-> << >>] /\ pending = notes
    /\ given = [c \in Campaigns |-> {}]
    /\ pendingCapture = [c \in Campaigns |-> None]
    /\ phase = "idle" /\ assign = None /\ shot = None /\ out = << >>
    /\ rejected = FALSE /\ checked = {} /\ loaded = "absent" /\ applied = {}
    /\ frames = 0 /\ changes = 0

-----------------------------------------------------------------------------
(* What the server sends and the agent makes of it.                        *)
EffectivePierCodeGrants(a) ==
    IF a.actions = None THEN DefaultPierCodeGrants ELSE a.actions
GrantAllows(a, action) == action \in EffectivePierCodeGrants(a) \cap PierCodeActions

MaxExposure(a) == IF a.integration = 0 THEN DefaultExposure ELSE a.integration
ValidateNextCapture(a, p) ==
    /\ p.exposure # None => p.exposure > 0 /\ p.exposure <= MaxExposure(a)
    /\ p.filter # None => p.filter \in InSeq(a.filters)
nextCaptureAllowed(a) ==
    a.hash # None /\ ~a.disabled /\ GrantAllows(a, "next_capture")

(* The operator's command line.                                            *)
Approved(list) == IF list = {} THEN DefaultPierCodeGrants ELSE list
Approve(c, list) ==
    /\ changes < MaxChanges /\ Approved(list) \subseteq PierCodeActions
    /\ consent' = [consent EXCEPT ![c] = Approved(list)]
    /\ changes' = changes + 1
    /\ UNCHANGED <<env, cache, board, pendingCapture, phase, frame, runner, frames>>

Revoke(c) ==
    /\ changes < MaxChanges /\ consent[c] # None
    /\ consent' = [consent EXCEPT ![c] = None]
    /\ changes' = changes + 1
    /\ UNCHANGED <<env, cache, board, pendingCapture, phase, frame, runner, frames>>

(* The cached file is damaged or removed from outside.                     *)
Damage(h) ==
    /\ changes < MaxChanges /\ changes' = changes + 1
    /\ cache[h] = "good"
    /\ \E state \in {"damaged", "absent"} : cache' = [cache EXCEPT ![h] = state]
    /\ UNCHANGED <<env, consent, board, pendingCapture, phase, frame, runner, frames>>

-----------------------------------------------------------------------------
(* The board.  A message is the same as one in the history by its id, or,  *)
(* without one, by its contents; both are the identity of a message here.  *)
Newest(s) == SubSeq(s, IF Len(s) > MaxBoard THEN Len(s) - MaxBoard + 1 ELSE 1, Len(s))

(* What a sequence has at these places, in its order.                      *)
Pick(s, places) ==
    LET upTo[n \in 0..Len(s)] ==
            IF n = 0 THEN << >>
            ELSE IF n \in places THEN Append(upTo[n - 1], s[n])
            ELSE upTo[n - 1] IN
    upTo[Len(s)]
Except(s, n) == Pick(s, {i \in DOMAIN s : Topic[s[i]].node # n})

Keep(c, ns, ps) ==
    /\ notes' = [notes EXCEPT ![c] = ns] /\ pending' = [pending EXCEPT ![c] = ps]
    /\ given' = [given EXCEPT ![c] = @ \cap InSeq(ns)]

(* The same with a message looked up among those not yet given out.        *)
HearPendingOnly(m, retained) ==
    LET c == Topic[m].campaign
    IN  /\ phase = "idle" /\ changes < MaxChanges /\ changes' = changes + 1
        /\ IF m \in InSeq(pending[c]) THEN UNCHANGED board
           ELSE Keep(c, Newest(Append(notes[c], m)), Newest(Append(pending[c], m)))
        /\ UNCHANGED <<files, pendingCapture, phase, frame, runner, frames>>

onBoardMessage(m, retained) ==
    LET c == Topic[m].campaign
        clear == retained /\ m \in Legacy
        ns == IF clear THEN Except(notes[c], Topic[m].node) ELSE notes[c]
        ps == IF clear THEN Except(pending[c], Topic[m].node) ELSE pending[c]
    IN  /\ phase = "idle" /\ changes < MaxChanges /\ changes' = changes + 1
        /\ IF m \in InSeq(ns) THEN Keep(c, ns, ps)
           ELSE Keep(c, Newest(Append(ns, m)), Newest(Append(ps, m)))
        /\ UNCHANGED <<files, pendingCapture, phase, frame, runner, frames>>

(* An empty retained payload clears what a node has said.                  *)
ClearRetained(c, n) ==
    /\ phase = "idle" /\ changes < MaxChanges /\ changes' = changes + 1
    /\ Keep(c, Except(notes[c], n), Except(pending[c], n))
    /\ UNCHANGED <<files, pendingCapture, phase, frame, runner, frames>>

-----------------------------------------------------------------------------
(* The handler returns, and the runner's process is gone.                  *)
Return ==
    /\ phase' = "idle" /\ assign' = None /\ shot' = None /\ out' = << >>
    /\ rejected' = FALSE /\ checked' = {} /\ loaded' = "absent" /\ applied' = {}

Go(next) == phase' = next /\ UNCHANGED <<frame, runner>>

(* The exposure.  The override is taken once the telescope and the filter  *)
(* wheel are there, whatever comes of it then; one that the current        *)
(* assignment does not allow is dropped, one outside its bounds fails the  *)
(* capture.                                                                *)
Override(a) ==
    IF nextCaptureAllowed(a) THEN pendingCapture[a.campaign] ELSE None

Shot(a, p) ==
    [exposure |-> IF p # None /\ p.exposure # None THEN p.exposure ELSE MaxExposure(a),
     filter |-> IF p # None /\ p.filter # None THEN p.filter
                ELSE IF a.filters = << >> THEN None ELSE Head(a.filters),
     by |-> IF p = None THEN None ELSE p.by]

takePendingCapture(a) == pendingCapture' = [pendingCapture EXCEPT ![a.campaign] = None]

(* The same without the second look at the override's bounds.              *)
ExposeUnvalidated(a) ==
    /\ phase = "idle" /\ frames < MaxFrames /\ frames' = frames + 1
    /\ \/ /\ assign' = a /\ shot' = Shot(a, Override(a)) /\ takePendingCapture(a)
          /\ phase' = "captured" /\ UNCHANGED runner
       \/ Return /\ (takePendingCapture(a) \/ UNCHANGED pendingCapture)
    /\ UNCHANGED <<files, board, changes>>

Expose(a) ==
    /\ phase = "idle" /\ frames < MaxFrames /\ frames' = frames + 1
    /\ \/ /\ Override(a) # None => ValidateNextCapture(a, Override(a))
          /\ assign' = a /\ shot' = Shot(a, Override(a)) /\ takePendingCapture(a)
          /\ phase' = "captured" /\ UNCHANGED runner
       \/ Return /\ takePendingCapture(a)  \* it is out of bounds, or a device fails
       \/ Return /\ UNCHANGED pendingCapture    \* one fails before it is taken
    /\ UNCHANGED <<files, board, changes>>

(* The board's messages are taken before anything else is looked at: those *)
(* of a frame whose code does not run in the end are gone.                 *)
drainBoardSnapshot(c) ==
    /\ pending' = [pending EXCEPT ![c] = << >>]
    /\ given' = [given EXCEPT ![c] = @ \cup InSeq(pending[c])]
    /\ UNCHANGED notes

processCapturedTask ==
    /\ phase = "captured"
    /\ IF assign.hash = None THEN Return /\ UNCHANGED board
       ELSE /\ drainBoardSnapshot(assign.campaign)
            /\ IF assign.disabled THEN Return ELSE Go("fetching")
    /\ UNCHANGED <<files, pendingCapture, bounds>>

(* A cached file is verified, and never fetched again when that fails; one *)
(* that is fetched is written only when it is the assigned one.            *)
FetchVerifiedArtifact ==
    /\ phase = "fetching"
    /\ \/ cache[assign.hash] = "good" /\ Go("forked") /\ UNCHANGED cache
       \/ cache[assign.hash] = "damaged" /\ Return /\ UNCHANGED cache
       \/ /\ cache[assign.hash] = "absent"
          /\ \/ cache' = [cache EXCEPT ![assign.hash] = "good"] /\ Go("forked")
             \/ Return /\ UNCHANGED cache
    /\ UNCHANGED <<env, consent, board, pendingCapture, bounds>>

-----------------------------------------------------------------------------
(* The runner, a process of its own.                                       *)
Record(action) == [action |-> action, exposure |-> None, filter |-> None]
Fail == Append(out, Record("error"))

AllowsAnyGrant(c, want) == consent[c] # None
Allows(c, want) == consent[c] # None /\ want \subseteq consent[c]

(* DefaultPath: the file is found by its own variable, or under the        *)
(* configuration directory, which the environment names.  The agent starts *)
(* the runner with an empty environment; only a runner path that is a      *)
(* wrapper can set one, as the runner's tests do.                          *)
ConsentPathKnown == env \cap {"SAUCEPAN_CONSENT_FILE", "XDG_CONFIG_HOME", "HOME"} # {}
checkConsent(a) == ConsentPathKnown /\ Allows(a.campaign, EffectivePierCodeGrants(a))

(* The job names a file that is there; its other checks always pass here,  *)
(* and so does the kill switch, which the agent looks at before it forks.  *)
validateJob(a) == cache[a.hash] # "absent"

RunnerGate ==
    /\ phase = "forked"
    /\ checked' = IF consent[assign.campaign] = None THEN {} ELSE consent[assign.campaign]
    /\ IF validateJob(assign) /\ checkConsent(assign)
       THEN phase' = "approved" /\ UNCHANGED out
       ELSE phase' = "ended" /\ out' = Fail
    /\ UNCHANGED <<files, board, pendingCapture, frame, rejected, loaded,
                   applied, bounds>>

(* The bytes that are loaded are verified again.                           *)
VerifyArtifactBytes(h) == cache[h] = "good"
LoadArtifact ==
    /\ phase = "approved" /\ loaded' = cache[assign.hash]
    /\ \/ VerifyArtifactBytes(assign.hash) /\ phase' = "running" /\ UNCHANGED out
       \/ phase' = "ended" /\ out' = Fail      \* or it does not compile or link
    /\ UNCHANGED <<files, board, pendingCapture, frame, rejected, checked,
                   applied, bounds>>

(* One record by the program: forwarded if it is of the menu, granted, and *)
(* within the bounds of the frame's own assignment.                        *)
CheckRecordGrant(a, rec) == rec.action = "state" \/ GrantAllows(a, rec.action)
emit(rec) ==
    /\ phase = "running" /\ Len(out) < MaxRecords
    /\ IF /\ CheckRecordGrant(assign, rec)
          /\ rec.action = "next_capture" => ValidateNextCapture(assign, rec)
       THEN out' = Append(out, rec) /\ UNCHANGED rejected
       ELSE rejected' = TRUE /\ UNCHANGED out
    /\ UNCHANGED <<files, board, pendingCapture, phase, frame, checked, loaded,
                   applied, bounds>>

(* The program returns, or traps or spins until the hang guard ends it.    *)
runArtifactEnds ==
    /\ phase = "running" /\ phase' = "ended"
    /\ \/ ~rejected /\ out' = Append(out, Record("done"))
       \/ out' = Fail
    /\ UNCHANGED <<files, board, pendingCapture, frame, rejected, checked,
                   loaded, applied, bounds>>

(* The agent ends a runner that takes too long; the line it was writing    *)
(* may be torn, and then no record of it is read.                          *)
KillRunner ==
    /\ phase \in {"forked", "approved", "running"} /\ phase' = "ended"
    /\ out' \in {out, << >>}
    /\ UNCHANGED <<files, board, pendingCapture, frame, rejected, checked,
                   loaded, applied, bounds>>

-----------------------------------------------------------------------------
(* The agent carries out the records, one by one; an error of one does not *)
(* stop the next.                                                          *)
NextCapture(rec) == [exposure |-> rec.exposure, filter |-> rec.filter, by |-> assign.campaign]

CarryOut(rec) ==
    IF rec.action = "next_capture"
    THEN IF ValidateNextCapture(assign, rec)
         THEN /\ pendingCapture' = [pendingCapture EXCEPT ![assign.campaign] = NextCapture(rec)]
              /\ applied' = applied \cup {rec.action}
         ELSE UNCHANGED <<pendingCapture, applied>>
    ELSE /\ \/ applied' = applied \cup {rec.action}  \* PostBoardNote
            \/ UNCHANGED applied                     \* fails
         /\ UNCHANGED pendingCapture

apply ==
    /\ phase = "ended"
    /\ IF out = << >> THEN Return /\ UNCHANGED pendingCapture
       ELSE /\ out' = Tail(out)
            /\ UNCHANGED <<phase, frame, rejected, checked, loaded>>
            /\ IF /\ Head(out).action \notin {"state", "done", "error"} \cup PullActions
                  /\ CheckRecordGrant(assign, Head(out))
               THEN CarryOut(Head(out))
               ELSE UNCHANGED <<pendingCapture, applied>>
    /\ UNCHANGED <<files, board, bounds>>

(* The agent and its runner die; what is in memory is lost.                *)
Restart ==
    /\ changes < MaxChanges /\ changes' = changes + 1 /\ Return
    /\ notes' = [c \in Campaigns |-> << >>] /\ pending' = notes'
    /\ given' = [c \in Campaigns |-> {}]
    /\ pendingCapture' = [c \in Campaigns |-> None]
    /\ UNCHANGED <<files, frames>>

-----------------------------------------------------------------------------
Operator == \E c \in Campaigns : Revoke(c) \/ \E l \in GrantLists : Approve(c, l)
Board == \/ \E m \in Messages, r \in BOOLEAN : onBoardMessage(m, r)
         \/ \E m \in Messages : ClearRetained(Topic[m].campaign, Topic[m].node)
Agent == \/ \E a \in Assignments : Expose(a)
         \/ processCapturedTask \/ FetchVerifiedArtifact \/ KillRunner \/ apply
Runner == RunnerGate \/ LoadArtifact \/ (\E rec \in Asked : emit(rec)) \/ runArtifactEnds

Next == Operator \/ Board \/ Agent \/ Runner \/ Restart \/ \E h \in Hashes : Damage(h)

Spec == Init /\ [][Next]_vars

-----------------------------------------------------------------------------
(* What a campaign's code has done for a frame is what the operator's file *)
(* allowed when its run was let in, and it was done by the assigned bytes, *)
(* whatever is revoked, damaged or written to the file in between          *)
(* (checkConsent, runArtifact, apply).                                     *)
EffectsAreConsented == applied # {} => applied \subseteq checked /\ loaded = "good"

(* An exposure keeps to the integration time and the filters of the        *)
(* assignment it is taken for, although an override was asked for under an *)
(* earlier one, and only code of the same campaign that may still ask so   *)
(* has changed it (takePendingCapture).                                    *)
ShotIsBounded ==
    shot # None =>
        /\ shot.exposure \in 1 .. MaxExposure(assign)
        /\ shot.filter \in InSeq(assign.filters) \cup {None}
        /\ shot.by # None =>
              /\ shot.by = assign.campaign /\ ~assign.disabled
              /\ GrantAllows(assign, "next_capture")

(* A board message with an id that a run was given waits for no other run  *)
(* as long as the history still holds it, however often the broker repeats *)
(* it (onBoardMessage, drainBoardSnapshot).                                *)
SignalOnce == \A c \in Campaigns : InSeq(pending[c]) \cap given[c] \subseteq Legacy

=============================================================================
