----------------------------- MODULE PierAgent -----------------------------
(***************************************************************************)
(* The agent that drives one telescope: the MQTT client's callback, one    *)
(* handler per delivered command, and the two mutexes and the stop flag by *)
(* which captures and aborts share the mount, the filter wheel and the     *)
(* camera.  Every action below is a run of code between two points where   *)
(* another goroutine or the hardware may act: a lock taken, a device call, *)
(* one turn of a polling loop.                                             *)
(*                                                                         *)
(* The devices are external: a movement settles when it likes, or never,   *)
(* and any call may fail.                                                  *)
(***************************************************************************)
EXTENDS Naturals, Sequences

CONSTANTS
    Deliveries,     \* command messages; a redelivered command is a second one
    Kind,           \* [Deliveries -> {"assign", "preempt", "abort"}]
    NoOne,
    Orders,         \* the values of the MQTT client's OrderMatters to check
    Faults          \* "call": any device call may fail

Devices == {"mount", "wheel", "camera"}

ASSUME NoOneAssumption == NoOne \notin Deliveries
ASSUME KindAssumption == Kind \in [Deliveries -> {"assign", "preempt", "abort"}]
ASSUME OrdersAssumption == Orders \subseteq BOOLEAN

VARIABLES
    ordered,        \* callbacks run one after the other (the library's default,
                    \* which the code leaves alone), or each by itself
    inbox,          \* received, waiting for the callback before
    pc, todo,       \* each handler's place, and the devices it has yet to use
    failed,         \* handlers of which an abort call has failed
    stop,           \* stopRequested
    capture, hw,    \* who holds captureMu and hardwareMu
    current,        \* whose task the heartbeat reports
    moving,         \* whose movement each device is making
    at,             \* the capture whose target the mount points at
    image,          \* the camera's finished image: whose, and of what target
    frames,         \* the frames in the capture directory
    \* history
    quiet,          \* an abort has succeeded, and no assignment has begun since
                    \* its stop request
    astray          \* devices that a failed call may have left moving

handlers == <<inbox, pc, todo, failed>>
agent == <<stop, capture, hw, current>>
hardware == <<moving, at, image>>
ghosts == <<quiet, astray>>
vars == <<ordered, handlers, agent, hardware, frames, ghosts>>

NoImage == [of |-> NoOne, on |-> NoOne]

(* The devices a capture uses, in order: the filter wheel not at all, for  *)
(* the required filter, or once more for an override by on-pier code.      *)
Courses == {<<"mount", "camera">>, <<"mount", "wheel", "camera">>,
            <<"mount", "wheel", "wheel", "camera">>}

Init == /\ ordered \in Orders
        /\ inbox = << >>
        /\ pc = [m \in Deliveries |-> "away"]
        /\ todo = [m \in Deliveries |-> << >>]
        /\ failed = {}
        /\ stop = FALSE /\ capture = NoOne /\ hw = NoOne /\ current = NoOne
        /\ moving = [d \in Devices |-> NoOne]
        /\ at = NoOne /\ image = NoImage /\ frames = {}
        /\ quiet = FALSE /\ astray = {}

Goto(m, place) == pc' = [pc EXCEPT ![m] = place]
-----------------------------------------------------------------------------
(* The callback.                                                           *)

Entry(m) == IF Kind[m] = "assign" THEN "begin" ELSE "stop"

(* A command arrives.  Unordered, its callback starts at once.             *)
Arrive(m) ==
    /\ pc[m] = "away"
    /\ IF ordered THEN inbox' = Append(inbox, m) /\ Goto(m, "inbox")
                  ELSE Goto(m, Entry(m)) /\ UNCHANGED inbox
    /\ UNCHANGED <<ordered, todo, failed, agent, hardware, frames, ghosts>>

(* handleCommandMessage is called for the next message when the callback   *)
(* before has returned.  A command that is too old by then, or that cannot *)
(* be verified, is dropped.                                                *)
HandleCommandMessage ==
    /\ inbox # << >>
    /\ \A m \in Deliveries : pc[m] \in {"away", "inbox", "done"}
    /\ inbox' = Tail(inbox)
    /\ \/ Goto(Head(inbox), Entry(Head(inbox)))
       \/ Goto(Head(inbox), "done")
    /\ UNCHANGED <<ordered, todo, failed, agent, hardware, frames, ghosts>>
-----------------------------------------------------------------------------
(* AbortTask.                                                              *)

RequestStop(m) ==
    /\ pc[m] = "stop"
    /\ stop' = TRUE
    /\ Goto(m, "halt")
    /\ UNCHANGED <<ordered, inbox, todo, failed, capture, hw, current, hardware,
                   frames, ghosts>>

LockHardware(m) ==
    /\ pc[m] = "halt" /\ hw = NoOne
    /\ hw' = m
    /\ todo' = [todo EXCEPT ![m] = <<"mount", "camera", "wheel">>]
    /\ Goto(m, "abort")
    /\ UNCHANGED <<ordered, inbox, failed, stop, capture, current, hardware,
                   frames, ghosts>>

(* AbortSlew, AbortExposure, AbortMovement.  A mount stopped on its way    *)
(* points at nobody's target; an exposure aborted leaves no image.         *)
Halt(d) == /\ moving' = [moving EXCEPT ![d] = NoOne]
           /\ astray' = astray \ {d}
           /\ UNCHANGED <<at, image>>

HaltFails(d) == /\ "call" \in Faults
                /\ astray' = astray \cup {d}
                /\ UNCHANGED hardware

(* All three calls are made, whichever fails.                              *)
AbortDevice(m) ==
    /\ pc[m] = "abort" /\ todo[m] # << >>
    /\ todo' = [todo EXCEPT ![m] = Tail(@)]
    /\ \/ Halt(Head(todo[m])) /\ UNCHANGED failed
       \/ HaltFails(Head(todo[m])) /\ failed' = failed \cup {m}
    /\ UNCHANGED <<ordered, inbox, pc, agent, frames, quiet>>

(* AbortTask unlocks and returns; HandlePreemptTask goes on to the new     *)
(* task unless it returned an error.                                       *)
AbortReturns(m) ==
    /\ pc[m] = "abort" /\ todo[m] = << >>
    /\ hw' = NoOne
    /\ quiet' = (quiet \/ (stop /\ m \notin failed))
    /\ Goto(m, IF Kind[m] = "preempt" /\ m \notin failed THEN "begin" ELSE "done")
    /\ UNCHANGED <<ordered, inbox, todo, failed, stop, capture, current,
                   hardware, frames, astray>>
-----------------------------------------------------------------------------
(* ExecuteAssignTask.                                                      *)

(* prepareNewAssignment acknowledges the aborts there have been.           *)
PrepareNewAssignment(m) ==
    /\ pc[m] = "begin" /\ hw = NoOne
    /\ stop' = FALSE
    /\ quiet' = FALSE
    /\ Goto(m, "lock")
    /\ UNCHANGED <<ordered, inbox, todo, failed, capture, hw, current, hardware,
                   frames, astray>>

LockCapture(m) ==
    /\ pc[m] = "lock" /\ capture = NoOne
    /\ capture' = m
    /\ Goto(m, "check")
    /\ UNCHANGED <<ordered, inbox, todo, failed, stop, hw, current, hardware,
                   frames, ghosts>>

(* Every return of ExecuteAssignTask clears the task and unlocks.          *)
Leave(m, place) == /\ capture' = NoOne /\ current' = NoOne
                   /\ Goto(m, place)

Return(m) == /\ Leave(m, "done")
             /\ UNCHANGED <<todo, hardware, frames, ghosts>>

(* The stop flag is honoured, a task without coordinates refused, the task *)
(* set as the current one, and the target checked against the mount's      *)
(* limits, horizon and obstructions: unsafe or not, here.                  *)
CheckAssignment(m) ==
    /\ pc[m] = "check"
    /\ \/ Return(m)
       \/ /\ ~stop
          /\ current' = m
          /\ \E c \in Courses : todo' = [todo EXCEPT ![m] = c]
          /\ Goto(m, "start")
          /\ UNCHANGED <<capture, hardware, frames, ghosts>>
    /\ UNCHANGED <<ordered, inbox, failed, stop, hw>>

(* A device obeys: the mount leaves its target, the camera its image.      *)
Begin(m, d) == /\ moving' = [moving EXCEPT ![d] = m]
               /\ IF d = "mount" THEN at' = NoOne ELSE UNCHANGED at
               /\ IF d = "camera" THEN image' = NoImage ELSE UNCHANGED image
               /\ UNCHANGED <<todo, frames, quiet>>

\* Mutant: the stop flag is read before hardwareMu is taken, not under it.
StartDeviceUnchecked(m) ==
    LET d == Head(todo[m]) IN
    /\ pc[m] = "start" /\ hw = NoOne
    /\ Begin(m, d) /\ Goto(m, "wait")
    /\ astray' = astray \ {d}
    /\ UNCHANGED <<capture, current>>
    /\ UNCHANGED <<ordered, inbox, failed, stop, hw>>

(* SlewToCoordinatesAsync, SetPosition or StartExposure, under hardwareMu  *)
(* and only if nobody asked to stop.  After an error the device is left to *)
(* itself, although it may have obeyed.                                    *)
StartDevice(m) ==
    LET d == Head(todo[m]) IN
    /\ pc[m] = "start" /\ hw = NoOne
    /\ \/ /\ stop \/ "call" \in Faults
          /\ Return(m)
       \/ /\ ~stop
          /\ Begin(m, d) /\ Goto(m, "wait")
          /\ astray' = astray \ {d}
          /\ UNCHANGED <<capture, current>>
       \/ /\ ~stop /\ "call" \in Faults
          /\ Begin(m, d) /\ Leave(m, "done")
          /\ astray' = astray \cup {d}
    /\ UNCHANGED <<ordered, inbox, failed, stop, hw>>

\* Mutant: a movement that takes too long is given up without stopping it.
GiveUpMoving(m) ==
    /\ pc[m] = "wait"
    /\ Leave(m, "done")
    /\ UNCHANGED <<ordered, inbox, todo, failed, stop, hw, hardware, frames, ghosts>>

\* Mutant: a slew that failed counts as complete.
GiveUpNothing(m) ==
    /\ pc[m] = "wait"
    /\ Halt(Head(todo[m]))
    /\ todo' = [todo EXCEPT ![m] = Tail(@)]
    /\ Goto(m, IF Len(todo[m]) = 1 THEN "read" ELSE "start")
    /\ UNCHANGED <<ordered, inbox, failed, stop, capture, hw, current, frames, quiet>>

(* The deadline passes, or the poll fails: the device is told to stop,     *)
(* without hardwareMu, and the capture is given up.                        *)
GiveUp(m) ==
    /\ pc[m] = "wait"
    /\ Halt(Head(todo[m])) \/ HaltFails(Head(todo[m]))
    /\ Leave(m, "done")
    /\ UNCHANGED <<ordered, inbox, todo, failed, stop, hw, frames, quiet>>

(* A polling loop ends with the stop flag, or with the device at rest.     *)
AwaitDevice(m) ==
    LET d == Head(todo[m]) IN
    /\ pc[m] = "wait"
    /\ \/ stop /\ Return(m)
       \/ /\ moving[d] # m
          /\ d = "camera" => image.of = m
          /\ todo' = [todo EXCEPT ![m] = Tail(@)]
          /\ Goto(m, IF Len(todo[m]) = 1 THEN "read" ELSE "start")
          /\ UNCHANGED <<capture, current, hardware, frames, ghosts>>
    /\ UNCHANGED <<ordered, inbox, failed, stop, hw>>

(* waitForSlewComplete, selectFilter's loop and waitForImageReady.  Each   *)
(* turn reads the stop flag and then polls the device, so a device may be  *)
(* found at rest although a stop was requested in between.                 *)
WaitForDevice(m) == AwaitDevice(m) \/ GiveUp(m)

(* ImageArray and writeCapture.                                            *)
WriteCapture(m) ==
    /\ pc[m] = "read"
    /\ \/ Return(m)
       \/ /\ frames' = frames \cup {[task |-> m, of |-> image.of, on |-> image.on]}
          /\ Leave(m, "process")
          /\ UNCHANGED <<todo, hardware, ghosts>>
    /\ UNCHANGED <<ordered, inbox, failed, stop, hw>>

(* processCapturedTask uploads the frame and runs the on-pier code, each   *)
(* with a timeout, still in the callback.                                  *)
ProcessCapturedTask(m) ==
    /\ pc[m] = "process"
    /\ Goto(m, "done")
    /\ UNCHANGED <<ordered, inbox, todo, failed, agent, hardware, frames, ghosts>>
-----------------------------------------------------------------------------
(* The hardware.                                                           *)

(* A device comes to rest: the mount on the target, the camera with an     *)
(* image of whatever the mount points at.                                  *)
Settle(d) ==
    /\ moving[d] # NoOne
    /\ moving' = [moving EXCEPT ![d] = NoOne]
    /\ IF d = "mount" THEN at' = moving[d] ELSE UNCHANGED at
    /\ IF d = "camera" THEN image' = [of |-> moving[d], on |-> at]
                       ELSE UNCHANGED image
    /\ astray' = astray \ {d}
    /\ UNCHANGED <<ordered, handlers, agent, frames, quiet>>
-----------------------------------------------------------------------------
Handle(m) == \/ RequestStop(m) \/ LockHardware(m) \/ AbortDevice(m)
             \/ AbortReturns(m) \/ PrepareNewAssignment(m) \/ LockCapture(m)
             \/ CheckAssignment(m) \/ StartDevice(m) \/ WaitForDevice(m)
             \/ WriteCapture(m) \/ ProcessCapturedTask(m)

Next == \/ HandleCommandMessage
        \/ \E m \in Deliveries : Arrive(m) \/ Handle(m)
        \/ \E d \in Devices : Settle(d)

Spec == Init /\ [][Next]_vars

(* Go schedules every goroutine and its mutexes do not starve a waiter;    *)
(* the client calls back for every message.  No device need ever settle.   *)
Fairness == /\ WF_vars(HandleCommandMessage)
            /\ \A m \in Deliveries : WF_vars(Handle(m))

FairSpec == Spec /\ Fairness
-----------------------------------------------------------------------------
(* Properties.                                                             *)

Capturing == {"check", "start", "wait", "read"}

(* Every variable stays in its type, and each mutex is held by one handler *)
(* that is in the section it protects: no return path keeps a lock.        *)
TypeOK ==
    /\ ordered \in BOOLEAN
    /\ inbox \in Seq(Deliveries)
    /\ pc \in [Deliveries -> Capturing \cup {"away", "inbox", "stop", "halt",
                   "abort", "begin", "lock", "process", "done"}]
    /\ todo \in [Deliveries -> Seq(Devices)]
    /\ failed \subseteq Deliveries
    /\ stop \in BOOLEAN /\ quiet \in BOOLEAN
    /\ current \in {NoOne, capture}
    /\ moving \in [Devices -> Deliveries \cup {NoOne}]
    /\ at \in Deliveries \cup {NoOne}
    /\ image \in [of : Deliveries \cup {NoOne}, on : Deliveries \cup {NoOne}]
    /\ frames \subseteq [task : Deliveries, of : Deliveries \cup {NoOne},
                         on : Deliveries \cup {NoOne}]
    /\ astray \subseteq Devices
    /\ {m \in Deliveries : pc[m] \in Capturing} = {capture} \ {NoOne}
    /\ {m \in Deliveries : pc[m] = "abort"} = {hw} \ {NoOne}

(* After an abort has succeeded nothing moves until the next assignment    *)
(* begins, however the capture it interrupted was interleaved with it      *)
(* (prepareNewAssignment: an abort "either wins before the next call or    *)
(* waits until that call has started and then aborts it").                 *)
IdleAfterAbort == quiet => \A d \in Devices : moving[d] = NoOne

(* Nothing moves unattended: a movement belongs to the task the heartbeat  *)
(* reports, or an abort is about to stop the device, or a call that failed *)
(* has started it or not stopped it.                                       *)
NothingMovesUnattended ==
    \A d \in Devices : moving[d] = NoOne \/ d \in astray \/ moving[d] = current
        \/ \E m \in Deliveries :
              \/ pc[m] = "halt"
              \/ pc[m] = "abort" /\ \E i \in 1..Len(todo[m]) : todo[m][i] = d

(* As long as callbacks run in order, a frame is of the exposure and of    *)
(* the target of the task it is filed under, whatever failed before.       *)
FrameIsOnTarget == ordered => \A f \in frames : f.of = f.task /\ f.on = f.task

(* Every command that arrives is done with in the end: the mutexes and the *)
(* polling loops never hold a handler for ever, though a device may hang.  *)
EveryCommandEnds == \A m \in Deliveries : pc[m] # "away" ~> pc[m] = "done"

=============================================================================
