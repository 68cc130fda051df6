-------------------------- MODULE PierAgentProofs --------------------------
(***************************************************************************)
(* What holds of PierAgent for any set of commands, any faults and both    *)
(* callback modes: the types with the ownership of the two mutexes, that   *)
(* nothing moves between a successful abort and the next assignment, that  *)
(* nothing moves unattended, and that frames are filed under their task.   *)
(***************************************************************************)
EXTENDS PierAgent, SequenceTheorems, TLAPS

(* The type invariant in parts: the fields, and who holds the mutexes.     *)
Fields ==
    /\ ordered \in BOOLEAN
    /\ inbox \in Seq(Deliveries)
    /\ pc \in [Deliveries -> Capturing \cup {"away", "inbox", "stop", "halt",
                   "abort", "begin", "lock", "process", "done"}]
    /\ todo \in [Deliveries -> Seq(Devices)]
    /\ failed \subseteq Deliveries
    /\ stop \in BOOLEAN /\ quiet \in BOOLEAN
    /\ moving \in [Devices -> Deliveries \cup {NoOne}]
    /\ at \in Deliveries \cup {NoOne}
    /\ image \in [of : Deliveries \cup {NoOne}, on : Deliveries \cup {NoOne}]
    /\ frames \subseteq [task : Deliveries, of : Deliveries \cup {NoOne},
                         on : Deliveries \cup {NoOne}]
    /\ astray \subseteq Devices

Locks ==
    /\ current \in {NoOne, capture}
    /\ capture \in Deliveries \cup {NoOne} /\ hw \in Deliveries \cup {NoOne}
    /\ \A m \in Deliveries : (pc[m] \in Capturing <=> m = capture)
                           /\ (pc[m] = "abort" <=> m = hw)

(* A handler that uses a device has one left to use.                       *)
HasDevice == \A m \in Deliveries : pc[m] \in {"start", "wait"} => todo[m] # << >>

(* Of the devices an abort has dealt with, all its calls having succeeded, *)
(* none moves: a movement starts only under the mutex that the abort holds.*)
Halted(m) == \A d \in Devices :
    moving[d] = NoOne \/ \E i \in 1..Len(todo[m]) : todo[m][i] = d

AbortHalts == \A m \in Deliveries : pc[m] = "abort" /\ m \notin failed => Halted(m)

(* The stop flag stays up as long as an abort's success is to last.        *)
QuietStops == quiet => stop

IInv == Fields /\ Locks /\ HasDevice /\ AbortHalts /\ QuietStops /\ IdleAfterAbort
-----------------------------------------------------------------------------
LEMMA InvImpliesTypes == IInv => TypeOK
<1> SUFFICES ASSUME IInv PROVE TypeOK
  OBVIOUS
<1>1. {m \in Deliveries : pc[m] \in Capturing} = {capture} \ {NoOne}
  BY NoOneAssumption DEF IInv, Locks
<1>2. {m \in Deliveries : pc[m] = "abort"} = {hw} \ {NoOne}
  BY NoOneAssumption DEF IInv, Locks
<1>3. QED
  BY <1>1, <1>2 DEF IInv, Fields, Locks, TypeOK

LEMMA InitInv == Init => IInv
<1> SUFFICES ASSUME Init PROVE IInv
  OBVIOUS
<1>1. ordered \in BOOLEAN
  BY OrdersAssumption DEF Init
<1>2. inbox \in Seq(Deliveries) /\ todo \in [Deliveries -> Seq(Devices)]
  BY EmptySeq DEF Init
<1>3. image \in [of : Deliveries \cup {NoOne}, on : Deliveries \cup {NoOne}]
  BY DEF Init, NoImage
<1>4. Fields
  BY <1>1, <1>2, <1>3 DEF Init, Fields
<1>5. Locks
  BY NoOneAssumption DEF Init, Locks, Capturing
<1>6. HasDevice /\ AbortHalts /\ QuietStops /\ IdleAfterAbort
  BY DEF Init, HasDevice, AbortHalts, QuietStops, IdleAfterAbort
<1>7. QED
  BY <1>4, <1>5, <1>6 DEF IInv

(* The rest of the devices an abort or a capture has yet to use.           *)
LEMMA TailOfTodo ==
    ASSUME NEW s \in Seq(Devices), s # << >>
    PROVE  /\ Head(s) \in Devices
           /\ Tail(s) \in Seq(Devices)
           /\ Len(s) # 1 => Tail(s) # << >>
           /\ Len(Tail(s)) = Len(s) - 1 /\ Len(s) \in Nat /\ s[1] = Head(s)
           /\ \A i \in 1..Len(Tail(s)) : Tail(s)[i] = s[i + 1]
<1>1. Len(s) \in Nat \ {0}
  BY EmptySeq, LenProperties
<1>2. /\ Tail(s) \in Seq(Devices) /\ Head(s) \in Devices /\ s[1] = Head(s)
      /\ Len(Tail(s)) = Len(s) - 1
      /\ \A i \in 1..Len(Tail(s)) : Tail(s)[i] = s[i + 1]
  BY HeadTailProperties
<1>3. Len(s) # 1 => Tail(s) # << >>
  <2>1. ASSUME Tail(s) = << >> PROVE Len(s) = 1
    <3>1. Len(<< >>) = 0
      OBVIOUS
    <3>2. Len(Tail(s)) = 0
      BY <2>1, <3>1
    <3>3. Len(Tail(s)) = Len(s) - 1
      BY <1>2
    <3>4. QED
      BY <1>1, <3>2, <3>3
  <2>2. QED
    BY <2>1
<1>4. QED
  BY <1>1, <1>2, <1>3

(* One device less to halt, and that one halted.                           *)
LEMMA HaltedTail ==
    ASSUME NEW m \in Deliveries, Fields, Halted(m), todo[m] # << >>,
           Halt(Head(todo[m])), todo' = [todo EXCEPT ![m] = Tail(@)]
    PROVE  Halted(m)'
<1>1. todo[m] \in Seq(Devices) /\ todo'[m] = Tail(todo[m])
  BY DEF Fields
<1>2. moving' = [moving EXCEPT ![Head(todo[m])] = NoOne] /\ moving \in [Devices -> Deliveries \cup {NoOne}]
  BY DEF Halt, Fields
<1> SUFFICES ASSUME NEW d \in Devices, moving'[d] # NoOne
             PROVE  \E i \in 1..Len(todo'[m]) : todo'[m][i] = d
  BY DEF Halted
<1>3. d # Head(todo[m]) /\ moving[d] # NoOne
  BY <1>1, <1>2, TailOfTodo
<1>4. PICK i \in 1..Len(todo[m]) : todo[m][i] = d
  BY <1>3 DEF Halted
<1>5. i # 1
  BY <1>1, <1>3, <1>4, TailOfTodo
<1>6. i - 1 \in 1..Len(Tail(todo[m])) /\ Tail(todo[m])[i - 1] = d
  BY <1>1, <1>4, <1>5, TailOfTodo
<1>7. QED
  BY <1>1, <1>6
-----------------------------------------------------------------------------
(* The steps, one lemma for each.                                          *)

LEMMA CallbackInv ==
    ASSUME IInv, HandleCommandMessage \/ \E m \in Deliveries : Arrive(m)
    PROVE  IInv'
<1> USE NoOneAssumption, KindAssumption
<1>1. UNCHANGED <<todo, failed, stop, capture, hw, current, moving, quiet>>
  BY DEF HandleCommandMessage, Arrive, agent, hardware, ghosts
<1>2. UNCHANGED <<ordered, at, image, frames, astray>>
  BY DEF HandleCommandMessage, Arrive, hardware, ghosts
<1>3. \E m \in Deliveries, p \in {"inbox", "begin", "stop", "done"} :
         /\ pc[m] \in {"away", "inbox", "done"}
         /\ pc' = [pc EXCEPT ![m] = p]
         /\ inbox' \in Seq(Deliveries)
  <2>1. CASE HandleCommandMessage
    <3>1. inbox \in Seq(Deliveries) /\ inbox # << >>
      BY <2>1 DEF HandleCommandMessage, IInv, Fields
    <3>2. Head(inbox) \in Deliveries /\ Tail(inbox) \in Seq(Deliveries)
      BY <3>1, HeadTailProperties
    <3>3. Entry(Head(inbox)) \in {"begin", "stop"}
      BY DEF Entry
    <3>4. /\ pc[Head(inbox)] \in {"away", "inbox", "done"}
          /\ Goto(Head(inbox), Entry(Head(inbox))) \/ Goto(Head(inbox), "done")
          /\ inbox' = Tail(inbox)
      BY <2>1, <3>2 DEF HandleCommandMessage
    <3>5. QED
      BY <3>2, <3>3, <3>4 DEF Goto
  <2>2. CASE \E m \in Deliveries : Arrive(m)
    <3>1. PICK m \in Deliveries : Arrive(m)
      BY <2>2
    <3>2. inbox' \in Seq(Deliveries)
      <4>1. inbox \in Seq(Deliveries)
        BY DEF IInv, Fields
      <4>2. Append(inbox, m) \in Seq(Deliveries)
        BY <4>1, AppendProperties
      <4>3. inbox' = Append(inbox, m) \/ inbox' = inbox
        BY <3>1 DEF Arrive
      <4>4. QED
        BY <4>1, <4>2, <4>3
    <3>3. Entry(m) \in {"begin", "stop"}
      BY DEF Entry
    <3>4. pc[m] = "away" /\ (Goto(m, "inbox") \/ Goto(m, Entry(m)))
      BY <3>1 DEF Arrive
    <3>5. \E p \in {"inbox", "begin", "stop", "done"} : pc' = [pc EXCEPT ![m] = p]
      BY <3>3, <3>4 DEF Goto
    <3>6. QED
      BY <3>2, <3>4, <3>5
  <2>3. QED
    BY <2>1, <2>2
<1>4. PICK m \in Deliveries, p \in {"inbox", "begin", "stop", "done"} :
         /\ pc[m] \in {"away", "inbox", "done"}
         /\ pc' = [pc EXCEPT ![m] = p]
         /\ inbox' \in Seq(Deliveries)
  BY <1>3
<1>5. pc' \in [Deliveries -> Capturing \cup {"away", "inbox", "stop", "halt",
                   "abort", "begin", "lock", "process", "done"}]
  BY <1>4 DEF IInv, Fields
<1>6. Fields'
  BY <1>1, <1>2, <1>4, <1>5 DEF IInv, Fields
<1>7. Locks'
  BY <1>1, <1>4 DEF IInv, Fields, Locks, Capturing
<1>8. (HasDevice /\ AbortHalts /\ QuietStops /\ IdleAfterAbort)'
  BY <1>1, <1>4 DEF IInv, Fields, HasDevice, AbortHalts, Halted, QuietStops, IdleAfterAbort
<1>9. QED
  BY <1>6, <1>7, <1>8 DEF IInv

LEMMA RequestStopInv ==
    ASSUME IInv, NEW m \in Deliveries, RequestStop(m)
    PROVE  IInv'
<1>1. UNCHANGED <<ordered, inbox, todo, failed, capture, hw, current, moving, at,
                  image, frames, quiet, astray>>
  BY DEF RequestStop, hardware, ghosts
<1>2. pc[m] = "stop" /\ pc' = [pc EXCEPT ![m] = "halt"] /\ stop' = TRUE
  BY DEF RequestStop, Goto
<1>3. Fields'
  BY <1>1, <1>2 DEF IInv, Fields
<1>4. Locks'
  BY <1>1, <1>2 DEF IInv, Fields, Locks, Capturing
<1>5. (HasDevice /\ AbortHalts /\ QuietStops /\ IdleAfterAbort)'
  BY <1>1, <1>2 DEF IInv, Fields, HasDevice, AbortHalts, Halted, QuietStops, IdleAfterAbort
<1>6. QED
  BY <1>3, <1>4, <1>5 DEF IInv

(* When the abort begins, it has dealt with no device yet.                 *)
LEMMA LockHardwareInv ==
    ASSUME IInv, NEW m \in Deliveries, LockHardware(m)
    PROVE  IInv'
<1> USE NoOneAssumption
<1>1. UNCHANGED <<ordered, inbox, failed, stop, capture, current, moving, at,
                  image, frames, quiet, astray>>
  BY DEF LockHardware, hardware, ghosts
<1>2. /\ pc[m] = "halt" /\ pc' = [pc EXCEPT ![m] = "abort"]
      /\ hw = NoOne /\ hw' = m
      /\ todo' = [todo EXCEPT ![m] = <<"mount", "camera", "wheel">>]
  BY DEF LockHardware, Goto
<1>3. <<"mount", "camera", "wheel">> \in Seq(Devices)
  BY DEF Devices
<1>4. Fields'
  BY <1>1, <1>2, <1>3 DEF IInv, Fields
<1>5. Locks'
  BY <1>1, <1>2 DEF IInv, Fields, Locks, Capturing
<1>6. HasDevice'
  BY <1>1, <1>2 DEF IInv, Fields, HasDevice
<1>7. AbortHalts'
  <2> DEFINE all == <<"mount", "camera", "wheel">>
  <2>1. \A d \in Devices : \E i \in 1..Len(all) : all[i] = d
    <3>1. Len(all) = 3 /\ all[1] = "mount" /\ all[2] = "camera" /\ all[3] = "wheel"
      OBVIOUS
    <3>2. 1 \in 1..3 /\ 2 \in 1..3 /\ 3 \in 1..3
      OBVIOUS
    <3>3. QED
      BY <3>1, <3>2 DEF Devices
  <2>2. todo'[m] = all
    BY <1>2 DEF IInv, Fields
  <2>3. Halted(m)'
    BY <2>1, <2>2 DEF Halted
  <2>4. \A k \in Deliveries : pc'[k] = "abort" => k = m
    BY <1>2, <1>5 DEF Locks
  <2>5. QED
    BY <2>3, <2>4 DEF AbortHalts
<1>8. (QuietStops /\ IdleAfterAbort)'
  BY <1>1 DEF IInv, QuietStops, IdleAfterAbort
<1>9. QED
  BY <1>4, <1>5, <1>6, <1>7, <1>8 DEF IInv

(* One device is halted, or the abort fails and promises nothing.          *)
LEMMA AbortDeviceInv ==
    ASSUME IInv, NEW m \in Deliveries, AbortDevice(m)
    PROVE  IInv'
<1> USE NoOneAssumption
<1>1. UNCHANGED <<ordered, inbox, pc, stop, capture, hw, current, at, image,
                  frames, quiet>>
  BY DEF AbortDevice, agent, Halt, HaltFails, hardware
<1>2. /\ pc[m] = "abort" /\ todo[m] # << >>
      /\ todo' = [todo EXCEPT ![m] = Tail(@)]
      /\ \/ Halt(Head(todo[m])) /\ failed' = failed
         \/ HaltFails(Head(todo[m])) /\ failed' = failed \cup {m}
  BY DEF AbortDevice
<1>3. todo[m] \in Seq(Devices)
  BY DEF IInv, Fields
<1>4. Head(todo[m]) \in Devices /\ Tail(todo[m]) \in Seq(Devices)
  BY <1>2, <1>3, TailOfTodo
<1>5. /\ moving' \in [Devices -> Deliveries \cup {NoOne}]
      /\ astray' \subseteq Devices /\ failed' \subseteq Deliveries
      /\ \A d \in Devices : moving[d] = NoOne => moving'[d] = NoOne
  BY <1>2, <1>4 DEF IInv, Fields, Halt, HaltFails, hardware
<1>6. Fields'
  BY <1>1, <1>2, <1>4, <1>5 DEF IInv, Fields
<1>7. Locks'
  BY <1>1 DEF IInv, Locks
<1>8. HasDevice'
  BY <1>1, <1>2 DEF IInv, Fields, HasDevice
<1>9. AbortHalts'
  <2>1. \A k \in Deliveries : pc[k] = "abort" => k = m
    BY <1>2 DEF IInv, Locks
  <2>2. CASE Halt(Head(todo[m])) /\ failed' = failed
    <3>1. m \notin failed => Halted(m)
      BY <1>2 DEF IInv, AbortHalts
    <3>2. m \notin failed => Halted(m)'
      BY <1>2, <2>2, <3>1, HaltedTail DEF IInv
    <3>3. QED
      BY <1>1, <2>1, <2>2, <3>2 DEF AbortHalts
  <2>3. CASE failed' = failed \cup {m}
    BY <1>1, <2>1, <2>3 DEF AbortHalts
  <2>4. QED
    BY <1>2, <2>2, <2>3
<1>10. (QuietStops /\ IdleAfterAbort)'
  BY <1>1, <1>5 DEF IInv, QuietStops, IdleAfterAbort
<1>11. QED
  BY <1>6, <1>7, <1>8, <1>9, <1>10 DEF IInv

(* An abort that returns with no failure has dealt with every device.      *)
LEMMA AbortReturnsInv ==
    ASSUME IInv, NEW m \in Deliveries, AbortReturns(m)
    PROVE  IInv'
<1> USE NoOneAssumption
<1>1. UNCHANGED <<ordered, inbox, todo, failed, stop, capture, current, moving,
                  at, image, frames, astray>>
  BY DEF AbortReturns, hardware
<1>2. /\ pc[m] = "abort" /\ todo[m] = << >> /\ hw' = NoOne
      /\ quiet' = (quiet \/ (stop /\ m \notin failed))
  BY DEF AbortReturns
<1>3. PICK p \in {"begin", "done"} : pc' = [pc EXCEPT ![m] = p]
  BY DEF AbortReturns, Goto
<1>4. pc' \in [Deliveries -> Capturing \cup {"away", "inbox", "stop", "halt",
                   "abort", "begin", "lock", "process", "done"}]
  BY <1>3 DEF IInv, Fields
<1>5. quiet' \in BOOLEAN
  BY <1>2 DEF IInv, Fields
<1>6. Fields'
  BY <1>1, <1>4, <1>5 DEF IInv, Fields
<1>7. Locks'
  BY <1>1, <1>2, <1>3 DEF IInv, Fields, Locks, Capturing
<1>8. HasDevice'
  BY <1>1, <1>3 DEF IInv, Fields, HasDevice
<1>9. AbortHalts'
  BY <1>7, <1>2 DEF AbortHalts, Locks
<1>10. m \notin failed => \A d \in Devices : moving[d] = NoOne
  <2>1. Len(todo[m]) = 0
    BY <1>2
  <2>2. QED
    BY <1>2, <2>1 DEF IInv, AbortHalts, Halted
<1>11. QuietStops' /\ IdleAfterAbort'
  BY <1>1, <1>2, <1>10 DEF IInv, QuietStops, IdleAfterAbort
<1>12. QED
  BY <1>6, <1>7, <1>8, <1>9, <1>11 DEF IInv
-----------------------------------------------------------------------------
(* The steps of a capture.                                                 *)

(* What starts no movement leaves an abort, and its success, as they are.  *)
LEMMA NothingStarts ==
    ASSUME IInv, UNCHANGED <<failed, stop, quiet>>,
           \A d \in Devices : moving[d] = NoOne => moving'[d] = NoOne,
           \A k \in Deliveries : pc'[k] = "abort" => pc[k] = "abort" /\ todo'[k] = todo[k]
    PROVE  (AbortHalts /\ QuietStops /\ IdleAfterAbort)'
<1>1. AbortHalts'
  BY DEF IInv, AbortHalts, Halted
<1>2. QuietStops' /\ IdleAfterAbort'
  BY DEF IInv, QuietStops, IdleAfterAbort
<1>3. QED
  BY <1>1, <1>2

(* A handler that leaves its capture holds no mutex.                       *)
LEMMA LeaveLocks ==
    ASSUME Fields, Locks, NEW m \in Deliveries, pc[m] \in Capturing,
           NEW p \in {"process", "done"}, Leave(m, p), hw' = hw
    PROVE  /\ Locks'
           /\ pc' = [pc EXCEPT ![m] = p]
           /\ pc' \in [Deliveries -> Capturing \cup {"away", "inbox", "stop", "halt",
                          "abort", "begin", "lock", "process", "done"}]
<1> USE NoOneAssumption
<1>1. pc' = [pc EXCEPT ![m] = p] /\ capture' = NoOne /\ current' = NoOne
  BY DEF Leave, Goto
<1>2. pc' \in [Deliveries -> Capturing \cup {"away", "inbox", "stop", "halt",
                   "abort", "begin", "lock", "process", "done"}]
  BY <1>1 DEF Fields
<1>3. Locks'
  BY <1>1 DEF Fields, Locks, Capturing
<1>4. QED
  BY <1>1, <1>2, <1>3

LEMMA ReturnInv ==
    ASSUME IInv, NEW m \in Deliveries, pc[m] \in Capturing, Return(m),
           UNCHANGED <<ordered, inbox, failed, stop, hw>>
    PROVE  IInv'
<1>1. UNCHANGED <<todo, moving, at, image, frames, quiet, astray>>
  BY DEF Return, hardware, ghosts
<1>2. /\ Locks' /\ pc' = [pc EXCEPT ![m] = "done"]
      /\ pc' \in [Deliveries -> Capturing \cup {"away", "inbox", "stop", "halt",
                   "abort", "begin", "lock", "process", "done"}]
  BY LeaveLocks DEF Return, IInv
<1>3. Fields'
  BY <1>1, <1>2 DEF IInv, Fields
<1>4. HasDevice'
  BY <1>1, <1>2 DEF IInv, Fields, HasDevice
<1>5. (AbortHalts /\ QuietStops /\ IdleAfterAbort)'
  BY <1>1, <1>2, NothingStarts DEF IInv, Fields
<1>6. QED
  BY <1>2, <1>3, <1>4, <1>5 DEF IInv

(* The stop flag goes down only while no abort holds hardwareMu.           *)
LEMMA PrepareNewAssignmentInv ==
    ASSUME IInv, NEW m \in Deliveries, PrepareNewAssignment(m)
    PROVE  IInv'
<1> USE NoOneAssumption
<1>1. UNCHANGED <<ordered, inbox, todo, failed, capture, hw, current, moving, at,
                  image, frames, astray>>
  BY DEF PrepareNewAssignment, hardware
<1>2. /\ pc[m] = "begin" /\ pc' = [pc EXCEPT ![m] = "lock"]
      /\ stop' = FALSE /\ quiet' = FALSE
  BY DEF PrepareNewAssignment, Goto
<1>3. Fields'
  BY <1>1, <1>2 DEF IInv, Fields
<1>4. Locks'
  BY <1>1, <1>2 DEF IInv, Fields, Locks, Capturing
<1>5. (HasDevice /\ AbortHalts /\ QuietStops /\ IdleAfterAbort)'
  BY <1>1, <1>2 DEF IInv, Fields, HasDevice, AbortHalts, Halted, QuietStops, IdleAfterAbort
<1>6. QED
  BY <1>3, <1>4, <1>5 DEF IInv

LEMMA LockCaptureInv ==
    ASSUME IInv, NEW m \in Deliveries, LockCapture(m)
    PROVE  IInv'
<1> USE NoOneAssumption
<1>1. UNCHANGED <<ordered, inbox, todo, failed, stop, hw, current, moving, at,
                  image, frames, quiet, astray>>
  BY DEF LockCapture, hardware, ghosts
<1>2. /\ pc[m] = "lock" /\ pc' = [pc EXCEPT ![m] = "check"]
      /\ capture = NoOne /\ capture' = m
  BY DEF LockCapture, Goto
<1>3. Fields'
  BY <1>1, <1>2 DEF IInv, Fields, Capturing
<1>4. Locks'
  BY <1>1, <1>2 DEF IInv, Fields, Locks, Capturing
<1>5. HasDevice'
  BY <1>1, <1>2 DEF IInv, Fields, HasDevice
<1>6. (AbortHalts /\ QuietStops /\ IdleAfterAbort)'
  BY <1>1, <1>2, NothingStarts DEF IInv, Fields
<1>7. QED
  BY <1>3, <1>4, <1>5, <1>6 DEF IInv

LEMMA CheckAssignmentInv ==
    ASSUME IInv, NEW m \in Deliveries, CheckAssignment(m)
    PROVE  IInv'
<1> USE NoOneAssumption
<1>1. pc[m] = "check" /\ UNCHANGED <<ordered, inbox, failed, stop, hw>>
  BY DEF CheckAssignment
<1>2. CASE Return(m)
  BY <1>1, <1>2, ReturnInv DEF Capturing
<1>3. CASE ~ Return(m)
  <2>1. PICK c \in Courses : todo' = [todo EXCEPT ![m] = c]
    BY <1>3 DEF CheckAssignment
  <2>2. /\ current' = m /\ pc' = [pc EXCEPT ![m] = "start"]
        /\ UNCHANGED <<capture, moving, at, image, frames, quiet, astray>>
    BY <1>3 DEF CheckAssignment, Goto, hardware, ghosts
  <2>3. c \in Seq(Devices) /\ c # << >>
    <3>1. CASE c = <<"mount", "camera">>
      BY <3>1 DEF Devices
    <3>2. CASE c = <<"mount", "wheel", "camera">>
      BY <3>2 DEF Devices
    <3>3. CASE c = <<"mount", "wheel", "wheel", "camera">>
      BY <3>3 DEF Devices
    <3>4. QED
      BY <3>1, <3>2, <3>3 DEF Courses
  <2>4. Fields'
    BY <1>1, <2>1, <2>2, <2>3 DEF IInv, Fields, Capturing
  <2>5. Locks'
    BY <1>1, <2>2 DEF IInv, Fields, Locks, Capturing
  <2>6. HasDevice'
    BY <2>1, <2>2, <2>3 DEF IInv, Fields, HasDevice
  <2>7. (AbortHalts /\ QuietStops /\ IdleAfterAbort)'
    BY <1>1, <2>1, <2>2, NothingStarts DEF IInv, Fields
  <2>8. QED
    BY <2>4, <2>5, <2>6, <2>7 DEF IInv
<1>4. QED
  BY <1>2, <1>3

(* A movement starts only if no abort holds hardwareMu and none has        *)
(* succeeded since the last assignment began.                              *)
LEMMA StartDeviceInv ==
    ASSUME IInv, NEW m \in Deliveries, StartDevice(m)
    PROVE  IInv'
<1> USE NoOneAssumption
<1> DEFINE d == Head(todo[m])
<1>1. pc[m] = "start" /\ hw = NoOne /\ UNCHANGED <<ordered, inbox, failed, stop, hw>>
  BY DEF StartDevice
<1>2. CASE Return(m)
  BY <1>1, <1>2, ReturnInv DEF Capturing
<1>3. CASE ~ Return(m)
  <2>1. ~stop /\ Begin(m, d) /\ astray' \in {astray \ {d}, astray \cup {d}}
    BY <1>3 DEF StartDevice
  <2>2. d \in Devices
    BY <1>1, TailOfTodo DEF IInv, Fields, HasDevice
  <2>3. /\ moving' = [moving EXCEPT ![d] = m] /\ at' \in {at, NoOne}
        /\ image' \in {image, NoImage} /\ UNCHANGED <<todo, frames, quiet>>
    BY <2>1 DEF Begin
  <2>4. /\ Locks'
        /\ pc' \in [Deliveries -> Capturing \cup {"away", "inbox", "stop", "halt",
                     "abort", "begin", "lock", "process", "done"}]
        /\ pc' \in {[pc EXCEPT ![m] = "wait"], [pc EXCEPT ![m] = "done"]}
    <3>1. CASE Goto(m, "wait") /\ UNCHANGED <<capture, current>>
      <4>1. pc' = [pc EXCEPT ![m] = "wait"]
        BY <3>1 DEF Goto
      <4>2. pc' \in [Deliveries -> Capturing \cup {"away", "inbox", "stop", "halt",
                     "abort", "begin", "lock", "process", "done"}]
        BY <4>1 DEF IInv, Fields, Capturing
      <4>3. Locks'
        BY <1>1, <3>1, <4>1 DEF IInv, Fields, Locks, Capturing
      <4>4. QED
        BY <4>1, <4>2, <4>3
    <3>2. CASE Leave(m, "done")
      <4>1. pc[m] \in Capturing /\ Fields /\ Locks
        BY <1>1 DEF Capturing, IInv
      <4>2. QED
        BY <1>1, <3>2, <4>1, LeaveLocks
    <3>3. QED
      BY <1>3, <3>1, <3>2 DEF StartDevice
  <2>5. NoImage \in [of : Deliveries \cup {NoOne}, on : Deliveries \cup {NoOne}]
    BY DEF NoImage
  <2>6. Fields'
    <3>1. moving' \in [Devices -> Deliveries \cup {NoOne}]
      BY <2>2, <2>3 DEF IInv, Fields
    <3>2. image' \in [of : Deliveries \cup {NoOne}, on : Deliveries \cup {NoOne}]
      BY <2>3, <2>5 DEF IInv, Fields
    <3>3. at' \in Deliveries \cup {NoOne} /\ astray' \subseteq Devices
      BY <2>1, <2>2, <2>3 DEF IInv, Fields
    <3>4. QED
      BY <1>1, <2>3, <2>4, <3>1, <3>2, <3>3 DEF IInv, Fields
  <2>7. HasDevice'
    BY <1>1, <2>3, <2>4 DEF IInv, Fields, HasDevice
  <2>8. AbortHalts'
    BY <1>1, <2>4 DEF Locks, AbortHalts
  <2>9. QuietStops' /\ IdleAfterAbort'
    BY <1>1, <2>1, <2>3 DEF IInv, QuietStops, IdleAfterAbort
  <2>10. QED
    BY <2>4, <2>6, <2>7, <2>8, <2>9 DEF IInv
<1>4. QED
  BY <1>2, <1>3

LEMMA WaitForDeviceInv ==
    ASSUME IInv, NEW m \in Deliveries, WaitForDevice(m)
    PROVE  IInv'
<1> USE NoOneAssumption
<1> DEFINE d == Head(todo[m])
<1>1. pc[m] = "wait" /\ UNCHANGED <<ordered, inbox, failed, stop, hw>>
  BY DEF WaitForDevice, AwaitDevice, GiveUp
<1>2. pc[m] \in Capturing
  BY <1>1 DEF Capturing
<1>3. todo[m] \in Seq(Devices) /\ todo[m] # << >>
  BY <1>1 DEF IInv, Fields, HasDevice
<1>4. d \in Devices /\ Tail(todo[m]) \in Seq(Devices) /\ (Len(todo[m]) # 1 => Tail(todo[m]) # << >>)
  BY <1>3, TailOfTodo
<1>5. CASE Return(m)
  BY <1>1, <1>2, <1>5, ReturnInv
<1>6. CASE GiveUp(m)
  <2>1. /\ Halt(d) \/ HaltFails(d)
        /\ UNCHANGED <<todo, frames, quiet>>
    BY <1>6 DEF GiveUp
  <2>2. /\ moving' \in [Devices -> Deliveries \cup {NoOne}]
        /\ astray' \subseteq Devices /\ UNCHANGED <<at, image>>
        /\ \A e \in Devices : moving[e] = NoOne => moving'[e] = NoOne
    BY <1>4, <2>1 DEF IInv, Fields, Halt, HaltFails, hardware
  <2>3. /\ Locks' /\ pc' = [pc EXCEPT ![m] = "done"]
        /\ pc' \in [Deliveries -> Capturing \cup {"away", "inbox", "stop", "halt",
                     "abort", "begin", "lock", "process", "done"}]
    <3>1. Leave(m, "done")
      BY <1>6 DEF GiveUp
    <3>2. QED
      BY <1>1, <1>2, <3>1, LeaveLocks DEF IInv
  <2>4. Fields'
    BY <1>1, <2>1, <2>2, <2>3 DEF IInv, Fields
  <2>5. HasDevice'
    BY <2>1, <2>3 DEF IInv, Fields, HasDevice
  <2>6. (AbortHalts /\ QuietStops /\ IdleAfterAbort)'
    BY <1>1, <2>1, <2>2, <2>3, NothingStarts DEF IInv, Fields
  <2>7. QED
    BY <2>3, <2>4, <2>5, <2>6 DEF IInv
<1>7. CASE ~ Return(m) /\ ~ GiveUp(m)
  <2>1. /\ todo' = [todo EXCEPT ![m] = Tail(@)]
        /\ Goto(m, IF Len(todo[m]) = 1 THEN "read" ELSE "start")
        /\ UNCHANGED <<capture, current, moving, at, image, frames, quiet, astray>>
    BY <1>7 DEF WaitForDevice, AwaitDevice, hardware, ghosts
  <2>2. PICK p \in {"read", "start"} :
           pc' = [pc EXCEPT ![m] = p] /\ (p = "start" => Len(todo[m]) # 1)
    BY <2>1 DEF Goto
  <2>3. Fields'
    BY <1>1, <1>4, <2>1, <2>2 DEF IInv, Fields, Capturing
  <2>4. Locks'
    BY <1>1, <2>1, <2>2 DEF IInv, Fields, Locks, Capturing
  <2>5. HasDevice'
    BY <1>4, <2>1, <2>2 DEF IInv, Fields, HasDevice
  <2>6. (AbortHalts /\ QuietStops /\ IdleAfterAbort)'
    BY <1>1, <2>1, <2>2, NothingStarts DEF IInv, Fields
  <2>7. QED
    BY <2>3, <2>4, <2>5, <2>6 DEF IInv
<1>8. QED
  BY <1>5, <1>6, <1>7

LEMMA WriteCaptureInv ==
    ASSUME IInv, NEW m \in Deliveries, WriteCapture(m)
    PROVE  IInv'
<1> USE NoOneAssumption
<1>1. pc[m] = "read" /\ UNCHANGED <<ordered, inbox, failed, stop, hw>>
  BY DEF WriteCapture
<1>2. pc[m] \in Capturing
  BY <1>1 DEF Capturing
<1>3. CASE Return(m)
  BY <1>1, <1>2, <1>3, ReturnInv
<1>4. CASE ~ Return(m)
  <2>1. /\ frames' = frames \cup {[task |-> m, of |-> image.of, on |-> image.on]}
        /\ Leave(m, "process")
        /\ UNCHANGED <<todo, moving, at, image, quiet, astray>>
    BY <1>4 DEF WriteCapture, hardware, ghosts
  <2>2. /\ Locks' /\ pc' = [pc EXCEPT ![m] = "process"]
        /\ pc' \in [Deliveries -> Capturing \cup {"away", "inbox", "stop", "halt",
                     "abort", "begin", "lock", "process", "done"}]
    BY <1>1, <1>2, <2>1, LeaveLocks DEF IInv
  <2>3. frames' \subseteq [task : Deliveries, of : Deliveries \cup {NoOne},
                          on : Deliveries \cup {NoOne}]
    BY <2>1 DEF IInv, Fields
  <2>4. Fields'
    BY <1>1, <2>1, <2>2, <2>3 DEF IInv, Fields
  <2>5. HasDevice'
    BY <2>1, <2>2 DEF IInv, Fields, HasDevice
  <2>6. (AbortHalts /\ QuietStops /\ IdleAfterAbort)'
    BY <1>1, <2>1, <2>2, NothingStarts DEF IInv, Fields
  <2>7. QED
    BY <2>2, <2>4, <2>5, <2>6 DEF IInv
<1>5. QED
  BY <1>3, <1>4

LEMMA ProcessCapturedTaskInv ==
    ASSUME IInv, NEW m \in Deliveries, ProcessCapturedTask(m)
    PROVE  IInv'
<1> USE NoOneAssumption
<1>1. UNCHANGED <<ordered, inbox, todo, failed, stop, capture, hw, current, moving,
                  at, image, frames, quiet, astray>>
  BY DEF ProcessCapturedTask, agent, hardware, ghosts
<1>2. pc[m] = "process" /\ pc' = [pc EXCEPT ![m] = "done"]
  BY DEF ProcessCapturedTask, Goto
<1>3. Fields'
  BY <1>1, <1>2 DEF IInv, Fields
<1>4. Locks'
  BY <1>1, <1>2 DEF IInv, Fields, Locks, Capturing
<1>5. HasDevice'
  BY <1>1, <1>2 DEF IInv, Fields, HasDevice
<1>6. (AbortHalts /\ QuietStops /\ IdleAfterAbort)'
  BY <1>1, <1>2, NothingStarts DEF IInv, Fields
<1>7. QED
  BY <1>3, <1>4, <1>5, <1>6 DEF IInv

LEMMA SettleInv ==
    ASSUME IInv, NEW d \in Devices, Settle(d)
    PROVE  IInv'
<1>1. UNCHANGED <<ordered, inbox, pc, todo, failed, stop, capture, hw, current,
                  frames, quiet>>
  BY DEF Settle, handlers, agent
<1>2. /\ moving' = [moving EXCEPT ![d] = NoOne] /\ astray' = astray \ {d}
      /\ at' \in {at, moving[d]} /\ image' \in {image, [of |-> moving[d], on |-> at]}
  BY DEF Settle
<1>3. moving' \in [Devices -> Deliveries \cup {NoOne}]
  BY <1>2 DEF IInv, Fields
<1>4. /\ image' \in [of : Deliveries \cup {NoOne}, on : Deliveries \cup {NoOne}]
      /\ at' \in Deliveries \cup {NoOne}
  BY <1>2 DEF IInv, Fields
<1>5. Fields'
  BY <1>1, <1>2, <1>3, <1>4 DEF IInv, Fields
<1>6. Locks' /\ HasDevice'
  BY <1>1 DEF IInv, Locks, HasDevice
<1>7. (AbortHalts /\ QuietStops /\ IdleAfterAbort)'
  BY <1>1, <1>2, NothingStarts DEF IInv, Fields
<1>8. QED
  BY <1>5, <1>6, <1>7 DEF IInv
-----------------------------------------------------------------------------
LEMMA NextInv == IInv /\ [Next]_vars => IInv'
<1> SUFFICES ASSUME IInv, [Next]_vars PROVE IInv'
  OBVIOUS
<1>1. CASE HandleCommandMessage \/ \E m \in Deliveries : Arrive(m)
  BY <1>1, CallbackInv
<1>2. ASSUME NEW m \in Deliveries, Handle(m) PROVE IInv'
  BY <1>2, RequestStopInv, LockHardwareInv, AbortDeviceInv, AbortReturnsInv,
     PrepareNewAssignmentInv, LockCaptureInv, CheckAssignmentInv, StartDeviceInv,
     WaitForDeviceInv, WriteCaptureInv, ProcessCapturedTaskInv DEF Handle
<1>3. ASSUME NEW d \in Devices, Settle(d) PROVE IInv'
  BY <1>3, SettleInv
<1>4. CASE UNCHANGED vars
  BY <1>4 DEF vars, handlers, agent, hardware, ghosts, IInv, Fields, Locks, HasDevice,
     AbortHalts, Halted, QuietStops, IdleAfterAbort
<1>5. QED
  BY <1>1, <1>2, <1>3, <1>4 DEF Next

(* The invariant: AbortTask holds hardwareMu over its three calls, and     *)
(* prepareNewAssignment and every start of a device take the mutex too.    *)
THEOREM PierInvariant == Spec => []IInv
<1>1. IInv /\ [Next]_vars => IInv'
  BY NextInv
<1>2. QED
  BY <1>1, InitInv, PTL DEF Spec

(* Types, and each mutex of the agent held by exactly one handler, which   *)
(* is in the section it protects: no return path keeps a lock.             *)
THEOREM PierTypes == Spec => []TypeOK
BY PierInvariant, InvImpliesTypes, PTL

(* After a successful AbortTask nothing moves until the next assignment    *)
(* begins, whatever the order of callbacks and whichever calls fail.       *)
THEOREM PierIdleAfterAbort == Spec => []IdleAfterAbort
<1>1. IInv => IdleAfterAbort
  BY DEF IInv
<1>2. QED
  BY <1>1, PierInvariant, PTL
-----------------------------------------------------------------------------
(* Nothing moves unattended.  The invariant is stronger: a device is       *)
(* watched only by the capture that is waiting for it, and only as long as *)
(* nobody asked to stop; the abort that asked is about to halt it.         *)

Pending(d) == \E k \in Deliveries :
    \/ pc[k] = "halt"
    \/ pc[k] = "abort" /\ \E i \in 1..Len(todo[k]) : todo[k][i] = d

Watched(d) == /\ ~stop /\ current \in Deliveries /\ moving[d] = current
              /\ pc[current] = "wait" /\ d = Head(todo[current])

Attended == \A d \in Devices :
    moving[d] = NoOne \/ d \in astray \/ Pending(d) \/ Watched(d)

(* A capture that uses devices is the task the heartbeat reports.          *)
Underway == \A m \in Deliveries : pc[m] \in {"start", "wait", "read"} => current = m

(* A step of a handler that is not aborting leaves the aborts pending.     *)
LEMMA PendingStays ==
    ASSUME Fields, NEW m \in Deliveries, pc[m] \notin {"halt", "abort"},
           NEW p, pc' = [pc EXCEPT ![m] = p],
           \A k \in Deliveries : k # m => todo'[k] = todo[k],
           NEW d, Pending(d)
    PROVE  Pending(d)'
<1>1. PICK k \in Deliveries :
         pc[k] = "halt" \/ (pc[k] = "abort" /\ \E i \in 1..Len(todo[k]) : todo[k][i] = d)
  BY DEF Pending
<1>2. k # m /\ pc'[k] = pc[k] /\ todo'[k] = todo[k]
  BY <1>1 DEF Fields
<1>3. QED
  BY <1>1, <1>2 DEF Pending

(* A step of a handler that watches no device, and touches none.           *)
LEMMA AttendedStays ==
    ASSUME Fields, Attended, NEW m \in Deliveries,
           pc[m] \notin {"halt", "abort", "wait"},
           NEW p, pc' = [pc EXCEPT ![m] = p],
           \A k \in Deliveries : k # m => todo'[k] = todo[k],
           UNCHANGED <<moving, astray>>, stop' => stop,
           current \in Deliveries /\ pc[current] = "wait" => current' = current
    PROVE  Attended'
<1> SUFFICES ASSUME NEW d \in Devices, moving'[d] # NoOne, d \notin astray', ~ Pending(d)'
             PROVE  Watched(d)'
  BY DEF Attended
<1>1. ~ Pending(d)
  BY PendingStays
<1>2. Watched(d)
  BY <1>1 DEF Attended
<1>3. current # m /\ current \in Deliveries /\ pc'[current] = pc[current] /\ todo'[current] = todo[current]
  BY <1>2 DEF Watched, Fields
<1>4. QED
  BY <1>2, <1>3 DEF Watched

(* A capture that gives up is replaced by the abort that made it stop, or  *)
(* has no device moving.                                                   *)
LEMMA ReturnAttended ==
    ASSUME IInv, Attended, NEW m \in Deliveries, Return(m),
           pc[m] \in {"check", "start", "read"} \/ (pc[m] = "wait" /\ stop),
           UNCHANGED <<stop, failed>>
    PROVE  Attended'
<1>1. /\ pc' = [pc EXCEPT ![m] = "done"] /\ current' = NoOne
      /\ UNCHANGED <<todo, moving, astray>>
  BY DEF Return, Leave, Goto, hardware, ghosts
<1> SUFFICES ASSUME NEW d \in Devices, moving'[d] # NoOne, d \notin astray', ~ Pending(d)'
             PROVE  FALSE
  BY DEF Attended
<1>2. Fields /\ pc[m] \notin {"halt", "abort"}
  BY DEF IInv
<1>3. ~ Pending(d)
  BY <1>1, <1>2, PendingStays
<1>4. Watched(d)
  BY <1>1, <1>3 DEF Attended
<1>5. current = m
  BY <1>4, NoOneAssumption DEF Watched, IInv, Locks, Capturing
<1>6. QED
  BY <1>4, <1>5 DEF Watched

LEMMA AbortAttended ==
    ASSUME IInv, Attended, NEW m \in Deliveries,
           RequestStop(m) \/ LockHardware(m) \/ AbortDevice(m) \/ AbortReturns(m)
    PROVE  Attended'
<1> SUFFICES ASSUME NEW d \in Devices, moving'[d] # NoOne, d \notin astray'
             PROVE  Pending(d)' \/ Watched(d)'
  BY DEF Attended
<1>0. todo[m] \in Seq(Devices) /\ Fields
  BY DEF IInv, Fields
<1>1. CASE RequestStop(m)
  <2>1. pc'[m] = "halt"
    BY <1>0, <1>1 DEF RequestStop, Goto, Fields
  <2>2. QED
    BY <2>1 DEF Pending
<1>2. CASE LockHardware(m)
  <2> DEFINE all == <<"mount", "camera", "wheel">>
  <2>1. pc'[m] = "abort" /\ todo'[m] = all
    BY <1>0, <1>2 DEF LockHardware, Goto, Fields
  <2>2. Len(all) = 3 /\ all[1] = "mount" /\ all[2] = "camera" /\ all[3] = "wheel"
    OBVIOUS
  <2>3. 1 \in 1..3 /\ 2 \in 1..3 /\ 3 \in 1..3
    OBVIOUS
  <2>4. \E i \in 1..Len(all) : all[i] = d
    BY <2>2, <2>3 DEF Devices
  <2>5. QED
    BY <2>1, <2>4 DEF Pending
<1>3. CASE AbortDevice(m)
  <2>1. /\ pc[m] = "abort" /\ todo[m] # << >> /\ todo' = [todo EXCEPT ![m] = Tail(@)]
        /\ Halt(Head(todo[m])) \/ HaltFails(Head(todo[m]))
        /\ UNCHANGED <<pc, stop, current>>
    BY <1>3 DEF AbortDevice, agent
  <2>2. d # Head(todo[m]) /\ moving'[d] = moving[d] /\ d \notin astray
    <3>1. CASE Halt(Head(todo[m]))
      BY <1>0, <2>1, <3>1, TailOfTodo DEF Halt, Fields
    <3>2. CASE HaltFails(Head(todo[m]))
      BY <1>0, <2>1, <3>2 DEF HaltFails, hardware
    <3>3. QED
      BY <2>1, <3>1, <3>2
  <2>3. CASE Pending(d)
    <3>1. PICK k \in Deliveries : \/ pc[k] = "halt"
                                  \/ pc[k] = "abort" /\ \E i \in 1..Len(todo[k]) : todo[k][i] = d
      BY <2>3 DEF Pending
    <3>2. CASE k # m
      BY <1>0, <2>1, <3>1, <3>2 DEF Pending, Fields
    <3>3. CASE k = m
      <4>1. PICK i \in 1..Len(todo[m]) : todo[m][i] = d
        BY <2>1, <3>1, <3>3
      <4>2. i # 1
        BY <1>0, <2>1, <2>2, <4>1, TailOfTodo
      <4>3. i - 1 \in 1..Len(Tail(todo[m])) /\ Tail(todo[m])[i - 1] = d
        BY <1>0, <2>1, <4>1, <4>2, TailOfTodo
      <4>4. todo'[m] = Tail(todo[m]) /\ pc'[m] = "abort"
        BY <1>0, <2>1 DEF Fields
      <4>5. QED
        BY <4>3, <4>4 DEF Pending
    <3>4. QED
      BY <3>2, <3>3
  <2>4. CASE Watched(d)
    BY <1>0, <2>1, <2>2, <2>4 DEF Watched, Fields
  <2>5. QED
    BY <2>2, <2>3, <2>4 DEF Attended
<1>4. CASE AbortReturns(m)
  <2>1. /\ pc[m] = "abort" /\ todo[m] = << >> /\ UNCHANGED <<todo, moving, astray, stop, current>>
    BY <1>4 DEF AbortReturns, hardware
  <2>2. PICK p : pc' = [pc EXCEPT ![m] = p]
    BY <1>4 DEF AbortReturns, Goto
  <2>3. CASE Pending(d)
    <3>1. PICK k \in Deliveries : \/ pc[k] = "halt"
                                  \/ pc[k] = "abort" /\ \E i \in 1..Len(todo[k]) : todo[k][i] = d
      BY <2>3 DEF Pending
    <3>2. Len(todo[m]) = 0
      BY <2>1
    <3>3. k # m
      BY <2>1, <3>1, <3>2
    <3>4. QED
      BY <1>0, <2>1, <2>2, <3>1, <3>3 DEF Pending, Fields
  <2>4. CASE Watched(d)
    BY <1>0, <2>1, <2>2, <2>4 DEF Watched, Fields
  <2>5. QED
    BY <2>1, <2>3, <2>4 DEF Attended
<1>5. QED
  BY <1>1, <1>2, <1>3, <1>4

(* A device that starts is watched, or its call failed.                    *)
LEMMA StartAttended ==
    ASSUME IInv, Underway, Attended, NEW m \in Deliveries, StartDevice(m)
    PROVE  Attended'
<1> DEFINE h == Head(todo[m])
<1>1. pc[m] = "start" /\ UNCHANGED <<failed, stop>> /\ Fields /\ Locks
  BY DEF StartDevice, IInv
<1>2. CASE Return(m)
  BY <1>1, <1>2, ReturnAttended
<1>3. CASE ~ Return(m)
  <2>1. /\ ~stop /\ moving' = [moving EXCEPT ![h] = m] /\ todo' = todo
        /\ \/ Goto(m, "wait") /\ astray' = astray \ {h} /\ current' = current
           \/ Leave(m, "done") /\ astray' = astray \cup {h}
    BY <1>3 DEF StartDevice, Begin
  <2>2. h \in Devices
    BY <1>1, TailOfTodo DEF IInv, Fields, HasDevice
  <2>3. PICK p : pc' = [pc EXCEPT ![m] = p]
    BY <2>1 DEF Goto, Leave
  <2> SUFFICES ASSUME NEW d \in Devices, moving'[d] # NoOne, d \notin astray', ~ Pending(d)'
               PROVE  Watched(d)'
    BY DEF Attended
  <2>4. CASE d # h
    <3>1. moving[d] # NoOne /\ d \notin astray
      BY <1>1, <2>1, <2>4 DEF Fields
    <3>2. ~ Pending(d)
      BY <1>1, <2>1, <2>3, PendingStays
    <3>3. Watched(d)
      BY <3>1, <3>2 DEF Attended
    <3>4. current = m
      BY <3>3, <1>1, NoOneAssumption DEF Watched, Locks, Capturing
    <3>5. QED
      BY <1>1, <3>3, <3>4 DEF Watched
  <2>5. CASE d = h
    <3>1. Goto(m, "wait") /\ current' = current
      BY <2>1, <2>5
    <3>2. moving'[d] = m /\ pc'[m] = "wait"
      BY <1>1, <2>1, <2>2, <2>5, <3>1 DEF Goto, Fields
    <3>3. current = m
      BY <1>1 DEF Underway
    <3>4. QED
      BY <1>1, <2>1, <2>5, <3>1, <3>2, <3>3 DEF Watched
  <2>6. QED
    BY <2>4, <2>5
<1>4. QED
  BY <1>2, <1>3

(* A device stops being watched when it has come to rest, has been halted, *)
(* could not be halted, or an abort was requested.                         *)
LEMMA WaitAttended ==
    ASSUME IInv, Underway, Attended, NEW m \in Deliveries, WaitForDevice(m)
    PROVE  Attended'
<1> DEFINE h == Head(todo[m])
<1>1. pc[m] = "wait" /\ UNCHANGED <<failed, stop>> /\ Fields /\ current = m
  BY DEF WaitForDevice, AwaitDevice, GiveUp, IInv, Underway
<1>2. CASE stop /\ Return(m)
  BY <1>1, <1>2, ReturnAttended
<1>3. CASE GiveUp(m) \/ ~ (stop /\ Return(m))
  <2>1. /\ \A k \in Deliveries : k # m => todo'[k] = todo[k]
        /\ \E p : pc' = [pc EXCEPT ![m] = p]
    BY <1>1, <1>3 DEF WaitForDevice, AwaitDevice, GiveUp, Leave, Goto, Fields
  <2>2. PICK p : pc' = [pc EXCEPT ![m] = p]
    BY <2>1
  <2> SUFFICES ASSUME NEW d \in Devices, moving'[d] # NoOne, d \notin astray'
               PROVE  Pending(d)'
    BY DEF Attended
  <2>3. \/ Halt(h) \/ HaltFails(h)
        \/ moving[h] # m /\ UNCHANGED <<moving, astray>>
    BY <1>3 DEF WaitForDevice, AwaitDevice, GiveUp, hardware, ghosts
  <2>4. h \in Devices
    BY <1>1, TailOfTodo DEF IInv, Fields, HasDevice
  <2>5. moving[d] # NoOne /\ d \notin astray /\ (d = h => moving[d] # m)
    <3>1. CASE Halt(h)
      BY <1>1, <2>4, <3>1 DEF Halt, Fields
    <3>2. CASE HaltFails(h)
      BY <3>2 DEF HaltFails, hardware
    <3>3. CASE moving[h] # m /\ UNCHANGED <<moving, astray>>
      BY <3>3
    <3>4. QED
      BY <2>3, <3>1, <3>2, <3>3
  <2>6. ~ Watched(d)
    BY <1>1, <2>5 DEF Watched
  <2>7. QED
    BY <1>1, <2>1, <2>2, <2>5, <2>6, PendingStays DEF Attended
<1>4. QED
  BY <1>2, <1>3 DEF WaitForDevice, AwaitDevice

LEMMA WriteAttended ==
    ASSUME IInv, Underway, Attended, NEW m \in Deliveries, WriteCapture(m)
    PROVE  Attended'
<1>1. pc[m] = "read" /\ UNCHANGED <<failed, stop>> /\ Fields /\ current = m
  BY DEF WriteCapture, IInv, Underway
<1>2. CASE Return(m)
  BY <1>1, <1>2, ReturnAttended
<1>3. CASE ~ Return(m)
  <2>1. pc' = [pc EXCEPT ![m] = "process"] /\ UNCHANGED <<todo, moving, astray>>
    BY <1>3 DEF WriteCapture, Leave, Goto, hardware, ghosts
  <2>2. QED
    BY <1>1, <2>1, AttendedStays
<1>4. QED
  BY <1>2, <1>3

LEMMA SettleAttended ==
    ASSUME IInv, Attended, NEW e \in Devices, Settle(e)
    PROVE  Attended'
<1>1. /\ UNCHANGED <<pc, todo, stop, current>> /\ astray' = astray \ {e}
      /\ moving' = [moving EXCEPT ![e] = NoOne] /\ Fields
  BY DEF Settle, handlers, agent, IInv
<1> SUFFICES ASSUME NEW d \in Devices, moving'[d] # NoOne, d \notin astray'
             PROVE  Pending(d)' \/ Watched(d)'
  BY DEF Attended
<1>2. d # e /\ moving'[d] = moving[d] /\ d \notin astray
  BY <1>1 DEF Fields
<1>3. QED
  BY <1>1, <1>2 DEF Attended, Pending, Watched

(* The steps that touch no device and end no wait.                         *)
LEMMA OtherAttended ==
    ASSUME IInv, Attended, NEW m \in Deliveries,
           \/ PrepareNewAssignment(m) \/ LockCapture(m)
           \/ CheckAssignment(m) \/ ProcessCapturedTask(m)
    PROVE  Attended'
<1>1. Fields /\ Locks
  BY DEF IInv
<1>2. CASE PrepareNewAssignment(m)
  <2>1. /\ pc[m] = "begin" /\ pc' = [pc EXCEPT ![m] = "lock"] /\ stop' = FALSE
        /\ UNCHANGED <<todo, moving, astray, current>>
    BY <1>2 DEF PrepareNewAssignment, Goto, hardware
  <2>2. QED
    BY <1>1, <2>1, AttendedStays
<1>3. CASE LockCapture(m)
  <2>1. /\ pc[m] = "lock" /\ pc' = [pc EXCEPT ![m] = "check"]
        /\ UNCHANGED <<todo, moving, astray, current, stop>>
    BY <1>3 DEF LockCapture, Goto, hardware, ghosts
  <2>2. QED
    BY <1>1, <2>1, AttendedStays
<1>4. CASE CheckAssignment(m)
  <2>1. pc[m] = "check" /\ UNCHANGED <<stop, failed>>
    BY <1>4 DEF CheckAssignment
  <2>2. CASE Return(m)
    BY <2>1, <2>2, ReturnAttended
  <2>3. CASE ~ Return(m)
    <3>1. /\ pc' = [pc EXCEPT ![m] = "start"] /\ UNCHANGED <<moving, astray>>
          /\ \E c \in Courses : todo' = [todo EXCEPT ![m] = c]
      BY <1>4, <2>3 DEF CheckAssignment, Goto, hardware, ghosts
    <3>2. \A k \in Deliveries : k # m => todo'[k] = todo[k]
      BY <1>1, <3>1 DEF Fields
    <3>3. ~ (current \in Deliveries /\ pc[current] = "wait")
      BY <1>1, <2>1, NoOneAssumption DEF Locks, Capturing
    <3>4. QED
      BY <1>1, <2>1, <3>1, <3>2, <3>3, AttendedStays
  <2>4. QED
    BY <2>2, <2>3
<1>5. CASE ProcessCapturedTask(m)
  <2>1. /\ pc[m] = "process" /\ pc' = [pc EXCEPT ![m] = "done"]
        /\ UNCHANGED <<todo, moving, astray, current, stop>>
    BY <1>5 DEF ProcessCapturedTask, Goto, agent, hardware, ghosts
  <2>2. QED
    BY <1>1, <2>1, AttendedStays
<1>6. QED
  BY <1>2, <1>3, <1>4, <1>5

LEMMA CallbackAttended ==
    ASSUME IInv, Attended, HandleCommandMessage \/ \E m \in Deliveries : Arrive(m)
    PROVE  Attended'
<1>1. Fields /\ UNCHANGED <<todo, stop, current, moving, astray>>
  BY DEF IInv, HandleCommandMessage, Arrive, agent, hardware, ghosts
<1>2. PICK m \in Deliveries : /\ pc[m] \in {"away", "inbox", "done"}
                              /\ \E p : pc' = [pc EXCEPT ![m] = p]
  <2>1. CASE HandleCommandMessage
    <3>1. inbox \in Seq(Deliveries) /\ inbox # << >>
      BY <1>1, <2>1 DEF HandleCommandMessage, Fields
    <3>2. Head(inbox) \in Deliveries
      BY <3>1, HeadTailProperties
    <3>3. QED
      BY <2>1, <3>2 DEF HandleCommandMessage, Goto
  <2>2. CASE \E m \in Deliveries : Arrive(m)
    BY <2>2 DEF Arrive, Goto
  <2>3. QED
    BY <2>1, <2>2
<1>3. QED
  BY <1>1, <1>2, AttendedStays

(* A capture under way is the task the heartbeat reports.                  *)
LEMMA UnderwayStays ==
    ASSUME IInv, Underway, [Next]_vars
    PROVE  Underway'
<1>1. Fields /\ Locks /\ Locks' /\ Fields'
  BY NextInv DEF IInv
<1>2. CASE HandleCommandMessage \/ \E m \in Deliveries : Arrive(m)
  <2>1. UNCHANGED <<current, capture>>
    BY <1>2 DEF HandleCommandMessage, Arrive, agent
  <2>2. \A m \in Deliveries : pc'[m] \in {"start", "wait", "read"} => pc'[m] = pc[m]
    <3>1. CASE HandleCommandMessage
      BY <1>1, <3>1 DEF HandleCommandMessage, Goto, Fields, Entry
    <3>2. CASE \E m \in Deliveries : Arrive(m)
      BY <1>1, <3>2 DEF Arrive, Goto, Fields, Entry
    <3>3. QED
      BY <1>2, <3>1, <3>2
  <2>3. QED
    BY <2>1, <2>2 DEF Underway
<1>3. ASSUME NEW m \in Deliveries,
             RequestStop(m) \/ LockHardware(m) \/ AbortDevice(m) \/ AbortReturns(m)
             \/ PrepareNewAssignment(m) \/ ProcessCapturedTask(m) \/ LockCapture(m)
      PROVE  Underway'
  <2>1. current' = current
    BY <1>3 DEF RequestStop, LockHardware, AbortDevice, AbortReturns, PrepareNewAssignment,
                ProcessCapturedTask, LockCapture, agent
  <2>2. \A k \in Deliveries : pc'[k] \in {"start", "wait", "read"} => pc'[k] = pc[k]
    BY <1>1, <1>3 DEF RequestStop, LockHardware, AbortDevice, AbortReturns, PrepareNewAssignment,
                ProcessCapturedTask, LockCapture, Goto, Fields
  <2>3. QED
    BY <2>1, <2>2 DEF Underway
<1>4. ASSUME NEW m \in Deliveries, pc[m] \in Capturing, pc[m] # "check" => current = m,
             \/ current' = NoOne /\ capture' = NoOne
             \/ current' = m
             \/ current' = current /\ pc[m] # "check",
             \A k \in Deliveries : k # m => pc'[k] = pc[k]
      PROVE  Underway'
  BY <1>1, <1>4, NoOneAssumption DEF Underway, Locks, Capturing
<1>5. ASSUME NEW m \in Deliveries,
             CheckAssignment(m) \/ StartDevice(m) \/ WaitForDevice(m) \/ WriteCapture(m)
      PROVE  Underway'
  <2>1. pc[m] \in Capturing /\ (pc[m] # "check" => current = m)
    BY <1>5 DEF CheckAssignment, StartDevice, WaitForDevice, AwaitDevice, GiveUp,
                WriteCapture, Capturing, Underway
  <2>2. \A k \in Deliveries : k # m => pc'[k] = pc[k]
    BY <1>1, <1>5 DEF CheckAssignment, StartDevice, WaitForDevice, AwaitDevice, GiveUp,
                WriteCapture, Return, Leave, Goto, Fields
  <2>3. \/ current' = NoOne /\ capture' = NoOne
        \/ current' = m
        \/ current' = current /\ pc[m] # "check"
    BY <1>5 DEF CheckAssignment, StartDevice, WaitForDevice, AwaitDevice, GiveUp,
                WriteCapture, Return, Leave
  <2>4. QED
    BY <1>4, <2>1, <2>2, <2>3
<1>6. CASE (\E d \in Devices : Settle(d)) \/ UNCHANGED vars
  BY <1>6 DEF Settle, handlers, agent, vars, Underway
<1>7. QED
  BY <1>2, <1>3, <1>5, <1>6 DEF Next, Handle

LEMMA AttendedInv ==
    ASSUME IInv, Underway, Attended, [Next]_vars
    PROVE  Attended'
<1>1. CASE HandleCommandMessage \/ \E m \in Deliveries : Arrive(m)
  BY <1>1, CallbackAttended
<1>2. ASSUME NEW m \in Deliveries, Handle(m) PROVE Attended'
  BY <1>2, AbortAttended, OtherAttended, StartAttended, WaitAttended, WriteAttended DEF Handle
<1>3. ASSUME NEW d \in Devices, Settle(d) PROVE Attended'
  BY <1>3, SettleAttended
<1>4. CASE UNCHANGED vars
  BY <1>4 DEF vars, handlers, agent, hardware, ghosts, Attended, Pending, Watched
<1>5. QED
  BY <1>1, <1>2, <1>3, <1>4 DEF Next

(* No device is left moving by a capture that was aborted, timed out or    *)
(* gave up: it is at rest, watched, about to be halted, or a call to it    *)
(* has failed.                                                             *)
THEOREM PierNothingMovesUnattended == Spec => []NothingMovesUnattended
<1>1. Init => Underway /\ Attended
  BY DEF Init, Underway, Attended
<1>2. IInv /\ Underway /\ Attended /\ [Next]_vars => (Underway /\ Attended)'
  BY UnderwayStays, AttendedInv
<1>3. Attended => NothingMovesUnattended
  BY DEF Attended, Pending, Watched, NothingMovesUnattended
<1>4. QED
  BY <1>1, <1>2, <1>3, PierInvariant, PTL DEF Spec
-----------------------------------------------------------------------------
(* A frame is of the task it is filed under, as long as callbacks run in   *)
(* order: then one handler acts at a time, and each device that a capture  *)
(* is done with is where the capture put it.                               *)

AtRest(m) == pc[m] \in {"away", "inbox", "done"}
Alone == \A m, n \in Deliveries : ~AtRest(m) /\ ~AtRest(n) => m = n

(* What a capture may have left to do.                                     *)
Remaining == Courses \cup {<<"wheel", "wheel", "camera">>, <<"wheel", "camera">>,
                           <<"camera">>}

(* A capture in progress: the mount, once dealt with, stays on the target; *)
(* the device that is waited for is the capture's, or has done its work;   *)
(* and an image of the capture is one of its target.                       *)
OnCourse(m) ==
    /\ pc[m] \in {"start", "wait"} =>
          /\ todo[m] \in Remaining
          /\ Head(todo[m]) # "mount" => at = m /\ moving["mount"] = NoOne
    /\ pc[m] = "wait" /\ Head(todo[m]) = "mount" =>
          moving["mount"] = m \/ (moving["mount"] = NoOne /\ at = m)
    /\ pc[m] = "wait" /\ Head(todo[m]) = "camera" =>
          moving["camera"] \in {m, NoOne} /\ (image.of = m => image.on = m)
    /\ pc[m] = "read" =>
          image.of = m /\ image.on = m /\ moving["camera"] = NoOne

InOrder == ordered => Alone /\ \A m \in Deliveries : OnCourse(m)

LEMMA RemainingTails ==
    ASSUME NEW s \in Remaining
    PROVE  /\ s # << >> /\ Head(s) \in Devices
           /\ Len(s) = 1 <=> Head(s) = "camera"
           /\ Len(s) # 1 => Tail(s) \in Remaining /\ Head(Tail(s)) # "mount"
<1>1. CASE s = <<"camera">>
  BY <1>1 DEF Devices
<1>2. CASE s = <<"wheel", "camera">>
  <2>1. Tail(s) = <<"camera">>
    BY <1>2
  <2>2. QED
    BY <1>2, <2>1 DEF Remaining, Devices
<1>3. CASE s = <<"wheel", "wheel", "camera">>
  <2>1. Tail(s) = <<"wheel", "camera">>
    BY <1>3
  <2>2. QED
    BY <1>3, <2>1 DEF Remaining, Devices
<1>4. CASE s = <<"mount", "camera">>
  <2>1. Tail(s) = <<"camera">>
    BY <1>4
  <2>2. QED
    BY <1>4, <2>1 DEF Remaining, Devices
<1>5. CASE s = <<"mount", "wheel", "camera">>
  <2>1. Tail(s) = <<"wheel", "camera">>
    BY <1>5
  <2>2. QED
    BY <1>5, <2>1 DEF Remaining, Devices
<1>6. CASE s = <<"mount", "wheel", "wheel", "camera">>
  <2>1. Tail(s) = <<"wheel", "wheel", "camera">>
    BY <1>6
  <2>2. QED
    BY <1>6, <2>1 DEF Remaining, Devices
<1>7. QED
  BY <1>1, <1>2, <1>3, <1>4, <1>5, <1>6 DEF Remaining, Courses

(* The capture itself goes on.                                             *)
LEMMA CourseStep ==
    ASSUME IInv, NEW m \in Deliveries, OnCourse(m), Handle(m)
    PROVE  OnCourse(m)'
<1>t. /\ pc \in [Deliveries -> Capturing \cup {"away", "inbox", "stop", "halt",
                   "abort", "begin", "lock", "process", "done"}]
      /\ todo \in [Deliveries -> Seq(Devices)] /\ m # NoOne
      /\ moving \in [Devices -> Deliveries \cup {NoOne}]
  BY NoOneAssumption DEF IInv, Fields
<1>0. ASSUME pc'[m] \notin {"start", "wait", "read"} PROVE OnCourse(m)'
  BY <1>0 DEF OnCourse
<1>l. ASSUME NEW place \in {"done", "process"}, Leave(m, place) PROVE OnCourse(m)'
  BY <1>t, <1>l, <1>0 DEF Leave, Goto
<1>1. CASE RequestStop(m) \/ LockHardware(m) \/ AbortReturns(m)
           \/ PrepareNewAssignment(m) \/ LockCapture(m) \/ ProcessCapturedTask(m)
  BY <1>1, <1>t, <1>0 DEF RequestStop, LockHardware, AbortReturns, Goto,
     PrepareNewAssignment, LockCapture, ProcessCapturedTask
<1>2. CASE AbortDevice(m)
  BY <1>2, <1>t, <1>0 DEF AbortDevice
<1>3. CASE CheckAssignment(m)
  <2>1. CASE Return(m)
    BY <1>l, <2>1 DEF Return
  <2>2. CASE ~Return(m)
    <3>1. PICK c \in Courses : todo' = [todo EXCEPT ![m] = c] /\ Goto(m, "start")
      BY <1>3, <2>2 DEF CheckAssignment
    <3>2. c \in Remaining /\ Head(c) = "mount"
      BY DEF Remaining, Courses
    <3>3. todo'[m] = c /\ pc'[m] = "start"
      BY <1>t, <3>1 DEF Goto
    <3>4. QED
      BY <3>2, <3>3 DEF OnCourse
  <2>3. QED
    BY <2>1, <2>2
<1>4. CASE StartDevice(m)
  <2> DEFINE d == Head(todo[m])
  <2>1. CASE Leave(m, "done")
    BY <1>l, <2>1
  <2>2. CASE Begin(m, d) /\ Goto(m, "wait")
    <3>1. pc[m] = "start" /\ todo[m] \in Remaining /\ d \in Devices
      BY <1>4, RemainingTails DEF StartDevice, OnCourse
    <3>2. pc'[m] = "wait" /\ todo' = todo
      BY <1>t, <2>2 DEF Begin, Goto
    <3> HIDE DEF d
    <3>3. moving'[d] = m /\ \A e \in Devices : e # d => moving'[e] = moving[e]
      BY <1>t, <2>2, <3>1 DEF Begin
    <3>4. d # "mount" => at' = m /\ moving'["mount"] = NoOne
      BY <2>2, <3>1, <3>3 DEF Begin, OnCourse, Devices, d
    <3>5. d = "camera" => image'.of = NoOne
      BY <2>2 DEF Begin, NoImage
    <3>6. QED
      BY <1>t, <3>1, <3>2, <3>3, <3>4, <3>5 DEF OnCourse, d
  <2>3. QED
    BY <1>4, <2>1, <2>2 DEF StartDevice, Return
<1>5. CASE GiveUp(m)
  BY <1>5, <1>l DEF GiveUp
<1>6. CASE AwaitDevice(m)
  <2> DEFINE d == Head(todo[m])
  <2>1. CASE Return(m)
    BY <1>l, <2>1 DEF Return
  <2>2. CASE ~Return(m)
    <3>1. /\ pc[m] = "wait" /\ moving[d] # m /\ (d = "camera" => image.of = m)
          /\ todo' = [todo EXCEPT ![m] = Tail(@)]
          /\ Goto(m, IF Len(todo[m]) = 1 THEN "read" ELSE "start")
          /\ UNCHANGED hardware
      BY <1>6, <2>2 DEF AwaitDevice
    <3>2. todo[m] \in Remaining /\ todo'[m] = Tail(todo[m])
      BY <1>t, <3>1 DEF OnCourse
    <3>3. pc'[m] = IF Len(todo[m]) = 1 THEN "read" ELSE "start"
      BY <1>t, <3>1 DEF Goto
    <3>4. UNCHANGED <<moving, at, image>>
      BY <3>1 DEF hardware
    <3>5. CASE Len(todo[m]) = 1
      <4>1. d = "camera"
        BY <3>2, <3>5, RemainingTails
      <4>2. moving["camera"] = NoOne /\ image.of = m /\ image.on = m
        BY <3>1, <4>1 DEF OnCourse
      <4>3. QED
        BY <3>3, <3>4, <3>5, <4>2 DEF OnCourse
    <3>6. CASE Len(todo[m]) # 1
      <4>1. Tail(todo[m]) \in Remaining
        BY <3>2, <3>6, RemainingTails
      <4>2. at = m /\ moving["mount"] = NoOne
        BY <3>1 DEF OnCourse
      <4>3. QED
        BY <3>2, <3>3, <3>4, <3>6, <4>1, <4>2 DEF OnCourse
    <3>7. QED
      BY <3>5, <3>6
  <2>3. QED
    BY <2>1, <2>2
<1>7. CASE WriteCapture(m)
  BY <1>7, <1>l DEF WriteCapture, Return
<1>8. QED
  BY <1>1, <1>2, <1>3, <1>4, <1>5, <1>6, <1>7 DEF Handle, WaitForDevice

(* A device settles, whoever moved it.                                     *)
LEMMA SettleCourse ==
    ASSUME IInv, NEW m \in Deliveries, OnCourse(m), NEW d \in Devices, Settle(d)
    PROVE  OnCourse(m)'
<1>t. moving \in [Devices -> Deliveries \cup {NoOne}] /\ m # NoOne
  BY NoOneAssumption DEF IInv, Fields
<1>1. UNCHANGED <<pc, todo>>
  BY DEF Settle, handlers
<1>2. moving'[d] = NoOne /\ \A e \in Devices : e # d => moving'[e] = moving[e]
  BY <1>t DEF Settle
<1>3. (d = "mount" => at' = moving[d]) /\ (d # "mount" => at' = at)
  BY DEF Settle
<1>4. (d = "camera" => image'.of = moving[d] /\ image'.on = at) /\ (d # "camera" => image' = image)
  BY DEF Settle
<1>5. moving[d] # NoOne
  BY DEF Settle
<1>6. pc[m] \in {"start", "wait"} => Head(todo[m]) \in Devices
  BY RemainingTails DEF OnCourse
<1>7. QED
  BY <1>1, <1>2, <1>3, <1>4, <1>5, <1>6 DEF OnCourse, Devices

LEMMA OrderStep ==
    ASSUME IInv, InOrder, FrameIsOnTarget, [Next]_vars
    PROVE  InOrder' /\ FrameIsOnTarget'
<1>t. /\ pc \in [Deliveries -> Capturing \cup {"away", "inbox", "stop", "halt",
                   "abort", "begin", "lock", "process", "done"}]
      /\ inbox \in Seq(Deliveries)
  BY DEF IInv, Fields
<1>o. UNCHANGED ordered
  BY DEF Next, vars, HandleCommandMessage, Arrive, Handle, RequestStop, LockHardware,
     AbortDevice, AbortReturns, PrepareNewAssignment, LockCapture, CheckAssignment,
     StartDevice, WaitForDevice, AwaitDevice, GiveUp, WriteCapture,
     ProcessCapturedTask, Settle
<1> SUFFICES ASSUME ordered
             PROVE  /\ Alone' /\ \A m \in Deliveries : OnCourse(m)'
                    /\ \A f \in frames' : f.of = f.task /\ f.on = f.task
  BY <1>o DEF InOrder, FrameIsOnTarget
<1>i. /\ Alone /\ \A m \in Deliveries : OnCourse(m)
      /\ \A f \in frames : f.of = f.task /\ f.on = f.task
  BY DEF InOrder, FrameIsOnTarget
<1>1. CASE UNCHANGED vars
  BY <1>1, <1>i DEF vars, handlers, hardware, Alone, AtRest, OnCourse
<1>2. CASE HandleCommandMessage \/ \E m \in Deliveries : Arrive(m)
  <2>1. UNCHANGED <<todo, moving, at, image, frames>>
    BY <1>2 DEF HandleCommandMessage, Arrive, hardware
  <2>2. \E m \in Deliveries :
           /\ AtRest(m)
           /\ \E p \in {"inbox", "begin", "stop", "done"} : pc' = [pc EXCEPT ![m] = p]
           /\ pc'[m] = "inbox" \/ \A n \in Deliveries : AtRest(n)
    <3>1. CASE HandleCommandMessage
      <4>1. Head(inbox) \in Deliveries
        BY <1>t, <3>1, HeadTailProperties DEF HandleCommandMessage
      <4>2. Entry(Head(inbox)) \in {"begin", "stop"}
        BY DEF Entry
      <4>3. Goto(Head(inbox), Entry(Head(inbox))) \/ Goto(Head(inbox), "done")
        BY <3>1 DEF HandleCommandMessage
      <4>4. \A n \in Deliveries : AtRest(n)
        BY <3>1 DEF HandleCommandMessage, AtRest
      <4>5. QED
        BY <4>1, <4>2, <4>3, <4>4 DEF Goto
    <3>2. ASSUME NEW m \in Deliveries, Arrive(m)
          PROVE  AtRest(m) /\ pc' = [pc EXCEPT ![m] = "inbox"]
      BY <3>2 DEF Arrive, Goto, AtRest
    <3>3. QED
      BY <1>2, <1>t, <3>1, <3>2
  <2>3. PICK m \in Deliveries, p \in {"inbox", "begin", "stop", "done"} :
           /\ AtRest(m) /\ pc' = [pc EXCEPT ![m] = p]
           /\ pc'[m] = "inbox" \/ \A n \in Deliveries : AtRest(n)
    BY <2>2
  <2>4. Alone'
    BY <1>i, <1>t, <2>3 DEF Alone, AtRest
  <2>5. ASSUME NEW n \in Deliveries PROVE OnCourse(n)'
    BY <1>i, <1>t, <2>1, <2>3 DEF OnCourse
  <2>6. QED
    BY <1>i, <2>1, <2>4, <2>5
<1>3. ASSUME NEW m \in Deliveries, Handle(m)
      PROVE  /\ Alone' /\ \A n \in Deliveries : OnCourse(n)'
             /\ \A f \in frames' : f.of = f.task /\ f.on = f.task
  <2>1. ~AtRest(m) /\ \A n \in Deliveries : n # m => AtRest(n) /\ pc'[n] = pc[n]
    <3>1. ~AtRest(m)
      BY <1>3 DEF Handle, RequestStop, LockHardware, AbortDevice, AbortReturns,
         PrepareNewAssignment, LockCapture, CheckAssignment, StartDevice,
         WaitForDevice, AwaitDevice, GiveUp, WriteCapture, ProcessCapturedTask, AtRest
    <3>2. ASSUME NEW n \in Deliveries, n # m PROVE pc'[n] = pc[n]
      BY <1>3, <1>t, <3>2 DEF Handle, RequestStop, LockHardware, AbortDevice,
         AbortReturns, PrepareNewAssignment, LockCapture, CheckAssignment, StartDevice,
         WaitForDevice, AwaitDevice, GiveUp, WriteCapture, ProcessCapturedTask, Goto,
         Leave, Return
    <3>3. QED
      BY <1>i, <3>1, <3>2 DEF Alone
  <2>2. Alone'
    BY <2>1 DEF Alone, AtRest
  <2>3. \A n \in Deliveries : OnCourse(n)'
    BY <1>3, <1>i, <2>1, CourseStep DEF OnCourse, AtRest
  <2>4. \A f \in frames' : f.of = f.task /\ f.on = f.task
    <3>1. CASE UNCHANGED frames
      BY <1>i, <3>1
    <3>2. CASE WriteCapture(m)
      <4>1. image.of = m /\ image.on = m
        BY <1>i, <3>2 DEF WriteCapture, OnCourse
      <4>2. QED
        BY <1>i, <3>2, <4>1 DEF WriteCapture, Return
    <3>3. QED
      BY <1>3, <3>1, <3>2 DEF Handle, RequestStop, LockHardware, AbortDevice,
         AbortReturns, PrepareNewAssignment, LockCapture, CheckAssignment, StartDevice,
         WaitForDevice, AwaitDevice, GiveUp, ProcessCapturedTask, Begin, Return
  <2>5. QED
    BY <2>2, <2>3, <2>4
<1>4. ASSUME NEW d \in Devices, Settle(d)
      PROVE  /\ Alone' /\ \A n \in Deliveries : OnCourse(n)'
             /\ \A f \in frames' : f.of = f.task /\ f.on = f.task
  <2>1. UNCHANGED <<pc, frames>>
    BY <1>4 DEF Settle, handlers
  <2>2. QED
    BY <1>4, <1>i, <2>1, SettleCourse DEF Alone, AtRest
<1>5. QED
  BY <1>1, <1>2, <1>3, <1>4 DEF Next

(* As long as callbacks run in order, a frame is of the exposure and of    *)
(* the target of the task it is filed under, for any commands, any order   *)
(* of preemptions and aborts, and whatever call failed before and left a   *)
(* device moving.                                                          *)
THEOREM PierFrameIsOnTarget == Spec => []FrameIsOnTarget
<1>1. Init => InOrder /\ FrameIsOnTarget
  BY DEF Init, InOrder, Alone, AtRest, OnCourse, FrameIsOnTarget
<1>2. IInv /\ InOrder /\ FrameIsOnTarget /\ [Next]_vars => (InOrder /\ FrameIsOnTarget)'
  BY OrderStep
<1>3. QED
  BY <1>1, <1>2, PierInvariant, PTL DEF Spec
=============================================================================
