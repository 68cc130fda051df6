------------------------ MODULE UploadSessionProofs ------------------------
(***************************************************************************)
(* What UploadSession keeps for any captures, parts, TTLs and faults: what *)
(* is queued is stored, an accepted grade is of the telescope's own frame, *)
(* and with a generous TTL the sweeper spares the living.                  *)
(*                                                                         *)
(* All three rest on where an upload may be (Placed): a request for the    *)
(* completion is only made of a put-together set of parts, and a session   *)
(* is never opened twice.  A key keeps a whole frame of its second         *)
(* (Stored), so the frame a worker reads has had a session, and that of    *)
(* another telescope is still registered or swept (Graded).  What the      *)
(* sweeper holds is past its term, and a generous term ends after all else *)
(* (Swept).  Of the failures it is enough that none is forgotten.          *)
(***************************************************************************)
EXTENDS UploadSession, TLAPS

PierPlaces == {"away", "waiting", "upload", "put", "failed", "done"}
RequestPlaces == {"none", "start", "rows", "initiate", "create", "presign", "complete",
                  "store", "mark", "enqueue"}

UTypes ==
    /\ second \in [Captures -> Seconds]
    /\ session \in [Captures -> {"none", "open", "completed", "gone"}]
    /\ late \subseteq Captures /\ jobs \subseteq Captures
    /\ multipart \in [Captures -> {"none", "open", "complete", "aborted"}]
    /\ put \in [Captures -> 0 .. Parts]
    /\ object \in [Seconds -> Captures \cup {NoOne}]
    /\ pier \in [Captures -> PierPlaces]
    /\ request \in [Captures -> RequestPlaces]
    /\ sweep \in [left : SUBSET Captures, next : Captures \cup {NoOne}]

(* Where an upload is, and what there is of it by then.                    *)
Placed(c) ==
    /\ pier[c] = "away" => request[c] = "none" /\ multipart[c] = "none" /\ session[c] = "none"
    /\ pier[c] \in {"upload", "put"} => request[c] = "none" /\ session[c] # "none"
    /\ pier[c] = "put" => put[c] < Parts
    /\ request[c] \in {"start", "rows", "initiate"} => multipart[c] = "none" /\ session[c] = "none"
    /\ request[c] = "create" => session[c] = "none"
    /\ request[c] \in {"presign", "complete", "store", "mark", "enqueue"} => session[c] # "none"
    /\ request[c] = "presign" => put[c] < Parts
    /\ request[c] \in {"complete", "store", "mark", "enqueue"} => put[c] = Parts
    /\ request[c] \in {"mark", "enqueue"} => multipart[c] = "complete"
    /\ multipart[c] = "complete" => put[c] = Parts /\ session[c] # "none"

(* What is put together is under its key, if not overwritten by another    *)
(* frame of its second.                                                    *)
Stored ==
    /\ \A c \in Captures : multipart[c] = "complete" => object[second[c]] # NoOne
    /\ \A s \in Seconds : object[s] # NoOne =>
          second[object[s]] = s /\ multipart[object[s]] = "complete"
    /\ \A c \in jobs : multipart[c] = "complete"

Quiet(c) == pier[c] \in {"failed", "done"} /\ request[c] = "none"

Swept ==
    /\ \A c \in Captures : session[c] = "gone" => c \in late
    /\ sweep.left \subseteq late
    /\ sweep.next # NoOne => sweep.next \in late
    /\ \A c \in late : session[c] # "none"
    /\ generous => \A c \in late : Quiet(c)

Held(g) ==
    /\ g.job \in Captures /\ multipart[g.job] = "complete"
    /\ g.frame # NoOne => /\ g.frame \in Captures /\ multipart[g.frame] = "complete"
                          /\ second[g.frame] = second[g.job]

Graded == /\ grading \in [job : Captures \cup {NoOne}, frame : Captures \cup {NoOne}]
          /\ grading = NoGrading \/ Held(grading)

UInv == UTypes /\ (\A c \in Captures : Placed(c)) /\ Stored /\ Swept /\ Graded

LEMMA InitInv == Init => UInv
<1> SUFFICES ASSUME Init PROVE UInv
  OBVIOUS
<1>1. UTypes
  BY TimingsAssumption, PartsAssumption DEF Init, UTypes, PierPlaces, RequestPlaces, Idle
<1>2. \A c \in Captures : Placed(c)
  BY DEF Init, Placed
<1>3. Stored
  BY DEF Init, Stored
<1>4. Swept
  BY DEF Init, Swept, Idle
<1>5. Graded
  BY DEF Init, Graded, NoGrading
<1> QED
  BY <1>1, <1>2, <1>3, <1>4, <1>5 DEF UInv

(* A step of one upload, of its pier, its handler or its multipart upload. *)
Step(c) ==
    /\ \A d \in Captures \ {c} :
          /\ pier'[d] = pier[d] /\ request'[d] = request[d] /\ session'[d] = session[d]
          /\ multipart'[d] = multipart[d] /\ put'[d] = put[d]
    /\ UNCHANGED <<second, generous, late>>
    /\ multipart[c] = "complete" => multipart'[c] = "complete"
    /\ session'[c] = "gone" <=> session[c] = "gone"
    /\ session[c] # "none" => session'[c] # "none"
    /\ Quiet(c) => Quiet(c)'

LEMMA StepSwept ==
    ASSUME UInv, NEW c \in Captures, Step(c), UNCHANGED sweep
    PROVE  Swept'
<1>1. \A d \in Captures : session'[d] = "gone" => session[d] = "gone"
  BY DEF Step
<1>2. \A d \in Captures : Quiet(d) => Quiet(d)'
  BY DEF Step, Quiet
<1>3. late \subseteq Captures
  BY DEF UInv, UTypes
<1> QED
  BY <1>1, <1>2, <1>3 DEF UInv, Swept, Step

LEMMA StepGraded ==
    ASSUME UInv, NEW c \in Captures, Step(c), UNCHANGED grading
    PROVE  Graded'
<1>1. \A d \in Captures : multipart[d] = "complete" => multipart'[d] = "complete"
  BY DEF Step
<1> QED
  BY <1>1 DEF UInv, Graded, Held, Step, NoGrading

LEMMA StepPlaced ==
    ASSUME UInv, NEW c \in Captures, Step(c), Placed(c)'
    PROVE  \A d \in Captures : Placed(d)'
BY DEF UInv, Step, Placed

LEMMA StepStored ==
    ASSUME UInv, NEW c \in Captures, Step(c), UNCHANGED <<jobs, object>>,
           multipart'[c] = "complete" => multipart[c] = "complete"
    PROVE  Stored'
<1>1. \A d \in Captures : multipart'[d] = "complete" <=> multipart[d] = "complete"
  BY DEF Step
<1>2. \A s \in Seconds : object[s] # NoOne => object[s] \in Captures
  BY DEF UInv, UTypes
<1>3. jobs \subseteq Captures
  BY DEF UInv, UTypes
<1> QED
  BY <1>1, <1>2, <1>3 DEF UInv, Stored, Step

LEMMA OneMoves ==
    ASSUME UInv, NEW c \in Captures, Step(c), UTypes', Placed(c)',
           UNCHANGED <<jobs, object, sweep, grading>>,
           multipart'[c] = "complete" => multipart[c] = "complete"
    PROVE  UInv'
BY StepSwept, StepGraded, StepPlaced, StepStored DEF UInv

(* The steps that leave the key and the queue alone.                       *)
Plain(c) ==
    \/ UploadStep(c) \/ PutPart(c) \/ LosePatience(c) \/ LoadUploadTask(c)
    \/ LookupTaskAssignmentAuth(c) \/ InitiateMultipartUpload(c) \/ CreateUploadSession(c)
    \/ GetUploadSession(c) \/ MarkUploadSessionComplete(c)

LEMMA PlainInv ==
    ASSUME UInv, NEW c \in Captures, Plain(c)
    PROVE  UInv'
<1>1. UTypes /\ Placed(c) /\ c \in Captures
  BY DEF UInv
<1>2. /\ UNCHANGED <<jobs, object, sweep, grading, second, generous, late>>
  BY DEF Plain, UploadStep, PutPart, LosePatience, LoadUploadTask, LookupTaskAssignmentAuth,
         InitiateMultipartUpload, CreateUploadSession, GetUploadSession,
         MarkUploadSessionComplete, device, sessions, store, worker, history
<1>3. ASSUME UTypes', Step(c), Placed(c)', multipart'[c] = "complete" => multipart[c] = "complete"
      PROVE  UInv'
  BY <1>2, <1>3, OneMoves
<1>4. CASE UploadStep(c)
  <2>1. UTypes'
    BY <1>1, <1>2, <1>4 DEF UploadStep, Upload, Serve, device, sessions, store, UTypes, PierPlaces, RequestPlaces
  <2>2. Step(c) /\ (multipart'[c] = "complete" => multipart[c] = "complete")
    BY <1>1, <1>4 DEF UploadStep, Upload, Serve, device, sessions, store, UTypes, Step, Quiet, Placed
  <2>3. Placed(c)'
    BY <1>1, <1>4, PartsAssumption DEF UploadStep, Upload, Serve, device, sessions, store, UTypes, Placed
  <2> QED
    BY <1>3, <2>1, <2>2, <2>3
<1>5. CASE PutPart(c)
  <2>1. UTypes'
    <3>1. put[c] < Parts => put[c] + 1 \in 0 .. Parts
      BY <1>1, PartsAssumption DEF UTypes
    <3> QED
      BY <1>1, <1>2, <1>5, <3>1 DEF PutPart, Fail, device, sessions, store, UTypes, Placed, PierPlaces, RequestPlaces
  <2>2. Step(c) /\ (multipart'[c] = "complete" => multipart[c] = "complete")
    BY <1>1, <1>5 DEF PutPart, Fail, device, sessions, store, UTypes, Step, Quiet, Placed
  <2>3. Placed(c)'
    BY <1>1, <1>5, PartsAssumption DEF PutPart, Fail, device, sessions, store, UTypes, Placed
  <2> QED
    BY <1>3, <2>1, <2>2, <2>3
<1>6. CASE LosePatience(c)
  <2>1. UTypes'
    BY <1>1, <1>2, <1>6 DEF LosePatience, Fail, device, sessions, store, UTypes, PierPlaces, RequestPlaces
  <2>2. Step(c) /\ (multipart'[c] = "complete" => multipart[c] = "complete")
    BY <1>1, <1>6 DEF LosePatience, Fail, device, sessions, store, UTypes, Step, Quiet, Placed
  <2>3. Placed(c)'
    BY <1>1, <1>6, PartsAssumption DEF LosePatience, Fail, device, sessions, store, UTypes, Placed
  <2> QED
    BY <1>3, <2>1, <2>2, <2>3
<1>7. CASE LoadUploadTask(c)
  <2>1. UTypes'
    BY <1>1, <1>2, <1>7 DEF LoadUploadTask, Serve, Refuse, device, sessions, store, UTypes, PierPlaces, RequestPlaces
  <2>2. Step(c) /\ (multipart'[c] = "complete" => multipart[c] = "complete")
    BY <1>1, <1>7 DEF LoadUploadTask, Serve, Refuse, device, sessions, store, UTypes, Step, Quiet, Placed
  <2>3. Placed(c)'
    BY <1>1, <1>7, PartsAssumption DEF LoadUploadTask, Serve, Refuse, device, sessions, store, UTypes, Placed
  <2> QED
    BY <1>3, <2>1, <2>2, <2>3
<1>8. CASE LookupTaskAssignmentAuth(c)
  <2>1. UTypes'
    BY <1>1, <1>2, <1>8 DEF LookupTaskAssignmentAuth, Serve, Refuse, device, sessions, store, UTypes, PierPlaces, RequestPlaces
  <2>2. Step(c) /\ (multipart'[c] = "complete" => multipart[c] = "complete")
    BY <1>1, <1>8 DEF LookupTaskAssignmentAuth, Serve, Refuse, device, sessions, store, UTypes, Step, Quiet, Placed
  <2>3. Placed(c)'
    BY <1>1, <1>8, PartsAssumption DEF LookupTaskAssignmentAuth, Serve, Refuse, device, sessions, store, UTypes, Placed
  <2> QED
    BY <1>3, <2>1, <2>2, <2>3
<1>9. CASE InitiateMultipartUpload(c)
  <2>1. UTypes'
    BY <1>1, <1>2, <1>9 DEF InitiateMultipartUpload, Serve, Refuse, device, sessions, store, UTypes, PierPlaces, RequestPlaces
  <2>2. Step(c) /\ (multipart'[c] = "complete" => multipart[c] = "complete")
    BY <1>1, <1>9 DEF InitiateMultipartUpload, Serve, Refuse, device, sessions, store, UTypes, Step, Quiet, Placed
  <2>3. Placed(c)'
    BY <1>1, <1>9, PartsAssumption DEF InitiateMultipartUpload, Serve, Refuse, device, sessions, store, UTypes, Placed
  <2> QED
    BY <1>3, <2>1, <2>2, <2>3
<1>10. CASE CreateUploadSession(c)
  <2>1. UTypes'
    BY <1>1, <1>2, <1>10 DEF CreateUploadSession, Serve, Refuse, Reply, device, sessions, store, UTypes, PierPlaces, RequestPlaces
  <2>2. Step(c) /\ (multipart'[c] = "complete" => multipart[c] = "complete")
    BY <1>1, <1>10 DEF CreateUploadSession, Serve, Refuse, Reply, device, sessions, store, UTypes, Step, Quiet, Placed
  <2>3. Placed(c)'
    BY <1>1, <1>10, PartsAssumption DEF CreateUploadSession, Serve, Refuse, Reply, device, sessions, store, UTypes, Placed
  <2> QED
    BY <1>3, <2>1, <2>2, <2>3
<1>11. CASE GetUploadSession(c)
  <2>1. UTypes'
    BY <1>1, <1>2, <1>11 DEF GetUploadSession, Serve, Refuse, Reply, AuthorizeUploadSession, device, sessions, store, UTypes, PierPlaces, RequestPlaces
  <2>2. Step(c) /\ (multipart'[c] = "complete" => multipart[c] = "complete")
    BY <1>1, <1>11 DEF GetUploadSession, Serve, Refuse, Reply, AuthorizeUploadSession, device, sessions, store, UTypes, Step, Quiet, Placed
  <2>3. Placed(c)'
    BY <1>1, <1>11, PartsAssumption DEF GetUploadSession, Serve, Refuse, Reply, AuthorizeUploadSession, device, sessions, store, UTypes, Placed
  <2> QED
    BY <1>3, <2>1, <2>2, <2>3
<1>12. CASE MarkUploadSessionComplete(c)
  <2>1. UTypes'
    BY <1>1, <1>2, <1>12 DEF MarkUploadSessionComplete, Serve, device, sessions, store, UTypes, PierPlaces, RequestPlaces
  <2>2. Step(c) /\ (multipart'[c] = "complete" => multipart[c] = "complete")
    BY <1>1, <1>12 DEF MarkUploadSessionComplete, Serve, device, sessions, store, UTypes, Step, Quiet, Placed
  <2>3. Placed(c)'
    BY <1>1, <1>12, PartsAssumption DEF MarkUploadSessionComplete, Serve, device, sessions, store, UTypes, Placed
  <2> QED
    BY <1>3, <2>1, <2>2, <2>3
<1> QED
  BY <1>4, <1>5, <1>6, <1>7, <1>8, <1>9, <1>10, <1>11, <1>12 DEF Plain

(* The store puts the parts together and the key is the capture's own.     *)
LEMMA CompleteMultipartUploadInv ==
    ASSUME UInv, NEW c \in Captures, CompleteMultipartUpload(c)
    PROVE  UInv'
<1>1. UTypes /\ Placed(c) /\ Stored /\ second[c] \in Seconds
  BY DEF UInv, UTypes
<1>2. UNCHANGED <<jobs, sweep, grading, second, generous, late, session, put>>
  BY DEF CompleteMultipartUpload, device, sessions, worker
<1>3. CASE UNCHANGED <<multipart, object>>
  <2>1. ~StoreCompletes(c)
    BY <1>1, <1>3 DEF StoreCompletes, UTypes
  <2>2. UTypes'
    BY <1>1, <1>2, <1>3, <2>1 DEF CompleteMultipartUpload, Serve, Refuse, UTypes,
                                  PierPlaces, RequestPlaces
  <2>3. Step(c) /\ Placed(c)'
    BY <1>1, <1>2, <1>3, <2>1 DEF CompleteMultipartUpload, Serve, Refuse, UTypes, Step, Quiet, Placed
  <2> QED
    BY <1>2, <1>3, <2>2, <2>3, OneMoves
<1>4. CASE StoreCompletes(c)
  <2>1. UTypes'
    BY <1>1, <1>2, <1>4 DEF CompleteMultipartUpload, StoreCompletes, Serve, Refuse, UTypes,
                            PierPlaces, RequestPlaces
  <2>2. Step(c) /\ Placed(c)'
    BY <1>1, <1>2, <1>4 DEF CompleteMultipartUpload, StoreCompletes, Serve, Refuse, UTypes,
                            Step, Quiet, Placed
  <2>3. Stored'
    <3>1. /\ multipart' = [multipart EXCEPT ![c] = "complete"]
          /\ object' = [object EXCEPT ![second[c]] = c]
      BY <1>4 DEF StoreCompletes
    <3>2. \A d \in Captures : second[d] \in Seconds /\ d # NoOne
      BY <1>1, NoOneAssumption DEF UTypes
    <3>3. \A d \in Captures : multipart'[d] = "complete" => object'[second'[d]] # NoOne
      BY <1>1, <1>2, <3>1, <3>2 DEF Stored, UTypes
    <3>4. \A s \in Seconds : object'[s] # NoOne =>
             second'[object'[s]] = s /\ multipart'[object'[s]] = "complete"
      BY <1>1, <1>2, <3>1, <3>2 DEF Stored, UTypes
    <3>5. \A d \in jobs' : multipart'[d] = "complete"
      BY <1>1, <1>2, <3>1 DEF Stored, UTypes
    <3> QED
      BY <3>3, <3>4, <3>5 DEF Stored
  <2> QED
    BY <1>2, <2>1, <2>2, <2>3, StepSwept, StepGraded, StepPlaced DEF UInv
<1> QED
  BY <1>3, <1>4 DEF CompleteMultipartUpload

(* Only a stored frame is queued.                                          *)
LEMMA EnqueueWorkerJobInv ==
    ASSUME UInv, NEW c \in Captures, EnqueueWorkerJob(c)
    PROVE  UInv'
<1>1. UTypes /\ Placed(c) /\ Stored
  BY DEF UInv
<1>2. /\ UNCHANGED <<sweep, grading, second, generous, late, session, put, multipart, object>>
      /\ jobs' \subseteq jobs \cup {c} /\ multipart[c] = "complete"
  BY <1>1 DEF EnqueueWorkerJob, Queue, device, sessions, store, Placed
<1>3. UTypes'
  BY <1>1, <1>2 DEF EnqueueWorkerJob, Serve, Refuse, Reply, UTypes, PierPlaces, RequestPlaces
<1>4. Step(c) /\ Placed(c)'
  BY <1>1, <1>2 DEF EnqueueWorkerJob, Serve, Refuse, Reply, UTypes, Step, Quiet, Placed
<1>5. Stored'
  BY <1>1, <1>2 DEF Stored
<1> QED
  BY <1>2, <1>3, <1>4, <1>5, StepSwept, StepGraded, StepPlaced DEF UInv

(* The sweeper lists what is past its term; what it aborts was not put     *)
(* together, and what it deletes stays past its term.                      *)
LEMMA SweepInv ==
    ASSUME UInv, SweepExpiredUploadSessions
    PROVE  UInv'
<1>1. /\ UTypes /\ (\A c \in Captures : Placed(c)) /\ Stored /\ Swept /\ Graded
      /\ sweep.left \subseteq Captures /\ late \subseteq Captures
  BY DEF UInv, UTypes
<1>2. UNCHANGED <<second, generous, late, put, object, pier, request, jobs, grading>>
  BY DEF SweepExpiredUploadSessions, ListExpiredUploadSessions, AbortMultipartUpload,
         DeleteUploadSession, device, sessions, store, worker
<1>3. CASE ListExpiredUploadSessions
  <2>1. /\ UNCHANGED <<session, multipart>>
        /\ sweep' = [sweep EXCEPT !.left = {c \in late : session[c] = "open"}]
    BY <1>3 DEF ListExpiredUploadSessions, sessions, store
  <2>2. UTypes'
    BY <1>1, <1>2, <2>1 DEF UTypes
  <2>3. Swept'
    BY <1>1, <1>2, <2>1 DEF UTypes, Swept, Quiet
  <2>4. (\A c \in Captures : Placed(c)') /\ Stored' /\ Graded'
    BY <1>1, <1>2, <2>1 DEF Placed, Stored, Graded, Held
  <2> QED
    BY <2>2, <2>3, <2>4 DEF UInv
<1>4. ASSUME NEW c \in Captures, AbortMultipartUpload(c)
      PROVE  UInv'
  <2>1. /\ UNCHANGED session /\ c \in sweep.left /\ sweep' = [sweep EXCEPT !.next = c]
        /\ \/ UNCHANGED multipart
           \/ multipart' = [multipart EXCEPT ![c] = IF @ = "open" THEN "aborted" ELSE @]
    BY <1>4 DEF AbortMultipartUpload, sessions
  <2>2. \A d \in Captures : /\ multipart'[d] = "complete" <=> multipart[d] = "complete"
                            /\ multipart'[d] = "none" <=> multipart[d] = "none"
    BY <1>1, <2>1 DEF UTypes
  <2>3. UTypes'
    BY <1>1, <1>2, <2>1 DEF UTypes
  <2>4. Swept'
    BY <1>1, <1>2, <2>1 DEF UTypes, Swept, Quiet
  <2>5. \A d \in Captures : Placed(d)'
    BY <1>1, <1>2, <2>1, <2>2 DEF Placed
  <2>6. Stored'
    <3>1. \A s \in Seconds : object[s] # NoOne => object[s] \in Captures
      BY <1>1 DEF UTypes
    <3>2. jobs \subseteq Captures
      BY <1>1 DEF UTypes
    <3> QED
      BY <1>1, <1>2, <2>2, <3>1, <3>2 DEF Stored
  <2>7. Graded'
    BY <1>1, <1>2, <2>1, <2>2 DEF Graded, Held
  <2> QED
    BY <2>3, <2>4, <2>5, <2>6, <2>7 DEF UInv
<1>5. CASE DeleteUploadSession
  <2> DEFINE gone == sweep.next
  <2>1. /\ UNCHANGED multipart /\ gone # NoOne
        /\ sweep' = [left |-> sweep.left \ {gone}, next |-> NoOne]
        /\ UNCHANGED session \/ session' = [session EXCEPT ![gone] = "gone"]
    BY <1>5 DEF DeleteUploadSession, store
  <2>2. gone \in late /\ gone \in Captures /\ session[gone] # "none"
    BY <1>1, <2>1 DEF Swept
  <2>3. \A d \in Captures : /\ session'[d] = "none" <=> session[d] = "none"
                            /\ session[d] = "gone" => session'[d] = "gone"
                            /\ session'[d] = "gone" => session[d] = "gone" \/ d \in late
    BY <1>1, <2>1, <2>2 DEF UTypes
  <2>4. UTypes'
    BY <1>1, <1>2, <2>1, <2>2 DEF UTypes
  <2> HIDE DEF gone
  <2>5. Swept'
    BY <1>1, <1>2, <2>1, <2>3 DEF Swept, Quiet
  <2>6. \A d \in Captures : Placed(d)'
    BY <1>1, <1>2, <2>1, <2>3 DEF Placed
  <2>7. Stored'
    BY <1>1, <1>2, <2>1 DEF Stored
  <2>8. Graded'
    BY <1>1, <1>2, <2>1, <2>3 DEF Graded, Held
  <2> QED
    BY <2>4, <2>5, <2>6, <2>7, <2>8 DEF UInv
<1> QED
  BY <1>3, <1>4, <1>5 DEF SweepExpiredUploadSessions

(* A session's term ends; a generous one only when all is quiet.           *)
LEMMA ExpireInv ==
    ASSUME UInv, NEW c \in Captures, Expire(c)
    PROVE  UInv'
<1>1. UTypes /\ (\A d \in Captures : Placed(d)) /\ Stored /\ Swept /\ Graded
  BY DEF UInv
<1>2. /\ UNCHANGED <<second, generous, session, put, object, multipart, pier, request, sweep,
                     jobs, grading>>
      /\ late' = late \cup {c} /\ session[c] = "open" /\ (generous => Quiet(c))
  BY DEF Expire, device, store, worker, Quiet
<1>3. UTypes'
  BY <1>1, <1>2 DEF UTypes
<1>4. Swept'
  BY <1>1, <1>2 DEF Swept, Quiet
<1>5. (\A d \in Captures : Placed(d)') /\ Stored' /\ Graded'
  BY <1>1, <1>2 DEF Placed, Stored, Graded, Held
<1> QED
  BY <1>3, <1>4, <1>5 DEF UInv

LEMMA NoGradingIsNoOne == NoGrading.frame = NoOne /\ NoGrading.job = NoOne
BY DEF NoGrading

(* The job that is handed out is of a frame that is stored, and the frame  *)
(* that is read is whole, and of the job's second.                         *)
LEMMA WorkerInv ==
    ASSUME UInv, \/ \E c \in Captures : HandOut(c)
                 \/ Pull \/ RequeueFailedJob \/ IngestGrade
    PROVE  UInv'
<1>1. UTypes /\ (\A d \in Captures : Placed(d)) /\ Stored /\ Swept /\ Graded
  BY DEF UInv
<1>2. UNCHANGED <<second, generous, late, session, put, object, multipart, pier, request, sweep>>
  BY DEF HandOut, Pull, RequeueFailedJob, IngestGrade, device, sessions, store
<1>3. ASSUME \A d \in jobs' : d \in jobs \/ (d \in Captures /\ multipart[d] = "complete"),
             Graded'
      PROVE  UInv'
  <2>1. UTypes'
    BY <1>1, <1>2, <1>3 DEF UTypes
  <2>2. (\A d \in Captures : Placed(d)') /\ Swept' /\ Stored'
    BY <1>1, <1>2, <1>3 DEF UTypes, Placed, Swept, Quiet, Stored
  <2> QED
    BY <1>3, <2>1, <2>2 DEF UInv
<1>4. ASSUME NEW c \in Captures, HandOut(c) PROVE UInv'
  <2>1. jobs' = jobs \ {c} /\ grading' = [job |-> c, frame |-> NoOne] /\ c \in jobs
    BY <1>4 DEF HandOut
  <2>2. Graded'
    BY <1>1, <1>2, <2>1 DEF Graded, Held, Stored
  <2> QED
    BY <1>3, <2>1, <2>2
<1>5. CASE Pull
  <2> DEFINE c == grading.job
             f == object[second[c]]
  <2>1. jobs' = jobs /\ grading' = [grading EXCEPT !.frame = f] /\ Held(grading)
    BY <1>1, <1>5 DEF Pull, Graded
  <2>2. c \in Captures /\ second[c] \in Seconds /\ f # NoOne /\ f \in Captures
    BY <1>1, <2>1 DEF Held, Stored, UTypes
  <2>3. second[f] = second[c] /\ multipart[f] = "complete"
    BY <1>1, <2>2 DEF Stored
  <2>4. multipart[c] = "complete"
    BY <2>1 DEF Held
  <2>5. /\ grading'.job = c /\ grading'.frame = f
        /\ grading' \in [job : Captures \cup {NoOne}, frame : Captures \cup {NoOne}]
    BY <1>1, <2>1, <2>2 DEF Graded
  <2> HIDE DEF c, f
  <2>6. Graded'
    BY <1>2, <2>2, <2>3, <2>4, <2>5 DEF Graded, Held
  <2> QED
    BY <1>3, <2>1, <2>6
<1>6. CASE RequeueFailedJob
  <2>1. Held(grading) /\ grading' = NoGrading /\ jobs' \subseteq jobs \cup {grading.job}
    BY <1>1, <1>6 DEF RequeueFailedJob, Queue, Graded
  <2>2. \A d \in jobs' : d \in jobs \/ (d \in Captures /\ multipart[d] = "complete")
    BY <2>1 DEF Held
  <2> QED
    BY <1>3, <2>1, <2>2 DEF Graded, NoGrading
<1>7. CASE IngestGrade
  <2>1. jobs' = jobs /\ grading' = NoGrading
    BY <1>7 DEF IngestGrade
  <2> QED
    BY <1>3, <2>1 DEF Graded, NoGrading
<1> QED
  BY <1>4, <1>5, <1>6, <1>7

(* Assignments and restarts touch nothing that was stored.                 *)
LEMMA AssignmentEndsInv ==
    ASSUME UInv, AssignmentEnds
    PROVE  UInv'
<1>1. UNCHANGED <<second, generous, late, session, put, object, multipart, pier, request, sweep,
                  jobs, grading>>
  BY DEF AssignmentEnds, device, sessions, store, worker
<1>2. UTypes' /\ (\A d \in Captures : Placed(d)')
  BY <1>1 DEF UInv, UTypes, Placed
<1>3. Stored' /\ Swept' /\ Graded'
  BY <1>1 DEF UInv, Stored, Swept, Quiet, Graded, Held
<1> QED
  BY <1>2, <1>3 DEF UInv

LEMMA CrashInv ==
    ASSUME UInv, Crash
    PROVE  UInv'
<1>1. UTypes /\ (\A d \in Captures : Placed(d)) /\ Stored /\ Swept /\ Graded
  BY DEF UInv
<1>2. /\ UNCHANGED <<second, generous, late, session, put, object, multipart, jobs, grading>>
      /\ request' = [c \in Captures |-> "none"] /\ sweep' = Idle
      /\ pier' = [c \in Captures |-> IF request[c] = "none" THEN pier[c] ELSE "failed"]
  BY DEF Crash, device, sessions, store, worker
<1>3. UTypes'
  BY <1>1, <1>2 DEF UTypes, PierPlaces, RequestPlaces, Idle
<1>4. Swept'
  BY <1>1, <1>2 DEF Swept, Quiet, UTypes, Idle
<1>5. \A d \in Captures : Placed(d)'
  BY <1>1, <1>2 DEF Placed, UTypes
<1>6. Stored' /\ Graded'
  BY <1>1, <1>2 DEF Stored, Graded, Held
<1> QED
  BY <1>3, <1>4, <1>5, <1>6 DEF UInv

LEMMA StutterInv ==
    ASSUME UInv, UNCHANGED vars
    PROVE  UInv'
<1>1. UNCHANGED <<second, generous, late, session, put, object, multipart, pier, request, sweep,
                  jobs, grading>>
  BY DEF vars, device, sessions, store, worker
<1>2. UTypes' /\ (\A d \in Captures : Placed(d)')
  BY <1>1 DEF UInv, UTypes, Placed
<1>3. Stored' /\ Swept' /\ Graded'
  BY <1>1 DEF UInv, Stored, Swept, Quiet, Graded, Held
<1> QED
  BY <1>2, <1>3 DEF UInv

LEMMA NextInv == UInv /\ [Next]_vars => UInv'
<1> SUFFICES ASSUME UInv, [Next]_vars PROVE UInv'
  OBVIOUS
<1>1. ASSUME NEW c \in Captures,
             UploadStep(c) \/ PutPart(c) \/ LosePatience(c) \/ Handle(c)
      PROVE  UInv'
  BY <1>1, PlainInv, CompleteMultipartUploadInv, EnqueueWorkerJobInv
  DEF Handle, HandleUploadStart, HandleUploadComplete, Plain
<1>2. ASSUME NEW c \in Captures, Expire(c) \/ HandOut(c)
      PROVE  UInv'
  BY <1>2, ExpireInv, WorkerInv
<1>3. CASE \/ SweepExpiredUploadSessions \/ Pull \/ RequeueFailedJob \/ IngestGrade
           \/ AssignmentEnds \/ Crash
  BY <1>3, SweepInv, WorkerInv, AssignmentEndsInv, CrashInv
<1> QED
  BY <1>1, <1>2, <1>3, StutterInv DEF Next

(* Wherever an upload is, its parts, its session and its multipart upload  *)
(* are what its handlers left (UTypes, Placed, Stored, Swept, Graded).     *)
THEOREM UploadInvariant == Spec => []UInv
BY InitInv, NextInv, PTL DEF Spec

(* For any captures, parts and faults: a job that is queued or handed out  *)
(* is of a frame stored with every part, and its key holds a whole frame   *)
(* of that second (handleUploadComplete, sweepExpiredUploadSessions).      *)
THEOREM UploadQueuedIsStored == Spec => []QueuedIsStored
<1>1. UInv => QueuedIsStored
  <2> SUFFICES ASSUME UInv, NEW c \in jobs \cup ({grading.job} \ {NoOne})
               PROVE  /\ multipart[c] = "complete" /\ put[c] = Parts
                      /\ object[second[c]] # NoOne
                      /\ multipart[object[second[c]]] = "complete"
    BY DEF QueuedIsStored
  <2>1. c \in Captures /\ second[c] \in Seconds /\ multipart[c] = "complete"
    BY DEF UInv, UTypes, Stored, Graded, Held, NoGrading
  <2> QED
    BY <2>1 DEF UInv, Placed, Stored
<1> QED
  BY <1>1, UploadInvariant, PTL

(* What is needed besides of a step: no failure and no deletion of a       *)
(* session is undone.                                                      *)
FailedTypes == failed \in [Captures -> SUBSET {"multipart", "frame", "check", "other"}]

LEMMA FailGrows ==
    ASSUME FailedTypes, NEW c \in Captures,
           NEW what \in {"multipart", "frame", "check", "other"}, Fail(c, what)
    PROVE  FailedTypes' /\ what \in failed'[c]
           /\ \A d \in Captures : failed[d] \subseteq failed'[d]
BY DEF FailedTypes, Fail

LEMMA FailedStays ==
    ASSUME UInv, FailedTypes, [Next]_vars
    PROVE  FailedTypes' /\ \A d \in Captures : failed[d] \subseteq failed'[d]
<1>1. CASE \E c \in Captures, what \in {"multipart", "frame", "check", "other"} : Fail(c, what)
  BY <1>1, FailGrows
<1>2. CASE UNCHANGED failed
  BY <1>2 DEF FailedTypes
<1>3. CASE Crash
  BY <1>3 DEF Crash, FailedTypes
<1>4. ASSUME NEW c \in Captures, UploadStep(c) \/ PutPart(c) \/ LosePatience(c) \/ Handle(c)
      PROVE  UNCHANGED failed \/ \E what \in {"multipart", "frame", "check", "other"} : Fail(c, what)
  BY <1>4 DEF UploadStep, PutPart, LosePatience, Handle, HandleUploadStart,
     HandleUploadComplete, LoadUploadTask, LookupTaskAssignmentAuth, InitiateMultipartUpload,
     CreateUploadSession, GetUploadSession, CompleteMultipartUpload,
     MarkUploadSessionComplete, EnqueueWorkerJob, history, failures
<1>5. CASE SweepExpiredUploadSessions
  <2>1. ASSUME NEW c \in Captures, AbortMultipartUpload(c)
        PROVE  UNCHANGED failed \/ Fail(c, "multipart")
    BY <2>1 DEF AbortMultipartUpload, failures
  <2>2. CASE DeleteUploadSession
    <3>1. sweep.next \in Captures
      BY <2>2 DEF DeleteUploadSession, UInv, UTypes
    <3> QED
      BY <1>1, <1>2, <2>2, <3>1 DEF DeleteUploadSession, failures
  <2>3. ListExpiredUploadSessions => UNCHANGED failed
    BY DEF ListExpiredUploadSessions, history, failures
  <2> QED
    BY <1>1, <1>2, <1>5, <2>1, <2>2, <2>3 DEF SweepExpiredUploadSessions
<1>6. CASE IngestGrade
  <2>1. grading.job \in Captures
    BY <1>6, NoGradingIsNoOne DEF IngestGrade, UInv, Graded, Held
  <2> QED
    BY <1>1, <1>2, <1>6, <2>1 DEF IngestGrade, failures
<1>7. ASSUME NEW c \in Captures, Expire(c) \/ HandOut(c) PROVE UNCHANGED failed
  BY <1>7 DEF Expire, HandOut, history, failures
<1>8. Pull \/ RequeueFailedJob \/ AssignmentEnds \/ UNCHANGED vars => UNCHANGED failed
  BY DEF Pull, RequeueFailedJob, AssignmentEnds, vars, history, failures
<1> QED
  BY <1>1, <1>2, <1>3, <1>4, <1>5, <1>6, <1>7, <1>8 DEF Next

LEMMA GoneStays ==
    ASSUME UInv, [Next]_vars, NEW d \in Captures, session[d] = "gone"
    PROVE  session'[d] = "gone"
<1>1. UTypes /\ \A c \in Captures : Placed(c)
  BY DEF UInv
<1>2. ASSUME NEW c \in Captures, UploadStep(c) \/ PutPart(c) \/ LosePatience(c) \/ Handle(c)
      PROVE  session'[d] = "gone"
  <2>1. CASE CreateUploadSession(c)
    BY <1>1, <2>1 DEF CreateUploadSession, UTypes, Placed
  <2>2. CASE MarkUploadSessionComplete(c)
    BY <1>1, <2>2 DEF MarkUploadSessionComplete, UTypes
  <2>3. CASE ~CreateUploadSession(c) /\ ~MarkUploadSessionComplete(c)
    BY <1>2, <2>3 DEF UploadStep, PutPart, LosePatience, Handle, HandleUploadStart,
       HandleUploadComplete, LoadUploadTask, LookupTaskAssignmentAuth, InitiateMultipartUpload,
       GetUploadSession, CompleteMultipartUpload, EnqueueWorkerJob, sessions
  <2> QED
    BY <2>1, <2>2, <2>3
<1>3. CASE SweepExpiredUploadSessions
  BY <1>1, <1>3 DEF SweepExpiredUploadSessions, ListExpiredUploadSessions,
     AbortMultipartUpload, DeleteUploadSession, sessions, UTypes
<1>4. ASSUME NEW c \in Captures, Expire(c) \/ HandOut(c) PROVE UNCHANGED session
  BY <1>4 DEF Expire, HandOut, sessions
<1>5. Pull \/ RequeueFailedJob \/ IngestGrade \/ AssignmentEnds \/ Crash \/ UNCHANGED vars
         => UNCHANGED session
  BY DEF Pull, RequeueFailedJob, IngestGrade, AssignmentEnds, Crash, vars, sessions
<1> QED
  BY <1>2, <1>3, <1>4, <1>5 DEF Next

OwnInv == /\ UInv /\ FailedTypes /\ GradedIsOwn
          /\ \A g \in graded : g.job \in Captures /\ g.frame \in Captures

LEMMA OwnStep == OwnInv /\ [Next]_vars => OwnInv'
<1> SUFFICES ASSUME OwnInv, [Next]_vars PROVE OwnInv'
  OBVIOUS
<1>1. UInv' /\ FailedTypes' /\ \A d \in Captures : failed[d] \subseteq failed'[d]
  BY NextInv, FailedStays DEF OwnInv
<1>2. \A d \in Captures : session[d] = "gone" => session'[d] = "gone"
  BY GoneStays DEF OwnInv
<1>3. \A g \in graded : \/ g.frame = g.job
                       \/ session'[g.frame] = "gone"
                       \/ "check" \in failed'[g.job]
  BY <1>1, <1>2 DEF OwnInv, GradedIsOwn
<1>4. CASE IngestGrade
  <2>1. /\ grading.job \in Captures /\ grading.frame \in Captures
        /\ multipart[grading.frame] = "complete" /\ second[grading.frame] = second[grading.job]
        /\ graded' = graded \cup {grading}
    BY <1>4, NoGradingIsNoOne DEF IngestGrade, OwnInv, UInv, Graded, Held
  <2>2. \/ grading.frame = grading.job \/ session[grading.frame] = "gone"
        \/ "check" \in failed'[grading.job]
    <3>1. CASE NotForeignRegistered(grading.job)
      <4>1. session[grading.frame] \in {"open", "completed", "gone"}
        BY <2>1 DEF OwnInv, UInv, UTypes, Placed
      <4> QED
        BY <2>1, <3>1, <4>1 DEF NotForeignRegistered
    <3>2. CASE Fail(grading.job, "check")
      BY <2>1, <3>2, FailGrows DEF OwnInv
    <3> QED
      BY <1>4, <3>1, <3>2 DEF IngestGrade
  <2> QED
    BY <1>1, <1>2, <1>3, <2>1, <2>2 DEF OwnInv, GradedIsOwn
<1>5. CASE ~IngestGrade
  <2>1. UNCHANGED graded
    BY <1>5 DEF Next, vars, worker, Handle, HandleUploadStart, HandleUploadComplete,
       UploadStep, PutPart, LosePatience, LoadUploadTask, LookupTaskAssignmentAuth,
       InitiateMultipartUpload, CreateUploadSession, GetUploadSession,
       CompleteMultipartUpload, MarkUploadSessionComplete, EnqueueWorkerJob,
       SweepExpiredUploadSessions, ListExpiredUploadSessions, AbortMultipartUpload,
       DeleteUploadSession, Expire, HandOut, Pull, RequeueFailedJob, AssignmentEnds, Crash
  <2> QED
    BY <1>1, <1>3, <2>1 DEF OwnInv, GradedIsOwn
<1> QED
  BY <1>4, <1>5

(* An accepted grade is of the telescope's own frame, or of one whose      *)
(* session the sweeper deleted, or its check met an error, whatever else   *)
(* fails, is overwritten or comes again                                    *)
(* (assertObjectKeyNotForeignRegistered).                                  *)
THEOREM UploadGradedIsOwn == Spec => []GradedIsOwn
<1>1. Init => OwnInv
  <2>1. Init => FailedTypes /\ graded = {}
    BY DEF Init, FailedTypes
  <2> QED
    BY <2>1, InitInv DEF OwnInv, GradedIsOwn
<1>2. OwnInv => GradedIsOwn
  BY DEF OwnInv
<1> QED
  BY <1>1, <1>2, OwnStep, PTL DEF Spec

(* With a TTL that outlasts the pier's patience, the sweeper only deletes  *)
(* sessions that nobody is at any more (sweepExpiredUploadSessions).       *)
THEOREM UploadSweeperSparesTheLiving == Spec => []SweeperSparesTheLiving
<1>1. UInv => SweeperSparesTheLiving
  BY DEF UInv, Swept, Quiet, SweeperSparesTheLiving
<1> QED
  BY <1>1, UploadInvariant, PTL

=============================================================================
