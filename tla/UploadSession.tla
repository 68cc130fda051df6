--------------------------- MODULE UploadSession ---------------------------
(***************************************************************************)
(* A frame's way from the pier to the worker's queue: the pier's uploader, *)
(* the three upload handlers of the apiserver, the sweeper of expired      *)
(* sessions, the object store's multipart uploads, and the check by which  *)
(* the grade ingest refuses another telescope's object.                    *)
(*                                                                         *)
(* An upload is named for the capture it carries.  Every action is one SQL *)
(* statement, one call to the object store, or one request of the pier.    *)
(***************************************************************************)
EXTENDS Naturals, FiniteSets

CONSTANTS
    Captures,       \* one frame each, of a telescope of its own, of one task
    NoOne,
    Seconds,        \* UTC seconds
    Timings,        \* the seconds the captures may be taken at
    Bindings,       \* the sets of captures whose device may be bound
    Parts,          \* how many parts a frame is uploaded in
    Ttls,           \* whether UPLOAD_SESSION_TTL outlasts the pier's patience
    MaxFaults,      \* bound: how many steps go wrong
    Faults          \* what may go wrong in this instance: "call", "abort",
                    \* "crash", "patience"

ASSUME NoOneAssumption == NoOne \notin Captures
ASSUME TimingsAssumption == Timings \subseteq [Captures -> Seconds]
ASSUME BindingsAssumption == Bindings \subseteq SUBSET Captures
ASSUME PartsAssumption == Parts \in Nat \ {0}
ASSUME TtlsAssumption == Ttls \subseteq BOOLEAN
ASSUME MaxFaultsAssumption == MaxFaults \in Nat
ASSUME FaultsAssumption == Faults \subseteq {"call", "abort", "crash", "patience"}

VARIABLES
    second,         \* when each capture was taken: all of its key that differs
    generous,       \* the TTL outlasts the pier's patience
    bound,          \* captures whose device token is bound to its telescope
    \* Postgres
    open,           \* the task's status is not a terminal one
    row,            \* task_assignments, by the capture's telescope
    mirror,         \* whose telescope tasks.assigned_telescope_id is
    session,        \* upload_sessions, by upload
    late,           \* sessions that are past their expires_at
    jobs,           \* worker_pending_jobs that are pending
    \* the object store
    multipart, put, \* each multipart upload, and how many of its parts it has
    object,         \* whose frame is stored under each key
    \* processes
    pier,           \* each uploader's place
    request,        \* the place of the handler that serves it
    sweep,          \* the sweeper: sessions it has yet to delete, and the next
    grading,        \* the job in the worker's hands, and the frame it has read
    graded,         \* accepted grades: the job's capture and the frame graded
    \* history
    queued,         \* uploads whose completion has reached the queue
    failed,         \* what has failed, of each upload: a step that leaves its
                    \* "multipart" upload or its "frame" behind, the "check"
                    \* of its grade's key, or "other"
    faults          \* how many steps have gone wrong

device == <<second, generous, bound>>
task == <<open, row, mirror>>
sessions == <<session, late>>
store == <<multipart, put, object>>
worker == <<jobs, grading, graded>>
failures == <<failed, faults>>
history == <<queued, failures>>
vars == <<device, task, sessions, store, pier, request, sweep, worker, history>>

Idle == [left |-> {}, next |-> NoOne]
NoGrading == [job |-> NoOne, frame |-> NoOne]

(* A task of a cohort, or one from before there were task_assignments, of  *)
(* which there is only the mirror.                                         *)
Init ==
    /\ second \in Timings /\ bound \in Bindings /\ generous \in Ttls
    /\ open = TRUE
    /\ row \in [Captures -> {"none", "active"}]
    /\ mirror \in Captures
    /\ row[mirror] = "active" \/ \A c \in Captures : row[c] = "none"
    /\ session = [c \in Captures |-> "none"] /\ late = {}
    /\ multipart = [c \in Captures |-> "none"]
    /\ put = [c \in Captures |-> 0]
    /\ object = [s \in Seconds |-> NoOne]
    /\ pier = [c \in Captures |-> "away"]
    /\ request = [c \in Captures |-> "none"]
    /\ sweep = Idle
    /\ jobs = {} /\ grading = NoGrading /\ graded = {}
    /\ queued = {} /\ failed = [c \in Captures |-> {}] /\ faults = 0

Serve(c, place) == request' = [request EXCEPT ![c] = place]
Fail(c, what) == /\ faults < MaxFaults /\ faults' = faults + 1
                 /\ failed' = [failed EXCEPT ![c] = @ \cup {what}]

(* A handler may lose its connection to the database or the store; when the*)
(* pier has hung up, the request's context is cancelled and its queries    *)
(* fail.                                                                   *)
CallMayFail(c) == "call" \in Faults \/ pier[c] = "failed"

(* An error response: the uploader gives up, and the frame stays local.    *)
Refuse(c) ==
    /\ Serve(c, "none")
    /\ pier' = [pier EXCEPT ![c] = "failed"]

Reply(c, place) ==
    /\ Serve(c, "none")
    /\ pier' = [pier EXCEPT ![c] = IF @ = "failed" THEN "failed" ELSE place]
-----------------------------------------------------------------------------
(* The pier: Upload, which makes each request once.                        *)

Upload(c) ==
    \/ /\ pier[c] = "away"
       /\ pier' = [pier EXCEPT ![c] = "waiting"]
       /\ Serve(c, "start")
    \/ /\ pier[c] = "upload" /\ put[c] < Parts
       /\ pier' = [pier EXCEPT ![c] = "waiting"]
       /\ Serve(c, "presign")
    \/ /\ pier[c] = "upload" /\ put[c] = Parts
       /\ pier' = [pier EXCEPT ![c] = "waiting"]
       /\ Serve(c, "complete")

UploadStep(c) ==
    /\ Upload(c)
    /\ UNCHANGED <<device, task, sessions, store, sweep, worker, history>>

(* The PUT of a part goes to the store, which knows the multipart upload   *)
(* or answers with an error.                                               *)
PutPart(c) ==
    /\ pier[c] = "put"
    /\ \/ /\ multipart[c] = "open"
          /\ put' = [put EXCEPT ![c] = @ + 1]
          /\ pier' = [pier EXCEPT ![c] = "upload"]
          /\ UNCHANGED failures
       \/ /\ multipart[c] # "open" \/ "call" \in Faults
          /\ pier' = [pier EXCEPT ![c] = "failed"]
          /\ Fail(c, "other")
          /\ UNCHANGED put
    /\ UNCHANGED <<device, task, sessions, multipart, object, request, sweep,
                   worker, queued>>

(* Thirty minutes are over: processCapturedTask cancels the upload.  What  *)
(* the apiserver is doing for it goes on.                                  *)
LosePatience(c) ==
    /\ "patience" \in Faults
    /\ pier[c] \in {"upload", "put", "waiting"}
    /\ pier' = [pier EXCEPT ![c] = "failed"]
    /\ Fail(c, "other")
    /\ UNCHANGED <<device, task, sessions, store, request, sweep, worker, queued>>
-----------------------------------------------------------------------------
(* handleUploadStart.                                                      *)

(* loadUploadTask, the first half of validateUploadAssignment.             *)
LoadUploadTask(c) ==
    /\ request[c] = "start"
    /\ \/ open /\ Serve(c, "rows") /\ UNCHANGED <<pier, failures>>
       \/ ~open /\ Refuse(c) /\ UNCHANGED failures
       \/ CallMayFail(c) /\ Refuse(c) /\ Fail(c, "other")
    /\ UNCHANGED <<device, task, sessions, store, sweep, worker, queued>>

(* lookupTaskAssignmentAuth: the telescope's own row decides, and the      *)
(* mirror only for a task without rows.                                    *)
Authorized(c) ==
    \/ row[c] = "active"
    \/ mirror = c /\ \A d \in Captures : row[d] = "none"

LookupTaskAssignmentAuth(c) ==
    /\ request[c] = "rows"
    /\ \/ Authorized(c) /\ Serve(c, "initiate") /\ UNCHANGED <<pier, failures>>
       \/ ~Authorized(c) /\ Refuse(c) /\ UNCHANGED failures
       \/ CallMayFail(c) /\ Refuse(c) /\ Fail(c, "other")
    /\ UNCHANGED <<device, task, sessions, store, sweep, worker, queued>>

(* initiateMultipartUpload.  An answer that is lost leaves a multipart     *)
(* upload nobody knows.                                                    *)
InitiateMultipartUpload(c) ==
    /\ request[c] = "initiate"
    /\ \/ /\ multipart' = [multipart EXCEPT ![c] = "open"]
          /\ Serve(c, "create") /\ UNCHANGED <<pier, failures>>
       \/ /\ "call" \in Faults
          /\ \/ UNCHANGED multipart
             \/ multipart' = [multipart EXCEPT ![c] = "open"]
          /\ Refuse(c) /\ Fail(c, "multipart")
    /\ UNCHANGED <<device, task, sessions, put, object, sweep, worker, queued>>

(* createUploadSession.  Nothing discards the multipart upload if it fails.*)
CreateUploadSession(c) ==
    /\ request[c] = "create"
    /\ \/ /\ session' = [session EXCEPT ![c] = "open"]
          /\ Reply(c, "upload") /\ UNCHANGED failures
       \/ /\ CallMayFail(c)
          /\ Refuse(c) /\ Fail(c, "multipart")
          /\ UNCHANGED session
    /\ UNCHANGED <<device, task, late, store, sweep, worker, queued>>
-----------------------------------------------------------------------------
(* handleUploadPresign and handleUploadComplete.                           *)

(* authorizeUploadSession, on the row as getUploadSession reads it.  The   *)
(* session carries the telescope that was asked for, the device that makes *)
(* this request the one its token is bound to.                             *)
AuthorizeUploadSession(c) == session[c] = "open" /\ c \notin late /\ c \in bound

GetUploadSession(c) ==
    /\ request[c] \in {"presign", "complete"}
    /\ \/ /\ AuthorizeUploadSession(c)
          /\ IF request[c] = "presign"
             THEN Reply(c, "put")
             ELSE Serve(c, "store") /\ UNCHANGED pier
          /\ UNCHANGED failures
       \/ ~AuthorizeUploadSession(c) /\ Refuse(c) /\ UNCHANGED failures
       \/ CallMayFail(c) /\ Refuse(c) /\ Fail(c, "other")
    /\ UNCHANGED <<device, task, sessions, store, sweep, worker, queued>>

(* The store puts the frame together, if it has the parts listed.          *)
StoreCompletes(c) ==
    /\ multipart[c] = "open"
    /\ multipart' = [multipart EXCEPT ![c] = "complete"]
    /\ object' = [object EXCEPT ![second[c]] = c]

\* Mutant: the store's error is logged and the frame queued all the same.
CompleteMultipartIgnored(c) ==
    /\ request[c] = "store"
    /\ StoreCompletes(c) \/ UNCHANGED <<multipart, object>>
    /\ Serve(c, "mark")
    /\ UNCHANGED <<device, task, sessions, put, pier, sweep, worker, history>>

(* completeMultipartUpload.  It does not stop when the pier hangs up, and  *)
(* an answer that is lost leaves a frame that is stored and not queued.    *)
CompleteMultipartUpload(c) ==
    /\ request[c] = "store"
    /\ \/ StoreCompletes(c) /\ Serve(c, "mark") /\ UNCHANGED <<pier, failures>>
       \/ /\ multipart[c] # "open" \/ "call" \in Faults
          /\ UNCHANGED <<multipart, object>>
          /\ Refuse(c) /\ Fail(c, "frame")
       \/ "call" \in Faults /\ StoreCompletes(c) /\ Refuse(c) /\ Fail(c, "frame")
    /\ UNCHANGED <<device, task, sessions, put, sweep, worker, queued>>

(* markUploadSessionComplete, within the five seconds the handler began    *)
(* with, though the store has thirty.  An error is only logged.            *)
MarkUploadSessionComplete(c) ==
    /\ request[c] = "mark"
    /\ Serve(c, "enqueue")
    /\ \/ /\ session[c] = "open"
          /\ session' = [session EXCEPT ![c] = "completed"]
          /\ UNCHANGED failures
       \/ session[c] # "open" /\ UNCHANGED <<session, failures>>
       \/ CallMayFail(c) /\ UNCHANGED session /\ Fail(c, "other")
    /\ UNCHANGED <<device, task, late, store, pier, sweep, worker, queued>>

(* INSERT ... ON CONFLICT DO NOTHING: one pending job per key, so the      *)
(* second frame of a second gets none while the first one's is waiting.    *)
Queue(c) == jobs' = IF \E d \in jobs : second[d] = second[c]
                    THEN jobs ELSE jobs \cup {c}

\* Mutant: the handler returns when the session could not be marked.
EnqueueMarkedOnly(c) ==
    /\ request[c] = "enqueue"
    /\ IF session[c] = "completed"
       THEN /\ Queue(c)
            /\ queued' = queued \cup {c}
            /\ Reply(c, "done")
       ELSE Refuse(c) /\ UNCHANGED <<jobs, queued>>
    /\ UNCHANGED <<device, task, sessions, store, sweep, grading, graded, failures>>

(* enqueueWorkerJob.  Without a database, or with a full queue, nothing    *)
(* durable keeps the job.                                                  *)
EnqueueWorkerJob(c) ==
    /\ request[c] = "enqueue"
    /\ \/ /\ Queue(c)
          /\ queued' = queued \cup {c}
          /\ Reply(c, "done") /\ UNCHANGED failures
       \/ /\ "call" \in Faults
          /\ Refuse(c) \/ Reply(c, "done")
          /\ Fail(c, "frame")
          /\ UNCHANGED <<jobs, queued>>
    /\ UNCHANGED <<device, task, sessions, store, sweep, grading, graded>>
-----------------------------------------------------------------------------
(* The sweeper.                                                            *)

\* Mutant: the sessions that are not completed, expired or not.
ListOpenUploadSessions ==
    /\ sweep = Idle
    /\ \E c \in Captures : session[c] = "open"
    /\ sweep' = [sweep EXCEPT !.left = {c \in Captures : session[c] = "open"}]
    /\ UNCHANGED <<device, task, sessions, store, pier, request, worker, history>>

(* listExpiredUploadSessions.                                              *)
ListExpiredUploadSessions ==
    /\ sweep = Idle
    /\ \E c \in Captures : session[c] = "open" /\ c \in late
    /\ sweep' = [sweep EXCEPT !.left = {c \in late : session[c] = "open"}]
    /\ UNCHANGED <<device, task, sessions, store, pier, request, worker, history>>

(* abortMultipartUpload, whose error is logged.  A multipart upload that   *)
(* is complete is none the store could abort.                              *)
AbortMultipartUpload(c) ==
    /\ c \in sweep.left /\ sweep.next = NoOne
    /\ sweep' = [sweep EXCEPT !.next = c]
    /\ \/ /\ multipart' = [multipart EXCEPT ![c] = IF @ = "open" THEN "aborted" ELSE @]
          /\ UNCHANGED failures
       \/ "abort" \in Faults /\ Fail(c, "multipart") /\ UNCHANGED multipart
    /\ UNCHANGED <<device, task, sessions, put, object, pier, request, worker, queued>>

(* deleteUploadSession, whatever has become of the session since.          *)
DeleteUploadSession ==
    /\ sweep.next # NoOne
    /\ sweep' = [left |-> sweep.left \ {sweep.next}, next |-> NoOne]
    /\ \/ /\ session' = [session EXCEPT ![sweep.next] = "gone"]
          /\ UNCHANGED failures
       \/ "call" \in Faults /\ Fail(sweep.next, "other") /\ UNCHANGED session
    /\ UNCHANGED <<device, task, late, store, pier, request, worker, queued>>

SweepExpiredUploadSessions ==
    \/ ListExpiredUploadSessions
    \/ \E c \in Captures : AbortMultipartUpload(c)
    \/ DeleteUploadSession

(* A session's time runs out: with a generous TTL not while its uploader   *)
(* or its handler is at it, for they take thirty minutes at most.          *)
Expire(c) ==
    /\ session[c] = "open" /\ c \notin late
    /\ generous => pier[c] \in {"failed", "done"} /\ request[c] = "none"
    /\ late' = late \cup {c}
    /\ UNCHANGED <<device, task, session, store, pier, request, sweep, worker, history>>
-----------------------------------------------------------------------------
(* The worker, which grades what it finds under the key, and the ingest.   *)

(* claimWorkerJobs: a job is done as it is handed out, and the frame that  *)
(* overwrites its object gets a job of its own.  (One at a time: the jobs  *)
(* of one batch have different keys.)                                      *)
HandOut(c) ==
    /\ grading = NoGrading /\ c \in jobs
    /\ grading' = [job |-> c, frame |-> NoOne]
    /\ jobs' = jobs \ {c}
    /\ UNCHANGED <<device, task, sessions, store, pier, request, sweep, graded,
                   history>>

(* run_live_job: the object is downloaded and graded.                      *)
Pull ==
    /\ grading # NoGrading /\ grading.frame = NoOne
    /\ grading' = [grading EXCEPT !.frame = object[second[grading.job]]]
    /\ UNCHANGED <<device, task, sessions, store, pier, request, sweep, jobs,
                   graded, history>>

(* The pull or the grading fails, or the grade is refused: the job is      *)
(* queued again, unless nobody hears of it (module FramePipeline).         *)
RequeueFailedJob ==
    /\ grading # NoGrading
    /\ grading' = NoGrading
    /\ Queue(grading.job) \/ UNCHANGED jobs
    /\ UNCHANGED <<device, task, sessions, store, pier, request, sweep, graded,
                   history>>

\* Mutant: the registry is asked for the telescope's own sessions.
NotForeignOwn(c) == session[c] \in {"open", "completed"}

(* assertObjectKeyNotForeignRegistered: no session of another telescope    *)
(* has the key.  (The key names the task: no other task's job can have it.)*)
NotForeignRegistered(c) ==
    \A d \in Captures \ {c} :
        second[d] = second[c] => session[d] \notin {"open", "completed"}

(* The ingest, of a grade that is the first of its key.  When a query of   *)
(* the check fails, the grade passes.                                      *)
IngestGrade ==
    /\ grading.frame # NoOne
    /\ \A g \in graded : second[g.job] # second[grading.job]
    /\ \/ NotForeignRegistered(grading.job) /\ UNCHANGED failures
       \/ "call" \in Faults /\ Fail(grading.job, "check")
    /\ graded' = graded \cup {grading}
    /\ grading' = NoGrading
    /\ UNCHANGED <<device, task, sessions, store, pier, request, sweep, jobs, queued>>
-----------------------------------------------------------------------------
(* A telescope's assignment ends, or the task does (module TaskLease);     *)
(* bounded to where a handler has yet to read it.                          *)
AssignmentEnds ==
    /\ \E c \in Captures : request[c] \in {"start", "rows"}
    /\ \/ open' = FALSE /\ open /\ UNCHANGED row
       \/ \E c \in Captures : /\ row[c] = "active"
                              /\ row' = [row EXCEPT ![c] = "ended"]
                              /\ UNCHANGED open
    /\ UNCHANGED <<device, mirror, sessions, store, pier, request, sweep, worker, history>>

(* The apiserver restarts: the handlers and the sweep are gone.            *)
Crash ==
    /\ "crash" \in Faults /\ faults < MaxFaults
    /\ faults' = faults + 1
    /\ sweep # Idle \/ \E c \in Captures : request[c] # "none"
    /\ pier' = [c \in Captures |-> IF request[c] = "none" THEN pier[c] ELSE "failed"]
    /\ failed' = [c \in Captures |->
                    IF request[c] = "none" THEN failed[c] ELSE failed[c] \cup {"multipart", "frame"}]
    /\ request' = [c \in Captures |-> "none"]
    /\ sweep' = Idle
    /\ UNCHANGED <<device, task, sessions, store, worker, queued>>
-----------------------------------------------------------------------------
HandleUploadStart(c) ==
    LoadUploadTask(c) \/ LookupTaskAssignmentAuth(c)
    \/ InitiateMultipartUpload(c) \/ CreateUploadSession(c)

HandleUploadComplete(c) ==
    CompleteMultipartUpload(c) \/ MarkUploadSessionComplete(c) \/ EnqueueWorkerJob(c)

Handle(c) == HandleUploadStart(c) \/ GetUploadSession(c) \/ HandleUploadComplete(c)

Next == \/ \E c \in Captures : UploadStep(c) \/ PutPart(c) \/ LosePatience(c)
                               \/ Handle(c) \/ Expire(c) \/ HandOut(c)
        \/ SweepExpiredUploadSessions \/ Pull \/ RequeueFailedJob \/ IngestGrade
        \/ AssignmentEnds \/ Crash

Spec == Init /\ [][Next]_vars

(* Go runs every handler, the pier goes on, the ticker ticks, time passes. *)
Fairness ==
    /\ \A c \in Captures : /\ WF_vars(UploadStep(c)) /\ WF_vars(PutPart(c))
                           /\ WF_vars(Handle(c)) /\ WF_vars(Expire(c))
    /\ WF_vars(SweepExpiredUploadSessions)

FairSpec == Spec /\ Fairness
-----------------------------------------------------------------------------
(* Properties.                                                             *)

(* A job in the queue or in the worker's hands is of a frame that was      *)
(* stored with every part, and what its key holds is a frame of that same  *)
(* second: neither the sweeper racing the completion nor a failing call    *)
(* queues a frame the worker will not find (handleUploadComplete).         *)
QueuedIsStored ==
    \A c \in jobs \cup ({grading.job} \ {NoOne}) :
        /\ multipart[c] = "complete" /\ put[c] = Parts
        /\ object[second[c]] # NoOne
        /\ multipart[object[second[c]]] = "complete"

(* A grade that is accepted is a grade of the telescope's own frame, though*)
(* two telescopes of a cohort may overwrite each other's object before or  *)
(* after a job is handed out, and a refused job comes again: the session   *)
(* of the other one gives it away, unless the sweeper has deleted it       *)
(* because it could not be marked complete, or the very check that asks    *)
(* for it met an error, which lets every grade pass.                       *)
GradedIsOwn ==
    \A g \in graded : \/ g.frame = g.job
                      \/ session[g.frame] = "gone"
                      \/ "check" \in failed[g.job]

(* With a generous TTL the sweeper leaves an upload alone for as long as   *)
(* its pier is at it.                                                      *)
SweeperSparesTheLiving ==
    generous => \A c \in Captures : session[c] = "gone" =>
        pier[c] \in {"failed", "done"} /\ request[c] = "none"

(* A frame that the store has put together reaches the queue, unless the   *)
(* answer was lost, the queue refused it or the apiserver died.  No sweep  *)
(* of the store looks for the rest.                                        *)
StoredIsQueued ==
    \A c \in Captures :
        []<>(multipart[c] # "complete" \/ c \in queued \/ "frame" \in failed[c])

=============================================================================
