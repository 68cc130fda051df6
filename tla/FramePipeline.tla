--------------------------- MODULE FramePipeline ---------------------------
(***************************************************************************)
(* The way of a frame from the last byte of its upload to the researcher's *)
(* inbox: the apiserver's upload completion and worker queue, the worker   *)
(* that pulls jobs and has each frame graded, and the apiserver's grade    *)
(* ingest, which records the grade, credits the task's integration budget, *)
(* completes the task and its campaign, and delivers the frame.            *)
(*                                                                         *)
(* Every action is one SQL statement or transaction, or one HTTP call as   *)
(* its caller sees it.  A frame's quality is its worth in normalized       *)
(* seconds, 0 if it is not stack-eligible.  What no decision here reads    *)
(* (accumulated exposure, reputation, the catalog, the event feed) is left *)
(* out.  All tasks are of one active campaign.                             *)
(***************************************************************************)
EXTENDS Naturals, Sequences, FiniteSets, SequencesExt

CONSTANTS
    Frames, Tasks, Workers,     \* Workers: worker processes, or their threads
    TaskOf,                     \* [Frames -> Tasks]
    Worth,                      \* [Frames -> Nat]
    Budget,                     \* [Tasks -> Nat], 0 for none
    Products,                   \* the sets of stack tasks to check
    Refusable,                  \* frames whose grade the ingest may refuse:
                                \* their telescope or keys are not as it knows
    MaxPending,                 \* WORKER_PENDING_MAX
    Gradings,                   \* who ingests grades: "worker", or "compute"
    Faults,                     \* the kinds of call that may fail
    MaxFaults                   \* bound: how many calls fail

ASSUME TaskOfAssumption == TaskOf \in [Frames -> Tasks]
ASSUME WorthAssumption == Worth \in [Frames -> Nat] /\ Budget \in [Tasks -> Nat]
ASSUME RefusableAssumption == Refusable \subseteq Frames
ASSUME DisjointAssumption == Frames \cap Workers = {}
ASSUME GradingsAssumption == Gradings \subseteq {"worker", "compute"}
ASSUME PendingAssumption == MaxPending \in Nat \ {0} /\ MaxFaults \in Nat

VARIABLES
    stacked,        \* tasks whose product_mode is stack, not per_frame
    grading,        \* "worker": COMPUTE_URL is unset and the worker posts its
                    \* grades itself, not the compute server
    uploaded,       \* frames whose upload session is completed
    \* the worker queue: a job is the sequence of its object keys
    rows, memory,   \* worker_pending_jobs still pending, and workerJobs
    put,            \* enqueueWorkerJob in progress, for an upload or a worker
    taken, worker,  \* jobs handed out, and what each worker does
    \* grade ingest
    api,            \* ingestGradePayload in progress, by the worker that waits
    graded,         \* frame_grades, by the frame of the idempotency key
    earned,         \* tasks.normalized_integration_earned_s
    completed,      \* tasks with status completed
    campaign,       \* campaigns.status
    inbox,          \* number of inbox deliveries of each frame
    stacks,         \* number of inbox deliveries of each task's stack
    \* history and bounds
    credits,        \* how often each frame has been credited
    dropped,        \* frames that a failed call has lost
    faults

setting == <<stacked, grading>>
queue == <<rows, memory, put>>
ingest == <<api, graded, earned, completed, campaign, inbox>>
vars == <<setting, uploaded, queue, taken, worker, ingest, stacks, credits,
          dropped, faults>>

Free == [pc |-> "idle", job |-> << >>]
NoJob == [pc |-> "idle", job |-> << >>, i |-> 1]
NoCall(f) == [pc |-> "idle", frame |-> f, saw |-> 0]
AnyFrame == CHOOSE f \in Frames : TRUE

Init == /\ stacked \in Products /\ grading \in Gradings
        /\ uploaded = {}
        /\ rows = << >> /\ memory = << >>
        /\ put = [x \in Frames \cup Workers |-> Free]
        /\ taken = << >> /\ worker = [w \in Workers |-> NoJob]
        /\ api = [w \in Workers |-> NoCall(AnyFrame)]
        /\ graded = {} /\ earned = [t \in Tasks |-> 0]
        /\ completed = {} /\ campaign = "active"
        /\ inbox = [f \in Frames |-> 0] /\ stacks = [t \in Tasks |-> 0]
        /\ credits = [f \in Frames |-> 0] /\ dropped = {} /\ faults = 0

(* A call of this kind fails.                                              *)
Fails(kind) == /\ kind \in Faults /\ faults < MaxFaults
               /\ faults' = faults + 1

Of(job) == TaskOf[Head(job)]
Stack(job) == Of(job) \in stacked
Lose(jobs) == dropped' = dropped \cup UNION {ToSet(job) : job \in jobs}

(* What a sequence has at these places, in its order.                      *)
Pick(s, places) ==
    LET upTo[n \in 0..Len(s)] ==
            IF n = 0 THEN << >>
            ELSE IF n \in places THEN Append(upTo[n - 1], s[n])
            ELSE upTo[n - 1] IN
    upTo[Len(s)]
-----------------------------------------------------------------------------
(* handleUploadComplete and enqueueWorkerJob.                              *)

Enqueue(x, job) ==
    put' = [put EXCEPT ![x] =
              [pc |-> IF Stack(job) THEN "merge" ELSE "count", job |-> job]]

(* The session is marked complete, and then the job is enqueued: a retry   *)
(* of the request finds no session.                                        *)
CompleteUpload(f) ==
    /\ f \notin uploaded
    /\ uploaded' = uploaded \cup {f}
    /\ Enqueue(f, <<f>>)
    /\ UNCHANGED <<setting, rows, memory, taken, worker, ingest, stacks,
                   credits, dropped, faults>>

(* The enqueue ends; the worker whose job it was goes on to its next.      *)
Done(x) == /\ put' = [put EXCEPT ![x] = Free]
           /\ worker' = IF x \in Workers THEN [worker EXCEPT ![x] = NoJob]
                                         ELSE worker

Rest == <<setting, uploaded, taken, ingest, stacks, credits>>

Mergeable(r, key) == Of(r) = TaskOf[key]

(* A stack job's first key is added to the pending stack rows of its task, *)
(* if there are any.  An error, though the UPDATE may have been applied,   *)
(* counts as none.                                                         *)
MergeStack(x) ==
    LET key == Head(put[x].job)
        merged == [k \in DOMAIN rows |->
                     IF Mergeable(rows[k], key) /\ key \notin ToSet(rows[k])
                     THEN Append(rows[k], key) ELSE rows[k]]
        found == \E k \in DOMAIN rows : Mergeable(rows[k], key) IN
    /\ put[x].pc = "merge"
    /\ \/ found /\ rows' = merged /\ Done(x) /\ UNCHANGED faults
       \/ /\ \/ ~found /\ UNCHANGED <<rows, faults>>
             \/ Fails("db") /\ rows' \in {rows, merged}
          /\ put' = [put EXCEPT ![x].pc = "count"]
          /\ UNCHANGED worker
    /\ UNCHANGED <<memory, dropped, Rest>>

(* The queue is full: 503, for the upload and for the worker.  An error    *)
(* counts as room.                                                         *)
CountPending(x) ==
    /\ put[x].pc = "count"
    /\ \/ /\ Len(rows) >= MaxPending
          /\ Done(x) /\ Lose({put[x].job})
          /\ UNCHANGED faults
       \/ /\ \/ Len(rows) < MaxPending /\ UNCHANGED faults
             \/ Fails("db")
          /\ put' = [put EXCEPT ![x].pc = "insert"]
          /\ UNCHANGED <<worker, dropped>>
    /\ UNCHANGED <<rows, memory, Rest>>

(* INSERT ... ON CONFLICT (object_key) DO NOTHING.                         *)
InsertRow(job) ==
    rows' = IF \E k \in DOMAIN rows : Head(rows[k]) = Head(job) THEN rows
            ELSE Append(rows, job)

(* An error, which may come after the server did insert the row, sends the *)
(* job to the list in memory.                                              *)
InsertJob(x) ==
    /\ put[x].pc = "insert"
    /\ \/ InsertRow(put[x].job) /\ Done(x) /\ UNCHANGED faults
       \/ /\ Fails("db")
          /\ InsertRow(put[x].job) \/ UNCHANGED rows
          /\ put' = [put EXCEPT ![x].pc = "memory"]
          /\ UNCHANGED worker
    /\ UNCHANGED <<memory, dropped, Rest>>

(* The list in memory merges the whole job, and has the same limit.        *)
Remember(x) ==
    LET job == put[x].job
        Same(k) == Stack(job) /\ Of(memory[k]) = Of(job) IN
    /\ put[x].pc = "memory"
    /\ Done(x)
    /\ IF \E k \in DOMAIN memory : Same(k)
       THEN LET k == CHOOSE k \in DOMAIN memory :
                        Same(k) /\ \A j \in 1..(k - 1) : ~Same(j) IN
            /\ memory' = [memory EXCEPT ![k] = @ \o
                   Pick(job, {i \in DOMAIN job : job[i] \notin ToSet(memory[k])})]
            /\ UNCHANGED dropped
       ELSE IF Len(memory) >= MaxPending
            THEN Lose({job}) /\ UNCHANGED memory
            ELSE memory' = Append(memory, job) /\ UNCHANGED dropped
    /\ UNCHANGED <<rows, faults, Rest>>
-----------------------------------------------------------------------------
(* The worker.                                                             *)

\* Mutant: product_mode is left out of the WHERE clause.
ReadyAlways(job) == Len(job) >= 2

(* A stack waits for its second frame.                                     *)
Ready(job) == Stack(job) => Len(job) >= 2

(* handleWorkerPending: rows are marked done as they are handed out.  When *)
(* the transaction fails only the list in memory is handed out; when it    *)
(* fails at its commit, or the response is lost, so are the jobs.          *)
TakeJobs ==
    LET able == {k \in DOMAIN rows : Ready(rows[k])}
        ready == Pick(rows, able)
        left == Pick(rows, DOMAIN rows \ able) IN
    /\ taken = << >> /\ ready \o memory # << >>
    /\ \/ /\ taken' = ready \o memory
          /\ rows' = left /\ memory' = << >>
          /\ UNCHANGED <<dropped, faults>>
       \/ /\ Fails("db")
          /\ taken' = memory /\ memory' = << >>
          /\ \/ UNCHANGED <<rows, dropped>>
             \/ rows' = left /\ Lose(ToSet(ready))
       \/ /\ Fails("poll")
          /\ rows' = left /\ memory' = << >>
          /\ Lose(ToSet(ready \o memory))
          /\ UNCHANGED taken
    /\ UNCHANGED <<setting, uploaded, put, worker, ingest, stacks, credits>>

(* run_once gives a job to a thread.                                       *)
StartJob(w) ==
    /\ worker[w].pc = "idle" /\ taken # << >>
    /\ worker' = [worker EXCEPT ![w] =
                    [pc |-> "grade", job |-> Head(taken), i |-> 1]]
    /\ taken' = Tail(taken)
    /\ UNCHANGED <<setting, uploaded, queue, ingest, stacks, credits, dropped,
                   faults>>

\* Mutant: a job that fails is logged and forgotten.
ForgetJob(w) == /\ worker' = [worker EXCEPT ![w] = NoJob]
                /\ UNCHANGED <<put, dropped>>

(* requeue_failed_job: the whole job is posted to the queue again.         *)
Requeue(w) ==
    /\ worker' = [worker EXCEPT ![w].pc = "requeue"]
    /\ Enqueue(w, worker[w].job)
    /\ UNCHANGED dropped

(* That call may fail as well, which is only logged.  It follows another   *)
(* failure, and is not counted as one of its own.                          *)
RequeueFails(w) ==
    /\ put[w].pc \in {"merge", "count"} /\ "requeue" \in Faults
    /\ Done(w) /\ Lose({put[w].job})
    /\ UNCHANGED <<rows, memory, faults, Rest>>

(* The frame is pulled, normalized and graded, and its grade posted; any   *)
(* of these may fail.                                                      *)
Grade(w) ==
    /\ worker[w].pc = "grade" /\ api[w].pc = "idle"
    /\ \/ /\ worker' = [worker EXCEPT ![w].pc = "wait"]
          /\ api' = [api EXCEPT ![w] =
                       [pc |-> "check", frame |-> worker[w].job[worker[w].i],
                        saw |-> 0]]
          /\ UNCHANGED <<put, dropped, faults>>
       \/ Fails("grade") /\ Requeue(w) /\ UNCHANGED api
    /\ UNCHANGED <<setting, uploaded, rows, memory, taken, graded, earned,
                   completed, campaign, inbox, stacks, credits>>

(* The grade was accepted, or the worker does not hear that it was not: on *)
(* to the next frame, to the stack, or to the next job.                    *)
NextFrame(w) ==
    LET me == worker[w]
        job == me.job IN
    worker' = [worker EXCEPT ![w] =
                 IF me.i < Len(job) THEN [pc |-> "grade", job |-> job, i |-> me.i + 1]
                 ELSE IF Stack(job) /\ Len(job) >= 2
                 THEN [me EXCEPT !.pc = "product"] ELSE NoJob]

(* An answer other than 201, or none: an error to a worker that ingests    *)
(* itself; compute only logs it, and answers with the grade.               *)
Refused(w) ==
    IF grading = "worker" THEN Requeue(w)
    ELSE /\ NextFrame(w)
         /\ dropped' = dropped \cup ({worker[w].job[worker[w].i]} \ graded)
         /\ UNCHANGED put

(* No answer in ten seconds, or the apiserver is gone.                     *)
GiveUpWaiting(w) ==
    /\ worker[w].pc = "wait"
    /\ Fails("late") \/ (api[w].pc = "idle" /\ UNCHANGED faults)
    /\ Refused(w)
    /\ UNCHANGED <<setting, uploaded, rows, memory, taken, ingest, stacks,
                   credits>>

(* publish_stack_product and handleWorkerStackProduct: the stack's object  *)
(* key is the task's, and is delivered unless it has been.                 *)
CheckProduct(w) ==
    /\ worker[w].pc = "product"
    /\ \/ /\ worker' = [worker EXCEPT ![w] =
                          IF stacks[Of(@.job)] = 0
                          THEN [@ EXCEPT !.pc = "publish"] ELSE NoJob]
          /\ UNCHANGED <<put, dropped, faults>>
       \/ Fails("product") /\ Requeue(w)
    /\ UNCHANGED <<setting, uploaded, rows, memory, taken, ingest, stacks,
                   credits>>

DeliverProduct(w) ==
    /\ worker[w].pc = "publish"
    /\ \/ /\ stacks' = [stacks EXCEPT ![Of(worker[w].job)] = @ + 1]
          /\ worker' = [worker EXCEPT ![w] = NoJob]
          /\ UNCHANGED <<put, dropped, faults>>
       \/ Fails("product") /\ Requeue(w) /\ UNCHANGED stacks
    /\ UNCHANGED <<setting, uploaded, rows, memory, taken, ingest, credits>>

(* A worker dies with its job, and perhaps with those it had still to      *)
(* start.  A call it had begun goes on.                                    *)
WorkerDies(w) ==
    /\ worker[w].pc \notin {"idle", "requeue"} /\ Fails("crash")
    /\ worker' = [worker EXCEPT ![w] = NoJob]
    /\ \/ Lose({worker[w].job}) /\ UNCHANGED taken
       \/ Lose({worker[w].job} \cup ToSet(taken)) /\ taken' = << >>
    /\ UNCHANGED <<setting, uploaded, queue, ingest, stacks, credits>>
-----------------------------------------------------------------------------
(* ingestGradePayload.                                                     *)

(* The next statement, or the end of the request.                          *)
Step(w, place) == api' = [api EXCEPT ![w].pc = place]
End(w) == api' = [api EXCEPT ![w] = NoCall(AnyFrame)]

(* The answer reaches the worker, if it still waits.                       *)
Answer(w, ok) ==
    /\ End(w)
    /\ IF worker[w].pc # "wait" THEN UNCHANGED <<worker, put, dropped>>
       ELSE IF ok THEN NextFrame(w) /\ UNCHANGED <<put, dropped>>
       ELSE Refused(w)

Outside == <<setting, uploaded, rows, memory, taken, stacks>>
Silent == <<worker, put, dropped>>

(* The duplicate check, and then the lookup of the telescope and the check *)
(* of the object keys against the jobs and uploads on record (400, 404),   *)
(* which may find otherwise the next time.                                 *)
CheckDuplicate(w) ==
    LET f == api[w].frame IN
    /\ api[w].pc = "check"
    /\ \/ f \in graded \cup Refusable /\ Answer(w, FALSE)
       \/ f \notin graded /\ Step(w, "insert") /\ UNCHANGED Silent
    /\ UNCHANGED <<Outside, graded, earned, completed, campaign, inbox, credits,
                   faults>>

\* Mutant: the idempotency key is not unique in the table.
InsertGradeAgain(w) ==
    /\ api[w].pc = "insert"
    /\ graded' = graded \cup {api[w].frame}
    /\ Step(w, IF Worth[api[w].frame] > 0 THEN "debit" ELSE "deliver")
    /\ UNCHANGED Silent
    /\ UNCHANGED <<Outside, earned, completed, campaign, inbox, credits, faults>>

(* The INSERT, whose idempotency key is UNIQUE.                            *)
InsertGrade(w) ==
    /\ api[w].pc = "insert"
    /\ IF api[w].frame \in graded THEN Answer(w, FALSE) /\ UNCHANGED graded
       ELSE /\ graded' = graded \cup {api[w].frame}
            /\ Step(w, IF Worth[api[w].frame] > 0 THEN "debit" ELSE "deliver")
            /\ UNCHANGED Silent
    /\ UNCHANGED <<Outside, earned, completed, campaign, inbox, credits, faults>>

(* applyTaskBudgetDebit reads what the task has earned ...                 *)
ReadEarned(w) ==
    /\ api[w].pc = "debit"
    /\ api' = [api EXCEPT ![w].pc = "credit",
                          ![w].saw = earned[TaskOf[api[w].frame]]]
    /\ UNCHANGED <<Outside, Silent, graded, earned, completed, campaign, inbox,
                   credits, faults>>

\* Mutant: the comparison counts the frame a second time.
CreditEarly(w) ==
    LET f == api[w].frame
        t == TaskOf[f]
        sum == api[w].saw + Worth[f] IN
    /\ api[w].pc = "credit"
    /\ earned' = [earned EXCEPT ![t] = sum]
    /\ credits' = [credits EXCEPT ![f] = @ + 1]
    /\ Step(w, IF Budget[t] > 0 /\ sum + Worth[f] >= Budget[t]
               THEN "complete" ELSE "deliver")
    /\ UNCHANGED <<Outside, Silent, graded, completed, campaign, inbox, faults>>

(* ... and writes the sum back.                                            *)
Credit(w) ==
    LET f == api[w].frame
        t == TaskOf[f]
        sum == api[w].saw + Worth[f] IN
    /\ api[w].pc = "credit"
    /\ earned' = [earned EXCEPT ![t] = sum]
    /\ credits' = [credits EXCEPT ![f] = @ + 1]
    /\ Step(w, IF Budget[t] > 0 /\ sum >= Budget[t] THEN "complete" ELSE "deliver")
    /\ UNCHANGED <<Outside, Silent, graded, completed, campaign, inbox, faults>>

(* The budget is filled: the task is completed, unless it already was.     *)
CompleteTask(w) ==
    LET t == TaskOf[api[w].frame] IN
    /\ api[w].pc = "complete"
    /\ completed' = completed \cup {t}
    /\ Step(w, IF t \in completed THEN "deliver" ELSE "remaining")
    /\ UNCHANGED <<Outside, Silent, graded, earned, campaign, inbox, credits,
                   faults>>

(* maybeCompleteCampaign counts the campaign's tasks that remain ...       *)
CountRemaining(w) ==
    /\ api[w].pc = "remaining"
    /\ Step(w, IF completed = Tasks THEN "close" ELSE "deliver")
    /\ UNCHANGED <<Outside, Silent, graded, earned, completed, campaign, inbox,
                   credits, faults>>

(* ... and completes it.                                                   *)
CloseCampaign(w) ==
    /\ api[w].pc = "close"
    /\ campaign' = "completed"
    /\ Step(w, "deliver")
    /\ UNCHANGED <<Outside, Silent, graded, earned, completed, inbox, credits,
                   faults>>

(* createInboxDeliveryFromGrade, of which an error is ignored ...          *)
Deliver(w) ==
    /\ api[w].pc = "deliver"
    /\ \/ /\ inbox' = [inbox EXCEPT ![api[w].frame] = @ + 1]
          /\ UNCHANGED faults
       \/ Fails("db") /\ UNCHANGED inbox
    /\ Step(w, "reputation")
    /\ UNCHANGED <<Outside, Silent, graded, earned, completed, campaign, credits>>

(* ... and the UPDATE of the telescope's reputation, the catalog and 201.  *)
Accept(w) ==
    /\ api[w].pc = "reputation"
    /\ Answer(w, TRUE)
    /\ UNCHANGED <<Outside, graded, earned, completed, campaign, inbox, credits,
                   faults>>

(* A statement fails: 500, except that completing the campaign is         *)
(* optional.  An UPDATE of the task may have been applied.                 *)
IngestFails(w) ==
    LET f == api[w].frame
        t == TaskOf[f] IN
    /\ api[w].pc \notin {"idle", "deliver"} /\ Fails("db")
    /\ IF api[w].pc \in {"remaining", "close"}
       THEN Step(w, "deliver") /\ UNCHANGED Silent
       ELSE Answer(w, FALSE)
    /\ \/ UNCHANGED <<earned, credits, completed>>
       \/ /\ api[w].pc = "credit"
          /\ earned' = [earned EXCEPT ![t] = api[w].saw + Worth[f]]
          /\ credits' = [credits EXCEPT ![f] = @ + 1]
          /\ UNCHANGED completed
       \/ /\ api[w].pc = "complete"
          /\ completed' = completed \cup {t}
          /\ UNCHANGED <<earned, credits>>
    /\ UNCHANGED <<Outside, graded, campaign, inbox>>

(* The worker has gone away, which ends the request's context: from some   *)
(* statement on, all of them fail.                                         *)
IngestStops(w) ==
    /\ api[w].pc # "idle" /\ worker[w].pc # "wait"
    /\ End(w)
    /\ UNCHANGED <<Outside, Silent, graded, earned, completed, campaign, inbox,
                   credits, faults>>

(* The apiserver dies, with what it holds in memory and its requests.      *)
Restart ==
    LET lost == {x \in DOMAIN put : put[x].pc # "idle"} IN
    /\ Fails("restart")
    /\ memory' = << >>
    /\ Lose(ToSet(memory) \cup {put[x].job : x \in lost})
    /\ put' = [x \in DOMAIN put |-> Free]
    /\ api' = [w \in Workers |-> NoCall(AnyFrame)]
    /\ worker' = [w \in Workers |-> IF w \in lost THEN NoJob ELSE worker[w]]
    /\ UNCHANGED <<setting, uploaded, rows, taken, graded, earned, completed,
                   campaign, inbox, stacks, credits>>
-----------------------------------------------------------------------------
Put(x) == MergeStack(x) \/ CountPending(x) \/ InsertJob(x) \/ Remember(x)
Ingest(w) == \/ CheckDuplicate(w) \/ InsertGrade(w) \/ ReadEarned(w)
             \/ Credit(w) \/ CompleteTask(w) \/ CountRemaining(w)
             \/ CloseCampaign(w) \/ Deliver(w) \/ Accept(w)
             \/ IngestFails(w) \/ IngestStops(w)
Work(w) == \/ StartJob(w) \/ Grade(w) \/ GiveUpWaiting(w) \/ CheckProduct(w)
           \/ DeliverProduct(w) \/ RequeueFails(w) \/ WorkerDies(w)

Next == \/ \E f \in Frames : CompleteUpload(f)
        \/ \E x \in Frames \cup Workers : Put(x)
        \/ TakeJobs
        \/ \E w \in Workers : Work(w) \/ Ingest(w)
        \/ Restart

Spec == Init /\ [][Next]_vars

(* The worker polls for ever, its threads and the handlers go on, and only *)
(* so many calls fail.  Nobody has to upload a frame.                      *)
Fairness == /\ WF_vars(TakeJobs)
            /\ \A x \in Frames \cup Workers : WF_vars(Put(x))
            /\ \A w \in Workers : WF_vars(Work(w)) /\ WF_vars(Ingest(w))

FairSpec == Spec /\ Fairness
-----------------------------------------------------------------------------
(* Properties.                                                             *)

Worths(S) == MapThenSumSet(LAMBDA f : Worth[f], S)
GradesOf(t) == {f \in graded : TaskOf[f] = t}

(* However often a grade is posted (by a retried job, a job that is in the *)
(* table and in memory, a request the worker gave up), the frame is        *)
(* credited and delivered once at most.                                    *)
CreditedOnce == \A f \in Frames : credits[f] <= 1 /\ inbox[f] <= 1

(* A budget is never filled by more than was graded, and a task is only    *)
(* completed when what was graded fills it.                                *)
CompletionIsEarned ==
    \A t \in Tasks : /\ earned[t] <= Worths(GradesOf(t))
                     /\ t \in completed => Worths(GradesOf(t)) >= Budget[t]

(* Where a frame is, that is uploaded and not yet graded.                  *)
Carried(f) ==
    \/ \E k \in DOMAIN rows : f \in ToSet(rows[k])
    \/ \E k \in DOMAIN memory : f \in ToSet(memory[k])
    \/ \E k \in DOMAIN taken : f \in ToSet(taken[k])
    \/ \E x \in DOMAIN put : f \in ToSet(put[x].job)
    \/ \E w \in Workers : f \in ToSet(worker[w].job)

Kept(f) == f \in uploaded => f \in graded \/ f \in dropped \/ Carried(f)

(* A frame whose product is the frame itself is not forgotten between the  *)
(* table, the memory and the workers: one of the named failures loses it   *)
(* (a full queue, a lost answer, a crash), or it is somewhere.             *)
FramesAreKept == \A f \in Frames : TaskOf[f] \notin stacked => Kept(f)

(* And in the end it is graded, or lost by such a failure.  A grade that   *)
(* the ingest refuses as not about a frame on record is given up when      *)
(* compute posts it, and named as lost; a worker that posts it itself puts *)
(* the frame back in the queue, as often as it is refused.                 *)
FramesAreGraded ==
    \A f \in Frames :
        /\ f \in uploaded /\ TaskOf[f] \notin stacked
        /\ f \in Refusable => grading = "compute"
        ~> f \in graded \/ f \in dropped

=============================================================================
