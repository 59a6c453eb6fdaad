--------------------------- MODULE EvaluationJobs ---------------------------
(***************************************************************************)
(* AI evaluation jobs: the table evaluation_jobs, the BullMQ queue in      *)
(* Redis, the handlers and the 30-second reconciliation of                 *)
(* evaluations.service.ts, and the worker of evaluation.processor.ts.      *)
(*                                                                         *)
(* The table and the queue are two stores that no transaction spans: every *)
(* handler is split between its calls to one and its calls to the other,   *)
(* and between the statements of a TypeORM save().                         *)
(***************************************************************************)
EXTENDS Naturals, FiniteSets

CONSTANTS
  Works,          \* (team, stage) pairs eligible for AI evaluation
  Jobs,           \* bound: ids available for rows of evaluation_jobs
  Requests,       \* bound: HTTP requests in flight at once
  Reconciler,     \* the @Interval(30000) callback
  Workers,        \* bound: jobs the BullMQ workers run at once
  MaxAttempts,    \* attempts of DEFAULT_JOB_OPTIONS, evaluation_jobs.max_attempts
  MaxStalled,     \* BullMQ's maxStalledCount
  Null            \* SQL NULL

Procs == Requests \cup {Reconciler}

ASSUME AttemptsAssumption == MaxAttempts \in Nat \ {0} /\ MaxStalled \in Nat
ASSUME NullAssumption == Null \notin Jobs /\ Null \notin Works
ASSUME ReconcilerAssumption == Reconciler \notin Requests

VARIABLES
  row,            \* evaluation_jobs
  queue,          \* BullMQ: state of the job id, attempts made, stalls
  produced,       \* jobs whose result was saved
  req,            \* what each handler holds between two steps
  worker          \* what each worker is doing

vars == <<row, queue, produced, req, worker>>

-----------------------------------------------------------------------------
EvaluationJobStatus == {"pending", "processing", "completed", "failed", "cancelled"}
ActiveStatus == {"pending", "processing"}

EvaluationJob == [work : Works \cup {Null},
                  status : EvaluationJobStatus \cup {"absent"},
                  attempts : 0 .. MaxAttempts]
NoJob == [work |-> Null, status |-> "absent", attempts |-> 0]

QueueState == {"none", "waiting", "delayed", "active", "completed", "failed"}
BullJob == [state : QueueState, attemptsMade : 0 .. MaxAttempts,
            stalled : 0 .. MaxStalled]
NoBullJob == [state |-> "none", attemptsMade |-> 0, stalled |-> 0]
NewBullJob == [NoBullJob EXCEPT !.state = "waiting"]
\* What a retained entry still counts matters to nobody.
Ended(state) == [NoBullJob EXCEPT !.state = state]

Request == [op : {"idle", "trigger", "retry", "reconcile", "cancel", "clear"},
            step : {"begin", "insert", "save", "remove", "enqueue",
                    "saveEnqueue", "add", "select"},
            work : Works \cup {Null}, job : Jobs \cup {Null},
            ent : EvaluationJob, base : EvaluationJob]
Worker == [step : {"free", "read", "start", "evaluating", "commit",
                   "committing", "return", "rethrow"},
           job : Jobs \cup {Null}]

Idle == [op |-> "idle", step |-> "begin", work |-> Null, job |-> Null,
         ent |-> NoJob, base |-> NoJob]
Free == [step |-> "free", job |-> Null]

Set(p, rec) == req' = [req EXCEPT ![p] = rec]
Done(p) == Set(p, Idle)
At(p, ops, step) == req[p].op \in ops /\ req[p].step = step

\* TypeORM's save(): the columns in which the entity differs from what its
\* SELECT returned.
Save(now, ent, base) ==
  [now EXCEPT !.status = IF ent.status # base.status THEN ent.status ELSE @,
              !.attempts = IF ent.attempts # base.attempts THEN ent.attempts ELSE @]

\* Unique index evaluation_one_active_job.
JobAcceptedUnlessPending(rows, j) ==   \* mutant: only pending rows are indexed
  rows[j].status = "pending" =>
    \A i \in Jobs \ {j} : rows[i].status = "pending" => rows[i].work # rows[j].work
JobAccepted(rows, j) ==
  rows[j].status \in ActiveStatus =>
    \A i \in Jobs \ {j} :
      rows[i].status \in ActiveStatus => rows[i].work # rows[j].work

\* @Transactional("evaluation-result") waits for the advisory lock of the job.
ResultLockOfCancel(j) ==        \* mutant: the worker commits without the lock
  \A p \in Procs : ~ (req[p].op = "cancel" /\ req[p].job = j)
ResultLockFree(j) ==
  /\ \A p \in Procs : ~ (req[p].op = "cancel" /\ req[p].job = j)
  /\ \A w \in Workers : ~ (worker[w].step = "committing" /\ worker[w].job = j)

Init ==
  /\ row = [j \in Jobs |-> NoJob]
  /\ queue = [j \in Jobs |-> NoBullJob]
  /\ produced = {}
  /\ req = [p \in Procs |-> Idle]
  /\ worker = [w \in Workers |-> Free]

-----------------------------------------------------------------------------
(* triggerSingleEvaluation.                                                *)

BeginTrigger(p, work) ==
  /\ req[p] = Idle
  /\ \A j \in Jobs : ~ (row[j].work = work /\ row[j].status \in ActiveStatus)
  /\ Set(p, [Idle EXCEPT !.op = "trigger", !.step = "insert", !.work = work])
  /\ UNCHANGED <<row, queue, produced, worker>>

InsertJob(p) ==
  /\ At(p, {"trigger"}, "insert")
  /\ \E j \in Jobs :
       LET new == [work |-> req[p].work, status |-> "pending", attempts |-> 0]
           rows == [row EXCEPT ![j] = new]
       IN  /\ row[j].status = "absent"
           /\ IF JobAccepted(rows, j)
              THEN /\ row' = rows
                   /\ Set(p, [Idle EXCEPT !.op = "trigger", !.step = "enqueue",
                                          !.job = j, !.ent = new])
              ELSE Done(p) /\ UNCHANGED row
  /\ UNCHANGED <<queue, produced, worker>>

-----------------------------------------------------------------------------
(* retryFailedJob: canRetry(), save the row as pending, remove the old     *)
(* queue entry, enqueue.                                                   *)

CanRetry(job) == job.status = "failed" /\ job.attempts < MaxAttempts

BeginRetry(p, j) ==
  /\ req[p] = Idle
  /\ CanRetry(row[j])
  /\ Set(p, [Idle EXCEPT !.op = "retry", !.job = j,
                         !.ent = [row[j] EXCEPT !.status = "pending"]])
  /\ UNCHANGED <<row, queue, produced, worker>>

SelectRetry(p) ==
  /\ At(p, {"retry"}, "begin")
  /\ Set(p, [req[p] EXCEPT !.step = "save", !.base = row[req[p].job]])
  /\ UNCHANGED <<row, queue, produced, worker>>

SaveRetry(p) ==
  /\ At(p, {"retry"}, "save")
  /\ LET j == req[p].job
         rows == [row EXCEPT ![j] = Save(row[j], req[p].ent, req[p].base)]
     IN  IF JobAccepted(rows, j)
         THEN row' = rows /\ Set(p, [req[p] EXCEPT !.step = "remove",
                                                   !.base = NoJob])
         ELSE Done(p) /\ UNCHANGED row
  /\ UNCHANGED <<queue, produced, worker>>

\* mutant: an entry is removed under the worker's hands.
RemoveAny(p) ==
  /\ At(p, {"retry"}, "remove")
  /\ queue' = [queue EXCEPT ![req[p].job] = NoBullJob]
  /\ Set(p, [req[p] EXCEPT !.step = "enqueue"])
  /\ UNCHANGED <<row, produced, worker>>

\* job.remove() throws while a worker holds the entry.
RemoveQueued(p) ==
  /\ At(p, {"retry"}, "remove")
  /\ LET j == req[p].job
     IN  IF queue[j].state = "active"
         THEN Done(p) /\ UNCHANGED queue
         ELSE /\ queue' = [queue EXCEPT ![j] = NoBullJob]
              /\ Set(p, [req[p] EXCEPT !.step = "enqueue"])
  /\ UNCHANGED <<row, produced, worker>>

-----------------------------------------------------------------------------
(* reconcilePendingJobs reads pending rows and enqueues those BullMQ does  *)
(* not know; the records of one pass are worked off one by one.            *)

BeginReconcile(j) ==
  /\ req[Reconciler] = Idle
  /\ row[j].status = "pending"
  /\ Set(Reconciler, [Idle EXCEPT !.op = "reconcile", !.job = j, !.ent = row[j]])
  /\ UNCHANGED <<row, queue, produced, worker>>

\* mutant: rows BullMQ knows are enqueued, the others are skipped.
LookUpKnown(p) ==
  /\ At(p, {"reconcile"}, "begin")
  /\ IF queue[req[p].job].state # "none"
     THEN Set(p, [req[p] EXCEPT !.step = "enqueue"])
     ELSE Done(p)
  /\ UNCHANGED <<row, queue, produced, worker>>

LookUp(p) ==
  /\ At(p, {"reconcile"}, "begin")
  /\ IF queue[req[p].job].state = "none"
     THEN Set(p, [req[p] EXCEPT !.step = "enqueue"])
     ELSE Done(p)
  /\ UNCHANGED <<row, queue, produced, worker>>

-----------------------------------------------------------------------------
(* enqueue: save the record, then add it to the queue under its own id.    *)

Enqueuers == {"trigger", "retry", "reconcile"}

SelectEnqueue(p) ==
  /\ At(p, Enqueuers, "enqueue")
  /\ Set(p, [req[p] EXCEPT !.step = "saveEnqueue", !.base = row[req[p].job]])
  /\ UNCHANGED <<row, queue, produced, worker>>

SaveEnqueue(p) ==
  /\ At(p, Enqueuers, "saveEnqueue")
  /\ LET j == req[p].job
         rows == [row EXCEPT ![j] = Save(row[j], req[p].ent, req[p].base)]
     IN  IF JobAccepted(rows, j)
         THEN row' = rows /\ Set(p, [Idle EXCEPT !.op = req[p].op,
                                                 !.step = "add", !.job = j])
         ELSE Done(p) /\ UNCHANGED row
  /\ UNCHANGED <<queue, produced, worker>>

\* add() with the id of an entry BullMQ still keeps adds nothing.
Add(p) ==
  /\ At(p, Enqueuers, "add")
  /\ LET j == req[p].job
     IN  queue' = IF queue[j].state = "none"
                  THEN [queue EXCEPT ![j] = NewBullJob] ELSE queue
  /\ Done(p)
  /\ UNCHANGED <<row, produced, worker>>

\* Redis refuses the add: the row is marked failed.
AddFails(p) ==
  /\ At(p, Enqueuers, "add")
  /\ row' = [row EXCEPT ![req[p].job].status = "failed"]
  /\ Done(p)
  /\ UNCHANGED <<queue, produced, worker>>

-----------------------------------------------------------------------------
(* cancelJob, a transaction under the job's lock, and clearQueue.          *)

BeginCancel(p, j) ==
  /\ req[p] = Idle
  /\ ResultLockFree(j)
  /\ row[j].status \notin {"absent", "completed"}
  /\ Set(p, [Idle EXCEPT !.op = "cancel", !.job = j,
                         !.ent = [row[j] EXCEPT !.status = "cancelled"]])
  /\ UNCHANGED <<row, queue, produced, worker>>

\* A running entry cannot be removed, and the error is swallowed.
RemoveCancelled(p) ==
  /\ At(p, {"cancel"}, "begin")
  /\ LET j == req[p].job
     IN  queue' = IF queue[j].state = "active" THEN queue
                  ELSE [queue EXCEPT ![j] = NoBullJob]
  /\ Set(p, [req[p] EXCEPT !.step = "select"])
  /\ UNCHANGED <<row, produced, worker>>

SelectCancel(p) ==
  /\ At(p, {"cancel"}, "select")
  /\ Set(p, [req[p] EXCEPT !.step = "save", !.base = row[req[p].job]])
  /\ UNCHANGED <<row, queue, produced, worker>>

CommitCancel(p) ==
  /\ At(p, {"cancel"}, "save")
  /\ LET j == req[p].job
     IN  row' = [row EXCEPT ![j] = Save(row[j], req[p].ent, req[p].base)]
  /\ Done(p)
  /\ UNCHANGED <<queue, produced, worker>>

\* drain(true) drops the waiting and the delayed entries ...
Drain(p) ==
  /\ req[p] = Idle
  /\ queue' = [j \in Jobs |-> IF queue[j].state \in {"waiting", "delayed"}
                              THEN NoBullJob ELSE queue[j]]
  /\ Set(p, [Idle EXCEPT !.op = "clear"])
  /\ UNCHANGED <<row, produced, worker>>

\* ... and one UPDATE cancels what is pending by then.
CancelPending(p) ==
  /\ At(p, {"clear"}, "begin")
  /\ row' = [j \in Jobs |-> IF row[j].status = "pending"
                            THEN [row[j] EXCEPT !.status = "cancelled"]
                            ELSE row[j]]
  /\ Done(p)
  /\ UNCHANGED <<queue, produced, worker>>

\* A statement fails or the process dies between two steps.  BullMQ and the
\* interval come back, a request does not.
Fail(p) ==
  /\ req[p] # Idle
  /\ Done(p)
  /\ UNCHANGED <<row, queue, produced, worker>>

-----------------------------------------------------------------------------
(* The worker.  Every path ends in BullMQ's own bookkeeping.               *)

Step(w, step) == worker' = [worker EXCEPT ![w].step = step]
WorkerAt(w, step) == worker[w].step = step

\* updateJobStatus and its WHERE status <> 'cancelled'.
UpdateJobStatus(j, status, attempts) ==
  IF row[j].status = "cancelled" THEN row
  ELSE [row EXCEPT ![j].status = status, ![j].attempts = attempts]

Take(w, j) ==
  /\ worker[w] = Free
  /\ queue[j].state = "waiting"
  /\ queue' = [queue EXCEPT ![j].state = "active"]
  /\ worker' = [worker EXCEPT ![w] = [step |-> "read", job |-> j]]
  /\ UNCHANGED <<row, produced, req>>

ReadState(w) ==
  /\ WorkerAt(w, "read")
  /\ IF row[worker[w].job].status = "cancelled"
     THEN Step(w, "return") ELSE Step(w, "start")
  /\ UNCHANGED <<row, queue, produced, req>>

\* The UPDATE to processing meets the unique index like any other.
Start(w) ==
  /\ WorkerAt(w, "start")
  /\ LET j == worker[w].job
         rows == UpdateJobStatus(j, "processing", row[j].attempts)
     IN  JobAccepted(rows, j) /\ row' = rows
  /\ Step(w, "evaluating")
  /\ UNCHANGED <<queue, produced, req>>

\* GitHub, documents and Gemini took their time; the state is read again.
Evaluated(w) ==
  /\ WorkerAt(w, "evaluating")
  /\ IF row[worker[w].job].status = "cancelled"
     THEN Step(w, "return") ELSE Step(w, "commit")
  /\ UNCHANGED <<row, queue, produced, req>>

\* commitResults takes the job's lock and reads the state once more.
BeginCommit(w) ==
  /\ WorkerAt(w, "commit")
  /\ ResultLockFree(worker[w].job)
  /\ IF row[worker[w].job].status = "cancelled"
     THEN Step(w, "return") ELSE Step(w, "committing")
  /\ UNCHANGED <<row, queue, produced, req>>

\* Evaluation, submission and job row are committed together.
CommitResults(w) ==
  /\ WorkerAt(w, "committing")
  /\ LET j == worker[w].job
     IN  /\ produced' = produced \cup {j}
         /\ row' = UpdateJobStatus(j, "completed", row[j].attempts)
  /\ Step(w, "return")
  /\ UNCHANGED <<queue, req>>

\* process() throws at any of its steps; its catch writes the row, unless the
\* index refuses that too.
Throw(w) ==
  /\ worker[w].step \in {"read", "start", "evaluating", "commit", "committing"}
  /\ LET j == worker[w].job
         made == queue[j].attemptsMade + 1
         rows == UpdateJobStatus(j, IF made < MaxAttempts THEN "pending"
                                    ELSE "failed", made)
     IN  row' = IF JobAccepted(rows, j) THEN rows ELSE row
  /\ Step(w, "rethrow")
  /\ UNCHANGED <<queue, produced, req>>

\* mutant: a worker that returned, done or not, marks the row completed.
FinishCompletes(w) ==
  /\ WorkerAt(w, "return")
  /\ row' = UpdateJobStatus(worker[w].job, "completed", row[worker[w].job].attempts)
  /\ queue' = [queue EXCEPT ![worker[w].job] = Ended("completed")]
  /\ worker' = [worker EXCEPT ![w] = Free]
  /\ UNCHANGED <<produced, req>>

\* process() returned: the entry is completed and kept.
Finish(w) ==
  /\ WorkerAt(w, "return")
  /\ queue' = [queue EXCEPT ![worker[w].job] = Ended("completed")]
  /\ worker' = [worker EXCEPT ![w] = Free]
  /\ UNCHANGED <<row, produced, req>>

\* mutant: attempts are never exhausted.
RethrowAlways(w) ==
  /\ WorkerAt(w, "rethrow")
  /\ LET j == worker[w].job
     IN  queue' = [queue EXCEPT ![j].attemptsMade = @ + 1, ![j].state = "delayed"]
  /\ worker' = [worker EXCEPT ![w] = Free]
  /\ UNCHANGED <<row, produced, req>>

\* process() threw: the entry waits for its backoff, or has failed for good.
Rethrow(w) ==
  /\ WorkerAt(w, "rethrow")
  /\ LET j == worker[w].job
         made == queue[j].attemptsMade + 1
     IN  queue' = IF made < MaxAttempts
                  THEN [queue EXCEPT ![j].attemptsMade = made, ![j].state = "delayed"]
                  ELSE [queue EXCEPT ![j] = Ended("failed")]
  /\ worker' = [worker EXCEPT ![w] = Free]
  /\ UNCHANGED <<row, produced, req>>

\* The worker's process dies.  BullMQ finds the entry stalled and hands it out
\* again ...
Crash(w) ==
  /\ worker[w] # Free
  /\ LET j == worker[w].job
     IN  /\ queue[j].stalled < MaxStalled
         /\ queue' = [queue EXCEPT ![j].stalled = @ + 1, ![j].state = "waiting"]
  /\ worker' = [worker EXCEPT ![w] = Free]
  /\ UNCHANGED <<row, produced, req>>

\* ... or fails it when that has happened too often.
Lose(w) ==
  /\ worker[w] # Free
  /\ LET j == worker[w].job
     IN  /\ queue[j].stalled = MaxStalled
         /\ queue' = [queue EXCEPT ![j] = Ended("failed")]
  /\ worker' = [worker EXCEPT ![w] = Free]
  /\ UNCHANGED <<row, produced, req>>

\* Backoff over; retention (24 hours, 7 days) over.
Promote(j) ==
  /\ queue[j].state = "delayed"
  /\ queue' = [queue EXCEPT ![j].state = "waiting"]
  /\ UNCHANGED <<row, produced, req, worker>>

Expire(j) ==
  /\ queue[j].state \in {"completed", "failed"}
  /\ queue' = [queue EXCEPT ![j] = NoBullJob]
  /\ UNCHANGED <<row, produced, req, worker>>

-----------------------------------------------------------------------------
RequestBegin(p) ==
  \/ \E work \in Works : BeginTrigger(p, work)
  \/ \E j \in Jobs : BeginRetry(p, j) \/ BeginCancel(p, j)
  \/ Drain(p)

HandlerStep(p) ==
  \/ InsertJob(p)
  \/ SelectRetry(p) \/ SaveRetry(p) \/ RemoveQueued(p)
  \/ LookUp(p)
  \/ SelectEnqueue(p) \/ SaveEnqueue(p) \/ Add(p) \/ AddFails(p)
  \/ RemoveCancelled(p) \/ SelectCancel(p) \/ CommitCancel(p)
  \/ CancelPending(p)

WorkerStep(w) ==
  \/ ReadState(w) \/ Start(w) \/ Evaluated(w) \/ BeginCommit(w)
  \/ CommitResults(w) \/ Throw(w) \/ Finish(w) \/ Rethrow(w)

Undisturbed ==
  \/ \E p \in Requests : RequestBegin(p)
  \/ \E j \in Jobs : BeginReconcile(j) \/ Promote(j) \/ Expire(j)
  \/ \E p \in Procs : HandlerStep(p) \/ Fail(p)
  \/ \E w \in Workers : (\E j \in Jobs : Take(w, j)) \/ WorkerStep(w)

Recoverable == Undisturbed \/ \E w \in Workers : Crash(w)

Next == Recoverable \/ \E w \in Workers : Lose(w)

Spec == Init /\ [][Next]_vars

-----------------------------------------------------------------------------
(* Fairness: BullMQ hands out entries, promotes and expires them; the      *)
(* interval fires again and again and comes to every pending row; a worker *)
(* and a handler go on, and locks are granted in turn.                     *)

Fairness ==
  /\ \A j \in Jobs : /\ SF_vars(\E w \in Workers : Take(w, j))
                     /\ WF_vars(Promote(j)) /\ WF_vars(Expire(j))
                     /\ SF_vars(BeginReconcile(j))
  /\ \A w \in Workers : WF_vars(WorkerStep(w)) /\ SF_vars(BeginCommit(w))
  /\ \A p \in Procs : WF_vars(HandlerStep(p))

\* From some time on no request and no pass of the interval is interrupted: it
\* stops only where its own code does.
NoMoreFailures == <>[][\A p \in Procs : Fail(p) => HandlerStep(p)]_vars

\* ... and no administrator clears the queue any more: each drain lets the job
\* start over with all its attempts.
NoMoreClearing == <>[][\A p \in Requests : ~ Drain(p)]_vars

\* No worker dies.
FairSpec == /\ Init /\ [][Undisturbed]_vars
            /\ Fairness /\ NoMoreFailures /\ NoMoreClearing

\* Workers die, but no entry of the queue so often that BullMQ gives it up.
CrashSpec == /\ Init /\ [][Recoverable]_vars
             /\ Fairness /\ NoMoreFailures /\ NoMoreClearing

-----------------------------------------------------------------------------
\* The type of every variable.
TypeOK ==
  /\ row \in [Jobs -> EvaluationJob]
  /\ queue \in [Jobs -> BullJob]
  /\ produced \subseteq Jobs
  /\ req \in [Procs -> Request]
  /\ worker \in [Workers -> Worker]

\* Although enqueue, retry and reconciliation write a status they read long
\* before, no two jobs for the same work are pending or processing.
OneActiveJob ==
  \A i, j \in Jobs :
    /\ row[i].status \in ActiveStatus /\ row[j].status \in ActiveStatus
    /\ row[i].work = row[j].work
    => i = j

\* Once a worker holds the lock under which it saves its result, cancelJob
\* waits; only clearQueue, which takes no lock, still cancels the job.
CancelWaitsForCommit ==
  [][\A w \in Workers :
       /\ WorkerAt(w, "committing")
       /\ row[worker[w].job].status # "cancelled"
       /\ row'[worker[w].job].status = "cancelled"
       => \E p \in Requests : At(p, {"clear"}, "begin")]_vars

\* As long as no worker dies, a processing row has a worker or an entry of
\* the queue that will give it one: reconciliation, which reads pending rows
\* only, need not look at it.
ProcessingIsHeld ==
  \A j \in Jobs : row[j].status = "processing" =>
    queue[j].state \in {"waiting", "delayed", "active"}

\* A completed row has its evaluation.
CompletedHasResult ==
  \A j \in Jobs : row[j].status = "completed" => j \in produced

\* Every job ends: as completed, failed or cancelled.
JobsSettle ==
  \A j \in Jobs : row[j].status \in ActiveStatus
               ~> row[j].status \notin ActiveStatus

-----------------------------------------------------------------------------
(* What the repository says of the code and the code does not do.          *)

\* cancelJob: "A running worker observes the persisted cancellation before
\* commit."  Then no result is saved for a job that is cancelled.
NoResultAfterCancel ==
  [][\A j \in produced' \ produced : row[j].status # "cancelled"]_vars

\* ADMIN_MANUAL.md: "Retry failed jobs".  A failed job can be retried.
FailedIsRetryable ==
  \A j \in Jobs : row[j].status = "failed" => CanRetry(row[j])
=============================================================================
