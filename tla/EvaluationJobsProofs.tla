------------------------ MODULE EvaluationJobsProofs ------------------------
(***************************************************************************)
(* Theorems about EvaluationJobs, for any number of rows, requests and     *)
(* workers.                                                                *)
(***************************************************************************)
EXTENDS EvaluationJobs, TLAPS

-----------------------------------------------------------------------------
(* The strengthening.  A worker that is not free has an entry of its own,  *)
(* which BullMQ calls active; a handler works on a row, and the entities   *)
(* it is going to save carry the status it set.                            *)

\* No entry still queued has used up its attempts.
AttemptsLeft == \A j \in Jobs : queue[j].attemptsMade < MaxAttempts

Busy(w) == worker[w] # Free

WorkersHoldEntries ==
  /\ \A w \in Workers : Busy(w) =>
       /\ worker[w].job \in Jobs
       /\ queue[worker[w].job].state = "active"
  /\ \A v, w \in Workers : v # w /\ Busy(v) /\ Busy(w) =>
       worker[v].job # worker[w].job

\* What the handler p may hold: the record r.
Holds(p, r) ==
  /\ r.op \in {"retry", "reconcile", "cancel"} => r.job \in Jobs
  /\ r.op = "trigger" /\ r.step # "insert" => r.job \in Jobs
  /\ r.op \in Enqueuers /\ r.step \notin {"insert", "add"}
       => r.ent.status = "pending"
  /\ r.op = "cancel" => r.ent.status = "cancelled"
  /\ r.op = "clear" => p \in Requests

HandlersHoldRows == \A p \in Procs : Holds(p, req[p])

JobsInv == TypeOK /\ AttemptsLeft /\ WorkersHoldEntries /\ HandlersHoldRows

-----------------------------------------------------------------------------
(* What a step may do to each variable.                                    *)

\* No row becomes active or changes its work.
FewerActive ==
  \A j \in Jobs : row'[j].status \in ActiveStatus =>
    row[j].status \in ActiveStatus /\ row'[j].work = row[j].work

\* One row is written, and the index accepted it.
OneWritten ==
  \E j \in Jobs : /\ \A i \in Jobs \ {j} : row'[i] = row[i]
                  /\ JobAccepted(row', j)

CompletedByResult ==
  \A j \in Jobs : row'[j].status = "completed" =>
    row[j].status = "completed" \/ j \in produced'

CancelledByHandler ==
  \A j \in Jobs : row'[j].status = "cancelled" /\ row[j].status # "cancelled" =>
    \/ \E p \in Procs : req[p].op = "cancel" /\ req[p].job = j
    \/ \E p \in Requests : At(p, {"clear"}, "begin")

RowsStep ==
  /\ row' \in [Jobs -> EvaluationJob]
  /\ FewerActive \/ OneWritten
  /\ CompletedByResult
  /\ CancelledByHandler
  /\ produced \subseteq produced' /\ produced' \subseteq Jobs

\* A handler neither touches an entry a worker holds nor makes one active.
QueueStep ==
  /\ queue' \in [Jobs -> BullJob]
  /\ \A j \in Jobs : queue'[j].attemptsMade < MaxAttempts
  /\ \A j \in Jobs : queue[j].state = "active" => queue'[j].state = "active"

\* Handler p moves on to r; a lock it comes to hold was free.
RequestStep(p) ==
  \E r \in Request :
    /\ req' = [req EXCEPT ![p] = r]
    /\ Holds(p, r)
    /\ r.op = "cancel" => \/ req[p].op = "cancel" /\ req[p].job = r.job
                          \/ ResultLockFree(r.job)

\* A row left alone is a row in order.
LEMMA RowUnchanged ==
  ASSUME TypeOK, row' = row, produced' = produced
  PROVE  RowsStep
BY DEF TypeOK, RowsStep, FewerActive, CompletedByResult, CancelledByHandler

\* So is a queue left alone.
LEMMA QueueUnchanged ==
  ASSUME JobsInv, queue' = queue
  PROVE  QueueStep
BY DEF JobsInv, TypeOK, AttemptsLeft, QueueStep

\* An idle handler holds nothing.
LEMMA IdleHolds ==
  ASSUME NEW p \in Procs
  PROVE  Idle \in Request /\ Holds(p, Idle) /\ Idle.op # "cancel"
BY AttemptsAssumption
   DEF Idle, Request, Holds, NoJob, EvaluationJob, Enqueuers

\* save() writes the entity's status or leaves the row's.
LEMMA SaveRow ==
  ASSUME NEW now \in EvaluationJob, NEW ent \in EvaluationJob, NEW base
  PROVE  /\ Save(now, ent, base) \in EvaluationJob
         /\ Save(now, ent, base).work = now.work
         /\ Save(now, ent, base).status \in {now.status, ent.status}
BY DEF Save, EvaluationJob
\* Writing one row is a step of RowsStep if the index accepted the row or it was
\* active before, and it becomes completed or cancelled only by the right step.
LEMMA RowWritten ==
  ASSUME TypeOK, NEW j \in Jobs, NEW new \in EvaluationJob,
         row' = [row EXCEPT ![j] = new],
         \/ JobAccepted(row', j)
         \/ new.status \in ActiveStatus =>
              row[j].status \in ActiveStatus /\ new.work = row[j].work,
         new.status = "completed" => row[j].status = "completed" \/ j \in produced',
         new.status = "cancelled" /\ row[j].status # "cancelled" =>
           \E p \in Procs : req[p].op = "cancel" /\ req[p].job = j,
         produced \subseteq produced', produced' \subseteq Jobs
  PROVE  RowsStep
<1>1. /\ row' \in [Jobs -> EvaluationJob]
      /\ row'[j] = new
      /\ \A i \in Jobs \ {j} : row'[i] = row[i]
  BY DEF TypeOK
<1>2. FewerActive \/ OneWritten
  BY <1>1 DEF FewerActive, OneWritten
<1>3. CompletedByResult /\ CancelledByHandler
  BY <1>1 DEF CompletedByResult, CancelledByHandler
<1> QED BY <1>1, <1>2, <1>3 DEF RowsStep

\* save() of an entity that is not completed writes its row as RowsStep allows:
\* it may cancel the row only in cancelJob, and only the index may let it make
\* the row active.
LEMMA SaveStep ==
  ASSUME TypeOK, NEW j \in Jobs, NEW ent \in EvaluationJob, NEW base,
         row' = [row EXCEPT ![j] = Save(row[j], ent, base)],
         \/ ent.status = "pending" /\ JobAccepted(row', j)
         \/ /\ ent.status = "cancelled"
            /\ \E p \in Procs : req[p].op = "cancel" /\ req[p].job = j,
         produced' = produced
  PROVE  RowsStep
<1> DEFINE new == Save(row[j], ent, base)
<1>1. row[j] \in EvaluationJob /\ produced' \subseteq Jobs
  BY DEF TypeOK
<1>2. /\ new \in EvaluationJob
      /\ new.work = row[j].work
      /\ new.status \in {row[j].status, ent.status}
  BY <1>1, SaveRow
<1> HIDE DEF new
<1>3. row' = [row EXCEPT ![j] = new]
  BY DEF new
<1>4. CASE ent.status = "pending" /\ JobAccepted(row', j)
  BY <1>1, <1>2, <1>3, <1>4, RowWritten
<1>5. CASE /\ ent.status = "cancelled"
           /\ \E p \in Procs : req[p].op = "cancel" /\ req[p].job = j
  <2>1. new.status \in ActiveStatus =>
          row[j].status \in ActiveStatus /\ new.work = row[j].work
    BY <1>2, <1>5 DEF ActiveStatus
  <2> QED BY <1>1, <1>2, <1>3, <1>5, <2>1, RowWritten
<1> QED BY <1>4, <1>5

\* Replacing the entry of a job no worker holds is a step of QueueStep.
LEMMA EntryReplaced ==
  ASSUME JobsInv, NEW j \in Jobs, NEW new \in BullJob,
         queue[j].state # "active", new.attemptsMade < MaxAttempts,
         queue' = [queue EXCEPT ![j] = new]
  PROVE  QueueStep
BY DEF JobsInv, TypeOK, AttemptsLeft, QueueStep

\* An entry that is gone, new or ended has attempts left.
LEMMA EntryTypes ==
  /\ NoBullJob \in BullJob /\ NoBullJob.attemptsMade = 0
  /\ NewBullJob \in BullJob /\ NewBullJob.attemptsMade = 0
  /\ \A state \in QueueState :
       Ended(state) \in BullJob /\ Ended(state).attemptsMade = 0
  /\ 0 < MaxAttempts
BY AttemptsAssumption
   DEF NoBullJob, NewBullJob, Ended, BullJob, QueueState

\* A handler that moves on to a record it may hold.
LEMMA MoveOn ==
  ASSUME NEW p \in Procs, NEW r \in Request, Set(p, r), Holds(p, r),
         r.op = "cancel" => \/ req[p].op = "cancel" /\ req[p].job = r.job
                            \/ ResultLockFree(r.job)
  PROVE  RequestStep(p)
BY DEF RequestStep, Set

\* A handler that is done.
LEMMA MoveOff ==
  ASSUME NEW p \in Procs, Done(p)
  PROVE  RequestStep(p)
BY IdleHolds, MoveOn DEF Done

-----------------------------------------------------------------------------
(* The handlers.                                                           *)

Moves(p) == RowsStep /\ QueueStep /\ RequestStep(p) /\ worker' = worker

\* A handler begins: what it read is what it holds.
LEMMA BeginMoves ==
  ASSUME JobsInv, NEW p \in Procs,
         \/ p \in Requests /\ RequestBegin(p)
         \/ p = Reconciler /\ \E j \in Jobs : BeginReconcile(j)
  PROVE  Moves(p)
<1>1. ASSUME NEW work \in Works, BeginTrigger(p, work) PROVE Moves(p)
  <2> DEFINE r == [Idle EXCEPT !.op = "trigger", !.step = "insert", !.work = work]
  <2>1. r \in Request /\ Holds(p, r) /\ r.op # "cancel"
    BY IdleHolds DEF Idle, Request, Holds
  <2>2. RequestStep(p)
    BY <1>1, <2>1, MoveOn DEF BeginTrigger
  <2> QED BY <1>1, <2>2, RowUnchanged, QueueUnchanged DEF BeginTrigger, Moves, JobsInv
<1>2. ASSUME NEW j \in Jobs, BeginRetry(p, j) PROVE Moves(p)
  <2> DEFINE r == [Idle EXCEPT !.op = "retry", !.job = j,
                               !.ent = [row[j] EXCEPT !.status = "pending"]]
  <2>1. row[j] \in EvaluationJob
    BY DEF JobsInv, TypeOK
  <2>2. [row[j] EXCEPT !.status = "pending"] \in EvaluationJob
    BY <2>1 DEF EvaluationJob, EvaluationJobStatus
  <2>3. [row[j] EXCEPT !.status = "pending"].status = "pending"
    BY <2>1 DEF EvaluationJob
  <2>4. r \in Request /\ Holds(p, r) /\ r.op # "cancel"
    BY <2>2, <2>3, IdleHolds DEF Idle, Request, Holds, Enqueuers
  <2>5. RequestStep(p)
    BY <1>2, <2>4, MoveOn DEF BeginRetry
  <2> QED BY <1>2, <2>5, RowUnchanged, QueueUnchanged DEF BeginRetry, Moves, JobsInv
<1>3. ASSUME NEW j \in Jobs, BeginCancel(p, j) PROVE Moves(p)
  <2> DEFINE r == [Idle EXCEPT !.op = "cancel", !.job = j,
                               !.ent = [row[j] EXCEPT !.status = "cancelled"]]
  <2>1. row[j] \in EvaluationJob
    BY DEF JobsInv, TypeOK
  <2>2. [row[j] EXCEPT !.status = "cancelled"] \in EvaluationJob
    BY <2>1 DEF EvaluationJob, EvaluationJobStatus
  <2>3. [row[j] EXCEPT !.status = "cancelled"].status = "cancelled"
    BY <2>1 DEF EvaluationJob
  <2>4. r \in Request /\ Holds(p, r) /\ r.job = j
    BY <2>2, <2>3, IdleHolds DEF Idle, Request, Holds, Enqueuers
  <2>5. RequestStep(p)
    BY <1>3, <2>4, MoveOn DEF BeginCancel
  <2> QED BY <1>3, <2>5, RowUnchanged, QueueUnchanged DEF BeginCancel, Moves, JobsInv
<1>4. ASSUME p \in Requests, Drain(p) PROVE Moves(p)
  <2> DEFINE r == [Idle EXCEPT !.op = "clear"]
  <2>1. r \in Request /\ Holds(p, r) /\ r.op # "cancel"
    BY <1>4, IdleHolds DEF Idle, Request, Holds, Enqueuers
  <2>2. RequestStep(p)
    BY <1>4, <2>1, MoveOn DEF Drain
  <2>3. QueueStep
    BY <1>4, EntryTypes DEF Drain, QueueStep, JobsInv, TypeOK, AttemptsLeft
  <2> QED BY <1>4, <2>2, <2>3, RowUnchanged DEF Drain, Moves, JobsInv
<1>5. ASSUME p = Reconciler, NEW j \in Jobs, BeginReconcile(j) PROVE Moves(p)
  <2> DEFINE r == [Idle EXCEPT !.op = "reconcile", !.job = j, !.ent = row[j]]
  <2>1. row[j] \in EvaluationJob /\ row[j].status = "pending"
    BY <1>5 DEF JobsInv, TypeOK, BeginReconcile
  <2>2. r \in Request /\ Holds(p, r) /\ r.op # "cancel"
    BY <2>1, IdleHolds DEF Idle, Request, Holds, Enqueuers
  <2>3. RequestStep(p)
    BY <1>5, <2>2, MoveOn DEF BeginReconcile
  <2> QED BY <1>5, <2>3, RowUnchanged, QueueUnchanged
          DEF BeginReconcile, Moves, JobsInv
<1> QED BY <1>1, <1>2, <1>3, <1>4, <1>5 DEF RequestBegin

\* A handler that is done without having written anything.
LEMMA DoneMoves ==
  ASSUME JobsInv, NEW p \in Procs, Done(p),
         UNCHANGED <<row, queue, produced, worker>>
  PROVE  Moves(p)
BY RowUnchanged, QueueUnchanged, MoveOff DEF Moves, JobsInv

\* A handler that goes on to another step, holding the same job and entity.
LEMMA StepHolds ==
  ASSUME NEW p \in Procs, NEW r \in Request, Holds(p, r),
         NEW step \in {"begin", "save", "remove", "enqueue", "saveEnqueue", "select"},
         NEW base \in EvaluationJob,
         r.step \notin {"insert", "add"}
  PROVE  LET q == [r EXCEPT !.step = step, !.base = base]
         IN  q \in Request /\ Holds(p, q) /\ q.op = r.op /\ q.job = r.job
BY DEF Request, Holds, Enqueuers
\* The same when nothing is read.
LEMMA StepOnlyHolds ==
  ASSUME NEW p \in Procs, NEW r \in Request, Holds(p, r),
         NEW step \in {"begin", "save", "remove", "enqueue", "saveEnqueue", "select"},
         r.step \notin {"insert", "add"}
  PROVE  LET q == [r EXCEPT !.step = step]
         IN  q \in Request /\ Holds(p, q) /\ q.op = r.op /\ q.job = r.job
BY DEF Request, Holds, Enqueuers

\* Inserting a job, looking one up and going through a retry.
LEMMA RetryMoves ==
  ASSUME JobsInv, NEW p \in Procs,
         \/ InsertJob(p) \/ LookUp(p)
         \/ SelectRetry(p) \/ SaveRetry(p) \/ RemoveQueued(p)
  PROVE  Moves(p)
<1> DEFINE r == req[p]
<1>1. r \in Request /\ Holds(p, r)
  BY DEF JobsInv, TypeOK, HandlersHoldRows
<1>2. TypeOK
  BY DEF JobsInv
<1> HIDE DEF r
<1>3. CASE InsertJob(p)
  <2>1. PICK j \in Jobs :
          LET new == [work |-> req[p].work, status |-> "pending", attempts |-> 0]
              rows == [row EXCEPT ![j] = new]
          IN  /\ row[j].status = "absent"
              /\ IF JobAccepted(rows, j)
                 THEN /\ row' = rows
                      /\ Set(p, [Idle EXCEPT !.op = "trigger", !.step = "enqueue",
                                             !.job = j, !.ent = new])
                 ELSE Done(p) /\ UNCHANGED row
    BY <1>3 DEF InsertJob
  <2> DEFINE new == [work |-> req[p].work, status |-> "pending", attempts |-> 0]
             next == [Idle EXCEPT !.op = "trigger", !.step = "enqueue",
                                  !.job = j, !.ent = new]
  <2>2. UNCHANGED <<queue, produced, worker>>
    BY <1>3 DEF InsertJob
  <2>3. CASE JobAccepted([row EXCEPT ![j] = new], j)
    <3>1. new \in EvaluationJob /\ new.status = "pending"
      BY <1>1, AttemptsAssumption DEF r, Request, EvaluationJob, EvaluationJobStatus
    <3>2. next \in Request /\ Holds(p, next) /\ next.op # "cancel"
      BY <3>1, IdleHolds DEF Idle, Request, Holds, Enqueuers
    <3> HIDE DEF new
    <3>3. row' = [row EXCEPT ![j] = new] /\ Set(p, next)
      BY <2>1, <2>3 DEF new
    <3>4. RequestStep(p)
      BY <3>2, <3>3, MoveOn
    <3>5. produced' \subseteq Jobs
      BY <1>2, <2>2 DEF TypeOK
    <3>6. RowsStep
      BY <1>2, <2>2, <2>3, <3>1, <3>3, <3>5, RowWritten
    <3> QED BY <2>2, <3>4, <3>6, QueueUnchanged DEF Moves
  <2>4. CASE ~ JobAccepted([row EXCEPT ![j] = new], j)
    BY <2>1, <2>2, <2>4, DoneMoves
  <2> QED BY <2>3, <2>4
<1>4. CASE LookUp(p)
  <2>1. CASE queue[req[p].job].state = "none"
    <3>1. Set(p, [r EXCEPT !.step = "enqueue"])
      BY <1>4, <2>1 DEF LookUp, r
    <3>2. r.step = "begin" /\ r.op = "reconcile"
      BY <1>4 DEF LookUp, At, r
    <3>3. RequestStep(p)
      BY <1>1, <3>1, <3>2, StepOnlyHolds, MoveOn
    <3> QED BY <1>2, <1>4, <3>3, RowUnchanged, QueueUnchanged DEF LookUp, Moves
  <2>2. CASE queue[req[p].job].state # "none"
    BY <1>4, <2>2, DoneMoves DEF LookUp
  <2> QED BY <2>1, <2>2
<1>5. CASE SelectRetry(p)
  <2>1. r.step = "begin" /\ r.op = "retry"
    BY <1>5 DEF SelectRetry, At, r
  <2>2. row[r.job] \in EvaluationJob
    BY <1>1, <1>2, <2>1 DEF TypeOK, Holds
  <2>3. Set(p, [r EXCEPT !.step = "save", !.base = row[r.job]])
    BY <1>5 DEF SelectRetry, r
  <2>4. RequestStep(p)
    BY <1>1, <2>1, <2>2, <2>3, StepHolds, MoveOn
  <2> QED BY <1>2, <1>5, <2>4, RowUnchanged, QueueUnchanged DEF SelectRetry, Moves
<1>6. CASE SaveRetry(p)
  <2> DEFINE j == r.job
             rows == [row EXCEPT ![j] = Save(row[j], r.ent, r.base)]
  <2>1. r.step = "save" /\ r.op = "retry" /\ j \in Jobs
    BY <1>1, <1>6 DEF SaveRetry, At, r, Holds
  <2>2. r.ent \in EvaluationJob /\ r.ent.status = "pending"
    BY <1>1, <2>1 DEF Request, Holds, Enqueuers
  <2>3. UNCHANGED <<queue, produced, worker>>
    BY <1>6 DEF SaveRetry
  <2>4. CASE JobAccepted(rows, j)
    <3>1. row' = rows /\ Set(p, [r EXCEPT !.step = "remove", !.base = NoJob])
      BY <1>6, <2>4 DEF SaveRetry, r
    <3>2. NoJob \in EvaluationJob
      BY AttemptsAssumption DEF NoJob, EvaluationJob
    <3>3. RequestStep(p)
      BY <1>1, <2>1, <3>1, <3>2, StepHolds, MoveOn
    <3>4. RowsStep
      BY <1>2, <2>1, <2>2, <2>3, <2>4, <3>1, SaveStep
    <3> QED BY <2>3, <3>3, <3>4, QueueUnchanged DEF Moves
  <2>5. CASE ~ JobAccepted(rows, j)
    BY <1>6, <2>3, <2>5, DoneMoves DEF SaveRetry, r
  <2> QED BY <2>4, <2>5
<1>7. CASE RemoveQueued(p)
  <2> DEFINE j == r.job
  <2>1. r.step = "remove" /\ r.op = "retry" /\ j \in Jobs
    BY <1>1, <1>7 DEF RemoveQueued, At, r, Holds
  <2>2. CASE queue[j].state # "active"
    <3>1. /\ queue' = [queue EXCEPT ![j] = NoBullJob]
          /\ Set(p, [r EXCEPT !.step = "enqueue"])
      BY <1>7, <2>2 DEF RemoveQueued, r
    <3>2. RequestStep(p)
      BY <1>1, <2>1, <3>1, StepOnlyHolds, MoveOn
    <3>3. QueueStep
      BY <2>1, <2>2, <3>1, EntryTypes, EntryReplaced
    <3> QED BY <1>2, <1>7, <3>2, <3>3, RowUnchanged DEF RemoveQueued, Moves
  <2>3. CASE queue[j].state = "active"
    BY <1>7, <2>3, DoneMoves DEF RemoveQueued, r
  <2> QED BY <2>2, <2>3
<1> QED BY <1>3, <1>4, <1>5, <1>6, <1>7
\* Saving a job and adding it to the queue.
LEMMA EnqueueMoves ==
  ASSUME JobsInv, NEW p \in Procs,
         SelectEnqueue(p) \/ SaveEnqueue(p) \/ Add(p) \/ AddFails(p)
  PROVE  Moves(p)
<1> DEFINE r == req[p]
           j == r.job
<1>1. r \in Request /\ Holds(p, r)
  BY DEF JobsInv, TypeOK, HandlersHoldRows
<1>2. TypeOK
  BY DEF JobsInv
<1> HIDE DEF r
<1>3. r.op \in Enqueuers /\ r.step # "insert" /\ j \in Jobs
  BY <1>1 DEF SelectEnqueue, SaveEnqueue, Add, AddFails, At, r, Holds, Enqueuers
<1>4. CASE SelectEnqueue(p)
  <2>1. r.step = "enqueue"
    BY <1>4 DEF SelectEnqueue, At, r
  <2>2. row[j] \in EvaluationJob
    BY <1>2, <1>3 DEF TypeOK
  <2>3. Set(p, [r EXCEPT !.step = "saveEnqueue", !.base = row[j]])
    BY <1>4 DEF SelectEnqueue, r
  <2>4. RequestStep(p)
    BY <1>1, <1>3, <2>1, <2>2, <2>3, StepHolds, MoveOn DEF Enqueuers
  <2> QED BY <1>2, <1>4, <2>4, RowUnchanged, QueueUnchanged DEF SelectEnqueue, Moves
<1>5. CASE SaveEnqueue(p)
  <2> DEFINE rows == [row EXCEPT ![j] = Save(row[j], r.ent, r.base)]
             next == [Idle EXCEPT !.op = r.op, !.step = "add", !.job = j]
  <2>1. r.step = "saveEnqueue"
    BY <1>5 DEF SaveEnqueue, At, r
  <2>2. r.ent \in EvaluationJob /\ r.ent.status = "pending"
    BY <1>1, <1>3, <2>1 DEF Request, Holds
  <2>3. UNCHANGED <<queue, produced, worker>>
    BY <1>5 DEF SaveEnqueue
  <2>4. CASE JobAccepted(rows, j)
    <3>1. row' = rows /\ Set(p, next)
      BY <1>5, <2>4 DEF SaveEnqueue, r
    <3>2. next \in Request /\ Holds(p, next) /\ next.op # "cancel"
      BY <1>3, IdleHolds DEF Idle, Request, Holds, Enqueuers
    <3>3. RequestStep(p)
      BY <3>1, <3>2, MoveOn
    <3>4. RowsStep
      BY <1>2, <1>3, <2>2, <2>3, <2>4, <3>1, SaveStep
    <3> QED BY <2>3, <3>3, <3>4, QueueUnchanged DEF Moves
  <2>5. CASE ~ JobAccepted(rows, j)
    BY <1>5, <2>3, <2>5, DoneMoves DEF SaveEnqueue, r
  <2> QED BY <2>4, <2>5
<1>6. CASE Add(p)
  <2>1. QueueStep
    <3>1. CASE queue[j].state = "none"
      BY <1>3, <1>6, <3>1, EntryTypes, EntryReplaced DEF Add, r
    <3>2. CASE queue[j].state # "none"
      BY <1>6, <3>2, QueueUnchanged DEF Add, r
    <3> QED BY <3>1, <3>2
  <2> QED BY <1>2, <1>6, <2>1, RowUnchanged, MoveOff DEF Add, Moves
<1>7. CASE AddFails(p)
  <2> DEFINE new == [row[j] EXCEPT !.status = "failed"]
  <2>1. new \in EvaluationJob /\ new.status = "failed"
    BY <1>2, <1>3 DEF TypeOK, EvaluationJob, EvaluationJobStatus
  <2>2. row' = [row EXCEPT ![j] = new]
    BY <1>7 DEF AddFails, r
  <2>3. produced' \subseteq Jobs /\ produced \subseteq produced'
    BY <1>2, <1>7 DEF AddFails, TypeOK
  <2> HIDE DEF new
  <2>4. RowsStep
    BY <1>2, <1>3, <2>1, <2>2, <2>3, RowWritten DEF ActiveStatus
  <2> QED BY <1>7, <2>4, QueueUnchanged, MoveOff DEF AddFails, Moves
<1> QED BY <1>4, <1>5, <1>6, <1>7

\* Cancelling one job, and those that are pending.
LEMMA CancelMoves ==
  ASSUME JobsInv, NEW p \in Procs,
         RemoveCancelled(p) \/ SelectCancel(p) \/ CommitCancel(p) \/ CancelPending(p)
  PROVE  Moves(p)
<1> DEFINE r == req[p]
           j == r.job
<1>1. r \in Request /\ Holds(p, r)
  BY DEF JobsInv, TypeOK, HandlersHoldRows
<1>2. TypeOK
  BY DEF JobsInv
<1> HIDE DEF r
<1>3. CASE RemoveCancelled(p)
  <2>1. r.op = "cancel" /\ r.step = "begin" /\ j \in Jobs
    BY <1>1, <1>3 DEF RemoveCancelled, At, r, Holds
  <2>2. Set(p, [r EXCEPT !.step = "select"])
    BY <1>3 DEF RemoveCancelled, r
  <2>3. RequestStep(p)
    BY <1>1, <2>1, <2>2, StepOnlyHolds, MoveOn DEF r
  <2>4. QueueStep
    <3>1. CASE queue[j].state = "active"
      BY <1>3, <3>1, QueueUnchanged DEF RemoveCancelled, r
    <3>2. CASE queue[j].state # "active"
      BY <1>3, <2>1, <3>2, EntryTypes, EntryReplaced DEF RemoveCancelled, r
    <3> QED BY <3>1, <3>2
  <2> QED BY <1>2, <1>3, <2>3, <2>4, RowUnchanged DEF RemoveCancelled, Moves
<1>4. CASE SelectCancel(p)
  <2>1. r.op = "cancel" /\ r.step = "select" /\ j \in Jobs
    BY <1>1, <1>4 DEF SelectCancel, At, r, Holds
  <2>2. row[j] \in EvaluationJob
    BY <1>2, <2>1 DEF TypeOK
  <2>3. Set(p, [r EXCEPT !.step = "save", !.base = row[j]])
    BY <1>4 DEF SelectCancel, r
  <2>4. RequestStep(p)
    BY <1>1, <2>1, <2>2, <2>3, StepHolds, MoveOn DEF r
  <2> QED BY <1>2, <1>4, <2>4, RowUnchanged, QueueUnchanged DEF SelectCancel, Moves
<1>5. CASE CommitCancel(p)
  <2>1. r.op = "cancel" /\ j \in Jobs /\ r.ent \in EvaluationJob
        /\ r.ent.status = "cancelled"
    BY <1>1, <1>5 DEF CommitCancel, At, r, Holds, Request
  <2>2. row' = [row EXCEPT ![j] = Save(row[j], r.ent, r.base)]
    BY <1>5 DEF CommitCancel, r
  <2>3. \E q \in Procs : req[q].op = "cancel" /\ req[q].job = j
    BY <2>1 DEF r
  <2>4. produced' = produced
    BY <1>5 DEF CommitCancel
  <2> HIDE DEF j
  <2>5. row' = [row EXCEPT ![j] = Save(row[j], r.ent, r.base)]
    BY <2>2 DEF j
  <2>6. RowsStep
    BY <1>2, <2>1, <2>3, <2>4, <2>5, SaveStep
  <2> QED BY <1>5, <2>6, QueueUnchanged, MoveOff DEF CommitCancel, Moves
<1>6. CASE CancelPending(p)
  <2>1. p \in Requests /\ At(p, {"clear"}, "begin")
    BY <1>1, <1>6 DEF CancelPending, At, r, Holds
  <2>2. ASSUME NEW i \in Jobs
        PROVE  /\ row'[i] \in EvaluationJob
               /\ row'[i].work = row[i].work
               /\ row'[i].status = row[i].status \/ row'[i].status = "cancelled"
    <3>1. row[i] \in EvaluationJob
      BY <1>2 DEF TypeOK
    <3>2. row'[i] = IF row[i].status = "pending"
                    THEN [row[i] EXCEPT !.status = "cancelled"] ELSE row[i]
      BY <1>6 DEF CancelPending
    <3> QED BY <3>1, <3>2 DEF EvaluationJob, EvaluationJobStatus
  <2>3. row' \in [Jobs -> EvaluationJob]
    BY <1>6, <2>2 DEF CancelPending
  <2>4. FewerActive
    BY <2>2 DEF FewerActive, ActiveStatus
  <2>5. CompletedByResult
    BY <2>2 DEF CompletedByResult
  <2>6. CancelledByHandler
    BY <2>1 DEF CancelledByHandler
  <2>7. RowsStep
    BY <1>2, <1>6, <2>3, <2>4, <2>5, <2>6 DEF RowsStep, CancelPending, TypeOK
  <2> QED BY <1>6, <2>7, QueueUnchanged, MoveOff DEF CancelPending, Moves
<1> QED BY <1>3, <1>4, <1>5, <1>6

\* Every step of a handler.
LEMMA HandlerMoves ==
  ASSUME JobsInv, NEW p \in Procs, HandlerStep(p) \/ Fail(p)
  PROVE  Moves(p)
BY RetryMoves, EnqueueMoves, CancelMoves, DoneMoves DEF HandlerStep, Fail

-----------------------------------------------------------------------------
(* The workers.                                                            *)

\* A worker that comes to hold a job's lock finds it free.
LocksTaken ==
  \A w \in Workers : worker'[w].step = "committing" =>
    worker'[w] = worker[w] \/ ResultLockFree(worker'[w].job)

WorkersStep ==
  /\ worker' \in [Workers -> Worker]
  /\ queue' \in [Jobs -> BullJob]
  /\ AttemptsLeft'
  /\ WorkersHoldEntries'
  /\ LocksTaken

WorkerMoves == RowsStep /\ WorkersStep /\ req' = req

\* A worker goes on with its job.
LEMMA WorkerGoesOn ==
  ASSUME JobsInv, NEW w \in Workers,
         NEW step \in {"start", "evaluating", "commit", "committing", "return",
                       "rethrow"},
         Busy(w), Step(w, step), queue' = queue,
         step = "committing" => ResultLockFree(worker[w].job)
  PROVE  WorkersStep
<1>1. ASSUME NEW v \in Workers
      PROVE  /\ worker[v] \in Worker
             /\ worker'[v] = IF v = w THEN [worker[v] EXCEPT !.step = step]
                             ELSE worker[v]
             /\ worker'[v] \in Worker
             /\ worker'[v].job = worker[v].job
             /\ Busy(v)' => Busy(v)
  <2>1. worker[v] \in Worker
    BY DEF JobsInv, TypeOK
  <2>2. worker'[v] = IF v = w THEN [worker[v] EXCEPT !.step = step] ELSE worker[v]
    BY DEF JobsInv, TypeOK, Step
  <2>3. worker'[v] \in Worker /\ worker'[v].job = worker[v].job
    BY <2>1, <2>2 DEF Worker
  <2>4. Busy(v)' => Busy(v)
    BY <2>2 DEF Busy
  <2> QED BY <2>1, <2>2, <2>3, <2>4
<1>2. worker' \in [Workers -> Worker]
  BY <1>1 DEF Step, JobsInv, TypeOK
<1>3. WorkersHoldEntries'
  BY <1>1 DEF JobsInv, WorkersHoldEntries
<1>4. LocksTaken
  <2> SUFFICES ASSUME NEW v \in Workers, worker'[v].step = "committing"
               PROVE  worker'[v] = worker[v] \/ ResultLockFree(worker'[v].job)
    BY DEF LocksTaken
  <2>1. CASE v = w
    <3>1. step = "committing"
      BY <1>1, <2>1 DEF Worker
    <3> QED BY <1>1, <2>1, <3>1
  <2>2. CASE v # w
    BY <1>1, <2>2
  <2> QED BY <2>1, <2>2
<1> QED BY <1>2, <1>3, <1>4 DEF WorkersStep, JobsInv, TypeOK, AttemptsLeft

\* A worker lets go of its job, and the entry is put into another state.
LEMMA WorkerLetsGo ==
  ASSUME JobsInv, NEW w \in Workers, Busy(w),
         NEW new \in BullJob, new.attemptsMade < MaxAttempts,
         queue' = [queue EXCEPT ![worker[w].job] = new],
         worker' = [worker EXCEPT ![w] = Free]
  PROVE  WorkersStep
<1>1. Free \in Worker /\ Free.step = "free"
  BY DEF Free, Worker
<1>2. worker' \in [Workers -> Worker] /\ queue' \in [Jobs -> BullJob]
  BY <1>1 DEF JobsInv, TypeOK
<1>3. AttemptsLeft'
  BY DEF JobsInv, TypeOK, AttemptsLeft
<1>4. \A v \in Workers : worker'[v] = IF v = w THEN Free ELSE worker[v]
  BY DEF JobsInv, TypeOK
<1>5. WorkersHoldEntries'
  <2>1. ASSUME NEW v \in Workers, Busy(v)'
        PROVE  v # w /\ Busy(v) /\ worker'[v] = worker[v]
    BY <1>4, <2>1 DEF Busy
  <2> QED BY <2>1 DEF JobsInv, TypeOK, WorkersHoldEntries
<1>6. LocksTaken
  BY <1>1, <1>4 DEF LocksTaken
<1> QED BY <1>2, <1>3, <1>5, <1>6 DEF WorkersStep

\* A worker is handed an entry.
LEMMA WorkerTakes ==
  ASSUME JobsInv, NEW w \in Workers, NEW j \in Jobs, Take(w, j)
  PROVE  WorkerMoves
<1> DEFINE new == [queue[j] EXCEPT !.state = "active"]
           busy == [step |-> "read", job |-> j]
<1>1. /\ new \in BullJob /\ new.state = "active"
      /\ new.attemptsMade = queue[j].attemptsMade
  BY DEF JobsInv, TypeOK, BullJob, QueueState
<1>2. busy \in Worker
  BY DEF Worker
<1>3. /\ queue' = [queue EXCEPT ![j] = new]
      /\ worker' = [worker EXCEPT ![w] = busy]
  BY DEF Take
<1> HIDE DEF new
<1>4. worker' \in [Workers -> Worker] /\ queue' \in [Jobs -> BullJob]
  BY <1>1, <1>2, <1>3 DEF JobsInv, TypeOK
<1>5. AttemptsLeft'
  BY <1>1, <1>3 DEF JobsInv, TypeOK, AttemptsLeft
<1>6. \A v \in Workers : worker'[v] = IF v = w THEN busy ELSE worker[v]
  BY <1>3 DEF JobsInv, TypeOK
<1>7. \A i \in Jobs : queue'[i] = IF i = j THEN new ELSE queue[i]
  BY <1>3 DEF JobsInv, TypeOK
<1>8. WorkersHoldEntries'
  <2>1. \A v \in Workers : Busy(v) => worker[v].job # j
    BY DEF JobsInv, WorkersHoldEntries, Take
  <2>2. \A v \in Workers : v # w /\ Busy(v)' => Busy(v) /\ worker'[v] = worker[v]
    BY <1>6 DEF Busy
  <2>3. worker'[w].job = j
    BY <1>6
  <2> QED BY <1>1, <1>7, <2>1, <2>2, <2>3 DEF JobsInv, WorkersHoldEntries
<1>9. LocksTaken
  BY <1>6 DEF LocksTaken
<1>10. RowsStep /\ req' = req
  BY RowUnchanged DEF JobsInv, Take
<1> QED BY <1>4, <1>5, <1>8, <1>9, <1>10 DEF WorkerMoves, WorkersStep
\* updateJobStatus leaves a cancelled row alone and writes the others, which
\* become active only if the index accepts it.
LEMMA UpdateStep ==
  ASSUME TypeOK, NEW j \in Jobs,
         NEW status \in {"pending", "processing", "completed", "failed"},
         NEW attempts \in 0 .. MaxAttempts,
         row' = UpdateJobStatus(j, status, attempts),
         JobAccepted(row', j) \/ status \notin ActiveStatus,
         status = "completed" => j \in produced',
         produced \subseteq produced', produced' \subseteq Jobs
  PROVE  RowsStep
<1> DEFINE new == [row[j] EXCEPT !.status = status, !.attempts = attempts]
<1>1. row[j] \in EvaluationJob
  BY DEF TypeOK
<1>2. new \in EvaluationJob /\ new.status = status
  BY <1>1 DEF EvaluationJob, EvaluationJobStatus
<1>3. CASE row[j].status = "cancelled"
  <2>1. row' = row
    BY <1>3 DEF UpdateJobStatus
  <2> QED BY <2>1 DEF TypeOK, RowsStep, FewerActive, CompletedByResult,
                      CancelledByHandler
<1>4. CASE row[j].status # "cancelled"
  <2>1. row' = [row EXCEPT ![j].status = status, ![j].attempts = attempts]
    BY <1>4 DEF UpdateJobStatus
  <2>2. row' = [row EXCEPT ![j] = new]
    BY <1>1, <2>1 DEF TypeOK
  <2> HIDE DEF new
  <2> QED BY <1>2, <2>2, RowWritten
<1> QED BY <1>3, <1>4

\* The worker's own steps.
LEMMA WorkerRuns ==
  ASSUME JobsInv, NEW w \in Workers, WorkerStep(w)
  PROVE  WorkerMoves
<1> DEFINE j == worker[w].job
<1>1. Busy(w)
  BY DEF WorkerStep, ReadState, Start, Evaluated, BeginCommit, CommitResults, Throw,
         Finish, Rethrow, WorkerAt, Busy, Free
<1>2. j \in Jobs
  BY <1>1 DEF JobsInv, WorkersHoldEntries
<1>3. /\ TypeOK /\ produced \subseteq Jobs
      /\ row[j] \in EvaluationJob /\ row[j].attempts \in 0 .. MaxAttempts
      /\ queue[j] \in BullJob
      /\ queue[j].attemptsMade < MaxAttempts
      /\ queue[j].attemptsMade + 1 \in 0 .. MaxAttempts
  BY <1>2, AttemptsAssumption
     DEF JobsInv, TypeOK, EvaluationJob, BullJob, AttemptsLeft
<1> HIDE DEF j
<1>4. CASE ReadState(w)
  <2>1. RowsStep
    BY <1>3, <1>4, RowUnchanged DEF ReadState
  <2>2. PICK step \in {"return", "start"} : Step(w, step)
    BY <1>4 DEF ReadState
  <2> QED BY <1>1, <1>4, <2>1, <2>2, WorkerGoesOn DEF ReadState, WorkerMoves
<1>5. CASE Start(w)
  <2>1. /\ row' = UpdateJobStatus(j, "processing", row[j].attempts)
        /\ JobAccepted(row', j) /\ produced' = produced
    BY <1>5 DEF Start, j
  <2>2. RowsStep
    BY <1>2, <1>3, <2>1, UpdateStep
  <2> QED BY <1>1, <1>5, <2>2, WorkerGoesOn DEF Start, WorkerMoves
<1>6. CASE Evaluated(w)
  <2>1. RowsStep
    BY <1>3, <1>6, RowUnchanged DEF Evaluated
  <2>2. PICK step \in {"return", "commit"} : Step(w, step)
    BY <1>6 DEF Evaluated
  <2> QED BY <1>1, <1>6, <2>1, <2>2, WorkerGoesOn DEF Evaluated, WorkerMoves
<1>7. CASE BeginCommit(w)
  <2>1. RowsStep
    BY <1>3, <1>7, RowUnchanged DEF BeginCommit
  <2>2. PICK step \in {"return", "committing"} : Step(w, step)
    BY <1>7 DEF BeginCommit
  <2> QED BY <1>1, <1>7, <2>1, <2>2, WorkerGoesOn DEF BeginCommit, WorkerMoves
<1>8. CASE CommitResults(w)
  <2>1. /\ row' = UpdateJobStatus(j, "completed", row[j].attempts)
        /\ produced' = produced \cup {j}
    BY <1>8 DEF CommitResults, j
  <2>2. RowsStep
    BY <1>2, <1>3, <2>1, UpdateStep DEF ActiveStatus
  <2> QED BY <1>1, <1>8, <2>2, WorkerGoesOn DEF CommitResults, WorkerMoves
<1>9. CASE Throw(w)
  <2> DEFINE made == queue[j].attemptsMade + 1
             status == IF made < MaxAttempts THEN "pending" ELSE "failed"
             rows == UpdateJobStatus(j, status, made)
  <2>1. row' = IF JobAccepted(rows, j) THEN rows ELSE row
    BY <1>9 DEF Throw, j
  <2>2. produced' = produced
    BY <1>9 DEF Throw
  <2>3. status \in {"pending", "processing", "completed", "failed"}
        /\ status # "completed"
    OBVIOUS
  <2>4. CASE JobAccepted(rows, j)
    <3>1. row' = rows
      BY <2>1, <2>4
    <3> HIDE DEF status
    <3>2. RowsStep
      BY <1>2, <1>3, <2>2, <2>3, <2>4, <3>1, UpdateStep
    <3> QED BY <1>1, <1>9, <3>2, WorkerGoesOn DEF Throw, WorkerMoves
  <2>5. CASE ~ JobAccepted(rows, j)
    <3>1. RowsStep
      BY <1>3, <2>1, <2>2, <2>5, RowUnchanged
    <3> QED BY <1>1, <1>9, <3>1, WorkerGoesOn DEF Throw, WorkerMoves
  <2> QED BY <2>4, <2>5
<1>10. CASE Finish(w)
  <2>1. WorkersStep
    BY <1>1, <1>10, EntryTypes, WorkerLetsGo DEF Finish, QueueState
  <2> QED BY <1>3, <1>10, <2>1, RowUnchanged DEF Finish, WorkerMoves
<1>11. CASE Rethrow(w)
  <2> DEFINE made == queue[j].attemptsMade + 1
             later == [queue[j] EXCEPT !.attemptsMade = made, !.state = "delayed"]
  <2>1. CASE made < MaxAttempts
    <3>1. later \in BullJob /\ later.attemptsMade = made
      BY <1>3 DEF BullJob, QueueState
    <3>2. queue' = [queue EXCEPT ![j].attemptsMade = made, ![j].state = "delayed"]
      BY <1>11, <2>1 DEF Rethrow, j
    <3>3. queue' = [queue EXCEPT ![j] = later]
      BY <1>2, <3>2 DEF JobsInv, TypeOK
    <3> HIDE DEF later
    <3>4. WorkersStep
      BY <1>1, <1>11, <2>1, <3>1, <3>3, WorkerLetsGo DEF Rethrow, j
    <3> QED BY <1>3, <1>11, <3>4, RowUnchanged DEF Rethrow, WorkerMoves
  <2>2. CASE ~ (made < MaxAttempts)
    <3>1. queue' = [queue EXCEPT ![j] = Ended("failed")]
      BY <1>11, <2>2 DEF Rethrow, j
    <3>2. WorkersStep
      BY <1>1, <1>11, <3>1, EntryTypes, WorkerLetsGo DEF Rethrow, QueueState, j
    <3> QED BY <1>3, <1>11, <3>2, RowUnchanged DEF Rethrow, WorkerMoves
  <2> QED BY <2>1, <2>2
<1> QED BY <1>4, <1>5, <1>6, <1>7, <1>8, <1>9, <1>10, <1>11 DEF WorkerStep

\* A worker dies, and BullMQ puts its entry back or gives it up.
LEMMA WorkerDies ==
  ASSUME JobsInv, NEW w \in Workers, Crash(w) \/ Lose(w)
  PROVE  WorkerMoves
<1> DEFINE j == worker[w].job
           back == [queue[j] EXCEPT !.stalled = queue[j].stalled + 1,
                                    !.state = "waiting"]
<1>1. Busy(w) /\ j \in Jobs
  BY DEF JobsInv, WorkersHoldEntries, Crash, Lose, Busy
<1>2. queue[j] \in BullJob /\ queue[j].attemptsMade < MaxAttempts
  BY <1>1 DEF JobsInv, TypeOK, AttemptsLeft
<1>3. RowsStep /\ req' = req
  BY RowUnchanged DEF Crash, Lose, JobsInv
<1> HIDE DEF j
<1>4. CASE Crash(w)
  <2>1. queue[j].stalled + 1 \in 0 .. MaxStalled
    BY <1>2, <1>4, AttemptsAssumption DEF Crash, BullJob, j
  <2>2. back \in BullJob /\ back.attemptsMade < MaxAttempts
    BY <1>2, <2>1 DEF BullJob, QueueState
  <2>3. queue' = [queue EXCEPT ![j] = back]
    BY <1>1, <1>4 DEF Crash, JobsInv, TypeOK, j
  <2> HIDE DEF back
  <2>4. WorkersStep
    BY <1>1, <1>4, <2>2, <2>3, WorkerLetsGo DEF Crash, j
  <2> QED BY <1>3, <2>4 DEF WorkerMoves
<1>5. CASE Lose(w)
  <2>1. WorkersStep
    BY <1>1, <1>5, EntryTypes, WorkerLetsGo DEF Lose, QueueState
  <2> QED BY <1>3, <2>1 DEF WorkerMoves
<1> QED BY <1>4, <1>5

-----------------------------------------------------------------------------
(* Every step is a step of a handler, of a worker or of the queue itself,  *)
(* which is one of a handler that holds on to what it holds.               *)

\* The queue's own steps.
LEMMA QueueMoves ==
  ASSUME JobsInv, NEW j \in Jobs, Promote(j) \/ Expire(j)
  PROVE  Moves(Reconciler)
<1> DEFINE later == [queue[j] EXCEPT !.state = "waiting"]
<1>1. Reconciler \in Procs /\ TypeOK
  BY DEF Procs, JobsInv
<1>2. RequestStep(Reconciler)
  <2>1. /\ req[Reconciler] \in Request
        /\ Holds(Reconciler, req[Reconciler])
        /\ req' = [req EXCEPT ![Reconciler] = req[Reconciler]]
    BY <1>1 DEF JobsInv, TypeOK, HandlersHoldRows, Promote, Expire
  <2> QED BY <2>1 DEF RequestStep
<1>3. QueueStep
  <2>1. CASE Promote(j)
    <3>1. later \in BullJob /\ later.attemptsMade < MaxAttempts
      BY <1>1 DEF TypeOK, JobsInv, AttemptsLeft, BullJob, QueueState
    <3>2. queue' = [queue EXCEPT ![j] = later]
      BY <2>1 DEF Promote
    <3> HIDE DEF later
    <3> QED BY <2>1, <3>1, <3>2, EntryReplaced DEF Promote
  <2>2. CASE Expire(j)
    BY <2>2, EntryTypes, EntryReplaced DEF Expire
  <2> QED BY <2>1, <2>2
<1> QED BY <1>1, <1>2, <1>3, RowUnchanged DEF Promote, Expire, Moves

\* What each disjunct of Next amounts to.
LEMMA EveryStep ==
  ASSUME JobsInv, Next
  PROVE  WorkerMoves \/ \E p \in Procs : Moves(p)
<1>1. \A p \in Requests : p \in Procs
  BY DEF Procs
<1>2. Reconciler \in Procs
  BY DEF Procs
<1>3. ASSUME NEW p \in Requests, RequestBegin(p) PROVE Moves(p)
  BY <1>1, <1>3, BeginMoves
<1>4. ASSUME NEW j \in Jobs, BeginReconcile(j) PROVE Moves(Reconciler)
  BY <1>2, <1>4, BeginMoves
<1>5. ASSUME NEW j \in Jobs, Promote(j) \/ Expire(j) PROVE Moves(Reconciler)
  BY <1>5, QueueMoves
<1>6. ASSUME NEW p \in Procs, HandlerStep(p) \/ Fail(p) PROVE Moves(p)
  BY <1>6, HandlerMoves
<1>7. ASSUME NEW w \in Workers, NEW j \in Jobs, Take(w, j) PROVE WorkerMoves
  BY <1>7, WorkerTakes
<1>8. ASSUME NEW w \in Workers, WorkerStep(w) PROVE WorkerMoves
  BY <1>8, WorkerRuns
<1>9. ASSUME NEW w \in Workers, Crash(w) \/ Lose(w) PROVE WorkerMoves
  BY <1>9, WorkerDies
<1> QED BY <1>1, <1>2, <1>3, <1>4, <1>5, <1>6, <1>7, <1>8, <1>9
        DEF Next, Recoverable, Undisturbed

\* A handler's step leaves every other handler with what it held.
LEMMA OneHandlerMoves ==
  ASSUME JobsInv, NEW p \in Procs, RequestStep(p)
  PROVE  /\ req' \in [Procs -> Request]
         /\ HandlersHoldRows'
         /\ \A q \in Procs : req'[q].op = "cancel" =>
              \/ req[q].op = "cancel" /\ req[q].job = req'[q].job
              \/ ResultLockFree(req'[q].job)
<1>1. PICK r \in Request :
        /\ req' = [req EXCEPT ![p] = r]
        /\ Holds(p, r)
        /\ r.op = "cancel" => \/ req[p].op = "cancel" /\ req[p].job = r.job
                              \/ ResultLockFree(r.job)
  BY DEF RequestStep
<1>2. \A q \in Procs : req'[q] = IF q = p THEN r ELSE req[q]
  BY <1>1 DEF JobsInv, TypeOK
<1>3. req' \in [Procs -> Request]
  BY <1>1 DEF JobsInv, TypeOK
<1>4. \A q \in Procs : Holds(q, req[q])
  BY DEF JobsInv, HandlersHoldRows
<1>5. \A q \in Procs : Holds(q, req'[q])
  BY <1>1, <1>2, <1>4
<1>6. HandlersHoldRows'
  BY <1>5 DEF HandlersHoldRows, Holds
<1> QED BY <1>1, <1>2, <1>3, <1>6

\* The initial state satisfies the strengthening.
LEMMA InitJobs == Init => JobsInv
<1> SUFFICES ASSUME Init PROVE JobsInv
  OBVIOUS
<1>1. NoJob \in EvaluationJob /\ Free \in Worker
  BY AttemptsAssumption DEF NoJob, EvaluationJob, EvaluationJobStatus, Free, Worker
<1>2. \A p \in Procs : Idle \in Request /\ Holds(p, Idle)
  BY IdleHolds
<1>3. TypeOK
  BY <1>1, <1>2, EntryTypes DEF Init, TypeOK
<1>4. AttemptsLeft
  BY EntryTypes DEF Init, AttemptsLeft
<1>5. WorkersHoldEntries
  BY DEF Init, WorkersHoldEntries, Busy
<1>6. HandlersHoldRows
  BY <1>2 DEF Init, HandlersHoldRows
<1> QED BY <1>3, <1>4, <1>5, <1>6 DEF JobsInv

\* Every step keeps it, and writes rows as RowsStep allows.
LEMMA NextJobs == JobsInv /\ [Next]_vars => JobsInv' /\ RowsStep
<1> SUFFICES ASSUME JobsInv, [Next]_vars PROVE JobsInv' /\ RowsStep
  OBVIOUS
<1>1. ASSUME NEW p \in Procs, Moves(p) PROVE JobsInv' /\ RowsStep
  <2>1. RowsStep /\ QueueStep /\ worker' = worker
    BY <1>1 DEF Moves
  <2>2. req' \in [Procs -> Request] /\ HandlersHoldRows'
    BY <1>1, OneHandlerMoves DEF Moves
  <2>3. TypeOK' /\ AttemptsLeft'
    BY <2>1, <2>2 DEF JobsInv, TypeOK, AttemptsLeft, RowsStep, QueueStep
  <2>4. WorkersHoldEntries'
    BY <2>1 DEF JobsInv, WorkersHoldEntries, Busy, QueueStep
  <2> QED BY <2>1, <2>2, <2>3, <2>4 DEF JobsInv
<1>2. CASE WorkerMoves
  <2>1. HandlersHoldRows'
    BY <1>2 DEF WorkerMoves, JobsInv, HandlersHoldRows, Holds
  <2>2. TypeOK'
    BY <1>2 DEF WorkerMoves, WorkersStep, RowsStep, JobsInv, TypeOK
  <2> QED BY <1>2, <2>1, <2>2 DEF WorkerMoves, WorkersStep, JobsInv
<1>3. CASE UNCHANGED vars
  <2>1. JobsInv'
    BY <1>3 DEF vars, JobsInv, TypeOK, AttemptsLeft, WorkersHoldEntries, Busy,
                HandlersHoldRows, Holds
  <2> QED BY <1>3, <2>1, RowUnchanged DEF vars, JobsInv
<1> QED BY <1>1, <1>2, <1>3, EveryStep

-----------------------------------------------------------------------------
(* The theorems.                                                           *)

\* The strengthening holds in every reachable state.
THEOREM JobsHold == Spec => []JobsInv
<1>1. Init => JobsInv
  BY InitJobs
<1>2. JobsInv /\ [Next]_vars => JobsInv'
  BY NextJobs
<1> QED BY <1>1, <1>2, PTL DEF Spec

\* Every variable keeps its type.
THEOREM TypeCorrect == Spec => []TypeOK
<1>1. JobsInv => TypeOK
  BY DEF JobsInv
<1> QED BY <1>1, JobsHold, PTL

\* The handlers write statuses they read long before, and the worker another
\* one at the same time: the unique index alone keeps two jobs of the same
\* work from being pending or processing together.
THEOREM OneActive == Spec => []OneActiveJob
<1>1. Init => OneActiveJob
  BY DEF Init, OneActiveJob, NoJob, ActiveStatus
<1>2. OneActiveJob /\ RowsStep => OneActiveJob'
  <2> SUFFICES ASSUME OneActiveJob, RowsStep,
                      NEW i \in Jobs, NEW k \in Jobs,
                      row'[i].status \in ActiveStatus,
                      row'[k].status \in ActiveStatus,
                      row'[i].work = row'[k].work
               PROVE  i = k
    BY DEF OneActiveJob
  <2>1. CASE FewerActive
    BY <2>1 DEF FewerActive, OneActiveJob
  <2>2. CASE OneWritten
    <3>1. PICK j \in Jobs : /\ \A l \in Jobs \ {j} : row'[l] = row[l]
                            /\ JobAccepted(row', j)
      BY <2>2 DEF OneWritten
    <3>2. CASE i = j \/ k = j
      BY <3>1, <3>2 DEF JobAccepted
    <3>3. CASE i # j /\ k # j
      BY <3>1, <3>3 DEF OneActiveJob
    <3> QED BY <3>2, <3>3
  <2> QED BY <2>1, <2>2 DEF RowsStep
<1>3. OneActiveJob /\ JobsInv /\ [Next]_vars => OneActiveJob'
  BY <1>2, NextJobs
<1> QED BY <1>1, <1>3, JobsHold, PTL DEF Spec

\* Whatever fails, is retried or runs twice, a row says completed only once its
\* evaluation was saved.
THEOREM CompletedHas == Spec => []CompletedHasResult
<1>1. Init => CompletedHasResult
  BY DEF Init, CompletedHasResult, NoJob
<1>2. CompletedHasResult /\ JobsInv /\ [Next]_vars => CompletedHasResult'
  <2> SUFFICES ASSUME CompletedHasResult, RowsStep PROVE CompletedHasResult'
    BY NextJobs
  <2> QED BY DEF CompletedHasResult, RowsStep, CompletedByResult
<1> QED BY <1>1, <1>2, JobsHold, PTL DEF Spec

\* The job's lock is held by cancelJob or by a worker that commits, not by both.
LocksHeld ==
  \A p \in Procs : \A w \in Workers :
    ~ (/\ req[p].op = "cancel" /\ worker[w].step = "committing"
       /\ req[p].job = worker[w].job)

\* The lock excludes.
LEMMA NextLocks == LocksHeld /\ JobsInv /\ [Next]_vars => LocksHeld'
<1> SUFFICES ASSUME LocksHeld, JobsInv, [Next]_vars PROVE LocksHeld'
  OBVIOUS
<1>1. ASSUME NEW p \in Procs, Moves(p) PROVE LocksHeld'
  <2>1. worker' = worker
    BY <1>1 DEF Moves
  <2>2. \A q \in Procs : req'[q].op = "cancel" =>
              \/ req[q].op = "cancel" /\ req[q].job = req'[q].job
              \/ ResultLockFree(req'[q].job)
    BY <1>1, OneHandlerMoves DEF Moves
  <2> QED BY <2>1, <2>2 DEF LocksHeld, ResultLockFree
<1>2. CASE WorkerMoves
  BY <1>2 DEF WorkerMoves, WorkersStep, LocksTaken, LocksHeld, ResultLockFree
<1>3. CASE UNCHANGED vars
  BY <1>3 DEF vars, LocksHeld
<1> QED BY <1>1, <1>2, <1>3, EveryStep

\* cancelJob waits while a worker commits its result: a row cancelled then is
\* cancelled by clearQueue.
THEOREM CancelWaits == Spec => CancelWaitsForCommit
<1> DEFINE A == \A w \in Workers :
                  /\ WorkerAt(w, "committing")
                  /\ row[worker[w].job].status # "cancelled"
                  /\ row'[worker[w].job].status = "cancelled"
                  => \E p \in Requests : At(p, {"clear"}, "begin")
<1>1. Init => LocksHeld
  BY DEF Init, LocksHeld, Free
<1>2. LocksHeld /\ JobsInv /\ [Next]_vars => LocksHeld'
  BY NextLocks
<1>3. LocksHeld /\ JobsInv /\ [Next]_vars => A
  <2> SUFFICES ASSUME LocksHeld, JobsInv, RowsStep, NEW w \in Workers,
                      WorkerAt(w, "committing"),
                      row[worker[w].job].status # "cancelled",
                      row'[worker[w].job].status = "cancelled"
               PROVE  \E p \in Requests : At(p, {"clear"}, "begin")
    BY NextJobs
  <2>1. worker[w].job \in Jobs
    BY DEF JobsInv, WorkersHoldEntries, Busy, Free, WorkerAt
  <2> QED BY <2>1 DEF RowsStep, CancelledByHandler, LocksHeld, WorkerAt
<1>4. Spec => [](LocksHeld /\ JobsInv)
  BY <1>1, <1>2, JobsHold, PTL DEF Spec
<1>5. LocksHeld /\ JobsInv /\ [Next]_vars => [A]_vars
  BY <1>3
<1>6. Spec => [][A]_vars
  BY <1>4, <1>5, PTL DEF Spec
<1> QED BY <1>6 DEF CancelWaitsForCommit

-----------------------------------------------------------------------------
(* As long as no worker dies, a processing row is being worked on.          *)

\* The row of j has gone to processing under the hands of worker w.
WorksOn(w, j) ==
  worker[w].job = j /\ worker[w].step \in {"evaluating", "commit", "committing"}

ProcessingIsWorkedOn ==
  \A j \in Jobs : row[j].status = "processing" => \E w \in Workers : WorksOn(w, j)

\* No row goes to processing.
NoneStarted ==
  \A j \in Jobs : row'[j].status = "processing" => row[j].status = "processing"

\* An enqueue, a retry or a cancellation saves some other status, however stale.
LEMMA HandlersStartNone ==
  ASSUME JobsInv, NEW p \in Procs, HandlerStep(p)
  PROVE  NoneStarted /\ worker' = worker
<1> USE DEF NoneStarted
<1>0. TypeOK /\ HandlersHoldRows /\ Holds(p, req[p]) /\ req[p] \in Request
  BY DEF JobsInv, HandlersHoldRows, TypeOK
<1>1. ASSUME NEW j \in Jobs, NEW ent \in EvaluationJob, NEW base,
             ent.status # "processing",
             row' = row \/ row' = [row EXCEPT ![j] = Save(row[j], ent, base)]
      PROVE  NoneStarted
  <2>1. row[j] \in EvaluationJob
    BY <1>0 DEF TypeOK
  <2>2. Save(row[j], ent, base).status \in {row[j].status, ent.status}
    BY <2>1, SaveRow
  <2> QED BY <1>0, <1>1, <2>2 DEF TypeOK
<1>2. CASE InsertJob(p)
  <2>1. PICK j \in Jobs : row' = row \/ row' = [row EXCEPT ![j] =
          [work |-> req[p].work, status |-> "pending", attempts |-> 0]]
    BY <1>2 DEF InsertJob
  <2> QED BY <1>0, <1>2, <2>1 DEF InsertJob, TypeOK
<1>3. CASE SaveRetry(p) \/ SaveEnqueue(p)
  <2> DEFINE j == req[p].job
  <2>1. req[p].ent \in EvaluationJob
    BY <1>0 DEF Request
  <2>2. j \in Jobs /\ req[p].ent.status = "pending"
    BY <1>0, <1>3 DEF SaveRetry, SaveEnqueue, At, Holds, Enqueuers
  <2>3. row' = row \/ row' = [row EXCEPT ![j] = Save(row[j], req[p].ent, req[p].base)]
    BY <1>3 DEF SaveRetry, SaveEnqueue
  <2>4. NoneStarted
    BY <1>1, <2>1, <2>2, <2>3
  <2> QED BY <1>3, <2>4 DEF SaveRetry, SaveEnqueue
<1>4. CASE CommitCancel(p)
  <2> DEFINE j == req[p].job
  <2>1. req[p].ent \in EvaluationJob
    BY <1>0 DEF Request
  <2>2. j \in Jobs /\ req[p].ent.status = "cancelled"
    BY <1>0, <1>4 DEF CommitCancel, At, Holds
  <2>3. row' = [row EXCEPT ![j] = Save(row[j], req[p].ent, req[p].base)]
    BY <1>4 DEF CommitCancel
  <2>4. NoneStarted
    BY <1>1, <2>1, <2>2, <2>3
  <2> QED BY <1>4, <2>4 DEF CommitCancel
<1>5. CASE AddFails(p)
  <2>1. req[p].job \in Jobs
    BY <1>0, <1>5 DEF AddFails, At, Holds, Enqueuers
  <2>2. row[req[p].job] \in EvaluationJob
    BY <1>0, <2>1 DEF TypeOK
  <2> QED BY <1>0, <1>5, <2>1, <2>2 DEF AddFails, TypeOK, EvaluationJob
<1>6. CASE CancelPending(p)
  <2>1. \A j \in Jobs : row[j] \in EvaluationJob
    BY <1>0 DEF TypeOK
  <2> QED BY <1>6, <2>1 DEF CancelPending, EvaluationJob
<1>7. CASE \/ SelectRetry(p) \/ RemoveQueued(p) \/ LookUp(p) \/ SelectEnqueue(p)
           \/ Add(p) \/ RemoveCancelled(p) \/ SelectCancel(p)
  BY <1>7 DEF SelectRetry, RemoveQueued, LookUp, SelectEnqueue, Add,
              RemoveCancelled, SelectCancel
<1> QED BY <1>2, <1>3, <1>4, <1>5, <1>6, <1>7 DEF HandlerStep

\* A worker's write ends the processing of its own row, unless the row is not
\* touched because it was cancelled.
LEMMA UpdatedRow ==
  ASSUME TypeOK, NEW j \in Jobs, NEW status, NEW attempts,
         row' = UpdateJobStatus(j, status, attempts)
  PROVE  /\ \A i \in Jobs \ {j} : row'[i] = row[i]
         /\ row'[j].status = IF row[j].status = "cancelled" THEN "cancelled" ELSE status
<1>1. row[j] \in EvaluationJob
  BY DEF TypeOK
<1> QED BY <1>1 DEF UpdateJobStatus, TypeOK, EvaluationJob

\* Worker w's own step: it lets go of its row only when the row has another status.
LEMMA WorkerKeepsItsRow ==
  ASSUME JobsInv, OneActiveJob, ProcessingIsWorkedOn, NEW w \in Workers, WorkerStep(w)
  PROVE  ProcessingIsWorkedOn'
<1>1. Busy(w)
  BY DEF WorkerStep, ReadState, Start, Evaluated, BeginCommit, CommitResults, Throw,
         Finish, Rethrow, WorkerAt, Busy, Free
<1>j. PICK j \in Jobs : j = worker[w].job
  BY <1>1 DEF JobsInv, WorkersHoldEntries
<1>2. /\ TypeOK /\ row[j] \in EvaluationJob
      /\ worker[w] \in Worker
      /\ \A v \in Workers : v # w /\ Busy(v) => worker[v].job # j
  BY <1>1, <1>j DEF JobsInv, WorkersHoldEntries, TypeOK
<1>3. \A v \in Workers \ {w} : worker'[v] = worker[v]
  BY <1>2 DEF WorkerStep, ReadState, Start, Evaluated, BeginCommit, CommitResults, Throw,
              Finish, Rethrow, Step, TypeOK
<1>4. row[j].status = "processing" => WorksOn(w, j)
  <2> SUFFICES ASSUME row[j].status = "processing" PROVE WorksOn(w, j)
    OBVIOUS
  <2>1. PICK v \in Workers : WorksOn(v, j)
    BY DEF ProcessingIsWorkedOn
  <2>2. Busy(v)
    BY <2>1 DEF WorksOn, Busy, Free
  <2> QED BY <1>2, <2>1, <2>2 DEF WorksOn
\* It is enough to look at the row of w: another's worker stays with it.
<1>5. ASSUME \A i \in Jobs \ {j} : row'[i] = row[i],
             row'[j].status = "processing" => WorksOn(w, j)'
      PROVE  ProcessingIsWorkedOn'
  <2> SUFFICES ASSUME NEW i \in Jobs, row'[i].status = "processing"
               PROVE  \E v \in Workers : WorksOn(v, i)'
    BY DEF ProcessingIsWorkedOn
  <2>1. CASE i = j
    BY <1>5, <2>1
  <2>2. CASE i # j
    <3>1. PICK v \in Workers : WorksOn(v, i)
      BY <1>5, <2>2 DEF ProcessingIsWorkedOn
    <3>2. v # w
      BY <1>j, <2>2, <3>1 DEF WorksOn
    <3>3. WorksOn(v, i)'
      BY <1>3, <3>1, <3>2 DEF WorksOn
    <3> QED BY <3>3
  <2> QED BY <2>1, <2>2
<1>6. CASE ReadState(w)
  <2>1. ~ WorksOn(w, j) /\ row' = row
    BY <1>6 DEF ReadState, WorkerAt, WorksOn
  <2> QED BY <1>4, <1>5, <2>1
<1>7. CASE Start(w)
  <2>1. \A i \in Jobs \ {j} : row'[i] = row[i]
    BY <1>2, <1>7, <1>j, UpdatedRow DEF Start
  <2>2. WorksOn(w, j)'
    BY <1>2, <1>7, <1>j DEF Start, Step, WorksOn, TypeOK, Worker
  <2> QED BY <1>5, <2>1, <2>2
<1>8. CASE Evaluated(w) \/ BeginCommit(w)
  <2>1. row' = row
    BY <1>8 DEF Evaluated, BeginCommit
  <2>2. row[j].status # "cancelled" => WorksOn(w, j)'
    BY <1>2, <1>8, <1>j DEF Evaluated, BeginCommit, Step, WorksOn, TypeOK, Worker
  <2> QED BY <1>5, <2>1, <2>2
<1>9. CASE CommitResults(w)
  <2>1. row' = UpdateJobStatus(j, "completed", row[j].attempts)
    BY <1>9, <1>j DEF CommitResults
  <2> QED BY <1>2, <1>5, <2>1, UpdatedRow
<1>10. CASE Throw(w)
  <2> DEFINE made == queue[j].attemptsMade + 1
             status == IF made < MaxAttempts THEN "pending" ELSE "failed"
             rows == UpdateJobStatus(j, status, made)
  <2>1. row' = IF JobAccepted(rows, j) THEN rows ELSE row
    BY <1>10, <1>j DEF Throw
  <2>2. CASE JobAccepted(rows, j)
    <3>1. row' = rows /\ status # "processing"
      BY <2>1, <2>2
    <3> HIDE DEF status, made
    <3>2. row'[j].status # "processing" /\ \A i \in Jobs \ {j} : row'[i] = row[i]
      BY <1>2, <3>1, UpdatedRow
    <3> QED BY <1>5, <3>2
  <2>3. CASE ~ JobAccepted(rows, j)
    <3>1. row' = row
      BY <2>1, <2>3
    <3>2. row[j].status # "processing"
      <4> SUFFICES ASSUME row[j].status = "processing" PROVE JobAccepted(rows, j)
        BY <2>3
      <4>1. /\ \A i \in Jobs \ {j} : rows[i] = row[i]
            /\ rows[j].work = row[j].work
        BY <1>2 DEF UpdateJobStatus, TypeOK, EvaluationJob
      <4>2. \A i \in Jobs \ {j} :
              row[i].status \in ActiveStatus => row[i].work # row[j].work
        BY <1>2 DEF OneActiveJob, ActiveStatus
      <4> HIDE DEF rows
      <4> QED BY <4>1, <4>2 DEF JobAccepted
    <3> QED BY <1>5, <3>1, <3>2
  <2> QED BY <2>2, <2>3
<1>11. CASE Finish(w) \/ Rethrow(w)
  <2>1. ~ WorksOn(w, j) /\ row' = row
    BY <1>11 DEF Finish, Rethrow, WorkerAt, WorksOn
  <2> QED BY <1>4, <1>5, <2>1
<1> QED BY <1>6, <1>7, <1>8, <1>9, <1>10, <1>11 DEF WorkerStep

\* While no worker dies, every step keeps the processing rows in somebody's hands.
LEMMA UndisturbedKeepsAtWork ==
  JobsInv /\ OneActiveJob /\ ProcessingIsWorkedOn /\ [Undisturbed]_vars
    => ProcessingIsWorkedOn'
<1> SUFFICES ASSUME JobsInv, OneActiveJob, ProcessingIsWorkedOn, [Undisturbed]_vars
             PROVE  ProcessingIsWorkedOn'
  OBVIOUS
<1>1. ASSUME NoneStarted, worker' = worker PROVE ProcessingIsWorkedOn'
  BY <1>1 DEF NoneStarted, ProcessingIsWorkedOn, WorksOn
<1>2. ASSUME NEW p \in Requests, RequestBegin(p) PROVE row' = row /\ worker' = worker
  BY <1>2 DEF RequestBegin, BeginTrigger, BeginRetry, BeginCancel, Drain
<1>3. ASSUME NEW j \in Jobs, BeginReconcile(j) \/ Promote(j) \/ Expire(j)
      PROVE  row' = row /\ worker' = worker
  BY <1>3 DEF BeginReconcile, Promote, Expire
<1>4. ASSUME NEW p \in Procs, Fail(p) PROVE row' = row /\ worker' = worker
  BY <1>4 DEF Fail
<1>5. ASSUME NEW w \in Workers, NEW j \in Jobs, Take(w, j) PROVE ProcessingIsWorkedOn'
  <2>1. row' = row /\ \A v \in Workers \ {w} : worker'[v] = worker[v]
    BY <1>5 DEF Take, JobsInv, TypeOK
  <2>2. \A i \in Jobs : ~ WorksOn(w, i)
    BY <1>5 DEF Take, WorksOn, Free
  <2> QED BY <2>1, <2>2 DEF ProcessingIsWorkedOn, WorksOn
<1>6. row' = row => NoneStarted
  BY DEF NoneStarted
<1>7. CASE UNCHANGED vars
  BY <1>1, <1>6, <1>7 DEF vars
<1> QED BY <1>1, <1>2, <1>3, <1>4, <1>5, <1>6, <1>7, HandlersStartNone, WorkerKeepsItsRow
        DEF Undisturbed

\* As long as no worker dies, the queue holds every processing row: its worker has
\* it, and BullMQ leaves an active entry alone whatever handlers do to the job.
THEOREM ProcessingHeld == FairSpec => []ProcessingIsHeld
<1>1. Init => ProcessingIsWorkedOn /\ OneActiveJob
  BY DEF Init, ProcessingIsWorkedOn, OneActiveJob, NoJob, ActiveStatus
<1>2. [Undisturbed]_vars => [Next]_vars
  BY DEF Next, Recoverable
<1>3. FairSpec => Spec
  BY <1>2, PTL DEF FairSpec, Spec
<1>4. FairSpec => [](JobsInv /\ OneActiveJob)
  BY <1>3, JobsHold, OneActive, PTL
<1>5. FairSpec => []ProcessingIsWorkedOn
  BY <1>1, <1>4, UndisturbedKeepsAtWork, PTL DEF FairSpec
<1>6. JobsInv /\ ProcessingIsWorkedOn => ProcessingIsHeld
  <2> SUFFICES ASSUME JobsInv, ProcessingIsWorkedOn, NEW j \in Jobs,
                      row[j].status = "processing"
               PROVE  queue[j].state = "active"
    BY DEF ProcessingIsHeld
  <2>1. PICK w \in Workers : WorksOn(w, j)
    BY DEF ProcessingIsWorkedOn
  <2> QED BY <2>1 DEF WorksOn, Busy, Free, JobsInv, WorkersHoldEntries
<1> QED BY <1>4, <1>5, <1>6, PTL
=============================================================================
