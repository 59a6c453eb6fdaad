----------------------------- MODULE Submissions -----------------------------
(***************************************************************************)
(* The work a team hands in for a stage: drafts, submission, approval and  *)
(* grading of submissions.service.ts, and what the evaluation worker reads *)
(* and writes of it.                                                       *)
(*                                                                         *)
(* No handler locks the row. What keeps participants, staff and the worker *)
(* apart is its status: each may only take it up where the others may not. *)
(* Nothing keeps two members apart, or two of staff.                       *)
(***************************************************************************)
EXTENDS Naturals, Sequences

CONSTANTS
  Works,          \* (team, stage) pairs of active stages
  Manual,         \* those whose stage requires manual approval
  LateAllowed,    \* those whose stage allows late submissions
  Contents,       \* content, files and video of a submission
  Participants,   \* bound: requests of a team's members in flight at once
  Staff,          \* bound: requests of staff in flight at once
  MaxVersion,     \* bound on submissions.version and on the history's length
  Null            \* SQL NULL, or no row

ASSUME StagesAssumption == Manual \subseteq Works /\ LateAllowed \subseteq Works
ASSUME ProcsAssumption == Participants \cap Staff = {}
ASSUME VersionAssumption == MaxVersion \in Nat \ {0}

VARIABLES
  row,            \* submissions, at most one for each of the Works
  history,        \* submission_history
  past,           \* the stages' deadlines that have passed
  req,            \* what each handler holds between two steps
  job,            \* the worker's evaluation, with the content it read
  result,         \* the content the stored AI evaluation is of
  overwritten     \* auxiliary: works where a request overwrote a rival's write

vars == <<row, history, past, req, job, result, overwritten>>

-----------------------------------------------------------------------------
Procs == Participants \cup Staff

SubmissionStatus == {"draft", "submitted", "late", "pending_approval",
                     "approved", "rejected", "evaluated"}
Submission == [status : SubmissionStatus, content : Contents, version : 1 .. MaxVersion]
Entry == [version : 1 .. MaxVersion, content : Contents]

\* Handler: the row it read, the entity it saves and what save() selected;
\* auxiliary: whether no rival has written the row since it was read.
Request == [op : {"saveDraft", "submit", "evaluate", "approve", "reject"},
            step : {"save", "write"}, work : Works,
            read : Submission \cup {Null}, ent : Submission,
            base : Submission \cup {Null}, fresh : BOOLEAN]
Job == [step : {"none", "queued"}, content : {Null}]
       \cup [step : {"evaluating"}, content : Contents]

ASSUME NullAssumption ==
  Null \notin Works \cup Contents \cup Submission \cup Request

NoJob == [step |-> "none", content |-> Null]
Queued == [step |-> "queued", content |-> Null]

Exists(w) == row[w] # Null
Has(w, statuses) == Exists(w) /\ row[w].status \in statuses

Init ==
  /\ row = [w \in Works |-> Null]
  /\ history = [w \in Works |-> << >>]
  /\ past = {}
  /\ req = [h \in Procs |-> Null]
  /\ job = [w \in Works |-> NoJob]
  /\ result = [w \in Works |-> Null]
  /\ overwritten = {}

Begin(h, op, w, ent) ==
  /\ req[h] = Null
  /\ req' = [req EXCEPT ![h] = [op |-> op, step |-> "save", work |-> w,
                                read |-> row[w], ent |-> ent, base |-> Null,
                                fresh |-> TRUE]]
  /\ UNCHANGED <<row, history, past, job, result, overwritten>>

End(h) == req' = [req EXCEPT ![h] = Null]

-----------------------------------------------------------------------------
(* Participants.                                                           *)

\* isOpen() of an active stage that has started.
IsOpen(w) == w \notin past \/ w \in LateAllowed

EditableUnlessJudged(w) ==   \* mutant: what waits for approval may be edited
  \/ ~ Exists(w)
  \/ Has(w, {"draft", "rejected", "pending_approval"})
Editable(w) == ~ Exists(w) \/ Has(w, {"draft", "rejected"})

Allowed(w) == Editable(w) /\ (IsOpen(w) \/ Has(w, {"rejected"}))

SameVersion(sub) == sub.version     \* mutant: the version is not counted
NextVersion(sub) == sub.version + 1

\* The entity to save: a new row, or the row with new content.
Revised(w, content, status) ==
  IF Exists(w)
  THEN [status |-> status, content |-> content, version |-> NextVersion(row[w])]
  ELSE [status |-> status, content |-> content, version |-> 1]

SaveDraft(h, w, content) ==
  /\ Allowed(w)
  /\ Exists(w) => row[w].version < MaxVersion /\ Len(history[w]) < MaxVersion
  /\ Begin(h, "saveDraft", w,
           Revised(w, content, IF Exists(w) THEN row[w].status ELSE "draft"))

Received(w) == IF w \in Manual THEN "pending_approval"
               ELSE IF w \in past THEN "late" ELSE "submitted"

Submit(h, w, content) ==
  /\ Allowed(w)
  /\ Exists(w) => row[w].version < MaxVersion /\ Len(history[w]) < MaxVersion
  /\ Begin(h, "submit", w, Revised(w, content, Received(w)))

-----------------------------------------------------------------------------
(* Staff.                                                                  *)

EvaluateSubmission(h, w) ==
  /\ Exists(w) /\ row[w].status # "draft"
  /\ Begin(h, "evaluate", w, [row[w] EXCEPT !.status = "evaluated"])

DecidableOnceSubmitted(w) ==     \* mutant: only drafts are beyond decision
  Exists(w) /\ row[w].status # "draft"
Decidable(w) == Has(w, {"pending_approval"}) \/ (Has(w, {"late"}) /\ w \in Manual)

ApproveSubmission(h, w) ==
  /\ Decidable(w)
  /\ Begin(h, "approve", w, [row[w] EXCEPT !.status = "approved"])

RejectSubmission(h, w) ==
  /\ Decidable(w)
  /\ Begin(h, "reject", w, [row[w] EXCEPT !.status = "rejected"])

-----------------------------------------------------------------------------
(* repository.save(): INSERT of a new entity, which the unique index       *)
(* (teamId, stageId) may refuse, or SELECT and UPDATE of what differs. The *)
(* history entry of a revision is part of the same transaction.            *)

\* Two requests of the same side on one work are rivals, and whoever grades
\* rejected work, which the team may be revising, is a rival of everybody.
SameSide(g, h) == g \in Participants <=> h \in Participants
Regrades(h) == req[h].op = "evaluate" /\ req[h].read.status = "rejected"
Rivals(g, h) ==
  /\ req[h] # Null
  /\ req[h].work = req[g].work
  /\ SameSide(g, h) \/ Regrades(g) \/ Regrades(h)

Write(h, new) ==
  LET w == req[h].work
  IN  /\ row' = [row EXCEPT ![w] = new]
      /\ req' = [g \in Procs |-> IF g = h THEN Null
                                ELSE IF Rivals(h, g)
                                     THEN [req[g] EXCEPT !.fresh = FALSE]
                                     ELSE req[g]]
      /\ overwritten' = IF req[h].fresh THEN overwritten
                        ELSE overwritten \cup {w}

Insert(h) ==
  /\ req[h] # Null /\ req[h].step = "save" /\ req[h].read = Null
  /\ IF Exists(req[h].work)
     THEN End(h) /\ UNCHANGED <<row, overwritten>>
     ELSE Write(h, req[h].ent)
  /\ UNCHANGED <<history, past, job, result>>

Select(h) ==
  /\ req[h] # Null /\ req[h].step = "save" /\ req[h].read # Null
  /\ req' = [req EXCEPT ![h].step = "write", ![h].base = row[req[h].work]]
  /\ UNCHANGED <<row, history, past, job, result, overwritten>>

Changed(now, ent, base) ==
  [status  |-> IF ent.status # base.status THEN ent.status ELSE now.status,
   content |-> IF ent.content # base.content THEN ent.content ELSE now.content,
   version |-> IF ent.version # base.version THEN ent.version ELSE now.version]

EntryOfRevision(read, ent) ==    \* mutant: kept after the fields are assigned
  [version |-> read.version, content |-> ent.content]
EntryOf(read, ent) == [version |-> read.version, content |-> read.content]

Update(h) ==
  /\ req[h] # Null /\ req[h].step = "write"
  /\ LET w == req[h].work
     IN  /\ Write(h, Changed(row[w], req[h].ent, req[h].base))
         /\ history' = IF h \in Participants
                       THEN [history EXCEPT ![w] =
                               Append(@, EntryOf(req[h].read, req[h].ent))]
                       ELSE history
  /\ UNCHANGED <<past, job, result>>

\* A validation, the database or the process fails: nothing is committed.
Fail(h) ==
  /\ req[h] # Null
  /\ End(h)
  /\ UNCHANGED <<row, history, past, job, result, overwritten>>

DeadlinePasses(w) ==
  /\ w \notin past /\ past' = past \cup {w}
  /\ UNCHANGED <<row, history, req, job, result, overwritten>>

\* updateStage moves the deadline into the future.
ExtendDeadline(w) ==
  /\ w \in past /\ past' = past \ {w}
  /\ UNCHANGED <<row, history, req, job, result, overwritten>>

-----------------------------------------------------------------------------
(* The evaluation job of EvaluationJobs, as far as it touches submissions. *)

EligibleOnceSubmitted(w) ==      \* mutant: approval is not waited for
  Has(w, {"submitted", "late", "pending_approval", "approved", "evaluated"})
Eligible(w) ==
  Has(w, IF w \in Manual THEN {"approved", "evaluated"}
         ELSE {"submitted", "approved", "late", "evaluated"})

TriggerEvaluation(w) ==
  /\ job[w] = NoJob /\ Eligible(w)
  /\ job' = [job EXCEPT ![w] = Queued]
  /\ UNCHANGED <<row, history, past, req, result, overwritten>>

FetchSubmission(w) ==
  /\ job[w] = Queued /\ Eligible(w)
  /\ job' = [job EXCEPT ![w] = [step |-> "evaluating", content |-> row[w].content]]
  /\ UNCHANGED <<row, history, past, req, result, overwritten>>

CommitResults(w) ==
  /\ job[w].step = "evaluating"
  /\ row' = [row EXCEPT ![w].status = "evaluated"]
  /\ result' = [result EXCEPT ![w] = job[w].content]
  /\ job' = [job EXCEPT ![w] = NoJob]
  /\ UNCHANGED <<history, past, req, overwritten>>

\* The attempt fails or the job is cancelled; BullMQ may try again.
Throw(w) ==
  /\ job[w] # NoJob
  /\ \E next \in {NoJob, Queued} : job' = [job EXCEPT ![w] = next]
  /\ UNCHANGED <<row, history, past, req, result, overwritten>>

-----------------------------------------------------------------------------
ParticipantNext(h) ==
  \E w \in Works, content \in Contents :
    SaveDraft(h, w, content) \/ Submit(h, w, content)
StaffNext(h) ==
  \E w \in Works :
    EvaluateSubmission(h, w) \/ ApproveSubmission(h, w) \/ RejectSubmission(h, w)
SaveNext(h) == Insert(h) \/ Select(h) \/ Update(h) \/ Fail(h)
StageNext(w) ==
  \/ DeadlinePasses(w) \/ ExtendDeadline(w)
  \/ TriggerEvaluation(w) \/ FetchSubmission(w) \/ CommitResults(w) \/ Throw(w)

Next ==
  \/ \E h \in Participants : ParticipantNext(h)
  \/ \E h \in Staff : StaffNext(h)
  \/ \E h \in Procs : SaveNext(h)
  \/ \E w \in Works : StageNext(w)

Spec == Init /\ [][Next]_vars

-----------------------------------------------------------------------------
(* Properties, for any numbers of requests. They hold of a submission as   *)
(* long as no request has overwritten what a rival wrote after it read:    *)
(* up to there the statuses are enough, from there on the code keeps none  *)
(* of them.                                                                *)

Intact == Works \ overwritten

\* The types of the tables and handlers; the history of an intact submission
\* has an entry for each version before the current one.
TypeOK ==
  /\ row \in [Works -> Submission \cup {Null}]
  /\ history \in [Works -> Seq(Entry)]
  /\ \A w \in Intact : Exists(w) => Len(history[w]) + 1 = row[w].version
  /\ past \subseteq Works
  /\ req \in [Procs -> Request \cup {Null}]
  /\ job \in [Works -> Job]
  /\ result \in [Works -> Contents \cup {Null}]
  /\ overwritten \subseteq Works

\* Only a save of the team changes the content of an intact submission, and
\* what it overwrites is kept, under its version.
ContentKept ==
  [][\A w \in Intact' :
       Exists(w) /\ row'[w].content # row[w].content =>
         history'[w] = Append(history[w], EntryOf(row[w], row[w]))]_vars

\* The stored AI evaluation is of the content an intact submission has: nobody
\* revises what the worker evaluates, or was evaluated.
ResultFitsContent ==
  \A w \in Intact : result[w] # Null => Exists(w) /\ result[w] = row[w].content

\* An intact submission is approved or rejected as staff read it: a decision in
\* progress that no rival has overtaken meets the same row, whatever drafts,
\* submissions, deadlines and evaluations go on next to it.
JudgedAsRead ==
  \A h \in Staff :
    /\ req[h] # Null
    /\ req[h].op \in {"approve", "reject"}
    /\ req[h].fresh
    /\ req[h].work \in Intact
    => row[req[h].work] = req[h].read

\* isMentorClaimUnlockedForTeam: an intact submission that unlocks the claim of
\* a mentor goes on to do so.
Unlocks(w) == Has(w, {"approved", "evaluated"})
UnlockedStays == [][\A w \in Intact' : Unlocks(w) => Unlocks(w)']_vars

-----------------------------------------------------------------------------
(* What the repository says of the code and the code does not do.          *)

\* stage.entity.ts on requiresManualApproval: "Staff must manually approve
\* submissions before they count as evaluated".  Staff may grade by hand what
\* waits for approval, and even what was rejected.
ApprovedBeforeEvaluated ==
  [][\A w \in Manual : Has(w, {"evaluated"})' =>
       Has(w, {"approved", "evaluated"})]_vars
=============================================================================
