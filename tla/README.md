# Formal models of the ACMP platform

This directory holds TLA+ models of the ATF AI-Challenge Management Platform
(`apps/api`, NestJS over PostgreSQL, Redis and BullMQ), the configurations with
which TLC checks them, and proofs that TLAPS checks. It is written to be kept
beside the code: `PROJECT.json` maps every definition to the lines it models.

    tlc -workers 2 -config MentorSessions.cfg MCMentorClaims.tla
    tlapm MentorClaimsProofs.tla

Part | Model | Instances for TLC | Proofs
--- | --- | --- | ---
Mentor claims (section 3) | `MentorClaims`, `SessionCalendar` | `MCMentorClaims`: `MentorSessions.cfg`, `MentorSwaps.cfg`, `MentorExpiry.cfg` | `MentorClaimsProofs`
Evaluation jobs (4) | `EvaluationJobs` | `MCEvaluationJobs`: `EvaluationJobs.cfg`, `EvaluationResults.cfg`, `EvaluationSettle.cfg` | `EvaluationJobsProofs`
Teams (5) | `TeamMembership` | `MCTeamMembership`: `TeamProtocol.cfg`, `TeamRaces.cfg` | `TeamMembershipProofs`, `TeamProtocolProofs`
Matching and formation (6) | `BriefPlaces`, `BriefMatching`, `TeamFormation`, `Placement` | `MCPlacement`: `Placement.cfg` | `PlacementProofs`, `FormationProofs`
Submissions (7) | `Submissions` | `MCSubmissions`: `Submissions.cfg` | `SubmissionsProofs`
Brief events (8) | `BriefEvents`, `InvitationDelivery` | `MCBriefEvents`: `BriefSchedule.cfg`, `BriefDelivery.cfg` | `BriefEventsProofs`

## 1. The system

One NestJS process (or several behind a load balancer) serves four portals.
State lives in PostgreSQL; handlers are TypeScript methods that read rows,
check, and write rows back with TypeORM's `save()`. Three things make the code
hard to get right.

- **Stale entities.** `save(entity)` first SELECTs the row, then UPDATEs the
  columns in which the entity differs from what the SELECT found. A check made
  on a read is out of date when the write happens, and a column can be written
  with a value that is older than the row.
- **Partial protection.** `@Transactional()` makes a handler atomic as regards
  failure, at READ COMMITTED, and `@Transactional("scope")` adds an advisory
  lock on the first argument. The invariants themselves are guarded by indexes
  and triggers (migration `1793577600000`). Scheduled jobs have neither
  transaction nor lock.
- **Two stores.** Evaluation jobs are rows in PostgreSQL and entries in Redis,
  events are rows and a meeting in Zoom and messages in three channels, and no
  transaction spans both.
- **Previews.** Matching and team formation show staff a proposal, and carry it
  out up to half an hour later on teams that have changed.

### Inventory

Component | State | Operations | Interacts with | What makes it correct
--- | --- | --- | --- | ---
mentor claims and sessions | `mentor_claims`, `scheduled_sessions` | claim, release, swap; book, update, cancel, confirm, decline, complete, rate | mentors, availability, submissions (unlocking), calendar | one active mentor per team, mentor capacity, same cohort, no double booking, declined stays declined, count of sessions right
mentor claims scheduler | none of its own | hourly expiry and non-response, reminders, warnings | every claim handler | overdue claims end; a released claim has no live session
mentor availability | windows, exceptions | create, update, delete, `getAvailableSlots` | booking | no overlapping windows; slots clear of sessions
mentors, mentor invites | `mentors`, invite queue | CRUD, import, status, deletion and restoration | claims | status, cohort and capacity read by the claim trigger
mentor payments | `mentor_payments` | record, earnings | completed sessions | never pay a session twice
evaluation jobs | `evaluation_jobs`, queue | trigger, retry, reconcile, cancel, clear, pause | worker, Redis | one active job per submission; jobs end; cancellation respected
evaluation worker | BullMQ entry, `evaluations` | process, commit | Gemini, GitHub, documents | a completed job has its result; retries end
Gemini, documents and code analysis | none | external calls | worker | time out or throw
teams | `teams`, `team_members`, invitations, removal requests, chat channel | create, join, confirm, decline, remove, invite, accept, roles, disqualify, assign brief | participants, briefs, chat | capacity, one confirmed team per participant, one lead, chat membership follows team membership
team formation | cached preview, teams, members, briefs | run, finalize | teams, matching | nobody proposed twice, legal sizes, nobody left behind, briefs not overbooked
brief matching | cached preview, brief assignment | run, finalize | teams, formation | greedy choice is stable, briefs not overbooked
submissions, deadline reminders | `submissions`, history | draft, submit, approve, reject, evaluate | stages, evaluation worker, uploads | what is judged is what was read, results fit the content, nothing lost, unlock rule for mentor claims
briefs and brief scoring | `briefs`, scores | propose, approve, score | teams, organizations | approval lifecycle, count of teams
brief events | events, attendees, host invitations | create, update, cancel, sync every minute | Zoom, e-mail, notifications, push | one event at a time on the host; everybody and Zoom get the last revision; an older one follows a newer only from a run that lost its lock
cohorts and stages | `cohorts`, `stages` | CRUD | all | deadlines, groups
participants, organizations and partner import | rows, invite queues, import records | CRUD, import, invite | teams, briefs | import idempotent
authentication, resource access | refresh tokens, verification codes | sign in, magic code, refresh, password change | all | a code is used once; revoked stays revoked
chat | channels, members, messages | sockets and REST | teams | membership
notifications | rows, push, sockets | triggers | all | messages only
peer reviews, certificates and leaderboard | reviews, certificates | assign, score, issue | evaluations | no self-review, ranking consistent
forum, journals, announcements, resources, verticals | single rows | CRUD | - | -
users, setup, public, dashboard, audit, activity | rows, logs | administration, views | - | -
calendar, e-mail and upload; common services | external | I/O, cache, `Transactional` | all | -
web application and shared packages | browser | UI, input schemas | API | -

The hazards these parts are exposed to, at their lines and with the properties
that cover them, are listed in `PROJECT.json`.

## 2. Plan

The parts that hold state under concurrent writers came first, the richest of
them at the head of the list; all of these are modelled, checked and proved.

1. `MentorClaims`: claims and sessions with their scheduler, and
   `SessionCalendar`, what booking promises the mentors.
2. `EvaluationJobs`: row, queue and worker.
3. `TeamMembership`: members, join requests, invitations, removal requests,
   roles, the channel of a team, and assignment of briefs.
4. `BriefEvents` with `InvitationDelivery`, what its synchronization promises.
5. `BriefPlaces`, `BriefMatching` and `TeamFormation`, composed in `Placement`.
6. `Submissions`: the life of a submission next to the evaluation worker, and
   whether a submission that unlocks the claim of a mentor goes on to do so.

What could follow, in this order: the composition of `Submissions` with
`EvaluationJobs`, where now each has a short version of the other; editing of
availability windows and the generation of slots; the assignment of peer
reviews and the scores of rubrics, as functions checked against reference
definitions; pausing the queue.

## 3. Mentor claims

### Module `MentorClaims`

State: `claims` and `sessions` are the two tables (a row whose status is
`"absent"` has not been inserted), `mentors` the status, cohort and deletion of
each mentor, `now` a clock, and `tx` what each request or job in flight holds: the
entity it read (`cent`, `sent`), what the SELECT of `save()` returned (`cbase`,
`sbase`), the sessions it is about to cancel (`live`). Whether a team's
submissions unlock claiming is left open: a claim may begin at any time.

Code | Actions
--- | ---
`claimMentor` with `checkClaimEligibility` | `BeginClaim`, `CommitClaim`
`releaseClaim`, `swapMentor`, `cancelAllClaimSessions` | `BeginRelease`, `BeginSwap`, `FindSessions`, `SaveSessions`, `CommitRelease`, `CommitSwap`
`bookSession` with `getAvailableSlots` | `BeginBook`, `CommitBook`
`updateSession` | `BeginUpdate`, `SelectSession`, `CommitUpdate`
`cancelSession`, `confirmSession`, `declineSession` | `BeginCancel`, `BeginConfirm`, `BeginDecline`, `CommitCancel`, `CommitConfirm`, `CommitDecline`
`completeSession` | `BeginComplete`, `SaveCompleted`, `CommitComplete`
`rateSession` | `BeginRate`, `SelectSession`, `CommitRate`
`processExpiredClaims` | `BeginExpire`, `CronCancel`, `CronSelect`, `CronCommit`
`processMentorNonResponse` | `ListNonResponse`, `LoadNonResponse`, `CronCancel`, `CronSelect`, `CronCommit`
a failing statement, a dying process | `Fail`
`MentorsService.update`, `delete`, and `restore`, `create` or `bulkImport` of a deleted mentor | `UpdateMentor`, `DeleteMentor`, `RestoreMentor`
time | `Tick`

A handler is cut where another process can commit between two statements that
matter to it: after the read its checks use, after the SELECT of a save whose
entity may be stale, and at the commit. The index and the triggers are
predicates on the table with the new row (`ClaimAccepted`, `SessionAccepted`);
a write that they refuse is a transaction that rolls back, which is `Fail`. The
triggers take the mentor's row lock before they count, so checking and
committing are one step. `AdvisoryFree` is the `mentor-session` lock; `RowsFree`
keeps the row locks of a transaction between its session writes and its commit.
`SaveClaim` and `SaveSession` write changed columns only.

A detail the jobs depend on: they save a claim together with its loaded
sessions. A session booked since is, to TypeORM, one removed from the relation;
it sets its `claim_id` to NULL, the column forbids that, and the job stops with
an error (`CronSelect`).

Deletion is soft, whatever claims the mentor has, and a join leaves a deleted mentor
out (`Joined`). An entity loaded with such a join has `mentor` null, which `save()`
takes for a change of `mentor_id` to NULL and the column forbids: every handler and
job that saves one fails (`Present` in their guards, `CronSelect`). The claim trigger
reads the row all the same, deleted or not.

### Properties

`TypeOK`; then `OneActiveClaimPerTeam`, `MentorCapacity` and `ClaimedInOwnCohort`
(races between claims, swaps, completions and jobs with stale entities, and staff
who delete and restore mentors; the last is an action property, about the moment a
claim becomes active), `NoDoubleBooking` (check and insert are far apart),
`DeclinedStaysDeclined` (an action property: only the cancellation of its claim
touches a declined session), `ImplementsCalendar`, `OverdueClaimsEnd` (liveness of
the hourly job for claims without a completed or a booked session, although a
booking in between makes it fail; claims of a deleted mentor are excepted).

`SessionCalendar` is the abstract specification of booking: a session takes a
time of its mentor only where it clashes with no other, and any number of
sessions give theirs up at once. Under the mapping `Calendar` (a live session is
at its slot with the mentor of its claim, any other has no place) every step of
a handler or job is one of these two or a stutter. That is more than
`NoDoubleBooking`, which a step could keep that moves two sessions at once or
revives one while it ends another.

Run | Instance | Properties
--- | --- | ---
`MentorSessions` | 1 team, 1 mentor, 1 claim, 2 sessions, 3 clashing slots, 2 processes, 506,063 states | `TypeOK`, `NoDoubleBooking`, `DeclinedStaysDeclined`, `ImplementsCalendar`
`MentorSwaps` | 2 teams, 2 mentors, one of whom staff move between 2 cohorts, 3 claims, 1 session, 2 processes, started with an overdue claim whose session is over, 1,041,208 states | `OneActiveClaimPerTeam`, `MentorCapacity`, `ClaimedInOwnCohort`
`MentorExpiry` | 1 claim, 1 session, 2 processes, a mentor whom staff may delete, fair, 58,404 states | `OverdueClaimsEnd`

Bounds. Two processes are a race; what a third would add is a third stale copy,
and the proofs below cover every number. Two sessions and three slots give equal,
adjacent and overlapping bookings. `MaxSessions` is 2 where the code has 3,
`MaxClaims` 1, days are clock ticks and the clock stops at `MaxNow`, after every
deadline. `MentorSwaps` begins with `AfterFirstSession`, because the steps up to it
would multiply the states: the claim is overdue, its session over and still to be
confirmed, declined, cancelled or completed, and the mentor's answer is overdue, so
that completion, expiry, the non-response job and a new claim of the ended one's
mentor or team all race. `Managed` names the mentors whose rows staff change: none in
`MentorSessions`, where a deletion would only refuse more requests.

Fairness (`FairSpec`). The jobs are started every hour (`@Cron(EVERY_HOUR)`), so
each is started again and again whenever a process slot is free in between: strong
fairness of `BeginExpire`. A started job goes on; a transaction ends, by commit
or by a rollback of some timeout. `NoMoreCrashes` says that from some time on no
job is killed halfway; a job may still stop where its own code fails.
Without that assumption an API that dies during every job would expire nothing.

What the code does not keep. The first four statements are in the module; put into
`MentorSessions.cfg` as an INVARIANT, the fourth into `MentorSwaps.cfg`, each gets a
short counterexample (`SessionsCounted` with `MaxNow = 3`, so that two sessions can
be over); the last is refuted with `MentorExpiry.cfg`:

- `LiveSessionHasActiveClaim`: the non-response job releases a claim because of
  one unanswered request, cancels the unconfirmed sessions only, and a confirmed
  session stays live on the released claim.
- `SessionsCounted`: two sessions of a claim completed at the same time hold two
  different advisory locks, both read the count, and one completion is lost.
- `ExpiringClaimsHaveNoSession`: the expiry job asks for no *completed* session
  where its comment says *booked*: it cancels the booked session and expires the
  claim. `OverdueClaimsEnd` asks nothing of such a claim.
- `MentorOfOwnCohort`: a mentor deleted with an active claim and restored in another
  cohort keeps the claim; no trigger looks at `mentors`.
- `OverdueClaimsEnd` without its last disjunct: the claim of a deleted mentor never
  expires, since its save fails every hour. The error leaves the job's loop, so the
  claims listed after it wait as well.

Also seen while modelling, and stated nowhere as an intention the code breaks: a
completion or a swap that is saved late can overwrite the status an ended claim
got meanwhile; after a swap the count can exceed three.

### Proofs: `MentorClaimsProofs`

For all values of the constants (finite `ClaimIds`, slots of positive length):

Theorem | Statement
--- | ---
`TypeCorrect` | `Spec => []TypeOK`
`Rows` | `Spec => []RowsInv`
`ClaimsTable` | `Spec => []TableOK`
`OneActiveClaim` | `Spec => []OneActiveClaimPerTeam`
`WithinCapacity` | `Spec => []MentorCapacity`
`OwnCohort` | `Spec => ClaimedInOwnCohort`
`NoOverlap` | `Spec => []NoDoubleBooking`
`CalendarKept` | `Spec => ImplementsCalendar`
`DeclinedStays` | `Spec => DeclinedStaysDeclined`

`TypeOK` is not inductive: a commit writes the row `tx[p].c`, and nothing in the
types says that `c` is not `None`. `RowsInv` adds `ProcessesHoldRows` (a process
past its first read holds the ids its next steps use) and `SessionsHaveClaims`
(a session in the table has a claim in the table). For
the claims table, `TableOK` says that every active row is accepted by the
clauses of index and trigger that look at the table. It is preserved because
every write to `claims` in the system goes through `ClaimAccepted` for the row
it writes (`Written`) and can only take other rows' conflicts away
(`AcceptedWrite`); a swap is two such writes. `OneActiveClaimPerTeam` and
`MentorCapacity` are its clauses. What the trigger reads of the mentor (status and
cohort) may change later, so it is no clause of an invariant: `OwnCohort` takes it
from the step that writes the row. Double bookings follow the same pattern: each step either makes no
session live and moves none (`FewerLive`), or writes one row that the overlap
trigger accepted (`OneAccepted`), and the trigger's relation is symmetric. The
proof needs that a session keeps its claim and a claim its mentor for ever,
which `RowsInv` gives. `CalendarKept` uses the same two cases: in the first every
session whose place changes loses it (`EndingGivesUp`, a `GiveUp`), in the second
the trigger's verdict on the one row is the guard of `Take` (`AcceptedTakes`).

`DeclinedStays` is about the lock of the `mentor-session` transactions. `LocksInv`
says that no two of them hold one session (`OneHolder`) and that what a handler read
is still true as far as its write depends on it (`AsRead`): a session about to be
confirmed or completed is not declined, and an update, which writes the status it
read, read a declined session as declined. The handlers without the lock are covered
too: a rating read its session as completed, whose status no holder of the lock
writes any more; releases, swaps and jobs only cancel. Each step is a `StatusStep`,
which says whose status it may write and to what, and `NextStatus` needs no more.

The proofs rest on the assumptions of the module (finite ids, slots, cohorts, numbers)
and on the trigger being atomic with the commit, as described above.

## 4. Evaluation jobs

### Module `EvaluationJobs`

State: `row` (`evaluation_jobs`), `queue` (BullMQ's view of the same id),
`produced` (jobs whose result is saved), `req` (handlers and the reconciliation
between two steps), `worker`.

Code | Actions
--- | ---
`triggerSingleEvaluation` (and batch, which calls it) | `BeginTrigger`, `InsertJob`
`enqueue` | `SelectEnqueue`, `SaveEnqueue`, `Add`, `AddFails`
`retryFailedJob` | `BeginRetry`, `SelectRetry`, `SaveRetry`, `RemoveQueued`
`reconcilePendingJobs` | `BeginReconcile`, `LookUp`
`cancelJob` | `BeginCancel`, `RemoveCancelled`, `SelectCancel`, `CommitCancel`
`clearQueue` | `Drain`, `CancelPending`
`process`, `commitResults` | `ReadState`, `Start`, `Evaluated`, `BeginCommit`, `CommitResults`, `Throw`
BullMQ | `Take`, `Finish`, `Rethrow`, `Promote`, `Expire`, `Crash`, `Lose`
a failing statement, a dying request | `Fail`

`JobAccepted` is the unique index on pending and processing rows,
`ResultLockFree` the `evaluation-result` lock. `add` with the id of an entry
that BullMQ still retains does nothing; `remove` fails while a worker holds the
entry. `process` may throw at any of its steps, which stands for GitHub, Gemini
and the database.

### Properties

Run | Instance | Properties
--- | --- | ---
`EvaluationJobs` | 2 rows, 1 request, the reconciliation, 1 worker, 1 attempt, 1,948,230 states | `OneActiveJob`
`EvaluationResults` | 1 row, 1 request, the reconciliation, 1 worker, 2 attempts, 1 stall, 263,313 states | `TypeOK`, `CompletedHasResult`, `CancelWaitsForCommit`
`EvaluationSettle` | 1 row, 1 request, 2 attempts, fair, workers do not die, 94,484 states | `ProcessingIsHeld`, `JobsSettle`

`OneActiveJob` holds although `enqueue` writes a status it read long before.
`CancelWaitsForCommit` says what the lock is for. `ProcessingIsHeld` is why the
reconciliation need not look at processing rows as long as no worker dies, and
`JobsSettle` that every job ends as completed, failed or cancelled. The bounds: a
request and the reconciliation are two handlers that race, and what three or
more add the proofs below cover; one worker per queue entry is BullMQ's own
rule, so a second worker matters only to a second row; two attempts have a first and a last one; one stall is the default of
BullMQ.

Fairness (`Fairness`). BullMQ hands out, promotes and expires entries; workers
and handlers go on; the interval comes to each pending row again and again (it
reads the first 100 of them, so this assumes no more than that are stuck).
`NoMoreFailures` and `NoMoreClearing` say that from some time on no request is
cut off and no administrator clears the queue: each `drain` lets a job start
over with all its attempts, and doing so for ever keeps it from ending.

What the code does not keep, again as statements of the module (the first two
refuted with `EvaluationResults.cfg`, the third with `EvaluationSettle.cfg`):

- `NoResultAfterCancel`: `clearQueue` cancels without the lock, between the
  worker's last check and its commit.
- `FailedIsRetryable`: a job fails when its attempts are used up, and
  `canRetry()` wants attempts left.
- `JobsSettle` under `CrashSpec`, where workers may die but are replaced: the
  entry is drained after its worker died, and the row is processing for ever.

Likewise a retry or the reconciliation that read a row before it was cancelled
makes it pending again; `OneActiveJob` survives that, the cancellation does not.

### Proofs: `EvaluationJobsProofs`

For all values of the constants (`MaxAttempts` positive, any number of rows,
requests and workers):

Theorem | Statement
--- | ---
`JobsHold` | `Spec => []JobsInv`
`TypeCorrect` | `Spec => []TypeOK`
`OneActive` | `Spec => []OneActiveJob`
`CompletedHas` | `Spec => []CompletedHasResult`
`CancelWaits` | `Spec => CancelWaitsForCommit`
`ProcessingHeld` | `FairSpec => []ProcessingIsHeld`

`TypeOK` is not inductive: `Throw` and `Rethrow` count an attempt more, and
nothing in the types says that one was left. `JobsInv` adds `AttemptsLeft`,
`WorkersHoldEntries` (a busy worker has a job whose entry is active, and no
other worker has it: BullMQ hands out waiting entries only, and `remove` spares
active ones) and `HandlersHoldRows` (the entity a handler saves is pending, or
cancelled in `cancelJob`). Every step is then one of two kinds, a handler's
(`Moves`) or a worker's (`WorkerMoves`), and both write rows as `RowsStep`
allows: either no row becomes active (`FewerActive`), or one row is written and
the unique index took it (`OneWritten`), which gives `OneActive`; a row becomes
completed only with its result, which gives `CompletedHas`; and it is cancelled
only by a `cancelJob` that holds the job's lock or by `clearQueue`. `LocksHeld`
says that the lock excludes, and with it `CancelWaits` follows.

`ProcessingHeld` is about behaviours in which no worker dies, whose steps are
`Undisturbed`. There a processing row is always in somebody's hands
(`ProcessingIsWorkedOn`: a worker with that job between its start and its commit):
only `Start` makes a row processing, no handler's save can (`NoneStarted`), and a
worker leaves its job only with the row completed, failed or pending again. Then
`WorkersHoldEntries` of `JobsInv` gives the entry in the queue.

## 5. Teams

### Module `TeamMembership`

State: `team`, `member` (the row of `team_members` for a team and a
participant, with an id that tells a row from one inserted after it was
removed), `standing` (the participants' status), `chat` (who is in the team's
channel), `invitation`, `removal`, and `handler`: what each request has read.

No endpoint of `teams.service.ts` takes a lock. Each is therefore a pair: a
`Begin` action that does the reads and the checks on them, and a `Finish` action
that does all its writes, which a READ COMMITTED transaction shows to others
together. Whatever commits in between makes the first stale. What looks at the
tables as they are is in the second: the unique indexes and the two triggers of
the migration (`OneTeam`, `HasSeat`, `BriefAccepted`, `MailAccepted`). A write
they refuse, a row that vanished, a lost connection: `Refuse`, a rollback.

Code | Actions
--- | ---
`createTeam` | `BeginCreate`, `FinishCreate`
`requestToJoin`; the backfill of a formation run | `BeginJoin`, `BeginBackfill`, `FinishJoin`
`confirmMember`, `declineMember` | `BeginConfirm`, `FinishConfirm`, `BeginDecline`, `FinishDecline`
`requestMemberRemoval`, its approval and rejection | `BeginDismiss`, `BeginRequest`, `FinishRequest`, `BeginApprove`, `FinishApprove`, `BeginReject`, `FinishReject`
invitations: send, accept, decline, cancel, expire | `BeginInvite`, `FinishInvite`, `BeginAccept`, `FinishAccept`, `BeginAnswer`, `FinishAnswer`, `Expire`
`updateTeam`, disqualification, reinstatement | `BeginSave`, `FinishSave`
`assignBrief`, `unassignBrief` | `BeginAssign`, `FinishAssign`
`deleteTeam` | `BeginDelete`, `FinishDelete`
`addMember`, `removeMember`, `updateMemberRole` | `BeginAdd`, `FinishAdd`, `BeginRemove`, `FinishRemove`, `BeginRole`, `FinishRole`
`initializeTeamChat` | `BeginChat`, `FinishChat`
`createTeamWithMembers` of formation | `BeginForm`, `FinishForm`

TypeORM is external and modelled by what it does: `save` of a row that is gone
inserts it again under its old id (`CanSave`, `Save`), `remove` deletes by id
(`Remove`, nothing when the row is another), `softRemove` of a team marks the
rows that were loaded with it (`SoftRemove`).

### Properties

Run | Instance | Properties
--- | --- | ---
`TeamProtocol` | 2 teams, 2 participants, 1 invitation, 1 removal request, one request at a time, every endpoint about members, channels and formed teams, 536,264 states | `TypeOK`, `StandingFollowsMembership`, `OnlyTheDeclinedReadOn`, `DeletedTeamIsEmpty`
`TeamRaces` | 2 teams with 2 seats, 3 participants, 1 brief with 1 place, two requests at a time that bring members into teams and teams to briefs, from a created team, 223,613 states | `TeamCapacity`, `OneConfirmedTeam`, `BriefCapacity`

The first run asks whether the endpoints, called one after the other in any
order, leave status, channel and deleted teams in agreement with the members:
each updates several tables, and forgetting one shows only some calls later. The
second asks what is left when two of them race: only what indexes and triggers
guard. Two requests make every stale read there is between two; three or more
are covered by the proofs. `SerialOps` leaves out of the first run only the calls
that write no membership (`updateTeam`, disqualification, assignment of a brief),
and `OneOnFile` bounds it to one at a time of an invitation, a removal request and
somebody who reads a channel without being a member.

`OnlyTheDeclinedReadOn` says who can read the channel of a team without being its
member (`Outsiders`). `initializeTeamChat` admits everybody loaded with the team,
pending members too, and as it is no transaction it may stop after some of them;
`declinePendingMember` removes nobody from the channel. So a participant who was
admitted while pending and then declined reads on, in the code as in the model.
The property says that this is the only way: whoever loses a confirmed place, by
whatever endpoint, loses the channel in the same step.

What the code does not keep: that the channel holds members only, as just said;
and with two requests at a time (a second handler in `TeamProtocol.cfg`) TLC refutes
`StandingFollowsMembership`, `OnlyTheDeclinedReadOn` and `DeletedTeamIsEmpty`.
A participant who joins between the read and the soft removal of a forming team
keeps a membership of a deleted team, which every later join of his is refused
for. Likewise `updateMemberRole` called for two members at once leaves two leads;
one participant can have two join requests for two teams; and an invitation
cancelled after `acceptInvitation` read it is accepted all the same.

### Proofs: `TeamMembershipProofs`

For any finite numbers of teams, participants and requests:

Theorem | Statement
--- | ---
`AlwaysInv` | `Spec => []Inv`
`TypesHold` | `Spec => []TypeOK`
`CapacityHolds` | `Spec => []TeamCapacity`
`OneTeamHolds` | `Spec => []OneConfirmedTeam`
`BriefHolds` | `Spec => []BriefCapacity`

`AlwaysInv` is `Spec => [](Inv /\ Fits(member) /\ BriefFits(team))`. `Inv` is
`TypeOK` with what each request holds (`Holds`: a team, a participant
and a value of the kind its write needs), and that pending invitations and
removal requests name a team and a participant (`Addressed`, `Aimed`). That a row
inserted has a free id at all (`FreshIdType`) is a pigeonhole argument over the
requests. The three capacities are one pattern (`Fits`, `BriefFits`): each step
that writes either writes one row that index and trigger accepted, or only takes
rows away.

### Proofs: `TeamProtocolProofs`

What holds of one request at a time (`Alone`: there is one handler), for any finite
numbers of teams, participants, invitations and removal requests:

Theorem | Statement
--- | ---
`AlwaysSerial` | `ASSUME Alone PROVE Spec => []Serial`
`StandingHolds` | `ASSUME Alone PROVE Spec => []StandingFollowsMembership`
`DeletedHolds` | `ASSUME Alone PROVE Spec => []DeletedTeamIsEmpty`
`ChatHolds` | `ASSUME Alone PROVE Spec => OnlyTheDeclinedReadOn`

None of the three properties is inductive: what a `Finish` writes depends on what its
`Begin` read. `Serial` adds to `Inv` that it is still so (`Fresh`: the rows loaded are
those of the table, who had no team has none), which is what being alone gives, and
four facts on the tables that the endpoints keep together and each only by way of
the others (`Whole`): a participant is in one team at most, be it pending
(`OneRowOnly`), so that the row a request removes is the only one his status can stand
for; a removal request that has its row is about a confirmed member, or one whose
team was deleted (`Tied`); status and members agree (`Agrees`); a deleted team has no
current members (`Emptied`). `ChatHolds` needs besides that the channel of a team
not created yet is empty (`Quiet`), and goes through what each `Finish` writes to
`member` and `chat` (`Heard`): who is added to a channel is a member or pending in
the row just loaded, who is removed from the team is removed from both.
The hypothesis `Alone` is needed: the previous section says what two requests break.

## 6. Brief matching and team formation

### Modules

`BriefPlaces` has the tables both services share, `person`, `team` with its
members, and `count` (the stored `teams_count` of a brief); what leaders, members
and staff do to them meanwhile, each call in one step (section 5 takes them
apart); and `own`, the rows a finalization has written and not committed. `View`
is what its own statements see; the row locks of teams, participants and briefs
(`TeamFree`, `PersonFree`, `BriefFree`) keep others off what it wrote.
`BriefMatching` and `TeamFormation` each add a run, its cached preview and its
finalization, and `Placement` composes the two: they hold different advisory
locks, so only rows and triggers stand between them.

Code | Actions
--- | ---
`runMatching` | `ReadTeams`, `ReadBriefs`, `Pick`, `EndMatching`
`finalizeMatching`, `assignBriefToTeam` | `BeginAssigning`, `ReadTeam`, `WriteTeam`, `CommitAssigning`, `AbortAssigning`
`runTeamFormation`: reads | `ReadParticipants`, `ReadUndersized`, `ReadBriefLists`, `ReadSpareTeams`
its backfill | `ProposeBackfill`, `EndBackfill`
briefs in turn by vertical | `GiveToTeam`, `GiveToNewTeam`, `PassOver`, `SkipVertical`, `EndRound`
teams by country, across countries, of whoever is left | `FormTeam`, `EndPhase`
`finalizeTeamFormation` | `BeginFounding`, `ApplyBackfill`, `ApplyBrief`, `ApplyTeam`, `CommitFounding`, `AbortFounding`
`teams.service.ts` | `Assign`, `Disqualify`, `Found`, `Join`, `Add`, `Confirm`, `Leave`

Scores of skills, preferences and engagement are left open: formation may pick
any people of the right number, matching gets any scores. A run of matching may
set a capacity for all briefs (`maxTeamsPerBrief`, of `Limits`) in place of their
own, which the trigger goes on to guard. Participants who are inactive are in no
pool and do not count toward the size of a team. What a run computes
between its reads and its preview is in memory and commutes with every other
step, so `Placement` takes it without interruption; its reads are still
separate steps.

### Properties

`StableMatching`: after a run no team and brief would both rather have each other,
whatever ties, capacities and disqualified teams that hold places. `SoundPreview`:
nobody, no team and no brief is proposed twice, and new teams are of one group and
a legal size. `NobodyLeftBehind`: who is left over could not have been a team.
`NoBriefOverbooked`, `OneTeamOfOneGroup` and `NewTeamsAreWhole` are about carrying
out, on changed tables, what was proposed.

Run | Instance | Properties
--- | --- | ---
`Placement` | 2 teams, 5 participants in 2 groups, 2 briefs with one place in 2 verticals, sizes 2 to 3, 2 scores, 1 capacity of a run, 3 starting points, one of them with an inactive participant, one change by somebody else, each operation called once, 1,657,366 states | `TypeOK` and the six above

Bounds. Five people in two groups make a full team, one at the minimum and
one person over, or one of each phase; two briefs and two teams are what a
stable pairing or a clash of finalizations needs. One change is enough to make a
preview stale, one call of each operation lets all four overlap.

Seen while modelling, in the code as it is:

- `finalizeTeamFormation` does not recount the briefs it fills, so a later run
  proposes a full brief, the trigger refuses its plain UPDATE, and the whole
  transaction is rolled back; the preview is dropped and the answer still reports
  the briefs as assigned.
- Its second step overwrites a brief that staff assigned meanwhile.
- Briefs of inactive verticals count as needing teams, so that the way without
  briefs is not taken although no brief can be given.
- People staff excluded from a backfill are notified of it.
- Matching counts pending members toward the minimum size; its late save can
  bring a team back that was disqualified meanwhile.

### Proofs: `PlacementProofs`

Theorem | Statement
--- | ---
`PlacesHold` | `Spec => []PlacesInv`
`BriefsFit` | `Spec => []NoBriefOverbooked`
`GreedyIsStable` | `Spec => []StableMatching`
`PeopleFit` | `Spec => []OneTeamOfOneGroup`

Counting committed teams is not inductive: two transactions may each have room
in their own view. `PlacesInv` says of each finalization that its view fits the
places (`Good`), and that for each brief at most one of them adds to it, which is
what the trigger's `FOR UPDATE` on the brief is for; and that matching owns no
team that does not exist. A commit then replaces committed rows by a view that
fits, and leaves the other's view fitting. `GreedyIsStable` is an invariant of the
loop: every pair already rejected is rejected for a better score. The proofs
assume `CapacityAssumption`: the teams there are at first passed the trigger.

`OneTeamOfOneGroup` is not inductive either: a formation run that has not committed
holds members in teams nobody else sees. `PeopleInv` adds `Placed`, that an open
finalization holds an existing team with the members others see (joining it waits
for the row), that only formation holds new teams, and that in formation's own view
all teams are apart; and `MeantInv`, that what is proposed, at any stage of a preview
and of carrying it out, concerns teams that exist and people of their group. People
do not change group, so this outlives whatever others do between the preview and the
finalization. It assumes `MembersAssumption`: the teams there are at first are apart
and of one group each.

### Proofs: `FormationProofs`

Theorem | Statement
--- | ---
`ProposedHold` | `Spec => [](PlacesInv /\ PeopleInv /\ ProposedInv)`
`PlacementTypes` | `Spec => []TypeOK`
`PreviewsAreSound` | `Spec => []SoundPreview`
`NobodyIsLeftBehind` | `Spec => []NobodyLeftBehind`
`TeamsAreWhole` | `Spec => NewTeamsAreWhole`

`ProposedInv` says three things. Of a run (`RunInv`), that it does not come back to
what it has proposed (`Settled`: those people are not left, that brief does not wait,
that team is not spare; `InOrder`: backfills come first, each for a team that is then
done with), hence nothing is proposed twice; and that it passes nobody over
(`RunFair`). The loop over the verticals ends after a round without progress, so the
invariant has to say what such a round has shown so far: either too few people of
every group are left, which more proposals do not change, or every brief that is open
waits, and none waits of a vertical that had its turn. That nothing can be formed of a
pool only when it has fewer people than a team (`NotFormable`) takes a subset
of every size of a finite set (`SubsetOfSize`, by a bijection with an interval).
Of a finalization (`Entire`), that the teams it has yet to create, and those it has
created and others do not see, are whole or put in by staff: nobody can leave a
team that is not committed, and being confirmed elsewhere removes pending rows only. Of the counters (`Tally`), their types.

The proofs assume `VerticalsAssumption` (the lists are sequences of approved briefs)
and `PlaceAssumption` (finitely many teams and participants). That a brief is in one
list once, and in none when its vertical is inactive (`ListsAssumption`), is
what lets the model keep the briefs that have not had their turn as a set, `waiting`,
for all verticals: the code keeps an index into each list.

## 7. Submissions

### Module `Submissions`

State: `row` (the submission of a team for a stage), `history`
(`submission_history`), `past` (stages whose deadline is over), `req` (what a
request has read), `job` and `result` (what the worker fetched and stored).

Code | Actions
--- | ---
`saveDraft`, `submit` | `SaveDraft`, `Submit`
`evaluateSubmission`, `approveSubmission`, `rejectSubmission` | `EvaluateSubmission`, `ApproveSubmission`, `RejectSubmission`
`save()` of each: INSERT, or SELECT and UPDATE | `Insert`, `Select`, `Update`, `Fail`
`updateStage` of the deadline, time | `ExtendDeadline`, `DeadlinePasses`
evaluation of a submission, as section 4 has it | `TriggerEvaluation`, `FetchSubmission`, `CommitResults`, `Throw`

Nothing here takes a lock. What keeps the writers off each other is the status: a
draft or rejected row is the team's, one that waits for approval is staff's, one
that is submitted or approved is the worker's. Between two members of a team, or two
of staff, nothing does; nor between the team, which may be revising rejected work,
and staff who grade it by hand, which `evaluateSubmission` allows of everything but a
draft. These pairs are `Rivals`. A request that writes over what a rival wrote after
it read loses that write: a stale draft turns a row that was handed in back into a
draft, an approval and a rejection overwrite each other, two saves keep one of two
contents and file two entries under one version.

The model has all of these behaviours, and remembers in `overwritten` the works that
met one (`Write`; `fresh` in a request says that no rival has written the row since).
The properties are about the others, `Intact`: `ResultFitsContent` (the stored
evaluation is of the content the row has), `JudgedAsRead` (staff decide on what they
read), `ContentKept` (what a save overwrites is in the history under its version) and
`UnlockedStays` (a submission that unlocks the claim of a mentor goes on to). They
say that the statuses alone keep any number of members, staff and the worker apart
until one request overwrites a rival's write: being two at a time, or one deciding
and the other drafting, is not enough to break anything.

Run | Instance | Properties
--- | --- | ---
`Submissions` | 2 stages (one with manual approval, one that takes late work), 2 contents, up to 2 versions, 2 requests of the team, 2 of staff, the worker, 396,435 states | `TypeOK`, `ResultFitsContent`, `JudgedAsRead`, `ContentKept`, `UnlockedStays`

Bounds. `Bounds` stops TLC where a rival's write was lost, as no property speaks of
what follows, and lets it look at one work after the other, as no step concerns two.
Two requests of each side are every pair of rivals; the proofs below are for any
numbers, of versions too.

What the code does not keep:

- The properties for all works. With `Intact == Works` (and without
  `overwritten = {}` in `Bounds`) TLC refutes `ResultFitsContent`, `JudgedAsRead`,
  `ContentKept` and `UnlockedStays`.
- `ApprovedBeforeEvaluated`: `stage.entity.ts:108` says that staff must approve a
  submission before it counts as evaluated, and staff may evaluate by hand one that
  waits for approval.

The flags of a stage that only refuse requests (start date, activity,
disqualification of the team, cohort) are left out: they make fewer behaviours.
Switching `requires_manual_approval` while an evaluation runs would put a row back
into staff's hands and is not modelled.

### Proofs: `SubmissionsProofs`

Theorem | Statement
--- | ---
`AlwaysInv` | `Spec => []Inv`
`TypesHold`, `ResultsFit`, `DecisionsFit` | `Spec => []TypeOK`, `[]ResultFitsContent`, `[]JudgedAsRead`
`UnlockedForGood`, `NothingLost` | `Spec => UnlockedStays`, `ContentKept`

They hold for any numbers of stages, contents, members and staff, without further
hypotheses. The invariant is ownership, of the requests that are fresh on a work that
is intact (`Current`): one of the team holds an editable row as it read it
(`TeamFits`), a decision the row staff read (`DecideFits`), a grading a row with the
content it saves (`GradeFits`, `RegradeFits`); the worker holds an eligible row, a
result is of its content, and the history has one entry for each version before the
current one. A write by a fresh request makes its rivals stale, and those of the
other side that are no rivals find the row in a status they may hold; a write by a
stale one puts the work among the `overwritten`.

## 8. Brief events

### Module `BriefEvents`

State: `event`, `invite` (attendees and host invitations, with the sequence
numbers each channel has delivered), `meeting` (Zoom: what it has, and the newest it
got), `inbox` (what each channel last brought to whom, and the newest it brought or
withheld), the world (`invited`, `withdrawn`, `now`), `writer` (open transactions),
`sync` (what `syncEvent` holds in each process, with the event's lock) and `adrift`
(what a run holds that lost its connection).

Code | Actions
--- | ---
`create`, `update`, `cancel` under the lock of the Zoom host | `BeginCreate`, `FinishCreate`, `BeginUpdate`, `FinishUpdate`, `BeginCancel`, `FinishCancel`, `Abort`
`syncUpcomingEvents`, lock of the event, reads | `StartSync`
the call of Zoom and its record | `SyncZoom`, `RecordZoom`, `ZoomFails`
`syncEvent`, attendees, then hosts | `PlanParticipants`, `PlanHosts`, `NoHostAccount`, `Revise`
`deliver`, `deliverHostInvitations` | `StartDelivery`, `Send`, `Withhold`, `SendFails`, `Quiet`, `Record`, `EndSync`
a dying process | `Crash`
a lost connection, after which PostgreSQL frees the lock | `LoseConnection`, `StraySend`, `StrayZoom`
teams, briefs, hosts, time | `Reassign`, `Withdraw`, `Tick`

Every external call and every record of one is a step of its own, since the
synchronization has no transaction and may die between any two. `Selected` is the
query of the cron job.

`deliver` catches a record that fails and goes on to the next recipient. A run
that loses its connection loses the session lock too and still sends what it has
left, from the rows it read, while another run may start: `LoseConnection` moves
what is left to `adrift`, and each of those calls is made or fails (`StraySend`,
`StrayZoom`). Every other statement ends the run, which is `Crash`.

A channel that a participant has switched off (in-app notifications, push) is
recorded as delivered and nothing is shown (`Withhold`, for the channels in
`Optional`).

`InvitationDelivery` is what recipients are promised: each channel shows a version
that was current when it arrived, possibly twice, or, from a sender that lost its
lock on the way, one that was current when it did (`Delay`, `DeliverLate`). So an
older version follows a newer one only from such a sender, and one number never
stands for two versions.

### Properties

Run | Instance | Properties
--- | --- | ---
`BriefSchedule` | 2 events, 2 overlapping slots, 2 requests, 2 processes, 91,254 states | `NoHostOverlap`
`BriefDelivery` | 1 event, 1 participant with push, 1 host, 1 request, 2 processes, 2 revisions, 2 changes, failures or lost connections, fair, 288,195 states | `TypeOK`, `RecordedMeansShown`, `ImplementsDelivery`, `EveryoneInformed`, `ZoomFollows`

`RecordedMeansShown` is why at least once is enough: what is recorded was shown, or
withheld as the recipient wished. `EveryoneInformed` and `ZoomFollows` are the
liveness of the whole: with all services answering in the end, everybody on a team
of the brief and its host has been told of the event as it is, whoever left it of
its cancellation, and Zoom has got the last revision, or lost the meeting of a
cancelled event.

What the code does not keep: a run that lost its lock may have the last word, and
as everything is recorded as delivered no later run corrects it. Two statements of
the module say otherwise, and TLC refutes them under `FairSpec`:

- `LastWordIsCurrent`, with the constants of `BriefDelivery.cfg`: the last e-mail
  the host got is of an older version.
- `ZoomHasTheLast`, with `MaxRevision = 3` and no participants: Zoom keeps an older
  time of a scheduled event. A cancelled one is safe, as a deleted meeting cannot be
  updated.

Bounds. One recipient of each kind, as attendees are handled independently; a
second event matters to the host's lock only, hence a run of its own. Two
revisions are one overtaking another, two changes allow a crash or a lost
connection after a failure, or a change of the world during one.

Fairness. Requests end (a transaction commits or times out). A run that has
started goes on, with its connection or without. `@Cron` starts a synchronization every minute in every process
and goes through all events it selects, so each that is selected again and again
is started: strong fairness of `StartSync` for each event. `MaxChanges` says that
people and services come to rest, without which nobody could be informed for good.

What is outside: the conclusion of `EveryoneInformed` is claimed for events the
query still looks at. An event cancelled more than a day after its end, with a
crash just after Zoom was recorded, is selected no more and leaves its
invitations as they are; and host invitations that lag behind do not make the
query select an event, only those of participants do. Texts, addresses and the
host's link are left out.

### Proofs: `BriefEventsProofs`

Theorem | Statement
--- | ---
`AlwaysInv` | `Spec => []Inv`
`TypesHold` | `Spec => []TypeOK`
`NeverOverlap` | `Spec => []NoHostOverlap`
`RecordedWasShown` | `Spec => []RecordedMeansShown`
`DeliveryImplemented` | `Spec => ImplementsDelivery`

`Inv` joins `Locks` (at most one request has the host, at most one run that holds
its lock, or request, an event), `Schedule` (no overlap, and a request that passed `checkOverlap` still
would: the host's lock keeps the others out), `SyncHolds` (a run that holds the
lock has event and invitations as the tables have them, because only the holder of
the event's lock writes them), `AdriftHolds` (a run that lost it has versions no
newer than the tables) and `Shown` (records are not ahead of inboxes, nor inboxes of
versions). The refinement needs the last three: what is sent under the lock is what
the row says at that moment, although it was read many steps before, and what is sent
without it was so when the lock was lost.

## 9. What is checked by TLC only, and what is left out

Liveness (`OverdueClaimsEnd`, `JobsSettle`, `EveryoneInformed`, `ZoomFollows`) is
model-checked: TLAPS does not treat fairness and `ENABLED`. Every other property of
a run is stated by a theorem; `StandingFollowsMembership`, `DeletedTeamIsEmpty`
and `OnlyTheDeclinedReadOn` under the hypothesis of section 5, which the run
`TeamProtocol` meets. The bounds `MaxChanges` and `MaxCalls` of `Placement` and those
of the other modules are arbitrary numbers to the proofs.

Left out of modelled parts on purpose: Google Calendar events created before a
transaction commits (their loss shows as `Fail` only), texts, ratings and notes,
notifications, Redis losing data, PostgreSQL deadlocks (they end as `Fail`), the
catch block of the worker failing otherwise than at the unique index, pausing the
queue, overrides of team sizes for one formation run, restrictions of a matching
run to some teams or some briefs.

Limits that are constants here and columns in the code: the sizes of teams
(`TeamSizeMax`), which staff may lower in the cohort although larger teams exist, and
the places of a brief (`MaxTeams`), which `staffUpdate` and `restoreRevision` may
lower although more teams work on it; neither is checked against what is there.
`TeamCapacity`, `BriefCapacity` and `NoBriefOverbooked` are about limits that stay.
The same goes for `MaxClaims` of a mentor.

### Not modelled

- Authentication and resource access: access control, on which no state of the
  other parts depends.
- Availability: the editing of windows and exceptions and the generation of slots.
  `SlotAvailable` takes any slot clear of sessions, so booking is modelled with
  more slots than a mentor may offer.
- Mentor payments, certificates, leaderboard, dashboards: sums over rows.
- Invite queues, notifications, reminders, chat messages: sent, and read back by
  nothing that acts on them.
- Peer reviews and rubric scores: algorithms over a finished stage.
- Cohorts, participants, organizations and their imports, users, forum, journals,
  announcements, resources, verticals, the approval and scores of briefs: rows
  written by one person at a time. Where another part reads them they are its
  constants or environment.
- Gemini, GitHub, documents, e-mail, upload, Google Calendar: external I/O; what
  they do to their callers (time, failure) is in the callers' models.
- The web application and the shared packages: user interface and input schemas.
