---------------------------- MODULE MentorClaims ----------------------------
(***************************************************************************)
(* Mentor claims and mentor sessions: the tables mentor_claims and         *)
(* scheduled_sessions, the request handlers of mentor-claims.service.ts,   *)
(* the hourly jobs of mentor-claims-scheduler.service.ts, and the          *)
(* PostgreSQL index and triggers that guard the two tables.                *)
(*                                                                         *)
(* Every handler runs as one process of Procs and is split where another   *)
(* process can commit between two of its statements: the read that its     *)
(* checks use, the SELECT that TypeORM's save() issues to find out which   *)
(* columns changed, and the commit.  A transaction's writes take effect at *)
(* its commit; a scheduler job has no transaction, so each of its saves    *)
(* takes effect at once.                                                   *)
(***************************************************************************)
EXTENDS Naturals, FiniteSets

CONSTANTS
  Teams, Mentors,
  Cohorts,
  CohortOf,          \* [Teams -> Cohorts]
  Managed,           \* bound: mentors whose rows staff change
  ClaimIds,          \* bound: ids available for rows of mentor_claims
  SessionIds,        \* bound: ids available for rows of scheduled_sessions
  Procs,             \* bound: requests and scheduler jobs in flight at once
  Slots,             \* intervals a mentor's calendar offers: [at, mins]
  Buffer,            \* bufferMinutes of the mentor's windows
  MaxClaims,         \* mentors.max_claims
  MaxSessions,       \* MAX_SESSIONS_PER_CLAIM, and the 3 of the trigger
  ExpiryTime,        \* CLAIM_EXPIRY_DAYS
  NonResponseTime,   \* MENTOR_NON_RESPONSE_DAYS
  MaxNow,            \* bound: the clock stops here
  None               \* SQL NULL

ASSUME ClaimIdsFinite == IsFiniteSet(ClaimIds)
ASSUME SlotsAssumption == Slots \subseteq [at : Nat, mins : Nat \ {0}]
ASSUME CohortsAssumption == CohortOf \in [Teams -> Cohorts] /\ Managed \subseteq Mentors
ASSUME CountsAssumption == /\ Buffer \in Nat
                           /\ MaxClaims \in Nat
                           /\ MaxSessions \in Nat
                           /\ ExpiryTime \in Nat
                           /\ NonResponseTime \in Nat
                           /\ MaxNow \in Nat

VARIABLES
  now,               \* the clock
  claims,            \* mentor_claims
  sessions,          \* scheduled_sessions
  mentors,           \* status (active or not), cohort_id and deleted_at of mentors
  tx                 \* what each process holds between two statements

vars == <<now, claims, sessions, mentors, tx>>

-----------------------------------------------------------------------------
(* Rows.  A row whose status is "absent" is an id not handed out yet.      *)

MentorClaimStatus == {"active", "expired", "completed", "released", "swapped"}
ScheduledSessionStatus ==
  {"scheduled", "confirmed", "declined", "completed", "cancelled"}
LiveStatus == {"scheduled", "confirmed"}

NoSlot == [at |-> 0, mins |-> 0]

MentorRow == [active : BOOLEAN, cohort : Cohorts, deleted : BOOLEAN]
MentorClaim == [team : Teams \cup {None}, mentor : Mentors \cup {None},
                status : MentorClaimStatus \cup {"absent"},
                expiresAt : Nat, sessionCount : Nat, swapUsed : BOOLEAN]
ScheduledSession == [claim : ClaimIds \cup {None}, slot : Slots \cup {NoSlot},
                     status : ScheduledSessionStatus \cup {"absent"},
                     bookedAt : Nat]

NoClaim == [team |-> None, mentor |-> None, status |-> "absent",
            expiresAt |-> 0, sessionCount |-> 0, swapUsed |-> FALSE]
NoSession == [claim |-> None, slot |-> NoSlot, status |-> "absent",
              bookedAt |-> 0]

ActiveClaims(cl, m) ==
  {c \in ClaimIds : cl[c].status = "active" /\ cl[c].mentor = m}
Live(s) == sessions[s].status \in LiveStatus
SessionsOf(c) == {s \in SessionIds : sessions[s].claim = c}
LiveSessions(c) == {s \in SessionsOf(c) : Live(s)}
MentorOf(s) == claims[sessions[s].claim].mentor

StartsWithin(a, b) ==           \* mutant: what begins before b is not seen
  b.at <= a.at /\ a.at < b.at + b.mins
Overlaps(a, b) == a.at < b.at + b.mins /\ a.at + a.mins > b.at

-----------------------------------------------------------------------------
(* The database's own checks on a table that already holds the new row.    *)

\* Unique index team_one_active_mentor_claim.
UniqueActivePair(cl, c) ==      \* mutant: the index is on (team, mentor)
  \A d \in ClaimIds \ {c} : cl[d].status = "active" =>
    <<cl[d].team, cl[d].mentor>> # <<cl[c].team, cl[c].mentor>>
UniqueActiveClaim(cl, c) ==
  \A d \in ClaimIds \ {c} : cl[d].status = "active" => cl[d].team # cl[c].team

\* Trigger acmp_check_mentor_claim, for the row c of the table cl.  It does not
\* look at deleted_at of the mentor.
HasRoomForOneMore(cl, c) ==     \* mutant: <= for <
  Cardinality(ActiveClaims(cl, cl[c].mentor) \ {c}) <= MaxClaims
HasRoom(cl, c) ==
  Cardinality(ActiveClaims(cl, cl[c].mentor) \ {c}) < MaxClaims

AnyCohort(cl, c) == TRUE        \* mutant: the cohorts are not compared
SameCohort(cl, c) == CohortOf[cl[c].team] = mentors[cl[c].mentor].cohort

ClaimAccepted(cl, c) ==
  cl[c].status = "active" =>
    /\ mentors[cl[c].mentor].active
    /\ SameCohort(cl, c)
    /\ HasRoom(cl, c)
    /\ UniqueActiveClaim(cl, c)

ClearOfConfirmed(ss, s) ==      \* mutant: requests not yet confirmed are ignored
  \A r \in SessionIds \ {s} :
    /\ ss[r].status = "confirmed"
    /\ claims[ss[r].claim].mentor = claims[ss[s].claim].mentor
    => ~ Overlaps(ss[r].slot, ss[s].slot)
ClearOfLive(ss, s) ==
  \A r \in SessionIds \ {s} :
    /\ ss[r].status \in LiveStatus
    /\ claims[ss[r].claim].mentor = claims[ss[s].claim].mentor
    => ~ Overlaps(ss[r].slot, ss[s].slot)

\* Trigger acmp_check_session_overlap, for the row s of the table ss.  A
\* session takes its mentor and team from its claim, so the trigger's
\* comparison of the two holds.
SessionAccepted(ss, s) ==
  ss[s].status \in LiveStatus =>
    /\ claims[ss[s].claim].status = "active"
    /\ Cardinality({r \in SessionIds \ {s} :
                      /\ ss[r].claim = ss[s].claim
                      /\ ss[r].status \in LiveStatus \cup {"completed"}})
         < MaxSessions
    /\ ss[s].slot.mins > 0
    /\ ClearOfLive(ss, s)

-----------------------------------------------------------------------------
(* TypeORM's save(entity): the columns in which the entity differs from    *)
(* the row its SELECT found (base) are written over the row of now.        *)

SaveClaim(row, ent, base) ==
  [row EXCEPT
     !.status = IF ent.status # base.status THEN ent.status ELSE @,
     !.sessionCount = IF ent.sessionCount # base.sessionCount
                      THEN ent.sessionCount ELSE @]

SaveSession(row, ent, base) ==
  [row EXCEPT !.status = IF ent.status # base.status THEN ent.status ELSE @,
              !.slot = IF ent.slot # base.slot THEN ent.slot ELSE @]

-----------------------------------------------------------------------------
(* A deleted mentor.  Queries do not find it, and a row that joins it comes *)
(* back with mentor null: save() of such an entity takes the null for a    *)
(* change and sets mentor_id, which is NOT NULL, to NULL, so it fails.     *)

Present(m) == ~ mentors[m].deleted
Joined(m) == IF Present(m) THEN m ELSE None

-----------------------------------------------------------------------------
(* Processes.  c, s are the rows worked on, cent and sent the entities     *)
(* read, cbase and sbase what the SELECT of save() returned, live the      *)
(* sessions to cancel, known the sessions and mentor the mentor that a     *)
(* scheduler job read with its claim.                                      *)

TeamOps == {"claim", "release", "swap", "book"}
MentorSessionOps == {"update", "cancel", "confirm", "decline", "complete"}
CronOps == {"expire", "nonresponse"}
Ops == TeamOps \cup MentorSessionOps \cup CronOps \cup {"rate", "idle"}
Steps == {"listed", "read", "found", "saved", "selected"}

Tx == [op : Ops, step : Steps,
       team : Teams \cup {None}, mentor : Mentors \cup {None},
       slot : Slots \cup {NoSlot},
       c : ClaimIds \cup {None}, cent : MentorClaim, cbase : MentorClaim,
       s : SessionIds \cup {None}, sent : ScheduledSession,
       sbase : ScheduledSession, live : SUBSET SessionIds,
       known : SUBSET SessionIds]

Idle == [op |-> "idle", step |-> "read", team |-> None, mentor |-> None,
         slot |-> NoSlot, c |-> None, cent |-> NoClaim, cbase |-> NoClaim,
         s |-> None, sent |-> NoSession, sbase |-> NoSession, live |-> {},
         known |-> {}]

At(p, ops, step) == tx[p].op \in ops /\ tx[p].step = step
Set(p, rec) == tx' = [tx EXCEPT ![p] = rec]
Done(p) == Set(p, Idle)

\* @Transactional("mentor-session") waits for pg_advisory_xact_lock on the
\* session id.
NoAdvisoryLock(s) == TRUE       \* mutant: a plain @Transactional()
AdvisoryFree(s) ==
  \A q \in Procs : ~ (tx[q].op \in MentorSessionOps /\ tx[q].s = s)

\* A transaction between its writes to sessions and its commit holds their
\* row locks.
RowsFree(p, ss) ==
  \A q \in Procs \ {p} : tx[q].step = "saved" => tx[q].live \cap ss = {}

Init ==
  /\ now = 0
  /\ claims = [c \in ClaimIds |-> NoClaim]
  /\ sessions = [s \in SessionIds |-> NoSession]
  /\ \E home \in [Mentors -> Cohorts] :
       mentors = [m \in Mentors |->
                    [active |-> TRUE, cohort |-> home[m], deleted |-> FALSE]]
  /\ tx = [p \in Procs |-> Idle]

-----------------------------------------------------------------------------
(* Claiming, releasing and swapping a mentor.                              *)

\* claimMentor up to its insert: checkClaimEligibility.  Whether the team's
\* stage unlocks claiming is left open: it may at any time.
BeginClaim(p, t, m) ==
  /\ tx[p] = Idle
  /\ Present(m) /\ mentors[m].active /\ mentors[m].cohort = CohortOf[t]
  /\ \A c \in ClaimIds : ~ (claims[c].status = "active" /\ claims[c].team = t)
  /\ Cardinality(ActiveClaims(claims, m)) < MaxClaims
  /\ Set(p, [Idle EXCEPT !.op = "claim", !.team = t, !.mentor = m])
  /\ UNCHANGED <<now, claims, sessions, mentors>>

NewClaim(t, m, count, swapped) ==
  [team |-> t, mentor |-> m, status |-> "active",
   expiresAt |-> now + ExpiryTime, sessionCount |-> count,
   swapUsed |-> swapped]

CommitClaim(p) ==
  /\ At(p, {"claim"}, "read")
  /\ \E c \in ClaimIds :
       LET cl == [claims EXCEPT ![c] =
                    NewClaim(tx[p].team, tx[p].mentor, 0, FALSE)]
       IN  /\ claims[c].status = "absent"
           /\ ClaimAccepted(cl, c)
           /\ claims' = cl
  /\ Done(p)
  /\ UNCHANGED <<now, sessions, mentors>>

\* releaseClaim: the team's active claim is found.
BeginRelease(p, c) ==
  /\ tx[p] = Idle
  /\ claims[c].status = "active"
  /\ Set(p, [Idle EXCEPT !.op = "release", !.c = c, !.cent = claims[c]])
  /\ UNCHANGED <<now, claims, sessions, mentors>>

\* swapMentor: the active claim has its swap and a completed session, and the
\* new mentor is found with a free claim slot (its status and cohort are left
\* to the trigger).
BeginSwap(p, c, m) ==
  /\ tx[p] = Idle
  /\ claims[c].status = "active"
  /\ ~ claims[c].swapUsed
  /\ claims[c].sessionCount >= 1
  /\ Present(m)
  /\ Cardinality(ActiveClaims(claims, m)) < MaxClaims
  /\ Set(p, [Idle EXCEPT !.op = "swap", !.c = c, !.cent = claims[c],
                         !.mentor = m])
  /\ UNCHANGED <<now, claims, sessions, mentors>>

\* cancelAllClaimSessions: the query for the claim's live sessions, which are
\* saved with the mentor they join.
FindSessions(p) ==
  /\ At(p, {"release", "swap"}, "read")
  /\ LiveSessions(tx[p].c) = {} \/ Present(claims[tx[p].c].mentor)
  /\ Set(p, [tx[p] EXCEPT !.step = "found", !.live = LiveSessions(tx[p].c)])
  /\ UNCHANGED <<now, claims, sessions, mentors>>

\* cancelAllClaimSessions has saved every session it found, and the save of
\* the claim reads the row back.
SaveSessions(p) ==
  /\ At(p, {"release", "swap"}, "found")
  /\ RowsFree(p, tx[p].live)
  /\ Set(p, [tx[p] EXCEPT !.step = "saved", !.cbase = claims[tx[p].c]])
  /\ UNCHANGED <<now, claims, sessions, mentors>>

CancelLive(p) ==
  sessions' = [s \in SessionIds |->
                 IF s \in tx[p].live
                 THEN [sessions[s] EXCEPT !.status = "cancelled"]
                 ELSE sessions[s]]

CommitRelease(p) ==
  /\ At(p, {"release"}, "saved")
  /\ LET c == tx[p].c
         cl == [claims EXCEPT ![c] =
                  SaveClaim(claims[c], [tx[p].cent EXCEPT !.status = "released"],
                            tx[p].cbase)]
     IN  /\ ClaimAccepted(cl, c)
         /\ claims' = cl
  /\ CancelLive(p)
  /\ Done(p)
  /\ UNCHANGED <<now, mentors>>

\* swapMentor: the old claim is marked, then the new one is inserted with the
\* old session count.
CommitSwap(p) ==
  /\ At(p, {"swap"}, "saved")
  /\ \E d \in ClaimIds :
       LET c == tx[p].c
           old == [claims EXCEPT ![c] =
                     SaveClaim(claims[c], [tx[p].cent EXCEPT !.status = "swapped"],
                               tx[p].cbase)]
           new == [old EXCEPT ![d] =
                     NewClaim(tx[p].cent.team, tx[p].mentor,
                              tx[p].cent.sessionCount, TRUE)]
       IN  /\ claims[d].status = "absent"
           /\ ClaimAccepted(old, c)
           /\ ClaimAccepted(new, d)
           /\ claims' = new
  /\ CancelLive(p)
  /\ Done(p)
  /\ UNCHANGED <<now, mentors>>

-----------------------------------------------------------------------------
(* Sessions.                                                               *)

\* getAvailableSlots: the mentor is found, the slot lies in the future and
\* clears every live session of the mentor, but for the one being moved, by the
\* buffer.
SlotAvailable(m, sl, exclude) ==
  /\ Present(m)
  /\ sl.at > now
  /\ \A r \in SessionIds \ {exclude} :
       Live(r) /\ MentorOf(r) = m =>
         ~ (/\ sl.at < sessions[r].slot.at + sessions[r].slot.mins + Buffer
            /\ sl.at + sl.mins + Buffer > sessions[r].slot.at)

\* bookSession counts every session that is neither cancelled nor declined.
BookedSessions(c) ==
  {s \in SessionsOf(c) : sessions[s].status \notin {"cancelled", "declined"}}

BeginBook(p, c, sl) ==
  /\ tx[p] = Idle
  /\ claims[c].status = "active"
  /\ Cardinality(BookedSessions(c)) < MaxSessions
  /\ claims[c].expiresAt >= now
  /\ SlotAvailable(claims[c].mentor, sl, None)
  /\ Set(p, [Idle EXCEPT !.op = "book", !.c = c, !.slot = sl])
  /\ UNCHANGED <<now, claims, sessions, mentors>>

CommitBook(p) ==
  /\ At(p, {"book"}, "read")
  /\ \E s \in SessionIds :
       LET ss == [sessions EXCEPT ![s] =
                    [claim |-> tx[p].c, slot |-> tx[p].slot,
                     status |-> "scheduled", bookedAt |-> now]]
       IN  /\ sessions[s].status = "absent"
           /\ SessionAccepted(ss, s)
           /\ sessions' = ss
  /\ Done(p)
  /\ UNCHANGED <<now, claims, mentors>>

\* A "mentor-session" transaction takes its lock and reads the session with its
\* mentor.
ReadSession(p, s, op, sl) ==
  /\ tx[p] = Idle
  /\ AdvisoryFree(s)
  /\ Present(MentorOf(s))
  /\ Set(p, [Idle EXCEPT !.op = op, !.s = s, !.sent = sessions[s], !.slot = sl])
  /\ UNCHANGED <<now, claims, sessions, mentors>>

\* updateSession: a session neither completed nor cancelled, its new slot
\* available unless only the question changes.
BeginUpdate(p, s, sl) ==
  /\ sessions[s].status \notin {"absent", "completed", "cancelled"}
  /\ sl = sessions[s].slot \/ SlotAvailable(MentorOf(s), sl, s)
  /\ ReadSession(p, s, "update", sl)

\* cancelSession: any session that is not completed.
BeginCancel(p, s) ==
  /\ sessions[s].status \notin {"absent", "completed"}
  /\ ReadSession(p, s, "cancel", NoSlot)

BeginConfirm(p, s) ==
  /\ sessions[s].status = "scheduled"
  /\ ReadSession(p, s, "confirm", NoSlot)

BeginDecline(p, s) ==
  /\ sessions[s].status = "scheduled"
  /\ ReadSession(p, s, "decline", NoSlot)

\* The SELECT of the save in updateSession and rateSession.  The other
\* handlers change the status, which the save then writes.
SelectSession(p) ==
  /\ At(p, {"update", "rate"}, "read")
  /\ Set(p, [tx[p] EXCEPT !.step = "selected", !.sbase = sessions[tx[p].s]])
  /\ UNCHANGED <<now, claims, sessions, mentors>>

WriteSession(p, row) ==
  LET ss == [sessions EXCEPT ![tx[p].s] = row]
  IN  /\ RowsFree(p, {tx[p].s})
      /\ SessionAccepted(ss, tx[p].s)
      /\ sessions' = ss
      /\ Done(p)
      /\ UNCHANGED <<now, claims, mentors>>

CommitUpdate(p) ==
  /\ At(p, {"update"}, "selected")
  /\ WriteSession(p, SaveSession(sessions[tx[p].s],
                                 [tx[p].sent EXCEPT !.slot = tx[p].slot],
                                 tx[p].sbase))

CommitCancel(p) ==
  /\ At(p, {"cancel"}, "read")
  /\ WriteSession(p, [sessions[tx[p].s] EXCEPT !.status = "cancelled"])

CommitConfirm(p) ==
  /\ At(p, {"confirm"}, "read")
  /\ WriteSession(p, [sessions[tx[p].s] EXCEPT !.status = "confirmed"])

CommitDecline(p) ==
  /\ At(p, {"decline"}, "read")
  /\ WriteSession(p, [sessions[tx[p].s] EXCEPT !.status = "declined"])

\* completeSession reads the session together with its claim and mentor.
BeginComplete(p, s) ==
  /\ tx[p] = Idle
  /\ AdvisoryFree(s)
  /\ sessions[s].status = "confirmed"
  /\ Present(MentorOf(s))
  /\ sessions[s].slot.at + sessions[s].slot.mins <= now
  /\ Set(p, [Idle EXCEPT !.op = "complete", !.s = s, !.sent = sessions[s],
                         !.c = sessions[s].claim,
                         !.cent = claims[sessions[s].claim]])
  /\ UNCHANGED <<now, claims, sessions, mentors>>

\* The session is saved; the save of the claim reads the row back.
SaveCompleted(p) ==
  /\ At(p, {"complete"}, "read")
  /\ RowsFree(p, {tx[p].s})
  /\ Set(p, [tx[p] EXCEPT !.step = "saved", !.live = {tx[p].s},
                          !.cbase = claims[tx[p].c]])
  /\ UNCHANGED <<now, claims, sessions, mentors>>

CountSession(claim) ==
  [claim EXCEPT
     !.sessionCount = @ + 1,
     !.status = IF claim.sessionCount + 1 >= MaxSessions THEN "completed" ELSE @]

CommitComplete(p) ==
  /\ At(p, {"complete"}, "saved")
  /\ LET c == tx[p].c
         cl == [claims EXCEPT ![c] =
                  SaveClaim(claims[c], CountSession(tx[p].cent), tx[p].cbase)]
     IN  /\ ClaimAccepted(cl, c)
         /\ claims' = cl
  /\ sessions' = [sessions EXCEPT ![tx[p].s].status = "completed"]
  /\ Done(p)
  /\ UNCHANGED <<now, mentors>>

\* rateSession has no transaction and no lock; the rating itself is left out.
BeginRate(p, s) ==
  /\ tx[p] = Idle
  /\ sessions[s].status = "completed"
  /\ Present(MentorOf(s))
  /\ Set(p, [Idle EXCEPT !.op = "rate", !.s = s, !.sent = sessions[s]])
  /\ UNCHANGED <<now, claims, sessions, mentors>>

CommitRate(p) ==
  /\ At(p, {"rate"}, "selected")
  /\ WriteSession(p, SaveSession(sessions[tx[p].s], tx[p].sent, tx[p].sbase))

-----------------------------------------------------------------------------
(* The scheduler.  A job that finds several claims works them off one      *)
(* after the other from the entities it read; here each has a process.     *)

\* mutant: a claim that ever had a session, even a cancelled one, is left out.
BeginExpireNeverBooked(p, c) ==
  /\ tx[p] = Idle
  /\ claims[c].status = "active"
  /\ claims[c].expiresAt < now
  /\ SessionsOf(c) = {}
  /\ Set(p, [Idle EXCEPT !.op = "expire", !.c = c, !.cent = claims[c],
                         !.mentor = Joined(claims[c].mentor)])
  /\ UNCHANGED <<now, claims, sessions, mentors>>

\* processExpiredClaims: the claim, its sessions and its mentor come from one
\* query.
BeginExpire(p, c) ==
  /\ tx[p] = Idle
  /\ claims[c].status = "active"
  /\ claims[c].expiresAt < now
  /\ claims[c].sessionCount = 0
  /\ Set(p, [Idle EXCEPT !.op = "expire", !.c = c, !.cent = claims[c],
                         !.mentor = Joined(claims[c].mentor),
                         !.live = LiveSessions(c), !.known = SessionsOf(c)])
  /\ UNCHANGED <<now, claims, sessions, mentors>>

\* processMentorNonResponse lists unconfirmed sessions that are overdue ...
ListNonResponse(p, s) ==
  /\ tx[p] = Idle
  /\ sessions[s].status = "scheduled"
  /\ sessions[s].bookedAt + NonResponseTime < now
  /\ Set(p, [Idle EXCEPT !.op = "nonresponse", !.step = "listed",
                         !.c = sessions[s].claim])
  /\ UNCHANGED <<now, claims, sessions, mentors>>

\* ... and reads their claim; only its unconfirmed sessions are cancelled.
LoadNonResponse(p) ==
  /\ At(p, {"nonresponse"}, "listed")
  /\ LET c == tx[p].c
     IN  IF claims[c].status = "active"
         THEN Set(p, [tx[p] EXCEPT !.step = "read", !.cent = claims[c],
                        !.live = {s \in LiveSessions(c) :
                                    sessions[s].status = "scheduled"},
                        !.mentor = Joined(claims[c].mentor),
                        !.known = SessionsOf(c)])
         ELSE Done(p)
  /\ UNCHANGED <<now, claims, sessions, mentors>>

CronCancel(p, s) ==
  /\ At(p, CronOps, "read")
  /\ s \in tx[p].live
  /\ RowsFree(p, {s})
  /\ sessions' = [sessions EXCEPT ![s].status = "cancelled"]
  /\ Set(p, [tx[p] EXCEPT !.live = @ \ {s}])
  /\ UNCHANGED <<now, claims, mentors>>

\* The SELECT of the claim's save.  The claim carries its scheduledSessions, so
\* TypeORM takes a session booked in the meantime for one removed from it and
\* sets its claim_id, which is NOT NULL, to NULL: the save and the job fail, as
\* they do when the mentor was deleted.
CronSelect(p) ==
  /\ At(p, CronOps, "read")
  /\ tx[p].live = {}
  /\ IF SessionsOf(tx[p].c) = tx[p].known /\ tx[p].mentor # None
     THEN Set(p, [tx[p] EXCEPT !.step = "selected", !.cbase = claims[tx[p].c]])
     ELSE Done(p)
  /\ UNCHANGED <<now, claims, sessions, mentors>>

\* mutant: the claim gets the status of its sessions.
CronStatusCancelled(op) == IF op = "expire" THEN "expired" ELSE "cancelled"
CronStatus(op) == IF op = "expire" THEN "expired" ELSE "released"

CronCommit(p) ==
  /\ At(p, CronOps, "selected")
  /\ LET c == tx[p].c
         cl == [claims EXCEPT ![c] =
                  SaveClaim(claims[c],
                            [tx[p].cent EXCEPT !.status = CronStatus(tx[p].op)],
                            tx[p].cbase)]
     IN  /\ ClaimAccepted(cl, c)
         /\ claims' = cl
  /\ Done(p)
  /\ UNCHANGED <<now, sessions, mentors>>

-----------------------------------------------------------------------------
(* The environment.                                                        *)

\* A statement fails or the process dies: a transaction rolls back, a
\* scheduler job stops where it is.
Fail(p) ==
  /\ tx[p] # Idle
  /\ Done(p)
  /\ UNCHANGED <<now, claims, sessions, mentors>>

Tick ==
  /\ now < MaxNow
  /\ now' = now + 1
  /\ UNCHANGED <<claims, sessions, mentors, tx>>

Change(m, row) ==
  /\ mentors' = [mentors EXCEPT ![m] = row]
  /\ UNCHANGED <<now, claims, sessions, tx>>

\* MentorsService.update changes the status, and updateFirebaseUid activates an
\* imported mentor.
UpdateMentor(m) ==
  /\ Present(m)
  /\ Change(m, [mentors[m] EXCEPT !.active = ~ @])

\* delete: a soft removal, whatever claims the mentor has.
DeleteMentor(m) ==
  /\ Present(m)
  /\ Change(m, [mentors[m] EXCEPT !.deleted = TRUE])

\* restore keeps the cohort, create and bulkImport put the mentor into the one
\* they are given; he must go through the onboarding again.
RestoreMentor(m, cohort) ==
  /\ ~ Present(m)
  /\ Change(m, [active |-> FALSE, cohort |-> cohort, deleted |-> FALSE])

ClaimStep(p) ==
  \/ \E t \in Teams, m \in Mentors : BeginClaim(p, t, m)
  \/ CommitClaim(p)
  \/ \E c \in ClaimIds : BeginRelease(p, c)
  \/ \E c \in ClaimIds, m \in Mentors : BeginSwap(p, c, m)
  \/ FindSessions(p) \/ SaveSessions(p)
  \/ CommitRelease(p) \/ CommitSwap(p)

SessionStep(p) ==
  \/ \E c \in ClaimIds, sl \in Slots : BeginBook(p, c, sl)
  \/ CommitBook(p)
  \/ \E s \in SessionIds : \/ \E sl \in Slots : BeginUpdate(p, s, sl)
                           \/ BeginCancel(p, s)
                           \/ BeginConfirm(p, s)
                           \/ BeginDecline(p, s)
                           \/ BeginComplete(p, s)
                           \/ BeginRate(p, s)
  \/ SelectSession(p)
  \/ CommitUpdate(p) \/ CommitCancel(p) \/ CommitConfirm(p) \/ CommitDecline(p)
  \/ SaveCompleted(p) \/ CommitComplete(p)
  \/ CommitRate(p)

CronStep(p) ==
  \/ \E c \in ClaimIds : BeginExpire(p, c)
  \/ \E s \in SessionIds : ListNonResponse(p, s)
  \/ LoadNonResponse(p)
  \/ \E s \in SessionIds : CronCancel(p, s)
  \/ CronSelect(p)
  \/ CronCommit(p)

Environment ==
  \/ Tick
  \/ \E m \in Managed : \/ UpdateMentor(m)
                        \/ DeleteMentor(m)
                        \/ \E cohort \in Cohorts : RestoreMentor(m, cohort)

Next ==
  \/ \E p \in Procs : ClaimStep(p) \/ SessionStep(p) \/ CronStep(p) \/ Fail(p)
  \/ Environment

Spec == Init /\ [][Next]_vars

-----------------------------------------------------------------------------
(* Fairness: the scheduler's jobs run again and again and finish unless    *)
(* they are interrupted; a transaction ends, by commit or by rollback; row *)
(* locks are granted in turn.                                              *)

CronFairness ==
  /\ \A c \in ClaimIds : SF_vars(\E p \in Procs : BeginExpire(p, c))
  /\ \A p \in Procs :
       /\ WF_vars(LoadNonResponse(p))
       /\ SF_vars(\E s \in SessionIds : CronCancel(p, s))
       /\ WF_vars(CronSelect(p))
       /\ WF_vars(CronCommit(p))
       /\ WF_vars(Fail(p) /\ tx[p].op \notin CronOps)

\* From some time on no job dies between its first query and its last save: it
\* stops only where its own code does.
NoMoreCrashes ==
  <>[][\A p \in Procs : tx[p].op \in CronOps /\ Fail(p) => CronStep(p)]_vars

FairSpec == Spec /\ CronFairness /\ NoMoreCrashes

-----------------------------------------------------------------------------
\* The type of every variable.
TypeOK ==
  /\ now \in 0 .. MaxNow
  /\ claims \in [ClaimIds -> MentorClaim]
  /\ sessions \in [SessionIds -> ScheduledSession]
  /\ mentors \in [Mentors -> MentorRow]
  /\ tx \in [Procs -> Tx]

\* Whatever claims, swaps, completions and scheduler jobs race, and although
\* a stale save can make an ended claim active again, a team has one active
\* claim at most.
OneActiveClaimPerTeam ==
  \A c, d \in ClaimIds :
    /\ claims[c].status = "active" /\ claims[d].status = "active"
    /\ claims[c].team = claims[d].team
    => c = d

\* ... and a mentor serves at most max_claims teams, which claimMentor and
\* swapMentor count before they insert.
MentorCapacity ==
  \A m \in Mentors : Cardinality(ActiveClaims(claims, m)) <= MaxClaims

\* Whoever makes a claim active, be it claimMentor, swapMentor, which asks
\* neither for the cohort nor for the status, or a stale save that revives an
\* ended claim, the mentor is active and of the team's cohort at that moment.
ClaimedInOwnCohort ==
  [][\A c \in ClaimIds :
       claims'[c].status = "active" /\ claims[c].status # "active" =>
         /\ mentors[claims'[c].mentor].active
         /\ mentors[claims'[c].mentor].cohort = CohortOf[claims'[c].team]]_vars

\* Two live sessions of one mentor never overlap, although bookSession and
\* updateSession check the slot long before they write it.
NoDoubleBooking ==
  \A r, s \in SessionIds :
    /\ r # s /\ Live(r) /\ Live(s)
    /\ MentorOf(r) = MentorOf(s)
    => ~ Overlaps(sessions[r].slot, sessions[s].slot)

\* Booking keeps what SessionCalendar promises: whatever handler or job writes,
\* and however old what it read is, one step brings at most one session to a
\* time, which is free of all others, and otherwise only ends live sessions.
Calendar == INSTANCE SessionCalendar WITH
  Sessions <- SessionIds,
  Mentors <- Mentors \cup {None},
  Times <- Slots,
  Free <- None,
  place <- [s \in SessionIds |->
              IF Live(s) THEN [mentor |-> MentorOf(s), time |-> sessions[s].slot]
              ELSE None]
ImplementsCalendar == Calendar!Spec

\* A session the mentor declined never comes back to life (at most it is
\* cancelled with its claim): decline and every other handler that can write
\* its status hold the same lock.
DeclinedStaysDeclined ==
  [][\A s \in SessionIds : sessions[s].status = "declined" =>
        sessions'[s].status \in {"declined", "cancelled"}]_vars

\* An active claim that passed its deadline with no session completed and none
\* booked ends, or gets a session after all, although a booking in between makes
\* the job's save fail; a deleted mentor makes it fail every time.
OverdueClaimsEnd ==
  \A c \in ClaimIds :
    (/\ claims[c].status = "active"
     /\ claims[c].expiresAt < now
     /\ claims[c].sessionCount = 0
     /\ LiveSessions(c) = {})
    ~> (\/ claims[c].status # "active"
        \/ claims[c].sessionCount > 0
        \/ LiveSessions(c) # {}
        \/ \E m \in Mentors : ~ Present(m))

-----------------------------------------------------------------------------
(* What the repository says of the code and the code does not do.          *)

\* Migration 1793577600000, trigger acmp_check_session_overlap: "Session must
\* belong to an active claim".
LiveSessionHasActiveClaim ==
  \A s \in SessionIds : Live(s) => claims[sessions[s].claim].status = "active"

\* mentor.entity.ts on sessionCount: "Number of sessions completed".  No
\* completed session of an active claim is missing from its count.
SessionsCounted ==
  \A c \in ClaimIds : claims[c].status = "active" =>
    Cardinality({s \in SessionsOf(c) : sessions[s].status = "completed"})
      <= claims[c].sessionCount

\* The trigger acmp_check_mentor_claim: "Mentor must be active in the team
\* cohort".  A mentor deleted and restored into another cohort keeps his claims.
MentorOfOwnCohort ==
  \A c \in ClaimIds : claims[c].status = "active" =>
    CohortOf[claims[c].team] = mentors[claims[c].mentor].cohort

\* mentor-claims-scheduler.service.ts, processExpiredClaims: "Claims expire if
\* session 1 is not booked within 14 days".  A claim the job picks has no
\* session booked.
ExpiringClaimsHaveNoSession ==
  \A p \in Procs : tx[p].op = "expire" => tx[p].live = {}
=============================================================================
