------------------------- MODULE MentorClaimsProofs -------------------------
(***************************************************************************)
(* Theorems about MentorClaims, for any number of teams, mentors, rows and *)
(* concurrent processes.                                                   *)
(***************************************************************************)
EXTENDS MentorClaims, FiniteSetTheorems, TLAPS

\* An idle process holds nothing.
LEMMA IdleType == Idle \in Tx
BY DEF Idle, Tx, Ops, TeamOps, MentorSessionOps, CronOps, Steps, NoClaim,
       NoSession, MentorClaim, ScheduledSession

\* save() of a claim entity yields a claim row.
LEMMA SaveClaimType ==
  ASSUME NEW row \in MentorClaim, NEW ent \in MentorClaim, NEW base
  PROVE  SaveClaim(row, ent, base) \in MentorClaim
BY DEF SaveClaim, MentorClaim

\* save() of a session entity yields a session row.
LEMMA SaveSessionType ==
  ASSUME NEW row \in ScheduledSession, NEW ent \in ScheduledSession, NEW base
  PROVE  SaveSession(row, ent, base) \in ScheduledSession
BY DEF SaveSession, ScheduledSession

\* The row that claimMentor and swapMentor insert is a claim row.
LEMMA NewClaimType ==
  ASSUME NEW t \in Teams \cup {None}, NEW m \in Mentors \cup {None},
         NEW n \in Nat, NEW b \in BOOLEAN, now \in 0 .. MaxNow
  PROVE  NewClaim(t, m, n, b) \in MentorClaim
BY CountsAssumption DEF NewClaim, MentorClaim, MentorClaimStatus

\* Counting a session keeps a claim row a claim row.
LEMMA CountSessionType ==
  ASSUME NEW claim \in MentorClaim
  PROVE  CountSession(claim) \in MentorClaim
<1>1. claim.sessionCount + 1 \in Nat
  BY DEF MentorClaim
<1>2. [claim EXCEPT !.sessionCount = claim.sessionCount + 1] \in MentorClaim
  BY <1>1 DEF MentorClaim
<1>3. [claim EXCEPT !.sessionCount = claim.sessionCount + 1,
                    !.status = "completed"] \in MentorClaim
  BY <1>1 DEF MentorClaim, MentorClaimStatus
<1>4. CASE claim.sessionCount + 1 >= MaxSessions
  <2>1. CountSession(claim) = [claim EXCEPT !.sessionCount = claim.sessionCount + 1,
                                            !.status = "completed"]
    BY <1>4 DEF CountSession
  <2> QED BY <2>1, <1>3
<1>5. CASE ~ (claim.sessionCount + 1 >= MaxSessions)
  <2>1. CountSession(claim) = [claim EXCEPT !.sessionCount = claim.sessionCount + 1,
                                            !.status = claim.status]
    BY <1>5 DEF CountSession
  <2> QED BY <2>1, <1>1 DEF MentorClaim
<1> QED BY <1>4, <1>5

-----------------------------------------------------------------------------
(* The strengthening.  A process works on rows that exist, and so does     *)
(* every session on its claim: without that, claims[tx[p].c] is no claim.  *)

ClaimOps == {"release", "swap", "book", "complete"} \cup CronOps
SessionOps == MentorSessionOps \cup {"rate"}

Holds(rec) ==
  /\ rec.op \in ClaimOps => /\ rec.c \in ClaimIds
                            /\ claims[rec.c].status # "absent"
  /\ rec.op \in SessionOps => /\ rec.s \in SessionIds
                              /\ sessions[rec.s].status # "absent"
                              /\ rec.sent.status # "absent"
  /\ rec.op = "complete" => rec.cent.status # "absent"
  /\ \A s \in rec.live \cap SessionIds : sessions[s].status # "absent"

ProcessesHoldRows == \A p \in Procs : Holds(tx[p])

SessionsHaveClaims ==
  \A s \in SessionIds : sessions[s].status # "absent" =>
    /\ sessions[s].claim \in ClaimIds
    /\ claims[sessions[s].claim].status # "absent"

RowsInv == TypeOK /\ ProcessesHoldRows /\ SessionsHaveClaims

\* Rows are never deleted, and keep their mentor and their claim.
ClaimsKept ==
  \A c \in ClaimIds : claims[c].status # "absent" =>
    /\ claims'[c].status # "absent"
    /\ claims'[c].mentor = claims[c].mentor
SessionsKept ==
  \A s \in SessionIds : sessions[s].status # "absent" =>
    /\ sessions'[s].status # "absent"
    /\ sessions'[s].claim = sessions[s].claim

\* The initial state satisfies the strengthening.
LEMMA InitRows == Init => RowsInv
<1> SUFFICES ASSUME Init PROVE RowsInv
  OBVIOUS
<1>1. 0 \in 0 .. MaxNow
  BY CountsAssumption
<1>2. NoClaim \in MentorClaim /\ NoSession \in ScheduledSession
  BY DEF NoClaim, NoSession, MentorClaim, ScheduledSession
<1>3. TypeOK
  <2>1. mentors \in [Mentors -> MentorRow]
    BY DEF Init, MentorRow
  <2> QED BY <1>1, <1>2, <2>1, IdleType DEF Init, TypeOK
<1>4. ProcessesHoldRows
  BY DEF Init, ProcessesHoldRows, Holds, Idle, ClaimOps, SessionOps, CronOps,
         MentorSessionOps
<1>5. SessionsHaveClaims
  BY DEF Init, SessionsHaveClaims, NoSession
<1> QED BY <1>3, <1>4, <1>5 DEF RowsInv

\* A process that only moves on to its next statement keeps RowsInv.
LEMMA ReadStep ==
  ASSUME RowsInv, NEW p \in Procs, NEW rec \in Tx, Holds(rec), Set(p, rec),
         UNCHANGED <<now, claims, sessions, mentors>>
  PROVE  RowsInv' /\ ClaimsKept /\ SessionsKept
<1>1. TypeOK'
  BY DEF RowsInv, TypeOK, Set
<1>2. ProcessesHoldRows'
  <2> SUFFICES ASSUME NEW q \in Procs PROVE Holds(tx[q])'
    BY DEF ProcessesHoldRows
  <2>1. tx'[q] = IF q = p THEN rec ELSE tx[q]
    BY DEF RowsInv, TypeOK, Set
  <2> QED BY <2>1 DEF RowsInv, ProcessesHoldRows, Holds
<1>3. SessionsHaveClaims'
  BY DEF RowsInv, SessionsHaveClaims
<1>4. ClaimsKept /\ SessionsKept
  BY DEF ClaimsKept, SessionsKept
<1> QED BY <1>1, <1>2, <1>3, <1>4 DEF RowsInv

\* A process that writes rows and is done keeps RowsInv, if what it writes are
\* rows, deletes none, and gives a new session a claim.
LEMMA WriteStep ==
  ASSUME RowsInv, NEW p \in Procs, NEW rec \in Tx, Set(p, rec),
         rec = Idle \/ (/\ rec.op \in CronOps /\ tx[p].op \in CronOps
                        /\ rec.c = tx[p].c /\ rec.live \subseteq tx[p].live),
         claims' \in [ClaimIds -> MentorClaim],
         sessions' \in [SessionIds -> ScheduledSession],
         ClaimsKept, SessionsKept,
         \A s \in SessionIds :
           sessions[s].status = "absent" /\ sessions'[s].status # "absent" =>
             /\ sessions'[s].claim \in ClaimIds
             /\ claims'[sessions'[s].claim].status # "absent",
         UNCHANGED <<now, mentors>>
  PROVE  RowsInv'
<1>1. TypeOK'
  BY DEF RowsInv, TypeOK, Set
<1>2. ProcessesHoldRows'
  <2> SUFFICES ASSUME NEW q \in Procs PROVE Holds(tx[q])'
    BY DEF ProcessesHoldRows
  <2>1. tx'[q] = IF q = p THEN rec ELSE tx[q]
    BY DEF RowsInv, TypeOK, Set
  <2>2. Holds(tx[q]) => (/\ tx[q].op \in ClaimOps =>
                               /\ tx[q].c \in ClaimIds
                               /\ claims'[tx[q].c].status # "absent"
                         /\ tx[q].op \in SessionOps =>
                               /\ tx[q].s \in SessionIds
                               /\ sessions'[tx[q].s].status # "absent"
                               /\ tx[q].sent.status # "absent"
                         /\ tx[q].op = "complete" => tx[q].cent.status # "absent"
                         /\ \A s \in tx[q].live \cap SessionIds :
                              sessions'[s].status # "absent")
    BY DEF Holds, ClaimsKept, SessionsKept
  <2>3. CASE q # p
    BY <2>1, <2>2, <2>3 DEF RowsInv, ProcessesHoldRows, Holds
  <2>4. CASE q = p /\ rec = Idle
    BY <2>1, <2>4 DEF Holds, Idle, ClaimOps, SessionOps, CronOps,
                      MentorSessionOps
  <2>5. CASE q = p /\ rec # Idle
    <3>1. /\ rec.op \in CronOps /\ rec.c = tx[p].c
          /\ rec.c \in ClaimIds /\ claims[rec.c].status # "absent"
          /\ \A s \in rec.live \cap SessionIds : sessions[s].status # "absent"
      BY <2>5 DEF RowsInv, ProcessesHoldRows, Holds, ClaimOps
    <3> QED BY <2>1, <2>5, <3>1 DEF Holds, ClaimsKept, SessionsKept, CronOps,
                                    SessionOps, MentorSessionOps
  <2> QED BY <2>3, <2>4, <2>5
<1>3. SessionsHaveClaims'
  <2> SUFFICES ASSUME NEW s \in SessionIds, sessions'[s].status # "absent"
               PROVE  /\ sessions'[s].claim \in ClaimIds
                      /\ claims'[sessions'[s].claim].status # "absent"
    BY DEF SessionsHaveClaims
  <2>1. CASE sessions[s].status = "absent"
    BY <2>1
  <2>2. CASE sessions[s].status # "absent"
    BY <2>2 DEF RowsInv, SessionsHaveClaims, ClaimsKept, SessionsKept
  <2> QED BY <2>1, <2>2
<1> QED BY <1>1, <1>2, <1>3 DEF RowsInv

-----------------------------------------------------------------------------
(* One lemma per group of handlers: a step of it keeps RowsInv, deletes no *)
(* row, and leaves mentors and claims of rows alone.                       *)

Kept == RowsInv' /\ ClaimsKept /\ SessionsKept

\* Claiming, releasing and swapping keep RowsInv, and no row is deleted or given
\* another mentor or claim.
LEMMA ClaimStepRows ==
  ASSUME RowsInv, NEW p \in Procs, ClaimStep(p)
  PROVE  Kept
<1> USE DEF Kept
<1>a. TypeOK /\ tx[p] \in Tx /\ Holds(tx[p])
  BY DEF RowsInv, TypeOK, ProcessesHoldRows
<1>1. ASSUME NEW t \in Teams, NEW m \in Mentors, BeginClaim(p, t, m)
      PROVE  Kept
  <2> DEFINE rec == [Idle EXCEPT !.op = "claim", !.team = t, !.mentor = m]
  <2>1. rec \in Tx
    BY IdleType DEF Tx, Ops, TeamOps
  <2>2. Holds(rec)
    BY DEF Holds, Idle, ClaimOps, SessionOps, CronOps, MentorSessionOps
  <2> QED BY <1>1, <2>1, <2>2, ReadStep DEF BeginClaim
<1>2. ASSUME NEW c \in ClaimIds, BeginRelease(p, c)
      PROVE  Kept
  <2> DEFINE rec == [Idle EXCEPT !.op = "release", !.c = c, !.cent = claims[c]]
  <2>1. rec \in Tx
    BY <1>a, IdleType DEF TypeOK, Tx, Ops, TeamOps
  <2>2. Holds(rec)
    BY <1>2 DEF BeginRelease, Holds, Idle, ClaimOps, SessionOps, CronOps,
                MentorSessionOps
  <2> QED BY <1>2, <2>1, <2>2, ReadStep DEF BeginRelease
<1>3. ASSUME NEW c \in ClaimIds, NEW m \in Mentors, BeginSwap(p, c, m)
      PROVE  Kept
  <2> DEFINE rec == [Idle EXCEPT !.op = "swap", !.c = c, !.cent = claims[c],
                                 !.mentor = m]
  <2>1. rec \in Tx
    BY <1>a, IdleType DEF TypeOK, Tx, Ops, TeamOps
  <2>2. Holds(rec)
    BY <1>3 DEF BeginSwap, Holds, Idle, ClaimOps, SessionOps, CronOps,
                MentorSessionOps
  <2> QED BY <1>3, <2>1, <2>2, ReadStep DEF BeginSwap
<1>4. CASE FindSessions(p)
  <2> DEFINE rec == [tx[p] EXCEPT !.step = "found", !.live = LiveSessions(tx[p].c)]
  <2>1. rec \in Tx
    BY <1>a DEF Tx, Steps, LiveSessions, SessionsOf
  <2>2. Holds(rec)
    BY <1>a DEF Holds, Tx, LiveSessions, Live, LiveStatus
  <2> QED BY <1>4, <2>1, <2>2, ReadStep DEF FindSessions
<1>5. CASE SaveSessions(p)
  <2> DEFINE rec == [tx[p] EXCEPT !.step = "saved", !.cbase = claims[tx[p].c]]
  <2>1. tx[p].c \in ClaimIds
    BY <1>a, <1>5 DEF SaveSessions, At, Holds, ClaimOps
  <2>2. rec \in Tx
    BY <1>a, <2>1 DEF TypeOK, Tx, Steps
  <2>3. Holds(rec)
    BY <1>a DEF Holds, Tx
  <2> QED BY <1>5, <2>2, <2>3, ReadStep DEF SaveSessions
<1>6. CASE CommitClaim(p)
  <2> DEFINE row == NewClaim(tx[p].team, tx[p].mentor, 0, FALSE)
  <2>1. PICK c \in ClaimIds : /\ claims[c].status = "absent"
                              /\ claims' = [claims EXCEPT ![c] = row]
    BY <1>6 DEF CommitClaim
  <2>2. row \in MentorClaim
    <3>1. tx[p].team \in Teams \cup {None} /\ tx[p].mentor \in Mentors \cup {None}
      BY <1>a DEF Tx
    <3> QED BY <3>1, <1>a, NewClaimType DEF TypeOK
  <2>3. claims' \in [ClaimIds -> MentorClaim] /\ ClaimsKept
    BY <1>a, <2>1, <2>2 DEF TypeOK, ClaimsKept
  <2>4. sessions' = sessions /\ SessionsKept
    BY <1>6 DEF CommitClaim, SessionsKept
  <2> QED BY <1>6, <1>a, <2>3, <2>4, IdleType, WriteStep
          DEF CommitClaim, Done, TypeOK
<1>7. ASSUME CancelLive(p)
      PROVE  /\ sessions' \in [SessionIds -> ScheduledSession]
             /\ SessionsKept
             /\ \A s \in SessionIds :
                  sessions'[s].status # "absent" => sessions[s].status # "absent"
  BY <1>7, <1>a DEF CancelLive, TypeOK, ScheduledSession, ScheduledSessionStatus,
                    SessionsKept, Holds
<1>8. CASE CommitRelease(p)
  <2> DEFINE c == tx[p].c
             row == SaveClaim(claims[c], [tx[p].cent EXCEPT !.status = "released"],
                              tx[p].cbase)
  <2>1. claims' = [claims EXCEPT ![c] = row] /\ CancelLive(p)
    BY <1>8 DEF CommitRelease
  <2>2. c \in ClaimIds /\ claims[c].status # "absent"
    BY <1>8, <1>a DEF CommitRelease, At, Holds, ClaimOps
  <2>3. row \in MentorClaim
    <3>1. [tx[p].cent EXCEPT !.status = "released"] \in MentorClaim
      BY <1>a DEF Tx, MentorClaim, MentorClaimStatus
    <3>2. claims[c] \in MentorClaim
      BY <1>a, <2>2 DEF TypeOK
    <3> QED BY <3>1, <3>2, SaveClaimType
  <2>4. row.status # "absent" /\ row.mentor = claims[c].mentor
    BY <1>a, <2>2 DEF SaveClaim, Tx, TypeOK, MentorClaim
  <2>5. claims' \in [ClaimIds -> MentorClaim] /\ ClaimsKept
    BY <1>a, <2>1, <2>2, <2>3, <2>4 DEF TypeOK, ClaimsKept
  <2> QED BY <1>7, <1>8, <2>1, <2>5, IdleType, WriteStep DEF CommitRelease, Done
<1>9. CASE CommitSwap(p)
  <2> DEFINE c == tx[p].c
             row == SaveClaim(claims[c], [tx[p].cent EXCEPT !.status = "swapped"],
                              tx[p].cbase)
             old == [claims EXCEPT ![c] = row]
             new == NewClaim(tx[p].cent.team, tx[p].mentor,
                             tx[p].cent.sessionCount, TRUE)
  <2>1. PICK d \in ClaimIds : /\ claims[d].status = "absent"
                              /\ claims' = [old EXCEPT ![d] = new]
    BY <1>9 DEF CommitSwap
  <2>2. c \in ClaimIds /\ claims[c].status # "absent"
    BY <1>9, <1>a DEF CommitSwap, At, Holds, ClaimOps
  <2>3. row \in MentorClaim
    <3>1. [tx[p].cent EXCEPT !.status = "swapped"] \in MentorClaim
      BY <1>a DEF Tx, MentorClaim, MentorClaimStatus
    <3>2. claims[c] \in MentorClaim
      BY <1>a, <2>2 DEF TypeOK
    <3> QED BY <3>1, <3>2, SaveClaimType
  <2>4. row.status # "absent" /\ row.mentor = claims[c].mentor
    BY <1>a, <2>2 DEF SaveClaim, Tx, TypeOK, MentorClaim
  <2>5. new \in MentorClaim
    <3>1. /\ tx[p].cent.team \in Teams \cup {None}
          /\ tx[p].mentor \in Mentors \cup {None}
          /\ tx[p].cent.sessionCount \in Nat
      BY <1>a DEF Tx, MentorClaim
    <3> QED BY <3>1, <1>a, NewClaimType DEF TypeOK
  <2>6. claims' \in [ClaimIds -> MentorClaim] /\ ClaimsKept
    BY <1>a, <2>1, <2>2, <2>3, <2>4, <2>5 DEF TypeOK, ClaimsKept
  <2>7. CancelLive(p) /\ Done(p) /\ UNCHANGED <<now, mentors>>
    BY <1>9 DEF CommitSwap
  <2> QED BY <1>7, <2>6, <2>7, IdleType, WriteStep DEF Done
<1> QED BY <1>1, <1>2, <1>3, <1>4, <1>5, <1>6, <1>8, <1>9 DEF ClaimStep

\* A save by update or rate writes a session row that exists, and changes
\* neither its claim nor the row to an id not handed out.
LEMMA SaveSessionKeeps ==
  ASSUME NEW row \in ScheduledSession, NEW ent \in ScheduledSession, NEW base,
         row.status # "absent", ent.status # "absent"
  PROVE  /\ SaveSession(row, ent, base) \in ScheduledSession
         /\ SaveSession(row, ent, base).status # "absent"
         /\ SaveSession(row, ent, base).claim = row.claim
BY DEF SaveSession, ScheduledSession

\* The same of the handlers that book, move, confirm, decline, cancel, complete
\* and rate a session.
LEMMA SessionStepRows ==
  ASSUME RowsInv, NEW p \in Procs, SessionStep(p)
  PROVE  Kept
<1> USE DEF Kept
<1>a. TypeOK /\ tx[p] \in Tx /\ Holds(tx[p])
  BY DEF RowsInv, TypeOK, ProcessesHoldRows
<1>b. ASSUME NEW s \in SessionIds, NEW op \in MentorSessionOps \ {"complete"},
             NEW sl \in Slots \cup {NoSlot}, ReadSession(p, s, op, sl),
             sessions[s].status # "absent"
      PROVE  Kept
  <2> DEFINE rec == [Idle EXCEPT !.op = op, !.s = s, !.sent = sessions[s],
                                 !.slot = sl]
  <2>1. rec \in Tx
    <3>1. op \in Ops /\ sessions[s] \in ScheduledSession
      BY <1>a DEF Ops, TypeOK
    <3> QED BY <3>1, IdleType DEF Tx
  <2>2. Holds(rec)
    BY <1>b DEF Holds, Idle, ClaimOps, SessionOps, CronOps, MentorSessionOps
  <2> QED BY <1>b, <2>1, <2>2, ReadStep DEF ReadSession
<1>c. ASSUME NEW row \in ScheduledSession, WriteSession(p, row),
             tx[p].op \in SessionOps, row.status # "absent",
             row.claim = sessions[tx[p].s].claim
      PROVE  Kept
  <2>1. tx[p].s \in SessionIds /\ sessions[tx[p].s].status # "absent"
    BY <1>a, <1>c DEF Holds
  <2>2. /\ sessions' = [sessions EXCEPT ![tx[p].s] = row] /\ Done(p)
        /\ UNCHANGED <<now, claims, mentors>>
    BY <1>c DEF WriteSession
  <2>3. sessions' \in [SessionIds -> ScheduledSession] /\ SessionsKept
    BY <1>a, <1>c, <2>1, <2>2 DEF TypeOK, SessionsKept
  <2>4. claims' \in [ClaimIds -> MentorClaim] /\ ClaimsKept
    BY <1>a, <2>2 DEF TypeOK, ClaimsKept
  <2>5. \A s \in SessionIds : sessions'[s].status # "absent" =>
                              sessions[s].status # "absent"
    BY <1>a, <2>1, <2>2 DEF TypeOK
  <2> QED BY <2>2, <2>3, <2>4, <2>5, IdleType, WriteStep DEF Done
<1>1. ASSUME NEW c \in ClaimIds, NEW sl \in Slots, BeginBook(p, c, sl)
      PROVE  Kept
  <2> DEFINE rec == [Idle EXCEPT !.op = "book", !.c = c, !.slot = sl]
  <2>1. rec \in Tx
    BY <1>a, IdleType DEF TypeOK, Tx, Ops, TeamOps
  <2>2. Holds(rec)
    BY <1>1 DEF BeginBook, Holds, Idle, ClaimOps, SessionOps, CronOps,
                MentorSessionOps
  <2> QED BY <1>1, <2>1, <2>2, ReadStep DEF BeginBook
<1>2. CASE CommitBook(p)
  <2> DEFINE row == [claim |-> tx[p].c, slot |-> tx[p].slot,
                     status |-> "scheduled", bookedAt |-> now]
  <2>1. PICK s \in SessionIds : /\ sessions[s].status = "absent"
                                /\ sessions' = [sessions EXCEPT ![s] = row]
    BY <1>2 DEF CommitBook
  <2>2. tx[p].c \in ClaimIds /\ claims[tx[p].c].status # "absent"
    BY <1>2, <1>a DEF CommitBook, At, Holds, ClaimOps
  <2>3. row \in ScheduledSession
    <3>1. now \in Nat
      BY <1>a, CountsAssumption DEF TypeOK
    <3> QED BY <3>1, <1>a, <2>2 DEF Tx, ScheduledSession, ScheduledSessionStatus
  <2>4. sessions' \in [SessionIds -> ScheduledSession] /\ SessionsKept
    BY <1>a, <2>1, <2>3 DEF TypeOK, SessionsKept
  <2>5. UNCHANGED <<now, claims, mentors>> /\ Done(p)
    BY <1>2 DEF CommitBook
  <2>6. claims' \in [ClaimIds -> MentorClaim] /\ ClaimsKept
    BY <1>a, <2>5 DEF TypeOK, ClaimsKept
  <2>7. ASSUME NEW r \in SessionIds, sessions[r].status = "absent",
               sessions'[r].status # "absent"
        PROVE  /\ sessions'[r].claim \in ClaimIds
               /\ claims'[sessions'[r].claim].status # "absent"
    BY <1>a, <2>1, <2>2, <2>5, <2>7 DEF TypeOK
  <2> QED BY <2>4, <2>5, <2>6, <2>7, IdleType, WriteStep DEF Done
<1>3. ASSUME NEW s \in SessionIds, NEW sl \in Slots, BeginUpdate(p, s, sl)
      PROVE  Kept
  BY <1>3, <1>b DEF BeginUpdate, MentorSessionOps
<1>4. ASSUME NEW s \in SessionIds,
             BeginCancel(p, s) \/ BeginConfirm(p, s) \/ BeginDecline(p, s)
      PROVE  Kept
  BY <1>4, <1>b DEF BeginCancel, BeginConfirm, BeginDecline, MentorSessionOps
<1>5. ASSUME NEW s \in SessionIds, BeginComplete(p, s)
      PROVE  Kept
  <2> DEFINE c == sessions[s].claim
             rec == [Idle EXCEPT !.op = "complete", !.s = s,
                                 !.sent = sessions[s], !.c = c,
                                 !.cent = claims[c]]
  <2>1. /\ sessions[s].status # "absent"
        /\ c \in ClaimIds /\ claims[c].status # "absent"
    BY <1>5 DEF BeginComplete, RowsInv, SessionsHaveClaims
  <2>2. rec \in Tx
    BY <1>a, <2>1, IdleType DEF TypeOK, Tx, Ops, MentorSessionOps
  <2>3. Holds(rec)
    BY <2>1 DEF Holds, Idle
  <2> QED BY <1>5, <2>2, <2>3, ReadStep DEF BeginComplete
<1>6. ASSUME NEW s \in SessionIds, BeginRate(p, s)
      PROVE  Kept
  <2> DEFINE rec == [Idle EXCEPT !.op = "rate", !.s = s, !.sent = sessions[s]]
  <2>1. rec \in Tx
    BY <1>a, IdleType DEF TypeOK, Tx, Ops
  <2>2. Holds(rec)
    BY <1>6 DEF BeginRate, Holds, Idle, ClaimOps, SessionOps, CronOps,
                MentorSessionOps
  <2> QED BY <1>6, <2>1, <2>2, ReadStep DEF BeginRate
<1>7. CASE SelectSession(p)
  <2> DEFINE rec == [tx[p] EXCEPT !.step = "selected", !.sbase = sessions[tx[p].s]]
  <2>1. tx[p].s \in SessionIds
    BY <1>a, <1>7 DEF SelectSession, At, Holds, SessionOps, MentorSessionOps
  <2>2. rec \in Tx
    BY <1>a, <2>1 DEF TypeOK, Tx, Steps
  <2>3. Holds(rec)
    BY <1>a DEF Holds, Tx
  <2> QED BY <1>7, <2>2, <2>3, ReadStep DEF SelectSession
<1>8. CASE CommitUpdate(p) \/ CommitRate(p)
  <2>1. /\ tx[p].op \in SessionOps
        /\ tx[p].s \in SessionIds /\ sessions[tx[p].s].status # "absent"
        /\ tx[p].sent.status # "absent"
    BY <1>8, <1>a DEF CommitUpdate, CommitRate, At, Holds, SessionOps,
                      MentorSessionOps
  <2>2. sessions[tx[p].s] \in ScheduledSession
    BY <1>a, <2>1 DEF TypeOK
  <2>3. /\ tx[p].sent \in ScheduledSession
        /\ [tx[p].sent EXCEPT !.slot = tx[p].slot] \in ScheduledSession
        /\ [tx[p].sent EXCEPT !.slot = tx[p].slot].status # "absent"
    BY <1>a, <2>1 DEF Tx, ScheduledSession
  <2>4. PICK ent \in ScheduledSession :
          /\ ent.status # "absent"
          /\ WriteSession(p, SaveSession(sessions[tx[p].s], ent, tx[p].sbase))
    BY <1>8, <2>1, <2>3 DEF CommitUpdate, CommitRate
  <2> QED BY <1>c, <2>1, <2>2, <2>4, SaveSessionKeeps
<1>9. CASE CommitCancel(p) \/ CommitConfirm(p) \/ CommitDecline(p)
  <2>1. PICK st \in ScheduledSessionStatus :
          WriteSession(p, [sessions[tx[p].s] EXCEPT !.status = st])
    BY <1>9 DEF CommitCancel, CommitConfirm, CommitDecline,
                ScheduledSessionStatus
  <2>2. tx[p].op \in SessionOps /\ tx[p].s \in SessionIds
    BY <1>9, <1>a DEF CommitCancel, CommitConfirm, CommitDecline, At, Holds,
                      SessionOps, MentorSessionOps
  <2>3. sessions[tx[p].s] \in ScheduledSession
    BY <1>a, <2>2 DEF TypeOK
  <2>4. /\ [sessions[tx[p].s] EXCEPT !.status = st] \in ScheduledSession
        /\ [sessions[tx[p].s] EXCEPT !.status = st].status # "absent"
        /\ [sessions[tx[p].s] EXCEPT !.status = st].claim = sessions[tx[p].s].claim
    BY <2>3 DEF ScheduledSession, ScheduledSessionStatus
  <2> QED BY <1>c, <2>1, <2>2, <2>4
<1>10. CASE SaveCompleted(p)
  <2> DEFINE rec == [tx[p] EXCEPT !.step = "saved", !.live = {tx[p].s},
                                  !.cbase = claims[tx[p].c]]
  <2>1. /\ tx[p].c \in ClaimIds
        /\ tx[p].s \in SessionIds /\ sessions[tx[p].s].status # "absent"
    BY <1>a, <1>10 DEF SaveCompleted, At, Holds, ClaimOps, SessionOps,
                       MentorSessionOps
  <2>2. rec \in Tx
    BY <1>a, <2>1 DEF TypeOK, Tx, Steps
  <2>3. Holds(rec)
    BY <1>a, <2>1 DEF Holds, Tx
  <2> QED BY <1>10, <2>2, <2>3, ReadStep DEF SaveCompleted
<1>11. CASE CommitComplete(p)
  <2> DEFINE c == tx[p].c
             ent == CountSession(tx[p].cent)
             row == SaveClaim(claims[c], ent, tx[p].cbase)
  <2>1. /\ claims' = [claims EXCEPT ![c] = row] /\ Done(p)
        /\ sessions' = [sessions EXCEPT ![tx[p].s].status = "completed"]
        /\ UNCHANGED <<now, mentors>>
    BY <1>11 DEF CommitComplete
  <2>2. /\ c \in ClaimIds /\ claims[c].status # "absent"
        /\ tx[p].s \in SessionIds /\ sessions[tx[p].s].status # "absent"
        /\ tx[p].cent.status # "absent"
    BY <1>11, <1>a DEF CommitComplete, At, Holds, ClaimOps, SessionOps,
                       MentorSessionOps
  <2>3. tx[p].cent \in MentorClaim /\ claims[c] \in MentorClaim
    BY <1>a, <2>2 DEF Tx, TypeOK
  <2>4. ent \in MentorClaim /\ ent.status # "absent"
    <3>1. ent.status \in {"completed", tx[p].cent.status}
      BY <2>3 DEF CountSession, MentorClaim
    <3> QED BY <2>2, <2>3, <3>1, CountSessionType
  <2>5. /\ row \in MentorClaim /\ row.status # "absent"
        /\ row.mentor = claims[c].mentor
    <3>1. row.status # "absent" /\ row.mentor = claims[c].mentor
      BY <2>2, <2>3, <2>4 DEF SaveClaim, MentorClaim
    <3> QED BY <2>3, <2>4, <3>1, SaveClaimType
  <2>6. claims' \in [ClaimIds -> MentorClaim] /\ ClaimsKept
    BY <1>a, <2>1, <2>2, <2>5 DEF TypeOK, ClaimsKept
  <2>7. /\ sessions' \in [SessionIds -> ScheduledSession] /\ SessionsKept
        /\ \A s \in SessionIds : sessions'[s].status # "absent" =>
                                 sessions[s].status # "absent"
    BY <1>a, <2>1, <2>2 DEF TypeOK, SessionsKept, ScheduledSession,
                            ScheduledSessionStatus
  <2> QED BY <2>1, <2>6, <2>7, IdleType, WriteStep DEF Done
<1> QED BY <1>1, <1>2, <1>3, <1>4, <1>5, <1>6, <1>7, <1>8, <1>9, <1>10, <1>11
        DEF SessionStep

\* The same of the two scheduler jobs.
LEMMA CronStepRows ==
  ASSUME RowsInv, NEW p \in Procs, CronStep(p)
  PROVE  Kept
<1> USE DEF Kept
<1>a. TypeOK /\ tx[p] \in Tx /\ Holds(tx[p])
  BY DEF RowsInv, TypeOK, ProcessesHoldRows
<1>1. ASSUME NEW c \in ClaimIds, BeginExpire(p, c)
      PROVE  Kept
  <2> DEFINE rec == [Idle EXCEPT !.op = "expire", !.c = c, !.cent = claims[c],
                                 !.mentor = Joined(claims[c].mentor),
                                 !.live = LiveSessions(c),
                                 !.known = SessionsOf(c)]
  <2>1. /\ LiveSessions(c) \subseteq SessionIds
        /\ SessionsOf(c) \subseteq SessionIds
        /\ claims[c] \in MentorClaim
        /\ Joined(claims[c].mentor) \in Mentors \cup {None}
    BY <1>a DEF TypeOK, LiveSessions, SessionsOf, Joined, MentorClaim
  <2>2. rec \in Tx
    BY <2>1, IdleType DEF Tx, Ops, CronOps
  <2>3. claims[c].status # "absent"
    BY <1>1 DEF BeginExpire
  <2>4. \A s \in LiveSessions(c) : sessions[s].status # "absent"
    BY DEF LiveSessions, Live, LiveStatus
  <2>5. Holds(rec)
    BY <2>3, <2>4 DEF Holds, Idle, SessionOps, MentorSessionOps
  <2> QED BY <1>1, <2>2, <2>5, ReadStep DEF BeginExpire
<1>2. ASSUME NEW s \in SessionIds, ListNonResponse(p, s)
      PROVE  Kept
  <2> DEFINE c == sessions[s].claim
             rec == [Idle EXCEPT !.op = "nonresponse", !.step = "listed", !.c = c]
  <2>1. c \in ClaimIds /\ claims[c].status # "absent"
    BY <1>2 DEF ListNonResponse, RowsInv, SessionsHaveClaims
  <2>2. rec \in Tx
    BY <2>1, IdleType DEF Tx, Ops, CronOps, Steps
  <2>3. Holds(rec)
    BY <2>1 DEF Holds, Idle, SessionOps, MentorSessionOps
  <2> QED BY <1>2, <2>2, <2>3, ReadStep DEF ListNonResponse
<1>3. CASE LoadNonResponse(p)
  <2> DEFINE c == tx[p].c
             unconfirmed == {s \in LiveSessions(c) :
                               sessions[s].status = "scheduled"}
             rec == [tx[p] EXCEPT !.step = "read", !.cent = claims[c],
                                  !.live = unconfirmed,
                                  !.mentor = Joined(claims[c].mentor),
                                  !.known = SessionsOf(c)]
  <2>1. c \in ClaimIds /\ claims[c].status # "absent"
    BY <1>3, <1>a DEF LoadNonResponse, At, Holds, ClaimOps, CronOps
  <2>2. CASE Set(p, rec)
    <3>1. /\ unconfirmed \subseteq SessionIds
          /\ SessionsOf(c) \subseteq SessionIds
          /\ claims[c] \in MentorClaim
          /\ Joined(claims[c].mentor) \in Mentors \cup {None}
      BY <1>a, <2>1 DEF TypeOK, LiveSessions, SessionsOf, Joined, MentorClaim
    <3>2. rec \in Tx
      BY <1>a, <3>1 DEF Tx, Steps
    <3>3. rec.op = "nonresponse"
      BY <1>3, <1>a DEF LoadNonResponse, At, Tx
    <3>4. rec.c = c /\ rec.live = unconfirmed
      BY <1>a DEF Tx
    <3>5. Holds(rec)
      BY <2>1, <3>3, <3>4 DEF Holds, SessionOps, MentorSessionOps
    <3> QED BY <1>3, <2>2, <3>2, <3>5, ReadStep DEF LoadNonResponse
  <2>3. CASE Done(p)
    <3>1. Holds(Idle)
      BY DEF Holds, Idle, ClaimOps, SessionOps, CronOps, MentorSessionOps
    <3> QED BY <1>3, <2>3, <3>1, IdleType, ReadStep DEF LoadNonResponse, Done
  <2> QED BY <1>3, <2>2, <2>3 DEF LoadNonResponse
<1>4. ASSUME NEW s \in SessionIds, CronCancel(p, s)
      PROVE  Kept
  <2> DEFINE rec == [tx[p] EXCEPT !.live = @ \ {s}]
  <2>1. /\ tx[p].op \in CronOps /\ Set(p, rec)
        /\ sessions' = [sessions EXCEPT ![s].status = "cancelled"]
        /\ UNCHANGED <<now, claims, mentors>>
    BY <1>4 DEF CronCancel, At
  <2>2. sessions[s].status # "absent"
    BY <1>4, <1>a DEF CronCancel, Holds
  <2>3. /\ rec \in Tx /\ rec.op = tx[p].op /\ rec.c = tx[p].c
        /\ rec.live \subseteq tx[p].live
    BY <1>a DEF Tx
  <2>4. claims' \in [ClaimIds -> MentorClaim] /\ ClaimsKept
    BY <1>a, <2>1 DEF TypeOK, ClaimsKept
  <2>5. /\ sessions' \in [SessionIds -> ScheduledSession] /\ SessionsKept
        /\ \A r \in SessionIds : sessions'[r].status # "absent" =>
                                 sessions[r].status # "absent"
    BY <1>a, <2>1, <2>2 DEF TypeOK, SessionsKept, ScheduledSession,
                            ScheduledSessionStatus
  <2> QED BY <2>1, <2>3, <2>4, <2>5, WriteStep
<1>5. CASE CronSelect(p)
  <2> DEFINE rec == [tx[p] EXCEPT !.step = "selected", !.cbase = claims[tx[p].c]]
  <2>1. tx[p].c \in ClaimIds
    BY <1>a, <1>5 DEF CronSelect, At, Holds, ClaimOps
  <2>2. rec \in Tx
    BY <1>a, <2>1 DEF TypeOK, Tx, Steps
  <2>3. Holds(rec) /\ Holds(Idle)
    BY <1>a DEF Holds, Tx, Idle, ClaimOps, SessionOps, CronOps, MentorSessionOps
  <2>4. \/ Set(p, rec) \/ Set(p, Idle)
    BY <1>5 DEF CronSelect, Done
  <2> QED BY <1>5, <2>2, <2>3, <2>4, IdleType, ReadStep DEF CronSelect
<1>6. CASE CronCommit(p)
  <2> DEFINE c == tx[p].c
             st == CronStatus(tx[p].op)
             row == SaveClaim(claims[c], [tx[p].cent EXCEPT !.status = st],
                              tx[p].cbase)
  <2>1. /\ claims' = [claims EXCEPT ![c] = row] /\ Done(p)
        /\ UNCHANGED <<now, sessions, mentors>>
    BY <1>6 DEF CronCommit
  <2>2. c \in ClaimIds /\ claims[c].status # "absent"
    BY <1>6, <1>a DEF CronCommit, At, Holds, ClaimOps
  <2>3. st \in {"expired", "released"}
    BY DEF CronStatus
  <2>4. claims[c] \in MentorClaim
    BY <1>a, <2>2 DEF TypeOK
  <2>5. [tx[p].cent EXCEPT !.status = st] \in MentorClaim
    BY <1>a, <2>3 DEF Tx, MentorClaim, MentorClaimStatus
  <2>6. row.status # "absent" /\ row.mentor = claims[c].mentor
    BY <1>a, <2>2, <2>3, <2>4 DEF SaveClaim, Tx, MentorClaim
  <2>7. claims' \in [ClaimIds -> MentorClaim] /\ ClaimsKept
    BY <1>a, <2>1, <2>2, <2>4, <2>5, <2>6, SaveClaimType DEF TypeOK, ClaimsKept
  <2>8. sessions' \in [SessionIds -> ScheduledSession] /\ SessionsKept
    BY <1>a, <2>1 DEF TypeOK, SessionsKept
  <2> QED BY <2>1, <2>7, <2>8, IdleType, WriteStep DEF Done
<1> QED BY <1>1, <1>2, <1>3, <1>4, <1>5, <1>6 DEF CronStep

\* Every step of the system keeps RowsInv.
LEMMA NextRows ==
  ASSUME RowsInv, [Next]_vars
  PROVE  Kept
<1> USE DEF Kept
<1>a. TypeOK
  BY DEF RowsInv
<1>1. ASSUME NEW p \in Procs, Fail(p)
      PROVE  Kept
  <2>1. Holds(Idle)
    BY DEF Holds, Idle, ClaimOps, SessionOps, CronOps, MentorSessionOps
  <2> QED BY <1>1, <2>1, IdleType, ReadStep DEF Fail, Done
<1>2. ASSUME UNCHANGED <<claims, sessions, tx>>, TypeOK'
      PROVE  Kept
  <2>1. ProcessesHoldRows' /\ SessionsHaveClaims'
    BY <1>2 DEF RowsInv, ProcessesHoldRows, SessionsHaveClaims, Holds
  <2> QED BY <1>2, <2>1 DEF RowsInv, ClaimsKept, SessionsKept
<1>3. CASE Environment
  <2>1. UNCHANGED <<claims, sessions, tx>>
    BY <1>3 DEF Environment, Tick, UpdateMentor, DeleteMentor,
         RestoreMentor, Change
  <2>2. CASE Tick
    <3>1. now' \in 0 .. MaxNow
      BY <1>a, <2>2, CountsAssumption DEF Tick, TypeOK
    <3> QED BY <1>2, <1>a, <2>2, <3>1 DEF Tick, TypeOK
  <2>3. ASSUME NEW m \in Managed, NEW row \in MentorRow, Change(m, row)
        PROVE  Kept
    <3>1. mentors' \in [Mentors -> MentorRow]
      BY <1>a, <2>3 DEF Change, TypeOK
    <3> QED BY <1>2, <1>a, <2>3, <3>1 DEF Change, TypeOK
  <2>4. ASSUME NEW m \in Managed PROVE mentors[m] \in MentorRow
    BY <1>a, CohortsAssumption DEF TypeOK
  <2>5. ASSUME NEW m \in Managed, UpdateMentor(m) \/ DeleteMentor(m)
        PROVE  Kept
    <3>1. /\ [mentors[m] EXCEPT !.active = ~ @] \in MentorRow
          /\ [mentors[m] EXCEPT !.deleted = TRUE] \in MentorRow
      BY <2>4 DEF MentorRow
    <3> QED BY <2>3, <2>5, <3>1 DEF UpdateMentor, DeleteMentor
  <2>6. ASSUME NEW m \in Managed, NEW cohort \in Cohorts, RestoreMentor(m, cohort)
        PROVE  Kept
    <3>1. [active |-> FALSE, cohort |-> cohort, deleted |-> FALSE] \in MentorRow
      BY DEF MentorRow
    <3> QED BY <2>3, <2>6, <3>1 DEF RestoreMentor
  <2> QED BY <1>3, <2>2, <2>5, <2>6 DEF Environment
<1>4. CASE UNCHANGED vars
  BY <1>2, <1>4, <1>a DEF vars, TypeOK
<1> QED BY <1>1, <1>3, <1>4, ClaimStepRows, SessionStepRows, CronStepRows DEF Next

\* In every reachable state every row has its type, and every process and
\* every session refers to rows that exist.
THEOREM Rows == Spec => []RowsInv
<1>1. Init => RowsInv
  BY InitRows
<1>2. RowsInv /\ [Next]_vars => RowsInv'
  BY NextRows DEF Kept
<1> QED BY <1>1, <1>2, PTL DEF Spec

\* Every variable keeps its type, whatever the handlers interleave to.
THEOREM TypeCorrect == Spec => []TypeOK
<1>1. RowsInv => TypeOK
  BY DEF RowsInv
<1> QED BY <1>1, Rows, PTL

-----------------------------------------------------------------------------
(* The claims table.  Every write of a claim row passes the index and the  *)
(* trigger, so what these guarantee of the row written is enough.          *)

OneActiveIn(cl) ==
  \A c, d \in ClaimIds :
    /\ cl[c].status = "active" /\ cl[d].status = "active"
    /\ cl[c].team = cl[d].team
    => c = d
CapacityIn(cl) ==
  \A m \in Mentors : Cardinality(ActiveClaims(cl, m)) <= MaxClaims
TableOK(cl) == OneActiveIn(cl) /\ CapacityIn(cl)

\* One accepted write keeps a table right.
LEMMA AcceptedWrite ==
  ASSUME NEW cl \in [ClaimIds -> MentorClaim], TableOK(cl),
         NEW c \in ClaimIds, NEW row \in MentorClaim,
         ClaimAccepted([cl EXCEPT ![c] = row], c)
  PROVE  TableOK([cl EXCEPT ![c] = row])
<1> DEFINE w == [cl EXCEPT ![c] = row]
<1>1. w[c] = row /\ \A d \in ClaimIds \ {c} : w[d] = cl[d]
  OBVIOUS
<1>2. OneActiveIn(w)
  <2>1. row.status = "active" =>
          \A d \in ClaimIds \ {c} : cl[d].status = "active" => cl[d].team # row.team
    BY <1>1 DEF ClaimAccepted, UniqueActiveClaim
  <2> QED BY <1>1, <2>1 DEF TableOK, OneActiveIn
<1>4. ASSUME NEW m \in Mentors
      PROVE  Cardinality(ActiveClaims(w, m)) <= MaxClaims
  <2>1. /\ ActiveClaims(w, m) \subseteq ClaimIds
        /\ ActiveClaims(cl, m) \subseteq ClaimIds
    BY DEF ActiveClaims
  <2>2. /\ IsFiniteSet(ActiveClaims(w, m)) /\ IsFiniteSet(ActiveClaims(cl, m))
        /\ Cardinality(ActiveClaims(w, m)) \in Nat
        /\ Cardinality(ActiveClaims(cl, m)) \in Nat
    BY <2>1, ClaimIdsFinite, FS_Subset, FS_CardinalityType
  <2>3. CASE c \in ActiveClaims(w, m)
    <3>1. row.status = "active" /\ row.mentor = m
      BY <1>1, <2>3 DEF ActiveClaims
    <3>2. Cardinality(ActiveClaims(w, m) \ {c}) < MaxClaims
      BY <1>1, <3>1 DEF ClaimAccepted, HasRoom
    <3>3. Cardinality(ActiveClaims(w, m) \ {c}) = Cardinality(ActiveClaims(w, m)) - 1
      BY <2>2, <2>3, FS_RemoveElement
    <3> QED BY <2>2, <3>2, <3>3, CountsAssumption
  <2>4. CASE c \notin ActiveClaims(w, m)
    <3>1. ActiveClaims(w, m) \subseteq ActiveClaims(cl, m)
      BY <1>1, <2>4 DEF ActiveClaims
    <3>2. Cardinality(ActiveClaims(w, m)) <= Cardinality(ActiveClaims(cl, m))
      BY <2>2, <3>1, FS_Subset
    <3>3. Cardinality(ActiveClaims(cl, m)) <= MaxClaims
      BY DEF TableOK, CapacityIn
    <3> QED BY <2>2, <3>2, <3>3, CountsAssumption
  <2> QED BY <2>3, <2>4
<1> QED BY <1>2, <1>4 DEF TableOK, CapacityIn

Written(cl, c, row) == ClaimAccepted([cl EXCEPT ![c] = row], c)

\* A step writes no claim row, one, or (a swap) two, each of them accepted.
LEMMA ClaimWrites ==
  ASSUME RowsInv, [Next]_vars
  PROVE  \/ claims' = claims
         \/ \E c \in ClaimIds, row \in MentorClaim :
              /\ Written(claims, c, row)
              /\ claims' = [claims EXCEPT ![c] = row]
         \/ \E c, d \in ClaimIds, row, new \in MentorClaim :
              /\ Written(claims, c, row)
              /\ Written([claims EXCEPT ![c] = row], d, new)
              /\ claims' = [[claims EXCEPT ![c] = row] EXCEPT ![d] = new]
<1>a. TypeOK /\ claims' \in [ClaimIds -> MentorClaim]
  BY NextRows DEF RowsInv, TypeOK, Kept
<1>b. ASSUME NEW c \in ClaimIds, NEW row, claims' = [claims EXCEPT ![c] = row]
      PROVE  row \in MentorClaim
  <2>1. row = claims'[c]
    BY <1>a, <1>b DEF TypeOK
  <2> QED BY <1>a, <2>1
<1>c. ASSUME NEW p \in Procs, tx[p].op \in ClaimOps
      PROVE  tx[p].c \in ClaimIds
  BY <1>c DEF RowsInv, ProcessesHoldRows, Holds
<1>1. ASSUME NEW p \in Procs, CommitClaim(p)
      PROVE  \E c \in ClaimIds, row \in MentorClaim :
               Written(claims, c, row) /\ claims' = [claims EXCEPT ![c] = row]
  <2> DEFINE row == NewClaim(tx[p].team, tx[p].mentor, 0, FALSE)
  <2>1. PICK c \in ClaimIds : /\ Written(claims, c, row)
                              /\ claims' = [claims EXCEPT ![c] = row]
    BY <1>1 DEF CommitClaim, Written
  <2> QED BY <1>b, <2>1
<1>2. ASSUME NEW p \in Procs, CommitRelease(p)
      PROVE  \E c \in ClaimIds, row \in MentorClaim :
               Written(claims, c, row) /\ claims' = [claims EXCEPT ![c] = row]
  <2> DEFINE row == SaveClaim(claims[tx[p].c],
                              [tx[p].cent EXCEPT !.status = "released"],
                              tx[p].cbase)
  <2>1. Written(claims, tx[p].c, row) /\ claims' = [claims EXCEPT ![tx[p].c] = row]
    BY <1>2 DEF CommitRelease, Written
  <2>2. tx[p].c \in ClaimIds
    BY <1>2, <1>c DEF CommitRelease, At, ClaimOps
  <2> QED BY <1>b, <2>1, <2>2
<1>3. ASSUME NEW p \in Procs, CommitComplete(p)
      PROVE  \E c \in ClaimIds, row \in MentorClaim :
               Written(claims, c, row) /\ claims' = [claims EXCEPT ![c] = row]
  <2> DEFINE row == SaveClaim(claims[tx[p].c], CountSession(tx[p].cent),
                              tx[p].cbase)
  <2>1. Written(claims, tx[p].c, row) /\ claims' = [claims EXCEPT ![tx[p].c] = row]
    BY <1>3 DEF CommitComplete, Written
  <2>2. tx[p].c \in ClaimIds
    BY <1>3, <1>c DEF CommitComplete, At, ClaimOps
  <2> QED BY <1>b, <2>1, <2>2
<1>4. ASSUME NEW p \in Procs, CronCommit(p)
      PROVE  \E c \in ClaimIds, row \in MentorClaim :
               Written(claims, c, row) /\ claims' = [claims EXCEPT ![c] = row]
  <2> DEFINE row == SaveClaim(claims[tx[p].c],
                              [tx[p].cent EXCEPT !.status = CronStatus(tx[p].op)],
                              tx[p].cbase)
  <2>1. Written(claims, tx[p].c, row) /\ claims' = [claims EXCEPT ![tx[p].c] = row]
    BY <1>4 DEF CronCommit, Written
  <2>2. tx[p].c \in ClaimIds
    BY <1>4, <1>c DEF CronCommit, At, ClaimOps
  <2> QED BY <1>b, <2>1, <2>2
<1>5. ASSUME NEW p \in Procs, CommitSwap(p)
      PROVE  \E c, d \in ClaimIds, row, new \in MentorClaim :
               /\ Written(claims, c, row)
               /\ Written([claims EXCEPT ![c] = row], d, new)
               /\ claims' = [[claims EXCEPT ![c] = row] EXCEPT ![d] = new]
  <2> DEFINE c == tx[p].c
             row == SaveClaim(claims[c], [tx[p].cent EXCEPT !.status = "swapped"],
                              tx[p].cbase)
             new == NewClaim(tx[p].cent.team, tx[p].mentor,
                             tx[p].cent.sessionCount, TRUE)
  <2>1. PICK d \in ClaimIds :
          /\ claims[d].status = "absent"
          /\ Written(claims, c, row)
          /\ Written([claims EXCEPT ![c] = row], d, new)
          /\ claims' = [[claims EXCEPT ![c] = row] EXCEPT ![d] = new]
    BY <1>5 DEF CommitSwap, Written
  <2>2. c \in ClaimIds /\ claims[c].status # "absent"
    BY <1>5, <1>c DEF CommitSwap, At, ClaimOps, RowsInv, ProcessesHoldRows, Holds
  <2>3. row = claims'[c] /\ new = claims'[d]
    BY <1>a, <2>1, <2>2 DEF TypeOK
  <2>4. row \in MentorClaim /\ new \in MentorClaim
    BY <1>a, <2>2, <2>3
  <2> QED BY <2>1, <2>2, <2>4
<1>6. ASSUME NEW p \in Procs, ClaimStep(p),
             ~ (CommitClaim(p) \/ CommitRelease(p) \/ CommitSwap(p))
      PROVE  claims' = claims
  BY <1>6 DEF ClaimStep, BeginClaim, BeginRelease, BeginSwap, FindSessions,
              SaveSessions
<1>7. ASSUME NEW p \in Procs, SessionStep(p), ~ CommitComplete(p)
      PROVE  claims' = claims
  BY <1>7 DEF SessionStep, BeginBook, CommitBook, BeginUpdate, BeginCancel,
              BeginConfirm, BeginDecline, BeginComplete, BeginRate, ReadSession,
              SelectSession, CommitUpdate, CommitCancel, CommitConfirm,
              CommitDecline, SaveCompleted, CommitRate, WriteSession
<1>8. ASSUME NEW p \in Procs, CronStep(p), ~ CronCommit(p)
      PROVE  claims' = claims
  BY <1>8 DEF CronStep, BeginExpire, ListNonResponse, LoadNonResponse,
              CronCancel, CronSelect
<1>9. ASSUME (\E p \in Procs : Fail(p)) \/ Environment \/ UNCHANGED vars
      PROVE  claims' = claims
  BY <1>9 DEF Fail, Environment, Tick, UpdateMentor, DeleteMentor,
         RestoreMentor, Change, vars
<1> QED BY <1>1, <1>2, <1>3, <1>4, <1>5, <1>6, <1>7, <1>8, <1>9 DEF Next

\* Every step keeps the claims table right.
LEMMA NextTable ==
  ASSUME RowsInv, TableOK(claims), [Next]_vars
  PROVE  TableOK(claims')
<1>1. claims \in [ClaimIds -> MentorClaim]
  BY DEF RowsInv, TypeOK
<1>2. ASSUME NEW c \in ClaimIds, NEW row \in MentorClaim, Written(claims, c, row)
      PROVE  /\ TableOK([claims EXCEPT ![c] = row])
             /\ [claims EXCEPT ![c] = row] \in [ClaimIds -> MentorClaim]
  BY <1>1, <1>2, AcceptedWrite DEF Written
<1>3. ASSUME NEW c \in ClaimIds, NEW row \in MentorClaim, Written(claims, c, row),
             NEW d \in ClaimIds, NEW new \in MentorClaim,
             Written([claims EXCEPT ![c] = row], d, new)
      PROVE  TableOK([[claims EXCEPT ![c] = row] EXCEPT ![d] = new])
  <2> DEFINE old == [claims EXCEPT ![c] = row]
  <2>1. old \in [ClaimIds -> MentorClaim] /\ TableOK(old)
    BY <1>2, <1>3
  <2>2. ClaimAccepted([old EXCEPT ![d] = new], d)
    BY <1>3 DEF Written
  <2> HIDE DEF old
  <2>3. TableOK([old EXCEPT ![d] = new])
    BY <2>1, <2>2, AcceptedWrite
  <2> QED BY <2>3 DEF old
<1>4. CASE claims' = claims
  BY <1>4
<1>5. ASSUME NEW c \in ClaimIds, NEW row \in MentorClaim,
             Written(claims, c, row), claims' = [claims EXCEPT ![c] = row]
      PROVE  TableOK(claims')
  BY <1>2, <1>5, Zenon
<1>6. ASSUME NEW c \in ClaimIds, NEW row \in MentorClaim, Written(claims, c, row),
             NEW d \in ClaimIds, NEW new \in MentorClaim,
             Written([claims EXCEPT ![c] = row], d, new),
             claims' = [[claims EXCEPT ![c] = row] EXCEPT ![d] = new]
      PROVE  TableOK(claims')
  BY <1>3, <1>6, Zenon
<1> QED BY <1>4, <1>5, <1>6, ClaimWrites, Zenon

\* The empty table is right.
LEMMA InitTable == Init => TableOK(claims)
<1> SUFFICES ASSUME Init PROVE TableOK(claims)
  OBVIOUS
<1>1. \A c \in ClaimIds : claims[c].status = "absent"
  BY DEF Init, NoClaim
<1>2. ASSUME NEW m \in Mentors PROVE Cardinality(ActiveClaims(claims, m)) <= MaxClaims
  <2>1. ActiveClaims(claims, m) = {}
    BY <1>1 DEF ActiveClaims
  <2> QED BY <2>1, FS_EmptySet, CountsAssumption
<1> QED BY <1>1, <1>2 DEF TableOK, OneActiveIn, CapacityIn

\* The claims table is right in every reachable state.
THEOREM ClaimsTable == Spec => [](RowsInv /\ TableOK(claims))
<1>1. Init => RowsInv /\ TableOK(claims)
  BY InitRows, InitTable
<1>2. RowsInv /\ TableOK(claims) /\ [Next]_vars => RowsInv' /\ TableOK(claims)'
  BY NextRows, NextTable DEF Kept
<1> QED BY <1>1, <1>2, PTL DEF Spec

\* A team has one active mentor claim at most.
THEOREM OneActiveClaim == Spec => []OneActiveClaimPerTeam
<1>1. TableOK(claims) => OneActiveClaimPerTeam
  BY DEF TableOK, OneActiveIn, OneActiveClaimPerTeam
<1> QED BY <1>1, ClaimsTable, PTL

\* A mentor serves at most max_claims teams.
THEOREM WithinCapacity == Spec => []MentorCapacity
<1>1. TableOK(claims) => MentorCapacity
  BY DEF TableOK, CapacityIn, MentorCapacity
<1> QED BY <1>1, ClaimsTable, PTL

\* A claim becomes active only with an active mentor of the team's cohort,
\* whichever handler or job writes it and however old what it read is.
THEOREM OwnCohort == Spec => ClaimedInOwnCohort
<1> DEFINE OfCohort(claim) == /\ mentors[claim.mentor].active
                              /\ mentors[claim.mentor].cohort = CohortOf[claim.team]
           Claimed == \A c \in ClaimIds :
                        claims'[c].status = "active" /\ claims[c].status # "active" =>
                          OfCohort(claims'[c])
<1>1. ASSUME NEW cl \in [ClaimIds -> MentorClaim], NEW c \in ClaimIds,
             NEW row \in MentorClaim, Written(cl, c, row), row.status = "active"
      PROVE  OfCohort(row)
  BY <1>1 DEF Written, ClaimAccepted, SameCohort
<1>2. ASSUME RowsInv, [Next]_vars
      PROVE  Claimed
  <2>a. claims \in [ClaimIds -> MentorClaim]
    BY <1>2 DEF RowsInv, TypeOK
  <2>1. CASE claims' = claims
    BY <2>1
  <2>2. ASSUME NEW c \in ClaimIds, NEW row \in MentorClaim,
               Written(claims, c, row), claims' = [claims EXCEPT ![c] = row]
        PROVE  Claimed
    <3>1. claims'[c] = row /\ \A x \in ClaimIds \ {c} : claims'[x] = claims[x]
      BY <2>a, <2>2
    <3>2. row.status = "active" => OfCohort(row)
      BY <1>1, <2>a, <2>2
    <3> QED BY <3>1, <3>2
  <2>3. ASSUME NEW c \in ClaimIds, NEW row \in MentorClaim,
               Written(claims, c, row),
               NEW d \in ClaimIds, NEW new \in MentorClaim,
               Written([claims EXCEPT ![c] = row], d, new),
               claims' = [[claims EXCEPT ![c] = row] EXCEPT ![d] = new]
        PROVE  Claimed
    <3> DEFINE old == [claims EXCEPT ![c] = row]
    <3>1. old \in [ClaimIds -> MentorClaim]
      BY <2>a
    <3>2. /\ claims'[d] = new
          /\ c # d => claims'[c] = row
          /\ \A x \in ClaimIds \ {c, d} : claims'[x] = claims[x]
      BY <2>a, <2>3
    <3>3. row.status = "active" => OfCohort(row)
      BY <1>1, <2>a, <2>3
    <3>4. new.status = "active" => OfCohort(new)
      <4> HIDE DEF old, OfCohort
      <4>1. Written(old, d, new)
        BY <2>3 DEF old
      <4> QED BY <1>1, <3>1, <4>1
    <3> QED BY <3>2, <3>3, <3>4
  <2> HIDE DEF Claimed
  <2> QED BY <1>2, <2>1, <2>2, <2>3, ClaimWrites, Zenon
<1>3. RowsInv /\ [Next]_vars => [Claimed]_vars
  BY <1>2
<1> QED BY <1>3, Rows, PTL DEF Spec, ClaimedInOwnCohort

-----------------------------------------------------------------------------
(* The sessions table.  A step that gives a session life, or moves a live  *)
(* one, writes one row that passes the trigger, while no claim changes;    *)
(* every other step leaves live sessions where they are or ends them.      *)

FewerLive ==
  \A s \in SessionIds : sessions'[s].status \in LiveStatus =>
    /\ Live(s)
    /\ sessions'[s].claim = sessions[s].claim
    /\ sessions'[s].slot = sessions[s].slot

OneAccepted ==
  /\ claims' = claims
  /\ \E s \in SessionIds, row \in ScheduledSession :
       /\ sessions' = [sessions EXCEPT ![s] = row]
       /\ SessionAccepted(sessions', s)

\* Every step is of one of these two kinds.
LEMMA SessionWrites ==
  ASSUME RowsInv, [Next]_vars
  PROVE  FewerLive \/ OneAccepted
<1>a. TypeOK /\ sessions' \in [SessionIds -> ScheduledSession]
  BY NextRows DEF RowsInv, TypeOK, Kept
<1>1. ASSUME sessions' = sessions PROVE FewerLive
  BY <1>1 DEF FewerLive, Live
<1>2. ASSUME NEW p \in Procs, CancelLive(p)
      PROVE  FewerLive
  BY <1>2, <1>a DEF CancelLive, FewerLive, Live, LiveStatus, TypeOK,
                    ScheduledSession
<1>3. ASSUME NEW p \in Procs, NEW row, WriteSession(p, row),
             tx[p].op \in SessionOps
      PROVE  OneAccepted
  <2>1. /\ sessions' = [sessions EXCEPT ![tx[p].s] = row]
        /\ SessionAccepted([sessions EXCEPT ![tx[p].s] = row], tx[p].s)
        /\ claims' = claims
    BY <1>3 DEF WriteSession
  <2>2. tx[p].s \in SessionIds
    BY <1>3 DEF RowsInv, ProcessesHoldRows, Holds
  <2>3. row = sessions'[tx[p].s]
    BY <1>a, <2>1, <2>2 DEF TypeOK
  <2>4. row \in ScheduledSession
    BY <1>a, <2>2, <2>3
  <2>5. SessionAccepted(sessions', tx[p].s)
    BY <2>1
  <2> QED BY <2>1, <2>2, <2>4, <2>5 DEF OneAccepted
<1>4. ASSUME NEW p \in Procs, CommitBook(p)
      PROVE  OneAccepted
  <2> DEFINE row == [claim |-> tx[p].c, slot |-> tx[p].slot,
                     status |-> "scheduled", bookedAt |-> now]
  <2>1. PICK s \in SessionIds :
          /\ SessionAccepted([sessions EXCEPT ![s] = row], s)
          /\ sessions' = [sessions EXCEPT ![s] = row]
    BY <1>4 DEF CommitBook
  <2>2. claims' = claims
    BY <1>4 DEF CommitBook
  <2>3. row = sessions'[s]
    BY <1>a, <2>1 DEF TypeOK
  <2>4. row \in ScheduledSession
    BY <1>a, <2>3
  <2>5. SessionAccepted(sessions', s)
    BY <2>1
  <2> QED BY <2>1, <2>2, <2>4, <2>5 DEF OneAccepted
<1>5. ASSUME NEW s \in SessionIds, NEW st,
             st \notin LiveStatus,
             sessions' = [sessions EXCEPT ![s].status = st]
      PROVE  FewerLive
  BY <1>5, <1>a DEF FewerLive, Live, TypeOK, ScheduledSession
<1>6. ASSUME NEW p \in Procs, ClaimStep(p)
      PROVE  FewerLive
  BY <1>1, <1>2, <1>6 DEF ClaimStep, BeginClaim, CommitClaim, BeginRelease,
     BeginSwap, FindSessions, SaveSessions, CommitRelease, CommitSwap
<1>7. ASSUME NEW p \in Procs, SessionStep(p)
      PROVE  FewerLive \/ OneAccepted
  <2>1. CASE CommitUpdate(p) \/ CommitCancel(p) \/ CommitConfirm(p)
             \/ CommitDecline(p) \/ CommitRate(p)
    <3>1. tx[p].op \in SessionOps
      BY <2>1 DEF CommitUpdate, CommitCancel, CommitConfirm, CommitDecline,
                  CommitRate, At, SessionOps, MentorSessionOps
    <3>2. \E row : WriteSession(p, row)
      BY <2>1 DEF CommitUpdate, CommitCancel, CommitConfirm, CommitDecline,
                  CommitRate
    <3> QED BY <3>1, <3>2, <1>3
  <2>2. CASE CommitComplete(p)
    <3>1. tx[p].s \in SessionIds
      BY <2>2 DEF CommitComplete, At, SessionOps, MentorSessionOps, RowsInv,
                  ProcessesHoldRows, Holds
    <3>2. sessions' = [sessions EXCEPT ![tx[p].s].status = "completed"]
      BY <2>2 DEF CommitComplete
    <3>3. "completed" \notin LiveStatus
      BY DEF LiveStatus
    <3> QED BY <3>1, <3>2, <3>3, <1>5
  <2>3. CASE ~ (\/ CommitUpdate(p) \/ CommitCancel(p) \/ CommitConfirm(p)
                \/ CommitDecline(p) \/ CommitRate(p) \/ CommitComplete(p)
                \/ CommitBook(p))
    <3>1. sessions' = sessions
      BY <1>7, <2>3 DEF SessionStep, BeginBook, BeginUpdate, BeginCancel,
         BeginConfirm, BeginDecline, BeginComplete, BeginRate, ReadSession,
         SelectSession, SaveCompleted
    <3> QED BY <1>1, <3>1
  <2> QED BY <1>4, <2>1, <2>2, <2>3
<1>8. ASSUME NEW p \in Procs, CronStep(p)
      PROVE  FewerLive
  <2>1. ASSUME NEW s \in SessionIds, CronCancel(p, s)
        PROVE  FewerLive
    <3>1. sessions' = [sessions EXCEPT ![s].status = "cancelled"]
      BY <2>1 DEF CronCancel
    <3>2. "cancelled" \notin LiveStatus
      BY DEF LiveStatus
    <3> QED BY <1>5, <3>1, <3>2
  <2> QED BY <1>1, <1>8, <2>1 DEF CronStep, BeginExpire, ListNonResponse,
             LoadNonResponse, CronSelect, CronCommit
<1>9. ASSUME (\E p \in Procs : Fail(p)) \/ Environment \/ UNCHANGED vars
      PROVE  FewerLive
  BY <1>1, <1>9 DEF Fail, Environment, Tick, UpdateMentor, DeleteMentor,
         RestoreMentor, Change, vars
<1> QED BY <1>6, <1>7, <1>8, <1>9 DEF Next

\* Overlapping does not depend on who is asked.
LEMMA OverlapsSymmetric ==
  ASSUME NEW a \in Slots \cup {NoSlot}, NEW b \in Slots \cup {NoSlot},
         Overlaps(a, b)
  PROVE  Overlaps(b, a)
<1>1. a.at \in Nat /\ a.mins \in Nat /\ b.at \in Nat /\ b.mins \in Nat
  BY SlotsAssumption DEF NoSlot
<1> QED BY <1>1 DEF Overlaps

\* Every step keeps the mentors' calendars free of overlaps.
LEMMA NextBooking ==
  ASSUME RowsInv, NoDoubleBooking, [Next]_vars
  PROVE  NoDoubleBooking'
<1>a. TypeOK /\ Kept
  BY NextRows DEF RowsInv
<1> SUFFICES ASSUME NEW r \in SessionIds, NEW s \in SessionIds, r # s,
                    sessions'[r].status \in LiveStatus,
                    sessions'[s].status \in LiveStatus,
                    claims'[sessions'[r].claim].mentor
                      = claims'[sessions'[s].claim].mentor,
                    Overlaps(sessions'[r].slot, sessions'[s].slot)
             PROVE  FALSE
  BY DEF NoDoubleBooking, Live, MentorOf
<1>1. CASE FewerLive
  <2>1. /\ Live(r) /\ sessions'[r].claim = sessions[r].claim
        /\ sessions'[r].slot = sessions[r].slot
        /\ Live(s) /\ sessions'[s].claim = sessions[s].claim
        /\ sessions'[s].slot = sessions[s].slot
    BY <1>1 DEF FewerLive
  <2>2. \A x \in {r, s} : claims'[sessions[x].claim].mentor = MentorOf(x)
    BY <1>a, <2>1 DEF RowsInv, SessionsHaveClaims, Live, LiveStatus, MentorOf,
                      Kept, ClaimsKept
  <2> QED BY <2>1, <2>2 DEF NoDoubleBooking, MentorOf
<1>2. CASE OneAccepted
  <2>1. PICK x \in SessionIds, row \in ScheduledSession :
          /\ sessions' = [sessions EXCEPT ![x] = row]
          /\ SessionAccepted(sessions', x)
    BY <1>2 DEF OneAccepted
  <2>2. /\ claims' = claims
        /\ \A y \in SessionIds \ {x} : sessions'[y] = sessions[y]
    BY <1>a, <1>2, <2>1 DEF OneAccepted, TypeOK
  <2>3. /\ sessions'[r].slot \in Slots \cup {NoSlot}
        /\ sessions'[s].slot \in Slots \cup {NoSlot}
    BY <1>a DEF Kept, RowsInv, TypeOK, ScheduledSession
  <2>4. CASE r # x /\ s # x
    BY <2>2, <2>4 DEF NoDoubleBooking, Live, MentorOf
  <2>5. CASE s = x
    BY <2>1, <2>2, <2>5 DEF SessionAccepted, ClearOfLive
  <2>6. CASE r = x
    <3>1. Overlaps(sessions'[s].slot, sessions'[r].slot)
      BY <2>3, OverlapsSymmetric
    <3> QED BY <2>1, <2>2, <2>6, <3>1 DEF SessionAccepted, ClearOfLive
  <2> QED BY <2>4, <2>5, <2>6
<1> QED BY <1>1, <1>2, SessionWrites

\* No two live sessions of a mentor overlap, however bookings, moves, swaps
\* and scheduler jobs interleave.
THEOREM NoOverlap == Spec => []NoDoubleBooking
<1>1. Init => RowsInv /\ NoDoubleBooking
  <2>1. Init => NoDoubleBooking
    BY DEF Init, NoDoubleBooking, Live, LiveStatus, NoSession
  <2> QED BY <2>1, InitRows
<1>2. RowsInv /\ NoDoubleBooking /\ [Next]_vars => RowsInv' /\ NoDoubleBooking'
  BY NextRows, NextBooking DEF Kept
<1> QED BY <1>1, <1>2, PTL DEF Spec

-----------------------------------------------------------------------------
(* Booking as the mentors see it.                                          *)

Taken(s) == IF Live(s) THEN [mentor |-> MentorOf(s), time |-> sessions[s].slot]
            ELSE None
Places == [s \in SessionIds |-> Taken(s)]

LEMMA CalendarInit == Init => Calendar!Init
BY DEF Init, Calendar!Init, Live, LiveStatus, NoSession

\* What ends live sessions gives up their places.
LEMMA EndingGivesUp ==
  ASSUME RowsInv, Kept, FewerLive
  PROVE  Calendar!Next
<1> DEFINE S == {s \in SessionIds : ~ sessions'[s].status \in LiveStatus}
<1>1. \A s \in SessionIds : Taken(s)' = IF s \in S THEN None ELSE Taken(s)
  <2> TAKE s \in SessionIds
  <2>1. CASE s \in S
    BY <2>1 DEF Taken, Live
  <2>2. CASE s \notin S
    <3>1. /\ Live(s) /\ Live(s)' /\ sessions'[s].slot = sessions[s].slot
          /\ sessions'[s].claim = sessions[s].claim
      BY <2>2 DEF FewerLive, Live
    <3>2. claims'[sessions[s].claim].mentor = MentorOf(s)
      BY <3>1 DEF RowsInv, SessionsHaveClaims, Live, LiveStatus, MentorOf,
                  Kept, ClaimsKept
    <3> QED BY <2>2, <3>1, <3>2 DEF Taken, MentorOf
  <2> QED BY <2>1, <2>2
<1>2. Places' = [s \in SessionIds |-> IF s \in S THEN None ELSE Places[s]]
  BY <1>1 DEF Places
<1>3. PICK T \in SUBSET SessionIds :
        Places' = [s \in SessionIds |-> IF s \in T THEN None ELSE Places[s]]
  BY <1>2
<1>4. Calendar!GiveUp(T)
  BY <1>3 DEF Calendar!GiveUp, Places, Taken
<1> QED BY <1>4 DEF Calendar!Next

\* A row that the trigger accepted takes a place that is free, or none.
LEMMA AcceptedTakes ==
  ASSUME RowsInv, RowsInv', OneAccepted
  PROVE  Calendar!Next
<1>1. PICK x \in SessionIds, row \in ScheduledSession :
        sessions' = [sessions EXCEPT ![x] = row] /\ SessionAccepted(sessions', x)
  BY DEF OneAccepted
<1>2. /\ claims' = claims /\ sessions'[x] = row
      /\ \A s \in SessionIds \ {x} : sessions'[s] = sessions[s]
  BY <1>1 DEF OneAccepted, RowsInv, TypeOK
<1>3. \A s \in SessionIds \ {x} : Taken(s)' = Taken(s)
  BY <1>2 DEF Taken, Live, MentorOf
<1>4. Places' = [Places EXCEPT ![x] = Taken(x)']
  BY <1>3 DEF Places
<1>5. CASE row.status \notin LiveStatus
  <2>1. Taken(x)' = None
    BY <1>2, <1>5 DEF Taken, Live
  <2>2. Places' = [s \in SessionIds |-> IF s \in {x} THEN None ELSE Places[s]]
    BY <1>4, <2>1 DEF Places
  <2>3. Calendar!GiveUp({x})
    BY <2>2 DEF Calendar!GiveUp, Places, Taken
  <2> QED BY <2>3 DEF Calendar!Next
<1>6. CASE row.status \in LiveStatus
  <2> DEFINE new == [mentor |-> claims[row.claim].mentor, time |-> row.slot]
  <2>1. Taken(x)' = new
    BY <1>2, <1>6 DEF Taken, Live, MentorOf
  <2>2. new \in Calendar!Place
    <3>1. row.claim \in ClaimIds /\ row.slot \in Slots \cup {NoSlot}
      BY <1>2, <1>6 DEF RowsInv, SessionsHaveClaims, LiveStatus, ScheduledSession
    <3>2. claims[row.claim].mentor \in Mentors \cup {None}
      BY <3>1 DEF RowsInv, TypeOK, MentorClaim
    <3>3. row.slot \in Slots
      BY <1>1, <1>2, <1>6, <3>1 DEF SessionAccepted, NoSlot
    <3> QED BY <3>2, <3>3 DEF Calendar!Place
  <2>3. ASSUME NEW r \in SessionIds \ {x}
        PROVE  Places[r] = None \/ ~ Calendar!Clash(Places[r], new)
    <3>1. CASE ~ Live(r)
      BY <3>1 DEF Places, Taken
    <3>2. CASE Live(r)
      <4>1. Places[r] = [mentor |-> MentorOf(r), time |-> sessions[r].slot]
        BY <3>2 DEF Places, Taken
      <4>2. MentorOf(r) = claims[row.claim].mentor => ~ Overlaps(sessions[r].slot, row.slot)
        BY <1>1, <1>2, <1>6, <3>2 DEF SessionAccepted, ClearOfLive, Live, MentorOf
      <4>3. /\ sessions[r].slot \in Slots \cup {NoSlot}
            /\ row.slot \in Slots \cup {NoSlot}
        BY DEF RowsInv, TypeOK, ScheduledSession
      <4>4. /\ sessions[r].slot.at \in Nat /\ sessions[r].slot.mins \in Nat
            /\ row.slot.at \in Nat /\ row.slot.mins \in Nat
        BY <4>3, SlotsAssumption DEF NoSlot
      <4> QED BY <4>1, <4>2, <4>4 DEF Overlaps, Calendar!Clash
    <3> QED BY <3>1, <3>2
  <2>4. PICK y \in Calendar!Place :
          /\ Places' = [Places EXCEPT ![x] = y]
          /\ \A r \in SessionIds \ {x} :
               Places[r] = None \/ ~ Calendar!Clash(Places[r], y)
    BY <1>4, <2>1, <2>2, <2>3
  <2>5. Calendar!Take(x, y)
    BY <2>4 DEF Calendar!Take, Places, Taken
  <2> QED BY <2>5 DEF Calendar!Next
<1> QED BY <1>5, <1>6

\* For any number of mentors, sessions and handlers, every behaviour of the claims
\* and sessions is one of the calendar that mentors are promised.
THEOREM CalendarKept == Spec => ImplementsCalendar
<1>1. RowsInv /\ [Next]_vars => RowsInv' /\ Kept
  BY NextRows DEF Kept
<1>2. RowsInv /\ RowsInv' /\ Kept /\ [Next]_vars => Calendar!Next
  BY SessionWrites, EndingGivesUp, AcceptedTakes
<1> QED BY <1>1, <1>2, InitRows, CalendarInit, PTL
        DEF Spec, ImplementsCalendar, Calendar!Spec

-----------------------------------------------------------------------------
(* Declined sessions.  Whoever may write the status of a session holds its  *)
(* lock, or has read it as completed, or cancels it.                        *)

Writers == {"update", "confirm", "decline", "complete"}

OneHolder ==
  \A p, q \in Procs :
    p # q /\ tx[p].op \in MentorSessionOps /\ tx[q].op \in MentorSessionOps
      => tx[p].s # tx[q].s

\* What the handler p read of its session is still true of it, as far as its write
\* depends on it: the jobs may have cancelled the session, and nobody else wrote it.
AsRead(p) ==
  LET r == tx[p]
      status == sessions[r.s].status
  IN /\ r.op \in Writers => status # "completed"
     /\ r.op \in {"confirm", "complete"} => status # "declined"
     /\ r.op = "update" => /\ r.sent.status # "completed"
                           /\ status = "declined" => r.sent.status = "declined"
     /\ r.op = "rate" => /\ r.sent.status = "completed"
                         /\ status \in {"completed", "cancelled"}
                         /\ \A q \in Procs : tx[q].op \in Writers => tx[q].s # r.s

LocksInv == OneHolder /\ \A p \in Procs : AsRead(p)

\* Handler p begins, with the record r.
Begins(r) ==
  /\ r.op \in SessionOps /\ r.s \in SessionIds /\ r.sent = sessions[r.s]
  /\ r.op \in MentorSessionOps => AdvisoryFree(r.s)
  /\ r.op = "update" => sessions[r.s].status \notin {"completed", "cancelled"}
  /\ r.op \in {"confirm", "decline"} => sessions[r.s].status = "scheduled"
  /\ r.op = "complete" => sessions[r.s].status = "confirmed"
  /\ r.op = "rate" => sessions[r.s].status = "completed"

\* It begins, goes on or ends.
MovesOn(p) ==
  \E r : /\ tx' = [tx EXCEPT ![p] = r]
         /\ \/ r.op \notin SessionOps
            \/ /\ sessions' = sessions
               /\ \/ Begins(r)
                  \/ r.op = tx[p].op /\ r.s = tx[p].s /\ r.sent = tx[p].sent

\* What its operation writes.
Result(p) ==
  IF tx[p].op \in {"update", "rate"} THEN tx[p].sent.status
  ELSE IF tx[p].op = "confirm" THEN "confirmed"
  ELSE IF tx[p].op = "decline" THEN "declined" ELSE "completed"

\* The status of a session stays, or is cancelled, or is new, or is the result of
\* the operation on it.
StatusWritten(p, s) ==
  \/ sessions'[s].status \in {sessions[s].status, "cancelled"}
  \/ sessions[s].status = "absent" /\ sessions'[s].status = "scheduled"
  \/ /\ tx[p].op \in Writers \cup {"rate"} /\ tx[p].s = s
     /\ sessions'[s].status = Result(p)

StatusStep(p) == MovesOn(p) /\ \A s \in SessionIds : StatusWritten(p, s)

\* A step that leaves the sessions alone.
LEMMA StatusUnchanged ==
  ASSUME NEW p, MovesOn(p), sessions' = sessions
  PROVE  StatusStep(p)
BY DEF StatusStep, StatusWritten

\* Idle is no session's handler, and neither are jobs and handlers of claims.
LEMMA DoneMovesOn ==
  ASSUME NEW p, Done(p)
  PROVE  MovesOn(p)
<1>1. Idle.op \notin SessionOps
  BY DEF Idle, SessionOps, MentorSessionOps
<1> QED BY <1>1 DEF Done, Set, MovesOn

\* One session gets another status.
LEMMA OneStatus ==
  ASSUME TypeOK, NEW p, MovesOn(p), NEW s \in SessionIds, NEW new,
         \/ sessions' = [sessions EXCEPT ![s].status = new]
         \/ sessions' = [sessions EXCEPT ![s] = [sessions[s] EXCEPT !.status = new]],
         \/ new = "cancelled"
         \/ tx[p].op \in Writers \cup {"rate"} /\ tx[p].s = s /\ new = Result(p)
  PROVE  StatusStep(p)
<1>1. sessions[s] \in ScheduledSession
  BY DEF TypeOK
<1>2. sessions'[s].status = new /\ \A t \in SessionIds \ {s} : sessions'[t] = sessions[t]
  BY <1>1 DEF TypeOK, ScheduledSession
<1> QED BY <1>2 DEF StatusStep, StatusWritten

\* Sessions that end with their claim are cancelled.
LEMMA LiveCancelled ==
  ASSUME TypeOK, NEW p, Done(p), CancelLive(p)
  PROVE  StatusStep(p)
<1>1. ASSUME NEW s \in SessionIds PROVE sessions'[s].status \in {sessions[s].status, "cancelled"}
  <2>1. sessions[s] \in ScheduledSession
    BY DEF TypeOK
  <2> QED BY <2>1 DEF CancelLive, ScheduledSession
<1> QED BY <1>1, DoneMovesOn DEF StatusStep, StatusWritten

\* Handlers of claims.
LEMMA ClaimStatus ==
  ASSUME TypeOK, NEW p \in Procs, ClaimStep(p)
  PROVE  StatusStep(p)
<1>1. ASSUME NEW r, Set(p, r), r.op \notin SessionOps, sessions' = sessions
      PROVE  StatusStep(p)
  BY <1>1, StatusUnchanged DEF Set, MovesOn
<1>2. ASSUME NEW t \in Teams, NEW m \in Mentors, BeginClaim(p, t, m) PROVE StatusStep(p)
  <2> DEFINE r == [Idle EXCEPT !.op = "claim", !.team = t, !.mentor = m]
  <2>1. r.op \notin SessionOps
    BY DEF Idle, SessionOps, MentorSessionOps
  <2> QED BY <1>1, <1>2, <2>1 DEF BeginClaim
<1>3. CASE CommitClaim(p)
  BY <1>3, DoneMovesOn, StatusUnchanged DEF CommitClaim
<1>4. ASSUME NEW c \in ClaimIds, BeginRelease(p, c) PROVE StatusStep(p)
  <2> DEFINE r == [Idle EXCEPT !.op = "release", !.c = c, !.cent = claims[c]]
  <2>1. r.op \notin SessionOps
    BY DEF Idle, SessionOps, MentorSessionOps
  <2> QED BY <1>1, <1>4, <2>1 DEF BeginRelease
<1>5. ASSUME NEW c \in ClaimIds, NEW m \in Mentors, BeginSwap(p, c, m) PROVE StatusStep(p)
  <2> DEFINE r == [Idle EXCEPT !.op = "swap", !.c = c, !.cent = claims[c], !.mentor = m]
  <2>1. r.op \notin SessionOps
    BY DEF Idle, SessionOps, MentorSessionOps
  <2> QED BY <1>1, <1>5, <2>1 DEF BeginSwap
<1>6. CASE FindSessions(p) \/ SaveSessions(p)
  <2>1. PICK r : Set(p, r) /\ r.op = tx[p].op
    <3>1. tx[p] \in Tx
      BY DEF TypeOK
    <3>2. CASE FindSessions(p)
      <4> DEFINE r == [tx[p] EXCEPT !.step = "found", !.live = LiveSessions(tx[p].c)]
      <4>1. r.op = tx[p].op
        BY <3>1 DEF Tx
      <4> QED BY <3>2, <4>1 DEF FindSessions
    <3>3. CASE SaveSessions(p)
      <4> DEFINE r == [tx[p] EXCEPT !.step = "saved", !.cbase = claims[tx[p].c]]
      <4>1. r.op = tx[p].op
        BY <3>1 DEF Tx
      <4> QED BY <3>3, <4>1 DEF SaveSessions
    <3> QED BY <1>6, <3>2, <3>3
  <2>2. tx[p].op \notin SessionOps /\ sessions' = sessions
    BY <1>6 DEF FindSessions, SaveSessions, At, SessionOps, MentorSessionOps
  <2> QED BY <1>1, <2>1, <2>2
<1>7. CASE CommitRelease(p) \/ CommitSwap(p)
  BY <1>7, LiveCancelled DEF CommitRelease, CommitSwap
<1> QED BY <1>2, <1>3, <1>4, <1>5, <1>6, <1>7 DEF ClaimStep

\* The scheduler's jobs.
LEMMA CronStatusStep ==
  ASSUME TypeOK, NEW p \in Procs, CronStep(p)
  PROVE  StatusStep(p)
<1>0. tx[p] \in Tx
  BY DEF TypeOK
<1>1. ASSUME NEW r, Set(p, r), r.op \in CronOps, sessions' = sessions
      PROVE  StatusStep(p)
  BY <1>1, StatusUnchanged DEF Set, MovesOn, CronOps, SessionOps, MentorSessionOps
<1>2. ASSUME NEW c \in ClaimIds, BeginExpire(p, c) PROVE StatusStep(p)
  <2> DEFINE r == [Idle EXCEPT !.op = "expire", !.c = c, !.cent = claims[c],
                               !.mentor = Joined(claims[c].mentor),
                               !.live = LiveSessions(c), !.known = SessionsOf(c)]
  <2>1. r.op \in CronOps
    BY DEF Idle, CronOps
  <2> QED BY <1>1, <1>2, <2>1 DEF BeginExpire
<1>3. ASSUME NEW s \in SessionIds, ListNonResponse(p, s) PROVE StatusStep(p)
  <2> DEFINE r == [Idle EXCEPT !.op = "nonresponse", !.step = "listed",
                               !.c = sessions[s].claim]
  <2>1. r.op \in CronOps
    BY DEF Idle, CronOps
  <2> QED BY <1>1, <1>3, <2>1 DEF ListNonResponse
<1>4. CASE LoadNonResponse(p)
  <2> DEFINE r == [tx[p] EXCEPT !.step = "read", !.cent = claims[tx[p].c],
                     !.live = {s \in LiveSessions(tx[p].c) :
                                 sessions[s].status = "scheduled"},
                     !.mentor = Joined(claims[tx[p].c].mentor),
                     !.known = SessionsOf(tx[p].c)]
  <2>1. r.op \in CronOps
    BY <1>0, <1>4 DEF LoadNonResponse, At, Tx, CronOps
  <2>2. (Set(p, r) \/ Done(p)) /\ sessions' = sessions
    BY <1>4 DEF LoadNonResponse
  <2> QED BY <1>1, <2>1, <2>2, DoneMovesOn, StatusUnchanged
<1>5. ASSUME NEW s \in SessionIds, CronCancel(p, s) PROVE StatusStep(p)
  <2> DEFINE r == [tx[p] EXCEPT !.live = @ \ {s}]
  <2>1. r.op \notin SessionOps
    BY <1>0, <1>5 DEF CronCancel, At, Tx, CronOps, SessionOps, MentorSessionOps
  <2>2. MovesOn(p)
    BY <1>5, <2>1 DEF CronCancel, Set, MovesOn
  <2> QED BY <1>5, <2>2, OneStatus DEF CronCancel
<1>6. CASE CronSelect(p)
  <2> DEFINE r == [tx[p] EXCEPT !.step = "selected", !.cbase = claims[tx[p].c]]
  <2>1. r.op \in CronOps
    BY <1>0, <1>6 DEF CronSelect, At, Tx
  <2>2. (Set(p, r) \/ Done(p)) /\ sessions' = sessions
    BY <1>6 DEF CronSelect
  <2> QED BY <1>1, <2>1, <2>2, DoneMovesOn, StatusUnchanged
<1>7. CASE CronCommit(p)
  BY <1>7, DoneMovesOn, StatusUnchanged DEF CronCommit
<1> QED BY <1>2, <1>3, <1>4, <1>5, <1>6, <1>7 DEF CronStep

\* A row that save() writes has its old status or the entity's.
LEMMA SavedStatus ==
  ASSUME NEW row \in ScheduledSession, NEW ent, NEW base
  PROVE  SaveSession(row, ent, base).status \in {row.status, ent.status}
BY DEF SaveSession, ScheduledSession

\* A handler that writes its session as row.
LEMMA SessionWritten ==
  ASSUME RowsInv, NEW p \in Procs, NEW row, WriteSession(p, row),
         tx[p].op \in SessionOps,
         \/ row.status \in {sessions[tx[p].s].status, "cancelled"}
         \/ tx[p].op \in Writers \cup {"rate"} /\ row.status = Result(p)
  PROVE  StatusStep(p)
<1>1. tx[p].s \in SessionIds
  BY DEF RowsInv, ProcessesHoldRows, Holds
<1>2. sessions' = [sessions EXCEPT ![tx[p].s] = row] /\ MovesOn(p)
  BY DoneMovesOn DEF WriteSession
<1>3. /\ sessions'[tx[p].s] = row
      /\ \A t \in SessionIds \ {tx[p].s} : sessions'[t] = sessions[t]
  BY <1>1, <1>2 DEF RowsInv, TypeOK
<1> QED BY <1>2, <1>3 DEF StatusStep, StatusWritten

\* Handlers of sessions.
LEMMA SessionStatusStep ==
  ASSUME RowsInv, NEW p \in Procs, SessionStep(p)
  PROVE  StatusStep(p)
<1>0. TypeOK /\ tx[p] \in Tx /\ Holds(tx[p])
  BY DEF RowsInv, TypeOK, ProcessesHoldRows
<1>1. ASSUME NEW c \in ClaimIds, NEW sl \in Slots, BeginBook(p, c, sl)
      PROVE  StatusStep(p)
  <2> DEFINE r == [Idle EXCEPT !.op = "book", !.c = c, !.slot = sl]
  <2>1. r.op \notin SessionOps
    BY DEF Idle, SessionOps, MentorSessionOps
  <2> QED BY <1>1, <2>1, StatusUnchanged DEF BeginBook, Set, MovesOn
<1>2. CASE CommitBook(p)
  <2>1. PICK s \in SessionIds :
          /\ sessions[s].status = "absent"
          /\ sessions' = [sessions EXCEPT ![s] =
                            [claim |-> tx[p].c, slot |-> tx[p].slot,
                             status |-> "scheduled", bookedAt |-> now]]
    BY <1>2 DEF CommitBook
  <2>2. /\ sessions'[s].status = "scheduled"
        /\ \A t \in SessionIds \ {s} : sessions'[t] = sessions[t]
    BY <1>0, <2>1 DEF TypeOK
  <2> QED BY <1>2, <2>1, <2>2, DoneMovesOn DEF CommitBook, StatusStep, StatusWritten
<1>3. ASSUME NEW r, Begins(r), Set(p, r), sessions' = sessions
      PROVE  StatusStep(p)
  BY <1>3, StatusUnchanged DEF Set, MovesOn
<1>4. ASSUME NEW s \in SessionIds, NEW op \in {"update", "cancel", "confirm", "decline"},
             NEW sl, ReadSession(p, s, op, sl),
             op = "update" => sessions[s].status \notin {"completed", "cancelled"},
             op \in {"confirm", "decline"} => sessions[s].status = "scheduled"
      PROVE  StatusStep(p)
  <2> DEFINE r == [Idle EXCEPT !.op = op, !.s = s, !.sent = sessions[s], !.slot = sl]
  <2>1. r.op = op /\ r.s = s /\ r.sent = sessions[s]
    BY DEF Idle
  <2>2. Begins(r)
    BY <1>4, <2>1 DEF Begins, ReadSession, SessionOps, MentorSessionOps
  <2>3. Set(p, r) /\ sessions' = sessions
    BY <1>4 DEF ReadSession
  <2> QED BY <1>3, <2>2, <2>3
<1>5. ASSUME NEW s \in SessionIds, NEW sl \in Slots, BeginUpdate(p, s, sl)
      PROVE  StatusStep(p)
  BY <1>4, <1>5 DEF BeginUpdate
<1>6. ASSUME NEW s \in SessionIds, BeginCancel(p, s) PROVE StatusStep(p)
  BY <1>4, <1>6 DEF BeginCancel
<1>7. ASSUME NEW s \in SessionIds, BeginConfirm(p, s) PROVE StatusStep(p)
  BY <1>4, <1>7 DEF BeginConfirm
<1>8. ASSUME NEW s \in SessionIds, BeginDecline(p, s) PROVE StatusStep(p)
  BY <1>4, <1>8 DEF BeginDecline
<1>9. ASSUME NEW s \in SessionIds, BeginComplete(p, s) PROVE StatusStep(p)
  <2> DEFINE r == [Idle EXCEPT !.op = "complete", !.s = s, !.sent = sessions[s],
                               !.c = sessions[s].claim,
                               !.cent = claims[sessions[s].claim]]
  <2>1. r.op = "complete" /\ r.s = s /\ r.sent = sessions[s]
    BY DEF Idle
  <2>2. Begins(r)
    BY <1>9, <2>1 DEF Begins, BeginComplete, SessionOps, MentorSessionOps
  <2>3. Set(p, r) /\ sessions' = sessions
    BY <1>9 DEF BeginComplete
  <2> QED BY <1>3, <2>2, <2>3
<1>10. ASSUME NEW s \in SessionIds, BeginRate(p, s) PROVE StatusStep(p)
  <2> DEFINE r == [Idle EXCEPT !.op = "rate", !.s = s, !.sent = sessions[s]]
  <2>1. r.op = "rate" /\ r.s = s /\ r.sent = sessions[s]
    BY DEF Idle
  <2>2. Begins(r)
    BY <1>10, <2>1 DEF Begins, BeginRate, SessionOps, MentorSessionOps
  <2>3. Set(p, r) /\ sessions' = sessions
    BY <1>10 DEF BeginRate
  <2> QED BY <1>3, <2>2, <2>3
<1>11. ASSUME NEW r, Set(p, r), sessions' = sessions,
              r.op = tx[p].op, r.s = tx[p].s, r.sent = tx[p].sent
       PROVE  StatusStep(p)
  BY <1>11, StatusUnchanged DEF Set, MovesOn
<1>12. CASE SelectSession(p)
  <2> DEFINE r == [tx[p] EXCEPT !.step = "selected", !.sbase = sessions[tx[p].s]]
  <2>1. r.op = tx[p].op /\ r.s = tx[p].s /\ r.sent = tx[p].sent
    BY <1>0 DEF Tx
  <2>2. Set(p, r) /\ sessions' = sessions
    BY <1>12 DEF SelectSession
  <2> QED BY <1>11, <2>1, <2>2
<1>13. CASE SaveCompleted(p)
  <2> DEFINE r == [tx[p] EXCEPT !.step = "saved", !.live = {tx[p].s},
                                !.cbase = claims[tx[p].c]]
  <2>1. r.op = tx[p].op /\ r.s = tx[p].s /\ r.sent = tx[p].sent
    BY <1>0 DEF Tx
  <2>2. Set(p, r) /\ sessions' = sessions
    BY <1>13 DEF SaveCompleted
  <2> QED BY <1>11, <2>1, <2>2
<1>14. tx[p].op \in SessionOps => /\ tx[p].s \in SessionIds
                                  /\ sessions[tx[p].s] \in ScheduledSession
                                  /\ tx[p].sent \in ScheduledSession
  BY <1>0 DEF Holds, TypeOK, Tx
<1>15. CASE CommitUpdate(p)
  <2>1. tx[p].op = "update" /\ tx[p].op \in SessionOps
    BY <1>15 DEF CommitUpdate, At, SessionOps, MentorSessionOps
  <2> DEFINE ent == [tx[p].sent EXCEPT !.slot = tx[p].slot]
             row == SaveSession(sessions[tx[p].s], ent, tx[p].sbase)
  <2>2. ent.status = tx[p].sent.status
    BY <1>14, <2>1 DEF ScheduledSession
  <2>3. row.status \in {sessions[tx[p].s].status, tx[p].sent.status}
    BY <1>14, <2>1, <2>2, SavedStatus
  <2>4. WriteSession(p, row)
    BY <1>15 DEF CommitUpdate
  <2>5. Result(p) = tx[p].sent.status /\ tx[p].op \in Writers
    BY <2>1 DEF Result, Writers
  <2> HIDE DEF row
  <2> QED BY <2>1, <2>3, <2>4, <2>5, SessionWritten
<1>16. CASE CommitRate(p)
  <2>1. tx[p].op = "rate" /\ tx[p].op \in SessionOps
    BY <1>16 DEF CommitRate, At, SessionOps
  <2> DEFINE row == SaveSession(sessions[tx[p].s], tx[p].sent, tx[p].sbase)
  <2>2. row.status \in {sessions[tx[p].s].status, tx[p].sent.status}
    BY <1>14, <2>1, SavedStatus
  <2>3. WriteSession(p, row)
    BY <1>16 DEF CommitRate
  <2>4. Result(p) = tx[p].sent.status
    BY <2>1 DEF Result
  <2> HIDE DEF row
  <2> QED BY <2>1, <2>2, <2>3, <2>4, SessionWritten
<1>17. ASSUME NEW new, WriteSession(p, [sessions[tx[p].s] EXCEPT !.status = new]),
              \/ tx[p].op = "cancel" /\ new = "cancelled"
              \/ tx[p].op = "confirm" /\ new = "confirmed"
              \/ tx[p].op = "decline" /\ new = "declined"
       PROVE  StatusStep(p)
  <2>1. tx[p].op \in SessionOps
    BY <1>17 DEF SessionOps, MentorSessionOps
  <2> DEFINE row == [sessions[tx[p].s] EXCEPT !.status = new]
  <2>2. row.status = new
    BY <1>14, <2>1 DEF ScheduledSession
  <2>3. new = "cancelled" \/ (tx[p].op \in Writers /\ new = Result(p))
    BY <1>17 DEF Writers, Result
  <2>4. WriteSession(p, row)
    BY <1>17
  <2> HIDE DEF row
  <2> QED BY <2>1, <2>2, <2>3, <2>4, SessionWritten
<1>18. CASE CommitCancel(p) \/ CommitConfirm(p) \/ CommitDecline(p)
  BY <1>17, <1>18 DEF CommitCancel, CommitConfirm, CommitDecline, At
<1>19. CASE CommitComplete(p)
  <2>1. tx[p].op = "complete" /\ tx[p].op \in SessionOps
    BY <1>19 DEF CommitComplete, At, SessionOps, MentorSessionOps
  <2>2. tx[p].op \in Writers /\ Result(p) = "completed"
    BY <2>1 DEF Writers, Result
  <2>3. sessions' = [sessions EXCEPT ![tx[p].s].status = "completed"] /\ MovesOn(p)
    BY <1>19, DoneMovesOn DEF CommitComplete
  <2> QED BY <1>0, <1>14, <2>1, <2>2, <2>3, OneStatus
<1> QED BY <1>1, <1>2, <1>5, <1>6, <1>7, <1>8, <1>9, <1>10, <1>12, <1>13, <1>15,
           <1>16, <1>18, <1>19 DEF SessionStep

\* A step that leaves sessions and handlers alone.
LEMMA EnvironmentKeeps ==
  ASSUME LocksInv, UNCHANGED <<sessions, tx>>
  PROVE  LocksInv'
BY DEF LocksInv, OneHolder, AsRead

\* A handler locks its session, and so no two hold the same.
LEMMA HoldersKept ==
  ASSUME TypeOK, LocksInv, NEW p \in Procs, MovesOn(p)
  PROVE  OneHolder'
<1>1. PICK r : /\ tx' = [tx EXCEPT ![p] = r]
               /\ \/ r.op \notin SessionOps
                  \/ Begins(r)
                  \/ r.op = tx[p].op /\ r.s = tx[p].s
  BY DEF MovesOn
<1>2. tx'[p] = r /\ \A q \in Procs \ {p} : tx'[q] = tx[q]
  BY <1>1 DEF TypeOK
<1>3. ASSUME r.op \in MentorSessionOps, NEW q \in Procs \ {p}, tx[q].op \in MentorSessionOps
      PROVE  r.s # tx[q].s
  BY <1>1, <1>3 DEF Begins, AdvisoryFree, SessionOps, LocksInv, OneHolder
<1> QED BY <1>2, <1>3 DEF LocksInv, OneHolder

\* No step of p makes stale what another handler relies on ...
LEMMA OthersAsRead ==
  ASSUME TypeOK, ProcessesHoldRows, LocksInv, NEW p \in Procs, StatusStep(p),
         NEW q \in Procs \ {p}
  PROVE  AsRead(q)'
<1> DEFINE s == tx[q].s
<1>1. PICK r : /\ tx' = [tx EXCEPT ![p] = r]
               /\ \/ r.op \notin SessionOps
                  \/ Begins(r)
                  \/ r.op = tx[p].op /\ r.s = tx[p].s
  BY DEF StatusStep, MovesOn
<1>2. tx'[p] = r /\ \A o \in Procs \ {p} : tx'[o] = tx[o]
  BY <1>1 DEF TypeOK
<1>3. CASE tx[q].op \in Writers
  <2>1. tx[q].op \in MentorSessionOps
    BY <1>3 DEF Writers, MentorSessionOps
  <2>2. s \in SessionIds
    BY <2>1 DEF ProcessesHoldRows, Holds, SessionOps
  <2>3. ~ (tx[p].op \in Writers \cup {"rate"} /\ tx[p].s = s)
    BY <1>3, <2>1 DEF LocksInv, OneHolder, AsRead, Writers, MentorSessionOps
  <2>4. sessions'[s].status \in {sessions[s].status, "cancelled", "scheduled"}
    BY <2>2, <2>3 DEF StatusStep, StatusWritten
  <2>5. AsRead(q)
    BY DEF LocksInv
  <2>6. tx'[q] = tx[q] /\ tx[q].op # "rate"
    BY <1>2, <1>3 DEF Writers
  <2> QED BY <2>4, <2>5, <2>6 DEF AsRead
<1>4. CASE tx[q].op = "rate"
  <2>1. s \in SessionIds
    BY <1>4 DEF ProcessesHoldRows, Holds, SessionOps
  <2>2. /\ tx[q].sent.status = "completed"
        /\ sessions[s].status \in {"completed", "cancelled"}
        /\ \A o \in Procs : tx[o].op \in Writers => tx[o].s # s
    BY <1>4 DEF LocksInv, AsRead
  <2>3. sessions'[s].status \in {"completed", "cancelled"}
    <3>1. tx[p].op = "rate" => Result(p) = "completed"
      BY DEF LocksInv, AsRead, Result
    <3> QED BY <2>1, <2>2, <3>1 DEF StatusStep, StatusWritten
  <2>4. ASSUME NEW o \in Procs, tx'[o].op \in Writers PROVE tx'[o].s # s
    <3>1. CASE o # p
      BY <1>2, <2>2, <2>4, <3>1
    <3>2. CASE o = p
      <4>1. r.op \in Writers
        BY <1>2, <2>4, <3>2
      <4>2. r.op \in SessionOps
        BY <4>1 DEF Writers, SessionOps, MentorSessionOps
      <4>3. Begins(r) => r.s # s
        BY <2>2, <4>1 DEF Begins, Writers
      <4> QED BY <1>1, <1>2, <2>2, <3>2, <4>1, <4>2, <4>3
    <3> QED BY <3>1, <3>2
  <2>5. tx'[q] = tx[q] /\ tx[q].op \notin Writers
    BY <1>2, <1>4 DEF Writers
  <2> QED BY <1>4, <2>2, <2>3, <2>4, <2>5 DEF AsRead, Writers
<1>5. CASE tx[q].op \notin Writers \cup {"rate"}
  <2>1. tx'[q] = tx[q]
    BY <1>2
  <2> QED BY <1>5, <2>1 DEF AsRead, Writers
<1> QED BY <1>3, <1>4, <1>5

\* ... and what it has read itself is true when it reads it.
LEMMA OwnAsRead ==
  ASSUME TypeOK, LocksInv, NEW p \in Procs, MovesOn(p)
  PROVE  AsRead(p)'
<1>1. PICK r : /\ tx' = [tx EXCEPT ![p] = r]
               /\ \/ r.op \notin SessionOps
                  \/ /\ sessions' = sessions
                     /\ \/ Begins(r)
                        \/ r.op = tx[p].op /\ r.s = tx[p].s /\ r.sent = tx[p].sent
  BY DEF MovesOn
<1>2. tx'[p] = r /\ \A o \in Procs \ {p} : tx'[o] = tx[o]
  BY <1>1 DEF TypeOK
<1>3. CASE r.op \notin SessionOps
  BY <1>2, <1>3 DEF AsRead, Writers, SessionOps, MentorSessionOps
<1>4. CASE sessions' = sessions /\ Begins(r)
  <2>1. ASSUME r.op = "rate", NEW o \in Procs, tx'[o].op \in Writers
        PROVE  tx'[o].s # r.s
    <3>1. o # p /\ tx'[o] = tx[o]
      BY <1>2, <2>1 DEF Writers
    <3>2. sessions[tx[o].s].status # "completed"
      BY <2>1, <3>1 DEF LocksInv, AsRead
    <3> QED BY <1>4, <2>1, <3>1, <3>2 DEF Begins
  <2> QED BY <1>2, <1>4, <2>1 DEF AsRead, Begins, Writers
<1>5. CASE sessions' = sessions /\ r.op = tx[p].op /\ r.s = tx[p].s /\ r.sent = tx[p].sent
  <2>1. ASSUME NEW o \in Procs PROVE tx'[o].op = tx[o].op /\ tx'[o].s = tx[o].s
    BY <1>2, <1>5
  <2>2. AsRead(p)
    BY DEF LocksInv
  <2> QED BY <1>2, <1>5, <2>1, <2>2 DEF AsRead
<1> QED BY <1>1, <1>3, <1>4, <1>5

Undeclined(s) ==
  sessions[s].status = "declined" => sessions'[s].status \in {"declined", "cancelled"}

\* Of the operations on a declined session only the update can still write, and it
\* has read that the session is declined.
LEMMA DeclinedKept ==
  ASSUME LocksInv, NEW p \in Procs, StatusStep(p), NEW s \in SessionIds
  PROVE  Undeclined(s)
<1>1. ASSUME sessions[s].status = "declined", tx[p].s = s,
             tx[p].op \in Writers \cup {"rate"}
      PROVE  Result(p) = "declined"
  BY <1>1 DEF LocksInv, AsRead, Result, Writers
<1> QED BY <1>1 DEF StatusStep, StatusWritten, Undeclined

\* Every step keeps the locks' invariant and brings no declined session back.
LEMMA NextStatus ==
  ASSUME RowsInv, LocksInv, [Next]_vars
  PROVE  LocksInv' /\ \A s \in SessionIds : Undeclined(s)
<1>0. TypeOK /\ ProcessesHoldRows
  BY DEF RowsInv
<1>1. ASSUME NEW p \in Procs, StatusStep(p)
      PROVE  LocksInv' /\ \A s \in SessionIds : Undeclined(s)
  <2>1. OneHolder' /\ AsRead(p)'
    BY <1>0, <1>1, HoldersKept, OwnAsRead DEF StatusStep
  <2>2. \A q \in Procs \ {p} : AsRead(q)'
    BY <1>0, <1>1, OthersAsRead
  <2> QED BY <1>1, <2>1, <2>2, DeclinedKept DEF LocksInv
<1>2. ASSUME NEW p \in Procs, ClaimStep(p) \/ SessionStep(p) \/ CronStep(p) \/ Fail(p)
      PROVE  StatusStep(p)
  <2>1. CASE Fail(p)
    BY <2>1, DoneMovesOn, StatusUnchanged DEF Fail
  <2> QED BY <1>0, <1>2, <2>1, ClaimStatus, SessionStatusStep, CronStatusStep
<1>3. CASE UNCHANGED <<sessions, tx>>
  BY <1>3, EnvironmentKeeps DEF Undeclined
<1>4. CASE Environment
  BY <1>3, <1>4 DEF Environment, Tick, UpdateMentor, DeleteMentor,
         RestoreMentor, Change
<1>5. CASE UNCHANGED vars
  BY <1>3, <1>5 DEF vars
<1> QED BY <1>1, <1>2, <1>4, <1>5 DEF Next

\* No handler has read anything yet.
LEMMA InitLocks == Init => LocksInv
BY DEF Init, LocksInv, OneHolder, AsRead, Idle, MentorSessionOps, Writers

\* A session that the mentor declined is never brought back to life, however
\* requests and jobs race (DeclinedStaysDeclined): confirm and complete read the
\* session under its lock and find it not declined, and an update, which writes
\* back the status it read, has read it as declined.
THEOREM DeclinedStays == Spec => DeclinedStaysDeclined
<1>1. RowsInv /\ LocksInv /\ [Next]_vars => LocksInv'
  BY NextStatus
<1>2. RowsInv /\ LocksInv /\ [Next]_vars
      => [\A s \in SessionIds : sessions[s].status = "declined" =>
            sessions'[s].status \in {"declined", "cancelled"}]_vars
  BY NextStatus DEF Undeclined
<1> QED BY <1>1, <1>2, InitLocks, Rows, PTL DEF Spec, DeclinedStaysDeclined

=============================================================================
