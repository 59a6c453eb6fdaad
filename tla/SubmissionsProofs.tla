-------------------------- MODULE SubmissionsProofs --------------------------
(***************************************************************************)
(* What Submissions promises for every set of works, stages and contents   *)
(* and for every number of requests of each side. The argument is one of   *)
(* ownership: a row is before a request as the request read it, until a    *)
(* rival writes it, because the statuses in which the team, staff and the  *)
(* worker take a row up do not overlap. So a request that is still fresh   *)
(* when it writes meets no other that is, and when it is not, the work is  *)
(* among the overwritten.                                                  *)
(***************************************************************************)
EXTENDS Submissions, TLAPS

TeamOps == {"saveDraft", "submit"}
StaffOps == {"evaluate", "approve", "reject"}

\* TypeOK without the length of histories, which needs HistoryNumbered.
Types ==
  /\ row \in [Works -> Submission \cup {Null}]
  /\ history \in [Works -> Seq(Entry)]
  /\ past \subseteq Works
  /\ req \in [Procs -> Request \cup {Null}]
  /\ job \in [Works -> Job]
  /\ result \in [Works -> Contents \cup {Null}]
  /\ overwritten \subseteq Works

\* Requests keep to the operations of their side, and rows do not vanish.
Sides ==
  \A h \in Procs : req[h] # Null =>
    /\ h \in Participants => req[h].op \in TeamOps
    /\ h \in Staff => req[h].op \in StaffOps /\ req[h].read # Null
    /\ req[h].read # Null => Exists(req[h].work)
    /\ req[h].step = "write" => req[h].read # Null /\ req[h].base # Null

\* Request r of the team has the editable row sub before it, as it read it.
TeamFits(r, sub) ==
  /\ sub = r.read
  /\ sub # Null => sub.status \in {"draft", "rejected"}
  /\ r.ent.version = IF sub = Null THEN 1 ELSE sub.version + 1
  /\ r.step = "write" => r.base = sub

\* Staff are about to change the status of sub and nothing else.
KeepsContent(r, sub) ==
  sub # Null /\ r.ent.content = sub.content /\ r.ent.version = sub.version

DecideFits(r, sub) ==
  /\ KeepsContent(r, sub)
  /\ sub = r.read
  /\ sub.status \in {"pending_approval", "late"}
  /\ sub.status = "late" => r.work \in Manual
  /\ r.step = "write" => r.base = sub

GradeFits(r, sub) ==
  /\ KeepsContent(r, sub)
  /\ sub.status \notin {"draft", "rejected"}
  /\ r.ent.status = "evaluated"
  /\ r.step = "write" =>
       r.base # Null /\ r.base.content = sub.content /\ r.base.version = sub.version

RegradeFits(r, sub) ==
  /\ KeepsContent(r, sub)
  /\ sub = r.read /\ sub.status = "rejected"
  /\ r.ent.status = "evaluated"
  /\ r.step = "write" => r.base = sub

Fits(r, sub) ==
  /\ r.op \in TeamOps => TeamFits(r, sub)
  /\ r.op \in {"approve", "reject"} => DecideFits(r, sub)
  /\ r.op = "evaluate" => IF r.read.status = "rejected" THEN RegradeFits(r, sub)
                          ELSE GradeFits(r, sub)

Current(h) == req[h] # Null /\ req[h].fresh /\ req[h].work \in Intact
RequestsHold == \A h \in Procs : Current(h) => Fits(req[h], row[req[h].work])

\* The worker evaluates the content of a row that was handed in for it.
WorkerHolds ==
  \A w \in Works : job[w].step = "evaluating" =>
    /\ Exists(w)
    /\ w \in Intact => Eligible(w) /\ row[w].content = job[w].content

ResultHolds ==
  \A w \in Intact : result[w] # Null =>
    Has(w, {"evaluated"}) /\ row[w].content = result[w]

HistoryNumbered ==
  \A w \in Intact : Len(history[w]) = IF Exists(w) THEN row[w].version - 1 ELSE 0

TablesHold == WorkerHolds /\ ResultHolds /\ HistoryNumbered
Inv == Types /\ Sides /\ RequestsHold /\ TablesHold

-----------------------------------------------------------------------------
\* The invariant holds of empty tables.
LEMMA InitInv == Init => Inv
<1> SUFFICES ASSUME Init PROVE Inv
  OBVIOUS
<1>1. Types
  <2>1. NoJob \in Job
    BY DEF NoJob, Job
  <2>2. << >> \in Seq(Entry)
    OBVIOUS
  <2> QED BY <2>1, <2>2 DEF Init, Types
<1>2. Sides /\ RequestsHold
  BY DEF Init, Sides, RequestsHold, Current
<1>3. WorkerHolds /\ ResultHolds
  BY DEF Init, WorkerHolds, ResultHolds, NoJob, Intact
<1>4. HistoryNumbered
  BY DEF Init, HistoryNumbered, Exists, Intact
<1> QED BY <1>1, <1>2, <1>3, <1>4 DEF Inv, TablesHold

-----------------------------------------------------------------------------
(* Requests that begin. The tables do not change.                          *)

LEMMA TablesUnchanged ==
  ASSUME TablesHold, UNCHANGED <<row, history, job, result, overwritten>>
  PROVE  TablesHold'
BY DEF TablesHold, WorkerHolds, ResultHolds, HistoryNumbered, Intact, Eligible, Has, Exists

\* Steps that leave rows and handlers alone.
LEMMA HandlersUnchanged ==
  ASSUME Sides, RequestsHold, UNCHANGED <<row, req, overwritten>>
  PROVE  Sides' /\ RequestsHold'
BY DEF Sides, RequestsHold, Current, Intact, Exists

\* A request takes the place of what h held, and it fits.
LEMMA NewRequest ==
  ASSUME Inv, NEW h \in Procs, NEW r \in Request, req' = [req EXCEPT ![h] = r],
         UNCHANGED <<row, history, past, job, result, overwritten>>,
         h \in Participants => r.op \in TeamOps,
         h \in Staff => r.op \in StaffOps /\ r.read # Null,
         r.read # Null => Exists(r.work),
         r.step = "write" => r.read # Null /\ r.base # Null,
         r.fresh /\ r.work \in Intact => Fits(r, row[r.work])
  PROVE  Inv'
<1>1. req'[h] = r /\ \A g \in Procs : g # h => req'[g] = req[g]
  BY DEF Inv, Types
<1>2. Types'
  BY DEF Inv, Types
<1>3. Sides'
  <2> SUFFICES ASSUME NEW g \in Procs, req'[g] # Null
               PROVE  /\ g \in Participants => req'[g].op \in TeamOps
                      /\ g \in Staff => req'[g].op \in StaffOps /\ req'[g].read # Null
                      /\ req'[g].read # Null => Exists(req'[g].work)
                      /\ req'[g].step = "write" =>
                           req'[g].read # Null /\ req'[g].base # Null
    BY DEF Sides, Exists
  <2>1. CASE g = h
    BY <2>1, <1>1
  <2>2. CASE g # h
    BY <2>2, <1>1 DEF Inv, Sides
  <2> QED BY <2>1, <2>2
<1>4. RequestsHold'
  <2> SUFFICES ASSUME NEW g \in Procs, req'[g] # Null, req'[g].fresh,
                      req'[g].work \in Intact
               PROVE  Fits(req'[g], row[req'[g].work])
    BY DEF RequestsHold, Current, Intact
  <2>1. CASE g = h
    BY <2>1, <1>1
  <2>2. CASE g # h
    BY <2>2, <1>1 DEF Inv, RequestsHold, Current
  <2> QED BY <2>1, <2>2
<1>5. TablesHold'
  BY TablesUnchanged DEF Inv
<1> QED BY <1>2, <1>3, <1>4, <1>5 DEF Inv

\* A request of the team begins with an editable row and its revision.
LEMMA BeginTeam ==
  ASSUME Inv, NEW h \in Participants, NEW w \in Works, NEW content \in Contents,
         NEW op \in TeamOps, NEW status \in SubmissionStatus, Editable(w),
         Exists(w) => row[w].version < MaxVersion,
         Begin(h, op, w, Revised(w, content, status))
  PROVE  Inv'
<1> DEFINE ent == Revised(w, content, status)
<1>0. h \in Procs /\ h \notin Staff
  BY ProcsAssumption DEF Procs
<1>1. row[w] \in Submission \cup {Null}
  BY DEF Inv, Types
<1>2. /\ ent \in Submission
      /\ ent.version = IF row[w] = Null THEN 1 ELSE row[w].version + 1
  <2>1. CASE Exists(w)
    <3>1. row[w].version \in 1 .. MaxVersion
      BY <1>1, <2>1 DEF Exists, Submission
    <3>2. row[w].version + 1 \in 1 .. MaxVersion
      BY <3>1, <2>1, VersionAssumption
    <3> QED BY <3>2, <2>1 DEF Revised, NextVersion, Submission, Exists
  <2>2. CASE ~ Exists(w)
    BY <2>2, VersionAssumption DEF Revised, Submission, Exists
  <2> QED BY <2>1, <2>2
<1> DEFINE r == [op |-> op, step |-> "save", work |-> w,
                 read |-> row[w], ent |-> ent, base |-> Null, fresh |-> TRUE]
<1>3. r \in Request
  BY <1>1, <1>2 DEF Request, TeamOps
<1>4. /\ r.op = op /\ r.read = row[w] /\ r.work = w /\ r.step = "save" /\ r.ent = ent
  OBVIOUS
<1>5. req' = [req EXCEPT ![h] = r] /\ UNCHANGED <<row, history, past, job, result, overwritten>>
  BY DEF Begin
<1> HIDE DEF r, ent
<1>6. Fits(r, row[w])
  BY <1>2, <1>4 DEF Fits, TeamFits, TeamOps, Editable, Has, Exists
<1> QED BY <1>0, <1>3, <1>4, <1>5, <1>6, NewRequest DEF Exists

\* A request of staff begins with a row that was handed in.
LEMMA BeginStaff ==
  ASSUME Inv, NEW h \in Staff, NEW w \in Works,
         NEW op \in StaffOps, NEW status \in SubmissionStatus,
         Exists(w), row[w].status # "draft",
         op = "evaluate" => status = "evaluated",
         op \in {"approve", "reject"} => Decidable(w),
         Begin(h, op, w, [row[w] EXCEPT !.status = status])
  PROVE  Inv'
<1> DEFINE ent == [row[w] EXCEPT !.status = status]
<1>0. h \in Procs /\ h \notin Participants
  BY ProcsAssumption DEF Procs
<1>1. row[w] \in Submission /\ row[w] # Null
  BY DEF Inv, Types, Exists
<1>2. /\ ent \in Submission /\ ent.status = status
      /\ ent.content = row[w].content /\ ent.version = row[w].version
  BY <1>1 DEF Submission
<1> DEFINE r == [op |-> op, step |-> "save", work |-> w,
                 read |-> row[w], ent |-> ent, base |-> Null, fresh |-> TRUE]
<1>3. r \in Request
  BY <1>1, <1>2 DEF Request, StaffOps
<1>4. /\ r.op = op /\ r.read = row[w] /\ r.work = w /\ r.step = "save" /\ r.ent = ent
  OBVIOUS
<1>5. req' = [req EXCEPT ![h] = r] /\ UNCHANGED <<row, history, past, job, result, overwritten>>
  BY DEF Begin
<1> HIDE DEF r, ent
<1>6. Fits(r, row[w])
  <2>1. KeepsContent(r, row[w])
    BY <1>1, <1>2, <1>4 DEF KeepsContent
  <2>2. op \in {"approve", "reject"} => DecideFits(r, row[w])
    BY <2>1, <1>4 DEF DecideFits, Decidable, Has
  <2>3. op = "evaluate" => IF r.read.status = "rejected" THEN RegradeFits(r, row[w])
                           ELSE GradeFits(r, row[w])
    BY <2>1, <1>2, <1>4 DEF RegradeFits, GradeFits
  <2>4. r.op \notin TeamOps
    BY <1>4 DEF StaffOps, TeamOps
  <2> QED BY <2>2, <2>3, <2>4, <1>4 DEF Fits
<1> QED BY <1>0, <1>1, <1>3, <1>4, <1>5, <1>6, NewRequest DEF Exists

\* save() looks at the row again: what held of the request still does.
LEMMA SelectStep ==
  ASSUME Inv, NEW h \in Procs, Select(h)
  PROVE  Inv'
<1> DEFINE w == req[h].work
           r == [req[h] EXCEPT !.step = "write", !.base = row[w]]
<1>1. /\ req[h] # Null /\ req[h].read # Null /\ req[h] \in Request
      /\ UNCHANGED <<row, history, past, job, result, overwritten>>
  BY DEF Select, Inv, Types
<1>2. w \in Works /\ row[w] \in Submission /\ row[w] # Null
  BY <1>1 DEF Inv, Types, Sides, Request, Exists
<1>3. /\ r \in Request
      /\ r.op = req[h].op /\ r.read = req[h].read /\ r.ent = req[h].ent
      /\ r.work = w /\ r.base = row[w] /\ r.step = "write" /\ r.fresh = req[h].fresh
  BY <1>1, <1>2 DEF Request
<1>4. req' = [req EXCEPT ![h] = r]
  BY <1>1 DEF Select, Inv, Types
<1> HIDE DEF r
<1>5. ASSUME r.fresh, w \in Intact PROVE Fits(r, row[w])
  <2>1. Fits(req[h], row[w])
    BY <1>1, <1>3, <1>5 DEF Inv, RequestsHold, Current
  <2> QED BY <2>1, <1>2, <1>3 DEF Fits, TeamFits, DecideFits, GradeFits, RegradeFits,
                                  KeepsContent
<1> QED BY <1>1, <1>2, <1>3, <1>4, <1>5, NewRequest DEF Inv, Sides, Exists

\* Nothing is left of a request that ended; the others are as they were.
LEMMA EndStep ==
  ASSUME Inv, NEW h \in Procs, End(h),
         UNCHANGED <<row, history, past, job, result, overwritten>>
  PROVE  Inv'
<1>1. /\ req' \in [Procs -> Request \cup {Null}]
      /\ \A g \in Procs : req'[g] # Null => req'[g] = req[g]
  BY DEF Inv, Types, End
<1>2. Types'
  BY <1>1 DEF Inv, Types
<1>3. Sides' /\ RequestsHold'
  BY <1>1 DEF Inv, Sides, RequestsHold, Current, Intact, Exists
<1>4. TablesHold'
  BY TablesUnchanged DEF Inv
<1> QED BY <1>2, <1>3, <1>4 DEF Inv

-----------------------------------------------------------------------------
(* Requests that write.                                                    *)

\* What a write leaves alone.
LEMMA WriteFrame ==
  ASSUME Inv, NEW h \in Procs, req[h] # Null, NEW new \in Submission, Write(h, new)
  PROVE  LET w == req[h].work
         IN  /\ w \in Works /\ row'[w] = new /\ new # Null
             /\ \A v \in Works : v # w => row'[v] = row[v]
             /\ row' \in [Works -> Submission \cup {Null}]
             /\ req' \in [Procs -> Request \cup {Null}]
             /\ \A g \in Procs : req'[g] # Null =>
                  /\ g # h /\ req[g] # Null
                  /\ req'[g].work = req[g].work /\ req'[g].op = req[g].op
                  /\ req'[g].step = req[g].step /\ req'[g].read = req[g].read
                  /\ req'[g].base = req[g].base
                  /\ req'[g].fresh => req'[g] = req[g] /\ ~ Rivals(h, g)
             /\ overwritten' \subseteq Works
             /\ Intact' \subseteq Intact
             /\ w \in Intact' => req[h].fresh
<1> DEFINE w == req[h].work
<1>1. req[h] \in Request /\ w \in Works
  BY DEF Inv, Types, Request
<1>2. /\ row' = [row EXCEPT ![w] = new]
      /\ req' = [g \in Procs |-> IF g = h THEN Null
                                ELSE IF Rivals(h, g)
                                     THEN [req[g] EXCEPT !.fresh = FALSE]
                                     ELSE req[g]]
      /\ overwritten' = IF req[h].fresh THEN overwritten ELSE overwritten \cup {w}
  BY DEF Write
<1>3. new # Null
  BY NullAssumption
<1>4. row'[w] = new /\ \A v \in Works : v # w => row'[v] = row[v]
  BY <1>1, <1>2 DEF Inv, Types
<1>5. row' \in [Works -> Submission \cup {Null}]
  BY <1>1, <1>2 DEF Inv, Types
<1>6. ASSUME NEW g \in Procs
      PROVE  /\ req'[g] \in Request \cup {Null}
             /\ req'[g] # Null =>
                  /\ g # h /\ req[g] # Null
                  /\ req'[g].work = req[g].work /\ req'[g].op = req[g].op
                  /\ req'[g].step = req[g].step /\ req'[g].read = req[g].read
                  /\ req'[g].base = req[g].base
                  /\ req'[g].fresh => req'[g] = req[g] /\ ~ Rivals(h, g)
  <2>1. CASE g = h
    BY <2>1, <1>2
  <2>2. CASE g # h /\ Rivals(h, g)
    <3>1. req[g] \in Request /\ req[g] # Null
      BY <2>2 DEF Rivals, Inv, Types
    <3> DEFINE r == [req[g] EXCEPT !.fresh = FALSE]
    <3>2. /\ r \in Request /\ r.fresh = FALSE
          /\ r.work = req[g].work /\ r.op = req[g].op /\ r.step = req[g].step
          /\ r.read = req[g].read /\ r.base = req[g].base
      BY <3>1 DEF Request
    <3>3. req'[g] = r
      BY <2>2, <1>2
    <3> HIDE DEF r
    <3> QED BY <2>2, <3>1, <3>2, <3>3
  <2>3. CASE g # h /\ ~ Rivals(h, g)
    <3>1. req'[g] = req[g]
      BY <2>3, <1>2
    <3>2. req[g] \in Request \cup {Null}
      BY DEF Inv, Types
    <3> QED BY <2>3, <3>1, <3>2
  <2> QED BY <2>1, <2>2, <2>3
<1>7. req' \in [Procs -> Request \cup {Null}]
  <2>1. \A g \in Procs : req'[g] \in Request \cup {Null}
    BY <1>6
  <2> DEFINE F(g) == IF g = h THEN Null
                     ELSE IF Rivals(h, g) THEN [req[g] EXCEPT !.fresh = FALSE]
                     ELSE req[g]
  <2>2. req' = [g \in Procs |-> F(g)]
    BY <1>2
  <2>3. \A g \in Procs : F(g) = req'[g]
    BY <2>2
  <2> HIDE DEF F
  <2> QED BY <2>1, <2>2, <2>3
<1>8. overwritten' \subseteq Works /\ Intact' \subseteq Intact
      /\ (w \in Intact' => req[h].fresh)
  BY <1>1, <1>2 DEF Inv, Types, Intact
<1> QED BY <1>1, <1>3, <1>4, <1>5, <1>6, <1>7, <1>8

\* Whoever leaves a work intact wrote the row it read, and no other request on
\* that work counts on its row any more.
LEMMA FreshWrite ==
  ASSUME Inv, NEW h \in Procs, req[h] # Null, NEW new \in Submission, Write(h, new),
         req[h].work \in Intact'
  PROVE  /\ req[h].work \in Intact
         /\ Fits(req[h], row[req[h].work])
         /\ \A g \in Procs : req'[g] # Null /\ req'[g].work = req[h].work =>
              ~ req'[g].fresh
<1> DEFINE w == req[h].work
<1>1. req[h].fresh /\ w \in Intact
  BY WriteFrame
<1>2. Fits(req[h], row[w])
  BY <1>1 DEF Inv, RequestsHold, Current
<1>3. ASSUME NEW g \in Procs, req'[g] # Null, req'[g].work = w, req'[g].fresh
      PROVE  FALSE
  <2>1. /\ req[g] # Null /\ req'[g] = req[g] /\ ~ Rivals(h, g) /\ g # h
    BY <1>3, WriteFrame
  <2>2. Fits(req[g], row[w])
    BY <1>1, <1>3, <2>1 DEF Inv, RequestsHold, Current
  <2>3. ~ SameSide(h, g) /\ ~ Regrades(h) /\ ~ Regrades(g)
    BY <1>3, <2>1 DEF Rivals
  <2>4. ASSUME NEW p \in Participants, req[p] # Null, Fits(req[p], row[w]),
               NEW s \in Staff, req[s] # Null, Fits(req[s], row[w]), ~ Regrades(s)
        PROVE  FALSE
    <3>1. row[w] # Null => row[w].status \in {"draft", "rejected"}
      BY <2>4 DEF Inv, Sides, Fits, TeamFits, Procs
    <3>2. row[w] # Null /\ row[w].status \notin {"draft", "rejected"}
      BY <2>4 DEF Inv, Sides, Fits, DecideFits, GradeFits, KeepsContent, Regrades,
                  StaffOps, Procs
    <3> QED BY <3>1, <3>2
  <2>5. CASE h \in Participants
    <3>1. g \in Staff
      BY <2>3, <2>5 DEF SameSide, Procs
    <3> QED BY <2>5, <3>1, <2>1, <2>2, <2>3, <1>2, <2>4
  <2>6. CASE h \notin Participants
    <3>1. h \in Staff /\ g \in Participants
      BY <2>3, <2>6 DEF SameSide, Procs
    <3> QED BY <3>1, <2>1, <2>2, <2>3, <1>2, <2>4
  <2> QED BY <2>5, <2>6
<1> QED BY <1>1, <1>2, <1>3

\* After a write the requests hold, whatever was written.
LEMMA WriteHandlers ==
  ASSUME Inv, NEW h \in Procs, req[h] # Null, NEW new \in Submission, Write(h, new)
  PROVE  Sides' /\ RequestsHold'
<1> DEFINE w == req[h].work
<1>1. /\ w \in Works /\ row'[w] = new /\ new # Null
      /\ \A v \in Works : v # w => row'[v] = row[v]
      /\ Intact' \subseteq Intact
  BY WriteFrame
<1>2. Sides'
  <2> SUFFICES ASSUME NEW g \in Procs, req'[g] # Null
               PROVE  /\ g \in Participants => req'[g].op \in TeamOps
                      /\ g \in Staff => req'[g].op \in StaffOps /\ req'[g].read # Null
                      /\ req'[g].read # Null => row'[req'[g].work] # Null
                      /\ req'[g].step = "write" =>
                           req'[g].read # Null /\ req'[g].base # Null
    BY DEF Sides, Exists
  <2>1. /\ req[g] # Null /\ req'[g].work = req[g].work /\ req'[g].op = req[g].op
        /\ req'[g].step = req[g].step /\ req'[g].read = req[g].read
        /\ req'[g].base = req[g].base
    BY WriteFrame
  <2>2. req[g].work \in Works
    BY <2>1 DEF Inv, Types, Request
  <2>3. row[req[g].work] # Null => row'[req[g].work] # Null
    BY <1>1, <2>2
  <2> QED BY <2>1, <2>3 DEF Inv, Sides, Exists
<1>3. RequestsHold'
  <2> SUFFICES ASSUME NEW g \in Procs, req'[g] # Null, req'[g].fresh,
                      req'[g].work \in Intact'
               PROVE  Fits(req'[g], row'[req'[g].work])
    BY DEF RequestsHold, Current
  <2>1. req[g] # Null /\ req'[g] = req[g]
    BY WriteFrame
  <2>2. req[g].work \in Works
    BY <2>1 DEF Inv, Types, Request
  <2>3. req[g].work # w
    BY <2>1, FreshWrite
  <2> QED BY <1>1, <2>1, <2>2, <2>3 DEF Inv, RequestsHold, Current
<1> QED BY <1>2, <1>3

\* A first version is inserted.
LEMMA InsertStep ==
  ASSUME Inv, NEW h \in Procs, Insert(h)
  PROVE  Inv'
<1> DEFINE w == req[h].work
           new == req[h].ent
<1>1. /\ req[h] # Null /\ req[h].read = Null /\ req[h] \in Request
      /\ UNCHANGED <<history, past, job, result>>
  BY DEF Insert, Inv, Types
<1>2. CASE Exists(w)
  BY <1>1, <1>2, EndStep DEF Insert
<1>3. CASE ~ Exists(w)
  <2>1. Write(h, new) /\ new \in Submission
    BY <1>1, <1>3 DEF Insert, Request
  <2>2. /\ w \in Works /\ row'[w] = new /\ new # Null
        /\ \A v \in Works : v # w => row'[v] = row[v]
        /\ row' \in [Works -> Submission \cup {Null}]
        /\ req' \in [Procs -> Request \cup {Null}]
        /\ overwritten' \subseteq Works /\ Intact' \subseteq Intact
    BY <2>1, <1>1, WriteFrame
  <2>3. Types'
    BY <1>1, <2>2 DEF Inv, Types
  <2>4. Sides' /\ RequestsHold'
    BY <2>1, <1>1, WriteHandlers
  <2>5. w \in Intact' => new.version = 1
    <3>1. w \in Intact' => Fits(req[h], row[w])
      BY <2>1, <1>1, FreshWrite
    <3>2. h \in Participants
      BY <1>1 DEF Inv, Sides, Procs
    <3> QED BY <3>1, <3>2, <1>1, <1>3 DEF Inv, Sides, Fits, TeamFits, Exists
  <2>6. WorkerHolds'
    <3> SUFFICES ASSUME NEW v \in Works, job[v].step = "evaluating"
                 PROVE  /\ Exists(v)'
                        /\ v \in Intact' => Eligible(v)' /\ row'[v].content = job[v].content
      BY <1>1 DEF WorkerHolds
    <3>1. Exists(v) /\ (v \in Intact => Eligible(v) /\ row[v].content = job[v].content)
      BY DEF Inv, TablesHold, WorkerHolds
    <3>2. row'[v] = row[v]
      BY <1>3, <3>1, <2>2
    <3> QED BY <3>1, <3>2, <2>2 DEF Eligible, Has, Exists
  <2>7. ResultHolds'
    <3> SUFFICES ASSUME NEW v \in Works, v \in Intact', result[v] # Null
                 PROVE  Has(v, {"evaluated"})' /\ row'[v].content = result[v]
      BY <1>1 DEF ResultHolds, Intact
    <3>1. Has(v, {"evaluated"}) /\ row[v].content = result[v]
      BY <2>2 DEF Inv, TablesHold, ResultHolds
    <3>2. row'[v] = row[v]
      BY <1>3, <3>1, <2>2 DEF Has
    <3> QED BY <3>1, <3>2 DEF Has, Exists
  <2>8. HistoryNumbered'
    <3> SUFFICES ASSUME NEW v \in Works, v \in Intact'
                 PROVE  Len(history[v]) = IF row'[v] # Null THEN row'[v].version - 1 ELSE 0
      BY <1>1 DEF HistoryNumbered, Intact, Exists
    <3>1. Len(history[v]) = IF row[v] # Null THEN row[v].version - 1 ELSE 0
      BY <2>2 DEF Inv, TablesHold, HistoryNumbered, Exists
    <3>2. CASE v = w
      BY <3>1, <3>2, <1>3, <2>2, <2>5 DEF Exists
    <3>3. CASE v # w
      BY <3>1, <3>3, <2>2
    <3> QED BY <3>2, <3>3
  <2> QED BY <2>3, <2>4, <2>6, <2>7, <2>8 DEF Inv, TablesHold
<1> QED BY <1>2, <1>3

\* What an update that leaves its work intact makes of the row: the team its
\* revision, with an entry for what it read; staff a new status.
LEMMA UpdateFacts ==
  ASSUME Inv, NEW h \in Procs, Update(h)
  PROVE  LET w == req[h].work
             new == Changed(row[w], req[h].ent, req[h].base)
         IN  /\ req[h] # Null /\ w \in Works /\ row[w] \in Submission /\ Exists(w)
             /\ new \in Submission /\ Write(h, new)
             /\ UNCHANGED <<past, job, result>>
             /\ history' \in [Works -> Seq(Entry)]
             /\ \A v \in Works : v # w => history'[v] = history[v]
             /\ w \in Intact' =>
                  \/ /\ h \in Participants /\ Editable(w)
                     /\ new.version = row[w].version + 1
                     /\ history'[w] = Append(history[w], EntryOf(row[w], row[w]))
                  \/ /\ h \in Staff /\ history'[w] = history[w]
                     /\ new.content = row[w].content /\ new.version = row[w].version
                     /\ \/ ~ Eligible(w) /\ ~ Has(w, {"approved", "evaluated"})
                        \/ new.status \in {"evaluated", row[w].status}
<1> DEFINE w == req[h].work
           new == Changed(row[w], req[h].ent, req[h].base)
<1>1. /\ req[h] # Null /\ req[h] \in Request /\ req[h].step = "write"
      /\ UNCHANGED <<past, job, result>>
  BY DEF Update, Inv, Types
<1>2. /\ w \in Works /\ Exists(w) /\ row[w] \in Submission
      /\ req[h].ent \in Submission
      /\ req[h].read \in Submission /\ req[h].base \in Submission
  BY <1>1 DEF Inv, Types, Sides, Request, Exists
<1>3. new \in Submission
  BY <1>2 DEF Changed, Submission
<1>4. Write(h, new)
  BY DEF Update
<1>5. history' = IF h \in Participants
                 THEN [history EXCEPT ![w] = Append(@, EntryOf(req[h].read, req[h].ent))]
                 ELSE history
  BY DEF Update
<1>6. EntryOf(req[h].read, req[h].ent) \in Entry
  BY <1>2 DEF EntryOf, Entry, Submission
<1>7. /\ history' \in [Works -> Seq(Entry)]
      /\ \A v \in Works : v # w => history'[v] = history[v]
  <2>1. history[w] \in Seq(Entry)
    BY <1>2 DEF Inv, Types
  <2>2. Append(history[w], EntryOf(req[h].read, req[h].ent)) \in Seq(Entry)
    BY <2>1, <1>6
  <2> QED BY <2>2, <1>2, <1>5 DEF Inv, Types
<1>8. ASSUME w \in Intact'
      PROVE  \/ /\ h \in Participants /\ Editable(w)
                /\ new.version = row[w].version + 1
                /\ history'[w] = Append(history[w], EntryOf(row[w], row[w]))
             \/ /\ h \in Staff /\ history'[w] = history[w]
                /\ new.content = row[w].content /\ new.version = row[w].version
                /\ \/ ~ Eligible(w) /\ ~ Has(w, {"approved", "evaluated"})
                   \/ new.status \in {"evaluated", row[w].status}
  <2>1. Fits(req[h], row[w])
    BY <1>1, <1>3, <1>4, <1>8, FreshWrite
  <2>2. CASE h \in Participants
    <3>1. TeamFits(req[h], row[w])
      BY <2>1, <2>2, <1>1 DEF Fits, Inv, Sides, Procs
    <3>2. req[h].read = row[w] /\ req[h].base = row[w]
          /\ req[h].ent.version = row[w].version + 1 /\ Editable(w)
      BY <3>1, <1>1, <1>2 DEF TeamFits, Editable, Has, Exists
    <3>3. row[w].version \in Nat
      BY <1>2, VersionAssumption DEF Submission
    <3>4. new.version = row[w].version + 1
      BY <3>2, <3>3 DEF Changed
    <3>5. history'[w] = Append(history[w], EntryOf(req[h].read, req[h].ent))
      BY <1>2, <1>5, <2>2 DEF Inv, Types
    <3> QED BY <2>2, <3>2, <3>4, <3>5 DEF EntryOf
  <2>3. CASE h \notin Participants
    <3>1. h \in Staff /\ history' = history /\ req[h].op \in StaffOps
      BY <2>3, <1>1, <1>5 DEF Procs, Inv, Sides
    <3>2. CASE req[h].op \in {"approve", "reject"}
      <4>1. DecideFits(req[h], row[w])
        BY <2>1, <3>2 DEF Fits
      <4>2. req[h].base = row[w] /\ Decidable(w) /\ KeepsContent(req[h], row[w])
        BY <4>1, <1>1, <1>2 DEF DecideFits, Decidable, Has, Exists
      <4>3. ~ Eligible(w) /\ ~ Has(w, {"approved", "evaluated"})
        BY <4>2 DEF Decidable, Eligible, Has
      <4> QED BY <3>1, <4>2, <4>3 DEF Changed, KeepsContent
    <3>3. CASE req[h].op = "evaluate" /\ req[h].read.status = "rejected"
      <4>1. RegradeFits(req[h], row[w])
        BY <2>1, <3>3 DEF Fits
      <4>2. req[h].base = row[w] /\ row[w].status = "rejected"
            /\ KeepsContent(req[h], row[w])
        BY <4>1, <1>1 DEF RegradeFits
      <4>3. ~ Eligible(w) /\ ~ Has(w, {"approved", "evaluated"})
        BY <4>2 DEF Eligible, Has
      <4> QED BY <3>1, <4>2, <4>3 DEF Changed, KeepsContent
    <3>4. CASE req[h].op = "evaluate" /\ req[h].read.status # "rejected"
      <4>1. GradeFits(req[h], row[w])
        BY <2>1, <3>4 DEF Fits
      <4>2. /\ KeepsContent(req[h], row[w]) /\ req[h].ent.status = "evaluated"
            /\ req[h].base.content = row[w].content
            /\ req[h].base.version = row[w].version
        BY <4>1, <1>1 DEF GradeFits
      <4> QED BY <3>1, <4>2 DEF Changed, KeepsContent
    <3> QED BY <3>1, <3>2, <3>3, <3>4 DEF StaffOps
  <2> QED BY <2>2, <2>3
<1> QED BY <1>1, <1>2, <1>3, <1>4, <1>7, <1>8

LEMMA UpdateStep ==
  ASSUME Inv, NEW h \in Procs, Update(h)
  PROVE  Inv'
<1> DEFINE w == req[h].work
           new == Changed(row[w], req[h].ent, req[h].base)
<1>1. /\ req[h] # Null /\ w \in Works /\ row[w] \in Submission /\ Exists(w)
      /\ new \in Submission /\ Write(h, new)
      /\ UNCHANGED <<past, job, result>>
      /\ history' \in [Works -> Seq(Entry)]
      /\ \A v \in Works : v # w => history'[v] = history[v]
  BY UpdateFacts
<1>2. w \in Intact' =>
        \/ /\ h \in Participants /\ Editable(w)
           /\ new.version = row[w].version + 1
           /\ history'[w] = Append(history[w], EntryOf(row[w], row[w]))
        \/ /\ h \in Staff /\ history'[w] = history[w]
           /\ new.content = row[w].content /\ new.version = row[w].version
           /\ \/ ~ Eligible(w) /\ ~ Has(w, {"approved", "evaluated"})
              \/ new.status \in {"evaluated", row[w].status}
  BY UpdateFacts
<1> HIDE DEF new
<1>3. /\ row'[w] = new /\ new # Null
      /\ \A v \in Works : v # w => row'[v] = row[v]
      /\ row' \in [Works -> Submission \cup {Null}]
      /\ req' \in [Procs -> Request \cup {Null}]
      /\ overwritten' \subseteq Works /\ Intact' \subseteq Intact
  BY <1>1, WriteFrame
<1>4. Types'
  BY <1>1, <1>3 DEF Inv, Types
<1>5. Sides' /\ RequestsHold'
  BY <1>1, WriteHandlers
<1>6. WorkerHolds'
  <2> SUFFICES ASSUME NEW v \in Works, job[v].step = "evaluating"
               PROVE  /\ row'[v] # Null
                      /\ v \in Intact' => Eligible(v)' /\ row'[v].content = job[v].content
    BY <1>1 DEF WorkerHolds, Exists
  <2>1. Exists(v) /\ (v \in Intact => Eligible(v) /\ row[v].content = job[v].content)
    BY DEF Inv, TablesHold, WorkerHolds
  <2>2. CASE v # w
    <3>1. row'[v] = row[v]
      BY <2>2, <1>3
    <3> QED BY <3>1, <2>1, <1>3 DEF Eligible, Has, Exists
  <2>3. CASE v = w /\ w \in Intact'
    <3>1. Eligible(w)
      BY <2>1, <2>3, <1>3
    <3>2. ~ Editable(w)
      BY <3>1, <1>1 DEF Eligible, Editable, Has
    <3>3. new.content = row[w].content /\ new.status \in {"evaluated", row[w].status}
      BY <1>2, <2>3, <3>1, <3>2
    <3>4. row'[w] # Null /\ row'[w].status \in {"evaluated", row[w].status}
          /\ row'[w].content = row[w].content
      BY <3>3, <1>3
    <3>5. Eligible(v)'
      BY <3>1, <3>4, <2>3 DEF Eligible, Has, Exists
    <3>6. row'[v].content = job[v].content
      BY <3>4, <2>1, <2>3, <1>3
    <3> QED BY <3>4, <3>5, <3>6, <2>3
  <2> QED BY <2>2, <2>3, <1>3
<1>7. ResultHolds'
  <2> SUFFICES ASSUME NEW v \in Works, v \in Intact', result[v] # Null
               PROVE  Has(v, {"evaluated"})' /\ row'[v].content = result[v]
    BY <1>1 DEF ResultHolds, Intact
  <2>1. Has(v, {"evaluated"}) /\ row[v].content = result[v]
    BY <1>3 DEF Inv, TablesHold, ResultHolds
  <2>2. CASE v # w
    <3>1. row'[v] = row[v]
      BY <2>2, <1>3
    <3> QED BY <3>1, <2>1 DEF Has, Exists
  <2>3. CASE v = w
    <3>1. ~ Editable(w) /\ row[w].status = "evaluated"
      BY <2>1, <2>3, <1>1 DEF Editable, Has
    <3>2. new.content = row[w].content /\ new.status = "evaluated"
      BY <1>2, <2>1, <2>3, <3>1 DEF Has
    <3> QED BY <3>2, <2>1, <2>3, <1>3 DEF Has, Exists
  <2> QED BY <2>2, <2>3
<1>8. HistoryNumbered'
  <2> SUFFICES ASSUME NEW v \in Works, v \in Intact'
               PROVE  Len(history'[v]) = IF row'[v] # Null THEN row'[v].version - 1 ELSE 0
    BY DEF HistoryNumbered, Intact, Exists
  <2>1. Len(history[v]) = IF row[v] # Null THEN row[v].version - 1 ELSE 0
    BY <1>3 DEF Inv, TablesHold, HistoryNumbered, Exists
  <2>2. CASE v # w
    BY <2>1, <2>2, <1>1, <1>3
  <2>3. CASE v = w
    <3>1. row[w].version \in Nat /\ Len(history[w]) = row[w].version - 1
      BY <2>1, <2>3, <1>1, VersionAssumption DEF Exists, Submission
    <3>2. history[w] \in Seq(Entry)
      BY <1>1 DEF Inv, Types
    <3>3. CASE history'[w] = history[w] /\ new.version = row[w].version
      BY <2>3, <3>1, <3>3, <1>3
    <3>4. CASE /\ new.version = row[w].version + 1
               /\ history'[w] = Append(history[w], EntryOf(row[w], row[w]))
      <4>1. Len(history'[w]) = Len(history[w]) + 1
        BY <3>2, <3>4
      <4> QED BY <4>1, <2>3, <3>1, <3>4, <1>3
    <3> QED BY <2>3, <1>2, <3>3, <3>4
  <2> QED BY <2>2, <2>3
<1> QED BY <1>4, <1>5, <1>6, <1>7, <1>8 DEF Inv, TablesHold

-----------------------------------------------------------------------------
(* Deadlines and the worker.                                               *)

LEMMA DeadlineStep ==
  ASSUME Inv, NEW w \in Works, DeadlinePasses(w) \/ ExtendDeadline(w)
  PROVE  Inv'
<1>1. UNCHANGED <<row, history, req, job, result, overwritten>> /\ past' \subseteq Works
  BY DEF DeadlinePasses, ExtendDeadline, Inv, Types
<1>2. Types'
  BY <1>1 DEF Inv, Types
<1>3. Sides' /\ RequestsHold' /\ TablesHold'
  BY <1>1, HandlersUnchanged, TablesUnchanged DEF Inv
<1> QED BY <1>2, <1>3 DEF Inv

LEMMA JobStep ==
  ASSUME Inv, NEW w \in Works,
         TriggerEvaluation(w) \/ FetchSubmission(w) \/ Throw(w)
  PROVE  Inv'
<1>1. UNCHANGED <<row, history, past, req, result, overwritten>>
  BY DEF TriggerEvaluation, FetchSubmission, Throw
<1>2. /\ job' \in [Works -> Job]
      /\ \A v \in Works : v # w => job'[v] = job[v]
      /\ job'[w].step = "evaluating" =>
           Exists(w) /\ Eligible(w) /\ row[w].content = job'[w].content
  <2>1. job \in [Works -> Job]
    BY DEF Inv, Types
  <2>2. NoJob \in Job /\ Queued \in Job
        /\ NoJob.step # "evaluating" /\ Queued.step # "evaluating"
    BY DEF NoJob, Queued, Job
  <2>3. CASE TriggerEvaluation(w)
    BY <2>1, <2>2, <2>3 DEF TriggerEvaluation
  <2>4. CASE Throw(w)
    BY <2>1, <2>2, <2>4 DEF Throw
  <2>5. CASE FetchSubmission(w)
    <3>1. Exists(w) /\ row[w].content \in Contents
      BY <2>5 DEF FetchSubmission, Eligible, Has, Exists, Inv, Types, Submission
    <3> DEFINE next == [step |-> "evaluating", content |-> row[w].content]
    <3>2. next \in Job /\ Eligible(w) /\ next.content = row[w].content
      BY <2>5, <3>1 DEF FetchSubmission, Job
    <3>3. job' = [job EXCEPT ![w] = next]
      BY <2>5 DEF FetchSubmission
    <3> HIDE DEF next
    <3> QED BY <2>1, <3>1, <3>2, <3>3
  <2> QED BY <2>3, <2>4, <2>5
<1>3. Types'
  BY <1>1, <1>2 DEF Inv, Types
<1>4. Sides' /\ RequestsHold'
  BY <1>1, HandlersUnchanged DEF Inv
<1>5. WorkerHolds'
  BY <1>1, <1>2 DEF Inv, TablesHold, WorkerHolds, Intact, Eligible, Has, Exists
<1>6. ResultHolds' /\ HistoryNumbered'
  BY <1>1 DEF Inv, TablesHold, ResultHolds, HistoryNumbered, Intact, Has, Exists
<1> QED BY <1>3, <1>4, <1>5, <1>6 DEF Inv, TablesHold

\* The worker's unconditional UPDATE meets the row it read, if it is intact;
\* it exists in any case.
LEMMA CommitFacts ==
  ASSUME Inv, NEW w \in Works, CommitResults(w)
  PROVE  LET new == [row[w] EXCEPT !.status = "evaluated"]
         IN  /\ Exists(w) /\ row[w] \in Submission /\ job[w].content \in Contents
             /\ new \in Submission /\ new # Null /\ new.status = "evaluated"
             /\ new.content = row[w].content /\ new.version = row[w].version
             /\ row' = [row EXCEPT ![w] = new] /\ row'[w] = new
             /\ \A v \in Works : v # w => row'[v] = row[v]
             /\ job' = [job EXCEPT ![w] = NoJob]
             /\ result' = [result EXCEPT ![w] = job[w].content]
             /\ UNCHANGED <<history, past, req, overwritten>>
             /\ w \in Intact => Eligible(w) /\ row[w].content = job[w].content
<1> DEFINE new == [row[w] EXCEPT !.status = "evaluated"]
<1>1. /\ Exists(w) /\ row[w] \in Submission /\ job[w].content \in Contents
      /\ w \in Intact => Eligible(w) /\ row[w].content = job[w].content
  <2>1. job[w] \in Job /\ job[w].step = "evaluating"
    BY DEF CommitResults, Inv, Types
  <2>2. job[w].content \in Contents
    BY <2>1 DEF Job
  <2> QED BY <2>1, <2>2 DEF Inv, Types, TablesHold, WorkerHolds, Exists
<1>2. /\ new \in Submission /\ new.status = "evaluated"
      /\ new.content = row[w].content /\ new.version = row[w].version
  BY <1>1 DEF Submission, SubmissionStatus
<1>3. row' = [row EXCEPT ![w] = new]
  BY DEF CommitResults
<1>4. /\ job' = [job EXCEPT ![w] = NoJob] /\ result' = [result EXCEPT ![w] = job[w].content]
      /\ UNCHANGED <<history, past, req, overwritten>>
  BY DEF CommitResults
<1> HIDE DEF new
<1>5. new # Null /\ row'[w] = new /\ \A v \in Works : v # w => row'[v] = row[v]
  BY <1>2, <1>3, NullAssumption DEF Inv, Types
<1> QED BY <1>1, <1>2, <1>3, <1>4, <1>5 DEF new

LEMMA CommitStep ==
  ASSUME Inv, NEW w \in Works, CommitResults(w)
  PROVE  Inv'
<1> DEFINE new == [row[w] EXCEPT !.status = "evaluated"]
<1>1. /\ Exists(w) /\ row[w] \in Submission /\ job[w].content \in Contents
      /\ new \in Submission /\ new # Null /\ new.status = "evaluated"
      /\ new.content = row[w].content /\ new.version = row[w].version
      /\ row' = [row EXCEPT ![w] = new] /\ row'[w] = new
      /\ \A v \in Works : v # w => row'[v] = row[v]
      /\ job' = [job EXCEPT ![w] = NoJob]
      /\ result' = [result EXCEPT ![w] = job[w].content]
      /\ UNCHANGED <<history, past, req, overwritten>>
      /\ w \in Intact => Eligible(w) /\ row[w].content = job[w].content
  BY CommitFacts
<1> HIDE DEF new
<1>2. Intact' = Intact
  BY <1>1 DEF Intact
<1>3. Types'
  BY <1>1 DEF Inv, Types, NoJob, Job
<1>4. Sides'
  <2>1. \A v \in Works : Exists(v) => Exists(v)'
    BY <1>1 DEF Exists
  <2>2. \A h \in Procs : req[h] # Null => req[h].work \in Works
    BY DEF Inv, Types, Request
  <2> QED BY <2>1, <2>2, <1>1 DEF Inv, Sides
<1>5. RequestsHold'
  <2> SUFFICES ASSUME NEW g \in Procs, req[g] # Null, req[g].fresh, req[g].work \in Intact
               PROVE  Fits(req[g], row'[req[g].work])
    BY <1>1, <1>2 DEF RequestsHold, Current
  <2>1. req[g].work \in Works /\ Fits(req[g], row[req[g].work])
    BY DEF Inv, Types, Request, RequestsHold, Current
  <2>2. CASE req[g].work # w
    BY <2>1, <2>2, <1>1
  <2>3. CASE req[g].work = w
    <3>1. Eligible(w) /\ row[w] # Null
      BY <2>3, <1>1 DEF Exists
    <3>2. ~ TeamFits(req[g], row[w])
      BY <3>1 DEF TeamFits, Eligible, Has
    <3>3. ~ DecideFits(req[g], row[w])
      BY <2>3, <3>1 DEF DecideFits, Eligible, Has
    <3>4. ~ RegradeFits(req[g], row[w])
      BY <3>1 DEF RegradeFits, Eligible, Has
    <3>5. GradeFits(req[g], row[w]) => GradeFits(req[g], new)
      BY <1>1 DEF GradeFits, KeepsContent
    <3> QED BY <2>1, <2>3, <3>2, <3>3, <3>4, <3>5, <1>1 DEF Fits
  <2> QED BY <2>2, <2>3
<1>6. WorkerHolds'
  BY <1>1, <1>2 DEF Inv, Types, TablesHold, WorkerHolds, NoJob, Eligible, Has, Exists
<1>7. ResultHolds'
  <2> SUFFICES ASSUME NEW v \in Works, v \in Intact, result'[v] # Null
               PROVE  Has(v, {"evaluated"})' /\ row'[v].content = result'[v]
    BY <1>2 DEF ResultHolds, Intact
  <2>1. CASE v = w
    <3>1. result'[w] = job[w].content
      BY <1>1 DEF Inv, Types
    <3> QED BY <2>1, <3>1, <1>1 DEF Has, Exists
  <2>2. CASE v # w
    <3>1. result'[v] = result[v] /\ row'[v] = row[v]
      BY <2>2, <1>1 DEF Inv, Types
    <3> QED BY <3>1 DEF Inv, TablesHold, ResultHolds, Has, Exists
  <2> QED BY <2>1, <2>2
<1>8. HistoryNumbered'
  <2> SUFFICES ASSUME NEW v \in Works, v \in Intact
               PROVE  Len(history[v]) = IF row'[v] # Null THEN row'[v].version - 1 ELSE 0
    BY <1>1, <1>2 DEF HistoryNumbered, Intact, Exists
  <2>1. Len(history[v]) = IF row[v] # Null THEN row[v].version - 1 ELSE 0
    BY DEF Inv, TablesHold, HistoryNumbered, Exists
  <2> QED BY <2>1, <1>1 DEF Exists
<1> QED BY <1>3, <1>4, <1>5, <1>6, <1>7, <1>8 DEF Inv, TablesHold

-----------------------------------------------------------------------------
\* Every step keeps the invariant.
LEMMA NextInv ==
  ASSUME Inv, [Next]_vars
  PROVE  Inv'
<1>1. ASSUME NEW h \in Participants, NEW w \in Works, NEW content \in Contents,
             SaveDraft(h, w, content) \/ Submit(h, w, content)
      PROVE  Inv'
  <2>1. Editable(w) /\ (Exists(w) => row[w].version < MaxVersion)
    BY <1>1 DEF SaveDraft, Submit, Allowed
  <2>2. CASE SaveDraft(h, w, content)
    <3> DEFINE status == IF Exists(w) THEN row[w].status ELSE "draft"
    <3>1. status \in SubmissionStatus
      BY DEF Exists, Inv, Types, Submission, SubmissionStatus
    <3>2. Begin(h, "saveDraft", w, Revised(w, content, status))
      BY <2>2 DEF SaveDraft
    <3>3. "saveDraft" \in TeamOps
      BY DEF TeamOps
    <3> HIDE DEF status
    <3> QED BY <2>1, <3>1, <3>2, <3>3, BeginTeam
  <2>3. CASE Submit(h, w, content)
    <3>1. Received(w) \in SubmissionStatus
      BY DEF Received, SubmissionStatus
    <3>2. Begin(h, "submit", w, Revised(w, content, Received(w)))
      BY <2>3 DEF Submit
    <3>3. "submit" \in TeamOps
      BY DEF TeamOps
    <3> QED BY <2>1, <3>1, <3>2, <3>3, BeginTeam
  <2> QED BY <1>1, <2>2, <2>3
<1>2. ASSUME NEW h \in Staff, StaffNext(h)
      PROVE  Inv'
  <2>1. PICK v \in Works : \/ EvaluateSubmission(h, v)
                          \/ ApproveSubmission(h, v) \/ RejectSubmission(h, v)
    BY <1>2 DEF StaffNext
  <2>2. CASE EvaluateSubmission(h, v)
    <3>1. /\ Exists(v) /\ row[v].status # "draft"
          /\ Begin(h, "evaluate", v, [row[v] EXCEPT !.status = "evaluated"])
      BY <2>2 DEF EvaluateSubmission
    <3>2. "evaluate" \in StaffOps /\ "evaluated" \in SubmissionStatus
      BY DEF StaffOps, SubmissionStatus
    <3> QED BY <3>1, <3>2, BeginStaff
  <2>3. Decidable(v) => Exists(v) /\ row[v].status # "draft"
    BY DEF Decidable, Has
  <2>4. CASE ApproveSubmission(h, v)
    <3>1. Decidable(v) /\ Begin(h, "approve", v, [row[v] EXCEPT !.status = "approved"])
      BY <2>4 DEF ApproveSubmission
    <3>2. "approve" \in StaffOps /\ "approved" \in SubmissionStatus
      BY DEF StaffOps, SubmissionStatus
    <3> QED BY <2>3, <3>1, <3>2, BeginStaff
  <2>5. CASE RejectSubmission(h, v)
    <3>1. Decidable(v) /\ Begin(h, "reject", v, [row[v] EXCEPT !.status = "rejected"])
      BY <2>5 DEF RejectSubmission
    <3>2. "reject" \in StaffOps /\ "rejected" \in SubmissionStatus
      BY DEF StaffOps, SubmissionStatus
    <3> QED BY <2>3, <3>1, <3>2, BeginStaff
  <2> QED BY <2>1, <2>2, <2>4, <2>5
<1>3. ASSUME NEW h \in Procs, SaveNext(h)
      PROVE  Inv'
  BY <1>3, InsertStep, SelectStep, UpdateStep, EndStep DEF SaveNext, Fail
<1>4. ASSUME NEW w \in Works, StageNext(w)
      PROVE  Inv'
  BY <1>4, DeadlineStep, JobStep, CommitStep DEF StageNext
<1>5. CASE UNCHANGED vars
  <2>1. UNCHANGED <<row, history, past, req, job, result, overwritten>>
    BY <1>5 DEF vars
  <2>2. Types'
    BY <2>1 DEF Inv, Types
  <2>3. Sides' /\ RequestsHold' /\ TablesHold'
    BY <2>1, HandlersUnchanged, TablesUnchanged DEF Inv
  <2> QED BY <2>2, <2>3 DEF Inv
<1>6. CASE Next
  <2>1. CASE \E h \in Participants : ParticipantNext(h)
    BY <2>1, <1>1 DEF ParticipantNext
  <2>2. CASE \E h \in Staff : StaffNext(h)
    BY <2>2, <1>2
  <2>3. CASE \E h \in Procs : SaveNext(h)
    BY <2>3, <1>3
  <2>4. CASE \E w \in Works : StageNext(w)
    BY <2>4, <1>4
  <2> QED BY <1>6, <2>1, <2>2, <2>3, <2>4 DEF Next
<1> QED BY <1>5, <1>6

\* The invariant, of every behaviour.
THEOREM AlwaysInv == Spec => []Inv
<1>1. Init => Inv
  BY InitInv
<1>2. Inv /\ [Next]_vars => Inv'
  BY NextInv
<1> QED BY <1>1, <1>2, PTL DEF Spec

\* Tables and handlers are always of their types, and the history of an intact
\* submission has one entry for each version before the current one.
THEOREM TypesHold == Spec => []TypeOK
<1>1. Inv => TypeOK
  <2> SUFFICES ASSUME Inv PROVE TypeOK
    OBVIOUS
  <2>1. ASSUME NEW w \in Intact, Exists(w)
        PROVE  Len(history[w]) + 1 = row[w].version
    <3>1. row[w] \in Submission
      BY <2>1 DEF Inv, Types, Intact, Exists
    <3>2. row[w].version \in Nat
      BY <3>1, VersionAssumption DEF Submission
    <3> QED BY <2>1, <3>2 DEF Inv, TablesHold, HistoryNumbered
  <2> QED BY <2>1 DEF Inv, Types, TypeOK
<1> QED BY <1>1, AlwaysInv, PTL

\* The AI evaluation that is stored is of the content an intact submission has,
\* although the worker updates the row long after it read it and locks
\* nothing.
THEOREM ResultsFit == Spec => []ResultFitsContent
<1>1. Inv => ResultFitsContent
  BY DEF Inv, TablesHold, ResultHolds, ResultFitsContent, Has
<1> QED BY <1>1, AlwaysInv, PTL

\* Until a rival writes it, staff approve or reject the row they read.
THEOREM DecisionsFit == Spec => []JudgedAsRead
<1>1. Inv => JudgedAsRead
  BY DEF Inv, RequestsHold, Current, Fits, DecideFits, JudgedAsRead, Procs
<1> QED BY <1>1, AlwaysInv, PTL

-----------------------------------------------------------------------------
\* Who changes a row that exists.
LEMMA Writers ==
  ASSUME Inv, [Next]_vars, NEW w \in Works, Exists(w), row'[w] # row[w]
  PROVE  \/ \E h \in Procs : Update(h) /\ req[h].work = w
         \/ CommitResults(w)
<1>1. row' # row
  OBVIOUS
<1>2. CASE UNCHANGED vars
  BY <1>1, <1>2 DEF vars
<1>3. ASSUME NEW h \in Participants, ParticipantNext(h) PROVE FALSE
  BY <1>1, <1>3 DEF ParticipantNext, SaveDraft, Submit, Begin
<1>4. ASSUME NEW h \in Staff, StaffNext(h) PROVE FALSE
  BY <1>1, <1>4 DEF StaffNext, EvaluateSubmission, ApproveSubmission,
                    RejectSubmission, Begin
<1>5. ASSUME NEW h \in Procs, SaveNext(h)
      PROVE  Update(h) /\ req[h].work = w
  <2>1. CASE Insert(h)
    <3>1. req[h].work \in Works
      BY <2>1 DEF Insert, Inv, Types, Request
    <3>2. row' = row \/ (~ Exists(req[h].work) /\ row' = [row EXCEPT ![req[h].work] = req[h].ent])
      BY <2>1 DEF Insert, Write
    <3>3. row'[w] = row[w]
      BY <3>1, <3>2 DEF Inv, Types
    <3> QED BY <3>3
  <2>2. CASE Select(h) \/ Fail(h)
    BY <1>1, <2>2 DEF Select, Fail
  <2>3. CASE Update(h)
    <3>1. req[h].work \in Works
      BY <2>3 DEF Update, Inv, Types, Request
    <3>2. row' = [row EXCEPT ![req[h].work] =
                     Changed(row[req[h].work], req[h].ent, req[h].base)]
      BY <2>3 DEF Update, Write
    <3>3. req[h].work = w
      BY <3>1, <3>2 DEF Inv, Types
    <3> QED BY <2>3, <3>3
  <2> QED BY <1>5, <2>1, <2>2, <2>3 DEF SaveNext
<1>6. ASSUME NEW v \in Works, StageNext(v)
      PROVE  CommitResults(w)
  <2>1. CommitResults(v)
    BY <1>1, <1>6 DEF StageNext, DeadlinePasses, ExtendDeadline, TriggerEvaluation,
                      FetchSubmission, Throw
  <2>2. row' = [row EXCEPT ![v].status = "evaluated"]
    BY <2>1 DEF CommitResults
  <2>3. v = w
    BY <2>2 DEF Inv, Types
  <2> QED BY <2>1, <2>3
<1> QED BY <1>2, <1>3, <1>4, <1>5, <1>6 DEF Next

LEMMA UnlockedStep ==
  ASSUME Inv, [Next]_vars, NEW w \in Intact', w \in Works, Unlocks(w)
  PROVE  Unlocks(w)'
<1>1. Exists(w) /\ row[w].status \in {"approved", "evaluated"}
  BY DEF Unlocks, Has
<1>2. CASE row'[w] = row[w]
  BY <1>1, <1>2 DEF Unlocks, Has, Exists
<1>3. ASSUME NEW h \in Procs, Update(h), req[h].work = w
      PROVE  Unlocks(w)'
  <2> DEFINE new == Changed(row[w], req[h].ent, req[h].base)
  <2>1. req[h] # Null /\ new \in Submission /\ Write(h, new)
    BY <1>3, UpdateFacts
  <2>2. ~ Editable(w) /\ Has(w, {"approved", "evaluated"})
    BY <1>1 DEF Editable, Has
  <2>3. new.status \in {"evaluated", row[w].status}
    BY <1>3, <2>2, UpdateFacts
  <2> HIDE DEF new
  <2>4. row'[w] = new /\ new # Null
    BY <1>3, <2>1, WriteFrame
  <2> QED BY <1>1, <2>3, <2>4 DEF Unlocks, Has, Exists
<1>4. CASE CommitResults(w)
  BY <1>4, CommitFacts DEF Unlocks, Has, Exists
<1> QED BY <1>1, <1>2, <1>3, <1>4, Writers

\* An intact submission that unlocked the claim of a mentor goes on to do so.
THEOREM UnlockedForGood == Spec => UnlockedStays
<1>1. Inv /\ [Next]_vars => [\A w \in Intact' : Unlocks(w) => Unlocks(w)']_vars
  <2>1. Intact' \subseteq Works
    BY DEF Intact
  <2> QED BY <2>1, UnlockedStep
<1> QED BY <1>1, AlwaysInv, PTL DEF Spec, UnlockedStays

LEMMA KeptStep ==
  ASSUME Inv, [Next]_vars, NEW w \in Intact', w \in Works, Exists(w),
         row'[w].content # row[w].content
  PROVE  history'[w] = Append(history[w], EntryOf(row[w], row[w]))
<1>1. ASSUME NEW h \in Procs, Update(h), req[h].work = w
      PROVE  history'[w] = Append(history[w], EntryOf(row[w], row[w]))
  <2> DEFINE new == Changed(row[w], req[h].ent, req[h].base)
  <2>1. req[h] # Null /\ new \in Submission /\ Write(h, new)
    BY <1>1, UpdateFacts
  <2>2. \/ history'[w] = Append(history[w], EntryOf(row[w], row[w]))
        \/ new.content = row[w].content
    BY <1>1, UpdateFacts
  <2> HIDE DEF new
  <2>3. row'[w] = new
    BY <1>1, <2>1, WriteFrame
  <2> QED BY <2>2, <2>3
<1>2. ASSUME CommitResults(w) PROVE FALSE
  BY <1>2, CommitFacts
<1> QED BY <1>1, <1>2, Writers

\* Nothing a team wrote is lost while its submission is intact: the content a
\* save overwrites is kept under its version.
THEOREM NothingLost == Spec => ContentKept
<1>1. Inv /\ [Next]_vars =>
        [\A w \in Intact' :
           Exists(w) /\ row'[w].content # row[w].content =>
             history'[w] = Append(history[w], EntryOf(row[w], row[w]))]_vars
  <2>1. Intact' \subseteq Works
    BY DEF Intact
  <2> QED BY <2>1, KeptStep
<1> QED BY <1>1, AlwaysInv, PTL DEF Spec, ContentKept
=============================================================================
