------------------------- MODULE BriefEventsProofs -------------------------
(***************************************************************************)
(* Theorems about BriefEvents, for any number of events, recipients,       *)
(* channels, requests and processes.                                       *)
(***************************************************************************)
EXTENDS BriefEvents, TLAPS

-----------------------------------------------------------------------------
(* The strengthening.                                                      *)

\* Who is at work holds the lock of an event, and nobody else holds it.
Locks ==
  /\ \A w \in Writers : IF writer[w].op = "idle" THEN writer[w] = NoWriter
                        ELSE writer[w].event \in Events
  /\ \A i \in Instances : IF sync[i].step = "idle" THEN sync[i] = NoSync
                          ELSE sync[i].event \in Events
  /\ \A v, w \in Writers : v # w => writer[v] = NoWriter \/ writer[w] = NoWriter
  /\ \A i, j \in Instances : i # j /\ sync[i].event \in Events =>
       sync[j].event # sync[i].event
  /\ \A i \in Instances, w \in Writers : sync[i].event \in Events =>
       writer[w].event # sync[i].event

\* What a request read of its event still holds when it commits.
WriterHolds(r) ==
  /\ r.op = "create" => /\ event[r.event].status = "absent"
                        /\ r.slot \in Slots /\ Clear(r.event, r.slot)
  /\ r.op = "update" => /\ event[r.event].status = "scheduled"
                        /\ event[r.event].revision < MaxRevision - 1
                        /\ r.slot \in Slots /\ Clear(r.event, r.slot)
  /\ r.op = "cancel" => event[r.event].status = "scheduled"
Schedule ==
  /\ \A w \in Writers : WriterHolds(writer[w])
  /\ \A e \in Events : event[e].status = "scheduled" =>
       event[e].slot \in Slots /\ event[e].revision < MaxRevision
  /\ NoHostOverlap

Same(i, j) == /\ i.active = j.active /\ i.sequence = j.sequence
              /\ i.revision = j.revision
\* The invitations a run holds are those of the table, up to what it has recorded.
SyncHolds(s) ==
  /\ s.step \in {"revise", "deliver", "sent"} =>
       \A r \in Recipients : Same(s.list[r], invite[s.event][r])
  /\ s.step = "revise" => s.list = invite[s.event]
  /\ s.step \in {"deliver", "sent"} =>
       \A x \in s.todo : x \in Recipients \X AllChannels /\ s.list[x[1]].sequence >= 0
  /\ s.step = "sent" =>
       /\ s.at \in Recipients \X AllChannels
       /\ s.list[s.at[1]].sequence >= 0
       /\ inbox[s.event][s.at[1]][s.at[2]].newest.number = s.list[s.at[1]].sequence

\* What a run without its connection has left to send is of its event, and no newer
\* than the table.
AdriftHolds(s) ==
  s.step = "deliver" =>
    /\ s.event \in Events
    /\ \A x \in s.todo : /\ x \in Recipients \X AllChannels
                        /\ s.list[x[1]].sequence >= 0
                        /\ s.list[x[1]].sequence <= invite[s.event][x[1]].sequence

\* The newest version a channel brought is none to come, and none older than recorded.
Shown ==
  /\ \A e \in Events, r \in Recipients :
       invite[e][r].sequence = -1 => invite[e][r] = NoInvitation
  /\ \A e \in Events, r \in Recipients, c \in AllChannels :
       inbox[e][r][c].newest.number <= invite[e][r].sequence
  /\ RecordedMeansShown

Inv == /\ TypeOK /\ Locks /\ Schedule
       /\ \A i \in Instances : SyncHolds(sync[i]) /\ AdriftHolds(adrift[i])
       /\ Shown

-----------------------------------------------------------------------------
(* Types.                                                                   *)

LEMMA NoSyncType == NoSync \in Sync
<1>1. NoEvent \in Event  BY BoundAssumption DEF NoEvent, Event
<1>2. NoInvitation \in Invitation  BY BoundAssumption DEF NoInvitation, Invitation
<1> QED  BY <1>1, <1>2 DEF NoSync, Sync

LEMMA InitTypes == Init => TypeOK
<1> SUFFICES ASSUME Init PROVE TypeOK  OBVIOUS
<1>1. NoEvent \in Event  BY BoundAssumption DEF NoEvent, Event
<1>2. NoInvitation \in Invitation  BY BoundAssumption DEF NoInvitation, Invitation
<1>3. NoWriter \in Writer  BY DEF NoWriter, Writer
<1>4. event \in [Events -> Event]  BY <1>1 DEF Init
<1>5. invite \in [Events -> [Recipients -> Invitation]]  BY <1>2 DEF Init
<1>6. meeting \in [Events -> Meeting]  BY DEF Init, NoMeeting, Meeting
<1>7. inbox \in [Events -> [Recipients -> [AllChannels -> Box]]]
  BY DEF Init, EmptyBox, Box
<1>8. /\ sync \in [Instances -> Sync] /\ adrift \in [Instances -> Sync]
      /\ writer \in [Writers -> Writer]
  BY <1>3, NoSyncType DEF Init
<1>9. invited \in [Events -> SUBSET Recipients]
  <2>1. PICK S \in SUBSET (SUBSET Recipients) : invited \in [Events -> S]
    BY DEF Init
  <2> QED  BY <2>1
<1>10. withdrawn \in [Events -> BOOLEAN] /\ now \in 0 .. MaxNow /\ changes \in 0 .. MaxChanges
  BY BoundAssumption DEF Init
<1> QED  BY <1>4, <1>5, <1>6, <1>7, <1>8, <1>9, <1>10 DEF TypeOK

LEMMA GotoType ==
  ASSUME NEW i \in Instances, NEW new \in Sync, TypeOK, Goto(i, new)
  PROVE  /\ sync' \in [Instances -> Sync] /\ sync'[i] = new
         /\ \A j \in Instances \ {i} : sync'[j] = sync[j]
BY DEF TypeOK, Goto

LEMMA MeetingType ==
  ASSUME TypeOK, NEW e, NEW ent \in Event,
         meeting' = [meeting EXCEPT ![e] = Updated(@, ent)]
  PROVE  meeting' \in [Events -> Meeting]
<1>1. ASSUME NEW m \in Meeting PROVE Updated(m, ent) \in Meeting
  <2>1. ent.revision \in 0 .. MaxRevision  BY DEF Event
  <2>2. CASE ent.status = "cancelled"
    BY <2>2 DEF Updated, Meeting, Contents
  <2>3. CASE ent.status # "cancelled" /\ m.has = Cancelled
    BY <2>3 DEF Updated
  <2>4. CASE ent.status # "cancelled" /\ m.has # Cancelled
    BY <2>1, <2>4 DEF Updated, Meeting, Contents
  <2> QED  BY <2>2, <2>3, <2>4
<1>2. meeting \in [Events -> Meeting]  BY DEF TypeOK
<1> QED  BY <1>1, <1>2

LEMMA SaysMessage ==
  ASSUME NEW row \in Invitation, row.sequence >= 0
  PROVE  Says(row) \in Message /\ Says(row).number = row.sequence
BY DEF Says, Message, Invitation, Contents

\* What a channel brings, or would have brought, counts when it is newer.
LEMMA NewerBox ==
  ASSUME NEW box \in Box, NEW m \in Message
  PROVE  /\ Shows(box, m) \in Box /\ [box EXCEPT !.newest = Newer(box, m)] \in Box
         /\ Newer(box, m).number \in {m.number, box.newest.number}
         /\ Newer(box, m).number >= m.number /\ Newer(box, m).number >= box.newest.number
<1>1. box.newest.number \in Nat \cup {-1} /\ m.number \in Nat
  BY DEF Box, Message, NoMessage
<1>2. Newer(box, m) \in Message \cup {NoMessage}  BY DEF Newer, Box
<1> QED  BY <1>1, <1>2 DEF Newer, Shows, Box

\* What a row becomes is a row, a new one has the first number, and a number stands
\* for what it says.
LEMMA RevisedRow ==
  ASSUME NEW old \in Invitation, NEW desired \in BOOLEAN, NEW ent \in Event,
         NEW open \in BOOLEAN, old.sequence = -1 => old = NoInvitation
  PROVE  /\ Revised(old, desired, ent, open) \in Invitation
         /\ Revised(old, desired, ent, open).sent = old.sent
         /\ Revised(old, desired, ent, open).sequence = -1
              => Revised(old, desired, ent, open) = NoInvitation
         /\ \/ /\ Revised(old, desired, ent, open).sequence = old.sequence
               /\ Says(Revised(old, desired, ent, open)) = Says(old)
            \/ Revised(old, desired, ent, open).sequence = old.sequence + 1
<1> SUFFICES ASSUME NEW new, new = Revised(old, desired, ent, open)
             PROVE  /\ new \in Invitation
                    /\ new.sent = old.sent
                    /\ new.sequence = -1 => new = NoInvitation
                    /\ \/ new.sequence = old.sequence /\ Says(new) = Says(old)
                       \/ new.sequence = old.sequence + 1
  OBVIOUS
<1>1. ent.revision \in 0 .. MaxRevision  BY DEF Event
<1>2. CASE old = NoInvitation
  <2>1. CASE desired /\ open
    <3> DEFINE seq == 0
    <3>1. new = [old EXCEPT !.active = TRUE, !.sequence = seq, !.revision = ent.revision]
      BY <1>2, <2>1, Zenon DEF Revised
    <3>a. seq \in Nat /\ seq = 0  OBVIOUS
    <3> HIDE DEF seq
    <3>2. new.sequence = seq /\ new.sent = old.sent /\ new \in Invitation
      BY <3>1, <3>a, <1>1 DEF Invitation
    <3>3. old.sequence = -1  BY <1>2 DEF NoInvitation
    <3> QED  BY <3>a, <3>2, <3>3
  <2>2. CASE ~ (desired /\ open)
    <3>1. new = old  BY <1>2, <2>2 DEF Revised
    <3> QED  BY <3>1, <1>2
  <2> QED  BY <2>1, <2>2
<1>3. CASE old # NoInvitation
  <2>1. old.sequence \in Nat  BY <1>3 DEF Invitation
  <2>2. CASE old.active = desired /\ old.revision = ent.revision
    <3>1. new = old  BY <1>3, <2>2 DEF Revised
    <3> QED  BY <3>1, <1>3
  <2>3. CASE ~ (old.active = desired /\ old.revision = ent.revision)
    <3> DEFINE seq == IF old.active \/ desired THEN old.sequence + 1 ELSE old.sequence
    <3>1. new = [old EXCEPT !.active = desired, !.revision = ent.revision,
                            !.sequence = seq]
      BY <1>3, <2>3, Zenon DEF Revised
    <3>2. seq \in Nat  BY <2>1
    <3>3. seq = old.sequence + 1 \/ (seq = old.sequence /\ ~ old.active /\ ~ desired)
      OBVIOUS
    <3> HIDE DEF seq
    <3>4. /\ new \in Invitation /\ new.sent = old.sent
          /\ new.sequence = seq /\ new.active = desired
      BY <3>1, <3>2, <1>1 DEF Invitation
    <3>5. new.sequence # -1  BY <3>4, <3>2
    <3>6. CASE seq = old.sequence + 1
      BY <3>4, <3>5, <3>6
    <3>7. CASE seq = old.sequence /\ ~ old.active /\ ~ desired
      BY <3>4, <3>5, <3>7 DEF Says
    <3> QED  BY <3>3, <3>6, <3>7
  <2> QED  BY <2>2, <2>3
<1> QED  BY <1>2, <1>3

Recorded(row, c, n) == [row EXCEPT !.sent[c] = n]
LEMMA RecordedRow ==
  ASSUME NEW row \in Invitation, NEW c \in AllChannels, NEW n, n \in Nat \cup {-1}
  PROVE  /\ Recorded(row, c, n) \in Invitation /\ Same(Recorded(row, c, n), row)
         /\ Recorded(row, c, n).sent[c] = n
         /\ \A d \in AllChannels \ {c} : Recorded(row, c, n).sent[d] = row.sent[d]
BY DEF Invitation, Same, Recorded

\* What Record does to the table.
LEMMA RecordWrites ==
  ASSUME NEW i \in Instances, Inv, Record(i), NEW e, e = sync[i].event,
         NEW r, r = sync[i].at[1], NEW c, c = sync[i].at[2]
  PROVE  /\ e \in Events /\ r \in Recipients /\ c \in AllChannels
         /\ invite' \in [Events -> [Recipients -> Invitation]]
         /\ Same(invite'[e][r], invite[e][r])
         /\ invite'[e][r].sent[c] = sync[i].list[r].sequence
         /\ \A d \in AllChannels \ {c} : invite'[e][r].sent[d] = invite[e][r].sent[d]
         /\ \A f \in Events, q \in Recipients : f # e \/ q # r => invite'[f][q] = invite[f][q]
<1>1. TypeOK /\ Locks /\ SyncHolds(sync[i])  BY DEF Inv
<1>2. e \in Events /\ r \in Recipients /\ c \in AllChannels
  BY <1>1 DEF Locks, Record, At, SyncHolds
<1>3. sync[i].list[r].sequence \in Nat \cup {-1}
  BY <1>1, <1>2 DEF TypeOK, Sync, Invitation
<1> DEFINE n == sync[i].list[r].sequence
<1>4. invite' = [invite EXCEPT ![e] = [invite[e] EXCEPT ![r] = Recorded(invite[e][r], c, n)]]
  BY DEF Record, Recorded
<1>5. invite[e][r] \in Invitation  BY <1>1, <1>2 DEF TypeOK
<1>6. /\ Recorded(invite[e][r], c, n) \in Invitation
      /\ Same(Recorded(invite[e][r], c, n), invite[e][r])
      /\ Recorded(invite[e][r], c, n).sent[c] = n
      /\ \A d \in AllChannels \ {c} :
           Recorded(invite[e][r], c, n).sent[d] = invite[e][r].sent[d]
  <2>1. n \in Nat \cup {-1}  BY <1>3
  <2> HIDE DEF n
  <2> QED  BY <1>2, <1>5, <2>1, RecordedRow
<1>7. /\ invite' \in [Events -> [Recipients -> Invitation]]
      /\ invite'[e][r] = Recorded(invite[e][r], c, n)
      /\ \A f \in Events, q \in Recipients : f # e \/ q # r => invite'[f][q] = invite[f][q]
  <2> DEFINE row == Recorded(invite[e][r], c, n)
  <2>1. row \in Invitation /\ invite' = [invite EXCEPT ![e] = [invite[e] EXCEPT ![r] = row]]
    BY <1>4, <1>6
  <2>2. invite \in [Events -> [Recipients -> Invitation]]  BY <1>1 DEF TypeOK
  <2> HIDE DEF row
  <2>3. /\ invite' \in [Events -> [Recipients -> Invitation]]
        /\ invite'[e][r] = row
        /\ \A f \in Events, q \in Recipients : f # e \/ q # r => invite'[f][q] = invite[f][q]
    BY <1>2, <2>1, <2>2
  <2> QED  BY <2>3 DEF row
<1> QED  BY <1>2, <1>6, <1>7

\* What Revise does to it, and to what the run holds.
RowRevised(i, r, row) ==
  LET old == invite[sync[i].event][r]
  IN /\ invite'[sync[i].event][r] = row /\ row.sent = old.sent
     /\ row.sequence = -1 => row = NoInvitation
     /\ \/ row.sequence = old.sequence /\ Says(row) = Says(old)
        \/ row.sequence = old.sequence + 1
     /\ sync' = [sync EXCEPT ![i].list[r] = row, ![i].todo = @ \ {<<r, Null>>}]
LEMMA ReviseWrites ==
  ASSUME NEW i \in Instances, NEW r \in Recipients, Inv, Revise(i, r),
         NEW e, e = sync[i].event
  PROVE  /\ e \in Events
         /\ invite' \in [Events -> [Recipients -> Invitation]]
         /\ \E row \in Invitation : RowRevised(i, r, row)
         /\ \A f \in Events, q \in Recipients : f # e \/ q # r => invite'[f][q] = invite[f][q]
<1>1. TypeOK /\ Locks /\ SyncHolds(sync[i]) /\ Shown  BY DEF Inv
<1>2. e \in Events /\ sync[i].list = invite[e]
  BY <1>1 DEF Locks, Revise, At, SyncHolds
<1>3. sync[i] \in Sync /\ invite[e][r] \in Invitation  BY <1>1, <1>2 DEF TypeOK
<1> DEFINE desired == r \in sync[i].current
           row == Revised(invite[e][r], desired, sync[i].ent, Ahead(e))
<1>4. /\ row \in Invitation /\ row.sent = invite[e][r].sent
      /\ row.sequence = -1 => row = NoInvitation
      /\ \/ row.sequence = invite[e][r].sequence /\ Says(row) = Says(invite[e][r])
         \/ row.sequence = invite[e][r].sequence + 1
  <2>1. sync[i].ent \in Event  BY <1>3 DEF Sync
  <2>2. invite[e][r].sequence = -1 => invite[e][r] = NoInvitation
    BY <1>1, <1>2 DEF Shown
  <2>3. Ahead(e) \in BOOLEAN /\ desired \in BOOLEAN  BY DEF Ahead
  <2> HIDE DEF desired
  <2> QED  BY <1>3, <2>1, <2>2, <2>3, RevisedRow
<1>5. /\ sync' = [sync EXCEPT ![i].list[r] = row, ![i].todo = @ \ {<<r, Null>>}]
      /\ invite' = IF row = invite[e][r] THEN invite ELSE [invite EXCEPT ![e][r] = row]
  <2>1. sync[i].list[r] = invite[e][r]  BY <1>2
  <2> QED  BY <2>1 DEF Revise, Goto
<1> HIDE DEF row
<1>6. invite' = [invite EXCEPT ![e] = [invite[e] EXCEPT ![r] = row]]
  <2>1. row = invite[e][r] => invite = [invite EXCEPT ![e] = [invite[e] EXCEPT ![r] = row]]
    BY <1>1, <1>2 DEF TypeOK
  <2> QED  BY <1>5, <2>1
<1>7. /\ invite' \in [Events -> [Recipients -> Invitation]]
      /\ invite'[e][r] = row
      /\ \A f \in Events, q \in Recipients : f # e \/ q # r => invite'[f][q] = invite[f][q]
  <2>1. invite \in [Events -> [Recipients -> Invitation]]  BY <1>1 DEF TypeOK
  <2> QED  BY <1>2, <1>4, <1>6, <2>1
<1>8. RowRevised(i, r, row)  BY <1>4, <1>5, <1>7 DEF RowRevised
<1> QED  BY <1>2, <1>4, <1>7, <1>8

\* A channel brings version m of the invitation of e and r, or, switched off, lets
\* it pass.
Brings(e, r, c, m) ==
  LET old == inbox[e][r][c]
      new == inbox'[e][r][c]
  IN /\ inbox' \in [Events -> [Recipients -> [AllChannels -> Box]]]
     /\ new.newest = Newer(old, m)
     /\ new.newest.number \in {m.number, old.newest.number}
     /\ new.newest.number >= m.number /\ new.newest.number >= old.newest.number
     /\ new.last \in {m, old.last}
     /\ \A d \in AllChannels \ {c} : inbox'[e][r][d] = inbox[e][r][d]
     /\ \A f \in Events, q \in Recipients : f # e \/ q # r => inbox'[f][q] = inbox[f][q]
Puts(e, r, c, box) == inbox' = [inbox EXCEPT ![e][r][c] = box]
LEMMA ChannelBrings ==
  ASSUME TypeOK, NEW e \in Events, NEW r \in Recipients, NEW c \in AllChannels,
         NEW m \in Message, NEW box,
         \/ box = Shows(inbox[e][r][c], m)
         \/ box = [inbox[e][r][c] EXCEPT !.newest = Newer(inbox[e][r][c], m)],
         Puts(e, r, c, box)
  PROVE  Brings(e, r, c, m) /\ inbox'[e][r][c] = box
<1>1. inbox \in [Events -> [Recipients -> [AllChannels -> Box]]]  BY DEF TypeOK
<1>2. inbox[e][r][c] \in Box  BY <1>1
<1>3. box \in Box  BY <1>2, NewerBox
<1>4. /\ inbox' \in [Events -> [Recipients -> [AllChannels -> Box]]]
      /\ inbox'[e][r][c] = box
      /\ \A d \in AllChannels \ {c} : inbox'[e][r][d] = inbox[e][r][d]
      /\ \A f \in Events, q \in Recipients : f # e \/ q # r => inbox'[f][q] = inbox[f][q]
  BY <1>1, <1>3 DEF Puts
<1>5. box.newest = Newer(inbox[e][r][c], m) /\ box.last \in {m, inbox[e][r][c].last}
  BY <1>2 DEF Shows, Box
<1>6. /\ Newer(inbox[e][r][c], m).number \in {m.number, inbox[e][r][c].newest.number}
      /\ Newer(inbox[e][r][c], m).number >= m.number
      /\ Newer(inbox[e][r][c], m).number >= inbox[e][r][c].newest.number
  BY <1>2, NewerBox
<1> QED  BY <1>4, <1>5, <1>6 DEF Brings

\* A run with its lock brings the version of the table.
LEMMA SendBrings ==
  ASSUME NEW i \in Instances, NEW r \in Recipients, NEW c \in AllChannels, Inv,
         Send(i, r, c) \/ Withhold(i, r, c), NEW e, e = sync[i].event,
         NEW row, row = sync[i].list[r]
  PROVE  /\ e \in Events /\ row \in Invitation /\ row.sequence >= 0
         /\ Same(row, invite[e][r]) /\ Says(row).number = invite[e][r].sequence
         /\ Brings(e, r, c, Says(row))
         /\ Send(i, r, c) => inbox'[e][r][c].last = Says(row)
         /\ Withhold(i, r, c) => inbox'[e][r][c].last = inbox[e][r][c].last
<1>1. TypeOK /\ Locks /\ SyncHolds(sync[i]) /\ sync[i] \in Sync  BY DEF Inv, TypeOK
<1>2. sync[i].step = "deliver" /\ <<r, c>> \in sync[i].todo
  BY DEF Send, Withhold, Bring, At
<1>3. e \in Events  BY <1>1, <1>2 DEF Locks
<1>4. row \in Invitation /\ row.sequence >= 0 /\ Same(row, invite[e][r])
  BY <1>1, <1>2 DEF SyncHolds, Sync
<1>5. Says(row) \in Message /\ Says(row).number = row.sequence  BY <1>4, SaysMessage
<1> DEFINE m == Says(row)
           showing == Shows(inbox[e][r][c], m)
           passing == [inbox[e][r][c] EXCEPT !.newest = Newer(inbox[e][r][c], m)]
<1>6. Send(i, r, c) => Puts(e, r, c, showing)  BY DEF Send, Bring, Puts
<1>7. Withhold(i, r, c) => Puts(e, r, c, passing)  BY DEF Withhold, Bring, Puts
<1>8. Send(i, r, c) => Brings(e, r, c, m) /\ inbox'[e][r][c] = showing
  BY <1>1, <1>3, <1>5, <1>6, ChannelBrings
<1>9. Withhold(i, r, c) => Brings(e, r, c, m) /\ inbox'[e][r][c] = passing
  BY <1>1, <1>3, <1>5, <1>7, ChannelBrings
<1>10. showing.last = m /\ passing.last = inbox[e][r][c].last
  <2>1. inbox[e][r][c] \in Box  BY <1>1, <1>3 DEF TypeOK
  <2> QED  BY <2>1 DEF Shows, Box
<1> HIDE DEF m, showing, passing
<1>11. Brings(e, r, c, m)  BY <1>8, <1>9
<1>12. m.number = invite[e][r].sequence  BY <1>4, <1>5 DEF Same, m
<1> QED  BY <1>3, <1>4, <1>8, <1>9, <1>10, <1>11, <1>12 DEF m

\* A run without it brings one that is no newer, or fails.
LEMMA StrayBrings ==
  ASSUME NEW i \in Instances, NEW r \in Recipients, NEW c \in AllChannels, Inv,
         StraySend(i, r, c), NEW e, e = adrift[i].event, NEW row, row = adrift[i].list[r]
  PROVE  /\ e \in Events /\ row \in Invitation /\ Says(row).number <= invite[e][r].sequence
         /\ \/ inbox' = inbox
            \/ Brings(e, r, c, Says(row)) /\ inbox'[e][r][c].last = Says(row)
<1>1. TypeOK /\ AdriftHolds(adrift[i]) /\ adrift[i] \in Sync  BY DEF Inv, TypeOK
<1>2. /\ e \in Events /\ row.sequence >= 0 /\ row.sequence <= invite[e][r].sequence
  BY <1>1 DEF StraySend, AdriftHolds
<1>3. row \in Invitation  BY <1>1 DEF Sync
<1>4. Says(row) \in Message /\ Says(row).number = row.sequence  BY <1>2, <1>3, SaysMessage
<1>5. ASSUME NEW m, m = Says(row), NEW box, box = Shows(inbox[e][r][c], m),
             Puts(e, r, c, box)
      PROVE  Brings(e, r, c, m) /\ inbox'[e][r][c] = box /\ box.last = m
  <2>1. TypeOK /\ m \in Message /\ e \in Events  BY <1>1, <1>2, <1>4, <1>5
  <2>2. Brings(e, r, c, m) /\ inbox'[e][r][c] = box  BY <1>5, <2>1, ChannelBrings
  <2> QED  BY <1>5, <2>2 DEF Shows
<1>6. inbox' = inbox \/ Puts(e, r, c, Shows(inbox[e][r][c], Says(row)))
  BY DEF StraySend, Puts
<1> QED  BY <1>2, <1>3, <1>4, <1>5, <1>6

\* What is left of a run that loses its connection, and later of that.
LEMMA AdriftType ==
  ASSUME NEW i \in Instances, TypeOK, LoseConnection(i) \/ Drift(i)
  PROVE  adrift' \in [Instances -> Sync]
<1>1. adrift \in [Instances -> Sync] /\ sync[i] \in Sync /\ adrift[i] \in Sync  BY DEF TypeOK
<1>2. ASSUME LoseConnection(i) PROVE adrift' \in [Instances -> Sync]
  <2> DEFINE left == sync[i].todo \ {sync[i].at}
             list == [r \in Recipients |-> IF \E c \in AllChannels : <<r, c>> \in left
                                           THEN sync[i].list[r] ELSE NoInvitation]
             zoom == [NoSync EXCEPT !.step = "zoom", !.event = sync[i].event, !.ent = sync[i].ent]
             send == [NoSync EXCEPT !.step = "deliver", !.event = sync[i].event, !.todo = left,
                                    !.list = list]
  <2>1. zoom \in Sync  BY <1>1, NoSyncType DEF Sync
  <2>2. list \in [Recipients -> Invitation] /\ left \in SUBSET (Recipients \X (AllChannels \cup {Null}))
    BY <1>1, BoundAssumption DEF Sync, NoInvitation, Invitation
  <2>3. adrift' = [adrift EXCEPT ![i] = IF At(i, "zoom") THEN zoom ELSE send]
    BY <1>2 DEF LoseConnection
  <2> HIDE DEF list, left, zoom
  <2>4. send \in Sync  BY <1>1, <2>2, NoSyncType DEF Sync
  <2> HIDE DEF send
  <2> QED  BY <1>1, <2>1, <2>3, <2>4
<1>3. ASSUME NEW r \in Recipients, NEW c \in AllChannels, StraySend(i, r, c)
      PROVE  adrift' \in [Instances -> Sync]
  <2> DEFINE new == [adrift[i] EXCEPT !.todo = adrift[i].todo \ {<<r, c>>}]
  <2>1. new \in Sync  BY <1>1 DEF Sync
  <2>2. adrift' = [adrift EXCEPT ![i] = NoSync] \/ adrift' = [adrift EXCEPT ![i] = new]
    BY <1>3 DEF StraySend
  <2> HIDE DEF new
  <2> QED  BY <1>1, <2>1, <2>2, NoSyncType
<1>4. StrayZoom(i) => adrift' \in [Instances -> Sync]
  BY <1>1, NoSyncType DEF StrayZoom
<1> QED  BY <1>2, <1>3, <1>4 DEF Drift

\* One step for each action; what stutters is left to the theorems.
LEMMA TypesNext == Inv /\ Next => TypeOK'
<1> SUFFICES ASSUME Inv, Next PROVE TypeOK'  OBVIOUS
<1> USE DEF rows, outside, world, still
<1>0. TypeOK /\ Locks /\ Schedule  BY DEF Inv
<1>a. ASSUME NEW w \in Writers, NEW e \in Events, NEW s \in Slots \cup {Null},
             NEW op \in {"create", "update", "cancel"}, Writing(w, op, e, s)
      PROVE  TypeOK'
  <2>1. [op |-> op, event |-> e, slot |-> s] \in Writer  BY DEF Writer
  <2> QED  BY <1>0, <1>a, <2>1 DEF TypeOK, Writing
<1>b. ASSUME NEW w \in Writers, NEW op \in {"create", "update", "cancel"}, NEW ent \in Event,
             Commit(w, op, ent), meeting' \in [Events -> Meeting]
      PROVE  TypeOK'
  <2>1. NoWriter \in Writer  BY DEF NoWriter, Writer
  <2>2. event' \in [Events -> Event]  BY <1>0, <1>b DEF TypeOK, Commit
  <2> QED  BY <1>0, <1>b, <2>1, <2>2 DEF TypeOK, Commit
<1>c. ASSUME NEW i \in Instances, NEW new \in Sync, Goto(i, new),
             UNCHANGED <<rows, outside, still, writer, adrift>>, changes' \in 0 .. MaxChanges
      PROVE  TypeOK'
  <2>1. sync' \in [Instances -> Sync]  BY <1>0, <1>c, GotoType
  <2> QED  BY <1>0, <1>c, <2>1 DEF TypeOK
<1>d. ASSUME NEW i \in Instances, NEW new \in Sync, Goto(i, new),
             event' \in [Events -> Event], UNCHANGED <<invite, outside, world, writer, adrift>>
      PROVE  TypeOK'
  <2>1. sync' \in [Instances -> Sync]  BY <1>0, <1>d, GotoType
  <2> QED  BY <1>0, <1>d, <2>1 DEF TypeOK
<1>e. ASSUME NEW i \in Instances, NEW new \in Sync, Goto(i, new),
             invite' \in [Events -> [Recipients -> Invitation]],
             UNCHANGED <<event, outside, world, writer, adrift>>
      PROVE  TypeOK'
  <2>1. sync' \in [Instances -> Sync]  BY <1>0, <1>e, GotoType
  <2> QED  BY <1>0, <1>e, <2>1 DEF TypeOK
<1>f. \A i \in Instances : sync[i] \in Sync  BY <1>0 DEF TypeOK
<1>g. Changing => changes' \in 0 .. MaxChanges
  BY <1>0, BoundAssumption DEF TypeOK, Changing
<1>h. UNCHANGED world => UNCHANGED still /\ changes' \in 0 .. MaxChanges
  BY <1>0 DEF TypeOK
<1>1. ASSUME NEW w \in Writers, NEW e \in Events, NEW s \in Slots, BeginCreate(w, e, s)
      PROVE  TypeOK'
  BY <1>a, <1>1 DEF BeginCreate
<1>2. ASSUME NEW w \in Writers, NEW e \in Events, NEW s \in Slots, BeginUpdate(w, e, s)
      PROVE  TypeOK'
  BY <1>a, <1>2 DEF BeginUpdate
<1>3. ASSUME NEW w \in Writers, NEW e \in Events, BeginCancel(w, e)
      PROVE  TypeOK'
  BY <1>a, <1>3 DEF BeginCancel
<1>4. ASSUME NEW w \in Writers, FinishCreate(w)
      PROVE  TypeOK'
  <2> DEFINE ent == [NoEvent EXCEPT !.status = "scheduled", !.slot = writer[w].slot,
                                    !.error = TRUE]
  <2>1. writer[w].slot \in Slots \cup {Null} /\ writer[w] \in Writer
    BY <1>0 DEF TypeOK, Writer
  <2>a. NoEvent \in Event  BY BoundAssumption DEF NoEvent, Event
  <2>2. ent \in Event  BY <2>1, <2>a DEF Event
  <2>b. [has |-> 0, got |-> 0] \in Meeting  BY BoundAssumption DEF Contents, Meeting
  <2>3. meeting' \in [Events -> Meeting]
    BY <1>0, <1>4, <2>b DEF FinishCreate, TypeOK
  <2>4. Commit(w, "create", ent)  BY <1>4 DEF FinishCreate
  <2> HIDE DEF ent
  <2> QED  BY <1>b, <2>2, <2>3, <2>4
<1>5. ASSUME NEW w \in Writers, FinishUpdate(w)
      PROVE  TypeOK'
  <2> DEFINE e == writer[w].event
             ent == [event[e] EXCEPT !.slot = writer[w].slot, !.revision = @ + 1]
  <2>1. writer[w] \in Writer /\ writer[w].op = "update"
    BY <1>0, <1>5 DEF TypeOK, FinishUpdate, Commit
  <2>2. e \in Events /\ event[e].revision < MaxRevision - 1
    BY <1>0, <2>1 DEF Locks, Schedule, WriterHolds
  <2>3. event[e] \in Event /\ writer[w].slot \in Slots \cup {Null}
    BY <1>0, <2>1, <2>2 DEF TypeOK, Writer
  <2>4. event[e].revision + 1 \in 0 .. MaxRevision
    BY <2>2, <2>3, BoundAssumption DEF Event
  <2>5. ent \in Event  BY <2>3, <2>4 DEF Event
  <2>6. Commit(w, "update", ent) /\ meeting' = meeting  BY <1>5 DEF FinishUpdate
  <2>7. meeting' \in [Events -> Meeting]  BY <1>0, <2>6 DEF TypeOK
  <2> HIDE DEF ent
  <2> QED  BY <1>b, <2>5, <2>6, <2>7
<1>6. ASSUME NEW w \in Writers, FinishCancel(w)
      PROVE  TypeOK'
  <2> DEFINE e == writer[w].event
             ent == [event[e] EXCEPT !.status = "cancelled", !.revision = @ + 1]
  <2>1. writer[w] \in Writer /\ writer[w].op = "cancel"
    BY <1>0, <1>6 DEF TypeOK, FinishCancel, Commit
  <2>2. e \in Events /\ event[e].revision < MaxRevision
    BY <1>0, <2>1 DEF Locks, Schedule, WriterHolds
  <2>3. event[e] \in Event
    BY <1>0, <2>1, <2>2 DEF TypeOK, Writer
  <2>4. event[e].revision + 1 \in 0 .. MaxRevision
    BY <2>2, <2>3, BoundAssumption DEF Event
  <2>5. ent \in Event  BY <2>3, <2>4 DEF Event
  <2>6. Commit(w, "cancel", ent) /\ meeting' = meeting  BY <1>6 DEF FinishCancel
  <2>7. meeting' \in [Events -> Meeting]  BY <1>0, <2>6 DEF TypeOK
  <2> HIDE DEF ent
  <2> QED  BY <1>b, <2>5, <2>6, <2>7
<1>7. ASSUME NEW w \in Writers, Abort(w)
      PROVE  TypeOK'
  <2>1. NoWriter \in Writer  BY DEF NoWriter, Writer
  <2> QED  BY <1>0, <1>7, <2>1 DEF TypeOK, Abort
<1>8. ASSUME NEW i \in Instances, NEW e \in Events, StartSync(i, e)
      PROVE  TypeOK'
  <2> DEFINE ent == IF Gone(e) THEN [event[e] EXCEPT !.status = "cancelled", !.revision = @ + 1]
                    ELSE event[e]
             new == [NoSync EXCEPT !.event = e, !.ent = ent,
                       !.step = IF ent.zoom < ent.revision THEN "zoom" ELSE "plan"]
  <2>1. event[e] \in Event  BY <1>0 DEF TypeOK
  <2>2. ent \in Event
    <3>1. CASE Gone(e)
      <4>1. event[e].revision < MaxRevision  BY <1>0, <3>1 DEF Schedule, Gone
      <4>2. event[e].revision + 1 \in 0 .. MaxRevision
        BY <2>1, <4>1, BoundAssumption DEF Event
      <4>3. [event[e] EXCEPT !.status = "cancelled", !.revision = @ + 1] \in Event
        BY <2>1, <4>2 DEF Event
      <4> QED  BY <3>1, <4>3
    <3>2. CASE ~ Gone(e)
      BY <2>1, <3>2
    <3> QED  BY <3>1, <3>2
  <2>3. Goto(i, new) /\ event' = [event EXCEPT ![e] = ent]
        /\ UNCHANGED <<invite, outside, world, writer, adrift>>
    BY <1>8 DEF StartSync
  <2> HIDE DEF ent
  <2>4. new \in Sync  BY <2>2, NoSyncType DEF Sync
  <2>5. event' \in [Events -> Event]  BY <1>0, <2>2, <2>3 DEF TypeOK
  <2> HIDE DEF new
  <2> QED  BY <1>d, <2>3, <2>4, <2>5
<1>9. ASSUME NEW i \in Instances, SyncZoom(i)
      PROVE  TypeOK'
  <2> DEFINE new == [sync[i] EXCEPT !.step = "zoomed"]
  <2>1. new \in Sync  BY <1>f DEF Sync
  <2>2. sync[i].ent \in Event  BY <1>f DEF Sync
  <2>3. Goto(i, new) /\ meeting' = [meeting EXCEPT ![sync[i].event] = Updated(@, sync[i].ent)]
        /\ UNCHANGED <<rows, inbox, world, writer, adrift>>
    BY <1>9 DEF SyncZoom
  <2> HIDE DEF new
  <2>4. sync' \in [Instances -> Sync]  BY <1>0, <2>1, <2>3, GotoType
  <2>5. meeting' \in [Events -> Meeting]  BY <1>0, <2>2, <2>3, MeetingType
  <2> QED  BY <1>0, <2>3, <2>4, <2>5 DEF TypeOK
<1>10. ASSUME NEW i \in Instances, RecordZoom(i)
      PROVE  TypeOK'
  <2> DEFINE new == [sync[i] EXCEPT !.step = "plan"]
  <2>1. new \in Sync  BY <1>f DEF Sync
  <2>2. sync[i].ent.revision \in 0 .. MaxRevision  BY <1>f DEF Sync, Event
  <2>3. event' \in [Events -> Event]
    <3>1. \A e \in Events : [event[e] EXCEPT !.zoom = sync[i].ent.revision] \in Event
      BY <1>0, <2>2 DEF TypeOK, Event
    <3>2. event' = [event EXCEPT ![sync[i].event] =
                      [event[sync[i].event] EXCEPT !.zoom = sync[i].ent.revision]]
      BY <1>10 DEF RecordZoom
    <3> QED  BY <1>0, <3>1, <3>2 DEF TypeOK
  <2>4. Goto(i, new) /\ UNCHANGED <<invite, outside, world, writer, adrift>>
    BY <1>10 DEF RecordZoom
  <2> HIDE DEF new
  <2> QED  BY <1>d, <2>1, <2>3, <2>4
<1>11. ASSUME NEW i \in Instances, ZoomFails(i)
      PROVE  TypeOK'
  <2> DEFINE new == [sync[i] EXCEPT !.step = "plan", !.error = TRUE]
  <2>1. new \in Sync  BY <1>f DEF Sync
  <2>2. Goto(i, new) /\ UNCHANGED <<rows, outside, still, writer, adrift>> /\ Changing
    BY <1>11 DEF ZoomFails
  <2> HIDE DEF new
  <2> QED  BY <1>c, <1>g, <2>1, <2>2
<1>12. ASSUME NEW i \in Instances, PlanParticipants(i) \/ PlanHosts(i)
      PROVE  TypeOK'
  <2>1. PICK group \in {Participants, Hosts} : Plan(i, group)
    BY <1>12 DEF PlanParticipants, PlanHosts
  <2>2. sync[i].event \in Events  BY <1>0, <1>12 DEF Locks, PlanParticipants, PlanHosts, At, Delivered
  <2> DEFINE e == sync[i].event
             current == IF sync[i].ent.status = "scheduled" THEN invited[e] \cap group ELSE {}
             new == [sync[i] EXCEPT
               !.step = "revise", !.list = invite[e], !.group = group, !.current = current,
               !.todo = {<<r, Null>> : r \in {r \in group :
                            r \in current \/ invite[e][r] # NoInvitation}}]
  <2>3. group \subseteq Recipients  BY DEF Recipients
  <2>4. current \subseteq Recipients /\ invite[e] \in [Recipients -> Invitation]
    BY <1>0, <2>2, <2>3 DEF TypeOK
  <2>5. {<<r, Null>> : r \in {r \in group : r \in current \/ invite[e][r] # NoInvitation}}
        \subseteq Recipients \X (AllChannels \cup {Null})
    BY <2>3
  <2>6. Goto(i, new)  BY <2>1 DEF Plan
  <2> HIDE DEF current
  <2>7. new \in Sync  BY <1>f, <2>3, <2>4, <2>5 DEF Sync
  <2> HIDE DEF new
  <2>8. UNCHANGED <<rows, outside, world, writer, adrift>>  BY <1>12 DEF PlanParticipants, PlanHosts
  <2> QED  BY <1>c, <1>h, <2>6, <2>7, <2>8
<1>13. ASSUME NEW i \in Instances, NoHostAccount(i)
      PROVE  TypeOK'
  <2> DEFINE new == [sync[i] EXCEPT !.group = Hosts, !.error = TRUE]
  <2>1. new \in Sync  BY <1>f DEF Sync, Recipients
  <2>2. Goto(i, new) /\ UNCHANGED <<rows, outside, still, writer, adrift>> /\ Changing
    BY <1>13 DEF NoHostAccount
  <2> HIDE DEF new
  <2> QED  BY <1>c, <1>g, <2>1, <2>2
<1>14. ASSUME NEW i \in Instances, NEW r \in Recipients, Revise(i, r)
      PROVE  TypeOK'
  <2>1. invite' \in [Events -> [Recipients -> Invitation]]  BY <1>14, ReviseWrites
  <2>2. PICK row \in Invitation : RowRevised(i, r, row)  BY <1>14, ReviseWrites
  <2> DEFINE new == [sync[i] EXCEPT !.list[r] = row, !.todo = @ \ {<<r, Null>>}]
  <2>3. new \in Sync  BY <1>f DEF Sync
  <2>4. Goto(i, new)  BY <2>2 DEF Goto, RowRevised
  <2> HIDE DEF new
  <2>5. UNCHANGED <<event, outside, world, writer, adrift>>  BY <1>14 DEF Revise
  <2> QED  BY <1>e, <2>1, <2>3, <2>4, <2>5
<1>15. ASSUME NEW i \in Instances, StartDelivery(i)
      PROVE  TypeOK'
  <2> DEFINE todo == {x \in sync[i].group \X AllChannels :
                        /\ x[2] \in ChannelsOf(x[1])
                        /\ sync[i].list[x[1]].sent[x[2]] < sync[i].list[x[1]].sequence}
             new == [sync[i] EXCEPT !.step = "deliver", !.todo = todo]
  <2>1. todo \subseteq Recipients \X (AllChannels \cup {Null})  BY <1>f DEF Sync
  <2>2. Goto(i, new) /\ UNCHANGED <<rows, outside, world, writer, adrift>>
    BY <1>15 DEF StartDelivery
  <2> HIDE DEF todo
  <2>3. new \in Sync  BY <1>f, <2>1 DEF Sync
  <2> HIDE DEF new
  <2> QED  BY <1>c, <1>h, <2>2, <2>3
<1>16. ASSUME NEW i \in Instances, NEW r \in Recipients, NEW c \in AllChannels,
              Send(i, r, c) \/ Withhold(i, r, c)
      PROVE  TypeOK'
  <2> DEFINE new == [sync[i] EXCEPT !.step = "sent", !.at = <<r, c>>]
  <2>1. new \in Sync  BY <1>f DEF Sync
  <2>2. Goto(i, new) /\ UNCHANGED <<rows, meeting, still, writer, adrift>>
    BY <1>16 DEF Send, Withhold, Bring
  <2> HIDE DEF new
  <2>3. changes' \in 0 .. MaxChanges  BY <1>0, <1>g, <1>16 DEF Send, Withhold, TypeOK
  <2>4. sync' \in [Instances -> Sync]  BY <1>0, <2>1, <2>2, GotoType
  <2>5. inbox' \in [Events -> [Recipients -> [AllChannels -> Box]]]
    BY <1>16, SendBrings DEF Brings
  <2> QED  BY <1>0, <2>2, <2>3, <2>4, <2>5 DEF TypeOK
<1>17. ASSUME NEW i \in Instances, Record(i)
      PROVE  TypeOK'
  <2> DEFINE new == [sync[i] EXCEPT !.step = "deliver", !.at = <<>>,
                                    !.todo = @ \ {<<sync[i].at[1], sync[i].at[2]>>}]
  <2>1. new \in Sync  BY <1>f DEF Sync
  <2>2. Goto(i, new) /\ UNCHANGED <<event, outside, world, writer, adrift>>
    BY <1>17 DEF Record
  <2> HIDE DEF new
  <2>3. invite' \in [Events -> [Recipients -> Invitation]]  BY <1>17, RecordWrites
  <2> QED  BY <1>e, <2>1, <2>2, <2>3
<1>18. ASSUME NEW i \in Instances, NEW r \in Recipients, NEW c \in AllChannels,
              SendFails(i, r, c)
      PROVE  TypeOK'
  <2> DEFINE new == [sync[i] EXCEPT !.step = "deliver", !.at = <<>>,
                                    !.todo = @ \ {<<r, c>>}, !.error = TRUE]
  <2>1. new \in Sync  BY <1>f DEF Sync
  <2>2. Goto(i, new) /\ UNCHANGED <<rows, outside, still, writer, adrift>> /\ Changing
    BY <1>18 DEF SendFails
  <2> HIDE DEF new
  <2> QED  BY <1>c, <1>g, <2>1, <2>2
<1>19. ASSUME NEW i \in Instances, NEW r \in Recipients, NEW c \in AllChannels, Quiet(i, r, c)
      PROVE  TypeOK'
  <2> DEFINE new == [sync[i] EXCEPT !.todo = @ \ {<<r, c>>}]
  <2>1. new \in Sync  BY <1>f DEF Sync
  <2>2. Goto(i, new) /\ UNCHANGED <<rows, outside, still, writer, adrift>> /\ Changing
    BY <1>19 DEF Quiet
  <2> HIDE DEF new
  <2> QED  BY <1>c, <1>g, <2>1, <2>2
<1>20. ASSUME NEW i \in Instances, EndSync(i)
      PROVE  TypeOK'
  <2>1. event' \in [Events -> Event]
    <3>1. \A e \in Events : [event[e] EXCEPT !.error = sync[i].error] \in Event
      <4>1. sync[i].error \in BOOLEAN  BY <1>f DEF Sync
      <4> DEFINE error == sync[i].error
      <4> HIDE DEF error
      <4>2. ASSUME NEW old \in Event, error \in BOOLEAN
            PROVE  [old EXCEPT !.error = error] \in Event
        BY <4>2, Zenon DEF Event
      <4> QED  BY <1>0, <4>1, <4>2 DEF TypeOK, error
    <3>2. event' = [event EXCEPT ![sync[i].event] =
                      [event[sync[i].event] EXCEPT !.error = sync[i].error]]
      BY <1>20 DEF EndSync
    <3> QED  BY <1>0, <3>1, <3>2 DEF TypeOK
  <2> QED  BY <1>d, <1>20, <2>1, NoSyncType DEF EndSync
<1>21. ASSUME NEW i \in Instances, Crash(i)
      PROVE  TypeOK'
  BY <1>c, <1>g, <1>21, NoSyncType DEF Crash
<1>25. ASSUME NEW i \in Instances, LoseConnection(i) \/ Drift(i)
      PROVE  TypeOK'
  <2>1. adrift' \in [Instances -> Sync]  BY <1>0, <1>25, AdriftType
  <2>2. sync' \in [Instances -> Sync]
    <3>1. sync' = sync \/ Goto(i, NoSync)
      BY <1>25 DEF LoseConnection, Drift, StraySend, StrayZoom
    <3> QED  BY <1>0, <3>1, NoSyncType, GotoType DEF TypeOK
  <2>3. inbox' \in [Events -> [Recipients -> [AllChannels -> Box]]]
    <3>1. ASSUME NEW r \in Recipients, NEW c \in AllChannels, StraySend(i, r, c)
          PROVE  inbox' \in [Events -> [Recipients -> [AllChannels -> Box]]]
      BY <1>0, <3>1, StrayBrings DEF Brings, TypeOK
    <3> QED  BY <1>0, <1>25, <3>1 DEF LoseConnection, Drift, StrayZoom, TypeOK
  <2>4. meeting' \in [Events -> Meeting]
    <3>1. ASSUME StrayZoom(i) PROVE meeting' \in [Events -> Meeting]
      <4>1. adrift[i].ent \in Event  BY <1>0 DEF TypeOK, Sync
      <4>2. meeting' = meeting \/ meeting' = [meeting EXCEPT ![adrift[i].event] = Updated(@, adrift[i].ent)]
        BY <3>1 DEF StrayZoom
      <4> QED  BY <1>0, <4>1, <4>2, MeetingType DEF TypeOK
    <3> QED  BY <1>0, <1>25, <3>1 DEF LoseConnection, Drift, StraySend, TypeOK
  <2>5. changes' \in 0 .. MaxChanges
    BY <1>g, <1>h, <1>25 DEF LoseConnection, Drift, StraySend, StrayZoom
  <2>6. UNCHANGED <<event, invite, invited, withdrawn, now, writer>>
    BY <1>25 DEF LoseConnection, Drift, StraySend, StrayZoom
  <2> QED  BY <1>0, <2>1, <2>2, <2>3, <2>4, <2>5, <2>6 DEF TypeOK
<1>22. ASSUME Change
      PROVE  TypeOK'
  <2>1. ASSUME NEW e \in Events, Withdraw(e) PROVE TypeOK'
    BY <1>0, <1>g, <2>1 DEF Withdraw, TypeOK
  <2>2. ASSUME NEW e \in Events, NEW all \in SUBSET Recipients, Reassign(e, all) PROVE TypeOK'
    BY <1>0, <1>g, <2>2 DEF Reassign, TypeOK
  <2>3. ASSUME Tick PROVE TypeOK'
    BY <1>0, <2>3, BoundAssumption DEF Tick, TypeOK
  <2> QED  BY <1>22, <2>1, <2>2, <2>3 DEF Change
<1> HIDE DEF rows, outside, world, still
<1>23. ASSUME NEW w \in Writers, Write(w) PROVE TypeOK'
  BY <1>1, <1>2, <1>3, <1>4, <1>5, <1>6, <1>7, <1>23 DEF Write
<1>24. ASSUME NEW i \in Instances, Synchronize(i) PROVE TypeOK'
  BY <1>8, <1>9, <1>10, <1>11, <1>12, <1>13, <1>14, <1>15, <1>16, <1>17, <1>18, <1>19,
     <1>20, <1>21, <1>24, <1>25 DEF Synchronize, Proceed, Fail
<1> QED  BY <1>22, <1>23, <1>24 DEF Next

-----------------------------------------------------------------------------
(* Locks.                                                                   *)

\* A run goes on with its event, or is over.
GoesOn(i) ==
  /\ \A j \in Instances \ {i} : sync'[j] = sync[j]
  /\ sync'[i] = NoSync \/ (sync'[i].step # "idle" /\ sync'[i].event = sync[i].event)
  /\ sync[i].step # "idle"
  /\ writer' = writer

LEMMA RunsGoOn ==
  ASSUME NEW i \in Instances, Inv, Proceed(i) \/ Fail(i) \/ LoseConnection(i)
  PROVE  GoesOn(i)
<1>1. sync \in [Instances -> Sync] /\ sync[i] \in Sync  BY DEF Inv, TypeOK
<1> USE DEF Goto, At, Delivered, GoesOn
<1>2. SyncZoom(i) => GoesOn(i)  BY <1>1 DEF SyncZoom, Sync
<1>3. RecordZoom(i) => GoesOn(i)  BY <1>1 DEF RecordZoom, Sync
<1>4. PlanParticipants(i) => GoesOn(i)  BY <1>1 DEF PlanParticipants, Plan, Sync
<1>5. PlanHosts(i) => GoesOn(i)  BY <1>1 DEF PlanHosts, Plan, Sync
<1>6. (\E r \in Recipients : Revise(i, r)) => GoesOn(i)  BY <1>1 DEF Revise, Sync
<1>7. StartDelivery(i) => GoesOn(i)  BY <1>1 DEF StartDelivery, Sync
<1>8. ASSUME NEW r \in Recipients, NEW c \in AllChannels, Send(i, r, c) \/ Withhold(i, r, c)
      PROVE  GoesOn(i)
  <2>1. /\ At(i, "deliver") /\ writer' = writer
        /\ sync' = [sync EXCEPT ![i] = [sync[i] EXCEPT !.step = "sent", !.at = <<r, c>>]]
    BY <1>8 DEF Send, Withhold, Bring
  <2> QED  BY <1>1, <2>1 DEF Sync
<1>9. Record(i) => GoesOn(i)  BY <1>1 DEF Record, Sync
<1>10. EndSync(i) => GoesOn(i)  BY <1>1 DEF EndSync
<1>11. ZoomFails(i) => GoesOn(i)  BY <1>1 DEF ZoomFails, Sync
<1>12. NoHostAccount(i) => GoesOn(i)  BY <1>1 DEF NoHostAccount, Sync
<1>13. Crash(i) => GoesOn(i)  BY <1>1 DEF Crash
<1>14. (\E r \in Recipients, c \in AllChannels : SendFails(i, r, c)) => GoesOn(i)
  BY <1>1 DEF SendFails, Sync
<1>15. (\E r \in Recipients, c \in AllChannels : Quiet(i, r, c)) => GoesOn(i)
  BY <1>1 DEF Quiet, Sync
<1> HIDE DEF Goto, At, Delivered, GoesOn
<1>16. Proceed(i) => GoesOn(i)
  BY <1>2, <1>3, <1>4, <1>5, <1>6, <1>7, <1>8, <1>9, <1>10 DEF Proceed
<1>17. Fail(i) => GoesOn(i)
  <2>1. ASSUME NEW r \in Recipients, NEW c \in AllChannels,
               SendFails(i, r, c) \/ Quiet(i, r, c) \/ Withhold(i, r, c)
        PROVE  GoesOn(i)
    BY <1>8, <1>14, <1>15, <2>1
  <2> QED  BY <1>11, <1>12, <1>13, <2>1 DEF Fail
<1>18. LoseConnection(i) => GoesOn(i)  BY <1>1 DEF LoseConnection, Goto, At, GoesOn
<1> QED  BY <1>16, <1>17, <1>18

\* Without its connection it writes no row and holds no lock.
LEMMA DriftKeeps ==
  ASSUME NEW i \in Instances, Drift(i)
  PROVE  UNCHANGED <<event, invite, writer, sync>>
BY DEF Drift, StraySend, StrayZoom, rows

LEMMA InitLocks == Init => Locks
BY NullAssumption DEF Init, Locks, NoWriter, NoSync

LEMMA LocksNext == Inv /\ Next => Locks'
<1> SUFFICES ASSUME Inv, Next PROVE Locks'  OBVIOUS
<1>1. /\ Locks /\ sync \in [Instances -> Sync] /\ writer \in [Writers -> Writer]
  BY DEF Inv, TypeOK
<1>2. NoSync.step = "idle" /\ NoSync.event = Null  BY DEF NoSync
<1>3. NoWriter.op = "idle" /\ NoWriter.event = Null  BY DEF NoWriter
<1>4. Null \notin Events  BY NullAssumption
<1>5. ASSUME NEW w \in Writers, NEW op \in {"create", "update", "cancel"}, NEW e \in Events,
             NEW s, Writing(w, op, e, s), EventFree(e)
      PROVE  Locks'
  <2> DEFINE new == [op |-> op, event |-> e, slot |-> s]
  <2>1. /\ sync' = sync /\ writer' = [writer EXCEPT ![w] = new]
        /\ \A v \in Writers : writer[v] = NoWriter
    BY <1>5 DEF Writing, HostFree
  <2>2. new.op # "idle" /\ new.event = e  OBVIOUS
  <2> HIDE DEF new
  <2>3. writer'[w] = new /\ \A v \in Writers \ {w} : writer'[v] = NoWriter  BY <1>1, <2>1
  <2>4. \A i \in Instances : sync[i].event # e  BY <1>5 DEF EventFree
  <2> QED  BY <1>1, <1>2, <1>3, <1>4, <2>1, <2>2, <2>3, <2>4 DEF Locks
<1>6. ASSUME NEW w \in Writers, writer' = [writer EXCEPT ![w] = NoWriter], sync' = sync
      PROVE  Locks'
  <2>1. writer'[w] = NoWriter /\ \A v \in Writers \ {w} : writer'[v] = writer[v]
    BY <1>1, <1>6
  <2> QED  BY <1>1, <1>2, <1>3, <1>4, <1>6, <2>1 DEF Locks
<1>7. ASSUME NEW w \in Writers, Write(w) PROVE Locks'
  <2>1. ASSUME NEW e \in Events, NEW s \in Slots, BeginCreate(w, e, s) \/ BeginUpdate(w, e, s)
        PROVE  Locks'
    BY <1>5, <2>1 DEF BeginCreate, BeginUpdate
  <2>2. ASSUME NEW e \in Events, BeginCancel(w, e) PROVE Locks'
    BY <1>5, <2>2 DEF BeginCancel
  <2>3. ASSUME FinishCreate(w) \/ FinishUpdate(w) \/ FinishCancel(w) \/ Abort(w) PROVE Locks'
    BY <1>6, <2>3 DEF FinishCreate, FinishUpdate, FinishCancel, Commit, Abort
  <2> QED  BY <1>7, <2>1, <2>2, <2>3 DEF Write
<1>8. ASSUME NEW i \in Instances, NEW e \in Events, StartSync(i, e) PROVE Locks'
  <2>1. /\ sync'[i].event = e /\ sync'[i].step # "idle"
        /\ \A j \in Instances \ {i} : sync'[j] = sync[j]
        /\ writer' = writer
    BY <1>1, <1>8 DEF StartSync, Goto, NoSync
  <2>2. EventFree(e)  BY <1>8 DEF StartSync
  <2> QED  BY <1>1, <1>2, <1>3, <1>4, <2>1, <2>2 DEF Locks, EventFree
<1>9. ASSUME NEW i \in Instances, Proceed(i) \/ Fail(i) \/ LoseConnection(i) PROVE Locks'
  <2>1. GoesOn(i)  BY <1>9, RunsGoOn
  <2>2. \A j \in Instances : sync'[j] = sync[j] \/ (j = i /\ sync'[i] = NoSync)
                            \/ (j = i /\ sync'[i].step # "idle" /\ sync'[i].event = sync[i].event)
    BY <2>1 DEF GoesOn
  <2>3. sync[i].event \in Events /\ writer' = writer  BY <1>1, <2>1 DEF Locks, GoesOn
  <2> QED  BY <1>1, <1>2, <1>3, <1>4, <2>2, <2>3 DEF Locks
<1>10. ASSUME Change \/ \E i \in Instances : Drift(i) PROVE Locks'
  <2>1. sync' = sync /\ writer' = writer
    BY <1>10, DriftKeeps DEF Change, Withdraw, Reassign, Tick
  <2> QED  BY <1>1, <2>1 DEF Locks
<1> QED  BY <1>7, <1>8, <1>9, <1>10 DEF Next, Synchronize

-----------------------------------------------------------------------------
(* The schedule of the Zoom host.                                           *)

SameSchedule(e) == /\ event'[e].status = event[e].status
                   /\ event'[e].slot = event[e].slot
                   /\ event'[e].revision = event[e].revision

LEMMA RunsKeepTheSchedule ==
  ASSUME NEW i \in Instances, Inv, Proceed(i) \/ Fail(i) \/ LoseConnection(i)
  PROVE  /\ writer' = writer
         /\ \A e \in Events : SameSchedule(e)
<1>1. event \in [Events -> Event]  BY DEF Inv, TypeOK
<1>2. event' = event => \A e \in Events : SameSchedule(e)  BY DEF SameSchedule
<1>3. ASSUME RecordZoom(i) PROVE \A e \in Events : SameSchedule(e)
  <2>1. \A e \in Events : event'[e] = event[e]
           \/ event'[e] = [event[e] EXCEPT !.zoom = sync[i].ent.revision]
    BY <1>1, <1>3 DEF RecordZoom
  <2> QED  BY <1>1, <2>1 DEF SameSchedule, Event
<1>4. ASSUME EndSync(i) PROVE \A e \in Events : SameSchedule(e)
  <2>1. \A e \in Events : event'[e] = event[e]
           \/ event'[e] = [event[e] EXCEPT !.error = sync[i].error]
    BY <1>1, <1>4 DEF EndSync
  <2> QED  BY <1>1, <2>1 DEF SameSchedule, Event
<1>5. Proceed(i) => event' = event \/ RecordZoom(i) \/ EndSync(i)
  BY DEF Proceed, SyncZoom, PlanParticipants, PlanHosts, Revise, StartDelivery, Send, Bring,
         Record, rows
<1>6. Fail(i) \/ LoseConnection(i) => event' = event
  BY DEF Fail, ZoomFails, NoHostAccount, Crash, SendFails, Quiet, Withhold, Bring,
         LoseConnection, rows
<1>7. writer' = writer  BY RunsGoOn DEF GoesOn
<1> QED  BY <1>2, <1>3, <1>4, <1>5, <1>6, <1>7

LEMMA InitSchedule == Init => Schedule
BY DEF Init, Schedule, WriterHolds, NoWriter, NoEvent, NoHostOverlap

\* Nothing new is scheduled: what was clear stays clear.
LEMMA ScheduleShrinks ==
  ASSUME Inv, \A w \in Writers : writer'[w] = writer[w] \/ writer'[w] = NoWriter,
         \A e \in Events : SameSchedule(e) \/ event'[e].status = "cancelled",
         \A e \in Events, w \in Writers : writer'[w].event = e => SameSchedule(e)
  PROVE  Schedule'
<1>1. Schedule /\ Locks  BY DEF Inv
<1>2. ASSUME NEW e \in Events, NEW s, Clear(e, s) PROVE Clear(e, s)'
  BY <1>2 DEF Clear, SameSchedule
<1>3. ASSUME NEW w \in Writers PROVE WriterHolds(writer[w])'
  <2>1. CASE writer'[w] = NoWriter  BY <2>1 DEF WriterHolds, NoWriter
  <2>2. CASE writer'[w] = writer[w] /\ writer[w].op # "idle"
    <3>1. writer[w].event \in Events /\ SameSchedule(writer[w].event)
      BY <1>1, <2>2 DEF Locks
    <3>2. WriterHolds(writer[w])  BY <1>1 DEF Schedule
    <3> QED  BY <1>2, <2>2, <3>1, <3>2 DEF WriterHolds, SameSchedule
  <2>3. CASE writer'[w] = writer[w] /\ writer[w].op = "idle"
    BY <2>3 DEF WriterHolds
  <2> QED  BY <2>1, <2>2, <2>3
<1>4. \A e \in Events : event'[e].status = "scheduled" =>
        event'[e].slot \in Slots /\ event'[e].revision < MaxRevision
  BY <1>1 DEF Schedule, SameSchedule
<1>5. NoHostOverlap'
  BY <1>1 DEF Schedule, NoHostOverlap, SameSchedule
<1> QED  BY <1>3, <1>4, <1>5 DEF Schedule

\* The one writer puts its event where it found room.
LEMMA ScheduleCommitted ==
  ASSUME Inv, NEW w \in Writers, NEW op \in {"create", "update"}, NEW ent, Commit(w, op, ent),
         ent.status = "scheduled", ent.slot = writer[w].slot, ent.revision < MaxRevision
  PROVE  Schedule'
<1>1. /\ Schedule /\ Locks /\ event \in [Events -> Event]
      /\ writer \in [Writers -> Writer]
  BY DEF Inv, TypeOK
<1> DEFINE e == writer[w].event
<1>2. writer[w].op = op /\ writer[w] # NoWriter /\ e \in Events
  BY <1>1 DEF Locks, Commit, NoWriter
<1>3. \A v \in Writers : writer'[v] = NoWriter
  <2>1. \A v \in Writers \ {w} : writer[v] = NoWriter  BY <1>1, <1>2 DEF Locks
  <2> QED  BY <1>1, <2>1 DEF Commit
<1>4. event'[e] = ent /\ \A f \in Events \ {e} : event'[f] = event[f]
  BY <1>1, <1>2 DEF Commit
<1>5. ent.slot \in Slots /\ Clear(e, ent.slot)
  BY <1>1, <1>2 DEF Schedule, WriterHolds
<1>6. \A f \in Events : event'[f].status = "scheduled" =>
        event'[f].slot \in Slots /\ event'[f].revision < MaxRevision
  BY <1>1, <1>4, <1>5 DEF Schedule
<1>7. NoHostOverlap'
  <2> SUFFICES ASSUME NEW f \in Events, NEW g \in Events, f # g,
                      event'[f].status = "scheduled", event'[g].status = "scheduled"
               PROVE  ~ Overlaps(event'[f].slot, event'[g].slot)
    BY DEF NoHostOverlap
  <2>1. CASE f = e
    BY <1>4, <1>5, <2>1 DEF Clear, Overlaps
  <2>2. CASE g = e
    BY <1>4, <1>5, <2>2 DEF Clear
  <2>3. CASE f # e /\ g # e
    BY <1>1, <1>4, <2>3 DEF Schedule, NoHostOverlap
  <2> QED  BY <2>1, <2>2, <2>3
<1>8. \A v \in Writers : WriterHolds(writer[v])'
  BY <1>3 DEF WriterHolds, NoWriter
<1> QED  BY <1>6, <1>7, <1>8 DEF Schedule

LEMMA ScheduleNext == Inv /\ Next => Schedule'
<1> SUFFICES ASSUME Inv, Next PROVE Schedule'  OBVIOUS
<1>1. /\ Schedule /\ Locks /\ writer \in [Writers -> Writer] /\ event \in [Events -> Event]
  BY DEF Inv, TypeOK
<1>2. ASSUME NEW w \in Writers, NEW op \in {"create", "update", "cancel"}, NEW e \in Events,
             NEW s, Writing(w, op, e, s), event[e].status \in {"absent", "scheduled"},
             op = "create" => event[e].status = "absent",
             op # "create" => event[e].status = "scheduled",
             op = "update" => event[e].revision < MaxRevision - 1,
             op # "cancel" => s \in Slots /\ Clear(e, s)
      PROVE  Schedule'
  <2> DEFINE new == [op |-> op, event |-> e, slot |-> s]
  <2>1. /\ writer' = [writer EXCEPT ![w] = new] /\ event' = event
    BY <1>2 DEF Writing, rows
  <2>2. WriterHolds(new)  BY <1>2 DEF WriterHolds
  <2>3. new.op = op /\ new.event = e /\ new.slot = s  OBVIOUS
  <2> HIDE DEF new
  <2>4. \A v \in Writers : WriterHolds(writer[v])'
    <3>1. \A v \in Writers : writer'[v] = new \/ writer'[v] = writer[v]  BY <1>1, <2>1
    <3> QED  BY <1>1, <2>1, <2>2, <3>1 DEF Schedule, WriterHolds, Clear
  <2>5. NoHostOverlap'  BY <1>1, <2>1 DEF Schedule, NoHostOverlap
  <2> QED  BY <1>1, <2>1, <2>4, <2>5 DEF Schedule
<1>3. ASSUME NEW w \in Writers, NEW e \in Events, NEW s \in Slots, BeginCreate(w, e, s)
      PROVE  Schedule'
  BY <1>2, <1>3 DEF BeginCreate
<1>4. ASSUME NEW w \in Writers, NEW e \in Events, NEW s \in Slots, BeginUpdate(w, e, s)
      PROVE  Schedule'
  BY <1>2, <1>4 DEF BeginUpdate
<1>5. ASSUME NEW w \in Writers, NEW e \in Events, BeginCancel(w, e)
      PROVE  Schedule'
  BY <1>2, <1>5 DEF BeginCancel
<1>6. ASSUME NEW w \in Writers, FinishCreate(w) PROVE Schedule'
  <2> DEFINE ent == [NoEvent EXCEPT !.status = "scheduled", !.slot = writer[w].slot,
                                    !.error = TRUE]
  <2>1. Commit(w, "create", ent)  BY <1>6 DEF FinishCreate
  <2>2. ent.status = "scheduled" /\ ent.slot = writer[w].slot /\ ent.revision < MaxRevision
    BY BoundAssumption DEF NoEvent
  <2> HIDE DEF ent
  <2> QED  BY <2>1, <2>2, ScheduleCommitted
<1>7. ASSUME NEW w \in Writers, FinishUpdate(w) PROVE Schedule'
  <2> DEFINE e == writer[w].event
             ent == [event[e] EXCEPT !.slot = writer[w].slot, !.revision = @ + 1]
  <2>1. Commit(w, "update", ent)  BY <1>7 DEF FinishUpdate
  <2>2. /\ e \in Events /\ event[e].status = "scheduled"
        /\ event[e].revision < MaxRevision - 1
    BY <1>1, <2>1 DEF Locks, Schedule, WriterHolds, Commit
  <2>3. event[e] \in Event  BY <1>1, <2>2
  <2>4. ent.status = "scheduled" /\ ent.slot = writer[w].slot /\ ent.revision < MaxRevision
    BY <2>2, <2>3, BoundAssumption DEF Event
  <2> HIDE DEF ent
  <2> QED  BY <2>1, <2>4, ScheduleCommitted
<1>8. ASSUME NEW w \in Writers, FinishCancel(w) PROVE Schedule'
  <2> DEFINE e == writer[w].event
             ent == [event[e] EXCEPT !.status = "cancelled", !.revision = @ + 1]
  <2>1. Commit(w, "cancel", ent)  BY <1>8 DEF FinishCancel
  <2>2. writer[w].op = "cancel" /\ e \in Events /\ writer[w] # NoWriter
    BY <1>1, <2>1 DEF Locks, Commit, NoWriter
  <2>3. event[e] \in Event  BY <1>1, <2>2
  <2>4. ent.status = "cancelled"  BY <2>3 DEF Event
  <2> HIDE DEF ent
  <2>5. event'[e] = ent /\ \A f \in Events \ {e} : event'[f] = event[f]
    BY <1>1, <2>1, <2>2 DEF Commit
  <2>6. \A v \in Writers : writer'[v] = NoWriter
    <3>1. \A v \in Writers \ {w} : writer[v] = NoWriter  BY <1>1, <2>2 DEF Locks
    <3> QED  BY <1>1, <2>1, <3>1 DEF Commit
  <2>7. \A f \in Events, v \in Writers : writer'[v].event # f
    BY <2>6, NullAssumption DEF NoWriter
  <2>8. \A f \in Events : SameSchedule(f) \/ event'[f].status = "cancelled"
    BY <2>4, <2>5 DEF SameSchedule
  <2> QED  BY <2>6, <2>7, <2>8, ScheduleShrinks
<1>9. ASSUME NEW w \in Writers, Abort(w) PROVE Schedule'
  <2>1. event' = event /\ \A v \in Writers : writer'[v] = writer[v] \/ writer'[v] = NoWriter
    BY <1>1, <1>9 DEF Abort, rows
  <2> QED  BY <2>1, ScheduleShrinks DEF SameSchedule
<1>10. ASSUME NEW i \in Instances, NEW e \in Events, StartSync(i, e) PROVE Schedule'
  <2> DEFINE ent == IF Gone(e) THEN [event[e] EXCEPT !.status = "cancelled", !.revision = @ + 1]
                    ELSE event[e]
  <2>1. event' = [event EXCEPT ![e] = ent] /\ writer' = writer /\ EventFree(e)
    BY <1>10 DEF StartSync
  <2>2. event[e] \in Event  BY <1>1
  <2>3. ent = event[e] \/ ent.status = "cancelled"  BY <2>2 DEF Event
  <2> HIDE DEF ent
  <2>4. \A f \in Events \ {e} : SameSchedule(f)  BY <1>1, <2>1 DEF SameSchedule
  <2>5. SameSchedule(e) \/ event'[e].status = "cancelled"
    BY <1>1, <2>1, <2>3 DEF SameSchedule
  <2>6. \A v \in Writers : writer'[v].event # e  BY <2>1 DEF EventFree
  <2> QED  BY <2>1, <2>4, <2>5, <2>6, ScheduleShrinks
<1>11. ASSUME NEW i \in Instances, Proceed(i) \/ Fail(i) \/ LoseConnection(i) PROVE Schedule'
  BY <1>11, RunsKeepTheSchedule, ScheduleShrinks
<1>12. ASSUME Change \/ \E i \in Instances : Drift(i) PROVE Schedule'
  <2>1. event' = event /\ writer' = writer
    BY <1>12, DriftKeeps DEF Change, Withdraw, Reassign, Tick, rows
  <2> QED  BY <2>1, ScheduleShrinks DEF SameSchedule
<1>13. ASSUME NEW w \in Writers, Write(w) PROVE Schedule'
  BY <1>3, <1>4, <1>5, <1>6, <1>7, <1>8, <1>9, <1>13 DEF Write
<1> QED  BY <1>10, <1>11, <1>12, <1>13 DEF Next, Synchronize

-----------------------------------------------------------------------------
(* What a run holds and what the channels show.                             *)

\* A step of one run leaves the rows of every other event alone.
OnlyItsEvent(i) == \A f \in Events : f # sync[i].event =>
                     invite'[f] = invite[f] /\ inbox'[f] = inbox[f]

LEMMA RunsWriteTheirEvent ==
  ASSUME NEW i \in Instances, Inv, Proceed(i) \/ Fail(i) \/ LoseConnection(i)
  PROVE  OnlyItsEvent(i)
<1>1. /\ invite \in [Events -> [Recipients -> Invitation]]
      /\ inbox \in [Events -> [Recipients -> [AllChannels -> Box]]]
  BY DEF Inv, TypeOK
<1>2. invite' = invite /\ inbox' = inbox => OnlyItsEvent(i)  BY DEF OnlyItsEvent
<1>3. ASSUME NEW r \in Recipients, Revise(i, r) PROVE OnlyItsEvent(i)
  <2>1. inbox' = inbox  BY <1>3 DEF Revise, outside
  <2>2. \A f \in Events : f # sync[i].event => invite'[f] = invite[f]
    BY <1>1, <1>3 DEF Revise
  <2> QED  BY <2>1, <2>2 DEF OnlyItsEvent
<1>4. ASSUME Record(i) PROVE OnlyItsEvent(i)
  <2>1. inbox' = inbox  BY <1>4 DEF Record, outside
  <2>2. \A f \in Events : f # sync[i].event => invite'[f] = invite[f]
    BY <1>1, <1>4 DEF Record
  <2> QED  BY <2>1, <2>2 DEF OnlyItsEvent
<1>5. ASSUME NEW r \in Recipients, NEW c \in AllChannels, Send(i, r, c) \/ Withhold(i, r, c)
      PROVE  OnlyItsEvent(i)
  <2>1. invite' = invite  BY <1>5 DEF Send, Withhold, Bring, rows
  <2>2. \A f \in Events : f # sync[i].event => inbox'[f] = inbox[f]
    BY <1>1, <1>5 DEF Send, Withhold, Bring
  <2> QED  BY <2>1, <2>2 DEF OnlyItsEvent
<1>6. Proceed(i) => \/ invite' = invite /\ inbox' = inbox
                    \/ \E r \in Recipients : Revise(i, r)
                    \/ Record(i)
                    \/ \E r \in Recipients, c \in AllChannels : Send(i, r, c)
  BY DEF Proceed, SyncZoom, RecordZoom, PlanParticipants, PlanHosts, StartDelivery, EndSync,
         rows, outside
<1>7. Fail(i) \/ LoseConnection(i) =>
        \/ invite' = invite /\ inbox' = inbox
        \/ \E r \in Recipients, c \in AllChannels : Withhold(i, r, c)
  BY DEF Fail, ZoomFails, NoHostAccount, Crash, SendFails, Quiet, LoseConnection, rows, outside
<1> QED  BY <1>2, <1>3, <1>4, <1>5, <1>6, <1>7

LEMMA OthersHold ==
  ASSUME Inv, NEW i \in Instances, OnlyItsEvent(i), sync[i].event \in Events,
         NEW j \in Instances, j # i, sync'[j] = sync[j]
  PROVE  SyncHolds(sync[j])'
<1>1. SyncHolds(sync[j]) /\ Locks  BY DEF Inv
<1>2. CASE sync[j].step = "idle"
  BY <1>2 DEF SyncHolds
<1>3. CASE sync[j].step # "idle"
  <2>1. sync[j].event \in Events /\ sync[j].event # sync[i].event
    BY <1>1, <1>3 DEF Locks
  <2>2. invite'[sync[j].event] = invite[sync[j].event] /\ inbox'[sync[j].event] = inbox[sync[j].event]
    BY <2>1 DEF OnlyItsEvent
  <2> QED  BY <1>1, <2>2 DEF SyncHolds
<1> QED  BY <1>2, <1>3

\* The numbers of rows and messages are numbers.
LEMMA Numbers ==
  ASSUME TypeOK, NEW e \in Events, NEW r \in Recipients
  PROVE  /\ invite[e][r].sequence \in Nat \cup {-1}
         /\ \A c \in AllChannels : /\ invite[e][r].sent[c] \in Nat \cup {-1}
                                   /\ inbox[e][r][c].newest.number \in Nat \cup {-1}
<1>1. invite[e][r] \in Invitation  BY DEF TypeOK
<1>2. \A c \in AllChannels : inbox[e][r][c] \in Box  BY DEF TypeOK
<1> QED  BY <1>1, <1>2 DEF Invitation, Box, Message, NoMessage

LEMMA OwnHold ==
  ASSUME Inv, NEW i \in Instances, Proceed(i) \/ Fail(i) \/ LoseConnection(i)
  PROVE  SyncHolds(sync[i])'
<1>1. /\ SyncHolds(sync[i]) /\ Locks /\ Shown /\ sync[i] \in Sync /\ sync \in [Instances -> Sync]
      /\ invite \in [Events -> [Recipients -> Invitation]]
      /\ inbox \in [Events -> [Recipients -> [AllChannels -> Box]]]
  BY DEF Inv, TypeOK
<1> DEFINE e == sync[i].event
<1>2. sync[i].step # "idle" /\ e \in Events  BY <1>1, RunsGoOn DEF GoesOn, Locks
<1>3. ASSUME sync'[i].step \in {"idle", "zoom", "zoomed", "plan"} PROVE SyncHolds(sync[i])'
  BY <1>3 DEF SyncHolds
<1>4. ASSUME SyncZoom(i) \/ RecordZoom(i) \/ ZoomFails(i) \/ EndSync(i) \/ Crash(i)
             \/ LoseConnection(i)
      PROVE  SyncHolds(sync[i])'
  <2> USE DEF Goto
  <2>1. SyncZoom(i) => sync'[i].step = "zoomed"  BY <1>1 DEF SyncZoom, Sync
  <2>2. RecordZoom(i) => sync'[i].step = "plan"  BY <1>1 DEF RecordZoom, Sync
  <2>3. ZoomFails(i) => sync'[i].step = "plan"  BY <1>1 DEF ZoomFails, Sync
  <2>4. EndSync(i) => sync'[i].step = "idle"  BY <1>1 DEF EndSync, NoSync
  <2>5. Crash(i) \/ LoseConnection(i) => sync'[i].step = "idle"
    BY <1>1 DEF Crash, LoseConnection, NoSync
  <2> QED  BY <1>3, <1>4, <2>1, <2>2, <2>3, <2>4, <2>5
<1>5. ASSUME PlanParticipants(i) \/ PlanHosts(i) PROVE SyncHolds(sync[i])'
  <2>1. invite' = invite /\ sync'[i].step = "revise" /\ sync'[i].list = invite[e]
        /\ sync'[i].event = e
    <3>1. ASSUME NEW group, Plan(i, group)
          PROVE  sync'[i].step = "revise" /\ sync'[i].list = invite[e] /\ sync'[i].event = e
      BY <1>1, <3>1 DEF Plan, Goto, Sync
    <3> QED  BY <1>5, <3>1 DEF PlanParticipants, PlanHosts, rows
  <2> QED  BY <2>1 DEF SyncHolds, Same
<1>6. ASSUME NoHostAccount(i) PROVE SyncHolds(sync[i])'
  <2>1. /\ invite' = invite /\ sync'[i].step = "deliver" /\ sync'[i].list = sync[i].list
        /\ sync'[i].event = e /\ sync'[i].todo = sync[i].todo /\ sync[i].step = "deliver"
    BY <1>1, <1>6 DEF NoHostAccount, Goto, Delivered, At, rows, Sync
  <2> QED  BY <1>1, <2>1 DEF SyncHolds
<1>7. ASSUME NEW r \in Recipients, Revise(i, r) PROVE SyncHolds(sync[i])'
  <2>0. invite' \in [Events -> [Recipients -> Invitation]]  BY <1>7, ReviseWrites
  <2>a. \A q \in Recipients : q # r => invite'[e][q] = invite[e][q]
    BY <1>2, <1>7, ReviseWrites
  <2>b. PICK row \in Invitation : RowRevised(i, r, row)  BY <1>7, ReviseWrites
  <2>1. /\ invite'[e][r] = row
        /\ sync' = [sync EXCEPT ![i].list[r] = row, ![i].todo = @ \ {<<r, Null>>}]
    BY <2>b DEF RowRevised
  <2>2. sync[i].step = "revise" /\ sync[i].list = invite[e]
    BY <1>1, <1>7 DEF Revise, At, SyncHolds
  <2>3. /\ sync'[i].step = "revise" /\ sync'[i].event = e
        /\ sync'[i].list = [sync[i].list EXCEPT ![r] = row]
    BY <1>1, <2>1, <2>2 DEF Sync
  <2>4. sync'[i].list = invite'[e]
    <3>1. invite[e] \in [Recipients -> Invitation] /\ invite'[e] \in [Recipients -> Invitation]
      BY <1>1, <1>2, <2>0
    <3>2. [invite[e] EXCEPT ![r] = row] = invite'[e]  BY <2>a, <2>1, <3>1
    <3> QED  BY <2>2, <2>3, <3>2
  <2> QED  BY <2>3, <2>4 DEF SyncHolds, Same
<1>8. ASSUME StartDelivery(i) PROVE SyncHolds(sync[i])'
  <2>1. /\ invite' = invite /\ sync'[i].step = "deliver" /\ sync'[i].list = sync[i].list
        /\ sync'[i].event = e /\ sync[i].step = "revise"
        /\ sync'[i].todo = {x \in sync[i].group \X AllChannels :
                   /\ x[2] \in ChannelsOf(x[1])
                   /\ sync[i].list[x[1]].sent[x[2]] < sync[i].list[x[1]].sequence}
    BY <1>1, <1>8 DEF StartDelivery, Goto, At, rows, Sync
  <2>2. sync[i].group \subseteq Recipients /\ sync[i].list \in [Recipients -> Invitation]
    BY <1>1 DEF Sync
  <2>3. \A x \in sync'[i].todo :
          x \in Recipients \X AllChannels /\ sync[i].list[x[1]].sequence >= 0
    <3> SUFFICES ASSUME NEW x \in sync'[i].todo
                 PROVE  x \in Recipients \X AllChannels /\ sync[i].list[x[1]].sequence >= 0
      OBVIOUS
    <3>1. x \in Recipients \X AllChannels /\ x[1] \in Recipients /\ x[2] \in AllChannels
      BY <2>1, <2>2
    <3>2. sync[i].list[x[1]] \in Invitation  BY <2>2, <3>1
    <3>3. sync[i].list[x[1]].sequence \in Nat \cup {-1}
          /\ sync[i].list[x[1]].sent[x[2]] \in Nat \cup {-1}
      BY <3>1, <3>2 DEF Invitation
    <3>4. sync[i].list[x[1]].sent[x[2]] < sync[i].list[x[1]].sequence  BY <2>1
    <3> QED  BY <3>1, <3>3, <3>4
  <2> QED  BY <1>1, <2>1, <2>3 DEF SyncHolds
<1>9. ASSUME NEW r \in Recipients, NEW c \in AllChannels, Send(i, r, c) \/ Withhold(i, r, c)
      PROVE  SyncHolds(sync[i])'
  <2>1. /\ invite' = invite /\ sync'[i].step = "sent" /\ sync'[i].list = sync[i].list
        /\ sync'[i].event = e /\ sync'[i].todo = sync[i].todo /\ sync'[i].at = <<r, c>>
        /\ sync[i].step = "deliver"
    <3>1. /\ invite' = invite /\ At(i, "deliver")
          /\ sync' = [sync EXCEPT ![i] = [sync[i] EXCEPT !.step = "sent", !.at = <<r, c>>]]
      BY <1>9 DEF Send, Withhold, Bring, Goto, rows
    <3> QED  BY <1>1, <3>1 DEF At, Sync
  <2> DEFINE row == sync[i].list[r]
  <2>2. /\ row.sequence >= 0 /\ row.sequence = invite[e][r].sequence
        /\ Says(row).number = invite[e][r].sequence
    BY <1>9, SendBrings DEF Same
  <2>3. Brings(e, r, c, Says(row))  BY <1>9, SendBrings
  <2>4. /\ inbox'[e][r][c].newest.number \in {Says(row).number, inbox[e][r][c].newest.number}
        /\ inbox'[e][r][c].newest.number >= Says(row).number
    BY <2>3 DEF Brings
  <2>5. inbox[e][r][c].newest.number <= invite[e][r].sequence  BY <1>1, <1>2 DEF Shown
  <2>6. inbox[e][r][c].newest.number \in Nat \cup {-1} /\ invite[e][r].sequence \in Nat \cup {-1}
    BY <1>2, Numbers DEF Inv
  <2> HIDE DEF row, e
  <2>7. inbox'[e][r][c].newest.number = row.sequence  BY <2>2, <2>4, <2>5, <2>6
  <2> QED  BY <1>1, <2>1, <2>2, <2>7 DEF SyncHolds, row, e
<1>10. ASSUME Record(i) PROVE SyncHolds(sync[i])'
  <2>1. /\ sync'[i].step = "deliver" /\ sync'[i].list = sync[i].list
        /\ sync'[i].event = e /\ sync'[i].todo \subseteq sync[i].todo
        /\ sync[i].step = "sent"
    BY <1>1, <1>10 DEF Record, Goto, At, Sync
  <2>2. \A q \in Recipients : Same(invite'[e][q], invite[e][q])
    <3>1. Same(invite'[e][sync[i].at[1]], invite[e][sync[i].at[1]])
      BY <1>10, RecordWrites
    <3>2. \A q \in Recipients : q # sync[i].at[1] => invite'[e][q] = invite[e][q]
      BY <1>2, <1>10, RecordWrites
    <3> QED  BY <3>1, <3>2 DEF Same
  <2>3. \A q \in Recipients : Same(sync[i].list[q], invite'[e][q])
    BY <1>1, <2>1, <2>2 DEF SyncHolds, Same
  <2>4. \A x \in sync[i].todo : x \in Recipients \X AllChannels /\ sync[i].list[x[1]].sequence >= 0
    BY <1>1, <2>1 DEF SyncHolds
  <2> QED  BY <2>1, <2>3, <2>4 DEF SyncHolds
<1>11. ASSUME NEW r \in Recipients, NEW c \in AllChannels, SendFails(i, r, c) \/ Quiet(i, r, c)
       PROVE  SyncHolds(sync[i])'
  <2>1. /\ invite' = invite /\ sync'[i].step = "deliver" /\ sync'[i].list = sync[i].list
        /\ sync'[i].event = e /\ sync'[i].todo \subseteq sync[i].todo
        /\ sync[i].step \in {"deliver", "sent"}
    <3>1. CASE SendFails(i, r, c)
      BY <1>1, <3>1 DEF SendFails, Goto, At, rows, Sync
    <3>2. CASE Quiet(i, r, c)
      BY <1>1, <3>2 DEF Quiet, Goto, At, rows, Sync
    <3> QED  BY <1>11, <3>1, <3>2
  <2> QED  BY <1>1, <2>1 DEF SyncHolds
<1> QED  BY <1>4, <1>5, <1>6, <1>7, <1>8, <1>9, <1>10, <1>11 DEF Proceed, Fail

LEMMA HoldNext == Inv /\ Next => \A i \in Instances : SyncHolds(sync[i])'
<1> SUFFICES ASSUME Inv, Next, NEW i \in Instances PROVE SyncHolds(sync[i])'  OBVIOUS
<1>1. /\ SyncHolds(sync[i]) /\ Locks /\ sync \in [Instances -> Sync]
  BY DEF Inv, TypeOK
<1>2. ASSUME sync'[i] = sync[i], invite' = invite, inbox' = inbox PROVE SyncHolds(sync[i])'
  BY <1>1, <1>2 DEF SyncHolds
<1>3. ASSUME NEW w \in Writers, Write(w) PROVE SyncHolds(sync[i])'
  <2>1. sync' = sync /\ invite' = invite /\ inbox' = inbox
    BY <1>3 DEF Write, BeginCreate, BeginUpdate, BeginCancel, FinishCreate, FinishUpdate,
                FinishCancel, Abort, Writing, Commit, rows, outside
  <2> QED  BY <1>2, <2>1
<1>4. ASSUME NEW j \in Instances, NEW e \in Events, StartSync(j, e) PROVE SyncHolds(sync[i])'
  <2>1. invite' = invite /\ inbox' = inbox  BY <1>4 DEF StartSync, outside
  <2>2. CASE i # j
    BY <1>1, <1>2, <1>4, <2>1, <2>2 DEF StartSync, Goto
  <2>3. CASE i = j
    <3>1. sync'[i].step \in {"zoom", "plan"}  BY <1>1, <1>4, <2>3 DEF StartSync, Goto, NoSync
    <3> QED  BY <3>1 DEF SyncHolds
  <2> QED  BY <2>2, <2>3
<1>5. ASSUME NEW j \in Instances, Proceed(j) \/ Fail(j) \/ LoseConnection(j)
      PROVE  SyncHolds(sync[i])'
  <2>1. CASE i = j  BY <1>5, <2>1, OwnHold
  <2>2. CASE i # j
    <3>1. sync'[i] = sync[i] /\ sync[j].event \in Events
      BY <1>1, <1>5, <2>2, RunsGoOn DEF GoesOn, Locks
    <3>2. OnlyItsEvent(j)  BY <1>5, RunsWriteTheirEvent
    <3> QED  BY <2>2, <3>1, <3>2, OthersHold
  <2> QED  BY <2>1, <2>2
<1>6. ASSUME Change PROVE SyncHolds(sync[i])'
  <2>1. sync' = sync /\ invite' = invite /\ inbox' = inbox
    BY <1>6 DEF Change, Withdraw, Reassign, Tick, rows, outside
  <2> QED  BY <1>2, <2>1
<1>7. ASSUME NEW j \in Instances, Drift(j) PROVE SyncHolds(sync[i])'
  <2>1. sync' = sync /\ invite' = invite  BY <1>7, DriftKeeps
  <2>2. inbox' = inbox => SyncHolds(sync[i])'  BY <1>2, <2>1
  <2>3. ASSUME NEW r \in Recipients, NEW c \in AllChannels, StraySend(j, r, c), inbox' # inbox
        PROVE  SyncHolds(sync[i])'
    <3> DEFINE e == adrift[j].event
               m == Says(adrift[j].list[r])
               s == sync[i]
               q == s.at[1]
               d == s.at[2]
    <3>1. e \in Events /\ m.number <= invite[e][r].sequence /\ Brings(e, r, c, m)
      BY <2>3, StrayBrings
    <3>2. ASSUME s.step = "sent"
          PROVE  inbox'[s.event][q][d].newest.number = s.list[q].sequence
      <4>1. /\ q \in Recipients /\ d \in AllChannels /\ s.event \in Events
            /\ inbox[s.event][q][d].newest.number = s.list[q].sequence
            /\ s.list[q].sequence = invite[s.event][q].sequence
        BY <1>1, <3>2 DEF SyncHolds, Same, Locks
      <4>2. CASE s.event = e /\ q = r /\ d = c
        <5>1. /\ inbox'[e][r][c].newest.number \in {m.number, inbox[e][r][c].newest.number}
              /\ inbox'[e][r][c].newest.number >= inbox[e][r][c].newest.number
          BY <3>1 DEF Brings
        <5>2. inbox[e][r][c].newest.number = invite[e][r].sequence  BY <4>1, <4>2
        <5>3. invite[e][r].sequence \in Nat \cup {-1}  BY <3>1, Numbers DEF Inv
        <5>4. m.number \in Int
          <6>1. adrift[j].list[r] \in Invitation  BY <2>3, StrayBrings
          <6> QED  BY <6>1 DEF Says, Invitation
        <5> HIDE DEF m, e
        <5>5. inbox'[e][r][c].newest.number = inbox[e][r][c].newest.number
          BY <3>1, <5>1, <5>2, <5>3, <5>4
        <5> QED  BY <4>1, <4>2, <5>5
      <4>3. CASE ~ (s.event = e /\ q = r /\ d = c)
        <5>1. inbox'[s.event][q][d] = inbox[s.event][q][d]
          BY <3>1, <4>1, <4>3 DEF Brings
        <5> QED  BY <4>1, <5>1
      <4> QED  BY <4>2, <4>3
    <3> QED  BY <1>1, <2>1, <3>2 DEF SyncHolds
  <2> QED  BY <1>7, <2>2, <2>3 DEF Drift, StrayZoom
<1> QED  BY <1>3, <1>4, <1>5, <1>6, <1>7 DEF Next, Synchronize

\* Of a step that changes a row or what a channel shows.
LEMMA OtherStepsKeepRows ==
  ASSUME Inv, Next
  PROVE  \/ invite' = invite /\ inbox' = inbox
         \/ \E i \in Instances, r \in Recipients : Revise(i, r)
         \/ \E i \in Instances, r \in Recipients, c \in AllChannels :
              Send(i, r, c) \/ Withhold(i, r, c) \/ StraySend(i, r, c)
         \/ \E i \in Instances : Record(i)
<1>1. ASSUME NEW w \in Writers, Write(w) PROVE invite' = invite /\ inbox' = inbox
  BY <1>1 DEF Write, BeginCreate, BeginUpdate, BeginCancel, FinishCreate, FinishUpdate,
              FinishCancel, Abort, Writing, Commit, rows, outside
<1>2. ASSUME NEW i \in Instances, NEW e \in Events, StartSync(i, e)
      PROVE  invite' = invite /\ inbox' = inbox
  BY <1>2 DEF StartSync, outside
<1>3. ASSUME NEW i \in Instances, Proceed(i)
      PROVE  \/ invite' = invite /\ inbox' = inbox
             \/ \E r \in Recipients : Revise(i, r)
             \/ \E r \in Recipients, c \in AllChannels : Send(i, r, c)
             \/ Record(i)
  BY <1>3 DEF Proceed, SyncZoom, RecordZoom, PlanParticipants, PlanHosts, StartDelivery, EndSync,
              rows, outside
<1>4. ASSUME NEW i \in Instances, Fail(i) \/ LoseConnection(i) \/ Drift(i)
      PROVE  \/ invite' = invite /\ inbox' = inbox
             \/ \E r \in Recipients, c \in AllChannels : Withhold(i, r, c) \/ StraySend(i, r, c)
  BY <1>4 DEF Fail, ZoomFails, NoHostAccount, Crash, SendFails, Quiet, LoseConnection, Drift,
              StrayZoom, rows, outside
<1>5. ASSUME Change PROVE invite' = invite /\ inbox' = inbox
  BY <1>5 DEF Change, Withdraw, Reassign, Tick, rows, outside
<1> QED  BY <1>1, <1>2, <1>3, <1>4, <1>5 DEF Next, Synchronize

\* The numbers of an invitation only grow.
LEMMA SequencesGrow ==
  ASSUME Inv, Next, NEW e \in Events, NEW r \in Recipients
  PROVE  invite'[e][r].sequence \in {invite[e][r].sequence, invite[e][r].sequence + 1}
<1>1. ASSUME NEW i \in Instances, NEW q \in Recipients, Revise(i, q)
      PROVE  invite'[e][r].sequence \in {invite[e][r].sequence, invite[e][r].sequence + 1}
  <2>1. PICK row \in Invitation : RowRevised(i, q, row)  BY <1>1, ReviseWrites
  <2>2. e # sync[i].event \/ r # q => invite'[e][r] = invite[e][r]
    BY <1>1, ReviseWrites
  <2> QED  BY <2>1, <2>2 DEF RowRevised
<1>2. ASSUME NEW i \in Instances, Record(i)
      PROVE  invite'[e][r].sequence = invite[e][r].sequence
  <2>1. e # sync[i].event \/ r # sync[i].at[1] => invite'[e][r] = invite[e][r]
    BY <1>2, RecordWrites
  <2>2. Same(invite'[sync[i].event][sync[i].at[1]], invite[sync[i].event][sync[i].at[1]])
    BY <1>2, RecordWrites
  <2> QED  BY <2>1, <2>2 DEF Same
<1>3. ASSUME NEW i \in Instances, NEW q \in Recipients, NEW c \in AllChannels,
             Send(i, q, c) \/ Withhold(i, q, c) \/ StraySend(i, q, c)
      PROVE  invite' = invite
  BY <1>3 DEF Send, Withhold, StraySend, Bring, rows
<1> QED  BY <1>1, <1>2, <1>3, OtherStepsKeepRows

LEMMA OthersKeepAdrift ==
  ASSUME Next
  PROVE  adrift' = adrift \/ \E i \in Instances : LoseConnection(i) \/ Drift(i)
<1>1. ASSUME NEW w \in Writers, Write(w) PROVE adrift' = adrift
  BY <1>1 DEF Write, BeginCreate, BeginUpdate, BeginCancel, FinishCreate, FinishUpdate,
              FinishCancel, Abort, Writing, Commit
<1>2. ASSUME NEW i \in Instances, Proceed(i) \/ Fail(i) \/ \E e \in Events : StartSync(i, e)
      PROVE  adrift' = adrift
  BY <1>2 DEF Proceed, Fail, StartSync, SyncZoom, RecordZoom, PlanParticipants, PlanHosts, Revise,
              StartDelivery, Send, Withhold, Bring, Record, EndSync, ZoomFails, NoHostAccount,
              Crash, SendFails, Quiet
<1>3. Change => adrift' = adrift  BY DEF Change, Withdraw, Reassign, Tick
<1> QED  BY <1>1, <1>2, <1>3 DEF Next, Synchronize

\* What a run is left with when its connection is lost.
LEMMA LosesConnection ==
  ASSUME Inv, NEW i \in Instances, LoseConnection(i)
  PROVE  /\ UNCHANGED <<invite, inbox>>
         /\ \A j \in Instances \ {i} : adrift'[j] = adrift[j]
         /\ \/ adrift'[i].step = "zoom" /\ adrift'[i].todo = {}
            \/ /\ sync[i].step \in {"deliver", "sent"}
               /\ adrift'[i].event = sync[i].event /\ sync[i].event \in Events
               /\ adrift'[i].todo \subseteq sync[i].todo
               /\ \A x \in adrift'[i].todo :
                    /\ x \in Recipients \X AllChannels
                    /\ adrift'[i].list[x[1]] = sync[i].list[x[1]]
                    /\ sync[i].list[x[1]].sequence >= 0
                    /\ Same(sync[i].list[x[1]], invite[sync[i].event][x[1]])
<1>1. /\ adrift \in [Instances -> Sync] /\ sync[i] \in Sync /\ SyncHolds(sync[i]) /\ Locks
  BY DEF Inv, TypeOK
<1> DEFINE left == sync[i].todo \ {sync[i].at}
           list == [r \in Recipients |-> IF \E c \in AllChannels : <<r, c>> \in left
                                         THEN sync[i].list[r] ELSE NoInvitation]
           zoom == [NoSync EXCEPT !.step = "zoom", !.event = sync[i].event, !.ent = sync[i].ent]
           send == [NoSync EXCEPT !.step = "deliver", !.event = sync[i].event, !.todo = left,
                                  !.list = list]
<1>2. adrift' = [adrift EXCEPT ![i] = IF At(i, "zoom") THEN zoom ELSE send]
  BY DEF LoseConnection
<1>3. zoom.step = "zoom" /\ zoom.todo = {}  BY DEF NoSync
<1>4. send.event = sync[i].event /\ send.todo = left /\ send.list = list  BY DEF NoSync
<1>5. adrift'[i] = IF At(i, "zoom") THEN zoom ELSE send  BY <1>1, <1>2, Zenon
<1>6. \A j \in Instances \ {i} : adrift'[j] = adrift[j]  BY <1>1, <1>2, Zenon
<1>7. CASE At(i, "zoom")
  <2>1. adrift'[i].step = "zoom" /\ adrift'[i].todo = {}  BY <1>3, <1>5, <1>7
  <2> QED  BY <1>6, <2>1 DEF LoseConnection, rows, outside
<1>8. CASE ~ At(i, "zoom")
  <2>1. sync[i].step \in {"deliver", "sent"} /\ UNCHANGED <<invite, inbox>>
    BY <1>8 DEF LoseConnection, At, rows, outside
  <2>2. sync[i].event \in Events  BY <1>1, <2>1 DEF Locks
  <2>3. adrift'[i].event = sync[i].event /\ adrift'[i].todo = left /\ adrift'[i].list = list
    BY <1>4, <1>5, <1>8
  <2>4. ASSUME NEW x \in left
        PROVE  /\ x \in Recipients \X AllChannels /\ list[x[1]] = sync[i].list[x[1]]
               /\ sync[i].list[x[1]].sequence >= 0
               /\ Same(sync[i].list[x[1]], invite[sync[i].event][x[1]])
    <3>1. x \in Recipients \X AllChannels /\ sync[i].list[x[1]].sequence >= 0
      BY <1>1, <2>1 DEF SyncHolds
    <3>2. x[1] \in Recipients /\ x[2] \in AllChannels /\ x = <<x[1], x[2]>>  BY <3>1
    <3>3. \E c \in AllChannels : <<x[1], c>> \in left  BY <3>2
    <3>4. Same(sync[i].list[x[1]], invite[sync[i].event][x[1]])
      BY <1>1, <2>1, <3>2 DEF SyncHolds
    <3> QED  BY <3>1, <3>2, <3>3, <3>4
  <2> HIDE DEF list, left
  <2> QED  BY <1>6, <2>1, <2>2, <2>3, <2>4 DEF left
<1> QED  BY <1>7, <1>8

\* What one without a connection is left with.
LEMMA Drifts ==
  ASSUME TypeOK, NEW i \in Instances, Drift(i)
  PROVE  /\ \A j \in Instances \ {i} : adrift'[j] = adrift[j]
         /\ \/ adrift'[i] = NoSync
            \/ /\ adrift'[i].step = adrift[i].step /\ adrift'[i].event = adrift[i].event
               /\ adrift'[i].list = adrift[i].list
               /\ adrift'[i].todo \subseteq adrift[i].todo
<1>1. adrift \in [Instances -> Sync] /\ adrift[i] \in Sync  BY DEF TypeOK
<1>2. ASSUME NEW r \in Recipients, NEW c \in AllChannels, StraySend(i, r, c)
      PROVE  \/ adrift' = [adrift EXCEPT ![i] = NoSync]
             \/ adrift' = [adrift EXCEPT ![i] = [adrift[i] EXCEPT
                                                  !.todo = adrift[i].todo \ {<<r, c>>}]]
  BY <1>2 DEF StraySend
<1>3. StrayZoom(i) => adrift' = [adrift EXCEPT ![i] = NoSync]  BY DEF StrayZoom
<1>4. ASSUME NEW r \in Recipients, NEW c \in AllChannels,
             adrift' = [adrift EXCEPT ![i] = [adrift[i] EXCEPT
                                                  !.todo = adrift[i].todo \ {<<r, c>>}]]
      PROVE  /\ \A j \in Instances \ {i} : adrift'[j] = adrift[j]
             /\ adrift'[i].step = adrift[i].step /\ adrift'[i].event = adrift[i].event
             /\ adrift'[i].list = adrift[i].list /\ adrift'[i].todo \subseteq adrift[i].todo
  BY <1>1, <1>4 DEF Sync
<1>5. ASSUME adrift' = [adrift EXCEPT ![i] = NoSync]
      PROVE  adrift'[i] = NoSync /\ \A j \in Instances \ {i} : adrift'[j] = adrift[j]
  BY <1>1, <1>5
<1> QED  BY <1>2, <1>3, <1>4, <1>5 DEF Drift

LEMMA AdriftNext == Inv /\ Next => \A i \in Instances : AdriftHolds(adrift[i])'
<1> SUFFICES ASSUME Inv, Next, NEW i \in Instances PROVE AdriftHolds(adrift[i])'  OBVIOUS
<1>1. TypeOK /\ AdriftHolds(adrift[i])  BY DEF Inv
<1>2. ASSUME NEW e \in Events, NEW r \in Recipients, NEW n \in Int, n <= invite[e][r].sequence
      PROVE  n <= invite'[e][r].sequence
  <2>1. invite[e][r].sequence \in Nat \cup {-1}  BY <1>1, Numbers
  <2>2. invite'[e][r].sequence \in {invite[e][r].sequence, invite[e][r].sequence + 1}
    BY SequencesGrow
  <2> QED  BY <1>2, <2>1, <2>2
<1>3. \A r \in Recipients : adrift[i].list[r].sequence \in Int
  BY <1>1 DEF TypeOK, Sync, Invitation
<1>4. ASSUME adrift'[i].step = adrift[i].step, adrift'[i].event = adrift[i].event,
             adrift'[i].list = adrift[i].list, adrift'[i].todo \subseteq adrift[i].todo
      PROVE  AdriftHolds(adrift[i])'
  BY <1>1, <1>2, <1>3, <1>4 DEF AdriftHolds
<1>5. adrift'[i] = adrift[i] => AdriftHolds(adrift[i])'  BY <1>4
<1>6. adrift'[i] = NoSync => AdriftHolds(adrift[i])'  BY DEF AdriftHolds, NoSync
<1>7. ASSUME NEW j \in Instances, Drift(j) PROVE AdriftHolds(adrift[i])'
  BY <1>1, <1>4, <1>5, <1>6, <1>7, Drifts
<1>8. ASSUME NEW j \in Instances, LoseConnection(j) PROVE AdriftHolds(adrift[i])'
  <2>1. i # j => AdriftHolds(adrift[i])'  BY <1>5, <1>8, LosesConnection
  <2>2. CASE i = j /\ adrift'[i].step = "deliver"
    <3>1. /\ UNCHANGED <<invite, inbox>> /\ adrift'[i].event \in Events
          /\ \A x \in adrift'[i].todo :
               /\ x \in Recipients \X AllChannels
               /\ adrift'[i].list[x[1]] = sync[i].list[x[1]]
               /\ sync[i].list[x[1]].sequence >= 0
               /\ Same(sync[i].list[x[1]], invite[adrift'[i].event][x[1]])
      BY <1>8, <2>2, LosesConnection
    <3>2. \A x \in adrift'[i].todo :
            /\ adrift'[i].list[x[1]].sequence = invite'[adrift'[i].event][x[1]].sequence
            /\ adrift'[i].list[x[1]].sequence \in Int
      <4>1. \A r \in Recipients : sync[i].list[r].sequence \in Int
        BY <1>1 DEF TypeOK, Sync, Invitation
      <4> QED  BY <3>1, <4>1 DEF Same
    <3> QED  BY <3>1, <3>2 DEF AdriftHolds
  <2>3. adrift'[i].step # "deliver" => AdriftHolds(adrift[i])'  BY DEF AdriftHolds
  <2> QED  BY <2>1, <2>2, <2>3
<1> QED  BY <1>5, <1>7, <1>8, OthersKeepAdrift

LEMMA InitShown == Init => Shown
<1> SUFFICES ASSUME Init PROVE Shown  OBVIOUS
<1>1. \A e \in Events, r \in Recipients : invite[e][r] = NoInvitation  BY DEF Init
<1>2. \A e \in Events, r \in Recipients, c \in AllChannels : inbox[e][r][c].newest = NoMessage
  BY DEF Init, EmptyBox
<1>3. NoMessage.number = -1 /\ NoInvitation.sequence = -1
      /\ \A c \in AllChannels : NoInvitation.sent[c] = -1
  BY DEF NoMessage, NoInvitation
<1> QED  BY <1>1, <1>2, <1>3 DEF Shown, RecordedMeansShown

LEMMA ShownNext == Inv /\ Next => Shown'
<1> SUFFICES ASSUME Inv, Next PROVE Shown'  OBVIOUS
<1>1. /\ Shown /\ Locks /\ TypeOK /\ sync \in [Instances -> Sync]
      /\ invite \in [Events -> [Recipients -> Invitation]]
      /\ inbox \in [Events -> [Recipients -> [AllChannels -> Box]]]
  BY DEF Inv, TypeOK
<1>2. ASSUME invite' = invite, inbox' = inbox PROVE Shown'
  BY <1>1, <1>2 DEF Shown, RecordedMeansShown
<1> DEFINE OK(e, r) ==
      /\ invite'[e][r].sequence = -1 => invite'[e][r] = NoInvitation
      /\ \A c \in AllChannels : /\ inbox'[e][r][c].newest.number <= invite'[e][r].sequence
                                /\ invite'[e][r].sent[c] <= inbox'[e][r][c].newest.number
<1>a. (\A e \in Events, r \in Recipients : OK(e, r)) => Shown'
  BY DEF Shown, RecordedMeansShown
<1>b. \A e \in Events, r \in Recipients :
        invite'[e][r] = invite[e][r] /\ inbox'[e][r] = inbox[e][r] => OK(e, r)
  BY <1>1 DEF Shown, RecordedMeansShown
<1> HIDE DEF OK
<1>3. ASSUME NEW i \in Instances, NEW r \in Recipients, Revise(i, r) PROVE Shown'
  <2> DEFINE e == sync[i].event
  <2>0. e \in Events  BY <1>3, ReviseWrites
  <2>1. \A f \in Events, q \in Recipients : f # e \/ q # r => invite'[f][q] = invite[f][q]
    BY <1>3, ReviseWrites
  <2>2. PICK row \in Invitation : RowRevised(i, r, row)  BY <1>3, ReviseWrites
  <2>3. inbox' = inbox  BY <1>3 DEF Revise, outside
  <2>4. /\ invite'[e][r] = row /\ row.sent = invite[e][r].sent
        /\ row.sequence = -1 => row = NoInvitation
        /\ row.sequence = invite[e][r].sequence \/ row.sequence = invite[e][r].sequence + 1
    BY <2>2 DEF RowRevised
  <2>5. OK(e, r)
    <3>1. /\ invite[e][r].sequence \in Nat \cup {-1}
          /\ \A c \in AllChannels : /\ invite[e][r].sent[c] \in Nat \cup {-1}
                                    /\ inbox[e][r][c].newest.number \in Nat \cup {-1}
      BY <1>1, <2>0, Numbers
    <3>2. ASSUME NEW c \in AllChannels
          PROVE  inbox[e][r][c].newest.number <= row.sequence /\ row.sent[c] <= inbox[e][r][c].newest.number
      <4>1. inbox[e][r][c].newest.number <= invite[e][r].sequence /\ invite[e][r].sent[c] <= inbox[e][r][c].newest.number
        BY <1>1, <2>0 DEF Shown, RecordedMeansShown
      <4> HIDE DEF e
      <4>2. row.sent[c] = invite[e][r].sent[c]  BY <2>4
      <4>3. CASE row.sequence = invite[e][r].sequence  BY <4>1, <4>2, <4>3
      <4>4. CASE row.sequence = invite[e][r].sequence + 1  BY <3>1, <4>1, <4>2, <4>4
      <4> QED  BY <2>4, <4>3, <4>4
    <3> QED  BY <2>3, <2>4, <3>2 DEF OK
  <2>6. \A f \in Events, q \in Recipients : f # e \/ q # r => OK(f, q)
    BY <1>b, <2>1, <2>3
  <2> QED  BY <1>a, <2>5, <2>6
<1>4. ASSUME NEW e \in Events, NEW r \in Recipients, NEW c \in AllChannels, NEW m \in Message,
             Brings(e, r, c, m), m.number <= invite[e][r].sequence, invite' = invite
      PROVE  Shown'
  <2>1. OK(e, r)
    <3>1. /\ invite[e][r].sequence \in Nat \cup {-1}
          /\ \A d \in AllChannels : /\ invite[e][r].sent[d] \in Nat \cup {-1}
                                    /\ inbox[e][r][d].newest.number \in Nat \cup {-1}
      BY <1>1, Numbers
    <3>2. ASSUME NEW d \in AllChannels
          PROVE  inbox'[e][r][d].newest.number <= invite[e][r].sequence
                 /\ invite[e][r].sent[d] <= inbox'[e][r][d].newest.number
      <4>1. inbox[e][r][d].newest.number <= invite[e][r].sequence
            /\ invite[e][r].sent[d] <= inbox[e][r][d].newest.number
        BY <1>1 DEF Shown, RecordedMeansShown
      <4>2. CASE d = c
        <5>1. /\ inbox'[e][r][d].newest.number \in {m.number, inbox[e][r][d].newest.number}
              /\ inbox'[e][r][d].newest.number >= inbox[e][r][d].newest.number
          BY <1>4, <4>2 DEF Brings
        <5>2. m.number \in Nat  BY DEF Message
        <5> QED  BY <1>4, <3>1, <4>1, <5>1, <5>2
      <4>3. CASE d # c
        <5>1. inbox'[e][r][d] = inbox[e][r][d]  BY <1>4, <4>3 DEF Brings
        <5> QED  BY <4>1, <5>1
      <4> QED  BY <4>2, <4>3
    <3> QED  BY <1>1, <1>4, <3>2 DEF OK, Shown
  <2>2. \A f \in Events, q \in Recipients : f # e \/ q # r => OK(f, q)
    BY <1>b, <1>4 DEF Brings
  <2> QED  BY <1>a, <2>1, <2>2
<1>6. ASSUME NEW i \in Instances, NEW r \in Recipients, NEW c \in AllChannels,
             Send(i, r, c) \/ Withhold(i, r, c)
      PROVE  Shown'
  <2> DEFINE e == sync[i].event
             m == Says(sync[i].list[r])
  <2>1. /\ e \in Events /\ sync[i].list[r] \in Invitation /\ sync[i].list[r].sequence >= 0
        /\ m.number = invite[e][r].sequence /\ Brings(e, r, c, m)
    BY <1>6, SendBrings
  <2>2. m \in Message  BY <2>1, SaysMessage
  <2>3. m.number <= invite[e][r].sequence
    <3>1. invite[e][r].sequence \in Nat \cup {-1}  BY <1>1, <2>1, Numbers
    <3> HIDE DEF m, e
    <3> QED  BY <2>1, <3>1
  <2>4. invite' = invite  BY <1>6 DEF Send, Withhold, Bring, rows
  <2> QED  BY <1>4, <2>1, <2>2, <2>3, <2>4
<1>7. ASSUME NEW i \in Instances, NEW r \in Recipients, NEW c \in AllChannels, StraySend(i, r, c)
      PROVE  Shown'
  <2> DEFINE e == adrift[i].event
             m == Says(adrift[i].list[r])
  <2>1. /\ e \in Events /\ adrift[i].list[r] \in Invitation /\ m.number <= invite[e][r].sequence
        /\ inbox' = inbox \/ Brings(e, r, c, m)
    BY <1>7, StrayBrings
  <2>2. m \in Message
    <3>1. adrift[i].list[r].sequence >= 0  BY <1>7 DEF Inv, AdriftHolds, StraySend
    <3> QED  BY <2>1, <3>1, SaysMessage
  <2>3. invite' = invite  BY <1>7 DEF StraySend, rows
  <2> QED  BY <1>2, <1>4, <2>1, <2>2, <2>3
<1>5. ASSUME NEW i \in Instances, Record(i) PROVE Shown'
  <2> DEFINE e == sync[i].event
             r == sync[i].at[1]
             c == sync[i].at[2]
  <2>1. e \in Events /\ r \in Recipients /\ c \in AllChannels  BY <1>5, RecordWrites
  <2>2. Same(invite'[e][r], invite[e][r])  BY <1>5, RecordWrites
  <2>3. invite'[e][r].sent[c] = sync[i].list[r].sequence  BY <1>5, RecordWrites
  <2>4. \A d \in AllChannels \ {c} : invite'[e][r].sent[d] = invite[e][r].sent[d]
    BY <1>5, RecordWrites
  <2>5. \A f \in Events, q \in Recipients : f # e \/ q # r => invite'[f][q] = invite[f][q]
    BY <1>5, RecordWrites
  <2>6. inbox' = inbox  BY <1>5 DEF Record, outside
  <2>7. SyncHolds(sync[i]) /\ sync[i].step = "sent"  BY <1>5 DEF Record, At, Inv
  <2>8. inbox[e][r][c].newest.number = sync[i].list[r].sequence /\ sync[i].list[r].sequence >= 0
        /\ sync[i].list[r].sequence = invite[e][r].sequence
    BY <2>1, <2>7 DEF SyncHolds, Same
  <2> HIDE DEF e, r, c
  <2>9. OK(e, r)
    <3>1. /\ invite[e][r].sequence \in Nat \cup {-1}
          /\ \A d \in AllChannels : /\ invite[e][r].sent[d] \in Nat \cup {-1}
                                    /\ inbox[e][r][d].newest.number \in Nat \cup {-1}
      BY <1>1, <2>1, Numbers
    <3>2. invite'[e][r].sequence = invite[e][r].sequence /\ invite[e][r].sequence # -1
      BY <2>2, <2>8 DEF Same
    <3>3. ASSUME NEW d \in AllChannels
          PROVE  inbox'[e][r][d].newest.number <= invite'[e][r].sequence
                 /\ invite'[e][r].sent[d] <= inbox'[e][r][d].newest.number
      <4>1. inbox[e][r][d].newest.number <= invite[e][r].sequence /\ invite[e][r].sent[d] <= inbox[e][r][d].newest.number
        BY <1>1, <2>1 DEF Shown, RecordedMeansShown
      <4>2. CASE d = c  BY <2>3, <2>6, <2>8, <3>1, <3>2, <4>1, <4>2
      <4>3. CASE d # c  BY <2>4, <2>6, <3>2, <4>1, <4>3
      <4> QED  BY <4>2, <4>3
    <3> QED  BY <3>2, <3>3 DEF OK
  <2>10. \A f \in Events, q \in Recipients : f # e \/ q # r => OK(f, q)
    BY <1>b, <2>5, <2>6
  <2> QED  BY <1>a, <2>1, <2>9, <2>10
<1> QED  BY <1>2, <1>3, <1>5, <1>6, <1>7, OtherStepsKeepRows

LEMMA InitInv == Init => Inv
<1> SUFFICES ASSUME Init PROVE Inv  OBVIOUS
<1>1. ASSUME NEW i \in Instances PROVE SyncHolds(sync[i]) /\ AdriftHolds(adrift[i])
  BY <1>1 DEF Init, SyncHolds, AdriftHolds, NoSync
<1> QED  BY <1>1, InitTypes, InitLocks, InitSchedule, InitShown DEF Inv

LEMMA InvNext == Inv /\ [Next]_vars => Inv'
<1> SUFFICES ASSUME Inv, [Next]_vars PROVE Inv'  OBVIOUS
<1>1. CASE Next
  BY <1>1, TypesNext, LocksNext, ScheduleNext, HoldNext, AdriftNext, ShownNext DEF Inv
<1>2. CASE UNCHANGED vars
  <2>1. UNCHANGED <<event, invite, meeting, inbox, invited, withdrawn, writer, sync, adrift,
                 now, changes>>
    BY <1>2 DEF vars, rows, outside, world
  <2>2. TypeOK'  BY <2>1 DEF Inv, TypeOK
  <2>3. Locks'  BY <2>1 DEF Inv, Locks
  <2>4. Schedule'  BY <2>1 DEF Inv, Schedule, WriterHolds, Clear, NoHostOverlap
  <2>5. \A i \in Instances : SyncHolds(sync[i])' /\ AdriftHolds(adrift[i])'
    BY <2>1 DEF Inv, SyncHolds, AdriftHolds
  <2>6. Shown'  BY <2>1 DEF Inv, Shown, RecordedMeansShown
  <2> QED  BY <2>2, <2>3, <2>4, <2>5, <2>6 DEF Inv
<1> QED  BY <1>1, <1>2

THEOREM AlwaysInv == Spec => []Inv
BY InitInv, InvNext, PTL DEF Spec

\* Every row, message and run holds values of its type.
THEOREM TypesHold == Spec => []TypeOK
<1>1. Inv => TypeOK  BY DEF Inv
<1> QED  BY <1>1, AlwaysInv, PTL

\* Two scheduled events never occupy the shared Zoom host at the same time, for
\* any slots, length and number of requests in flight.
THEOREM NeverOverlap == Spec => []NoHostOverlap
<1>1. Inv => NoHostOverlap  BY DEF Inv, Schedule
<1> QED  BY <1>1, AlwaysInv, PTL

\* What is recorded as delivered has been shown, whatever crashes and fails.
THEOREM RecordedWasShown == Spec => []RecordedMeansShown
<1>1. Inv => RecordedMeansShown  BY DEF Inv, Shown
<1> QED  BY <1>1, AlwaysInv, PTL

-----------------------------------------------------------------------------
(* The refinement: what the delivery promises.                             *)

Items == Events \X Recipients
Version(row) == IF row = NoInvitation THEN NoMessage ELSE Says(row)
Versions == [x \in Items |-> Version(invite[x[1]][x[2]])]
Showing == [x \in Items |-> [c \in AllChannels |-> inbox[x[1]][x[2]][c].last]]
Late == [x \in Items |-> {Says(adrift[i].list[x[2]]) : i \in Strays(x[1], x[2])}]

LEMMA DeliveryInit == Init => Delivery!Init
<1> SUFFICES ASSUME Init PROVE Delivery!Init  OBVIOUS
<1>1. \A x \in Items : Strays(x[1], x[2]) = {}
  BY NullAssumption DEF Init, Items, Strays, NoSync
<1>2. \A x \in Items : /\ invite[x[1]][x[2]] = NoInvitation
                      /\ \A c \in AllChannels : inbox[x[1]][x[2]][c].last = NoMessage
  BY DEF Init, Items, EmptyBox
<1> QED  BY <1>1, <1>2 DEF Delivery!Init, Delivery!None, NoMessage, Items

\* A row whose number is unchanged says what it said.
LEMMA SameVersion ==
  ASSUME NEW old \in Invitation, NEW row \in Invitation, Same(row, old),
         row.sequence = -1 => row = NoInvitation, old.sequence = -1 => old = NoInvitation
  PROVE  Version(row) = Version(old)
<1>1. NoInvitation.sequence = -1  BY DEF NoInvitation
<1> QED  BY <1>1 DEF Same, Version, Says

LEMMA SaysContents ==
  ASSUME NEW row \in Invitation PROVE Says(row).says \in Contents
BY DEF Says, Contents, Invitation

\* What a run without its connection may still bring was late before, or is current
\* when the connection is lost.
LEMMA LateShrinks ==
  ASSUME Inv, NEW i \in Instances, Drift(i), NEW x \in Items
  PROVE  Late'[x] \subseteq Late[x]
<1> SUFFICES ASSUME NEW v \in Late'[x] PROVE v \in Late[x]  OBVIOUS
<1>1. x[1] \in Events /\ x[2] \in Recipients  BY DEF Items
<1>2. PICK j \in Strays(x[1], x[2])' : v = Says(adrift'[j].list[x[2]])  BY DEF Late
<1>3. PICK c \in AllChannels : <<x[2], c>> \in adrift'[j].todo  BY <1>2 DEF Strays
<1>4. j \in Instances /\ adrift'[j].event = x[1]  BY <1>2 DEF Strays
<1>5. adrift'[j] # NoSync  BY <1>3 DEF NoSync
<1>6. /\ adrift[j].event = x[1] /\ <<x[2], c>> \in adrift[j].todo
      /\ adrift'[j].list = adrift[j].list
  BY <1>3, <1>4, <1>5, Drifts DEF Inv
<1>7. j \in Strays(x[1], x[2]) /\ v = Says(adrift[j].list[x[2]])
  BY <1>2, <1>4, <1>6 DEF Strays
<1> QED  BY <1>7 DEF Late

LEMMA LateGrows ==
  ASSUME Inv, NEW i \in Instances, LoseConnection(i), NEW x \in Items
  PROVE  Late'[x] \subseteq Late[x] \cup ({Versions[x]} \ {NoMessage})
<1> SUFFICES ASSUME NEW v \in Late'[x], v \notin Late[x] PROVE v = Versions[x] /\ v # NoMessage
  OBVIOUS
<1>1. x[1] \in Events /\ x[2] \in Recipients  BY DEF Items
<1>2. PICK j \in Strays(x[1], x[2])' : v = Says(adrift'[j].list[x[2]])  BY DEF Late
<1>3. PICK c \in AllChannels : <<x[2], c>> \in adrift'[j].todo  BY <1>2 DEF Strays
<1>4. j \in Instances /\ adrift'[j].event = x[1]  BY <1>2 DEF Strays
<1>5. j = i
  <2> SUFFICES ASSUME j # i PROVE FALSE  OBVIOUS
  <2>1. adrift'[j] = adrift[j]  BY <1>4, LosesConnection
  <2>2. j \in Strays(x[1], x[2])  BY <1>3, <1>4, <2>1 DEF Strays
  <2> QED  BY <1>2, <2>1, <2>2 DEF Late
<1> DEFINE row == sync[i].list[x[2]]
<1>6. /\ sync[i].event = x[1] /\ adrift'[i].list[x[2]] = row /\ row.sequence >= 0
      /\ Same(row, invite[x[1]][x[2]])
  <2>1. /\ adrift'[i].event = sync[i].event
        /\ \A y \in adrift'[i].todo :
             /\ adrift'[i].list[y[1]] = sync[i].list[y[1]]
             /\ sync[i].list[y[1]].sequence >= 0
             /\ Same(sync[i].list[y[1]], invite[sync[i].event][y[1]])
    BY <1>3, <1>5, LosesConnection
  <2> QED  BY <1>3, <1>4, <1>5, <2>1
<1>7. v = Says(row)  BY <1>2, <1>5, <1>6
<1> HIDE DEF row
<1>8. Says(row) = Says(invite[x[1]][x[2]]) /\ invite[x[1]][x[2]] # NoInvitation
  BY <1>6 DEF Same, Says, NoInvitation
<1>9. Says(row) # NoMessage
  <2>1. Says(row).number >= 0  BY <1>6 DEF Says
  <2> QED  BY <2>1 DEF NoMessage
<1> QED  BY <1>7, <1>8, <1>9 DEF Versions, Version

\* Of a step that brings a channel nothing, or a recipient who switched it off.
LEMMA ShowingKept ==
  ASSUME \A e \in Events, r \in Recipients, c \in AllChannels :
           inbox'[e][r][c].last = inbox[e][r][c].last
  PROVE  Showing' = Showing
BY DEF Showing, Items

LEMMA ShowingOne ==
  ASSUME NEW e \in Events, NEW r \in Recipients, NEW c \in AllChannels, NEW m,
         Brings(e, r, c, m), inbox'[e][r][c].last = m
  PROVE  Showing' = [Showing EXCEPT ![<<e, r>>][c] = m]
<1>1. <<e, r>> \in Items  BY DEF Items
<1>2. \A x \in Items : x # <<e, r>> => inbox'[x[1]][x[2]] = inbox[x[1]][x[2]]
  BY DEF Brings, Items
<1> DEFINE Row(x) == [d \in AllChannels |-> inbox'[x[1]][x[2]][d].last]
<1>3. Showing' = [x \in Items |-> Row(x)]  BY DEF Showing
<1>4. \A x \in Items : x # <<e, r>> => Row(x) = Showing[x]  BY <1>2 DEF Showing
<1>5. Showing[<<e, r>>] = [d \in AllChannels |-> inbox[e][r][d].last]  BY <1>1 DEF Showing
<1>6. \A d \in AllChannels : d # c => inbox'[e][r][d] = inbox[e][r][d]  BY DEF Brings
<1>7. Row(<<e, r>>) = [Showing[<<e, r>>] EXCEPT ![c] = m]  BY <1>5, <1>6
<1>8. Showing = [x \in Items |-> Showing[x]]  BY DEF Showing
<1> HIDE DEF Row
<1> QED  BY <1>1, <1>3, <1>4, <1>7, <1>8

LEMMA DeliveryNext == Inv /\ Inv' /\ [Next]_vars => [Delivery!Next]_(Delivery!vars)
<1> SUFFICES ASSUME Inv, Inv', [Next]_vars PROVE [Delivery!Next]_(Delivery!vars)  OBVIOUS
<1>0. /\ TypeOK /\ Shown /\ Shown' /\ Locks
      /\ invite \in [Events -> [Recipients -> Invitation]]
      /\ invite' \in [Events -> [Recipients -> Invitation]]
      /\ inbox \in [Events -> [Recipients -> [AllChannels -> Box]]]
  BY DEF Inv, TypeOK
<1>a. ASSUME Versions' = Versions, Showing' = Showing, Late' = Late
      PROVE  [Delivery!Next]_(Delivery!vars)
  BY <1>a DEF Delivery!vars, Versions, Showing, Late, Items, Version
<1>e. ASSUME NEW x \in Items, NEW c \in AllChannels, Delivery!Deliver(x, c) \/ Delivery!DeliverLate(x, c)
      PROVE  [Delivery!Next]_(Delivery!vars)
  BY <1>e DEF Delivery!Next, Items
<1>b. invite' = invite => Versions' = Versions  BY DEF Versions, Version
<1>c. inbox' = inbox => Showing' = Showing  BY DEF Showing
<1>d. adrift' = adrift => Late' = Late  BY DEF Late, Strays
<1>2. ASSUME NEW i \in Instances, NEW r \in Recipients, Revise(i, r)
      PROVE  [Delivery!Next]_(Delivery!vars)
  <2> DEFINE e == sync[i].event
  <2>0. e \in Events  BY <1>2, ReviseWrites
  <2>1. \A f \in Events, q \in Recipients : f # e \/ q # r => invite'[f][q] = invite[f][q]
    BY <1>2, ReviseWrites
  <2>2. PICK row \in Invitation : RowRevised(i, r, row)  BY <1>2, ReviseWrites
  <2>3. Showing' = Showing /\ Late' = Late  BY <1>2, <1>c, <1>d DEF Revise, outside
  <2>4. /\ invite'[e][r] = row
        /\ row.sequence = -1 => row = NoInvitation
        /\ \/ row.sequence = invite[e][r].sequence /\ Says(row) = Says(invite[e][r])
           \/ row.sequence = invite[e][r].sequence + 1
    BY <2>2 DEF RowRevised
  <2>5. /\ invite[e][r] \in Invitation
        /\ invite[e][r].sequence = -1 => invite[e][r] = NoInvitation
        /\ invite[e][r].sequence \in Nat \cup {-1}
    BY <1>0, <2>0, Numbers DEF Shown
  <2> HIDE DEF e
  <2>c. NoInvitation.sequence = -1 /\ NoMessage.number = -1  BY DEF NoInvitation, NoMessage
  <2>6. CASE row.sequence = invite[e][r].sequence /\ Says(row) = Says(invite[e][r])
    <3>1. Version(row) = Version(invite[e][r])
      BY <2>4, <2>5, <2>6, <2>c DEF Version
    <3>2. \A x \in Items : Version(invite'[x[1]][x[2]]) = Version(invite[x[1]][x[2]])
      BY <2>1, <2>4, <3>1 DEF Items
    <3>3. Versions' = Versions
      BY <3>2 DEF Versions, Version, Items
    <3> QED  BY <1>a, <2>3, <3>3
  <2>7. CASE row.sequence = invite[e][r].sequence + 1
    <3> DEFINE says == Says(row).says
    <3>1. says \in Contents  BY <2>2, SaysContents
    <3>2. row # NoInvitation  BY <2>5, <2>7, <2>c
    <3>3. Says(row) = [number |-> row.sequence, says |-> says]  BY DEF Says
    <3>4. Version(invite[e][r]).number = invite[e][r].sequence
      BY <2>5, <2>c DEF Version, Says
    <3> HIDE DEF says
    <3>5. Version(row) = [number |-> Version(invite[e][r]).number + 1, says |-> says]
      BY <2>7, <3>2, <3>3, <3>4 DEF Version
    <3>6. Versions' = [Versions EXCEPT ![<<e, r>>] = [number |-> @.number + 1, says |-> says]]
      <4>1. \A x \in Items : x # <<e, r>> => Version(invite'[x[1]][x[2]]) = Version(invite[x[1]][x[2]])
        BY <2>1 DEF Items
      <4>2. Versions' = [x \in Items |-> Version(invite'[x[1]][x[2]])]
        BY DEF Versions, Version
      <4>3. <<e, r>> \in Items /\ Versions[<<e, r>>] = Version(invite[e][r])
        BY <2>0 DEF Items, Versions
      <4>4. \A x \in Items : Version(invite[x[1]][x[2]]) = Versions[x]  BY DEF Versions
      <4>5. Versions = [x \in Items |-> Versions[x]]  BY DEF Versions
      <4> DEFINE V == Versions
                 W(x) == Version(invite'[x[1]][x[2]])
      <4>6. W(<<e, r>>) = [number |-> V[<<e, r>>].number + 1, says |-> says]
        BY <2>4, <3>5, <4>3
      <4>7. \A x \in Items : x # <<e, r>> => W(x) = V[x]  BY <4>1, <4>4
      <4>8. V = [x \in Items |-> V[x]] /\ V' = [x \in Items |-> W(x)]  BY <4>2, <4>5
      <4> HIDE DEF V, W
      <4>9. V' = [V EXCEPT ![<<e, r>>] = [number |-> V[<<e, r>>].number + 1, says |-> says]]
        BY <4>3, <4>6, <4>7, <4>8
      <4> QED  BY <4>9 DEF V
    <3>7. <<e, r>> \in Events \X Recipients  BY <2>0
    <3>8. Delivery!Revise(<<e, r>>, says)
      BY <2>3, <3>6 DEF Delivery!Revise, Versions, Version, Showing, Late, Items
    <3> QED  BY <3>1, <3>7, <3>8 DEF Delivery!Next
  <2> QED  BY <2>4, <2>6, <2>7
<1>3. ASSUME NEW i \in Instances, NEW r \in Recipients, NEW c \in AllChannels, Send(i, r, c)
      PROVE  [Delivery!Next]_(Delivery!vars)
  <2> DEFINE e == sync[i].event
             row == sync[i].list[r]
  <2>1. /\ e \in Events /\ row.sequence >= 0 /\ Same(row, invite[e][r])
        /\ Brings(e, r, c, Says(row)) /\ inbox'[e][r][c].last = Says(row)
    BY <1>3, SendBrings
  <2>2. Versions' = Versions /\ Late' = Late
    BY <1>3, <1>b, <1>d DEF Send, Bring, rows
  <2> HIDE DEF e, row
  <2>3. invite[e][r] # NoInvitation /\ Says(row) = Says(invite[e][r])
    BY <2>1 DEF Same, NoInvitation, Says
  <2>4. <<e, r>> \in Items /\ Versions[<<e, r>>] = Says(row)
    BY <2>1, <2>3 DEF Items, Versions, Version
  <2>5. Says(row) # NoMessage
    <3>1. Says(row).number >= 0  BY <2>1 DEF Says
    <3> QED  BY <3>1 DEF NoMessage
  <2>6. Showing' = [Showing EXCEPT ![<<e, r>>][c] = Versions[<<e, r>>]]
    BY <2>1, <2>4, ShowingOne
  <2>7. ASSUME NEW x, x = <<e, r>> PROVE Delivery!Deliver(x, c)
    BY <2>2, <2>4, <2>5, <2>6, <2>7 DEF Delivery!Deliver, Delivery!None, NoMessage, Versions, Showing,
                                   Late, Version, Items
  <2>8. ASSUME NEW x, x = <<e, r>> PROVE [Delivery!Next]_(Delivery!vars)
    BY <1>e, <2>4, <2>7, <2>8
  <2> QED  BY <2>8
<1>4. ASSUME NEW i \in Instances, Record(i) PROVE [Delivery!Next]_(Delivery!vars)
  <2> DEFINE e == sync[i].event
             r == sync[i].at[1]
  <2>1. e \in Events /\ r \in Recipients  BY <1>4, RecordWrites
  <2>2. Same(invite'[e][r], invite[e][r])  BY <1>4, RecordWrites
  <2>3. \A f \in Events, q \in Recipients : f # e \/ q # r => invite'[f][q] = invite[f][q]
    BY <1>4, RecordWrites
  <2>4. Showing' = Showing /\ Late' = Late  BY <1>4, <1>c, <1>d DEF Record, outside
  <2> HIDE DEF e, r
  <2>5. Version(invite'[e][r]) = Version(invite[e][r])
    BY <1>0, <2>1, <2>2, SameVersion DEF Shown
  <2>6. \A x \in Items : Version(invite'[x[1]][x[2]]) = Version(invite[x[1]][x[2]])
    BY <2>3, <2>5 DEF Items
  <2>7. Versions' = Versions  BY <2>6 DEF Versions, Version
  <2> QED  BY <1>a, <2>4, <2>7
<1>5. ASSUME NEW i \in Instances, NEW r \in Recipients, NEW c \in AllChannels, Withhold(i, r, c)
      PROVE  [Delivery!Next]_(Delivery!vars)
  <2> DEFINE e == sync[i].event
  <2>1. /\ e \in Events /\ Brings(e, r, c, Says(sync[i].list[r]))
        /\ inbox'[e][r][c].last = inbox[e][r][c].last
    BY <1>5, SendBrings
  <2>2. \A f \in Events, q \in Recipients, d \in AllChannels :
          inbox'[f][q][d].last = inbox[f][q][d].last
    BY <2>1 DEF Brings
  <2>3. Versions' = Versions /\ Late' = Late
    BY <1>5, <1>b, <1>d DEF Withhold, Bring, rows
  <2> QED  BY <1>a, <2>2, <2>3, ShowingKept
<1>6. ASSUME Versions' = Versions, Showing' = Showing,
             \A x \in Items : Late'[x] \subseteq Late[x] \cup ({Versions[x]} \ {NoMessage})
      PROVE  [Delivery!Next]_(Delivery!vars)
  <2>1. Delivery!Delay
    BY <1>6 DEF Delivery!Delay, Delivery!LateOnly, Delivery!None, NoMessage, Late, Versions,
                Showing, Items, Version
  <2> QED  BY <2>1 DEF Delivery!Next
<1>7. ASSUME NEW i \in Instances, LoseConnection(i) PROVE [Delivery!Next]_(Delivery!vars)
  BY <1>6, <1>7, <1>b, <1>c, LateGrows, LosesConnection
<1>8. ASSUME NEW i \in Instances, Drift(i) PROVE [Delivery!Next]_(Delivery!vars)
  <2>1. Versions' = Versions  BY <1>8, <1>b, DriftKeeps
  <2>2. \A x \in Items : Late'[x] \subseteq Late[x]  BY <1>8, LateShrinks
  <2>3. Showing' = Showing => [Delivery!Next]_(Delivery!vars)  BY <1>6, <2>1, <2>2
  <2>4. inbox' = inbox => [Delivery!Next]_(Delivery!vars)  BY <1>c, <2>3
  <2>5. ASSUME NEW r \in Recipients, NEW c \in AllChannels, StraySend(i, r, c), inbox' # inbox
        PROVE  [Delivery!Next]_(Delivery!vars)
    <3> DEFINE e == adrift[i].event
               v == Says(adrift[i].list[r])
    <3>1. e \in Events /\ Brings(e, r, c, v) /\ inbox'[e][r][c].last = v
      BY <2>5, StrayBrings
    <3>2. <<e, r>> \in Items /\ v \in Late[<<e, r>>]
      <4>1. i \in Strays(e, r)  BY <2>5 DEF StraySend, Strays
      <4> QED  BY <3>1, <4>1 DEF Items, Late
    <3> HIDE DEF e, v
    <3>3. Showing' = [Showing EXCEPT ![<<e, r>>][c] = v]  BY <3>1, ShowingOne
    <3>4. \E w \in Late[<<e, r>>] : Showing' = [Showing EXCEPT ![<<e, r>>][c] = w]
      BY <3>2, <3>3
    <3>5. ASSUME NEW x, x = <<e, r>> PROVE Delivery!DeliverLate(x, c)
      BY <2>1, <2>2, <3>4, <3>5 DEF Delivery!DeliverLate, Delivery!LateOnly, Late, Showing, Versions,
                               Items, Version
    <3>6. ASSUME NEW x, x = <<e, r>> PROVE [Delivery!Next]_(Delivery!vars)
      BY <1>e, <3>2, <3>5, <3>6
    <3> QED  BY <3>6
  <2> QED  BY <1>8, <2>4, <2>5 DEF Drift, StrayZoom
<1>9. ASSUME invite' = invite, inbox' = inbox, Next PROVE [Delivery!Next]_(Delivery!vars)
  BY <1>7, <1>8, <1>9, <1>a, <1>b, <1>c, <1>d, OthersKeepAdrift
<1>10. CASE UNCHANGED vars
  BY <1>10, <1>a, <1>b, <1>c, <1>d DEF vars, rows, outside
<1> QED  BY <1>2, <1>3, <1>4, <1>5, <1>8, <1>9, <1>10, OtherStepsKeepRows DEF Drift

\* Every behaviour of the events is one of the delivery: a run with its event's lock
\* shows versions that are current, and one that lost it versions that were when it
\* did, for any number of processes that may crash or lose their connection anywhere.
THEOREM DeliveryImplemented == Spec => ImplementsDelivery
<1>1. Inv /\ Inv' /\ [Next]_vars => [Delivery!Next]_(Delivery!vars)  BY DeliveryNext
<1> QED  BY <1>1, AlwaysInv, DeliveryInit, PTL DEF Spec, ImplementsDelivery, Delivery!Spec
=============================================================================
