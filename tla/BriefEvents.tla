--------------------------- MODULE BriefEvents --------------------------
(***************************************************************************)
(* Brief events: create, update and cancel, which share the lock of the    *)
(* Zoom host, and the synchronization that brings Zoom, the attendees'     *)
(* invitations and the host's invitation up to date.  Each API process     *)
(* synchronizes one event at a time under a session lock of the event, one *)
(* statement and one external call after another, without a transaction:   *)
(* it may die anywhere, and another run then starts from the tables.  A    *)
(* run that only loses its database connection has lost the lock, but goes *)
(* on calling the services with the rows it read.                          *)
(***************************************************************************)
EXTENDS Integers, FiniteSets

CONSTANTS
  Events,         \* bound: ids available for rows of brief_events
  Participants,   \* participants of the cohort
  Hosts,          \* contacts that a brief may name as its host
  Channels,       \* of the participants: e-mail, in-app notification, push
  Email,          \* the channel of the hosts
  Push,           \* the channel that respects quiet hours
  Optional,       \* the channels a participant may switch off: in-app, push
  Slots,          \* times an event may start at
  Length,         \* its duration
  Day,            \* how long after its end the cron job looks at an event
  MaxNow,         \* bound: the clock
  Writers,        \* bound: HTTP requests in flight at once
  Instances,      \* API processes
  MaxRevision,    \* bound: revisions of an event
  MaxChanges,     \* bound: changes of the world and failures of services
  Null

Recipients == Participants \cup Hosts
AllChannels == Channels \cup {Email}
ChannelsOf(r) == IF r \in Hosts THEN {Email} ELSE Channels

ASSUME SlotsAssumption == Slots \subseteq Nat /\ Length \in Nat \ {0} /\ Day \in Nat
ASSUME BoundAssumption == MaxRevision \in Nat \ {0} /\ MaxChanges \in Nat /\ MaxNow \in Nat
ASSUME RecipientsAssumption == Participants \cap Hosts = {}
ASSUME NullAssumption == Null \notin Events \cup Slots \cup AllChannels

VARIABLES
  event,          \* brief_events
  invite,         \* brief_event_attendees and brief_event_host_invitations
  meeting,        \* Zoom: the revision it has for the event, the newest it got
  inbox,          \* what each channel last brought to each recipient, and the
                  \* newest it brought or he, having switched it off, did without
  invited,        \* who should be invited now: teams of the brief, its host
  withdrawn,      \* events whose brief or organization is gone
  writer,         \* transactions of create, update and cancel
  sync,           \* the run of syncEvent in each process, with the event's lock
  adrift,         \* the run of each process whose connection, with the lock, is lost
  now,            \* the clock
  changes         \* changes of the world and failures of services so far

rows == <<event, invite>>
outside == <<meeting, inbox>>
world == <<invited, withdrawn, now, changes>>
vars == <<rows, outside, world, writer, sync, adrift>>

-----------------------------------------------------------------------------
Event == [status : {"absent", "scheduled", "cancelled"}, slot : Slots \cup {Null},
          revision : 0 .. MaxRevision, zoom : 0 .. MaxRevision, error : BOOLEAN]
NoEvent == [status |-> "absent", slot |-> Null, revision |-> 0, zoom |-> 0,
            error |-> FALSE]
EndAt(s) == s + Length
Ahead(e) == EndAt(event[e].slot) > now          \* not ended yet
Recent(e) == EndAt(event[e].slot) > now - Day

\* sent: the sequence each channel has delivered, as recorded.
Invitation == [active : BOOLEAN, sequence : Nat \cup {-1},
               revision : 0 .. MaxRevision, sent : [AllChannels -> Nat \cup {-1}]]
NoInvitation == [active |-> FALSE, sequence |-> -1, revision |-> 0,
                 sent |-> [c \in AllChannels |-> -1]]

\* An invitation, and the meeting in Zoom, show the event at a revision, or tell
\* that it is cancelled.
Cancelled == -1
Contents == (0 .. MaxRevision) \cup {Cancelled}
Meeting == [has : Contents \cup {-2}, got : (0 .. MaxRevision) \cup {-1}]
NoMeeting == [has |-> -2, got |-> -1]
Message == [number : Nat, says : Contents]
NoMessage == [number |-> -1]
Box == [last : Message \cup {NoMessage}, newest : Message \cup {NoMessage}]
EmptyBox == [last |-> NoMessage, newest |-> NoMessage]
Says(i) == [number |-> i.sequence,
            says |-> IF i.active THEN i.revision ELSE Cancelled]
Newer(box, m) == IF m.number >= box.newest.number THEN m ELSE box.newest

\* PATCH of a meeting fails once it was deleted; DELETE may be repeated.
Updated(m, ent) ==
  IF ent.status = "cancelled" THEN [m EXCEPT !.has = Cancelled]
  ELSE IF m.has = Cancelled THEN m
  ELSE [has |-> ent.revision, got |-> IF ent.revision >= m.got THEN ent.revision ELSE m.got]

Writer == [op : {"idle", "create", "update", "cancel"}, event : Events \cup {Null},
           slot : Slots \cup {Null}]
NoWriter == [op |-> "idle", event |-> Null, slot |-> Null]

\* What a run of syncEvent holds: the event and the invitations it read, whom it
\* serves (the participants, then the hosts), who of them is invited, what is
\* still to do, and whether a step failed.
Sync == [step : {"idle", "zoom", "zoomed", "plan", "revise", "deliver", "sent"},
         event : Events \cup {Null}, ent : Event,
         list : [Recipients -> Invitation], group : SUBSET Recipients,
         current : SUBSET Recipients,
         todo : SUBSET (Recipients \X (AllChannels \cup {Null})),
         at : (Recipients \X AllChannels) \cup {<<>>}, error : BOOLEAN]
NoSync == [step |-> "idle", event |-> Null, ent |-> NoEvent,
           list |-> [r \in Recipients |-> NoInvitation], group |-> {},
           current |-> {}, todo |-> {}, at |-> <<>>, error |-> FALSE]

\* Advisory locks: brief-event:<id>, and that of the shared Zoom host.
EventFreeOfWriters(e) ==   \* mutant: runs of syncEvent do not exclude each other
  \A w \in Writers : writer[w].event # e
EventFree(e) == /\ \A i \in Instances : sync[i].event # e
                /\ \A w \in Writers : writer[w].event # e
AnyWriter == TRUE   \* mutant: the host's lock is not taken
HostFree == \A w \in Writers : writer[w] = NoWriter

Overlaps(s, u) == s < EndAt(u) /\ u < EndAt(s)
\* checkOverlap.
Clear(e, s) == \A f \in Events \ {e} :
                 event[f].status = "scheduled" => ~ Overlaps(event[f].slot, s)

Behind(e) == \E p \in Participants : \E c \in ChannelsOf(p) :
               invite[e][p].sent[c] < invite[e][p].sequence
SelectedByAge(e) ==   \* mutant: what is left undone is not looked for
  event[e].status # "absent" /\ Recent(e)
\* The query of syncUpcomingEvents.
Selected(e) == /\ event[e].status # "absent"
               /\ \/ Recent(e)
                  \/ event[e].zoom < event[e].revision
                  \/ event[e].error
                  \/ Behind(e)

-----------------------------------------------------------------------------
(* create, update, cancel: one transaction each, under the host's lock.     *)

Writing(w, op, e, s) ==
  /\ writer[w] = NoWriter /\ HostFree
  /\ writer' = [writer EXCEPT ![w] = [op |-> op, event |-> e, slot |-> s]]
  /\ UNCHANGED <<rows, outside, world, sync, adrift>>
Commit(w, op, ent) ==
  /\ writer[w].op = op
  /\ event' = [event EXCEPT ![writer[w].event] = ent]
  /\ writer' = [writer EXCEPT ![w] = NoWriter]
  /\ UNCHANGED <<invite, inbox, world, sync, adrift>>

BeginCreate(w, e, s) ==
  /\ event[e].status = "absent" /\ EventFree(e) /\ s > now /\ Clear(e, s)
  /\ Writing(w, "create", e, s)
\* Zoom has the meeting before the row is stored.
FinishCreate(w) ==
  /\ Commit(w, "create", [NoEvent EXCEPT !.status = "scheduled",
                                         !.slot = writer[w].slot, !.error = TRUE])
  /\ meeting' = [meeting EXCEPT ![writer[w].event] = [has |-> 0, got |-> 0]]

\* The last revision is kept for the cancellation.
BeginUpdate(w, e, s) ==
  /\ event[e].status = "scheduled" /\ EventFree(e) /\ s > now /\ Clear(e, s)
  /\ event[e].revision < MaxRevision - 1
  /\ Writing(w, "update", e, s)
FinishUpdate(w) ==
  LET e == writer[w].event
  IN /\ Commit(w, "update", [event[e] EXCEPT !.slot = writer[w].slot,
                                             !.revision = @ + 1])
     /\ UNCHANGED meeting

BeginCancel(w, e) ==
  /\ event[e].status = "scheduled" /\ EventFree(e)
  /\ Writing(w, "cancel", e, Null)
FinishCancel(w) ==
  /\ Commit(w, "cancel", [event[writer[w].event] EXCEPT !.status = "cancelled",
                                                        !.revision = @ + 1])
  /\ UNCHANGED meeting

\* A transaction is rolled back, and a meeting made for it is deleted.
Abort(w) == /\ writer[w] # NoWriter
            /\ writer' = [writer EXCEPT ![w] = NoWriter]
            /\ UNCHANGED <<rows, outside, world, sync, adrift>>

-----------------------------------------------------------------------------
(* syncEvent.                                                               *)

\* A service fails, or the world around the events changes.
Changing == changes < MaxChanges /\ changes' = changes + 1
still == <<invited, withdrawn, now>>

At(i, step) == sync[i].step = step
Idle(i) == sync[i] = NoSync /\ adrift[i] = NoSync   \* a process has one run at a time
Goto(i, new) == sync' = [sync EXCEPT ![i] = new]

CancelledAnew(e) == withdrawn[e]   \* mutant: whatever the status of the event is
Gone(e) == event[e].status = "scheduled" /\ withdrawn[e]

\* The cron job, or a request that just changed or again cancelled the event;
\* an event whose brief is withdrawn is cancelled first.
StartSync(i, e) ==
  LET ent == IF Gone(e) THEN [event[e] EXCEPT !.status = "cancelled", !.revision = @ + 1]
             ELSE event[e]
  IN /\ Idle(i) /\ EventFree(e)
     /\ Selected(e) \/ event[e].status = "cancelled"
     /\ event' = [event EXCEPT ![e] = ent]
     /\ Goto(i, [NoSync EXCEPT !.event = e, !.ent = ent,
                   !.step = IF ent.zoom < ent.revision THEN "zoom" ELSE "plan"])
     /\ UNCHANGED <<invite, outside, world, writer, adrift>>

SyncZoom(i) ==
  /\ At(i, "zoom")
  /\ meeting' = [meeting EXCEPT ![sync[i].event] = Updated(@, sync[i].ent)]
  /\ Goto(i, [sync[i] EXCEPT !.step = "zoomed"])
  /\ UNCHANGED <<rows, inbox, world, writer, adrift>>
RecordZoom(i) ==
  /\ At(i, "zoomed")
  /\ event' = [event EXCEPT ![sync[i].event].zoom = sync[i].ent.revision]
  /\ Goto(i, [sync[i] EXCEPT !.step = "plan"])
  /\ UNCHANGED <<invite, outside, world, writer, adrift>>
ZoomFails(i) ==
  /\ Changing
  /\ At(i, "zoom") \/ At(i, "zoomed")
  /\ Goto(i, [sync[i] EXCEPT !.step = "plan", !.error = TRUE])
  /\ UNCHANGED <<rows, outside, still, writer, adrift>>

\* The rows of the participants, then of the hosts, and who should have one.
Plan(i, group) ==
  LET e == sync[i].event
      current == IF sync[i].ent.status = "scheduled" THEN invited[e] \cap group ELSE {}
  IN Goto(i, [sync[i] EXCEPT
       !.step = "revise", !.list = invite[e], !.group = group, !.current = current,
       !.todo = {<<r, Null>> : r \in {r \in group :
                    r \in current \/ invite[e][r] # NoInvitation}}])
PlanParticipants(i) == /\ At(i, "plan") /\ Plan(i, Participants)
                       /\ UNCHANGED <<rows, outside, world, writer, adrift>>
Delivered(i, group) == At(i, "deliver") /\ sync[i].group = group /\ sync[i].todo = {}
PlanHosts(i) == /\ Delivered(i, Participants) /\ Plan(i, Hosts)
                /\ UNCHANGED <<rows, outside, world, writer, adrift>>
\* There is no account for the host of an event to come: his invitations wait.
NoHostAccount(i) ==
  /\ Changing
  /\ Delivered(i, Participants)
  /\ sync[i].ent.status = "scheduled" /\ Ahead(sync[i].event)
  /\ Goto(i, [sync[i] EXCEPT !.group = Hosts, !.error = TRUE])
  /\ UNCHANGED <<rows, outside, still, writer, adrift>>

\* The row of one recipient after its revision.
RevisedSilently(old, desired, ent, open) ==   \* mutant: who drops out gets no new version
  IF old = NoInvitation
  THEN IF desired /\ open THEN [old EXCEPT !.active = TRUE, !.sequence = 0, !.revision = ent.revision]
       ELSE old
  ELSE IF old.active = desired /\ old.revision = ent.revision THEN old
  ELSE [old EXCEPT !.active = desired, !.revision = ent.revision,
                   !.sequence = IF desired THEN @ + 1 ELSE @]
Revised(old, desired, ent, open) ==
  IF old = NoInvitation
  THEN IF desired /\ open THEN [old EXCEPT !.active = TRUE, !.sequence = 0, !.revision = ent.revision]
       ELSE old
  ELSE IF old.active = desired /\ old.revision = ent.revision THEN old
  ELSE [old EXCEPT !.active = desired, !.revision = ent.revision,
                   !.sequence = IF old.active \/ desired THEN @ + 1 ELSE @]
Revise(i, r) ==
  LET e == sync[i].event
      row == Revised(sync[i].list[r], r \in sync[i].current, sync[i].ent,
                     Ahead(e))
  IN /\ At(i, "revise") /\ <<r, Null>> \in sync[i].todo
     /\ invite' = IF row = sync[i].list[r] THEN invite ELSE [invite EXCEPT ![e][r] = row]
     /\ Goto(i, [sync[i] EXCEPT !.list[r] = row, !.todo = @ \ {<<r, Null>>}])
     /\ UNCHANGED <<event, outside, world, writer, adrift>>
StartDelivery(i) ==
  /\ At(i, "revise") /\ sync[i].todo = {}
  /\ Goto(i, [sync[i] EXCEPT !.step = "deliver",
       !.todo = {x \in sync[i].group \X AllChannels :
                   /\ x[2] \in ChannelsOf(x[1])
                   /\ sync[i].list[x[1]].sent[x[2]] < sync[i].list[x[1]].sequence}])
  /\ UNCHANGED <<rows, outside, world, writer, adrift>>

\* One channel of one recipient, who may have switched it off.
Bring(i, r, c, box) ==
  /\ At(i, "deliver") /\ <<r, c>> \in sync[i].todo
  /\ inbox' = [inbox EXCEPT ![sync[i].event][r][c] = box]
  /\ Goto(i, [sync[i] EXCEPT !.step = "sent", !.at = <<r, c>>])
  /\ UNCHANGED <<rows, meeting, still, writer, adrift>>
Shows(box, m) == [last |-> m, newest |-> Newer(box, m)]
Send(i, r, c) ==
  /\ Bring(i, r, c, Shows(inbox[sync[i].event][r][c], Says(sync[i].list[r])))
  /\ UNCHANGED changes
Withhold(i, r, c) ==
  /\ Changing
  /\ c \in Optional
  /\ LET box == inbox[sync[i].event][r][c]
     IN Bring(i, r, c, [box EXCEPT !.newest = Newer(box, Says(sync[i].list[r]))])
Record(i) ==
  LET r == sync[i].at[1]  c == sync[i].at[2]
  IN /\ At(i, "sent")
     /\ invite' = [invite EXCEPT ![sync[i].event][r].sent[c] = sync[i].list[r].sequence]
     /\ Goto(i, [sync[i] EXCEPT !.step = "deliver", !.at = <<>>, !.todo = @ \ {<<r, c>>}])
     /\ UNCHANGED <<event, outside, world, writer, adrift>>
SendFailsRecorded(i, r, c) ==   \* mutant: a failed call is recorded like one that worked
  /\ Changing
  /\ At(i, "deliver") /\ <<r, c>> \in sync[i].todo
  /\ invite' = [invite EXCEPT ![sync[i].event][r].sent[c] = sync[i].list[r].sequence]
  /\ Goto(i, [sync[i] EXCEPT !.step = "deliver", !.at = <<>>,
                             !.todo = @ \ {<<r, c>>}, !.error = TRUE])
  /\ UNCHANGED <<event, outside, still, writer, adrift>>
\* The external call fails, or the record of one that did not.
SendFails(i, r, c) ==
  /\ Changing
  /\ \/ At(i, "deliver") /\ <<r, c>> \in sync[i].todo
     \/ At(i, "sent") /\ sync[i].at = <<r, c>>
  /\ Goto(i, [sync[i] EXCEPT !.step = "deliver", !.at = <<>>,
                             !.todo = @ \ {<<r, c>>}, !.error = TRUE])
  /\ UNCHANGED <<rows, outside, still, writer, adrift>>
\* A push waits for the end of the recipient's quiet hours.
Quiet(i, r, c) ==
  /\ Changing
  /\ At(i, "deliver") /\ <<r, c>> \in sync[i].todo /\ c = Push
  /\ Goto(i, [sync[i] EXCEPT !.todo = @ \ {<<r, c>>}])
  /\ UNCHANGED <<rows, outside, still, writer, adrift>>
EndSync(i) ==
  /\ Delivered(i, Hosts)
  /\ event' = [event EXCEPT ![sync[i].event].error = sync[i].error]
  /\ Goto(i, NoSync)
  /\ UNCHANGED <<invite, outside, world, writer, adrift>>

-----------------------------------------------------------------------------
(* Runs whose connection is lost: PostgreSQL frees the lock.  A record that *)
(* fails is caught and the next recipient served, from the rows read        *)
(* before; any other statement ends the run.                                *)

\* The process dies, or loses its connection before a statement that ends the run.
Crash(i) == /\ Changing /\ ~ At(i, "idle")
            /\ Goto(i, NoSync)
            /\ UNCHANGED <<rows, outside, still, writer, adrift>>
\* It loses the connection and has external calls to make.
LoseConnection(i) ==
  LET left == sync[i].todo \ {sync[i].at}
  IN /\ Changing
     /\ At(i, "zoom") \/ ((At(i, "deliver") \/ At(i, "sent")) /\ left # {})
     /\ Goto(i, NoSync)
     /\ adrift' = [adrift EXCEPT ![i] =
          IF At(i, "zoom")
          THEN [NoSync EXCEPT !.step = "zoom", !.event = sync[i].event, !.ent = sync[i].ent]
          ELSE [NoSync EXCEPT !.step = "deliver", !.event = sync[i].event, !.todo = left,
                  !.list = [r \in Recipients |-> IF \E c \in AllChannels : <<r, c>> \in left
                                                  THEN sync[i].list[r] ELSE NoInvitation]]]
     /\ UNCHANGED <<rows, outside, still, writer>>
\* Each call may fail too, and so all that are left when the process dies.
StraySend(i, r, c) ==
  LET left == adrift[i].todo \ {<<r, c>>}
  IN /\ adrift[i].step = "deliver" /\ <<r, c>> \in adrift[i].todo
     /\ \/ inbox' = [inbox EXCEPT ![adrift[i].event][r][c] = Shows(@, Says(adrift[i].list[r]))]
        \/ UNCHANGED inbox
     /\ adrift' = [adrift EXCEPT ![i] = IF left = {} THEN NoSync ELSE [@ EXCEPT !.todo = left]]
     /\ UNCHANGED <<rows, meeting, world, writer, sync>>
StrayZoom(i) ==
  /\ adrift[i].step = "zoom"
  /\ \/ meeting' = [meeting EXCEPT ![adrift[i].event] = Updated(@, adrift[i].ent)]
     \/ UNCHANGED meeting
  /\ adrift' = [adrift EXCEPT ![i] = NoSync]
  /\ UNCHANGED <<rows, inbox, world, writer, sync>>

-----------------------------------------------------------------------------
(* The world around the events.                                             *)

\* A participant joins or leaves the brief's teams, or the brief's contact changes.
Reassign(e, all) == /\ Changing /\ all # invited[e]
                    /\ Cardinality(all \cap Hosts) = Cardinality(invited[e] \cap Hosts)
                    /\ invited' = [invited EXCEPT ![e] = all]
                    /\ UNCHANGED <<rows, outside, withdrawn, now, writer, sync, adrift>>
\* The brief or its organization is deleted or no longer approved.
Withdraw(e) == /\ Changing /\ ~ withdrawn[e]
               /\ withdrawn' = [withdrawn EXCEPT ![e] = TRUE]
               /\ UNCHANGED <<rows, outside, invited, now, writer, sync, adrift>>
Tick == /\ now < MaxNow
        /\ now' = now + 1
        /\ UNCHANGED <<rows, outside, invited, withdrawn, changes, writer, sync, adrift>>

-----------------------------------------------------------------------------
Init == /\ event = [e \in Events |-> NoEvent]
        /\ invite = [e \in Events |-> [r \in Recipients |-> NoInvitation]]
        /\ meeting = [e \in Events |-> NoMeeting]
        /\ inbox = [e \in Events |-> [r \in Recipients |-> [c \in AllChannels |-> EmptyBox]]]
        /\ invited \in [Events -> {all \in SUBSET Recipients :
                           Cardinality(all \cap Hosts) = IF Hosts = {} THEN 0 ELSE 1}]
        /\ withdrawn = [e \in Events |-> FALSE]
        /\ now = 0 /\ changes = 0
        /\ writer = [w \in Writers |-> NoWriter]
        /\ sync = [i \in Instances |-> NoSync]
        /\ adrift = [i \in Instances |-> NoSync]

Write(w) == \/ \E e \in Events : \/ \E s \in Slots : BeginCreate(w, e, s) \/ BeginUpdate(w, e, s)
                                \/ BeginCancel(w, e)
            \/ FinishCreate(w) \/ FinishUpdate(w) \/ FinishCancel(w) \/ Abort(w)
Proceed(i) == \/ SyncZoom(i) \/ RecordZoom(i) \/ PlanParticipants(i) \/ PlanHosts(i)
              \/ \E r \in Recipients : Revise(i, r)
              \/ StartDelivery(i)
              \/ \E r \in Recipients, c \in AllChannels : Send(i, r, c)
              \/ Record(i) \/ EndSync(i)
Fail(i) == \/ ZoomFails(i) \/ NoHostAccount(i) \/ Crash(i)
           \/ \E r \in Recipients, c \in AllChannels : SendFails(i, r, c) \/ Quiet(i, r, c)
                                                \/ Withhold(i, r, c)
Drift(i) == \/ StrayZoom(i)
            \/ \E r \in Recipients, c \in AllChannels : StraySend(i, r, c)
Synchronize(i) == \/ \E e \in Events : StartSync(i, e)
                  \/ Proceed(i) \/ Fail(i) \/ LoseConnection(i) \/ Drift(i)
Change == \/ \E e \in Events : Withdraw(e) \/ \E all \in SUBSET Recipients : Reassign(e, all)
          \/ Tick

Next == \/ \E w \in Writers : Write(w)
        \/ \E i \in Instances : Synchronize(i)
        \/ Change

Spec == Init /\ [][Next]_vars

\* Requests end, a run goes on, with its connection or without, and the cron job
\* gets to every event it selects.
Fairness ==
  /\ \A w \in Writers : WF_vars(writer[w] # NoWriter /\ Write(w))
  /\ \A i \in Instances : WF_vars(Proceed(i)) /\ WF_vars(Drift(i))
  /\ \A e \in Events : SF_vars(\E i \in Instances : StartSync(i, e))
FairSpec == Spec /\ Fairness

-----------------------------------------------------------------------------
(* Properties.                                                              *)

\* Every row, message and run holds values of its type.
TypeOK == /\ event \in [Events -> Event]
          /\ invite \in [Events -> [Recipients -> Invitation]]
          /\ meeting \in [Events -> Meeting]
          /\ inbox \in [Events -> [Recipients -> [AllChannels -> Box]]]
          /\ invited \in [Events -> SUBSET Recipients]
          /\ withdrawn \in [Events -> BOOLEAN]
          /\ now \in 0 .. MaxNow /\ changes \in 0 .. MaxChanges
          /\ writer \in [Writers -> Writer]
          /\ sync \in [Instances -> Sync] /\ adrift \in [Instances -> Sync]

\* No two scheduled events occupy the shared Zoom host at the same time, whatever
\* requests are in flight: the check is made before the row is stored.
NoHostOverlap == \A e, f \in Events :
  (e # f /\ event[e].status = "scheduled" /\ event[f].status = "scheduled")
    => ~ Overlaps(event[e].slot, event[f].slot)

\* A sequence is recorded as delivered only once the channel has shown it, or a
\* later one, or the recipient had switched the channel off: a row that claims more
\* is never delivered again.
RecordedMeansShown == \A e \in Events, r \in Recipients, c \in AllChannels :
  invite[e][r].sent[c] <= inbox[e][r][c].newest.number

\* Whatever fails, crashes or is repeated, a run that holds the lock of its event
\* shows its recipients versions that are current, and one that lost it a version
\* that was when it did: the delivery implements InvitationDelivery.
Strays(e, r) == {i \in Instances : adrift[i].event = e
                                  /\ \E c \in AllChannels : <<r, c>> \in adrift[i].todo}
Delivery == INSTANCE InvitationDelivery WITH
  Items <- Events \X Recipients,
  version <- [x \in Events \X Recipients |->
                IF invite[x[1]][x[2]] = NoInvitation THEN NoMessage
                ELSE Says(invite[x[1]][x[2]])],
  shown <- [x \in Events \X Recipients |->
              [c \in AllChannels |-> inbox[x[1]][x[2]][c].last]],
  late <- [x \in Events \X Recipients |->
             {Says(adrift[i].list[x[2]]) : i \in Strays(x[1], x[2])}],
  Channels <- AllChannels
ImplementsDelivery == Delivery!Spec

Told(e, r) == LET row == invite[e][r]
              IN /\ row # NoInvitation =>
                      /\ row.active = (event[e].status = "scheduled" /\ r \in invited[e])
                      /\ row.revision = event[e].revision
                      /\ \A c \in ChannelsOf(r) : inbox[e][r][c].newest = Says(row)
                 /\ row = NoInvitation =>
                      ~ (event[e].status = "scheduled" /\ r \in invited[e] /\ Ahead(e))
\* Once the world stops changing and the services answer, everybody on a team of
\* the brief, and its host, has been shown the event as it now is in each of his
\* channels that is on, and everybody whose invitation no longer stands its
\* cancellation.
EveryoneInformed == <>[](\A e \in Events : (event[e].status # "absent" /\ Recent(e)) =>
                           \A r \in Recipients : Told(e, r))

\* Zoom ends up without the meeting of a cancelled event, and has got the last
\* revision of every other, also of an event that ended long ago and after any
\* number of failures.
ZoomFollows == <>[](\A e \in Events : event[e].revision > 0 =>
                      IF event[e].status = "cancelled" THEN meeting[e].has = Cancelled
                      ELSE meeting[e].got = event[e].revision)

-----------------------------------------------------------------------------
(* What the code does not do: a run that lost its lock may have the last    *)
(* word, and no later run corrects it, for all is recorded as delivered.    *)

LastWordIsCurrent == <>[](\A e \in Events, h \in Hosts :
  inbox[e][h][Email].last = inbox[e][h][Email].newest)
ZoomHasTheLast == <>[](\A e \in Events :
  event[e].status = "scheduled" => meeting[e].has = event[e].revision)
=============================================================================
