---------------------- MODULE TeamMembershipProofs ----------------------
(***************************************************************************)
(* Theorems about TeamMembership, for any number of teams, participants,   *)
(* briefs, invitations, requests and handlers in flight.                   *)
(***************************************************************************)
EXTENDS TeamMembership, FiniteSetTheorems, TLAPS

-----------------------------------------------------------------------------
(* The strengthening: what handlers and rows refer to.                     *)

Args == TeamRole \cup TeamStatus \cup Briefs \cup Invitations
        \cup Requests \cup {Null, "declined", "cancelled"}

\* A pending invitation is of a team and for a participant.
Addressed(mail) == \A i \in Invitations : mail[i].status = "pending" =>
                     mail[i].team \in Teams /\ mail[i].who \in Participants
\* A handler holds the team, the participant and the value that it will write.
Holds(x) ==
  /\ x.op \notin {"idle", "form", "save", "assign", "delete", "chat"} => x.who \in Participants
  /\ x.op \notin {"idle", "form", "create"} => x.team \in Teams
  /\ x.op \in {"add", "role"} => x.arg \in TeamRole
  /\ x.op = "save" => x.arg \in TeamStatus
  /\ x.op = "answer" => x.arg \in {"declined", "cancelled"}
  /\ Addressed(x.mail)

Aimed == \A q \in Requests : removal[q] # NoRequest =>
           removal[q].team \in Teams /\ removal[q].who \in Participants

Inv == /\ TypeOK
       /\ \A h \in Handlers : Holds(handler[h])
       /\ Addressed(invitation)
       /\ Aimed

-----------------------------------------------------------------------------
(* Types.                                                                   *)

LEMMA NoRowType == NoMember \in TeamMember /\ NoRows \in [Participants -> TeamMember]
<1>1. Cardinality(Handlers) \in Nat  BY FiniteAssumption, FS_CardinalityType
<1>2. NoMember \in TeamMember  BY <1>1 DEF NoMember, TeamMember, Ids, TeamRole
<1> QED  BY <1>2 DEF NoRows

LEMMA NoMailType == NoMail \in [Invitations -> TeamInvitation] /\ Addressed(NoMail)
BY DEF NoMail, NoInvitation, TeamInvitation, Addressed

LEMMA HoldType ==
  ASSUME NEW o \in AllOps, NEW t \in Teams \cup {Null}, NEW p \in Participants \cup {Null},
         NEW a \in Args, NEW x, x = Hold(o, t, p, a)
  PROVE  /\ x \in Handler /\ x.op = o /\ x.team = t /\ x.who = p /\ x.arg = a
         /\ x.rows = NoRows /\ x.mail = NoMail /\ x.brief = Null
<1>1. Idle \in Handler
  BY NoRowType, NoMailType DEF Idle, Handler
<1> QED  BY <1>1, NoRowType, NoMailType DEF Hold, Handler, Args, Idle

LEMMA IdleHolds == Idle \in Handler /\ Holds(Idle)
BY NoRowType, NoMailType DEF Idle, Handler, Holds

\* An id is free: there are more ids than handlers.
LEMMA FreshIdType == ASSUME NEW t, NEW p PROVE FreshId(t, p) \in Ids
<1> DEFINE holders == {g \in Handlers : handler[g].team = t /\ handler[g].rows[p].status # "none"}
           id(h) == handler[h].rows[p].id
           N == Cardinality(Handlers)
<1>1. IsFiniteSet(holders) /\ Cardinality(holders) <= N /\ N \in Nat
  BY FiniteAssumption, FS_Subset, FS_CardinalityType
<1>2. IsFiniteSet(Ids) /\ Cardinality(Ids) = N + 1
  <2> HIDE DEF N
  <2>1. Ids = 0 .. N  BY DEF Ids, N
  <2> QED  BY <1>1, <2>1, FS_Interval
<1>3. ~ (Ids \subseteq Held(t, p))
  <2> SUFFICES ASSUME Ids \subseteq Held(t, p) PROVE FALSE  OBVIOUS
  <2> DEFINE owner == [i \in Ids |-> CHOOSE h \in holders : id(h) = i]
  <2>1. \A i \in Ids : \E h \in holders : id(h) = i  BY DEF Held
  <2>2. \A i \in Ids : owner[i] \in holders /\ id(owner[i]) = i  BY <2>1
  <2>3. owner \in [Ids -> holders]  BY <2>2
  <2>4. Cardinality(holders) < Cardinality(Ids)
    <3>1. Cardinality(holders) \in Nat  BY <1>1, FS_CardinalityType
    <3> HIDE DEF N, holders
    <3> QED  BY <3>1, <1>1, <1>2
  <2> HIDE DEF owner, holders
  <2>5. \E i, j \in Ids : i # j /\ owner[i] = owner[j]
    BY <1>1, <1>2, <2>3, <2>4, FS_PigeonHole
  <2> QED  BY <2>2, <2>5
<1> QED  BY <1>3 DEF FreshId

-----------------------------------------------------------------------------
(* The first step of a handler.                                             *)

LEMMA HoldRowType ==
  ASSUME NEW o \in AllOps, NEW t \in Teams, NEW p \in Participants, NEW a \in Args,
         TypeOK, NEW x, x = HoldRow(o, t, p, a)
  PROVE  /\ x \in Handler /\ x.op = o /\ x.team = t /\ x.who = p /\ x.arg = a
         /\ x.mail = NoMail
<1> DEFINE y == Hold(o, t, p, a)
<1>1. /\ y \in Handler /\ y.op = o /\ y.team = t /\ y.who = p /\ y.arg = a
      /\ y.rows = NoRows /\ y.mail = NoMail
  BY HoldType
<1>2. member[t][p] \in TeamMember  BY DEF TypeOK
<1>3. x = [y EXCEPT !.rows[p] = member[t][p]]  BY DEF HoldRow
<1> HIDE DEF y
<1> QED  BY <1>1, <1>2, <1>3 DEF Handler

LEMMA LoadedType ==
  ASSUME NEW t \in Teams, TypeOK, Addressed(invitation)
  PROVE  /\ Loaded(t) \in [Participants -> TeamMember]
         /\ Mail(t) \in [Invitations -> TeamInvitation] /\ Addressed(Mail(t))
<1>1. \A p \in Participants : member[t][p] \in TeamMember  BY DEF TypeOK
<1>2. NoMember \in TeamMember  BY NoRowType
<1>3. Loaded(t) \in [Participants -> TeamMember]  BY <1>1, <1>2 DEF Loaded
<1>4. NoInvitation \in TeamInvitation /\ NoInvitation.status = "none"
  BY DEF NoInvitation, TeamInvitation
<1>5. \A i \in Invitations : invitation[i] \in TeamInvitation  BY DEF TypeOK
<1>6. Mail(t) \in [Invitations -> TeamInvitation]  BY <1>4, <1>5 DEF Mail
<1>7. Addressed(Mail(t))  BY <1>4 DEF Addressed, Mail
<1> QED  BY <1>3, <1>6, <1>7

LEMMA HoldTeamType ==
  ASSUME NEW o \in AllOps, NEW t \in Teams, NEW p \in Participants \cup {Null}, NEW a \in Args,
         TypeOK, Addressed(invitation), NEW x, x = HoldTeam(o, t, p, a)
  PROVE  /\ x \in Handler /\ x.op = o /\ x.team = t /\ x.who = p /\ x.arg = a
         /\ Addressed(x.mail)
<1> DEFINE y == Hold(o, t, p, a)
<1>1. /\ y \in Handler /\ y.op = o /\ y.team = t /\ y.who = p /\ y.arg = a
  BY HoldType
<1>2. team[t].brief \in Briefs \cup {Null}  BY DEF TypeOK, Team
<1> DEFINE rows == Loaded(t)  mail == Mail(t)  brief == team[t].brief
<1>3. x = [y EXCEPT !.rows = rows, !.mail = mail, !.brief = brief]
  BY DEF HoldTeam
<1>4. /\ rows \in [Participants -> TeamMember]
      /\ mail \in [Invitations -> TeamInvitation] /\ Addressed(mail)
  BY LoadedType
<1>5. brief \in Briefs \cup {Null}  BY <1>2
<1> HIDE DEF y, rows, mail, brief
<1>6. x \in Handler  BY <1>1, <1>3, <1>4, <1>5 DEF Handler
<1>7. x.op = o /\ x.team = t /\ x.who = p /\ x.arg = a /\ x.mail = mail
  BY <1>1, <1>3 DEF Handler
<1> QED  BY <1>4, <1>6, <1>7

\* A handler that has read nothing but keys holds what it needs.
LEMMA Began ==
  ASSUME Inv, NEW h \in Handlers, NEW x \in Handler, Holds(x), Begin(h, x)
  PROVE  Inv' /\ UNCHANGED tables
<1>1. UNCHANGED tables /\ handler' = [handler EXCEPT ![h] = x]  BY DEF Begin
<1>2. handler' \in [Handlers -> Handler]  BY <1>1 DEF Inv, TypeOK
<1>3. TypeOK'  BY <1>1, <1>2 DEF Inv, TypeOK, tables
<1>4. \A g \in Handlers : Holds(handler'[g])  BY <1>1 DEF Inv, TypeOK
<1>5. Addressed(invitation)' /\ Aimed'  BY <1>1 DEF tables, Inv, Addressed, Aimed
<1> QED  BY <1>1, <1>3, <1>4, <1>5 DEF Inv

Beginning(h) ==
  \/ \E p \in Participants : BeginCreate(h, p)
  \/ \E t \in Teams, p \in Participants : ByParticipant(h, t, p)
  \/ \E t \in Teams : \/ \E s \in TeamStatus : BeginSave(h, t, s)
                      \/ \E b \in Briefs \cup {Null} : BeginAssign(h, t, b)
                      \/ BeginDelete(h, t) \/ BeginChat(h, t)
  \/ \E q \in Requests : BeginApprove(h, q) \/ BeginReject(h, q)
  \/ \E i \in Invitations : \/ BeginAccept(h, i)
                            \/ BeginAnswer(h, i, "declined")
                            \/ BeginAnswer(h, i, "cancelled")
  \/ \E S \in SUBSET Participants, b \in Briefs \cup {Null} :
       \E lead, co \in S : lead # co /\ BeginForm(h, S, lead, co, b)

LEMMA ByParticipantStep ==
  ASSUME Inv, NEW h \in Handlers, NEW t \in Teams, NEW p \in Participants,
         ByParticipant(h, t, p)
  PROVE  Inv' /\ UNCHANGED tables
<1>1. Null \in Args /\ TeamRole \subseteq Args  BY DEF Args
<1> DEFINE Plain(x) == /\ x \in Handler /\ x.team = t /\ x.who = p /\ x.mail = NoMail
<1>2. ASSUME NEW x, Plain(x), x.op \notin {"add", "role", "save", "answer"}, Begin(h, x)
      PROVE  Inv' /\ UNCHANGED tables
  <2>1. Holds(x)  BY <1>2, NoMailType DEF Holds
  <2> QED  BY <1>2, <2>1, Began
<1>3. \A o \in {"join", "backfill", "invite"} : Plain(Hold(o, t, p, Null))
                                             /\ Hold(o, t, p, Null).op = o
  BY <1>1, HoldType DEF AllOps
<1>4. \A o \in {"confirm", "decline", "dismiss", "request"} :
        Plain(HoldRow(o, t, p, Null)) /\ HoldRow(o, t, p, Null).op = o
  BY <1>1, HoldRowType DEF AllOps, Inv
<1>5. CASE BeginJoin(h, t, p)
  BY <1>5, <1>2, <1>3 DEF BeginJoin
<1>6. CASE BeginBackfill(h, t, p)
  BY <1>6, <1>2, <1>3 DEF BeginBackfill
<1>7. ASSUME NEW by \in Participants,
             \/ BeginConfirm(h, t, by, p) \/ BeginDecline(h, t, by, p)
             \/ BeginDismiss(h, t, by, p) \/ BeginRequest(h, t, by, p)
             \/ BeginInvite(h, t, by, p)
      PROVE  Inv' /\ UNCHANGED tables
  <2> HIDE DEF Plain
  <2> QED  BY <1>7, <1>2, <1>3, <1>4
        DEF BeginConfirm, BeginDecline, BeginDismiss, BeginRequest, BeginInvite
<1>8. CASE BeginRemove(h, t, p)
  <2> DEFINE x == HoldTeam("remove", t, p, Null)
  <2>1. x \in Handler /\ x.op = "remove" /\ x.team = t /\ x.who = p /\ Addressed(x.mail)
    BY <1>1, HoldTeamType DEF AllOps, Inv
  <2>2. Begin(h, x)  BY <1>8 DEF BeginRemove
  <2> HIDE DEF x
  <2>3. Holds(x)  BY <2>1 DEF Holds
  <2> QED  BY <2>1, <2>2, <2>3, Began
<1>9. ASSUME NEW r \in TeamRole, BeginAdd(h, t, p, r)
      PROVE  Inv' /\ UNCHANGED tables
  <2> DEFINE x == Hold("add", t, p, r)
  <2>1. x \in Handler /\ x.op = "add" /\ x.team = t /\ x.who = p /\ x.arg = r /\ x.mail = NoMail
    BY <1>1, HoldType DEF AllOps
  <2>2. Begin(h, x)  BY <1>9 DEF BeginAdd
  <2> HIDE DEF x
  <2>3. Holds(x)  BY <2>1, NoMailType DEF Holds
  <2> QED  BY <2>1, <2>2, <2>3, Began
<1>10. ASSUME NEW r \in TeamRole, BeginRole(h, t, p, r)
       PROVE  Inv' /\ UNCHANGED tables
  <2> DEFINE x == HoldTeam("role", t, p, r)
  <2>1. /\ x \in Handler /\ x.op = "role" /\ x.team = t /\ x.who = p /\ x.arg = r
        /\ Addressed(x.mail)
    BY <1>1, HoldTeamType DEF AllOps, Inv
  <2>2. Begin(h, x)  BY <1>10 DEF BeginRole
  <2> HIDE DEF x
  <2>3. Holds(x)  BY <2>1 DEF Holds
  <2> QED  BY <2>1, <2>2, <2>3, Began
<1> QED  BY <1>5, <1>6, <1>7, <1>8, <1>9, <1>10 DEF ByParticipant

LEMMA BeginningStep ==
  ASSUME Inv, NEW h \in Handlers, Beginning(h)
  PROVE  Inv' /\ UNCHANGED tables
<1>1. /\ Null \in Args /\ TeamStatus \subseteq Args /\ Requests \subseteq Args
      /\ Invitations \subseteq Args /\ {"declined", "cancelled"} \subseteq Args
  BY DEF Args
<1>2. ASSUME NEW p \in Participants, BeginCreate(h, p)
      PROVE  Inv' /\ UNCHANGED tables
  <2> DEFINE x == Hold("create", Null, p, Null)
  <2>1. x \in Handler /\ x.op = "create" /\ x.who = p /\ x.mail = NoMail
    BY <1>1, HoldType DEF AllOps
  <2>2. Begin(h, x)  BY <1>2 DEF BeginCreate
  <2> HIDE DEF x
  <2>3. Holds(x)  BY <2>1, NoMailType DEF Holds
  <2> QED  BY <2>1, <2>2, <2>3, Began
<1>3. ASSUME NEW t \in Teams, NEW s \in TeamStatus, BeginSave(h, t, s)
      PROVE  Inv' /\ UNCHANGED tables
  <2> DEFINE x == HoldTeam("save", t, Null, s)
  <2>1. x \in Handler /\ x.op = "save" /\ x.team = t /\ x.arg = s /\ Addressed(x.mail)
    BY <1>1, HoldTeamType DEF AllOps, Inv
  <2>2. Begin(h, x)  BY <1>3 DEF BeginSave
  <2> HIDE DEF x
  <2>3. Holds(x)  BY <2>1 DEF Holds
  <2> QED  BY <2>1, <2>2, <2>3, Began
<1>4. ASSUME NEW t \in Teams, NEW b \in Briefs \cup {Null}, BeginAssign(h, t, b)
      PROVE  Inv' /\ UNCHANGED tables
  <2> DEFINE y == Hold("assign", t, Null, team[t].status)
             x == [y EXCEPT !.brief = b]
  <2>1. team[t].status \in Args  BY <1>4 DEF BeginAssign, Live, Args
  <2>2. y \in Handler /\ y.op = "assign" /\ y.team = t /\ y.mail = NoMail
    BY <2>1, HoldType DEF AllOps
  <2>3. Begin(h, x)  BY <1>4 DEF BeginAssign
  <2> HIDE DEF y
  <2>4. x \in Handler /\ x.op = "assign" /\ x.team = t /\ x.mail = NoMail
    BY <2>2 DEF Handler
  <2> HIDE DEF x
  <2>5. Holds(x)  BY <2>4, NoMailType DEF Holds
  <2> QED  BY <2>3, <2>4, <2>5, Began
<1>5. ASSUME NEW t \in Teams, BeginDelete(h, t) \/ BeginChat(h, t)
      PROVE  Inv' /\ UNCHANGED tables
  <2>1. PICK o \in {"delete", "chat"} : Begin(h, HoldTeam(o, t, Null, Null))
    BY <1>5 DEF BeginDelete, BeginChat
  <2> DEFINE x == HoldTeam(o, t, Null, Null)
  <2>2. x \in Handler /\ x.op = o /\ x.team = t /\ Addressed(x.mail)
    BY <1>1, HoldTeamType DEF AllOps, Inv
  <2>3. Begin(h, x)  BY <2>1
  <2> HIDE DEF x
  <2>4. Holds(x)  BY <2>2 DEF Holds
  <2> QED  BY <2>2, <2>3, <2>4, Began
<1>6. ASSUME NEW q \in Requests, BeginApprove(h, q)
      PROVE  Inv' /\ UNCHANGED tables
  <2>1. removal[q].team \in Teams /\ removal[q].who \in Participants
    BY <1>6 DEF BeginApprove, Inv, Aimed
  <2>2. PICK x : /\ Begin(h, x)
                 /\ \/ x = HoldRow("approve", removal[q].team, removal[q].who, q)
                    \/ x = Hold("approve", removal[q].team, removal[q].who, q)
    BY <1>6 DEF BeginApprove
  <2>a. "approve" \in AllOps /\ q \in Args /\ TypeOK  BY <1>1 DEF AllOps, Inv
  <2>3. /\ x \in Handler /\ x.op = "approve" /\ x.team \in Teams /\ x.who \in Participants
        /\ x.mail = NoMail
    <3>1. CASE x = HoldRow("approve", removal[q].team, removal[q].who, q)
      BY <2>a, <2>1, <3>1, HoldRowType
    <3>2. CASE x = Hold("approve", removal[q].team, removal[q].who, q)
      BY <2>a, <2>1, <3>2, HoldType
    <3> QED  BY <2>2, <3>1, <3>2
  <2>4. Holds(x)  BY <2>3, NoMailType DEF Holds
  <2> QED  BY <2>2, <2>3, <2>4, Began
<1>7. ASSUME NEW q \in Requests, BeginReject(h, q)
      PROVE  Inv' /\ UNCHANGED tables
  <2>1. removal[q].team \in Teams /\ removal[q].who \in Participants
    BY <1>7 DEF BeginReject, Inv, Aimed
  <2> DEFINE x == Hold("reject", removal[q].team, removal[q].who, q)
  <2>2. Begin(h, x)  BY <1>7 DEF BeginReject
  <2>3. /\ x \in Handler /\ x.op = "reject" /\ x.team \in Teams /\ x.who \in Participants
        /\ x.mail = NoMail
    BY <1>1, <2>1, HoldType DEF AllOps
  <2> HIDE DEF x
  <2>4. Holds(x)  BY <2>3, NoMailType DEF Holds
  <2> QED  BY <2>2, <2>3, <2>4, Began
<1>8. ASSUME NEW i \in Invitations, BeginAccept(h, i)
      PROVE  Inv' /\ UNCHANGED tables
  <2>1. invitation[i].team \in Teams /\ invitation[i].who \in Participants
    BY <1>8 DEF BeginAccept, Inv, Addressed
  <2> DEFINE x == Hold("accept", invitation[i].team, invitation[i].who, i)
  <2>2. Begin(h, x)  BY <1>8 DEF BeginAccept
  <2>3. /\ x \in Handler /\ x.op = "accept" /\ x.team \in Teams /\ x.who \in Participants
        /\ x.mail = NoMail
    BY <1>1, <2>1, HoldType DEF AllOps
  <2> HIDE DEF x
  <2>4. Holds(x)  BY <2>3, NoMailType DEF Holds
  <2> QED  BY <2>2, <2>3, <2>4, Began
<1>9. ASSUME NEW i \in Invitations, NEW s \in {"declined", "cancelled"}, BeginAnswer(h, i, s)
      PROVE  Inv' /\ UNCHANGED tables
  <2>1. invitation[i].team \in Teams /\ invitation[i].who \in Participants
    BY <1>9 DEF BeginAnswer, Inv, Addressed
  <2> DEFINE y == Hold("answer", invitation[i].team, invitation[i].who, s)
             mail == [NoMail EXCEPT ![i] = invitation[i]]
             x == [y EXCEPT !.mail = mail]
  <2>2. Begin(h, x)  BY <1>9 DEF BeginAnswer
  <2>3. /\ y \in Handler /\ y.op = "answer" /\ y.team \in Teams /\ y.who \in Participants
        /\ y.arg = s
    BY <1>1, <2>1, HoldType DEF AllOps
  <2>4. mail \in [Invitations -> TeamInvitation] /\ Addressed(mail)
    BY NoMailType DEF Addressed, Inv, TypeOK
  <2> HIDE DEF y, mail
  <2>5. /\ x \in Handler /\ x.op = "answer" /\ x.team \in Teams /\ x.who \in Participants
        /\ x.arg = s /\ x.mail = mail
    BY <2>3, <2>4 DEF Handler
  <2> HIDE DEF x
  <2>6. Holds(x)  BY <2>4, <2>5 DEF Holds
  <2> QED  BY <2>2, <2>5, <2>6, Began
<1>10. ASSUME NEW S \in SUBSET Participants, NEW b \in Briefs \cup {Null}, NEW lead \in S,
              NEW co \in S, BeginForm(h, S, lead, co, b)
       PROVE  Inv' /\ UNCHANGED tables
  <2> DEFINE y == Hold("form", Null, Null, Null)
             rows == [p \in Participants |-> IF p \notin S THEN NoMember ELSE
                       [status |-> "confirmed", id |-> 0,
                        role |-> IF p = lead THEN "lead"
                                 ELSE IF p = co THEN "co_lead" ELSE "member"]]
             x == [y EXCEPT !.rows = rows, !.brief = b]
  <2>1. Begin(h, x)  BY <1>10 DEF BeginForm
  <2>2. y \in Handler /\ y.op = "form" /\ y.mail = NoMail
    <3>1. y = [Idle EXCEPT !.op = "form", !.team = Null, !.who = Null, !.arg = Null]
      BY DEF Hold
    <3>2. Idle \in Handler /\ Idle.mail = NoMail  BY IdleHolds DEF Idle
    <3> HIDE DEF y
    <3> QED  BY <3>1, <3>2 DEF Handler, AllOps
  <2>3. rows \in [Participants -> TeamMember]
    <3>1. 0 \in Ids  BY FiniteAssumption, FS_CardinalityType DEF Ids
    <3> QED  BY <3>1, NoRowType DEF TeamMember, TeamRole
  <2> HIDE DEF y, rows
  <2>4. x \in Handler /\ x.op = "form" /\ x.mail = NoMail  BY <2>2, <2>3 DEF Handler
  <2> HIDE DEF x
  <2>5. Holds(x)  BY <2>4, NoMailType DEF Holds
  <2> QED  BY <2>1, <2>4, <2>5, Began
<1> QED  BY <1>2, <1>3, <1>4, <1>5, <1>6, <1>7, <1>8, <1>9, <1>10, ByParticipantStep
      DEF Beginning

-----------------------------------------------------------------------------
(* Tables of members, and what the index and the trigger leave of them.     *)

Members == [Teams -> [Participants -> TeamMember]]
Confirmed(rows, t) == Rows(rows[t], {"confirmed"})
Fits(rows) ==
  /\ \A t \in Teams : Cardinality(Confirmed(rows, t)) <= TeamSizeMax
  /\ \A t, u \in Teams, p \in Participants :
       rows[t][p].status = "confirmed" /\ rows[u][p].status = "confirmed" => t = u

LEMMA ConfirmedFinite ==
  ASSUME NEW rows, NEW t
  PROVE  /\ IsFiniteSet(Confirmed(rows, t)) /\ Cardinality(Confirmed(rows, t)) \in Nat
         /\ \A p : p \in Confirmed(rows, t) <=>
                     p \in Participants /\ rows[t][p].status = "confirmed"
<1>1. \A p : p \in Confirmed(rows, t) <=>
               p \in Participants /\ rows[t][p].status = "confirmed"
  BY DEF Confirmed, Rows
<1>2. Confirmed(rows, t) \in SUBSET Participants  BY <1>1
<1> QED  BY <1>1, <1>2, FiniteAssumption, FS_Subset, FS_CardinalityType

\* Who becomes a confirmed member was accepted: then the tables still fit.
LEMMA Admission ==
  ASSUME NEW m, NEW n, Fits(m),
         \A t \in Teams, p \in Participants : n[t][p].status = "confirmed" =>
           m[t][p].status = "confirmed" \/ MemberAccepted(n, t, p)
  PROVE  Fits(n)
<1>1. ASSUME NEW t \in Teams PROVE Cardinality(Confirmed(n, t)) <= TeamSizeMax
  <2>1. CASE \E p \in Participants : n[t][p].status = "confirmed" /\ MemberAccepted(n, t, p)
    <3>1. PICK p \in Participants : n[t][p].status = "confirmed" /\ MemberAccepted(n, t, p)
      BY <2>1
    <3> DEFINE C == Confirmed(n, t)
    <3>2. Cardinality(C \ {p}) < TeamSizeMax  BY <3>1 DEF MemberAccepted, HasSeat, Confirmed
    <3>3. IsFiniteSet(C) /\ Cardinality(C) \in Nat /\ p \in C  BY <3>1, ConfirmedFinite
    <3> HIDE DEF C
    <3>4. Cardinality(C \ {p}) = Cardinality(C) - 1  BY <3>3, FS_RemoveElement
    <3>5. Cardinality(C) <= TeamSizeMax  BY <3>2, <3>3, <3>4, SizeAssumption
    <3> QED  BY <3>5 DEF C
  <2>2. CASE \A p \in Participants : n[t][p].status = "confirmed" => m[t][p].status = "confirmed"
    <3>1. Confirmed(n, t) \in SUBSET Confirmed(m, t)  BY <2>2, ConfirmedFinite
    <3>2. Cardinality(Confirmed(n, t)) <= Cardinality(Confirmed(m, t))
      BY <3>1, ConfirmedFinite, FS_Subset
    <3>3. Cardinality(Confirmed(m, t)) <= TeamSizeMax  BY DEF Fits
    <3>4. Cardinality(Confirmed(n, t)) \in Nat /\ Cardinality(Confirmed(m, t)) \in Nat
      BY ConfirmedFinite
    <3> QED  BY <3>2, <3>3, <3>4, SizeAssumption
  <2> QED  BY <2>1, <2>2
<1>2. ASSUME NEW t \in Teams, NEW u \in Teams, NEW p \in Participants,
             n[t][p].status = "confirmed", n[u][p].status = "confirmed"
      PROVE  t = u
  <2>1. CASE MemberAccepted(n, t, p) \/ MemberAccepted(n, u, p)
    BY <1>2, <2>1 DEF MemberAccepted, OneTeam
  <2>2. CASE m[t][p].status = "confirmed" /\ m[u][p].status = "confirmed"
    BY <2>2 DEF Fits
  <2> QED  BY <1>2, <2>1, <2>2
<1> QED  BY <1>1, <1>2 DEF Fits

Put(m, t, p, row) == [m EXCEPT ![t][p] = row]

\* One row is written, and accepted.
LEMMA OneRow ==
  ASSUME NEW m \in Members, NEW n, NEW t \in Teams, NEW p \in Participants,
         NEW row \in TeamMember, n = Put(m, t, p, row)
  PROVE  /\ n \in Members
         /\ Fits(m) /\ MemberAccepted(n, t, p) => Fits(n)
         /\ n[t][p] = row
         /\ \A u \in Teams, q \in Participants : u # t \/ q # p => n[u][q] = m[u][q]
<1>1. n \in Members /\ n[t][p] = row  BY DEF Members, Put
<1>2. \A u \in Teams, q \in Participants : u # t \/ q # p => n[u][q] = m[u][q]
  BY DEF Members, Put
<1>3. ASSUME Fits(m), MemberAccepted(n, t, p) PROVE Fits(n)
  <2>1. \A u \in Teams, q \in Participants : n[u][q].status = "confirmed" =>
          m[u][q].status = "confirmed" \/ MemberAccepted(n, u, q)
    BY <1>2, <1>3
  <2> QED  BY <1>3, <2>1, Admission
<1> QED  BY <1>1, <1>2, <1>3

LEMMA NewMemberType ==
  ASSUME NEW t, NEW p, NEW s \in {"pending", "confirmed"}, NEW r \in TeamRole
  PROVE  NewMember(t, p, s, r) \in TeamMember /\ NewMember(t, p, s, r).status = s
BY FreshIdType DEF NewMember, TeamMember

LEMMA SaveRow ==
  ASSUME NEW m \in Members, NEW n, NEW t \in Teams, NEW p \in Participants,
         NEW row \in TeamMember, n = Save(m, t, p, row)
  PROVE  n \in Members /\ (Fits(m) /\ MemberAccepted(n, t, p) => Fits(n))
<1> DEFINE new == IF m[t][p].status = "removed" THEN m[t][p] ELSE row
<1>1. n = Put(m, t, p, new)  BY DEF Save, Put
<1>2. new \in TeamMember  BY DEF Members
<1> HIDE DEF new
<1> QED  BY <1>1, <1>2, OneRow

\* Rows that are removed take nothing.
LEMMA FewerRows ==
  ASSUME NEW m, NEW n, Fits(m), \A t \in Teams, p \in Participants :
           n[t][p].status = "confirmed" => m[t][p].status = "confirmed"
  PROVE  Fits(n)
BY Admission

LEMMA RemoveRow ==
  ASSUME NEW m \in Members, NEW n, NEW t \in Teams, NEW p \in Participants, NEW row,
         n = Remove(m, t, p, row)
  PROVE  n \in Members /\ (Fits(m) => Fits(n))
<1> DEFINE new == IF Stored(m, t, p, row) THEN NoMember ELSE m[t][p]
<1>1. n = Put(m, t, p, new)  BY DEF Remove, Put
<1>2. new \in TeamMember /\ (new.status = "confirmed" => m[t][p].status = "confirmed")
  BY NoRowType DEF Members, NoMember
<1> HIDE DEF new
<1>3. n \in Members /\ n[t][p] = new
      /\ \A u \in Teams, q \in Participants : u # t \/ q # p => n[u][q] = m[u][q]
  BY <1>1, <1>2, OneRow
<1>4. \A u \in Teams, q \in Participants :
        n[u][q].status = "confirmed" => m[u][q].status = "confirmed"
  BY <1>2, <1>3
<1> QED  BY <1>3, <1>4, FewerRows

LEMMA SoftRemoved ==
  ASSUME NEW m \in Members, NEW n, NEW t \in Teams, NEW seen, n = SoftRemove(m, t, seen)
  PROVE  n \in Members /\ (Fits(m) => Fits(n))
<1> DEFINE gone(p) == [m[t][p] EXCEPT !.status = "removed", !.role = "member"]
           new == [p \in Participants |->
                     IF seen[p].status # "none" /\ Stored(m, t, p, seen[p])
                     THEN gone(p) ELSE m[t][p]]
<1>1. \A p \in Participants : gone(p) \in TeamMember /\ gone(p).status = "removed"
  <2> TAKE p \in Participants
  <2>1. m[t][p] \in TeamMember  BY DEF Members
  <2> QED  BY <2>1 DEF TeamMember, TeamRole
<1>2. n = [m EXCEPT ![t] = new]  BY DEF SoftRemove
<1> HIDE DEF gone
<1>3. new \in [Participants -> TeamMember]
      /\ \A p \in Participants : new[p].status = "confirmed" => m[t][p].status = "confirmed"
  BY <1>1 DEF Members
<1> HIDE DEF new
<1>4. n \in Members  BY <1>2, <1>3 DEF Members
<1>5. \A u \in Teams, q \in Participants :
        n[u][q].status = "confirmed" => m[u][q].status = "confirmed"
  BY <1>2, <1>3 DEF Members
<1> QED  BY <1>4, <1>5, FewerRows

LEMMA Unlinked ==
  ASSUME TypeOK, Aimed, NEW rows
  PROVE  /\ Unlink(rows) \in [Requests -> RemovalRequest]
         /\ \A q \in Requests : Unlink(rows)[q] # NoRequest =>
              Unlink(rows)[q].team \in Teams /\ Unlink(rows)[q].who \in Participants
<1>1. \A q \in Requests : removal[q] \in RemovalRequest  BY DEF TypeOK
<1>2. ASSUME NEW q \in Requests
      PROVE  /\ Unlink(rows)[q] \in RemovalRequest
             /\ Unlink(rows)[q] # NoRequest =>
                  Unlink(rows)[q].team \in Teams /\ Unlink(rows)[q].who \in Participants
  <2>1. CASE Unlink(rows)[q] = removal[q]  BY <1>1, <2>1 DEF Aimed
  <2>2. CASE /\ Unlink(rows)[q] = [removal[q] EXCEPT !.linked = FALSE]
             /\ removal[q].linked
    <3>1. removal[q] # NoRequest  BY <2>2 DEF NoRequest
    <3> QED  BY <1>1, <2>2, <3>1 DEF RemovalRequest, Aimed
  <2> QED  BY <2>1, <2>2 DEF Unlink
<1>3. Unlink(rows) = [q \in Requests |-> Unlink(rows)[q]]  BY DEF Unlink
<1> QED  BY <1>2, <1>3

-----------------------------------------------------------------------------
(* Working teams and what the trigger of teams leaves of them.              *)

BriefFits(teams) == \A b \in Briefs : Cardinality(Working(teams, b)) <= MaxTeams

LEMMA WorkingFinite ==
  ASSUME NEW teams, NEW b
  PROVE  IsFiniteSet(Working(teams, b)) /\ Cardinality(Working(teams, b)) \in Nat
<1>1. Working(teams, b) \in SUBSET Teams  BY DEF Working
<1> QED  BY <1>1, FiniteAssumption, FS_Subset, FS_CardinalityType

LEMMA BriefAdmission ==
  ASSUME NEW m, NEW n, BriefFits(m),
         \A b \in Briefs : \A t \in Working(n, b) : t \in Working(m, b) \/ BriefAccepted(n, t)
  PROVE  BriefFits(n)
<1> SUFFICES ASSUME NEW b \in Briefs PROVE Cardinality(Working(n, b)) <= MaxTeams
  BY DEF BriefFits
<1>1. CASE \E t \in Working(n, b) : BriefAccepted(n, t)
  <2>1. PICK t \in Working(n, b) : BriefAccepted(n, t)  BY <1>1
  <2> DEFINE W == Working(n, b)
  <2>2. n[t].status \in {"forming", "active"} /\ n[t].brief = b /\ b # Null
    BY NullAssumption DEF Working
  <2>3. Cardinality(W \ {t}) < MaxTeams  BY <2>1, <2>2 DEF BriefAccepted
  <2>4. IsFiniteSet(W) /\ Cardinality(W) \in Nat /\ t \in W  BY WorkingFinite
  <2> HIDE DEF W
  <2>5. Cardinality(W \ {t}) = Cardinality(W) - 1  BY <2>4, FS_RemoveElement
  <2>6. Cardinality(W) <= MaxTeams  BY <2>3, <2>4, <2>5, SizeAssumption
  <2> QED  BY <2>6 DEF W
<1>2. CASE Working(n, b) \subseteq Working(m, b)
  <2>1. Working(n, b) \in SUBSET Working(m, b)  BY <1>2
  <2>2. Cardinality(Working(n, b)) <= Cardinality(Working(m, b))
    BY <2>1, WorkingFinite, FS_Subset
  <2>3. Cardinality(Working(m, b)) <= MaxTeams  BY DEF BriefFits
  <2>4. Cardinality(Working(n, b)) \in Nat /\ Cardinality(Working(m, b)) \in Nat
    BY WorkingFinite
  <2> QED  BY <2>2, <2>3, <2>4, SizeAssumption
<1> QED  BY <1>1, <1>2

\* One team is written, accepted or not at work.
LEMMA OneTeamRow ==
  ASSUME NEW m \in [Teams -> Team], NEW n, NEW t \in Teams, NEW row \in Team,
         n = [m EXCEPT ![t] = row]
  PROVE  /\ n \in [Teams -> Team]
         /\ BriefFits(m) /\ BriefAccepted(n, t) => BriefFits(n)
<1>1. n \in [Teams -> Team] /\ \A u \in Teams \ {t} : n[u] = m[u]  OBVIOUS
<1>2. ASSUME BriefFits(m), BriefAccepted(n, t) PROVE BriefFits(n)
  <2>1. ASSUME NEW b \in Briefs, NEW u \in Working(n, b)
        PROVE  u \in Working(m, b) \/ BriefAccepted(n, u)
    <3>1. u \in Teams /\ n[u].status \in {"forming", "active"} /\ n[u].brief = b
      BY DEF Working
    <3>2. CASE u # t
      <4>1. m[u] = n[u]  BY <1>1, <3>1, <3>2
      <4> QED  BY <3>1, <4>1 DEF Working
    <3> QED  BY <1>2, <3>2
  <2> QED  BY <1>2, <2>1, BriefAdmission
<1> QED  BY <1>1, <1>2

\* A brief given or left alone, a status that keeps a team from work.
LEMMA IdleTeam ==
  ASSUME NEW n, NEW t, n[t].brief = Null \/ n[t].status \notin {"forming", "active"}
  PROVE  BriefAccepted(n, t)
BY DEF BriefAccepted

-----------------------------------------------------------------------------
(* The second step of a handler.                                            *)

\* Everything the properties need of a step.
Kept == /\ Inv'
        /\ Fits(member) => Fits(member')
        /\ BriefFits(team) => BriefFits(team')

AimedAt(rem) == \A q \in Requests : rem[q] # NoRequest =>
                  rem[q].team \in Teams /\ rem[q].who \in Participants
Free(h) == handler' = [handler EXCEPT ![h] = Idle]

LEMMA Finished ==
  ASSUME Inv, NEW h \in Handlers, Free(h),
         team' \in [Teams -> Team], member' \in Members,
         standing' \in [Participants -> {"ready", "assigned"}],
         chat' \in [Teams -> SUBSET Participants],
         invitation' \in [Invitations -> TeamInvitation], Addressed(invitation'),
         removal' \in [Requests -> RemovalRequest], AimedAt(removal')
  PROVE  Inv'
<1>1. handler' \in [Handlers -> Handler]  BY IdleHolds DEF Inv, TypeOK, Free
<1>2. TypeOK'  BY <1>1 DEF TypeOK, Members
<1>3. \A g \in Handlers : Holds(handler'[g])  BY IdleHolds DEF Inv, TypeOK, Free
<1>4. Addressed(invitation)' /\ Aimed'  BY DEF Addressed, Aimed, AimedAt
<1> QED  BY <1>2, <1>3, <1>4 DEF Inv

LEMMA Now ==
  ASSUME Inv
  PROVE  /\ team \in [Teams -> Team] /\ member \in Members
         /\ standing \in [Participants -> {"ready", "assigned"}]
         /\ chat \in [Teams -> SUBSET Participants]
         /\ invitation \in [Invitations -> TeamInvitation] /\ Addressed(invitation)
         /\ removal \in [Requests -> RemovalRequest] /\ AimedAt(removal)
         /\ \A h \in Handlers : handler[h] \in Handler /\ Holds(handler[h])
         /\ TypeOK /\ Aimed
BY DEF Inv, TypeOK, Members, Aimed, AimedAt

\* The participant and the team of a handler.
LEMMA Target ==
  ASSUME Inv, NEW h \in Handlers, NEW o \in AllOps, Finish(h, o)
  PROVE  /\ Free(h)
         /\ o \notin {"form", "save", "assign", "delete", "chat"} =>
              handler[h].who \in Participants
         /\ o \notin {"form", "create"} => handler[h].team \in Teams
         /\ o \in {"add", "role"} => handler[h].arg \in TeamRole
         /\ o = "save" => handler[h].arg \in TeamStatus
         /\ o = "answer" => handler[h].arg \in {"declined", "cancelled"}
         /\ handler[h].rows \in [Participants -> TeamMember]
         /\ handler[h].mail \in [Invitations -> TeamInvitation] /\ Addressed(handler[h].mail)
         /\ handler[h].brief \in Briefs \cup {Null}
<1>1. handler[h].op = o /\ Free(h)  BY DEF Finish, Free
<1>2. handler[h] \in Handler /\ Holds(handler[h])  BY Now
<1>3. o # "idle"  BY DEF AllOps
<1> QED  BY <1>1, <1>2, <1>3 DEF Handler, Holds

LEMMA StandingType ==
  ASSUME Inv, NEW S, NEW s \in {"ready", "assigned"}
  PROVE  /\ \A p : [standing EXCEPT ![p] = s] \in [Participants -> {"ready", "assigned"}]
         /\ [p \in Participants |-> IF p \in S THEN s ELSE standing[p]]
              \in [Participants -> {"ready", "assigned"}]
BY Now

LEMMA ChatType ==
  ASSUME Inv, NEW t \in Teams, NEW p \in Participants
  PROVE  /\ Admit(t, p) \in [Teams -> SUBSET Participants]
         /\ Expel(t, p) \in [Teams -> SUBSET Participants]
BY Now DEF Admit, Expel

LEMMA CreateStep ==
  ASSUME Inv, NEW h \in Handlers, NEW t \in Teams, FinishCreate(h, t) PROVE Kept
<1> DEFINE p == handler[h].who
           row == NewMember(t, p, "confirmed", "lead")
           new == [status |-> "forming", brief |-> Null, channel |-> "open"]
<1>1. /\ Finish(h, "create") /\ team' = [team EXCEPT ![t] = new]
      /\ member' = [member EXCEPT ![t][p] = row] /\ MemberAccepted(member', t, p)
      /\ standing' = [standing EXCEPT ![p] = "assigned"]
      /\ chat' = [chat EXCEPT ![t] = {p}] /\ UNCHANGED <<invitation, removal>>
  BY DEF FinishCreate
<1>2. p \in Participants /\ Free(h)  BY <1>1, Target DEF AllOps
<1>3. new \in Team /\ row \in TeamMember  BY NewMemberType DEF Team, TeamRole, TeamStatus
<1> HIDE DEF p, row
<1>a. member' = Put(member, t, p, row)  BY <1>1 DEF Put
<1>4. member' \in Members /\ (Fits(member) => Fits(member'))
  BY <1>a, <1>1, <1>2, <1>3, OneRow, Now
<1>b. team'[t].brief = Null  BY <1>1, Now
<1>5. BriefAccepted(team', t)  BY <1>b, IdleTeam
<1>6. team' \in [Teams -> Team] /\ (BriefFits(team) => BriefFits(team'))
  <2> HIDE DEF new
  <2> QED  BY <1>1, <1>3, <1>5, OneTeamRow, Now
<1>7. standing' \in [Participants -> {"ready", "assigned"}]  BY <1>1, StandingType
<1>8. chat' \in [Teams -> SUBSET Participants]  BY <1>1, <1>2, Now
<1>9. Inv'  BY <1>1, <1>2, <1>4, <1>6, <1>7, <1>8, Finished, Now
<1> QED  BY <1>4, <1>6, <1>9 DEF Kept

LEMMA JoinStep == ASSUME Inv, NEW h \in Handlers, FinishJoin(h) PROVE Kept
<1> DEFINE t == handler[h].team
           p == handler[h].who
           row == NewMember(t, p, "pending", "member")
<1>1. PICK o \in {"join", "backfill"} : Finish(h, o)  BY DEF FinishJoin
<1>2. /\ member' = [member EXCEPT ![t][p] = row]
      /\ UNCHANGED <<team, standing, chat, invitation, removal>>
  BY DEF FinishJoin
<1>3. p \in Participants /\ t \in Teams /\ Free(h)  BY <1>1, Target DEF AllOps
<1>4. row \in TeamMember /\ row.status = "pending"  BY NewMemberType DEF TeamRole
<1> HIDE DEF p, t, row
<1>a. member' = Put(member, t, p, row)  BY <1>2 DEF Put
<1>5. /\ member' \in Members /\ member'[t][p] = row
      /\ \A u \in Teams, q \in Participants : u # t \/ q # p => member'[u][q] = member[u][q]
  <2>1. member \in Members  BY Now
  <2>2. p \in Participants /\ t \in Teams /\ row \in TeamMember  BY <1>3, <1>4
  <2> QED  BY <1>a, <2>1, <2>2, OneRow, SMTT(30)
<1>6. Fits(member) => Fits(member')  BY <1>4, <1>5, FewerRows
<1>7. Inv'  BY <1>2, <1>3, <1>5, Finished, Now
<1> QED  BY <1>2, <1>6, <1>7 DEF Kept

LEMMA ConfirmStep == ASSUME Inv, NEW h \in Handlers, FinishConfirm(h) PROVE Kept
<1> DEFINE t == handler[h].team
           p == handler[h].who
           row == [handler[h].rows[p] EXCEPT !.status = "confirmed"]
           rows == Save(member, t, p, row)
<1>1. /\ Finish(h, "confirm") /\ MemberAccepted(rows, t, p)
      /\ member' = [u \in Teams |->
                      IF u # t /\ rows[u][p].status = "pending"
                      THEN [rows[u] EXCEPT ![p] = NoMember] ELSE rows[u]]
      /\ standing' = [standing EXCEPT ![p] = "assigned"]
      /\ chat' = Admit(t, p) /\ removal' = Unlink(member') /\ UNCHANGED <<team, invitation>>
  BY DEF FinishConfirm
<1>2. /\ p \in Participants /\ t \in Teams /\ Free(h)
      /\ handler[h].rows \in [Participants -> TeamMember]
  BY <1>1, Target DEF AllOps
<1>3. row \in TeamMember  BY <1>2 DEF TeamMember
<1> HIDE DEF p, t, row
<1>4. rows \in Members /\ (Fits(member) => Fits(rows))
  BY <1>1, <1>2, <1>3, SaveRow, Now
<1> HIDE DEF rows
<1>5. member' \in Members  BY <1>1, <1>2, <1>4, NoRowType DEF Members
<1>6. \A u \in Teams, q \in Participants :
        member'[u][q].status = "confirmed" => rows[u][q].status = "confirmed"
  <2> TAKE u \in Teams, q \in Participants
  <2>1. member'[u][q] = rows[u][q] \/ member'[u][q] = NoMember
    BY <1>1, <1>2, <1>4 DEF Members
  <2> QED  BY <2>1 DEF NoMember
<1>7. Fits(rows) => Fits(member')  BY <1>6, FewerRows
<1>8. removal' \in [Requests -> RemovalRequest] /\ AimedAt(removal')
  BY <1>1, Unlinked, Now DEF AimedAt
<1>9. Inv'
  BY <1>1, <1>2, <1>5, <1>8, StandingType, ChatType, Finished, Now
<1> QED  BY <1>1, <1>4, <1>7, <1>9 DEF Kept

LEMMA DeclineStep == ASSUME Inv, NEW h \in Handlers, FinishDecline(h) PROVE Kept
<1> DEFINE t == handler[h].team
           p == handler[h].who
           row == handler[h].rows[p]
<1>1. PICK o \in {"decline", "dismiss"} : Finish(h, o)  BY DEF FinishDecline
<1>2. /\ member' = Remove(member, t, p, row) /\ removal' = Unlink(member')
      /\ UNCHANGED <<team, standing, chat, invitation>>
  BY DEF FinishDecline
<1>3. p \in Participants /\ t \in Teams /\ Free(h)  BY <1>1, Target DEF AllOps
<1> HIDE DEF p, t, row
<1>4. member' \in Members /\ (Fits(member) => Fits(member'))
  BY <1>2, <1>3, RemoveRow, Now
<1>5. removal' \in [Requests -> RemovalRequest] /\ AimedAt(removal')
  BY <1>2, Unlinked, Now DEF AimedAt
<1>6. Inv'  BY <1>2, <1>3, <1>4, <1>5, Finished, Now
<1> QED  BY <1>2, <1>4, <1>6 DEF Kept

LEMMA RequestStep ==
  ASSUME Inv, NEW h \in Handlers, NEW q \in Requests, FinishRequest(h, q) PROVE Kept
<1> DEFINE t == handler[h].team
           p == handler[h].who
           new == [team |-> t, who |-> p, linked |-> TRUE]
<1>1. /\ Finish(h, "request") /\ removal' = [removal EXCEPT ![q] = new]
      /\ UNCHANGED <<team, member, standing, chat, invitation>>
  BY DEF FinishRequest
<1>2. p \in Participants /\ t \in Teams /\ Free(h)  BY <1>1, Target DEF AllOps
<1> HIDE DEF p, t
<1>3. new \in RemovalRequest /\ new.team \in Teams /\ new.who \in Participants
  BY <1>2 DEF RemovalRequest
<1> HIDE DEF new
<1>4. removal' \in [Requests -> RemovalRequest] /\ AimedAt(removal')
  BY <1>1, <1>3, Now DEF AimedAt
<1>5. Inv'  BY <1>1, <1>2, <1>4, Finished, Now
<1> QED  BY <1>1, <1>5 DEF Kept

LEMMA NoRequestType == NoRequest \in RemovalRequest
BY DEF NoRequest, RemovalRequest

LEMMA ApproveStep == ASSUME Inv, NEW h \in Handlers, FinishApprove(h) PROVE Kept
<1> DEFINE t == handler[h].team
           p == handler[h].who
           row == handler[h].rows[p]
           found == row.status # "none"
           rem == Unlink(member')
<1>1. /\ Finish(h, "approve")
      /\ member' = IF found THEN Remove(member, t, p, row) ELSE member
      /\ standing' = IF found THEN [standing EXCEPT ![p] = "ready"] ELSE standing
      /\ chat' = IF found THEN Expel(t, p) ELSE chat
      /\ removal' = [rem EXCEPT ![handler[h].arg] = NoRequest]
      /\ UNCHANGED <<team, invitation>>
  BY DEF FinishApprove
<1>2. p \in Participants /\ t \in Teams /\ Free(h)  BY <1>1, Target DEF AllOps
<1>3. rem \in [Requests -> RemovalRequest] /\ AimedAt(rem)
  BY Unlinked, Now DEF AimedAt
<1> HIDE DEF p, t, row, rem
<1>4. member' \in Members /\ (Fits(member) => Fits(member'))
  BY <1>1, <1>2, RemoveRow, Now
<1>5. removal' \in [Requests -> RemovalRequest] /\ AimedAt(removal')
  <2> DEFINE a == handler[h].arg
  <2> HIDE DEF a
  <2>1. removal' = [rem EXCEPT ![a] = NoRequest]  BY <1>1 DEF a
  <2> QED  BY <2>1, <1>3, NoRequestType DEF AimedAt
<1>6. chat' \in [Teams -> SUBSET Participants]
      /\ standing' \in [Participants -> {"ready", "assigned"}]
  BY <1>1, <1>2, StandingType, ChatType, Now
<1>7. Inv'  BY <1>1, <1>2, <1>4, <1>5, <1>6, Finished, Now
<1> QED  BY <1>1, <1>4, <1>7 DEF Kept

LEMMA RejectStep == ASSUME Inv, NEW h \in Handlers, FinishReject(h) PROVE Kept
<1> DEFINE a == handler[h].arg
<1>1. /\ Finish(h, "reject") /\ removal' = [removal EXCEPT ![a] = NoRequest]
      /\ UNCHANGED <<team, member, standing, chat, invitation>>
  BY DEF FinishReject
<1>2. Free(h)  BY <1>1 DEF Finish, Free
<1> HIDE DEF a
<1>3. removal' \in [Requests -> RemovalRequest] /\ AimedAt(removal')
  BY <1>1, NoRequestType, Now DEF AimedAt
<1>4. Inv'  BY <1>1, <1>2, <1>3, Finished, Now
<1> QED  BY <1>1, <1>4 DEF Kept

LEMMA InviteStep ==
  ASSUME Inv, NEW h \in Handlers, NEW i \in Invitations, FinishInvite(h, i) PROVE Kept
<1> DEFINE sent == [team |-> handler[h].team, who |-> handler[h].who,
                    status |-> "pending", expired |-> FALSE]
<1>1. /\ Finish(h, "invite") /\ invitation' = [invitation EXCEPT ![i] = sent]
      /\ UNCHANGED <<team, member, standing, chat, removal>>
  BY DEF FinishInvite
<1>2. /\ handler[h].who \in Participants /\ handler[h].team \in Teams /\ Free(h)
  BY <1>1, Target DEF AllOps
<1>3. sent \in TeamInvitation /\ sent.team \in Teams /\ sent.who \in Participants
  BY <1>2 DEF TeamInvitation
<1> HIDE DEF sent
<1>4. invitation' \in [Invitations -> TeamInvitation] /\ Addressed(invitation')
  BY <1>1, <1>3, Now DEF Addressed
<1>5. Inv'  BY <1>1, <1>2, <1>4, Finished, Now
<1> QED  BY <1>1, <1>5 DEF Kept

\* An answer leaves an invitation that is not pending.
LEMMA AnsweredType ==
  ASSUME Inv, NEW i, NEW s \in {"accepted", "declined", "cancelled"}
  PROVE  /\ Answered(invitation, i, s) \in [Invitations -> TeamInvitation]
         /\ Addressed(Answered(invitation, i, s))
<1> DEFINE old == invitation[i]
           new == IF old.status = "deleted" THEN old
                  ELSE [old EXCEPT !.status = s, !.expired = FALSE]
<1>1. Answered(invitation, i, s) = [invitation EXCEPT ![i] = new]  BY DEF Answered
<1>2. i \in Invitations => new \in TeamInvitation /\ new.status # "pending"
  <2> SUFFICES ASSUME i \in Invitations PROVE new \in TeamInvitation /\ new.status # "pending"
    OBVIOUS
  <2>1. old \in TeamInvitation  BY Now
  <2> QED  BY <2>1 DEF TeamInvitation
<1> HIDE DEF new
<1> QED  BY <1>1, <1>2, Now DEF Addressed

LEMMA AcceptStep == ASSUME Inv, NEW h \in Handlers, FinishAccept(h) PROVE Kept
<1> DEFINE t == handler[h].team
           p == handler[h].who
           row == NewMember(t, p, "confirmed", "member")
           answered == Answered(invitation, handler[h].arg, "accepted")
           revoked(j) == [invitation[j] EXCEPT !.status = "cancelled", !.expired = FALSE]
           mail == [j \in Invitations |->
                      IF invitation[j].who = p /\ invitation[j].status = "pending"
                         /\ j # handler[h].arg
                      THEN revoked(j) ELSE answered[j]]
<1>1. /\ Finish(h, "accept") /\ member' = [member EXCEPT ![t][p] = row]
      /\ MemberAccepted(member', t, p) /\ invitation' = mail
      /\ standing' = [standing EXCEPT ![p] = "assigned"]
      /\ UNCHANGED <<team, chat, removal>>
  BY DEF FinishAccept
<1>2. p \in Participants /\ t \in Teams /\ Free(h)  BY <1>1, Target DEF AllOps
<1>3. row \in TeamMember  BY NewMemberType DEF TeamRole
<1>4. answered \in [Invitations -> TeamInvitation] /\ Addressed(answered)
  BY AnsweredType
<1>5. \A j \in Invitations : revoked(j) \in TeamInvitation /\ revoked(j).status = "cancelled"
  <2> TAKE j \in Invitations
  <2>1. invitation[j] \in TeamInvitation  BY Now
  <2> QED  BY <2>1 DEF TeamInvitation
<1> HIDE DEF answered, revoked
<1>6. mail \in [Invitations -> TeamInvitation] /\ Addressed(mail)
  BY <1>4, <1>5 DEF Addressed
<1> HIDE DEF p, t, row, mail
<1>7. member' = Put(member, t, p, row)  BY <1>1 DEF Put
<1>8. member' \in Members /\ (Fits(member) => Fits(member'))
  BY <1>1, <1>2, <1>3, <1>7, OneRow, Now
<1>9. Inv'  BY <1>1, <1>2, <1>6, <1>8, StandingType, Finished, Now
<1> QED  BY <1>1, <1>8, <1>9 DEF Kept

LEMMA AnswerStep == ASSUME Inv, NEW h \in Handlers, FinishAnswer(h) PROVE Kept
<1> DEFINE i == CHOOSE j \in Invitations : handler[h].mail[j] # NoInvitation
<1>1. /\ Finish(h, "answer") /\ invitation' = Answered(invitation, i, handler[h].arg)
      /\ UNCHANGED <<team, member, standing, chat, removal>>
  BY DEF FinishAnswer
<1>2. handler[h].arg \in {"declined", "cancelled"} /\ Free(h)
  BY <1>1, Target DEF AllOps
<1> HIDE DEF i
<1>3. invitation' \in [Invitations -> TeamInvitation] /\ Addressed(invitation')
  BY <1>1, <1>2, AnsweredType
<1>4. Inv'  BY <1>1, <1>2, <1>3, Finished, Now
<1> QED  BY <1>1, <1>4 DEF Kept

LEMMA SaveStep == ASSUME Inv, NEW h \in Handlers, FinishSave(h) PROVE Kept
<1> DEFINE t == handler[h].team
           seen == handler[h].rows
           held == handler[h].mail
           new(p) == IF seen[p].status # "none" THEN Save(member, t, p, seen[p])[t][p]
                                                ELSE member[t][p]
           rows == [member EXCEPT ![t] = [p \in Participants |-> new(p)]]
           old(i) == [held[i] EXCEPT !.expired = @ \/ invitation[i].expired]
           mail == [i \in Invitations |->
                      IF held[i] = NoInvitation \/ invitation[i].status = "deleted"
                      THEN invitation[i] ELSE old(i)]
           status == IF team[t].status = "deleted" THEN team[t].status ELSE handler[h].arg
           teams == [team EXCEPT ![t].status = IF @ = "deleted" THEN @ ELSE handler[h].arg,
                                 ![t].brief = handler[h].brief]
<1>1. /\ Finish(h, "save")
      /\ \A p \in Participants : rows[t][p] # member[t][p] => MemberAccepted(rows, t, p)
      /\ BriefAccepted(teams, t)
      /\ team' = teams /\ member' = rows /\ invitation' = mail
      /\ UNCHANGED <<standing, chat, removal>>
  BY DEF FinishSave
<1>2. /\ t \in Teams /\ Free(h) /\ handler[h].arg \in TeamStatus
      /\ seen \in [Participants -> TeamMember]
      /\ held \in [Invitations -> TeamInvitation] /\ Addressed(held)
      /\ handler[h].brief \in Briefs \cup {Null}
  BY <1>1, Target DEF AllOps
<1>3. \A p \in Participants : new(p) \in TeamMember
  <2> TAKE p \in Participants
  <2>1. member[t][p] \in TeamMember /\ seen[p] \in TeamMember  BY <1>2, Now DEF Members
  <2>2. Save(member, t, p, seen[p]) \in Members  BY <1>2, <2>1, SaveRow, Now
  <2> QED  BY <1>2, <2>1, <2>2 DEF Members
<1>4. \A i \in Invitations : /\ old(i) \in TeamInvitation /\ old(i).status = held[i].status
                             /\ old(i).team = held[i].team /\ old(i).who = held[i].who
  <2> TAKE i \in Invitations
  <2>1. held[i] \in TeamInvitation /\ invitation[i] \in TeamInvitation  BY <1>2, Now
  <2> QED  BY <2>1 DEF TeamInvitation
<1>5. mail \in [Invitations -> TeamInvitation] /\ Addressed(mail)
  <2> HIDE DEF old, held
  <2> QED  BY <1>2, <1>4, Now DEF Addressed
<1> HIDE DEF new, mail
<1>6. rows \in Members /\ \A u \in Teams \ {t} : rows[u] = member[u]
  BY <1>2, <1>3, Now DEF Members
<1>7. Fits(member) => Fits(rows)
  <2> SUFFICES ASSUME Fits(member) PROVE Fits(rows)  OBVIOUS
  <2>1. \A u \in Teams, p \in Participants : rows[u][p].status = "confirmed" =>
          member[u][p].status = "confirmed" \/ MemberAccepted(rows, u, p)
    <3> HIDE DEF rows, t
    <3> QED  BY <1>1, <1>6
  <2> HIDE DEF rows
  <2> QED  BY <2>1, Admission
<1>8. teams \in [Teams -> Team] /\ (BriefFits(team) => BriefFits(teams))
  <2> DEFINE one == [team[t] EXCEPT !.status = status, !.brief = handler[h].brief]
  <2>1. team[t] \in Team  BY <1>2, Now
  <2>2. status \in TeamStatus \cup {"deleted"}  BY <1>2
  <2>3. teams = [team EXCEPT ![t] = one]  BY <1>2, Now
  <2> HIDE DEF status
  <2>4. one \in Team  BY <1>2, <2>1, <2>2 DEF Team
  <2> HIDE DEF one, teams, t
  <2>5. t \in Teams /\ BriefAccepted(teams, t) /\ team \in [Teams -> Team]
    BY <1>1, <1>2, Now
  <2> QED  BY <2>3, <2>4, <2>5, OneTeamRow
<1> HIDE DEF rows, teams
<1>9. Inv'  BY <1>1, <1>2, <1>5, <1>6, <1>8, Finished, Now
<1> QED  BY <1>1, <1>7, <1>8, <1>9 DEF Kept

LEMMA AssignStep == ASSUME Inv, NEW h \in Handlers, FinishAssign(h) PROVE Kept
<1> DEFINE t == handler[h].team
           status == IF handler[h].arg = "forming" /\ handler[h].brief # Null
                        /\ team[t].status # "deleted" THEN "active" ELSE team[t].status
           one == [team[t] EXCEPT !.brief = handler[h].brief, !.status = status]
           teams == [team EXCEPT ![t].brief = handler[h].brief,
                            ![t].status =
                              IF handler[h].arg = "forming" /\ handler[h].brief # Null
                                 /\ @ # "deleted" THEN "active" ELSE @]
<1>1. /\ Finish(h, "assign") /\ BriefAccepted(teams, t) /\ team' = teams
      /\ UNCHANGED <<member, standing, chat, invitation, removal>>
  BY DEF FinishAssign
<1>2. /\ t \in Teams /\ Free(h) /\ handler[h].brief \in Briefs \cup {Null}
  BY <1>1, Target DEF AllOps
<1>3. team[t] \in Team  BY <1>2, Now
<1>4. status \in TeamStatus \cup {"absent", "deleted"}  BY <1>3 DEF Team, TeamStatus
<1>5. teams = [team EXCEPT ![t] = one]  BY <1>2, Now
<1> HIDE DEF status
<1>6. one \in Team  BY <1>2, <1>3, <1>4 DEF Team
<1> HIDE DEF one, teams, t
<1>7. teams \in [Teams -> Team] /\ (BriefFits(team) => BriefFits(teams))
  BY <1>1, <1>2, <1>5, <1>6, OneTeamRow, Now
<1>8. Inv'  BY <1>1, <1>2, <1>7, Finished, Now
<1> QED  BY <1>1, <1>7, <1>8 DEF Kept

LEMMA DiscardType ==
  ASSUME Inv, NEW mail
  PROVE  Discard(mail) \in [Invitations -> TeamInvitation] /\ Addressed(Discard(mail))
<1> DEFINE gone(i) == [invitation[i] EXCEPT !.status = "deleted", !.expired = FALSE]
<1>1. \A i \in Invitations : gone(i) \in TeamInvitation /\ gone(i).status = "deleted"
  <2> TAKE i \in Invitations
  <2>1. invitation[i] \in TeamInvitation  BY Now
  <2> QED  BY <2>1 DEF TeamInvitation
<1>2. Discard(mail) = [i \in Invitations |->
                         IF mail[i].status # "none" THEN gone(i) ELSE invitation[i]]
  BY DEF Discard
<1> HIDE DEF gone
<1> QED  BY <1>1, <1>2, Now DEF Addressed

LEMMA DeleteStep == ASSUME Inv, NEW h \in Handlers, FinishDelete(h) PROVE Kept
<1> DEFINE t == handler[h].team
           seen == handler[h].rows
           one == [team[t] EXCEPT !.status = "deleted"]
<1>1. /\ Finish(h, "delete")
      /\ standing' = [p \in Participants |->
                        IF seen[p].status # "none" THEN "ready" ELSE standing[p]]
      /\ team' = [team EXCEPT ![t].status = "deleted"]
      /\ member' = SoftRemove(member, t, seen) /\ invitation' = Discard(handler[h].mail)
      /\ UNCHANGED <<chat, removal>>
  BY DEF FinishDelete
<1>2. t \in Teams /\ Free(h)  BY <1>1, Target DEF AllOps
<1>3. team[t] \in Team  BY <1>2, Now
<1>4. team' = [team EXCEPT ![t] = one]  BY <1>1, <1>2, Now
<1>5. one \in Team /\ one.status = "deleted"  BY <1>3 DEF Team
<1> HIDE DEF one, t, seen
<1>a. team'[t].status = "deleted"  BY <1>2, <1>4, <1>5, Now
<1>6. BriefAccepted(team', t)  BY <1>a, IdleTeam
<1>7. team' \in [Teams -> Team] /\ (BriefFits(team) => BriefFits(team'))
  BY <1>2, <1>4, <1>5, <1>6, OneTeamRow, Now
<1>8. member' \in Members /\ (Fits(member) => Fits(member'))
  BY <1>1, <1>2, SoftRemoved, Now
<1>9. standing' \in [Participants -> {"ready", "assigned"}]  BY <1>1, Now
<1>10. Inv'  BY <1>1, <1>2, <1>7, <1>8, <1>9, DiscardType, Finished, Now
<1> QED  BY <1>7, <1>8, <1>10 DEF Kept

LEMMA AddStep == ASSUME Inv, NEW h \in Handlers, FinishAdd(h) PROVE Kept
<1> DEFINE t == handler[h].team
           p == handler[h].who
           row == NewMember(t, p, "confirmed", handler[h].arg)
<1>1. /\ Finish(h, "add") /\ member' = [member EXCEPT ![t][p] = row]
      /\ MemberAccepted(member', t, p)
      /\ standing' = [standing EXCEPT ![p] = "assigned"] /\ chat' = Admit(t, p)
      /\ UNCHANGED <<team, invitation, removal>>
  BY DEF FinishAdd
<1>2. p \in Participants /\ t \in Teams /\ Free(h) /\ handler[h].arg \in TeamRole
  BY <1>1, Target DEF AllOps
<1>3. row \in TeamMember  BY <1>2, NewMemberType
<1> HIDE DEF p, t, row
<1>4. member' = Put(member, t, p, row)  BY <1>1 DEF Put
<1>5. member' \in Members /\ (Fits(member) => Fits(member'))
  BY <1>1, <1>2, <1>3, <1>4, OneRow, Now
<1>6. Inv'  BY <1>1, <1>2, <1>5, StandingType, ChatType, Finished, Now
<1> QED  BY <1>1, <1>5, <1>6 DEF Kept

LEMMA RemoveStep == ASSUME Inv, NEW h \in Handlers, FinishRemove(h) PROVE Kept
<1> DEFINE t == handler[h].team
           p == handler[h].who
           seen == handler[h].rows
           confirmed == seen[p].status = "confirmed"
           last == Rows(seen, {"confirmed"}) = {p}
           rows == Remove(member, t, p, seen[p])
           channel == IF team[t].channel = "none" THEN team[t].channel ELSE "archived"
           one == [team[t] EXCEPT !.status = "deleted", !.channel = channel]
           gone == [team EXCEPT ![t].status = "deleted",
                                ![t].channel = IF @ = "none" THEN @ ELSE "archived"]
<1>1. /\ Finish(h, "remove")
      /\ member' = IF last THEN SoftRemove(rows, t, seen) ELSE rows
      /\ team' = IF last THEN gone ELSE team
      /\ invitation' = IF last THEN Discard(handler[h].mail) ELSE invitation
      /\ standing' = IF confirmed THEN [standing EXCEPT ![p] = "ready"] ELSE standing
      /\ chat' = IF confirmed THEN Expel(t, p) ELSE chat
      /\ removal' = Unlink(rows)
  BY DEF FinishRemove
<1>2. p \in Participants /\ t \in Teams /\ Free(h)  BY <1>1, Target DEF AllOps
<1>3. team[t] \in Team  BY <1>2, Now
<1>4. gone = [team EXCEPT ![t] = one]  BY <1>2, Now
<1>5. one \in Team /\ one.status = "deleted"
  <2>1. channel \in {"none", "open", "archived"}  BY <1>3 DEF Team
  <2> HIDE DEF channel
  <2> QED  BY <1>3, <2>1 DEF Team
<1> HIDE DEF one, t, p, seen, confirmed, last, gone
<1>6. rows \in Members /\ (Fits(member) => Fits(rows))
  <2>1. rows = Remove(member, t, p, seen[p])  OBVIOUS
  <2>2. member \in Members  BY Now
  <2> HIDE DEF rows
  <2> QED  BY <1>2, <2>1, <2>2, RemoveRow
<1> HIDE DEF rows
<1>a. gone[t].status = "deleted"  BY <1>2, <1>4, <1>5, Now
<1>7. BriefAccepted(gone, t)  BY <1>a, IdleTeam
<1>8. gone \in [Teams -> Team] /\ (BriefFits(team) => BriefFits(gone))
  BY <1>2, <1>4, <1>5, <1>7, OneTeamRow, Now
<1>9. team' \in [Teams -> Team] /\ (BriefFits(team) => BriefFits(team'))
  BY <1>1, <1>8, Now
<1>10. SoftRemove(rows, t, seen) \in Members
       /\ (Fits(rows) => Fits(SoftRemove(rows, t, seen)))
  BY <1>2, <1>6, SoftRemoved
<1>11. member' \in Members /\ (Fits(member) => Fits(member'))  BY <1>1, <1>6, <1>10
<1>12. removal' \in [Requests -> RemovalRequest] /\ AimedAt(removal')
  BY <1>1, Unlinked, Now DEF AimedAt
<1>13. invitation' \in [Invitations -> TeamInvitation] /\ Addressed(invitation')
  BY <1>1, DiscardType, Now
<1>14. chat' \in [Teams -> SUBSET Participants]
       /\ standing' \in [Participants -> {"ready", "assigned"}]
  BY <1>1, <1>2, StandingType, ChatType, Now
<1>15. Inv'  BY <1>2, <1>9, <1>11, <1>12, <1>13, <1>14, Finished
<1> QED  BY <1>9, <1>11, <1>15 DEF Kept

LEMMA RoleStep == ASSUME Inv, NEW h \in Handlers, FinishRole(h) PROVE Kept
<1> DEFINE t == handler[h].team
           p == handler[h].who
           seen == handler[h].rows
           leads == {l \in Participants : seen[l].status # "none" /\ seen[l].role = "lead"}
           row == [seen[p] EXCEPT !.role = handler[h].arg]
           old(l) == [seen[l] EXCEPT !.role = "member"]
           first(l) == IF l = p THEN member ELSE Save(member, t, l, old(l))
           rows(l) == Save(first(l), t, p, row)
<1>1. Finish(h, "role") /\ UNCHANGED <<team, standing, chat, invitation, removal>>
  BY DEF FinishRole
<1>2. /\ p \in Participants /\ t \in Teams /\ Free(h) /\ handler[h].arg \in TeamRole
      /\ seen \in [Participants -> TeamMember]
  BY <1>1, Target DEF AllOps
<1>3. PICK l \in IF handler[h].arg = "lead" /\ leads # {} THEN leads ELSE {p} :
        /\ MemberAccepted(rows(l), t, p)
        /\ l # p => MemberAccepted(first(l), t, l)
        /\ member' = rows(l)
  BY DEF FinishRole
<1>4. l \in Participants  BY <1>2, <1>3
<1>5. row \in TeamMember /\ old(l) \in TeamMember
  BY <1>2, <1>4 DEF TeamMember, TeamRole
<1> HIDE DEF t, p, seen, leads, row, old
<1>6. first(l) \in Members /\ (Fits(member) => Fits(first(l)))
  <2>1. CASE l = p  BY <2>1, Now
  <2>2. CASE l # p
    <3> DEFINE m == Save(member, t, l, old(l))
    <3>1. first(l) = m /\ MemberAccepted(m, t, l)  BY <1>3, <2>2
    <3>2. m \in Members /\ (Fits(member) => Fits(m))
      <4> HIDE DEF m, first
      <4>1. m = Save(member, t, l, old(l))  BY DEF m
      <4> QED  BY <4>1, <1>2, <1>4, <1>5, <3>1, SaveRow, Now
    <3> QED  BY <3>1, <3>2
  <2> QED  BY <2>1, <2>2
<1> HIDE DEF first
<1>7. rows(l) \in Members /\ (Fits(first(l)) => Fits(rows(l)))
  BY <1>2, <1>3, <1>5, <1>6, SaveRow
<1>8. member' \in Members /\ (Fits(member) => Fits(member'))  BY <1>3, <1>6, <1>7
<1>9. Inv'  BY <1>1, <1>2, <1>8, Finished, Now
<1> QED  BY <1>1, <1>8, <1>9 DEF Kept

LEMMA ChatStep == ASSUME Inv, NEW h \in Handlers, FinishChat(h) PROVE Kept
<1> DEFINE t == handler[h].team
           one == [team[t] EXCEPT !.channel = "open"]
<1>1. PICK S \in SUBSET Rows(handler[h].rows, Current) :
        /\ Finish(h, "chat") /\ team' = [team EXCEPT ![t].channel = "open"]
        /\ chat' = [chat EXCEPT ![t] = @ \cup S]
        /\ UNCHANGED <<member, standing, invitation, removal>>
  BY DEF FinishChat
<1>2. t \in Teams /\ Free(h)  BY <1>1, Target DEF AllOps
<1>3. team[t] \in Team  BY <1>2, Now
<1>4. team' = [team EXCEPT ![t] = one]  BY <1>1, <1>2, Now
<1>5. one \in Team /\ one.status = team[t].status /\ one.brief = team[t].brief
  BY <1>3 DEF Team
<1>6. S \subseteq Participants  BY DEF Rows
<1> HIDE DEF one, t
<1>7. team' \in [Teams -> Team]  BY <1>2, <1>4, <1>5, Now
<1>8. \A u \in Teams : team'[u].status = team[u].status /\ team'[u].brief = team[u].brief
  BY <1>2, <1>4, <1>5, Now
<1>9. BriefFits(team) => BriefFits(team')
  <2>1. \A b \in Briefs : Working(team', b) = Working(team, b)  BY <1>8 DEF Working
  <2> QED  BY <2>1 DEF BriefFits
<1>10. chat' \in [Teams -> SUBSET Participants]  BY <1>1, <1>2, <1>6, Now
<1>11. Inv'  BY <1>1, <1>2, <1>7, <1>10, Finished, Now
<1> QED  BY <1>1, <1>9, <1>11 DEF Kept

LEMMA FormStep ==
  ASSUME Inv, NEW h \in Handlers, NEW t \in Teams, FinishForm(h, t) PROVE Kept
<1> DEFINE seen == handler[h].rows
           S == Rows(seen, {"confirmed"})
           new(p) == [seen[p] EXCEPT !.id = FreshId(t, p)]
           rows == [member EXCEPT ![t] = [p \in Participants |->
                      IF p \in S THEN new(p) ELSE @[p]]]
           one == [status |-> "active", brief |-> handler[h].brief, channel |-> "none"]
<1>1. /\ Finish(h, "form") /\ team' = [team EXCEPT ![t] = one] /\ BriefAccepted(team', t)
      /\ \A p \in S : MemberAccepted(rows, t, p)
      /\ member' = rows
      /\ standing' = [p \in Participants |-> IF p \in S THEN "assigned" ELSE standing[p]]
      /\ UNCHANGED <<chat, invitation, removal>>
  BY DEF FinishForm
<1>2. /\ Free(h) /\ seen \in [Participants -> TeamMember]
      /\ handler[h].brief \in Briefs \cup {Null}
  BY <1>1, Target DEF AllOps
<1>3. one \in Team  BY <1>2 DEF Team, TeamStatus
<1>4. team' \in [Teams -> Team] /\ (BriefFits(team) => BriefFits(team'))
  <2> HIDE DEF one
  <2> QED  BY <1>1, <1>3, OneTeamRow, Now
<1>5. \A p \in Participants : new(p) \in TeamMember
  BY <1>2, FreshIdType DEF TeamMember
<1> HIDE DEF new, S, one, seen
<1>6. /\ rows \in Members
      /\ \A p \in Participants \ S : rows[t][p] = member[t][p]
      /\ \A u \in Teams \ {t} : rows[u] = member[u]
  BY <1>5, Now DEF Members
<1> HIDE DEF rows
<1>7. Fits(member) => Fits(rows)
  <2>1. \A u \in Teams, p \in Participants : rows[u][p].status = "confirmed" =>
          member[u][p].status = "confirmed" \/ MemberAccepted(rows, u, p)
    BY <1>1, <1>6
  <2> QED  BY <2>1, Admission
<1>8. standing' \in [Participants -> {"ready", "assigned"}]  BY <1>1, StandingType
<1>9. Inv'  BY <1>1, <1>2, <1>4, <1>6, <1>8, Finished, Now
<1> QED  BY <1>1, <1>4, <1>7, <1>9 DEF Kept

-----------------------------------------------------------------------------
(* Every step.                                                              *)

LEMMA BegunKept ==
  ASSUME Inv, NEW h \in Handlers, Beginning(h) PROVE Kept
<1>1. Inv' /\ member' = member /\ team' = team  BY BeginningStep DEF tables
<1> QED  BY <1>1 DEF Kept

LEMMA ExpireStep == ASSUME Inv, NEW i \in Invitations, Expire(i) PROVE Kept
<1> DEFINE one == [invitation[i] EXCEPT !.expired = TRUE]
<1>1. invitation' = [invitation EXCEPT ![i].expired = TRUE]
      /\ UNCHANGED <<team, member, standing, chat, removal, handler>>
  BY DEF Expire
<1>2. invitation[i] \in TeamInvitation  BY Now
<1>3. invitation' = [invitation EXCEPT ![i] = one]  BY <1>1, Now
<1>4. /\ one \in TeamInvitation /\ one.status = invitation[i].status
      /\ one.team = invitation[i].team /\ one.who = invitation[i].who
  BY <1>2 DEF TeamInvitation
<1> HIDE DEF one
<1>5. invitation' \in [Invitations -> TeamInvitation] /\ Addressed(invitation')
  BY <1>3, <1>4, Now DEF Addressed
<1>6. TypeOK'  BY <1>1, <1>5, Now DEF TypeOK
<1>7. Inv'  BY <1>1, <1>5, <1>6 DEF Inv, Aimed, Addressed
<1> QED  BY <1>1, <1>7 DEF Kept

LEMMA RefuseStep == ASSUME Inv, NEW h \in Handlers, Refuse(h) PROVE Kept
<1>1. Free(h) /\ UNCHANGED tables  BY DEF Refuse, Free
<1>2. Inv'  BY <1>1, Finished, Now DEF tables
<1> QED  BY <1>1, <1>2 DEF Kept, tables

LEMMA Step == ASSUME Inv, Next PROVE Kept
<1>1. CASE \E i \in Invitations : Expire(i)  BY <1>1, ExpireStep
<1>2. ASSUME NEW h \in Handlers,
             \/ Beginning(h)
             \/ \E t \in Teams : FinishCreate(h, t) \/ FinishForm(h, t)
             \/ \E q \in Requests : FinishRequest(h, q)
             \/ \E i \in Invitations : FinishInvite(h, i)
             \/ Finishes(h) \/ Refuse(h)
      PROVE  Kept
  <2>1. CASE Beginning(h)  BY <2>1, BegunKept
  <2>2. CASE \E t \in Teams : FinishCreate(h, t) \/ FinishForm(h, t)
    BY <2>2, CreateStep, FormStep
  <2>3. CASE \E q \in Requests : FinishRequest(h, q)  BY <2>3, RequestStep
  <2>4. CASE \E i \in Invitations : FinishInvite(h, i)  BY <2>4, InviteStep
  <2>5. CASE Finishes(h)
    BY <2>5, JoinStep, ConfirmStep, DeclineStep, ApproveStep, RejectStep, AcceptStep,
       AnswerStep, SaveStep, AssignStep, DeleteStep, AddStep, RemoveStep, RoleStep, ChatStep
       DEF Finishes
  <2>6. CASE Refuse(h)  BY <2>6, RefuseStep
  <2> QED  BY <1>2, <2>1, <2>2, <2>3, <2>4, <2>5, <2>6
<1> QED  BY <1>1, <1>2, Zenon DEF Next, Beginning, OfTeam, OfRow

LEMMA Start == Init => Inv /\ Fits(member) /\ BriefFits(team)
<1> SUFFICES ASSUME Init PROVE Inv /\ Fits(member) /\ BriefFits(team)  OBVIOUS
<1>1. TypeOK
  <2>1. NoTeam \in Team  BY DEF NoTeam, Team
  <2>2. NoInvitation \in TeamInvitation  BY DEF NoInvitation, TeamInvitation
  <2>3. team \in [Teams -> Team]  BY <2>1 DEF Init
  <2>4. member \in [Teams -> [Participants -> TeamMember]]  BY NoRowType DEF Init
  <2>5. invitation \in [Invitations -> TeamInvitation]  BY NoMailType DEF Init
  <2>6. removal \in [Requests -> RemovalRequest]  BY NoRequestType DEF Init
  <2>7. handler \in [Handlers -> Handler]  BY IdleHolds DEF Init
  <2>8. standing \in [Participants -> {"ready", "assigned"}]
        /\ chat \in [Teams -> SUBSET Participants]  BY DEF Init
  <2> QED  BY <2>3, <2>4, <2>5, <2>6, <2>7, <2>8 DEF TypeOK
<1>2. (\A h \in Handlers : Holds(handler[h])) /\ Addressed(invitation) /\ Aimed
  BY IdleHolds, NoMailType DEF Init, Aimed
<1>3. \A t \in Teams : Confirmed(member, t) = {}
  BY DEF Init, NoRows, NoMember, Confirmed, Rows
<1>4. Fits(member)
  <2>1. \A t \in Teams, p \in Participants : member[t][p].status # "confirmed"
    BY DEF Init, NoRows, NoMember
  <2> QED  BY <1>3, <2>1, FS_EmptySet, SizeAssumption DEF Fits
<1>5. BriefFits(team)
  <2>1. \A b \in Briefs : Working(team, b) = {}  BY DEF Init, NoTeam, Working
  <2> QED  BY <2>1, FS_EmptySet, SizeAssumption DEF BriefFits
<1> QED  BY <1>1, <1>2, <1>4, <1>5 DEF Inv

\* Tables, entities and handlers are what they should be, and what a handler
\* holds it can write.
THEOREM AlwaysInv == Spec => [](Inv /\ Fits(member) /\ BriefFits(team))
<1>1. Inv /\ Fits(member) /\ BriefFits(team) /\ [Next]_vars
        => (Inv /\ Fits(member) /\ BriefFits(team))'
  <2> SUFFICES ASSUME Inv, Fits(member), BriefFits(team), [Next]_vars
               PROVE  Inv' /\ Fits(member') /\ BriefFits(team')
    BY DEF Fits, BriefFits, Confirmed
  <2>1. CASE Next  BY <2>1, Step DEF Kept
  <2>2. CASE UNCHANGED vars
    <3>1. Inv'  BY <2>2 DEF vars, Inv, TypeOK, Addressed, Aimed
    <3> QED  BY <2>2, <3>1 DEF vars
  <2> QED  BY <2>1, <2>2
<1> QED  BY Start, <1>1, PTL DEF Spec

\* Every variable keeps its type (teams.service.ts over its six tables).
THEOREM TypesHold == Spec => []TypeOK
<1>1. Inv => TypeOK  BY DEF Inv
<1> QED  BY <1>1, AlwaysInv, PTL

\* No interleaving of handlers, however many, overfills a team: the count that a
\* handler made earlier is checked again by the trigger where it writes.
THEOREM CapacityHolds == Spec => []TeamCapacity
<1>1. Fits(member) => TeamCapacity  BY DEF Fits, TeamCapacity, Confirmed
<1> QED  BY <1>1, AlwaysInv, PTL

\* Nobody is confirmed in two teams, whoever admits him and however late.
THEOREM OneTeamHolds == Spec => []OneConfirmedTeam
<1>1. Fits(member) => OneConfirmedTeam  BY DEF Fits, OneConfirmedTeam
<1> QED  BY <1>1, AlwaysInv, PTL

\* No brief gets more working teams than it takes, also by stale saves.
THEOREM BriefHolds == Spec => []BriefCapacity
<1>1. BriefFits(team) => BriefCapacity  BY DEF BriefFits, BriefCapacity
<1> QED  BY <1>1, AlwaysInv, PTL
=============================================================================
