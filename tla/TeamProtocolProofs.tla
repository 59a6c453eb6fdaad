----------------------- MODULE TeamProtocolProofs -----------------------
(***************************************************************************)
(* What the endpoints of teams.service.ts keep when they are called one    *)
(* after the other: status and deleted teams agree with the members, and   *)
(* so do channels but for those who were admitted while pending.  Nothing  *)
(* here holds of two requests at a time.                                   *)
(***************************************************************************)
EXTENDS TeamMembershipProofs

\* One request at a time.
Alone == \A g, h \in Handlers : g = h

\* What the handler has read is what the tables say still.
Fresh(x) ==
  /\ x.op \in {"create", "join", "backfill", "accept", "add"} => Unattached(x.who)
  /\ x.op \in AllOps \ {"create", "form", "approve", "reject"} => Live(x.team)
  /\ x.op \in {"confirm", "decline", "dismiss", "request"} =>
       /\ x.rows[x.who] = member[x.team][x.who]
       /\ x.rows[x.who].status = IF x.op = "request" THEN "confirmed" ELSE "pending"
  /\ x.op = "approve" /\ x.rows[x.who].status # "none" =>
       /\ x.team \in Teams /\ x.rows[x.who] = member[x.team][x.who]
       /\ x.rows[x.who].status = "confirmed"
  /\ x.op \in {"save", "delete", "remove", "role", "chat"} => x.rows = Loaded(x.team)
  /\ x.op \in {"remove", "role"} => x.rows[x.who].status \in Current
  /\ x.op = "form" => \A p \in Participants : x.rows[p].status # "none" =>
                        Unattached(p) /\ x.rows[p].status = "confirmed"

\* A participant is a member of at most one team, be it pending.
OneRowOnly(m) == \A p \in Participants : \A t, u \in Teams :
                   m[t][p].status \in Current /\ m[u][p].status \in Current => t = u
\* A removal request that has its row is about a confirmed member, or one whose
\* team was deleted.
Tied(m, rem) == \A q \in Requests : rem[q].linked =>
                  m[rem[q].team][rem[q].who].status \in {"confirmed", "removed"}
Agrees(m, s) == \A p \in Participants :
                  s[p] = "assigned" <=> \E t \in Teams : m[t][p].status = "confirmed"
Emptied(teams, m) == \A t \in Teams : teams[t].status = "deleted" =>
                       \A p \in Participants : m[t][p].status \notin Current
Whole(teams, m, s, rem) == OneRowOnly(m) /\ Tied(m, rem) /\ Agrees(m, s) /\ Emptied(teams, m)

Serial == /\ Inv /\ \A h \in Handlers : Fresh(handler[h])
          /\ Whole(team, member, standing, removal)

-----------------------------------------------------------------------------
(* First steps: what was just read is fresh.                                *)

LEMMA BegunFresh ==
  ASSUME Serial, Alone, NEW h \in Handlers, NEW x, Begin(h, x), Fresh(x), Inv'
  PROVE  Serial'
<1>1. UNCHANGED tables /\ handler' = [handler EXCEPT ![h] = x]  BY DEF Begin
<1>2. \A g \in Handlers : handler'[g] = x  BY <1>1, Now DEF Serial, Alone, Inv, TypeOK
<1>3. Fresh(x)'
  BY <1>1 DEF tables, Fresh, Unattached, Live, Loaded
<1>4. Whole(team, member, standing, removal)'
  BY <1>1 DEF Serial, tables, Whole, OneRowOnly, Tied, Agrees, Emptied
<1> QED  BY <1>2, <1>3, <1>4 DEF Serial

LEMMA HoldFields ==
  ASSUME NEW o, NEW t, NEW p, NEW a, NEW x, x = Hold(o, t, p, a)
  PROVE  x.op = o /\ x.team = t /\ x.who = p /\ x.rows = NoRows
BY DEF Hold, Idle

LEMMA HoldRowFields ==
  ASSUME NEW o, NEW t, NEW p \in Participants, NEW a, NEW x, x = HoldRow(o, t, p, a)
  PROVE  x.op = o /\ x.team = t /\ x.who = p /\ x.rows[p] = member[t][p]
<1> DEFINE rows == [NoRows EXCEPT ![p] = member[t][p]]
<1>1. x = [Hold(o, t, p, a) EXCEPT !.rows = rows]  BY DEF HoldRow, Hold, Idle
<1>2. rows[p] = member[t][p]  BY DEF NoRows
<1> HIDE DEF rows
<1> QED  BY <1>1, <1>2 DEF Hold, Idle

LEMMA HoldTeamFields ==
  ASSUME NEW o, NEW t, NEW p, NEW a, NEW x, x = HoldTeam(o, t, p, a)
  PROVE  x.op = o /\ x.team = t /\ x.who = p /\ x.rows = Loaded(t)
BY DEF HoldTeam, Hold, Idle

LEMMA BeginningFresh ==
  ASSUME Serial, Alone, NEW h \in Handlers, Beginning(h)
  PROVE  Serial'
<1>0. Inv'  BY BeginningStep DEF Serial
<1>1. \A x : Begin(h, x) /\ Fresh(x) => Serial'  BY <1>0, BegunFresh
<1>2. Inv /\ Whole(team, member, standing, removal)  BY DEF Serial
<1>3. ASSUME NEW p \in Participants, BeginCreate(h, p) PROVE Serial'
  <2> DEFINE x == Hold("create", Null, p, Null)
  <2>1. x.op = "create" /\ x.who = p  BY HoldFields
  <2>2. Begin(h, x) /\ Unattached(p)  BY <1>3 DEF BeginCreate
  <2> HIDE DEF x
  <2>3. Fresh(x)  BY <2>1, <2>2 DEF Fresh
  <2> QED  BY <1>1, <2>2, <2>3
<1>4. ASSUME NEW t \in Teams, NEW p \in Participants, ByParticipant(h, t, p) PROVE Serial'
  <2>1. ASSUME NEW o \in {"join", "backfill", "add", "accept"}, NEW a, NEW x,
               x = Hold(o, t, p, a), Begin(h, x), Live(t), Unattached(p)
        PROVE  Serial'
    <3>1. x.op = o /\ x.who = p /\ x.team = t  BY <2>1, HoldFields
    <3>2. Fresh(x)  BY <2>1, <3>1 DEF Fresh
    <3> QED  BY <1>1, <2>1, <3>2
  <2>2. ASSUME NEW o \in {"confirm", "decline", "dismiss", "request"}, NEW x,
               x = HoldRow(o, t, p, Null), Begin(h, x), Live(t),
               member[t][p].status = IF o = "request" THEN "confirmed" ELSE "pending"
        PROVE  Serial'
    <3>1. x.op = o /\ x.who = p /\ x.team = t /\ x.rows[p] = member[t][p]
      BY <2>2, HoldRowFields
    <3>2. Fresh(x)  BY <2>2, <3>1 DEF Fresh
    <3> QED  BY <1>1, <2>2, <3>2
  <2>3. ASSUME NEW o \in {"remove", "role"}, NEW a, NEW x, x = HoldTeam(o, t, p, a),
               Begin(h, x), Live(t), member[t][p].status \in Current
        PROVE  Serial'
    <3>1. x.op = o /\ x.who = p /\ x.team = t /\ x.rows = Loaded(t)
      BY <2>3, HoldTeamFields
    <3>2. x.rows[p] = member[t][p]  BY <2>3, <3>1 DEF Loaded
    <3>3. Fresh(x)  BY <2>3, <3>1, <3>2 DEF Fresh
    <3> QED  BY <1>1, <2>3, <3>3
  <2>4. CASE BeginJoin(h, t, p) \/ BeginBackfill(h, t, p)
    BY <2>1, <2>4 DEF BeginJoin, BeginBackfill, Live, TeamStatus
  <2>5. ASSUME NEW by \in Participants,
               \/ BeginConfirm(h, t, by, p) \/ BeginDecline(h, t, by, p)
               \/ BeginDismiss(h, t, by, p) \/ BeginRequest(h, t, by, p)
        PROVE  Serial'
    BY <2>2, <2>5 DEF BeginConfirm, BeginDecline, BeginDismiss, BeginRequest
  <2>6. ASSUME NEW by \in Participants, BeginInvite(h, t, by, p) PROVE Serial'
    <3> DEFINE x == Hold("invite", t, p, Null)
    <3>1. x.op = "invite" /\ x.team = t  BY HoldFields
    <3>2. Begin(h, x) /\ Live(t)  BY <2>6 DEF BeginInvite
    <3> HIDE DEF x
    <3>3. Fresh(x)  BY <3>1, <3>2 DEF Fresh
    <3> QED  BY <1>1, <3>2, <3>3
  <2>7. CASE BeginRemove(h, t, p)  BY <2>3, <2>7 DEF BeginRemove
  <2>8. ASSUME NEW r \in TeamRole, BeginAdd(h, t, p, r) \/ BeginRole(h, t, p, r) PROVE Serial'
    BY <2>1, <2>3, <2>8 DEF BeginAdd, BeginRole
  <2> QED  BY <1>4, <2>4, <2>5, <2>6, <2>7, <2>8 DEF ByParticipant
<1>5. ASSUME NEW t \in Teams, NEW a, NEW o \in {"save", "delete", "chat"}, NEW x,
             x = HoldTeam(o, t, Null, a), Begin(h, x), Live(t)
      PROVE  Serial'
  <2>1. x.op = o /\ x.team = t /\ x.rows = Loaded(t)  BY <1>5, HoldTeamFields
  <2>2. Fresh(x)  BY <1>5, <2>1 DEF Fresh
  <2> QED  BY <1>1, <1>5, <2>2
<1>6. ASSUME NEW t \in Teams, NEW s \in TeamStatus, BeginSave(h, t, s) PROVE Serial'
  BY <1>5, <1>6 DEF BeginSave
<1>7. ASSUME NEW t \in Teams, BeginDelete(h, t) \/ BeginChat(h, t) PROVE Serial'
  BY <1>5, <1>7 DEF BeginDelete, BeginChat, Live, TeamStatus
<1>8. ASSUME NEW t \in Teams, NEW b \in Briefs \cup {Null}, BeginAssign(h, t, b) PROVE Serial'
  <2> DEFINE x == [Hold("assign", t, Null, team[t].status) EXCEPT !.brief = b]
  <2>1. x.op = "assign" /\ x.team = t  BY DEF Hold, Idle
  <2>2. Begin(h, x) /\ Live(t)  BY <1>8 DEF BeginAssign
  <2> HIDE DEF x
  <2>3. Fresh(x)  BY <2>1, <2>2 DEF Fresh
  <2> QED  BY <1>1, <2>2, <2>3
<1>9. ASSUME NEW q \in Requests, BeginApprove(h, q) PROVE Serial'
  <2> DEFINE t == removal[q].team
             p == removal[q].who
             x == HoldRow("approve", t, p, q)
             y == Hold("approve", t, p, q)
  <2>1. t \in Teams /\ p \in Participants  BY <1>2, <1>9 DEF BeginApprove, Inv, Aimed
  <2>2. \/ Begin(h, x) /\ removal[q].linked /\ member[t][p].status \in Current
        \/ Begin(h, y)
    BY <1>9 DEF BeginApprove
  <2>3. x.op = "approve" /\ x.who = p /\ x.team = t /\ x.rows[p] = member[t][p]
    BY <2>1, HoldRowFields
  <2>4. y.op = "approve" /\ y.who = p /\ y.rows = NoRows  BY HoldFields
  <2>5. removal[q].linked => member[t][p].status \in {"confirmed", "removed"}
    BY <1>2 DEF Whole, Tied
  <2>6. NoRows[p].status = "none"  BY <2>1 DEF NoRows, NoMember
  <2> HIDE DEF x, y, t, p
  <2>7. ASSUME removal[q].linked, member[t][p].status \in Current PROVE Fresh(x)
    BY <2>1, <2>3, <2>5, <2>7 DEF Fresh, Current
  <2>8. Fresh(y)  BY <2>4, <2>6 DEF Fresh
  <2> QED  BY <1>1, <2>2, <2>7, <2>8
<1>10. ASSUME NEW q \in Requests, BeginReject(h, q) PROVE Serial'
  <2> DEFINE x == Hold("reject", removal[q].team, removal[q].who, q)
  <2>1. x.op = "reject"  BY HoldFields
  <2>2. Begin(h, x)  BY <1>10 DEF BeginReject
  <2> HIDE DEF x
  <2>3. Fresh(x)  BY <2>1 DEF Fresh
  <2> QED  BY <1>1, <2>2, <2>3
<1>11. ASSUME NEW i \in Invitations, BeginAccept(h, i) PROVE Serial'
  <2> DEFINE x == Hold("accept", invitation[i].team, invitation[i].who, i)
  <2>1. x.op = "accept" /\ x.team = invitation[i].team /\ x.who = invitation[i].who
    BY HoldFields
  <2>2. Begin(h, x) /\ Live(invitation[i].team) /\ Unattached(invitation[i].who)
    BY <1>11 DEF BeginAccept
  <2> HIDE DEF x
  <2>3. Fresh(x)  BY <2>1, <2>2 DEF Fresh
  <2> QED  BY <1>1, <2>2, <2>3
<1>12. ASSUME NEW i \in Invitations, NEW s, BeginAnswer(h, i, s) PROVE Serial'
  <2> DEFINE x == [Hold("answer", invitation[i].team, invitation[i].who, s)
                     EXCEPT !.mail = [NoMail EXCEPT ![i] = invitation[i]]]
  <2>1. x.op = "answer" /\ x.team = invitation[i].team  BY DEF Hold, Idle
  <2>2. Begin(h, x) /\ Live(invitation[i].team)  BY <1>12 DEF BeginAnswer
  <2> HIDE DEF x
  <2>3. Fresh(x)  BY <2>1, <2>2 DEF Fresh
  <2> QED  BY <1>1, <2>2, <2>3
<1>13. ASSUME NEW S \in SUBSET Participants, NEW b \in Briefs \cup {Null}, NEW lead \in S,
              NEW co \in S, BeginForm(h, S, lead, co, b)
       PROVE  Serial'
  <2> DEFINE rows == [p \in Participants |-> IF p \notin S THEN NoMember ELSE
                        [status |-> "confirmed", id |-> 0,
                         role |-> IF p = lead THEN "lead"
                                  ELSE IF p = co THEN "co_lead" ELSE "member"]]
             x == [Hold("form", Null, Null, Null) EXCEPT !.rows = rows, !.brief = b]
  <2>1. Begin(h, x) /\ \A p \in S : Unattached(p)  BY <1>13 DEF BeginForm
  <2>2. x.op = "form" /\ x.rows = rows
    <3> HIDE DEF rows
    <3> QED  BY DEF Hold, Idle
  <2>3. \A p \in Participants : IF p \in S THEN rows[p].status = "confirmed"
                                ELSE rows[p].status = "none"
    BY DEF NoMember
  <2> HIDE DEF x, rows
  <2>4. Fresh(x)  BY <2>1, <2>2, <2>3 DEF Fresh
  <2> QED  BY <1>1, <2>1, <2>4
<1> QED  BY <1>3, <1>4, <1>6, <1>7, <1>8, <1>9, <1>10, <1>11, <1>12, <1>13 DEF Beginning
-----------------------------------------------------------------------------
(* What a second step does to the tables.                                   *)

LEMMA Settled ==
  ASSUME Serial, Alone, NEW h \in Handlers, Free(h), Inv',
         Whole(team', member', standing', removal')
  PROVE  Serial'
<1>1. \A g \in Handlers : handler'[g] = Idle  BY Now DEF Serial, Alone, Inv, TypeOK, Free
<1>2. Idle.op = "idle"  BY DEF Idle
<1> HIDE DEF Idle
<1>3. \A g \in Handlers : Fresh(handler[g])'
  <2> TAKE g \in Handlers
  <2>1. handler'[g].op = "idle"  BY <1>1, <1>2
  <2> QED  BY <2>1 DEF Fresh, AllOps
<1> QED  BY <1>3 DEF Serial, Whole, OneRowOnly, Tied, Agrees, Emptied

\* No team is deleted that was not.
Survive(teams) == \A t \in Teams : teams[t].status = "deleted" => team[t].status = "deleted"

\* A participant enters a team, and is in no other.
LEMMA Enters ==
  ASSUME Serial, NEW t \in Teams, NEW p \in Participants, NEW n,
         \A u \in Teams \ {t} : member[u][p].status \notin Current,
         \A u \in Teams, q \in Participants : u # t \/ q # p => n[u][q] = member[u][q],
         NEW s, NEW teams, Survive(teams), teams[t].status # "deleted",
         \/ n[t][p].status = "confirmed" /\ s = [standing EXCEPT ![p] = "assigned"]
         \/ n[t][p].status = "pending" /\ member[t][p].status = "none" /\ s = standing
  PROVE  Whole(teams, n, s, removal)
<1>1. /\ OneRowOnly(member) /\ Tied(member, removal) /\ Agrees(member, standing)
      /\ Emptied(team, member) /\ AimedAt(removal)
      /\ standing \in [Participants -> {"ready", "assigned"}]
  BY Now DEF Serial, Whole
<1>2. OneRowOnly(n)  BY <1>1 DEF OneRowOnly
<1>3. Emptied(teams, n)  BY <1>1 DEF Emptied, Survive
<1>4. Agrees(n, s)
  <2> SUFFICES ASSUME NEW q \in Participants
               PROVE  s[q] = "assigned" <=> \E u \in Teams : n[u][q].status = "confirmed"
    BY DEF Agrees
  <2>1. CASE q # p
    <3>1. s[q] = standing[q] /\ \A u \in Teams : n[u][q] = member[u][q]  BY <1>1, <2>1
    <3> QED  BY <1>1, <3>1 DEF Agrees
  <2>2. CASE q = p
    BY <1>1, <2>2 DEF Agrees, Current
  <2> QED  BY <2>1, <2>2
<1>5. Tied(n, removal)
  <2> SUFFICES ASSUME NEW q \in Requests, removal[q].linked
               PROVE  n[removal[q].team][removal[q].who].status \in {"confirmed", "removed"}
    BY DEF Tied
  <2>1. removal[q].team \in Teams /\ removal[q].who \in Participants
    BY <1>1 DEF AimedAt, NoRequest
  <2>2. member[removal[q].team][removal[q].who].status \in {"confirmed", "removed"}
    BY <1>1 DEF Tied
  <2> QED  BY <2>1, <2>2
<1> QED  BY <1>2, <1>3, <1>4, <1>5 DEF Whole

\* Members leave team t: who was confirmed is ready again, and a team that is
\* deleted keeps nobody.
Left(t, n) == \A u \in Teams, q \in Participants :
                \/ n[u][q].status = member[u][q].status
                \/ u = t /\ n[u][q].status \in {"none", "removed"}
Restored(t, n, s) == \A q \in Participants :
  \/ s[q] = standing[q]
     /\ (member[t][q].status = "confirmed" => n[t][q].status = "confirmed")
  \/ s[q] = "ready" /\ member[t][q].status \in Current /\ n[t][q].status \notin Current
Cleared(t, n, teams) ==
  /\ Survive(teams) \/ \A q \in Participants : n[t][q].status \notin Current
  /\ \A u \in Teams \ {t} : teams[u].status = "deleted" => team[u].status = "deleted"
LEMMA Leaves ==
  ASSUME Serial, NEW t \in Teams, NEW n, NEW s, NEW teams,
         Left(t, n), Restored(t, n, s), Cleared(t, n, teams)
  PROVE  OneRowOnly(n) /\ Agrees(n, s) /\ Emptied(teams, n)
<1>1. OneRowOnly(member) /\ Agrees(member, standing) /\ Emptied(team, member)
  BY DEF Serial, Whole
<1>2. \A u \in Teams, q \in Participants : n[u][q].status \in Current =>
        n[u][q].status = member[u][q].status
  BY DEF Left, Current
<1>3. OneRowOnly(n)  BY <1>1, <1>2 DEF OneRowOnly
<1>4. Emptied(teams, n)  BY <1>1, <1>2 DEF Emptied, Survive, Cleared
<1>5. Agrees(n, s)
  <2> SUFFICES ASSUME NEW q \in Participants
               PROVE  s[q] = "assigned" <=> \E u \in Teams : n[u][q].status = "confirmed"
    BY DEF Agrees
  <2>1. CASE s[q] = standing[q]
             /\ (member[t][q].status = "confirmed" => n[t][q].status = "confirmed")
    <3>1. \A u \in Teams : n[u][q].status = "confirmed" <=> member[u][q].status = "confirmed"
      BY <2>1 DEF Left
    <3> QED  BY <1>1, <2>1, <3>1 DEF Agrees
  <2>2. CASE s[q] = "ready" /\ member[t][q].status \in Current /\ n[t][q].status \notin Current
    <3>1. \A u \in Teams \ {t} : member[u][q].status \notin Current
      BY <1>1, <2>2 DEF OneRowOnly
    <3>2. \A u \in Teams : n[u][q].status # "confirmed"
      BY <1>2, <2>2, <3>1 DEF Current
    <3> QED  BY <2>2, <3>2
  <2> QED  BY <2>1, <2>2 DEF Restored
<1> QED  BY <1>3, <1>4, <1>5

\* Rows keep their status.
LEMMA Stays ==
  ASSUME Serial, NEW n, NEW teams, Survive(teams),
         \A u \in Teams, q \in Participants : n[u][q].status = member[u][q].status
  PROVE  Whole(teams, n, standing, removal)
<1>1. /\ OneRowOnly(member) /\ Tied(member, removal) /\ Agrees(member, standing)
      /\ Emptied(team, member) /\ AimedAt(removal)
  BY Now DEF Serial, Whole
<1>2. OneRowOnly(n) /\ Agrees(n, standing) /\ Emptied(teams, n)
  BY <1>1 DEF OneRowOnly, Agrees, Emptied, Survive
<1>3. Tied(n, removal)  BY <1>1 DEF Tied, AimedAt, NoRequest
<1> QED  BY <1>2, <1>3 DEF Whole

\* ON DELETE SET NULL: a request whose row goes has none.
LEMMA Unties ==
  ASSUME Serial, NEW n, NEW m,
         \A t \in Teams, p \in Participants :
           /\ member[t][p].status \in {"confirmed", "removed"} =>
                m[t][p].status \in {"none", "confirmed", "removed"}
           /\ m[t][p].status \in {"confirmed", "removed"} =>
                n[t][p].status \in {"confirmed", "removed"}
  PROVE  Tied(n, Unlink(m))
<1> SUFFICES ASSUME NEW q \in Requests, Unlink(m)[q].linked
             PROVE  n[Unlink(m)[q].team][Unlink(m)[q].who].status \in {"confirmed", "removed"}
  BY DEF Tied
<1>1. removal[q] \in RemovalRequest /\ Aimed /\ Tied(member, removal)
  BY Now DEF Serial, TypeOK, Whole
<1>2. Unlink(m)[q] = removal[q] /\ ~ (removal[q].linked
        /\ m[removal[q].team][removal[q].who].status = "none")
  <2>1. CASE removal[q].linked /\ m[removal[q].team][removal[q].who].status = "none"
    <3>1. Unlink(m)[q] = [removal[q] EXCEPT !.linked = FALSE]  BY <2>1 DEF Unlink
    <3> QED  BY <1>1, <3>1 DEF RemovalRequest
  <2> QED  BY <2>1 DEF Unlink
<1>3. removal[q].team \in Teams /\ removal[q].who \in Participants
  BY <1>1, <1>2 DEF Aimed, NoRequest
<1>4. member[removal[q].team][removal[q].who].status \in {"confirmed", "removed"}
  BY <1>1, <1>2 DEF Tied
<1> QED  BY <1>2, <1>3, <1>4
-----------------------------------------------------------------------------
(* The second step of each handler.                                         *)

\* Nobody is in a channel that is not there; who is admitted or expelled is when there
\* is one.  Whoever is in the channel of an existing team after a step is its member,
\* or was pending before, or was in there already without being a member.
Quiet(teams, c) ==
  \A t \in Teams : /\ teams[t].status = "absent" => teams[t].channel = "none"
                   /\ teams[t].channel = "none" => c[t] = {}
Came(u, q) == \/ member[u][q].status = "pending"
              \/ q \in chat[u] /\ member[u][q].status \notin Current
Heard(u) == team'[u].status \in TeamStatus =>
              \A q \in chat'[u] : member'[u][q].status \in Current \/ Came(u, q)
WholeAgain == Whole(team', member', standing', removal')
QuietAgain == Quiet(team, chat) => Quiet(team', chat') /\ \A u \in Teams : Heard(u)
Settles == WholeAgain /\ QuietAgain

\* What is known when a handler writes.
LEMMA Due ==
  ASSUME Serial, NEW h \in Handlers, NEW o \in AllOps, Finish(h, o)
  PROVE  /\ handler[h].op = o /\ Fresh(handler[h])
         /\ o \notin {"form", "save", "assign", "delete", "chat"} =>
              handler[h].who \in Participants
         /\ o \notin {"form", "create"} => handler[h].team \in Teams
         /\ o \in {"add", "role"} => handler[h].arg \in TeamRole
         /\ o = "save" => handler[h].arg \in TeamStatus
         /\ handler[h].rows \in [Participants -> TeamMember]
         /\ team \in [Teams -> Team] /\ member \in Members
         /\ standing \in [Participants -> {"ready", "assigned"}]
         /\ chat \in [Teams -> SUBSET Participants]
BY Target, Now DEF Serial, Finish

LEMMA Written ==
  ASSUME NEW m \in Members, NEW t \in Teams, NEW p \in Participants, NEW row,
         NEW n, n = Put(m, t, p, row)
  PROVE  \A u \in Teams, q \in Participants :
           n[u][q] = IF u = t /\ q = p THEN row ELSE m[u][q]
BY DEF Members, Put

\* A participant without a team comes to one as a confirmed member.
LEMMA Settling ==
  ASSUME Serial, NEW t \in Teams, NEW p \in Participants, NEW row,
         Unattached(p), row.status = "confirmed", member' = Put(member, t, p, row),
         standing' = [standing EXCEPT ![p] = "assigned"], removal' = removal,
         Survive(team'), team'[t].status # "deleted"
  PROVE  WholeAgain
<1>1. member \in Members  BY Now DEF Serial
<1>2. \A u \in Teams, q \in Participants :
        member'[u][q] = IF u = t /\ q = p THEN row ELSE member[u][q]
  BY <1>1, Written
<1>3. \A u \in Teams \ {t} : member[u][p].status \notin Current  BY DEF Unattached
<1>4. Whole(team', member', standing', removal)  BY <1>2, <1>3, Enters
<1> QED  BY <1>4 DEF WholeAgain

\* Nothing happens to members and channels.
LEMMA Unheard == ASSUME Serial, UNCHANGED <<team, member, chat>> PROVE QuietAgain
<1>1. chat \in [Teams -> SUBSET Participants]  BY Now DEF Serial
<1> QED  BY <1>1 DEF QuietAgain, Quiet, Heard, Came

LEMMA CreateSettles ==
  ASSUME Serial, NEW h \in Handlers, NEW t \in Teams, FinishCreate(h, t) PROVE Settles
<1> DEFINE p == handler[h].who
           row == NewMember(t, p, "confirmed", "lead")
           new == [status |-> "forming", brief |-> Null, channel |-> "open"]
<1>1. /\ Finish(h, "create") /\ team[t].status = "absent" /\ team' = [team EXCEPT ![t] = new]
      /\ member' = [member EXCEPT ![t][p] = row]
      /\ standing' = [standing EXCEPT ![p] = "assigned"]
      /\ chat' = [chat EXCEPT ![t] = {p}] /\ UNCHANGED <<invitation, removal>>
  BY DEF FinishCreate
<1>2. /\ p \in Participants /\ Unattached(p) /\ team \in [Teams -> Team] /\ member \in Members
      /\ chat \in [Teams -> SUBSET Participants]
  BY <1>1, Due DEF AllOps, Fresh
<1>3. row.status = "confirmed"  BY DEF NewMember
<1>a. member' = Put(member, t, p, row)  BY <1>1 DEF Put
<1> HIDE DEF p, row
<1>4. /\ team'[t].status = "forming" /\ team'[t].channel = "open"
      /\ \A u \in Teams \ {t} : team'[u] = team[u]
  BY <1>1, <1>2
<1>5. \A u \in Teams, q \in Participants :
        member'[u][q] = IF u = t /\ q = p THEN row ELSE member[u][q]
  BY <1>2, <1>a, Written
<1>b. WholeAgain
  <2>1. Survive(team') /\ team'[t].status # "deleted"  BY <1>4 DEF Survive
  <2>2. standing' = [standing EXCEPT ![p] = "assigned"] /\ removal' = removal  BY <1>1
  <2>3. p \in Participants /\ Unattached(p)  BY <1>2
  <2> QED  BY <1>3, <1>a, <2>1, <2>2, <2>3, Settling
<1>6. QuietAgain
  <2> SUFFICES ASSUME Quiet(team, chat), NEW u \in Teams
               PROVE  /\ Heard(u)
                      /\ team'[u].status = "absent" => team'[u].channel = "none"
                      /\ team'[u].channel = "none" => chat'[u] = {}
    BY DEF QuietAgain, Quiet
  <2>1. CASE u = t
    <3>1. chat'[t] = {p}  BY <1>1, <1>2
    <3> QED  BY <1>2, <1>3, <1>4, <1>5, <2>1, <3>1 DEF Heard, Current
  <2>2. CASE u # t
    BY <1>1, <1>2, <1>4, <1>5, <2>2 DEF Quiet, Heard, Came, Current
  <2> QED  BY <2>1, <2>2
<1> QED  BY <1>b, <1>6 DEF Settles

LEMMA JoinSettles == ASSUME Serial, NEW h \in Handlers, FinishJoin(h) PROVE Settles
<1> DEFINE t == handler[h].team
           p == handler[h].who
           row == NewMember(t, p, "pending", "member")
<1>1. PICK o \in {"join", "backfill"} : Finish(h, o)  BY DEF FinishJoin
<1>2. /\ member[t][p].status = "none" /\ member' = [member EXCEPT ![t][p] = row]
      /\ UNCHANGED <<team, standing, chat, invitation, removal>>
  BY DEF FinishJoin
<1>3. p \in Participants /\ t \in Teams /\ member \in Members /\ Unattached(p) /\ Live(t)
  BY <1>1, Due DEF AllOps, Fresh
<1>4. row.status = "pending" /\ member' = Put(member, t, p, row)
  BY <1>2 DEF NewMember, Put
<1> HIDE DEF p, t, row
<1>5. \A u \in Teams, q \in Participants :
        member'[u][q] = IF u = t /\ q = p THEN row ELSE member[u][q]
  BY <1>3, <1>4, Written
<1>6. Survive(team') /\ team'[t].status # "deleted"
  BY <1>2, <1>3 DEF Survive, Live, TeamStatus
<1>7. WholeAgain
  <2>1. \A u \in Teams \ {t} : member[u][p].status \notin Current  BY <1>3 DEF Unattached
  <2>2. /\ \A u \in Teams, q \in Participants : u # t \/ q # p => member'[u][q] = member[u][q]
        /\ member'[t][p].status = "pending" /\ member[t][p].status = "none"
    BY <1>2, <1>3, <1>4, <1>5
  <2>3. Whole(team', member', standing, removal)
    BY <1>3, <1>6, <2>1, <2>2, Enters
  <2> QED  BY <1>2, <2>3 DEF WholeAgain
<1>8. QuietAgain
  BY <1>2, <1>4, <1>5, Now DEF QuietAgain, Quiet, Heard, Came, Current, Serial
<1> QED  BY <1>7, <1>8 DEF Settles

LEMMA ConfirmSettles == ASSUME Serial, NEW h \in Handlers, FinishConfirm(h) PROVE Settles
<1> DEFINE t == handler[h].team
           p == handler[h].who
           row == [handler[h].rows[p] EXCEPT !.status = "confirmed"]
           rows == Save(member, t, p, row)
<1>1. /\ Finish(h, "confirm")
      /\ member' = [u \in Teams |->
                      IF u # t /\ rows[u][p].status = "pending"
                      THEN [rows[u] EXCEPT ![p] = NoMember] ELSE rows[u]]
      /\ standing' = [standing EXCEPT ![p] = "assigned"]
      /\ chat' = Admit(t, p) /\ removal' = Unlink(member') /\ UNCHANGED <<team, invitation>>
  BY DEF FinishConfirm
<1>2. /\ p \in Participants /\ t \in Teams /\ member \in Members /\ Live(t)
      /\ handler[h].rows[p] = member[t][p] /\ handler[h].rows[p].status = "pending"
      /\ handler[h].rows \in [Participants -> TeamMember]
      /\ chat \in [Teams -> SUBSET Participants]
  BY <1>1, Due DEF AllOps, Fresh
<1>3. row.status = "confirmed"  BY <1>2 DEF TeamMember
<1>4. rows = Put(member, t, p, row)  BY <1>2 DEF Save, Put, Members
<1> HIDE DEF p, t, row, rows
<1>5. \A u \in Teams, q \in Participants :
        rows[u][q] = IF u = t /\ q = p THEN row ELSE member[u][q]
  BY <1>2, <1>4, Written
<1>6. \A u \in Teams \ {t} : member[u][p].status \notin Current
  BY <1>2 DEF Serial, Whole, OneRowOnly, Current
<1>7. \A u \in Teams : member'[u] = rows[u]
  BY <1>1, <1>2, <1>5, <1>6 DEF Current
<1>8. \A u \in Teams, q \in Participants :
        member'[u][q] = IF u = t /\ q = p THEN row ELSE member[u][q]
  BY <1>5, <1>7
<1>9. Survive(team') /\ team'[t].status # "deleted"
  BY <1>1, <1>2 DEF Survive, Live, TeamStatus
<1>10. Whole(team', member', standing', removal)
  <2>1. /\ \A u \in Teams, q \in Participants : u # t \/ q # p => member'[u][q] = member[u][q]
        /\ member'[t][p].status = "confirmed"
    BY <1>2, <1>3, <1>8
  <2>2. standing' = [standing EXCEPT ![p] = "assigned"]  BY <1>1
  <2> QED  BY <1>2, <1>6, <1>9, <2>1, <2>2, Enters
<1>11. Tied(member', Unlink(member'))
  <2>1. \A u \in Teams, q \in Participants :
          /\ member[u][q].status \in {"confirmed", "removed"} =>
               member'[u][q].status \in {"none", "confirmed", "removed"}
    BY <1>2, <1>3, <1>8
  <2> QED  BY <2>1, Unties
<1>12. WholeAgain  BY <1>1, <1>10, <1>11 DEF WholeAgain, Whole
<1>13. QuietAgain
  BY <1>1, <1>2, <1>3, <1>8 DEF QuietAgain, Quiet, Heard, Came, Current, Admit
<1> QED  BY <1>12, <1>13 DEF Settles

\* A row read at the start is stored at the end, and goes.
LEMMA Removing ==
  ASSUME NEW m \in Members, NEW t \in Teams, NEW p \in Participants,
         m[t][p].status # "none"
  PROVE  Remove(m, t, p, m[t][p]) = Put(m, t, p, NoMember)
BY DEF Remove, Put, Stored, Members

LEMMA Kicks ==
  ASSUME Serial, NEW t \in Teams, NEW p \in Participants, NEW n,
         \A u \in Teams, q \in Participants :
           n[u][q] = IF u = t /\ q = p THEN NoMember ELSE member[u][q]
  PROVE  Tied(n, Unlink(n))
<1>1. \A u \in Teams, q \in Participants :
        member[u][q].status \in {"confirmed", "removed"} =>
          n[u][q].status \in {"none", "confirmed", "removed"}
  BY DEF NoMember
<1> QED  BY <1>1, Unties

LEMMA DeclineSettles == ASSUME Serial, NEW h \in Handlers, FinishDecline(h) PROVE Settles
<1> DEFINE t == handler[h].team
           p == handler[h].who
<1>1. PICK o \in {"decline", "dismiss"} : Finish(h, o)  BY DEF FinishDecline
<1>2. /\ member' = Remove(member, t, p, handler[h].rows[p]) /\ removal' = Unlink(member')
      /\ UNCHANGED <<team, standing, chat, invitation>>
  BY DEF FinishDecline
<1>3. /\ p \in Participants /\ t \in Teams /\ member \in Members
      /\ handler[h].rows[p] = member[t][p] /\ member[t][p].status = "pending"
  BY <1>1, Due DEF AllOps, Fresh
<1> HIDE DEF p, t
<1>4. member' = Put(member, t, p, NoMember)  BY <1>2, <1>3, Removing
<1>5. \A u \in Teams, q \in Participants :
        member'[u][q] = IF u = t /\ q = p THEN NoMember ELSE member[u][q]
  BY <1>3, <1>4, Written
<1>6. OneRowOnly(member') /\ Agrees(member', standing) /\ Emptied(team, member')
  <2>1. OneRowOnly(member) /\ Agrees(member, standing) /\ Emptied(team, member)
    BY DEF Serial, Whole
  <2>2. \A u \in Teams, q \in Participants :
          /\ member'[u][q].status \in Current => member[u][q].status \in Current
          /\ member'[u][q].status = "confirmed" <=> member[u][q].status = "confirmed"
    BY <1>3, <1>5 DEF NoMember, Current
  <2> QED  BY <2>1, <2>2 DEF OneRowOnly, Agrees, Emptied
<1>7. Tied(member', removal')  BY <1>2, <1>3, <1>5, Kicks
<1>8. WholeAgain  BY <1>2, <1>6, <1>7 DEF WholeAgain, Whole
<1>9. QuietAgain
  BY <1>2, <1>3, <1>5, Now DEF QuietAgain, Quiet, Heard, Came, Current, Serial
<1> QED  BY <1>8, <1>9 DEF Settles

LEMMA RequestSettles ==
  ASSUME Serial, NEW h \in Handlers, NEW q \in Requests, FinishRequest(h, q) PROVE Settles
<1> DEFINE t == handler[h].team
           p == handler[h].who
           new == [team |-> t, who |-> p, linked |-> TRUE]
<1>1. /\ Finish(h, "request") /\ removal' = [removal EXCEPT ![q] = new]
      /\ UNCHANGED <<team, member, standing, chat, invitation>>
  BY DEF FinishRequest
<1>2. p \in Participants /\ t \in Teams /\ member[t][p].status = "confirmed"
  BY <1>1, Due DEF AllOps, Fresh
<1> HIDE DEF p, t
<1>3. Tied(member, removal')
  BY <1>1, <1>2, Now DEF Tied, Serial, Whole
<1>4. WholeAgain  BY <1>1, <1>3 DEF WholeAgain, Serial, Whole
<1>5. QuietAgain  BY <1>1, Unheard
<1> QED  BY <1>4, <1>5 DEF Settles

LEMMA RejectSettles == ASSUME Serial, NEW h \in Handlers, FinishReject(h) PROVE Settles
<1> DEFINE a == handler[h].arg
<1>1. /\ removal' = [removal EXCEPT ![a] = NoRequest]
      /\ UNCHANGED <<team, member, standing, chat, invitation>>
  BY DEF FinishReject
<1> HIDE DEF a
<1>2. Tied(member, removal')
  BY <1>1, Now DEF Tied, Serial, Whole, NoRequest
<1>3. WholeAgain  BY <1>1, <1>2 DEF WholeAgain, Serial, Whole
<1>4. QuietAgain  BY <1>1, Unheard
<1> QED  BY <1>3, <1>4 DEF Settles

LEMMA ApproveSettles == ASSUME Serial, NEW h \in Handlers, FinishApprove(h) PROVE Settles
<1> DEFINE t == handler[h].team
           p == handler[h].who
           row == handler[h].rows[p]
           found == row.status # "none"
           a == handler[h].arg
           rem == Unlink(member')
<1>1. /\ Finish(h, "approve")
      /\ member' = IF found THEN Remove(member, t, p, row) ELSE member
      /\ standing' = IF found THEN [standing EXCEPT ![p] = "ready"] ELSE standing
      /\ chat' = IF found THEN Expel(t, p) ELSE chat
      /\ removal' = [rem EXCEPT ![a] = NoRequest]
      /\ UNCHANGED <<team, invitation>>
  BY DEF FinishApprove
<1>2. /\ p \in Participants /\ t \in Teams /\ member \in Members
      /\ found => row = member[t][p] /\ row.status = "confirmed"
      /\ standing \in [Participants -> {"ready", "assigned"}]
      /\ chat \in [Teams -> SUBSET Participants]
  BY <1>1, Due DEF AllOps, Fresh
<1>3. rem \in [Requests -> RemovalRequest]  BY Unlinked, Now DEF Serial
<1>4. Tied(member', rem) => Tied(member', removal')
  <2> HIDE DEF rem, a
  <2> QED  BY <1>1, <1>3 DEF Tied, NoRequest
<1> HIDE DEF a
<1>5. CASE ~ found
  <2>1. UNCHANGED <<member, standing, chat, team>>  BY <1>1, <1>5
  <2>2. Tied(member', rem)  BY <2>1, Unties
  <2>3. WholeAgain  BY <1>4, <2>1, <2>2 DEF WholeAgain, Serial, Whole
  <2>4. QuietAgain  BY <2>1, Unheard
  <2> QED  BY <2>3, <2>4 DEF Settles
<1>6. CASE found
  <2>1. /\ member' = Remove(member, t, p, member[t][p]) /\ member[t][p].status = "confirmed"
        /\ standing' = [standing EXCEPT ![p] = "ready"] /\ chat' = Expel(t, p)
        /\ team' = team
    BY <1>1, <1>2, <1>6
  <2> HIDE DEF p, t, row, rem
  <2>2. member' = Put(member, t, p, NoMember)  BY <1>2, <2>1, Removing
  <2>3. \A u \in Teams, q \in Participants :
          member'[u][q] = IF u = t /\ q = p THEN NoMember ELSE member[u][q]
    BY <1>2, <2>2, Written
  <2>4. OneRowOnly(member') /\ Agrees(member', standing') /\ Emptied(team', member')
    <3>1. Left(t, member')  BY <2>3 DEF Left, NoMember
    <3>2. Restored(t, member', standing')
      BY <1>2, <2>1, <2>3 DEF Restored, NoMember, Current
    <3>3. Cleared(t, member', team')  BY <2>1 DEF Cleared, Survive
    <3>4. t \in Teams  BY <1>2
    <3> QED  BY <3>1, <3>2, <3>3, <3>4, Leaves
  <2>5. Tied(member', removal')  BY <1>2, <1>4, <2>3, Kicks DEF rem
  <2>6. WholeAgain  BY <2>4, <2>5 DEF WholeAgain, Whole
  <2>7. QuietAgain
    BY <1>2, <2>1, <2>3 DEF QuietAgain, Quiet, Heard, Came, Current, Expel
  <2> QED  BY <2>6, <2>7 DEF Settles
<1> QED  BY <1>5, <1>6

LEMMA AcceptSettles == ASSUME Serial, NEW h \in Handlers, FinishAccept(h) PROVE Settles
<1> DEFINE t == handler[h].team
           p == handler[h].who
           row == NewMember(t, p, "confirmed", "member")
<1>1. /\ Finish(h, "accept") /\ member' = [member EXCEPT ![t][p] = row]
      /\ standing' = [standing EXCEPT ![p] = "assigned"]
      /\ UNCHANGED <<team, chat, removal>>
  BY DEF FinishAccept
<1>2. /\ p \in Participants /\ t \in Teams /\ member \in Members /\ Unattached(p) /\ Live(t)
      /\ chat \in [Teams -> SUBSET Participants]
  BY <1>1, Due DEF AllOps, Fresh
<1>3. row.status = "confirmed" /\ member' = Put(member, t, p, row)
  BY <1>1 DEF NewMember, Put
<1> HIDE DEF p, t, row
<1>4. \A u \in Teams, q \in Participants :
        member'[u][q] = IF u = t /\ q = p THEN row ELSE member[u][q]
  BY <1>2, <1>3, Written
<1>5. Survive(team') /\ team'[t].status # "deleted"
  BY <1>1, <1>2 DEF Survive, Live, TeamStatus
<1>6. WholeAgain
  <2>1. standing' = [standing EXCEPT ![p] = "assigned"] /\ removal' = removal  BY <1>1
  <2>2. p \in Participants /\ t \in Teams /\ Unattached(p)  BY <1>2
  <2> QED  BY <1>3, <1>5, <2>1, <2>2, Settling
<1>7. QuietAgain
  BY <1>1, <1>2, <1>3, <1>4 DEF QuietAgain, Quiet, Heard, Came, Current
<1> QED  BY <1>6, <1>7 DEF Settles

LEMMA AddSettles == ASSUME Serial, NEW h \in Handlers, FinishAdd(h) PROVE Settles
<1> DEFINE t == handler[h].team
           p == handler[h].who
           row == NewMember(t, p, "confirmed", handler[h].arg)
<1>1. /\ Finish(h, "add") /\ member' = [member EXCEPT ![t][p] = row]
      /\ standing' = [standing EXCEPT ![p] = "assigned"] /\ chat' = Admit(t, p)
      /\ UNCHANGED <<team, removal>>
  BY DEF FinishAdd
<1>2. /\ p \in Participants /\ t \in Teams /\ member \in Members /\ Unattached(p) /\ Live(t)
      /\ chat \in [Teams -> SUBSET Participants]
  BY <1>1, Due DEF AllOps, Fresh
<1>3. row.status = "confirmed" /\ member' = Put(member, t, p, row)
  BY <1>1 DEF NewMember, Put
<1> HIDE DEF p, t, row
<1>4. \A u \in Teams, q \in Participants :
        member'[u][q] = IF u = t /\ q = p THEN row ELSE member[u][q]
  BY <1>2, <1>3, Written
<1>5. Survive(team') /\ team'[t].status # "deleted"
  BY <1>1, <1>2 DEF Survive, Live, TeamStatus
<1>6. WholeAgain
  <2>1. standing' = [standing EXCEPT ![p] = "assigned"] /\ removal' = removal  BY <1>1
  <2>2. p \in Participants /\ t \in Teams /\ Unattached(p)  BY <1>2
  <2> QED  BY <1>3, <1>5, <2>1, <2>2, Settling
<1>7. QuietAgain
  BY <1>1, <1>2, <1>3, <1>4 DEF QuietAgain, Quiet, Heard, Came, Current, Admit
<1> QED  BY <1>6, <1>7 DEF Settles

\* A team that lives goes on living, and no row changes its status.
LEMMA Continues ==
  ASSUME Serial, NEW t \in Teams, Live(t), team'[t].status \in TeamStatus,
         team'[t].channel = team[t].channel,
         \A u \in Teams \ {t} : team'[u] = team[u],
         \A u \in Teams, q \in Participants : member'[u][q].status = member[u][q].status,
         UNCHANGED <<standing, chat, removal>>
  PROVE  Settles
<1>1. Survive(team')  BY DEF Survive, TeamStatus
<1>2. Whole(team', member', standing, removal)  BY <1>1, Stays
<1>3. WholeAgain  BY <1>2 DEF WholeAgain
<1>4. QuietAgain
  <2> SUFFICES ASSUME Quiet(team, chat), NEW u \in Teams
               PROVE  /\ Heard(u)
                      /\ team'[u].status = "absent" => team'[u].channel = "none"
                      /\ team'[u].channel = "none" => chat[u] = {}
    BY DEF QuietAgain, Quiet
  <2>1. chat[u] \subseteq Participants  BY Now DEF Serial
  <2> QED  BY <2>1 DEF Quiet, Heard, Came, Live, TeamStatus
<1> QED  BY <1>3, <1>4 DEF Settles

LEMMA SaveSettles == ASSUME Serial, NEW h \in Handlers, FinishSave(h) PROVE Settles
<1> DEFINE t == handler[h].team
           seen == handler[h].rows
           old == [team EXCEPT ![t].status = IF @ = "deleted" THEN @ ELSE handler[h].arg,
                               ![t].brief = handler[h].brief]
           row(p) == IF seen[p].status # "none" THEN Save(member, t, p, seen[p])[t][p]
                     ELSE member[t][p]
<1>1. /\ Finish(h, "save") /\ team' = old
      /\ member' = [member EXCEPT ![t] = [p \in Participants |-> row(p)]]
      /\ UNCHANGED <<standing, chat, removal>>
  BY DEF FinishSave
<1>2. /\ t \in Teams /\ member \in Members /\ Live(t) /\ seen = Loaded(t)
      /\ handler[h].arg \in TeamStatus /\ team \in [Teams -> Team]
  BY <1>1, Due DEF AllOps, Fresh
<1>3. ASSUME NEW p \in Participants PROVE row(p) = member[t][p]
  <2>1. seen[p] = IF member[t][p].status \in Current THEN member[t][p] ELSE NoMember
    BY <1>2 DEF Loaded
  <2>2. Save(member, t, p, seen[p])[t][p] =
          IF member[t][p].status = "removed" THEN member[t][p] ELSE seen[p]
    BY <1>2 DEF Save, Members
  <2> HIDE DEF t, seen
  <2> QED  BY <2>1, <2>2 DEF NoMember, Current
<1> HIDE DEF row
<1>4. \A u \in Teams, q \in Participants : member'[u][q].status = member[u][q].status
  BY <1>1, <1>2, <1>3 DEF Members
<1>5. /\ team'[t].status \in TeamStatus /\ team'[t].channel = team[t].channel
      /\ \A u \in Teams \ {t} : team'[u] = team[u]
  BY <1>1, <1>2 DEF Live, TeamStatus, Team
<1> HIDE DEF t
<1> QED  BY <1>1, <1>2, <1>4, <1>5, Continues

LEMMA AssignSettles == ASSUME Serial, NEW h \in Handlers, FinishAssign(h) PROVE Settles
<1> DEFINE t == handler[h].team
           s == IF handler[h].arg = "forming" /\ handler[h].brief # Null
                   /\ team[t].status # "deleted" THEN "active" ELSE team[t].status
<1>1. /\ Finish(h, "assign")
      /\ team' = [team EXCEPT ![t].brief = handler[h].brief, ![t].status = s]
      /\ UNCHANGED <<member, standing, chat, invitation, removal>>
  <2>1. t \in Teams /\ team \in [Teams -> Team]  BY Due DEF FinishAssign, AllOps
  <2> QED  BY <2>1 DEF FinishAssign, Team
<1>2. t \in Teams /\ Live(t) /\ team \in [Teams -> Team]
  BY <1>1, Due DEF AllOps, Fresh
<1>3. s \in TeamStatus  BY <1>2 DEF Live, TeamStatus
<1> HIDE DEF t, s
<1>5. /\ team'[t].status \in TeamStatus /\ team'[t].channel = team[t].channel
      /\ \A u \in Teams \ {t} : team'[u] = team[u]
  BY <1>1, <1>2, <1>3 DEF Team
<1>6. \A u \in Teams, q \in Participants : member'[u][q].status = member[u][q].status
  BY <1>1
<1> QED  BY <1>1, <1>2, <1>5, <1>6, Continues

\* softRemove of a team that was loaded whole takes all its members.
LEMMA SoftRemoving ==
  ASSUME NEW m \in Members, NEW t \in Teams, NEW seen, NEW n, n = SoftRemove(m, t, seen),
         \A p \in Participants : m[t][p].status \in Current => seen[p] = m[t][p],
         \A p \in Participants : m[t][p].status \notin Current =>
           seen[p] = NoMember \/ m[t][p].status = "none"
  PROVE  \A u \in Teams, q \in Participants :
           n[u][q].status = IF u = t /\ m[t][q].status \in Current THEN "removed"
                            ELSE m[u][q].status
<1> DEFINE row(p) == IF seen[p].status # "none" /\ Stored(m, t, p, seen[p])
                     THEN [m[t][p] EXCEPT !.status = "removed", !.role = "member"]
                     ELSE m[t][p]
<1>1. n = [m EXCEPT ![t] = [p \in Participants |-> row(p)]]  BY DEF SoftRemove
<1>2. ASSUME NEW p \in Participants
      PROVE  row(p).status = IF m[t][p].status \in Current THEN "removed"
                             ELSE m[t][p].status
  BY DEF Stored, Current, NoMember, Members, TeamMember
<1> HIDE DEF row
<1> QED  BY <1>1, <1>2 DEF Members

LEMMA DeleteSettles == ASSUME Serial, NEW h \in Handlers, FinishDelete(h) PROVE Settles
<1> DEFINE t == handler[h].team
           seen == handler[h].rows
<1>1. /\ Finish(h, "delete") /\ team' = [team EXCEPT ![t].status = "deleted"]
      /\ standing' = [p \in Participants |->
                        IF seen[p].status # "none" THEN "ready" ELSE standing[p]]
      /\ member' = SoftRemove(member, t, seen) /\ UNCHANGED <<chat, removal>>
  BY DEF FinishDelete
<1>2. /\ t \in Teams /\ seen = Loaded(t) /\ member \in Members /\ team \in [Teams -> Team]
  BY <1>1, Due DEF AllOps, Fresh
<1>3. \A p \in Participants :
        seen[p] = IF member[t][p].status \in Current THEN member[t][p] ELSE NoMember
  BY <1>2 DEF Loaded
<1> HIDE DEF t, seen
<1>4. \A u \in Teams, q \in Participants :
        member'[u][q].status = IF u = t /\ member[t][q].status \in Current THEN "removed"
                               ELSE member[u][q].status
  BY <1>1, <1>2, <1>3, SoftRemoving
<1>5. \A q \in Participants :
        standing'[q] = IF member[t][q].status \in Current THEN "ready" ELSE standing[q]
  BY <1>1, <1>3 DEF NoMember, Current
<1>6. /\ team'[t].status = "deleted" /\ team'[t].channel = team[t].channel
      /\ \A u \in Teams \ {t} : team'[u] = team[u]
  BY <1>1, <1>2 DEF Team
<1>7. OneRowOnly(member') /\ Agrees(member', standing') /\ Emptied(team', member')
  <2>1. Left(t, member')  BY <1>4 DEF Left
  <2>2. Restored(t, member', standing')  BY <1>2, <1>4, <1>5 DEF Restored, Current
  <2>3. Cleared(t, member', team')  BY <1>2, <1>4, <1>6 DEF Cleared, Current
  <2>4. t \in Teams  BY <1>2
  <2> QED  BY <2>1, <2>2, <2>3, <2>4, Leaves
<1>8. Tied(member', removal')
  <2>1. Tied(member, removal) /\ AimedAt(removal)  BY Now DEF Serial, Whole
  <2> QED  BY <1>1, <1>4, <2>1 DEF Tied, AimedAt, NoRequest
<1>9. WholeAgain  BY <1>7, <1>8 DEF WholeAgain, Whole
<1>10. QuietAgain
  <2> SUFFICES ASSUME Quiet(team, chat), NEW u \in Teams
               PROVE  /\ Heard(u)
                      /\ team'[u].status = "absent" => team'[u].channel = "none"
                      /\ team'[u].channel = "none" => chat[u] = {}
    BY <1>1 DEF QuietAgain, Quiet
  <2>1. chat[u] \subseteq Participants  BY Now DEF Serial
  <2>2. CASE u = t  BY <1>6, <2>2 DEF Quiet, Heard, TeamStatus
  <2>3. CASE u # t  BY <1>1, <1>4, <1>6, <2>1, <2>3 DEF Quiet, Heard, Came
  <2> QED  BY <2>2, <2>3
<1> QED  BY <1>9, <1>10 DEF Settles

\* The row of the member goes; with the last confirmed one goes the team.
LEMMA Taken ==
  ASSUME Serial, NEW t \in Teams, NEW p \in Participants, NEW last \in BOOLEAN,
         last => \A q \in Participants : member[t][q].status = "confirmed" => q = p,
         member[t][p].status \in Current, NEW n, NEW s, NEW teams,
         \A u \in Teams, q \in Participants :
           n[u][q].status = IF u = t /\ q = p THEN "none"
                            ELSE IF u = t /\ last /\ member[t][q].status \in Current
                                 THEN "removed" ELSE member[u][q].status,
         s = IF member[t][p].status = "confirmed" THEN [standing EXCEPT ![p] = "ready"]
             ELSE standing,
         last => \A u \in Teams \ {t} : teams[u] = team[u],
         ~ last => teams = team
  PROVE  OneRowOnly(n) /\ Agrees(n, s) /\ Emptied(teams, n)
<1>1. Left(t, n)  BY DEF Left
<1>2. standing \in [Participants -> {"ready", "assigned"}]  BY Now DEF Serial
<1>3. Restored(t, n, s)
  <2> SUFFICES ASSUME NEW q \in Participants
               PROVE  \/ s[q] = standing[q]
                         /\ (member[t][q].status = "confirmed" => n[t][q].status = "confirmed")
                      \/ s[q] = "ready" /\ member[t][q].status \in Current
                         /\ n[t][q].status \notin Current
    BY DEF Restored
  <2>1. CASE q = p /\ member[t][p].status = "confirmed"
    BY <1>2, <2>1 DEF Current
  <2>2. CASE q = p /\ member[t][p].status # "confirmed"
    BY <2>2
  <2>3. CASE q # p
    <3>1. s[q] = standing[q]  BY <1>2, <2>3
    <3>2. last => member[t][q].status # "confirmed"  BY <2>3
    <3>3. ~ last => n[t][q].status = member[t][q].status  BY <2>3
    <3> QED  BY <3>1, <3>2, <3>3
  <2> QED  BY <2>1, <2>2, <2>3
<1>4. Cleared(t, n, teams)  BY DEF Cleared, Survive, Current
<1> QED  BY <1>1, <1>3, <1>4, Leaves

LEMMA RemoveSettles == ASSUME Serial, NEW h \in Handlers, FinishRemove(h) PROVE Settles
<1> DEFINE t == handler[h].team
           p == handler[h].who
           seen == handler[h].rows
           last == Rows(seen, {"confirmed"}) = {p}
           rows == Remove(member, t, p, seen[p])
<1>1. /\ Finish(h, "remove")
      /\ member' = IF last THEN SoftRemove(rows, t, seen) ELSE rows
      /\ team' = IF ~ last THEN team
                 ELSE [team EXCEPT ![t].status = "deleted",
                                   ![t].channel = IF @ = "none" THEN @ ELSE "archived"]
      /\ standing' = IF seen[p].status = "confirmed" THEN [standing EXCEPT ![p] = "ready"]
                     ELSE standing
      /\ chat' = IF seen[p].status = "confirmed" THEN Expel(t, p) ELSE chat
      /\ removal' = Unlink(rows)
  BY DEF FinishRemove
<1>2. /\ p \in Participants /\ t \in Teams /\ member \in Members /\ seen = Loaded(t)
      /\ seen[p].status \in Current
      /\ team \in [Teams -> Team] /\ chat \in [Teams -> SUBSET Participants]
      /\ standing \in [Participants -> {"ready", "assigned"}]
  BY <1>1, Due DEF AllOps, Fresh
<1>3. \A q \in Participants :
        seen[q] = IF member[t][q].status \in Current THEN member[t][q] ELSE NoMember
  BY <1>2 DEF Loaded
<1>4. last => \A q \in Participants : member[t][q].status = "confirmed" => q = p
  BY <1>3 DEF Rows, Current
<1>a. last \in BOOLEAN /\ (last => seen[p].status = "confirmed")  BY DEF Rows
<1> HIDE DEF t, p, seen, last
<1>5. seen[p] = member[t][p] /\ member[t][p].status \in Current
  BY <1>2, <1>3 DEF NoMember, Current
<1>6. rows = Put(member, t, p, NoMember)  BY <1>2, <1>5, Removing DEF Current
<1>7. \A u \in Teams, q \in Participants :
        rows[u][q] = IF u = t /\ q = p THEN NoMember ELSE member[u][q]
  BY <1>2, <1>6, Written
<1>8. rows \in Members  BY <1>2, RemoveRow
<1> HIDE DEF rows
<1>9. \A u \in Teams, q \in Participants :
        member'[u][q].status = IF u = t /\ q = p THEN "none"
                               ELSE IF u = t /\ last /\ member[t][q].status \in Current
                                    THEN "removed" ELSE member[u][q].status
  <2>1. CASE ~ last  BY <1>1, <1>7, <2>1 DEF NoMember
  <2>2. CASE last
    <3>1. \A q \in Participants : /\ rows[t][q].status \in Current => seen[q] = rows[t][q]
                                  /\ rows[t][q].status \notin Current =>
                                       seen[q] = NoMember \/ rows[t][q].status = "none"
      BY <1>2, <1>3, <1>7 DEF NoMember, Current
    <3>2. member' = SoftRemove(rows, t, seen)  BY <1>1, <2>2
    <3>3. \A u \in Teams, q \in Participants :
            member'[u][q].status = IF u = t /\ rows[t][q].status \in Current THEN "removed"
                                   ELSE rows[u][q].status
      BY <1>2, <1>8, <3>1, <3>2, SoftRemoving
    <3> QED  BY <1>2, <1>7, <2>2, <3>3 DEF NoMember, Current
  <2> QED  BY <2>1, <2>2
<1>10. /\ last => /\ \A u \in Teams \ {t} : team'[u] = team[u]
                  /\ team'[t].status = "deleted"
                  /\ team'[t].channel = "none" => team[t].channel = "none"
       /\ ~ last => team' = team
  BY <1>1, <1>2 DEF Team
<1>11. OneRowOnly(member') /\ Agrees(member', standing') /\ Emptied(team', member')
  <2>1. standing' = IF member[t][p].status = "confirmed" THEN [standing EXCEPT ![p] = "ready"]
                    ELSE standing
    BY <1>1, <1>5
  <2>2. last => \A u \in Teams \ {t} : team'[u] = team[u]  BY <1>10
  <2>3. ~ last => team' = team  BY <1>10
  <2>4. p \in Participants /\ t \in Teams  BY <1>2
  <2>5. last \in BOOLEAN  BY <1>a
  <2>6. member[t][p].status \in Current  BY <1>5
  <2> QED  BY <1>4, <1>9, <2>1, <2>2, <2>3, <2>4, <2>5, <2>6, Taken
<1>12. Tied(member', removal')
  <2>1. \A u \in Teams, q \in Participants :
          /\ member[u][q].status \in {"confirmed", "removed"} =>
               rows[u][q].status \in {"none", "confirmed", "removed"}
          /\ rows[u][q].status \in {"confirmed", "removed"} =>
               member'[u][q].status \in {"confirmed", "removed"}
    BY <1>7, <1>9 DEF NoMember
  <2>2. Tied(member', Unlink(rows))  BY <2>1, Unties
  <2> QED  BY <1>1, <2>2
<1>13. WholeAgain  BY <1>11, <1>12 DEF WholeAgain, Whole
<1>14. QuietAgain
  <2> SUFFICES ASSUME Quiet(team, chat), NEW u \in Teams
               PROVE  /\ Heard(u)
                      /\ team'[u].status = "absent" => team'[u].channel = "none"
                      /\ team'[u].channel = "none" => chat'[u] = {}
    BY DEF QuietAgain, Quiet
  <2>1. /\ chat[u] \subseteq Participants
        /\ team[u].status = "absent" => team[u].channel = "none"
        /\ team[u].channel = "none" => chat[u] = {}
    BY <1>2 DEF Quiet
  <2>2. CASE u # t
    <3>1. team'[u] = team[u]  BY <1>10, <1>a, <2>2
    <3>2. chat'[u] = chat[u]  BY <1>1, <1>2, <2>2 DEF Expel
    <3>3. \A q \in Participants : member'[u][q].status = member[u][q].status
      BY <1>9, <2>2
    <3> QED  BY <2>1, <3>1, <3>2, <3>3 DEF Heard, Came
  <2>3. CASE u = t
    <3>1. /\ chat'[t] \subseteq chat[t]
          /\ chat'[t] = {} \/ p \notin chat'[t] \/ member[t][p].status # "confirmed"
      BY <1>1, <1>2, <1>5, <2>1, <2>3 DEF Expel
    <3>2. CASE last  BY <1>10, <2>1, <2>3, <3>1, <3>2 DEF Heard, TeamStatus
    <3>3. CASE ~ last
      <4>1. team' = team  BY <1>10, <3>3
      <4>2. \A q \in Participants \ {p} : member'[t][q].status = member[t][q].status
        BY <1>2, <1>9, <3>3
      <4> QED  BY <2>1, <2>3, <3>1, <4>1, <4>2 DEF Heard, Came, Current
    <3> QED  BY <3>2, <3>3
  <2> QED  BY <2>2, <2>3
<1> QED  BY <1>13, <1>14 DEF Settles

\* A row stored anew with the status that it has.
LEMMA SavedStatus ==
  ASSUME NEW m \in Members, NEW t \in Teams, NEW p \in Participants, NEW row,
         m[t][p].status # "removed" => row.status = m[t][p].status,
         NEW n, n = Save(m, t, p, row)
  PROVE  \A u \in Teams, q \in Participants : n[u][q].status = m[u][q].status
<1> DEFINE new == IF m[t][p].status = "removed" THEN m[t][p] ELSE row
<1>1. n = Put(m, t, p, new)  BY DEF Save, Put
<1>2. new.status = m[t][p].status  OBVIOUS
<1> HIDE DEF new
<1>3. \A u \in Teams, q \in Participants :
        n[u][q] = IF u = t /\ q = p THEN new ELSE m[u][q]
  BY <1>1, Written
<1> QED  BY <1>2, <1>3

LEMMA RoleSettles == ASSUME Serial, NEW h \in Handlers, FinishRole(h) PROVE Settles
<1> DEFINE t == handler[h].team
           p == handler[h].who
           seen == handler[h].rows
           leads == {l \in Participants : seen[l].status # "none" /\ seen[l].role = "lead"}
           row == [seen[p] EXCEPT !.role = handler[h].arg]
           old(l) == [seen[l] EXCEPT !.role = "member"]
           first(l) == IF l = p THEN member ELSE Save(member, t, l, old(l))
<1>1. Finish(h, "role") /\ UNCHANGED <<team, standing, chat, invitation, removal>>
  BY DEF FinishRole
<1>2. /\ p \in Participants /\ t \in Teams /\ member \in Members /\ seen = Loaded(t)
      /\ seen[p].status \in Current /\ Live(t) /\ handler[h].arg \in TeamRole
      /\ seen \in [Participants -> TeamMember]
  BY <1>1, Due DEF AllOps, Fresh
<1>3. PICK l \in IF handler[h].arg = "lead" /\ leads # {} THEN leads ELSE {p} :
        member' = Save(first(l), t, p, row)
  BY DEF FinishRole
<1>4. l \in Participants /\ seen[l].status # "none"  BY <1>2, <1>3 DEF Current
<1>5. \A q \in Participants : seen[q].status # "none" => seen[q] = member[t][q]
  <2>1. \A q \in Participants :
          seen[q] = IF member[t][q].status \in Current THEN member[t][q] ELSE NoMember
    BY <1>2 DEF Loaded
  <2> HIDE DEF seen, t
  <2> QED  BY <2>1 DEF NoMember
<1>6. /\ row \in TeamMember /\ row.status = seen[p].status
      /\ old(l) \in TeamMember /\ old(l).status = seen[l].status
  BY <1>2, <1>4 DEF TeamMember, TeamRole
<1>7. row.status = member[t][p].status /\ old(l).status = member[t][l].status
  BY <1>2, <1>4, <1>5, <1>6 DEF Current
<1> HIDE DEF t, p, seen, leads, row, old
<1>8. /\ first(l) \in Members
      /\ \A u \in Teams, q \in Participants : first(l)[u][q].status = member[u][q].status
  <2>1. CASE l = p  BY <1>2, <2>1
  <2>2. CASE l # p
    <3> DEFINE m == Save(member, t, l, old(l))
    <3>1. first(l) = m  BY <2>2
    <3>2. /\ m \in Members
          /\ \A u \in Teams, q \in Participants : m[u][q].status = member[u][q].status
      <4> HIDE DEF m, first
      <4>1. m = Save(member, t, l, old(l))  BY DEF m
      <4>2. m \in Members  BY <4>1, <1>2, <1>4, <1>6, SaveRow
      <4>3. old(l).status = member[t][l].status  BY <1>7
      <4>4. \A u \in Teams, q \in Participants : m[u][q].status = member[u][q].status
        BY <4>1, <4>3, <1>2, <1>4, SavedStatus
      <4> QED  BY <4>2, <4>4
    <3> QED  BY <3>1, <3>2
  <2> QED  BY <2>1, <2>2
<1> HIDE DEF first
<1>9. \A u \in Teams, q \in Participants : member'[u][q].status = first(l)[u][q].status
  BY <1>2, <1>3, <1>7, <1>8, SavedStatus
<1>10. \A u \in Teams, q \in Participants : member'[u][q].status = member[u][q].status
  BY <1>8, <1>9
<1> QED  BY <1>1, <1>2, <1>10, Continues DEF Live

LEMMA ChatSettles == ASSUME Serial, NEW h \in Handlers, FinishChat(h) PROVE Settles
<1> DEFINE t == handler[h].team
           seen == handler[h].rows
<1>1. PICK S \in SUBSET Rows(seen, Current) :
        /\ Finish(h, "chat") /\ team' = [team EXCEPT ![t].channel = "open"]
        /\ chat' = [chat EXCEPT ![t] = @ \cup S]
        /\ UNCHANGED <<member, standing, removal>>
  BY DEF FinishChat
<1>2. /\ t \in Teams /\ team \in [Teams -> Team] /\ seen = Loaded(t)
      /\ chat \in [Teams -> SUBSET Participants]
  BY <1>1, Due DEF AllOps, Fresh
<1>3. \A p \in S : p \in Participants /\ member[t][p].status \in Current
  <2>1. \A p \in Participants :
          seen[p] = IF member[t][p].status \in Current THEN member[t][p] ELSE NoMember
    BY <1>2 DEF Loaded
  <2> HIDE DEF seen, t
  <2> QED  BY <1>1, <2>1 DEF Rows, NoMember, Current
<1> HIDE DEF t, seen
<1>4. Survive(team')  BY <1>1, <1>2 DEF Survive, Team
<1>5. Whole(team', member', standing, removal)  BY <1>1, <1>4, Stays
<1>6. /\ team'[t].status = team[t].status /\ team'[t].channel = "open"
      /\ \A u \in Teams \ {t} : team'[u] = team[u] /\ chat'[u] = chat[u]
      /\ chat'[t] = chat[t] \cup S /\ Live(t)
  <2>1. Live(t)  BY <1>1, Due DEF AllOps, Fresh, t
  <2> QED  BY <1>1, <1>2, <2>1 DEF Team
<1>7. QuietAgain
  BY <1>1, <1>2, <1>3, <1>6 DEF QuietAgain, Quiet, Heard, Came, Live, TeamStatus
<1> QED  BY <1>1, <1>5, <1>7 DEF Settles, WholeAgain

LEMMA FormSettles ==
  ASSUME Serial, NEW h \in Handlers, NEW t \in Teams, FinishForm(h, t) PROVE Settles
<1> DEFINE seen == handler[h].rows
           S == Rows(seen, {"confirmed"})
           new(p) == [seen[p] EXCEPT !.id = FreshId(t, p)]
           one == [status |-> "active", brief |-> handler[h].brief, channel |-> "none"]
<1>1. /\ Finish(h, "form") /\ team' = [team EXCEPT ![t] = one] /\ team[t].status = "absent"
      /\ member' = [member EXCEPT ![t] = [p \in Participants |->
                      IF p \in S THEN new(p) ELSE @[p]]]
      /\ standing' = [p \in Participants |-> IF p \in S THEN "assigned" ELSE standing[p]]
      /\ UNCHANGED <<chat, invitation, removal>>
  BY DEF FinishForm
<1>2. /\ seen \in [Participants -> TeamMember]
      /\ \A p \in Participants : seen[p].status # "none" => Unattached(p)
      /\ team \in [Teams -> Team] /\ member \in Members
      /\ chat \in [Teams -> SUBSET Participants]
  BY <1>1, Due DEF AllOps, Fresh
<1>3. \A p \in S : p \in Participants /\ Unattached(p) /\ new(p).status = "confirmed"
  BY <1>2 DEF Rows, TeamMember
<1>4. /\ team'[t].status = "active" /\ team'[t].channel = "none"
      /\ \A u \in Teams \ {t} : team'[u] = team[u]
  BY <1>1, <1>2
<1> HIDE DEF S, new, one, seen
<1>5. \A u \in Teams, q \in Participants :
        member'[u][q] = IF u = t /\ q \in S THEN new(q) ELSE member[u][q]
  BY <1>1, <1>2 DEF Members
<1>6. \A u \in Teams, q \in Participants :
        IF u = t /\ q \in S THEN member'[u][q].status = "confirmed"
        ELSE member'[u][q].status = member[u][q].status
  BY <1>3, <1>5
<1>7. /\ OneRowOnly(member) /\ Tied(member, removal) /\ Agrees(member, standing)
      /\ Emptied(team, member) /\ AimedAt(removal)
  BY Now DEF Serial, Whole
<1>8. OneRowOnly(member')
  <2> SUFFICES ASSUME NEW p \in Participants, NEW u \in Teams, NEW v \in Teams,
                      member'[u][p].status \in Current, member'[v][p].status \in Current
               PROVE  u = v
    BY DEF OneRowOnly
  <2>1. CASE p \in S  BY <1>3, <1>6, <2>1 DEF Unattached
  <2>2. CASE p \notin S  BY <1>6, <1>7, <2>2 DEF OneRowOnly
  <2> QED  BY <2>1, <2>2
<1>9. Agrees(member', standing')
  <2> SUFFICES ASSUME NEW q \in Participants
               PROVE  standing'[q] = "assigned" <=>
                        \E u \in Teams : member'[u][q].status = "confirmed"
    BY DEF Agrees
  <2>1. standing'[q] = IF q \in S THEN "assigned" ELSE standing[q]  BY <1>1
  <2>2. CASE q \in S  BY <1>6, <2>1, <2>2
  <2>3. CASE q \notin S  BY <1>6, <1>7, <2>1, <2>3 DEF Agrees
  <2> QED  BY <2>2, <2>3
<1>10. Emptied(team', member')  BY <1>4, <1>6, <1>7 DEF Emptied
<1>11. Tied(member', removal')
  BY <1>1, <1>6, <1>7 DEF Tied, AimedAt, NoRequest
<1>12. WholeAgain  BY <1>8, <1>9, <1>10, <1>11 DEF WholeAgain, Whole
<1>13. QuietAgain
  <2> SUFFICES ASSUME Quiet(team, chat), NEW u \in Teams
               PROVE  /\ Heard(u)
                      /\ team'[u].status = "absent" => team'[u].channel = "none"
                      /\ team'[u].channel = "none" => chat[u] = {}
    BY <1>1 DEF QuietAgain, Quiet
  <2>1. CASE u = t
    <3>1. chat[t] = {}  BY <1>1 DEF Quiet
    <3> QED  BY <1>1, <1>4, <2>1, <3>1 DEF Heard
  <2>2. CASE u # t
    <3>1. chat[u] \subseteq Participants  BY <1>2
    <3> QED  BY <1>1, <1>4, <1>6, <2>2, <3>1 DEF Quiet, Heard, Came
  <2> QED  BY <2>1, <2>2
<1> QED  BY <1>12, <1>13 DEF Settles

\* Invitations are no membership; neither is a rollback.
LEMMA OtherSettles ==
  ASSUME Serial, UNCHANGED <<team, member, standing, chat, removal>> PROVE Settles
BY Unheard DEF Serial, Settles, WholeAgain

-----------------------------------------------------------------------------
(* Every step.                                                              *)

LEMMA FinishSettles ==
  ASSUME Serial, NEW h \in Handlers, Finishes(h) PROVE Settles
<1>1. FinishAnswer(h) => Settles  BY OtherSettles DEF FinishAnswer
<1> QED
  BY <1>1, ChatSettles, JoinSettles, ConfirmSettles, DeclineSettles, ApproveSettles, RejectSettles,
     AcceptSettles, SaveSettles, AssignSettles, DeleteSettles, AddSettles, RemoveSettles,
     RoleSettles DEF Finishes

\* The second steps and the rollback leave the handler free.
Ending(h) ==
  \/ \E t \in Teams : FinishCreate(h, t) \/ FinishForm(h, t)
  \/ \E q \in Requests : FinishRequest(h, q)
  \/ \E i \in Invitations : FinishInvite(h, i)
  \/ Finishes(h) \/ Refuse(h)

LEMMA EndingSettles ==
  ASSUME Serial, NEW h \in Handlers, Ending(h)
  PROVE  Free(h) /\ WholeAgain /\ QuietAgain
<1>1. \A o \in AllOps : Finish(h, o) => Free(h)  BY DEF Finish, Free
<1>2. CASE \E t \in Teams : FinishCreate(h, t) \/ FinishForm(h, t)
  <2>1. Settles  BY <1>2, CreateSettles, FormSettles
  <2> QED  BY <1>1, <1>2, <2>1 DEF Settles, FinishCreate, FinishForm, AllOps
<1>3. CASE \E q \in Requests : FinishRequest(h, q)
  BY <1>1, <1>3, RequestSettles DEF Settles, FinishRequest, AllOps
<1>4. CASE \E i \in Invitations : FinishInvite(h, i)
  BY <1>1, <1>4, OtherSettles DEF Settles, FinishInvite, AllOps
<1>5. CASE Finishes(h)
  <2>1. Free(h)
    BY <1>1, <1>5 DEF Finishes, FinishJoin, FinishConfirm, FinishDecline, FinishApprove,
       FinishReject, FinishAccept, FinishAnswer, FinishSave, FinishAssign, FinishDelete,
       FinishAdd, FinishRemove, FinishRole, FinishChat, AllOps
  <2> QED  BY <1>5, <2>1, FinishSettles DEF Settles
<1>6. CASE Refuse(h)  BY <1>6, OtherSettles DEF Refuse, Free, tables, Settles
<1> QED  BY <1>2, <1>3, <1>4, <1>5, <1>6 DEF Ending

LEMMA SerialStep ==
  ASSUME Serial, Alone, [Next]_vars PROVE Serial'
<1>1. CASE UNCHANGED vars
  BY <1>1, Now DEF vars, Serial, Inv, TypeOK, Addressed, Aimed, Fresh, Unattached, Live, Loaded,
     Whole, OneRowOnly, Tied, Agrees, Emptied
<1>2. CASE \E i \in Invitations : Expire(i)
  <2>1. UNCHANGED <<team, member, standing, chat, removal, handler>>  BY <1>2 DEF Expire
  <2>2. Inv'  BY <1>2, ExpireStep DEF Kept, Serial
  <2>3. (\A h \in Handlers : Fresh(handler[h]))'
    BY <2>1 DEF Serial, Fresh, Unattached, Live, Loaded
  <2>4. Whole(team, member, standing, removal)'
    BY <2>1 DEF Serial, Whole, OneRowOnly, Tied, Agrees, Emptied
  <2> QED  BY <2>2, <2>3, <2>4 DEF Serial
<1>3. ASSUME NEW h \in Handlers, Beginning(h) PROVE Serial'  BY <1>3, BeginningFresh
<1>4. ASSUME NEW h \in Handlers, Ending(h), Next PROVE Serial'
  <2>1. Inv'  BY <1>4, Step DEF Kept, Serial
  <2>2. Free(h) /\ WholeAgain  BY <1>4, EndingSettles
  <2> QED  BY <1>4, <2>1, <2>2, Settled DEF WholeAgain
<1>5. Next => \/ \E i \in Invitations : Expire(i)
              \/ \E h \in Handlers : Beginning(h) \/ Ending(h)
  BY Zenon DEF Next, Beginning, Ending, OfTeam, OfRow
<1> QED  BY <1>1, <1>2, <1>3, <1>4, <1>5

LEMMA SerialStart == Init => Serial
<1> SUFFICES ASSUME Init PROVE Serial  OBVIOUS
<1>1. Inv  BY Start
<1>2. \A h \in Handlers : Fresh(handler[h])
  <2> SUFFICES ASSUME NEW h \in Handlers PROVE Fresh(handler[h])  OBVIOUS
  <2>1. handler[h].op = "idle"  BY DEF Init, Idle
  <2> QED  BY <2>1 DEF Fresh, AllOps
<1>3. /\ \A t \in Teams, p \in Participants : member[t][p].status = "none"
      /\ \A p \in Participants : standing[p] = "ready"
      /\ \A t \in Teams : team[t].status = "absent"
      /\ \A q \in Requests : ~ removal[q].linked
  BY DEF Init, NoRows, NoMember, NoTeam, NoRequest
<1>4. Whole(team, member, standing, removal)
  BY <1>3 DEF Whole, OneRowOnly, Tied, Agrees, Emptied, Current
<1> QED  BY <1>1, <1>2, <1>4 DEF Serial

\* One request at a time: what a request read is still so when it writes, and the
\* tables agree with each other after every step, whatever the clients call.
THEOREM AlwaysSerial ==
  ASSUME Alone PROVE Spec => []Serial
BY SerialStart, SerialStep, PTL DEF Spec

\* One request at a time: "assigned" means confirmed in some team, no matter in
\* which order teams are created, joined, left, saved, deleted and formed.
THEOREM StandingHolds ==
  ASSUME Alone PROVE Spec => []StandingFollowsMembership
<1>1. Serial => StandingFollowsMembership
  BY DEF Serial, Whole, Agrees, StandingFollowsMembership
<1> QED  BY <1>1, AlwaysSerial, PTL

\* One request at a time: a team goes with all its members, the pending ones too,
\* whether it is deleted or loses its last confirmed member.
THEOREM DeletedHolds ==
  ASSUME Alone PROVE Spec => []DeletedTeamIsEmpty
<1>1. Serial => DeletedTeamIsEmpty
  BY DEF Serial, Whole, Emptied, DeletedTeamIsEmpty, Rows
<1> QED  BY <1>1, AlwaysSerial, PTL

-----------------------------------------------------------------------------
(* The chat channel.                                                        *)

LEMMA Begins ==
  ASSUME NEW h \in Handlers, Beginning(h)
  PROVE  \E x : Begin(h, x)
<1>1. \A p \in Participants : BeginCreate(h, p) => \E x : Begin(h, x)  BY DEF BeginCreate
<1>2. ASSUME NEW t \in Teams, NEW p \in Participants, ByParticipant(h, t, p)
      PROVE  \E x : Begin(h, x)
  <2>1. BeginJoin(h, t, p) \/ BeginBackfill(h, t, p) => \E x : Begin(h, x)
    BY DEF BeginJoin, BeginBackfill
  <2>2. ASSUME NEW by \in Participants,
               \/ BeginConfirm(h, t, by, p) \/ BeginDecline(h, t, by, p)
               \/ BeginDismiss(h, t, by, p) \/ BeginRequest(h, t, by, p)
               \/ BeginInvite(h, t, by, p)
        PROVE  \E x : Begin(h, x)
    BY <2>2 DEF BeginConfirm, BeginDecline, BeginDismiss, BeginRequest, BeginInvite
  <2>3. ASSUME NEW r \in TeamRole
        PROVE  BeginAdd(h, t, p, r) \/ BeginRole(h, t, p, r) => \E x : Begin(h, x)
    BY DEF BeginAdd, BeginRole
  <2>4. BeginRemove(h, t, p) => \E x : Begin(h, x)  BY DEF BeginRemove
  <2> QED  BY <1>2, <2>1, <2>2, <2>3, <2>4 DEF ByParticipant
<1>3. ASSUME NEW t \in Teams
      PROVE  /\ \A s \in TeamStatus : BeginSave(h, t, s) => \E x : Begin(h, x)
             /\ \A b \in Briefs \cup {Null} : BeginAssign(h, t, b) => \E x : Begin(h, x)
             /\ BeginDelete(h, t) => \E x : Begin(h, x)
             /\ BeginChat(h, t) => \E x : Begin(h, x)
  BY DEF BeginSave, BeginAssign, BeginDelete, BeginChat
<1>4. ASSUME NEW q \in Requests
      PROVE  BeginApprove(h, q) \/ BeginReject(h, q) => \E x : Begin(h, x)
  BY DEF BeginApprove, BeginReject
<1>5. ASSUME NEW i \in Invitations, NEW s
      PROVE  BeginAccept(h, i) \/ BeginAnswer(h, i, s) => \E x : Begin(h, x)
  BY DEF BeginAccept, BeginAnswer
<1>6. ASSUME NEW S \in SUBSET Participants, NEW b \in Briefs \cup {Null}, NEW lead, NEW co
      PROVE  BeginForm(h, S, lead, co, b) => \E x : Begin(h, x)
  BY DEF BeginForm
<1> QED  BY <1>1, <1>2, <1>3, <1>4, <1>5, <1>6, Zenon DEF Beginning

LEMMA QuietStep ==
  ASSUME Serial, Quiet(team, chat), [Next]_vars
  PROVE  Quiet(team, chat)' /\ \A u \in Teams : Heard(u)
<1>1. CASE UNCHANGED <<team, member, chat>>
  BY <1>1, Unheard DEF QuietAgain
<1>2. ASSUME NEW h \in Handlers, Beginning(h) PROVE UNCHANGED <<team, member, chat>>
  BY <1>2, Begins DEF Begin, tables
<1>3. ASSUME NEW h \in Handlers, Ending(h) PROVE QuietAgain
  BY <1>3, EndingSettles
<1>4. Next => \/ \E i \in Invitations : Expire(i)
              \/ \E h \in Handlers : Beginning(h) \/ Ending(h)
  BY Zenon DEF Next, Beginning, Ending, OfTeam, OfRow
<1> QED  BY <1>1, <1>2, <1>3, <1>4 DEF Expire, vars, QuietAgain

LEMMA QuietStart == Init => Quiet(team, chat)
BY DEF Init, Quiet, NoTeam

\* One request at a time, and whatever the clients call: whoever loses a confirmed
\* place in a team that lives on loses its channel with it, and the only ones to read
\* on are those that initializeTeamChat admitted while they were pending.
THEOREM ChatHolds ==
  ASSUME Alone PROVE Spec => OnlyTheDeclinedReadOn
<1> DEFINE Follow == \A t \in Teams : Live(t)' =>
              Outsiders(t)' \ Outsiders(t) \subseteq Rows(member[t], {"pending"})
<1>1. Serial /\ Serial' /\ Quiet(team, chat) /\ [Next]_vars => [Follow]_vars
  <2> SUFFICES ASSUME Serial, Serial', Quiet(team, chat), [Next]_vars,
                      NEW t \in Teams, Live(t)', NEW q \in Outsiders(t)' \ Outsiders(t)
               PROVE  q \in Rows(member[t], {"pending"})
    OBVIOUS
  <2>1. q \in Participants  BY Now DEF Serial, Outsiders, Inv, TypeOK
  <2>2. Heard(t)  BY QuietStep
  <2> QED  BY <2>1, <2>2 DEF Heard, Came, Outsiders, Live, Rows, Current
<1>2. Serial /\ Quiet(team, chat) /\ [Next]_vars => Quiet(team, chat)'  BY QuietStep
<1> QED
  BY <1>1, <1>2, AlwaysSerial, QuietStart, PTL DEF Spec, OnlyTheDeclinedReadOn
=============================================================================
