------------------------- MODULE TeamMembership -------------------------
(***************************************************************************)
(* Teams of a cohort: the tables teams, team_members, team_invitations and *)
(* team_member_removal_requests, the participants' status and the members  *)
(* of the team's chat channel, under the handlers of teams.service.ts and  *)
(* the two writes of team-formation.service.ts.                            *)
(*                                                                         *)
(* A handler reads, decides, and writes later.  Its transaction is READ    *)
(* COMMITTED and takes no lock, so what it read may be stale when it       *)
(* writes; only the unique indexes and the triggers of the migration look  *)
(* at the tables as they are then.  The reads of a handler are one step,   *)
(* and its writes, which commit together, another.                         *)
(***************************************************************************)
EXTENDS Naturals, FiniteSets

CONSTANTS
  Teams,          \* bound: ids available for rows of teams
  Participants,   \* participants of the cohort, all in one group
  Briefs,         \* approved briefs of the cohort
  Invitations,    \* bound: ids available for rows of team_invitations
  Requests,       \* bound: removal requests pending at once
  Handlers,       \* bound: HTTP requests in flight at once
  Ops,            \* the endpoints the clients of an instance call
  TeamSizeMax,    \* cohorts.team_size_max
  MaxTeams,       \* briefs.max_teams
  Null            \* SQL NULL

ASSUME SizeAssumption == TeamSizeMax \in Nat \ {0} /\ MaxTeams \in Nat
ASSUME FiniteAssumption == IsFiniteSet(Participants) /\ IsFiniteSet(Teams)
                           /\ IsFiniteSet(Handlers)
ASSUME NullAssumption == /\ Null \notin Briefs \cup Invitations \cup Requests
                         /\ Null \notin Teams \cup Participants

VARIABLES
  team,           \* teams: status, brief_id, and the state of the chat channel
  member,         \* team_members: the row of a team and a participant
  standing,       \* participants.status
  chat,           \* participants in the team's chat channel
  invitation,     \* team_invitations
  removal,        \* team_member_removal_requests that are pending
  handler         \* what each request holds between its reads and its writes

vars == <<team, member, standing, chat, invitation, removal, handler>>
tables == <<team, member, standing, chat, invitation, removal>>

-----------------------------------------------------------------------------
\* A soft-deleted team is "deleted".  Submitted and evaluated teams are treated
\* like active ones everywhere in this service.
TeamStatus == {"forming", "active", "disqualified"}
Team == [status : TeamStatus \cup {"absent", "deleted"},
         brief : Briefs \cup {Null},
         channel : {"none", "open", "archived"}]
NoTeam == [status |-> "absent", brief |-> Null, channel |-> "none"]

\* A soft-deleted row is "removed"; it keeps its place in the unique index of
\* (team, participant).  Ids tell a row from an earlier one of the same pair.
TeamRole == {"lead", "co_lead", "member"}
Ids == 0 .. Cardinality(Handlers)
TeamMember == [status : {"none", "pending", "confirmed", "removed"},
               role : TeamRole, id : Ids]
NoMember == [status |-> "none", role |-> "member", id |-> 0]
NoRows == [p \in Participants |-> NoMember]

TeamInvitation == [team : Teams \cup {Null}, who : Participants \cup {Null},
                   status : {"none", "pending", "accepted", "declined",
                             "cancelled", "deleted"},
                   expired : BOOLEAN]
NoInvitation == [team |-> Null, who |-> Null, status |-> "none",
                 expired |-> FALSE]
NoMail == [i \in Invitations |-> NoInvitation]

\* linked: member_id still refers to the member's row (ON DELETE SET NULL).
RemovalRequest == [team : Teams \cup {Null}, who : Participants \cup {Null},
                   linked : BOOLEAN]
NoRequest == [team |-> Null, who |-> Null, linked |-> FALSE]

AllOps == {"create", "join", "confirm", "decline", "dismiss", "request",
           "approve", "reject", "invite", "accept", "answer", "save", "assign",
           "delete", "add", "remove", "role", "chat", "form", "backfill"}
Handler == [op : AllOps \cup {"idle"}, team : Teams \cup {Null},
            who : Participants \cup {Null},
            arg : TeamRole \cup TeamStatus \cup Briefs \cup Invitations
                  \cup Requests \cup {Null, "declined", "cancelled"},
            rows : [Participants -> TeamMember],
            mail : [Invitations -> TeamInvitation],
            brief : Briefs \cup {Null}]
Idle == [op |-> "idle", team |-> Null, who |-> Null, arg |-> Null,
         rows |-> NoRows, mail |-> NoMail, brief |-> Null]

Live(t) == team[t].status \in TeamStatus
Rows(rows, s) == {p \in Participants : rows[p].status \in s}
Current == {"pending", "confirmed"}
Loaded(t) == [p \in Participants |->
                IF member[t][p].status \in Current THEN member[t][p] ELSE NoMember]
Unattached(p) == \A t \in Teams : member[t][p].status \notin Current
Leads(t) == {p \in Rows(member[t], Current) : member[t][p].role \in {"lead", "co_lead"}}

-----------------------------------------------------------------------------
(* The database: unique indexes, triggers, and TypeORM's writes.            *)

\* Trigger acmp_team_member_capacity.
HasSeatOrOneMore(rows, t, p) ==   \* mutant: counts strictly above the capacity
  rows[t][p].status = "confirmed" =>
    Cardinality(Rows(rows[t], {"confirmed"}) \ {p}) <= TeamSizeMax
HasSeat(rows, t, p) ==
  rows[t][p].status = "confirmed" =>
    Cardinality(Rows(rows[t], {"confirmed"}) \ {p}) < TeamSizeMax

\* Unique index team_member_one_confirmed_team.
NoIndex(rows, t, p) == TRUE   \* mutant: the index is missing
OneTeam(rows, t, p) ==
  rows[t][p].status = "confirmed" =>
    \A u \in Teams \ {t} : rows[u][p].status # "confirmed"

MemberAccepted(rows, t, p) == HasSeat(rows, t, p) /\ OneTeam(rows, t, p)

\* Trigger acmp_brief_capacity.
Working(teams, b) == {t \in Teams : /\ teams[t].status \in {"forming", "active"}
                                    /\ teams[t].brief = b}
BriefTriggerOnBriefOnly(teams, t) ==   \* mutant: a change of status is not checked
  teams[t].brief # team[t].brief =>
    (teams[t].status \in {"forming", "active"} /\ teams[t].brief # Null =>
       Cardinality(Working(teams, teams[t].brief) \ {t}) < MaxTeams)
BriefAccepted(teams, t) ==
  teams[t].status \in {"forming", "active"} /\ teams[t].brief # Null =>
    Cardinality(Working(teams, teams[t].brief) \ {t}) < MaxTeams
\* @Unique(["teamId", "participantId", "status"]).
MailAccepted(mail) ==
  \A i, j \in Invitations :
    i # j /\ mail[i].status \notin {"none", "deleted"} =>
      \/ mail[i].team # mail[j].team
      \/ mail[i].who # mail[j].who
      \/ mail[i].status # mail[j].status

Held(t, p) == {handler[h].rows[p].id :
                 h \in {g \in Handlers : /\ handler[g].team = t
                                         /\ handler[g].rows[p].status # "none"}}
FreshId(t, p) == CHOOSE i \in Ids : i \notin Held(t, p)
NewMember(t, p, s, r) == [status |-> s, role |-> r, id |-> FreshId(t, p)]

\* save() of a row read earlier: an UPDATE by id, or an INSERT if the row is gone.
CanSave(rows, t, p, row) == rows[t][p].status = "none" \/ rows[t][p].id = row.id
Save(rows, t, p, row) ==
  [rows EXCEPT ![t][p] = IF @.status = "removed" THEN @ ELSE row]

\* remove() of a row read earlier: a DELETE by id.
Stored(rows, t, p, row) == rows[t][p].status # "none" /\ rows[t][p].id = row.id
Remove(rows, t, p, row) ==
  [rows EXCEPT ![t][p] = IF Stored(rows, t, p, row) THEN NoMember ELSE @]
Unlink(rows) ==
  [q \in Requests |->
     IF removal[q].linked /\ rows[removal[q].team][removal[q].who].status = "none"
     THEN [removal[q] EXCEPT !.linked = FALSE] ELSE removal[q]]

\* softRemove() of a team cascades to the members and invitations loaded with it.
SoftRemoveConfirmed(rows, t, seen) ==   \* mutant: pending members stay behind
  [rows EXCEPT ![t] = [p \in Participants |->
     IF seen[p].status = "confirmed" /\ Stored(rows, t, p, seen[p])
     THEN [rows[t][p] EXCEPT !.status = "removed", !.role = "member"]
     ELSE rows[t][p]]]
SoftRemove(rows, t, seen) ==
  [rows EXCEPT ![t] = [p \in Participants |->
     IF seen[p].status # "none" /\ Stored(rows, t, p, seen[p])
     THEN [rows[t][p] EXCEPT !.status = "removed", !.role = "member"]
     ELSE rows[t][p]]]
DiscardAsExpired(mail) == [i \in Invitations |->   \* mutant: a status nobody expects
     IF mail[i].status # "none"
     THEN [invitation[i] EXCEPT !.status = "expired"] ELSE invitation[i]]
Discard(mail) == [i \in Invitations |->
     IF mail[i].status # "none"
     THEN [invitation[i] EXCEPT !.status = "deleted", !.expired = FALSE]
     ELSE invitation[i]]
Mail(t) == [i \in Invitations |->
     IF invitation[i].team = t /\ invitation[i].status # "deleted"
     THEN invitation[i] ELSE NoInvitation]

-----------------------------------------------------------------------------
(* Handlers.                                                                *)

Begin(h, hold) == /\ handler[h] = Idle
                  /\ hold.op \in Ops
                  /\ handler' = [handler EXCEPT ![h] = hold]
                  /\ UNCHANGED tables
Hold(o, t, p, a) == [Idle EXCEPT !.op = o, !.team = t, !.who = p, !.arg = a]
HoldRow(o, t, p, a) == [Hold(o, t, p, a) EXCEPT !.rows[p] = member[t][p]]
HoldTeam(o, t, p, a) == [Hold(o, t, p, a) EXCEPT !.rows = Loaded(t),
                                                 !.mail = Mail(t),
                                                 !.brief = team[t].brief]
Finish(h, o) == /\ handler[h].op = o
                /\ handler' = [handler EXCEPT ![h] = Idle]
\* A constraint or a lost connection rolls the transaction back.
Refuse(h) == /\ handler[h] # Idle
             /\ handler' = [handler EXCEPT ![h] = Idle]
             /\ UNCHANGED tables

Admit(t, p) == IF team[t].channel # "none" THEN [chat EXCEPT ![t] = @ \cup {p}] ELSE chat
ExpelNobody(t, p) == chat   \* mutant: a removed member stays in the channel
Expel(t, p) == IF team[t].channel # "none" THEN [chat EXCEPT ![t] = @ \ {p}] ELSE chat
Sized(t, s) == Cardinality(Rows(member[t], s)) < TeamSizeMax

BeginCreate(h, p) == Unattached(p) /\ Begin(h, Hold("create", Null, p, Null))
FinishCreate(h, t) ==
  LET p == handler[h].who
      rows == [member EXCEPT ![t][p] = NewMember(t, p, "confirmed", "lead")]
  IN /\ Finish(h, "create")
     /\ team[t].status = "absent"
     /\ MemberAccepted(rows, t, p)
     /\ team' = [team EXCEPT ![t] = [status |-> "forming", brief |-> Null,
                                     channel |-> "open"]]
     /\ member' = rows
     /\ standing' = [standing EXCEPT ![p] = "assigned"]
     /\ chat' = [chat EXCEPT ![t] = {p}]
     /\ UNCHANGED <<invitation, removal>>

BeginJoin(h, t, p) ==
  /\ team[t].status = "forming" /\ Sized(t, {"confirmed"}) /\ Unattached(p)
  /\ Begin(h, Hold("join", t, p, Null))
\* The preview of a formation run is finalized up to 30 minutes later.
BeginBackfill(h, t, p) ==
  /\ team[t].status \in {"forming", "active"} /\ Sized(t, {"confirmed"}) /\ Unattached(p)
  /\ Begin(h, Hold("backfill", t, p, Null))
FinishJoin(h) ==
  LET t == handler[h].team  p == handler[h].who
  IN /\ Finish(h, "join") \/ Finish(h, "backfill")
     /\ member[t][p].status = "none"
     /\ member' = [member EXCEPT ![t][p] = NewMember(t, p, "pending", "member")]
     /\ UNCHANGED <<team, standing, chat, invitation, removal>>

BeginConfirm(h, t, by, p) ==
  /\ Live(t) /\ by \in Leads(t) /\ member[t][p].status = "pending"
  /\ Sized(t, {"confirmed"})
  /\ Begin(h, HoldRow("confirm", t, p, Null))
FinishConfirm(h) ==
  LET t == handler[h].team  p == handler[h].who
      row == [handler[h].rows[p] EXCEPT !.status = "confirmed"]
      rows == Save(member, t, p, row)
  IN /\ Finish(h, "confirm")
     /\ CanSave(member, t, p, row) /\ MemberAccepted(rows, t, p)
     /\ member' = [u \in Teams |->
                     IF u # t /\ rows[u][p].status = "pending"
                     THEN [rows[u] EXCEPT ![p] = NoMember] ELSE rows[u]]
     /\ standing' = [standing EXCEPT ![p] = "assigned"]
     /\ chat' = Admit(t, p)
     /\ removal' = Unlink(member')
     /\ UNCHANGED <<team, invitation>>

BeginDecline(h, t, by, p) ==
  /\ Live(t) /\ by \in Leads(t) /\ member[t][p].status = "pending"
  /\ Begin(h, HoldRow("decline", t, p, Null))
\* requestMemberRemoval of a pending member removes it at once.
BeginDismiss(h, t, by, p) ==
  /\ Live(t) /\ by \in Leads(t) \ {p}
  /\ member[t][p].status = "pending" /\ member[t][p].role # "lead"
  /\ Begin(h, HoldRow("dismiss", t, p, Null))
FinishDecline(h) ==
  LET t == handler[h].team  p == handler[h].who
  IN /\ Finish(h, "decline") \/ Finish(h, "dismiss")
     /\ member' = Remove(member, t, p, handler[h].rows[p])
     /\ removal' = Unlink(member')
     /\ UNCHANGED <<team, standing, chat, invitation>>

BeginRequest(h, t, by, p) ==
  /\ Live(t) /\ by \in Leads(t) \ {p}
  /\ member[t][p].status = "confirmed" /\ member[t][p].role # "lead"
  /\ \A q \in Requests : <<removal[q].team, removal[q].who>> # <<t, p>>
  /\ Begin(h, HoldRow("request", t, p, Null))
FinishRequest(h, q) ==
  LET t == handler[h].team  p == handler[h].who
  IN /\ Finish(h, "request")
     /\ removal[q] = NoRequest /\ \A g \in Handlers : handler[g].arg # q
     /\ Stored(member, t, p, handler[h].rows[p])
     /\ removal' = [removal EXCEPT ![q] = [team |-> t, who |-> p, linked |-> TRUE]]
     /\ UNCHANGED <<team, member, standing, chat, invitation>>

BeginApprove(h, q) ==
  LET t == removal[q].team  p == removal[q].who
  IN /\ removal[q] # NoRequest
     /\ Begin(h, IF removal[q].linked /\ member[t][p].status \in Current
                 THEN HoldRow("approve", t, p, q) ELSE Hold("approve", t, p, q))
\* The member goes if the request still had one when it was read.
FinishApprove(h) ==
  LET t == handler[h].team  p == handler[h].who  row == handler[h].rows[p]
      found == row.status # "none"
  IN /\ Finish(h, "approve")
     /\ member' = IF found THEN Remove(member, t, p, row) ELSE member
     /\ standing' = IF found THEN [standing EXCEPT ![p] = "ready"] ELSE standing
     /\ chat' = IF found THEN Expel(t, p) ELSE chat
     /\ removal' = [Unlink(member') EXCEPT ![handler[h].arg] = NoRequest]
     /\ UNCHANGED <<team, invitation>>
BeginReject(h, q) ==
  /\ removal[q] # NoRequest
  /\ Begin(h, Hold("reject", removal[q].team, removal[q].who, q))
FinishReject(h) ==
  /\ Finish(h, "reject")
  /\ removal' = [removal EXCEPT ![handler[h].arg] = NoRequest]
  /\ UNCHANGED <<team, member, standing, chat, invitation>>

BeginInvite(h, t, by, p) ==
  /\ Live(t) /\ by \in Leads(t) /\ Sized(t, Current)
  /\ standing[p] = "ready" /\ Unattached(p)
  /\ \A i \in Invitations : invitation[i].status = "pending" =>
       <<invitation[i].team, invitation[i].who>> # <<t, p>>
  /\ Begin(h, Hold("invite", t, p, Null))
FinishInvite(h, i) ==
  LET sent == [team |-> handler[h].team, who |-> handler[h].who,
               status |-> "pending", expired |-> FALSE]
      mail == [invitation EXCEPT ![i] = sent]
  IN /\ Finish(h, "invite")
     /\ invitation[i] = NoInvitation /\ MailAccepted(mail)
     /\ invitation' = mail
     /\ UNCHANGED <<team, member, standing, chat, removal>>
\* Seven days pass.
Expire(i) ==
  /\ invitation[i].status = "pending" /\ ~ invitation[i].expired
  /\ invitation' = [invitation EXCEPT ![i].expired = TRUE]
  /\ UNCHANGED <<team, member, standing, chat, removal, handler>>

BeginAccept(h, i) ==
  LET t == invitation[i].team  p == invitation[i].who
  IN /\ invitation[i].status = "pending" /\ ~ invitation[i].expired
     /\ Live(t) /\ Sized(t, Current) /\ Unattached(p)
     /\ Begin(h, Hold("accept", t, p, i))
Answered(mail, i, status) ==
  [mail EXCEPT ![i] = IF @.status = "deleted" THEN @
                      ELSE [@ EXCEPT !.status = status, !.expired = FALSE]]
\* The other invitations of the participant are cancelled in one statement.
FinishAccept(h) ==
  LET t == handler[h].team  p == handler[h].who
      rows == [member EXCEPT ![t][p] = NewMember(t, p, "confirmed", "member")]
      mail == [j \in Invitations |->
        IF invitation[j].who = p /\ invitation[j].status = "pending" /\ j # handler[h].arg
        THEN [invitation[j] EXCEPT !.status = "cancelled", !.expired = FALSE]
        ELSE Answered(invitation, handler[h].arg, "accepted")[j]]
  IN /\ Finish(h, "accept")
     /\ member[t][p].status = "none" /\ MemberAccepted(rows, t, p)
     /\ MailAccepted(mail)
     /\ member' = rows /\ invitation' = mail
     /\ standing' = [standing EXCEPT ![p] = "assigned"]
     /\ UNCHANGED <<team, chat, removal>>

\* The participant declines, or a leader cancels.
BeginAnswer(h, i, status) ==
  /\ invitation[i].status = "pending" /\ Live(invitation[i].team)
  /\ IF status = "declined" THEN ~ invitation[i].expired
                            ELSE Leads(invitation[i].team) # {}
  /\ Begin(h, [Hold("answer", invitation[i].team, invitation[i].who, status)
                 EXCEPT !.mail = [NoMail EXCEPT ![i] = invitation[i]]])
FinishAnswer(h) ==
  LET i == CHOOSE j \in Invitations : handler[h].mail[j] # NoInvitation
      mail == Answered(invitation, i, handler[h].arg)
  IN /\ Finish(h, "answer")
     /\ MailAccepted(mail)
     /\ invitation' = mail
     /\ UNCHANGED <<team, member, standing, chat, removal>>

\* update, updateStatus and disqualify save the team with everything loaded with it.
BeginSave(h, t, status) ==
  /\ Live(t)
  /\ status = "disqualified" => team[t].status # "disqualified"
  /\ Begin(h, HoldTeam("save", t, Null, status))
FinishSave(h) ==
  LET t == handler[h].team  seen == handler[h].rows
      rows == [member EXCEPT ![t] = [p \in Participants |->
                 IF seen[p].status # "none" THEN Save(member, t, p, seen[p])[t][p]
                                            ELSE member[t][p]]]
      mail == [i \in Invitations |->
                 IF handler[h].mail[i] = NoInvitation \/ invitation[i].status = "deleted"
                 THEN invitation[i]
                 ELSE [handler[h].mail[i] EXCEPT !.expired = @ \/ invitation[i].expired]]
      teams == [team EXCEPT ![t].status = IF @ = "deleted" THEN @ ELSE handler[h].arg,
                            ![t].brief = handler[h].brief]
  IN /\ Finish(h, "save")
     \* A row that was not loaded would lose its team: team_id is NOT NULL.
     /\ \A p \in Participants : IF seen[p].status = "none"
                                THEN member[t][p].status = "none"
                                ELSE CanSave(member, t, p, seen[p])
     /\ \A i \in Invitations : invitation[i].team = t /\ invitation[i].status # "deleted"
                               => handler[h].mail[i] # NoInvitation
     /\ \A p \in Participants : rows[t][p] # member[t][p] => MemberAccepted(rows, t, p)
     /\ MailAccepted(mail)
     /\ BriefAccepted(teams, t)
     /\ team' = teams /\ member' = rows /\ invitation' = mail
     /\ UNCHANGED <<standing, chat, removal>>

\* assignBrief, and unassignBrief with Null; a forming team becomes active.
BeginAssign(h, t, b) ==
  /\ Live(t)
  /\ IF b = Null THEN team[t].brief # Null
     ELSE team[t].brief = b \/ Cardinality(Working(team, b)) < MaxTeams
  /\ Begin(h, [Hold("assign", t, Null, team[t].status) EXCEPT !.brief = b])
FinishAssign(h) ==
  LET t == handler[h].team
      teams == [team EXCEPT ![t].brief = handler[h].brief,
                            ![t].status =
                              IF handler[h].arg = "forming" /\ handler[h].brief # Null
                                 /\ @ # "deleted" THEN "active" ELSE @]
  IN /\ Finish(h, "assign")
     /\ BriefAccepted(teams, t)
     /\ team' = teams
     /\ UNCHANGED <<member, standing, chat, invitation, removal>>

BeginDelete(h, t) ==
  team[t].status = "forming" /\ Begin(h, HoldTeam("delete", t, Null, Null))
DeleteLead(h) ==   \* mutant: only the lead gets his status back
  LET t == handler[h].team  seen == handler[h].rows
  IN /\ Finish(h, "delete")
     /\ standing' = [p \in Participants |->
                       IF seen[p].role = "lead" THEN "ready" ELSE standing[p]]
     /\ team' = [team EXCEPT ![t].status = "deleted"]
     /\ member' = SoftRemove(member, t, seen)
     /\ invitation' = Discard(handler[h].mail)
     /\ UNCHANGED <<chat, removal>>
FinishDelete(h) ==
  LET t == handler[h].team  seen == handler[h].rows
  IN /\ Finish(h, "delete")
     /\ standing' = [p \in Participants |->
                       IF seen[p].status # "none" THEN "ready" ELSE standing[p]]
     /\ team' = [team EXCEPT ![t].status = "deleted"]
     /\ member' = SoftRemove(member, t, seen)
     /\ invitation' = Discard(handler[h].mail)
     /\ UNCHANGED <<chat, removal>>
\* Staff add, remove and promote members.
BeginAdd(h, t, p, role) ==
  /\ Live(t) /\ Sized(t, Current) /\ Unattached(p)
  /\ Begin(h, Hold("add", t, p, role))
FinishAdd(h) ==
  LET t == handler[h].team  p == handler[h].who
      rows == [member EXCEPT ![t][p] = NewMember(t, p, "confirmed", handler[h].arg)]
  IN /\ Finish(h, "add")
     /\ member[t][p].status = "none" /\ MemberAccepted(rows, t, p)
     /\ member' = rows
     /\ standing' = [standing EXCEPT ![p] = "assigned"]
     /\ chat' = Admit(t, p)
     /\ UNCHANGED <<team, invitation, removal>>

BeginRemove(h, t, p) ==
  /\ Live(t) /\ member[t][p].status \in Current
  /\ member[t][p].role = "lead" => Cardinality(Rows(member[t], {"confirmed"})) <= 1
  /\ Begin(h, HoldTeam("remove", t, p, Null))
\* The last confirmed member takes the team with him.
FinishRemove(h) ==
  LET t == handler[h].team  p == handler[h].who  seen == handler[h].rows
      confirmed == seen[p].status = "confirmed"
      last == Rows(seen, {"confirmed"}) = {p}
      rows == Remove(member, t, p, seen[p])
  IN /\ Finish(h, "remove")
     /\ member' = IF last THEN SoftRemove(rows, t, seen) ELSE rows
     /\ team' = IF ~ last THEN team
                ELSE [team EXCEPT ![t].status = "deleted",
                                  ![t].channel = IF @ = "none" THEN @ ELSE "archived"]
     /\ invitation' = IF last THEN Discard(handler[h].mail) ELSE invitation
     /\ standing' = IF confirmed THEN [standing EXCEPT ![p] = "ready"] ELSE standing
     /\ chat' = IF confirmed THEN Expel(t, p) ELSE chat
     /\ removal' = Unlink(rows)

BeginRole(h, t, p, role) ==
  /\ Live(t) /\ member[t][p].status \in Current
  /\ Begin(h, HoldTeam("role", t, p, role))
\* A new lead takes over from the first lead found.
FinishRole(h) ==
  LET t == handler[h].team  p == handler[h].who  seen == handler[h].rows
      leads == {l \in Participants : seen[l].status # "none" /\ seen[l].role = "lead"}
      row == [seen[p] EXCEPT !.role = handler[h].arg]
  IN /\ Finish(h, "role")
     /\ \E l \in IF handler[h].arg = "lead" /\ leads # {} THEN leads ELSE {p} :
          LET old == [seen[l] EXCEPT !.role = "member"]
              first == IF l = p THEN member ELSE Save(member, t, l, old)
              rows == Save(first, t, p, row)
          IN /\ CanSave(member, t, p, row) /\ MemberAccepted(rows, t, p)
             /\ l # p => CanSave(member, t, l, old) /\ MemberAccepted(first, t, l)
             /\ member' = rows
     /\ UNCHANGED <<team, standing, chat, invitation, removal>>

\* initializeTeamChat, for teams that team formation left without a channel.  It is
\* not one transaction: it may fail after some of the members it loaded.
BeginChat(h, t) == /\ Live(t) /\ team[t].channel = "none"
                   /\ Begin(h, HoldTeam("chat", t, Null, Null))
FinishChat(h) ==
  LET t == handler[h].team
  IN /\ Finish(h, "chat")
     /\ team' = [team EXCEPT ![t].channel = "open"]
     /\ \E S \in SUBSET Rows(handler[h].rows, Current) :
          chat' = [chat EXCEPT ![t] = @ \cup S]
     /\ UNCHANGED <<member, standing, invitation, removal>>

\* createTeamWithMembers: the preview, with its lead and co-lead, is already old.
BeginForm(h, S, lead, co, b) ==
  /\ \A p \in S : Unattached(p)
  /\ Begin(h, [Hold("form", Null, Null, Null) EXCEPT
                 !.rows = [p \in Participants |-> IF p \notin S THEN NoMember ELSE
                   [status |-> "confirmed", id |-> 0,
                    role |-> IF p = lead THEN "lead"
                             ELSE IF p = co THEN "co_lead" ELSE "member"]],
                 !.brief = b])
FinishForm(h, t) ==
  LET S == Rows(handler[h].rows, {"confirmed"})
      rows == [member EXCEPT ![t] = [p \in Participants |->
                 IF p \in S THEN [handler[h].rows[p] EXCEPT !.id = FreshId(t, p)] ELSE @[p]]]
      teams == [team EXCEPT ![t] = [status |-> "active", brief |-> handler[h].brief,
                                    channel |-> "none"]]
  IN /\ Finish(h, "form")
     /\ team[t].status = "absent" /\ BriefAccepted(teams, t)
     /\ \A p \in S : MemberAccepted(rows, t, p)
     /\ team' = teams /\ member' = rows
     /\ standing' = [p \in Participants |-> IF p \in S THEN "assigned" ELSE standing[p]]
     /\ UNCHANGED <<chat, invitation, removal>>

-----------------------------------------------------------------------------
Init == /\ team = [t \in Teams |-> NoTeam]
        /\ member = [t \in Teams |-> NoRows]
        /\ standing = [p \in Participants |-> "ready"]
        /\ chat = [t \in Teams |-> {}]
        /\ invitation = NoMail
        /\ removal = [q \in Requests |-> NoRequest]
        /\ handler = [h \in Handlers |-> Idle]

ByParticipant(h, t, p) ==
  \/ BeginJoin(h, t, p) \/ BeginBackfill(h, t, p)
  \/ \E by \in Participants :
       \/ BeginConfirm(h, t, by, p) \/ BeginDecline(h, t, by, p)
       \/ BeginDismiss(h, t, by, p) \/ BeginRequest(h, t, by, p)
       \/ BeginInvite(h, t, by, p)
  \/ BeginRemove(h, t, p)
  \/ \E r \in TeamRole : BeginAdd(h, t, p, r) \/ BeginRole(h, t, p, r)
OfTeam(h, t) ==
  \/ \E s \in TeamStatus : BeginSave(h, t, s)
  \/ \E b \in Briefs \cup {Null} : BeginAssign(h, t, b)
  \/ BeginDelete(h, t) \/ BeginChat(h, t)
  \/ FinishCreate(h, t) \/ FinishForm(h, t)
OfRow(h) ==
  \/ \E q \in Requests : BeginApprove(h, q) \/ BeginReject(h, q) \/ FinishRequest(h, q)
  \/ \E i \in Invitations : \/ BeginAccept(h, i) \/ FinishInvite(h, i)
                            \/ BeginAnswer(h, i, "declined")
                            \/ BeginAnswer(h, i, "cancelled")
Finishes(h) ==
  \/ FinishJoin(h) \/ FinishConfirm(h) \/ FinishDecline(h) \/ FinishApprove(h)
  \/ FinishReject(h) \/ FinishAccept(h) \/ FinishAnswer(h) \/ FinishSave(h)
  \/ FinishAssign(h) \/ FinishDelete(h) \/ FinishAdd(h) \/ FinishRemove(h)
  \/ FinishRole(h) \/ FinishChat(h)
Next ==
  \/ \E h \in Handlers :
       \/ \E p \in Participants : BeginCreate(h, p)
       \/ \E t \in Teams, p \in Participants : ByParticipant(h, t, p)
       \/ \E t \in Teams : OfTeam(h, t)
       \/ OfRow(h) \/ Finishes(h) \/ Refuse(h)
       \/ \E S \in SUBSET Participants, b \in Briefs \cup {Null} :
            \E lead, co \in S : lead # co /\ BeginForm(h, S, lead, co, b)
  \/ \E i \in Invitations : Expire(i)

Spec == Init /\ [][Next]_vars

-----------------------------------------------------------------------------
(* Properties.                                                              *)

\* Every variable has its type (the rows and entities of this service).
TypeOK ==
  /\ team \in [Teams -> Team]
  /\ member \in [Teams -> [Participants -> TeamMember]]
  /\ standing \in [Participants -> {"ready", "assigned"}]
  /\ chat \in [Teams -> SUBSET Participants]
  /\ invitation \in [Invitations -> TeamInvitation]
  /\ removal \in [Requests -> RemovalRequest]
  /\ handler \in [Handlers -> Handler]

\* A team never has more confirmed members than the cohort allows, although
\* every handler counts the members long before it writes.
TeamCapacity ==
  \A t \in Teams : Cardinality(Rows(member[t], {"confirmed"})) <= TeamSizeMax

\* Nobody is a confirmed member of two teams, although two leaders, an
\* invitation, staff and a formation run may all confirm him at once.
OneConfirmedTeam ==
  \A t, u \in Teams, p \in Participants :
    member[t][p].status = "confirmed" /\ member[u][p].status = "confirmed" => t = u

\* A brief never has more working teams than max_teams: assignments, new teams
\* with a brief and teams that come back from disqualification add up.
BriefCapacity == \A b \in Briefs : Cardinality(Working(team, b)) <= MaxTeams

\* With one handler at a time, a participant is "assigned" exactly while he is
\* a confirmed member of some team, through every sequence of calls.
StandingFollowsMembership ==
  \A p \in Participants :
    standing[p] = "assigned" <=> \E t \in Teams : member[t][p].status = "confirmed"

\* With one handler at a time, a participant comes to read the channel of an existing
\* team without being its member in one way only: initializeTeamChat admitted him
\* while he was pending, and he then was declined.  Whoever loses a confirmed place,
\* by whatever endpoint, loses the channel in the same step, and nobody else gets in.
Outsiders(t) == chat[t] \ Rows(member[t], Current)
OnlyTheDeclinedReadOn ==
  [][\A t \in Teams : Live(t)' =>
       Outsiders(t)' \ Outsiders(t) \subseteq Rows(member[t], {"pending"})]_vars

\* With one handler at a time, nobody is left a member of a deleted team, which
\* every later join, invitation and addition of his would be refused for.
DeletedTeamIsEmpty ==
  \A t \in Teams : team[t].status = "deleted" => Rows(member[t], Current) = {}
=============================================================================
