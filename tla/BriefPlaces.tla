---------------------------- MODULE BriefPlaces ----------------------------
(***************************************************************************)
(* The teams of a cohort and the places on its briefs, as brief matching   *)
(* and team formation find and leave them.  Both finalize a preview in a   *)
(* transaction of many statements, whose writes others see at its end,     *)
(* while leaders and staff go on changing teams; what they do is one step  *)
(* here, and is taken apart in TeamMembership.                             *)
(***************************************************************************)
EXTENDS Naturals, FiniteSets

CONSTANTS
  Teams,          \* bound: ids available for rows of teams
  Participants,   \* participants of the cohort who may be placed
  Briefs,         \* approved briefs of the cohort
  Groups,         \* the groups of the cohort
  Countries,
  People,         \* bound: what the participants may be like
  Start,          \* bound: the teams there may be at first
  SizeMin,        \* cohorts.team_size_min
  SizeMax,        \* cohorts.team_size_max
  MaxTeams,       \* briefs.max_teams
  MaxChanges,     \* bound: changes made by leaders, members and staff
  MaxCalls,       \* bound: calls of each operation of the two services
  Null            \* SQL NULL

VARIABLES
  person,         \* participants: group, country, preference, and activity
  team,           \* teams and team_members
  count,          \* briefs.teams_count
  own,            \* rows of teams written by a transaction that is still open
  changes,        \* changes by leaders, members and staff so far
  calls           \* calls of each operation of the two services so far

tables == <<person, team, count, own>>
places == <<tables, changes, calls>>

Operations == {"runMatching", "finalizeMatching",
               "runTeamFormation", "finalizeTeamFormation"}

\* Without groups in the cohort everybody is in the same pool.
Pooled == IF Groups = {} THEN {Null} ELSE Groups

\* active: participants.status is not "inactive".
Person == [group : Groups \cup {Null}, country : Countries, willing : BOOLEAN,
           active : BOOLEAN]
Team == [status : {"absent", "forming", "active", "disqualified", "deleted"},
         group : Groups \cup {Null}, brief : Briefs \cup {Null},
         members : SUBSET Participants, pending : SUBSET Participants]
NoTeam == [status |-> "absent", group |-> Null, brief |-> Null, members |-> {}, pending |-> {}]

ASSUME SizeAssumption == SizeMin \in Nat \ {0} /\ SizeMax \in Nat /\ SizeMin <= SizeMax
ASSUME PlaceAssumption == MaxTeams \in Nat /\ MaxChanges \in Nat /\ MaxCalls \in Nat
                          /\ IsFiniteSet(Teams) /\ IsFiniteSet(Participants)
                          /\ Null \notin Briefs \cup Groups \cup Team
ASSUME StartAssumption == People \subseteq [Participants -> Person]
                          /\ Start \subseteq [Teams -> Team]

Exists(t) == team[t].status \notin {"absent", "deleted"}
Open(t) == team[t].status \in {"forming", "active"}
Attached(p) == \E t \in Teams : Exists(t) /\ p \in team[t].members \cup team[t].pending
\* teams.service looks for rows of team_members, whatever became of the team.
HasRow(p) == \E t \in Teams : p \in team[t].members \cup team[t].pending

\* The finalizations: each sees the tables with its own writes.
Finalizers == {"matching", "formation"}
NoWrites == [t \in Teams |-> Null]
View(f) == [t \in Teams |-> IF own[f][t] = Null THEN team[t] ELSE own[f][t]]

\* Row locks.  The trigger of team_members locks the team and the participant,
\* acmp_brief_capacity the row of the brief.
PersonFree(p) == \A f \in Finalizers, t \in Teams : own[f][t] # Null =>
  (p \in own[f][t].members \cup own[f][t].pending <=> p \in team[t].members \cup team[t].pending)
TeamFree(f, t) == \A g \in Finalizers \ {f} : own[g][t] = Null
NoRowLock(f, b) == TRUE   \* mutant: the trigger reads the brief without FOR UPDATE
BriefFree(f, b) == \A g \in Finalizers \ {f}, t \in Teams :
  own[g][t] # Null /\ own[g][t].brief = b =>
    team[t].brief = b /\ own[g][t].status = team[t].status

Working(teams, b) == {t \in Teams : /\ teams[t].status \in {"forming", "active"}
                                    /\ teams[t].brief = b}
\* The teams there are at first have passed the trigger too.
ASSUME CapacityAssumption ==
  \A teams \in Start, b \in Briefs : Cardinality(Working(teams, b)) <= MaxTeams

\* ... and so have their members: teams do not share any, and are of one group.
ASSUME MembersAssumption ==
  \A teams \in Start, people \in People, t \in Teams :
    /\ teams[t].status = "absent" => teams[t].members = {} /\ teams[t].pending = {}
    /\ teams[t].status \notin {"absent", "deleted"} =>
         /\ \A p \in teams[t].members \cup teams[t].pending : people[p].group = teams[t].group
         /\ \A u \in Teams \ {t} : teams[u].status \notin {"absent", "deleted"} =>
              teams[t].members \cap teams[u].members = {}

\* Trigger acmp_brief_capacity.
BriefAccepted(teams, t) ==
  teams[t].status \in {"forming", "active"} /\ teams[t].brief # Null =>
    Cardinality(Working(teams, teams[t].brief) \ {t}) < MaxTeams
\* Unique index team_member_one_confirmed_team.
Unplaced(teams, S) == \A t \in Teams : teams[t].status # "deleted" => teams[t].members \cap S = {}

\* updateBriefTeamsCount of some briefs.
Recount(teams, B) ==
  [b \in Briefs |-> IF b \in B THEN Cardinality(Working(teams, b)) ELSE count[b]]

-----------------------------------------------------------------------------
(* What members, leaders and staff do meanwhile (teams.service.ts).         *)

Changing(t) == /\ changes < MaxChanges /\ changes' = changes + 1
               /\ TeamFree("staff", t)
               /\ UNCHANGED <<person, calls>>

\* assignBrief, or unassignBrief with Null.
Assign(t, b) ==
  LET brief == {team[t].brief, b} \ {Null}
  IN /\ Changing(t) /\ Exists(t) /\ team[t].brief # b
     /\ b # Null => Cardinality(Working(team, b)) < MaxTeams
     /\ \A c \in brief : BriefFree("staff", c)
     /\ team' = [team EXCEPT ![t].brief = b,
                   ![t].status = IF @ = "forming" /\ b # Null THEN "active" ELSE @]
     /\ BriefAccepted(team', t)
     /\ count' = Recount(team', brief)
     /\ UNCHANGED own
Disqualify(t) ==
  /\ Changing(t) /\ Open(t)
  /\ team[t].brief # Null => BriefFree("staff", team[t].brief)
  /\ team' = [team EXCEPT ![t].status = "disqualified"]
  /\ count' = Recount(team', {team[t].brief} \ {Null})
  /\ UNCHANGED own

Found(t, p) ==
  /\ Changing(t) /\ team[t].status = "absent" /\ ~ HasRow(p) /\ PersonFree(p)
  /\ person[p].group \in Pooled
  /\ team' = [team EXCEPT ![t] = [NoTeam EXCEPT !.status = "forming", !.members = {p},
                                                !.group = person[p].group]]
  /\ UNCHANGED <<count, own>>
Join(t, p) ==
  /\ Changing(t) /\ team[t].status = "forming" /\ ~ HasRow(p) /\ PersonFree(p)
  /\ team[t].group = person[p].group
  /\ Cardinality(team[t].members) < SizeMax
  /\ team' = [team EXCEPT ![t].pending = @ \cup {p}]
  /\ UNCHANGED <<count, own>>
\* addMember, by staff.
Add(t, p) ==
  /\ Changing(t) /\ Exists(t) /\ ~ HasRow(p) /\ PersonFree(p)
  /\ team[t].group = person[p].group
  /\ Cardinality(team[t].members \cup team[t].pending) < SizeMax
  /\ team' = [team EXCEPT ![t].members = @ \cup {p}]
  /\ UNCHANGED <<count, own>>
\* Rows removed from team_members are gone for the finalizations too.
Confirm(t, p) ==
  /\ Changing(t) /\ Exists(t) /\ p \in team[t].pending /\ PersonFree(p)
  /\ Cardinality(team[t].members) < SizeMax /\ Unplaced(team, {p})
  /\ team' = [u \in Teams |-> IF u = t
                THEN [team[u] EXCEPT !.members = @ \cup {p}, !.pending = @ \ {p}]
                ELSE [team[u] EXCEPT !.pending = @ \ {p}]]
  /\ own' = [f \in Finalizers |-> [u \in Teams |->
               IF own[f][u] = Null THEN Null ELSE [own[f][u] EXCEPT !.pending = @ \ {p}]]]
  /\ UNCHANGED count
\* removeMember: the last confirmed member takes the team with him, and the count
\* of its brief is left as it is.
Leave(t, p) ==
  LET last == team[t].members = {p}
  IN /\ changes < MaxChanges /\ changes' = changes + 1
     /\ last => TeamFree("staff", t)
     /\ Exists(t) /\ p \in team[t].members \cup team[t].pending
     /\ team' = [team EXCEPT
          ![t].members = @ \ {p},
          ![t].pending = IF last THEN {} ELSE @ \ {p},
          ![t].status = IF last THEN "deleted" ELSE @]
     /\ own' = [f \in Finalizers |-> IF own[f][t] = Null THEN own[f]
                  ELSE [own[f] EXCEPT ![t].members = @ \ {p}, ![t].pending = @ \ {p}]]
     /\ UNCHANGED <<person, count, calls>>

InitPlaces == /\ person \in People /\ team \in Start
              /\ count = [b \in Briefs |-> Cardinality(Working(team, b))]
              /\ own = [f \in Finalizers |-> NoWrites]
              /\ changes = 0 
              /\ calls = [o \in Operations |-> 0]
\* A call of an operation of the two services begins.
Calling(o) == /\ calls[o] < MaxCalls /\ calls' = [calls EXCEPT ![o] = @ + 1]
              /\ UNCHANGED <<tables, changes>>
Others == \E t \in Teams :
            \/ \E b \in Briefs \cup {Null} : Assign(t, b)
            \/ Disqualify(t)
            \/ \E p \in Participants : 
                 Found(t, p) \/ Join(t, p) \/ Add(t, p) \/ Confirm(t, p) \/ Leave(t, p)
=============================================================================
