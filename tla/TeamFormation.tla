--------------------------- MODULE TeamFormation ---------------------------
(***************************************************************************)
(* Team formation.  runTeamFormation proposes additions to teams that are  *)
(* not full, briefs for teams that have none, and new teams, for briefs in *)
(* turn by vertical or, when no brief needs a team, by country; the        *)
(* proposal is kept as a preview.  finalizeTeamFormation carries it out up *)
(* to 30 minutes later in one transaction.                                 *)
(*                                                                         *)
(* Who is picked depends on scores of skills, preferences and engagement;  *)
(* here any choice of the same number of people is possible.               *)
(***************************************************************************)
EXTENDS BriefPlaces, SequencesExt

CONSTANTS
  Verticals,      \* the active verticals in their display order
  BriefsOf,       \* approved briefs of each vertical by priority
  Idle,           \* approved briefs of verticals that are not active
  Suits,          \* bound: which teams may score well for which briefs
  Excluded,       \* bound: sets of people that staff may leave out
  Manual          \* bound: teams that staff may put in, {} for none

VARIABLES
  forming,        \* a call of runTeamFormation
  preview,        \* the cached preview, or Null
  founding        \* a call of finalizeTeamFormation

ASSUME VerticalsAssumption ==
  /\ Verticals \in Seq(DOMAIN BriefsOf)
  /\ \A v \in DOMAIN BriefsOf : BriefsOf[v] \in Seq(Briefs)
  /\ Idle \subseteq Briefs
  /\ Suits \subseteq SUBSET (Teams \X Briefs)
  /\ Excluded \cup Manual \subseteq SUBSET Participants

\* A brief is of one vertical, and its row is read once.
ASSUME ListsAssumption ==
  \A i \in DOMAIN Verticals : \A m \in DOMAIN BriefsOf[Verticals[i]] :
    /\ BriefsOf[Verticals[i]][m] \notin Idle
    /\ \A j \in DOMAIN Verticals : \A n \in DOMAIN BriefsOf[Verticals[j]] :
         BriefsOf[Verticals[i]][m] = BriefsOf[Verticals[j]][n] => i = j /\ m = n

\* What may be proposed: people for a team, a brief for a team, a new team.
Kinds == {"backfill", "brief", "team", "manual"}
Proposal == [kind : Kinds, team : Teams \cup {Null},
             members : SUBSET Participants, brief : Briefs \cup {Null}]
Backfill(t, S) == [kind |-> "backfill", team |-> t, members |-> S, brief |-> Null]
BriefFor(t, b) == [kind |-> "brief", team |-> t, members |-> {}, brief |-> b]
NewTeam(kind, S, b) == [kind |-> kind, team |-> Null, members |-> S, brief |-> b]
\* unassignedParticipantIds and unassignedBriefIds tell who and what is left over.
Preview == [proposed : SUBSET Proposal, byBrief : BOOLEAN,
            people : SUBSET Participants, briefs : SUBSET Briefs]

Phases == {"same", "cross", "mixed"}
Forming == [step : {"idle", "teams", "backfill", "briefs", "spare", "round"} \cup Phases,
            byBrief : BOOLEAN, force : BOOLEAN,
            all : SUBSET Participants, left : SUBSET Participants,
            size : [Teams -> 0 .. SizeMax \cup {Null}],
            waiting : SUBSET Briefs, open : SUBSET Briefs,
            spare : SUBSET (Teams \X Briefs), vertical : Nat, progress : BOOLEAN,
            proposed : SUBSET Proposal]
NoForming == [step |-> "idle", byBrief |-> FALSE, force |-> FALSE, all |-> {}, left |-> {},
              size |-> [t \in Teams |-> Null], waiting |-> {}, open |-> {}, spare |-> {},
              vertical |-> 1, progress |-> FALSE, proposed |-> {}]
Founding == [on : BOOLEAN, aborted : BOOLEAN, todo : SUBSET Proposal]
NoFounding == [on |-> FALSE, aborted |-> FALSE, todo |-> {}]

formVars == <<forming, preview, founding>>

-----------------------------------------------------------------------------
(* runTeamFormation: what it reads.                                         *)

In(step) == forming.step = step
Go(new) == forming' = new /\ UNCHANGED <<places, preview, founding>>
Show == /\ preview' = [proposed |-> forming.proposed, byBrief |-> forming.byBrief,
                       people |-> forming.left, briefs |-> forming.open]
        /\ forming' = NoForming
        /\ UNCHANGED <<places, founding>>

\* config: useBriefCentricAssignment and forceCrossCountry.
ReadParticipants(byBrief, force) ==
  LET all == {p \in Participants : /\ ~ Attached(p) /\ person[p].active
                               /\ person[p].group \in Pooled}
  IN /\ In("idle") /\ Calling("runTeamFormation")
     /\ forming' = [NoForming EXCEPT !.step = "teams", !.byBrief = byBrief, !.force = force,
                                     !.all = all, !.left = all]
     /\ UNCHANGED <<preview, founding>>
ReadUndersized ==
  /\ In("teams")
  /\ Go([forming EXCEPT !.step = "backfill",
           !.size = [t \in Teams |->
             LET n == Cardinality({p \in team[t].members : person[p].active})
             IN IF Open(t) /\ n < SizeMax THEN n ELSE Null]])

\* The team with the fewest members comes first; it gets people of its group.
Smallest == {t \in Teams : /\ forming.size[t] # Null
                           /\ \A u \in Teams : forming.size[u] # Null =>
                                forming.size[t] <= forming.size[u]}
AnyoneLeft(t) == forming.left   \* mutant: backfill does not look at groups
Compatible(t) == {p \in forming.left : person[p].group = team[t].group}
ProposeBackfillAgain(t, S) ==   \* mutant: who is proposed stays in the pool
  /\ In("backfill") /\ t \in Smallest
  /\ S \subseteq Compatible(t) /\ Cardinality(S) <= SizeMax - forming.size[t]
  /\ Go([forming EXCEPT !.size[t] = Null,
           !.proposed = IF S = {} THEN @ ELSE @ \cup {Backfill(t, S)}])
ProposeBackfill(t, S) ==
  /\ In("backfill") /\ t \in Smallest
  /\ S \subseteq Compatible(t) /\ Cardinality(S) <= SizeMax - forming.size[t]
  /\ Go([forming EXCEPT !.size[t] = Null, !.left = @ \ S,
           !.proposed = IF S = {} THEN @ ELSE @ \cup {Backfill(t, S)}])
EndBackfill ==
  /\ In("backfill") /\ \A t \in Teams : forming.size[t] = Null
  /\ Go([forming EXCEPT !.step = IF forming.byBrief THEN "briefs" ELSE "same"])

-----------------------------------------------------------------------------
(* Briefs in turn by vertical.                                              *)

Needs(b) == count[b] < MaxTeams
OfVertical(i) == ToSet(BriefsOf[Verticals[i]])
\* waiting: briefs of active verticals that have not had their turn.
ReadBriefLists ==
  LET waiting == {b \in Briefs : Needs(b) /\ \E i \in DOMAIN Verticals : b \in OfVertical(i)}
  IN /\ In("briefs")
     /\ Go([forming EXCEPT !.step = "spare", !.waiting = waiting,
              !.open = {b \in Idle : Needs(b)} \cup waiting])
\* suits: the teams that score at least 20, for which brief.  When no brief needs
\* a team and there are people, the old algorithm starts from the beginning.
ReadSpareTeams(suits) ==
  /\ In("spare")
  /\ IF forming.open = {} /\ forming.left # {}
     THEN Go([NoForming EXCEPT !.step = "teams", !.force = forming.force,
                               !.all = forming.all, !.left = forming.all])
     ELSE Go([forming EXCEPT !.step = "round",
                !.spare = {x \in suits : Open(x[1]) /\ team[x[1]].brief = Null}])

\* The teams that may be formed from a pool of people.
InGroup(g) == {p \in forming.left : person[p].group = g}
Formable(pool) ==
  LET size == IF Cardinality(pool) < SizeMax THEN Cardinality(pool) ELSE SizeMax
  IN IF size < SizeMin THEN {} ELSE kSubset(size, pool)
\* It is the turn of brief b, the next of its vertical, and it is passed over.
Turn(b) == LET list == BriefsOf[Verticals[forming.vertical]]
           IN /\ In("round") /\ forming.vertical <= Len(Verticals) /\ b \in forming.waiting
              /\ \E n \in DOMAIN list : /\ b = list[n]
                                        /\ \A m \in 1 .. n - 1 : list[m] \notin forming.waiting
Passed(b) == [forming EXCEPT !.vertical = @ + 1, !.waiting = @ \ {b}]
Suitable(b) == {x \in forming.spare : x[2] = b}

GiveToTeam(t, b) ==
  /\ Turn(b) /\ <<t, b>> \in Suitable(b)
  /\ Go([Passed(b) EXCEPT !.progress = TRUE, !.open = @ \ {b},
           !.spare = {x \in @ : x[1] # t}, !.proposed = @ \cup {BriefFor(t, b)}])
GiveToNewTeam(S, b) ==
  /\ Turn(b) /\ Suitable(b) = {}
  /\ \E g \in Pooled : S \in Formable(InGroup(g))
  /\ Go([Passed(b) EXCEPT !.progress = TRUE, !.open = @ \ {b},
           !.left = @ \ S, !.proposed = @ \cup {NewTeam("team", S, b)}])
PassOver(b) ==
  /\ Turn(b) /\ Suitable(b) = {} /\ \A g \in Pooled : Formable(InGroup(g)) = {}
  /\ Go(Passed(b))
SkipVertical ==
  /\ In("round") /\ forming.vertical <= Len(Verticals)
  /\ OfVertical(forming.vertical) \cap forming.waiting = {}
  /\ Go([forming EXCEPT !.vertical = @ + 1])
EndRound ==
  /\ In("round") /\ forming.vertical > Len(Verticals)
  /\ IF forming.progress THEN Go([forming EXCEPT !.vertical = 1, !.progress = FALSE]) ELSE Show

-----------------------------------------------------------------------------
(* Without briefs: by country, across countries, and of who is left.        *)

Pools ==
  UNION {LET home(c) == {p \in InGroup(g) : ~ person[p].willing /\ person[p].country = c}
         IN CASE In("same") -> {home(c) : c \in Countries}
              [] In("cross") -> {{p \in InGroup(g) : person[p].willing \/ forming.force}}
              [] In("mixed") -> {InGroup(g)} : g \in Pooled}
FormTeam(S) ==
  /\ forming.step \in Phases /\ \E pool \in Pools : S \in Formable(pool)
  /\ Go([forming EXCEPT !.left = @ \ S, !.proposed = @ \cup {NewTeam("team", S, Null)}])
NothingToForm == forming.step \in Phases /\ \A pool \in Pools : Formable(pool) = {}
EndWithoutMixed ==   \* mutant: who is left after the second phase stays alone
  /\ NothingToForm
  /\ IF In("same") THEN Go([forming EXCEPT !.step = "cross"]) ELSE Show
EndPhase ==
  /\ NothingToForm
  /\ CASE In("same") -> Go([forming EXCEPT !.step = "cross"])
       [] In("cross") -> Go([forming EXCEPT !.step = "mixed"])
       [] In("mixed") -> Show

-----------------------------------------------------------------------------
(* finalizeTeamFormation, under the advisory lock of the cohort.            *)

\* Staff may leave people out and add a team.
BeginFounding(excluded, manual) ==
  LET without(x) == [x EXCEPT !.members = @ \ excluded]
      stays(x) == CASE x.kind = "backfill" -> x.members # {}
                    [] x.kind = "brief" -> TRUE
                    [] x.kind = "team" -> Cardinality(x.members) >= SizeMin
      added == IF manual = {} THEN {} ELSE {NewTeam("manual", manual, Null)}
  IN /\ preview # Null /\ ~ founding.on /\ Calling("finalizeTeamFormation")
     /\ founding' = [NoFounding EXCEPT !.on = TRUE,
          !.todo = {x \in {without(y) : y \in preview.proposed} : stays(x)} \cup added]
     /\ UNCHANGED <<forming, preview>>

Order == [backfill |-> 1, brief |-> 2, team |-> 3, manual |-> 4]
Next1(x) == /\ x \in founding.todo /\ ~ founding.aborted
            /\ \A y \in founding.todo : Order[x.kind] <= Order[y.kind]
Write(t, row) == own' = [own EXCEPT !["formation"][t] = row]
Done(x, failed) ==
  /\ founding' = [founding EXCEPT !.todo = @ \ {x}, !.aborted = failed]
  /\ UNCHANGED <<person, team, count, changes, calls, forming, preview>>

\* One INSERT: a pair of team and participant that exists already fails, and with
\* it the transaction, for there is no savepoint.
ApplyBackfill(x) ==
  LET row == View("formation")[x.team]
      clash == x.members \cap (row.members \cup row.pending) # {}
  IN /\ Next1(x) /\ x.kind = "backfill" /\ TeamFree("formation", x.team)
     /\ Done(x, clash)
     /\ IF clash THEN UNCHANGED own
        ELSE Write(x.team, [row EXCEPT !.pending = @ \cup x.members])
\* A plain UPDATE by id, whatever has become of the team; no savepoint either.
ApplyBrief(x) ==
  LET teams == [View("formation") EXCEPT ![x.team].brief = x.brief]
      accepted == BriefAccepted(teams, x.team)
  IN /\ Next1(x) /\ x.kind = "brief"
     /\ TeamFree("formation", x.team) /\ BriefFree("formation", x.brief)
     /\ Done(x, ~ accepted)
     /\ IF accepted THEN Write(x.team, teams[x.team]) ELSE UNCHANGED own
\* createTeamWithMembers, in a savepoint: it is refused as a whole.
CreatePartly(x, t, row) ==   \* mutant: who is in a team already is left out
  LET rest == {p \in row.members : Unplaced(View("formation"), {p})}
  IN IF rest = {} THEN UNCHANGED own ELSE Write(t, [row EXCEPT !.members = rest])
Create(x, t, row) ==
  LET teams == [View("formation") EXCEPT ![t] = row]
      refused == \/ \E p \in row.members : person[p].group # row.group
                 \/ row.group \notin Pooled
                 \/ Cardinality(row.members) > SizeMax
                 \/ ~ Unplaced(View("formation"), row.members)
                 \/ ~ BriefAccepted(teams, t)
  IN IF refused THEN UNCHANGED own ELSE Write(t, row)
ApplyTeam(x, t, lead) ==
  /\ Next1(x) /\ x.kind \in {"team", "manual"} /\ lead \in x.members
  /\ View("formation")[t].status = "absent" /\ team[t].status = "absent"
  /\ x.brief # Null => BriefFree("formation", x.brief)
  /\ Done(x, FALSE)
  /\ Create(x, t, [status |-> "active", group |-> person[lead].group, brief |-> x.brief,
                   members |-> x.members, pending |-> {}])

\* An aborted transaction is rolled back; the preview is dropped all the same, and
\* the counts of the briefs are left as they are.
CommitFounding ==
  /\ founding.on /\ (founding.todo = {} \/ founding.aborted)
  /\ team' = IF founding.aborted THEN team ELSE View("formation")
  /\ own' = [own EXCEPT !["formation"] = NoWrites]
  /\ preview' = Null
  /\ founding' = NoFounding
  /\ UNCHANGED <<person, count, changes, calls, forming>>
\* The process dies or a deadlock is broken; the cache may be cleared already.
AbortFounding ==
  /\ founding.on
  /\ own' = [own EXCEPT !["formation"] = NoWrites]
  /\ preview' \in {preview, Null}
  /\ founding' = NoFounding
  /\ UNCHANGED <<person, team, count, changes, calls, forming>>

InitFormation == forming = NoForming /\ preview = Null /\ founding = NoFounding
RunFormation ==
  \/ \E byBrief, force \in BOOLEAN : ReadParticipants(byBrief, force)
  \/ ReadUndersized
  \/ \E t \in Teams : \E S \in SUBSET Compatible(t) : ProposeBackfill(t, S)
  \/ EndBackfill
  \/ ReadBriefLists
  \/ \E suits \in Suits : ReadSpareTeams(suits)
  \/ \E b \in Briefs : \/ \E t \in Teams : GiveToTeam(t, b)
                       \/ \E S \in SUBSET forming.left : GiveToNewTeam(S, b)
                       \/ PassOver(b)
  \/ SkipVertical \/ EndRound
  \/ \E S \in SUBSET forming.left : FormTeam(S)
  \/ EndPhase
FinalizeFormation ==
  \/ \E excluded \in Excluded, manual \in Manual : BeginFounding(excluded, manual)
  \/ \E x \in founding.todo : ApplyBackfill(x) \/ ApplyBrief(x)
  \/ \E x \in founding.todo : \E t \in Teams, lead \in x.members : ApplyTeam(x, t, lead)
  \/ CommitFounding \/ AbortFounding
PickingPeople == forming.step \in {"backfill", "round"} \cup Phases

-----------------------------------------------------------------------------
TypeOfFormation == /\ forming \in Forming
                   /\ preview \in Preview \cup {Null}
                   /\ founding \in Founding

\* Nobody is proposed twice, no team and no brief is; a new team is of one group
\* and of a legal size.
SoundProposals(P) ==
  /\ \A x, y \in P : x # y =>
       /\ x.members \cap y.members = {}
       /\ x.kind = y.kind => x.team = Null \/ x.team # y.team
       /\ x.brief = Null \/ x.brief # y.brief
  /\ \A x \in P : x.kind = "team" =>
       /\ SizeMin <= Cardinality(x.members) /\ Cardinality(x.members) <= SizeMax
       /\ \A p, q \in x.members : person[p].group = person[q].group
SoundPreview == SoundProposals(forming.proposed)
                /\ (preview # Null => SoundProposals(preview.proposed))

\* Who is left over could not have been a team: too few of a group, or no brief of
\* an active vertical for them.
NobodyLeftBehind ==
  preview # Null =>
    \/ \A g \in Pooled : Cardinality({p \in preview.people : person[p].group = g}) < SizeMin
    \/ preview.byBrief /\ preview.briefs \subseteq Idle
=============================================================================
