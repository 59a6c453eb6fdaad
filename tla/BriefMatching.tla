--------------------------- MODULE BriefMatching ---------------------------
(***************************************************************************)
(* Brief matching: runMatching scores every team without a brief for every *)
(* brief with room, takes the pairs greedily by score and keeps them as a  *)
(* preview; finalizeMatching assigns them up to 30 minutes later, one      *)
(* savepoint for each team.  What a score is made of is left open.         *)
(***************************************************************************)
EXTENDS BriefPlaces, Integers

CONSTANTS
  Scores,         \* bound: values of a score
  Limits,         \* bound: maxTeamsPerBrief of a run that overrides max_teams
  Withheld,       \* bound: sets of teams that staff may leave out
  Overrides       \* bound: sets of pairs that staff may put in

ASSUME ScoresAssumption == Scores \cup Limits \subseteq Nat
                           /\ Withheld \subseteq SUBSET Teams
                           /\ Overrides \subseteq SUBSET (Teams \X Briefs)

VARIABLES
  matching,       \* a call of runMatching
  matched,        \* the cached preview: pairs of a team and a brief, or Null
  assigning       \* a call of finalizeMatching

Pairs == Teams \X Briefs
Candidate == [team : Teams, brief : Briefs, score : Scores]
Matching == [step : {"idle", "briefs", "pick"}, teams : SUBSET Teams,
             room : [Briefs -> Nat], all : SUBSET Candidate,
             left : SUBSET Candidate, pairs : SUBSET Candidate]
NoMatching == [step |-> "idle", teams |-> {}, room |-> [b \in Briefs |-> 0],
               all |-> {}, left |-> {}, pairs |-> {}]
\* reading: the team that assignBriefToTeam has read, and the status it had.
Assigning == [on : BOOLEAN, todo : SUBSET Pairs, reading : Pairs \cup {<<>>},
              status : {"", "forming", "active", "disqualified"}]
NoAssigning == [on |-> FALSE, todo |-> {}, reading |-> <<>>, status |-> ""]

matchVars == <<matching, matched, assigning>>

-----------------------------------------------------------------------------
(* runMatching.                                                             *)

\* Every loaded member counts, the pending ones too.
Eligible(t) == /\ Open(t) /\ team[t].brief = Null
               /\ Cardinality(team[t].members \cup team[t].pending) >= SizeMin
RoomUnclipped(b, most) ==   \* mutant: a brief with too many rows has room below zero
  most - Cardinality({t \in Teams : Exists(t) /\ team[t].brief = b})
\* prepareBriefsWithCapacity counts teams of any status.
Room(b, most) == LET taken == Cardinality({t \in Teams : Exists(t) /\ team[t].brief = b})
                 IN IF taken < most THEN most - taken ELSE 0

ReadTeams ==
  /\ matching.step = "idle" /\ Calling("runMatching")
  /\ matching' = [NoMatching EXCEPT !.step = "briefs",
                                    !.teams = {t \in Teams : Eligible(t)}]
  /\ UNCHANGED <<matched, assigning>>
\* most: maxTeamsOverride, or the max_teams of the briefs.
ReadBriefs(score, most) ==
  LET room == [b \in Briefs |-> Room(b, most)]
      all == {[team |-> x[1], brief |-> x[2], score |-> score[x]] :
                x \in {y \in matching.teams \X Briefs : room[y[2]] > 0}}
  IN /\ matching.step = "briefs"
     /\ matching' = [matching EXCEPT !.step = "pick", !.room = room,
                                     !.all = all, !.left = all]
     /\ UNCHANGED <<places, matched, assigning>>

AnyOf(left) == left   \* mutant: the candidates are not sorted
Best(left) == {c \in left : \A d \in left : d.score <= c.score}
HasRoom(c) == /\ \A d \in matching.pairs : d.team # c.team
              /\ Cardinality({d \in matching.pairs : d.brief = c.brief})
                   < matching.room[c.brief]
Pick(c) ==
  /\ matching.step = "pick" /\ c \in Best(matching.left)
  /\ matching' = [matching EXCEPT !.left = @ \ {c},
                    !.pairs = IF HasRoom(c) THEN @ \cup {c} ELSE @]
  /\ UNCHANGED <<places, matched, assigning>>
EndMatching ==
  /\ matching.step = "pick" /\ matching.left = {}
  /\ matched' = {<<c.team, c.brief>> : c \in matching.pairs}
  /\ matching' = NoMatching
  /\ UNCHANGED <<places, assigning>>

-----------------------------------------------------------------------------
(* finalizeMatching, under the advisory lock of the cohort.                 *)

\* Staff may leave teams out and put pairs of their own in.
BeginAssigning(excluded, override) ==
  /\ matched # Null /\ ~ assigning.on /\ Calling("finalizeMatching")
  /\ assigning' = [NoAssigning EXCEPT !.on = TRUE, !.todo = override \cup
       {x \in matched : x[1] \notin excluded /\ \A y \in override : y[1] # x[1]}]
  /\ UNCHANGED <<matching, matched>>

ReadTeam(t, b) ==
  LET teams == View("matching")
      taken == {u \in Teams : /\ teams[u].brief = b
                              /\ teams[u].status \notin {"absent", "deleted"}}
      found == /\ teams[t].status \notin {"absent", "deleted"}
               /\ teams[t].brief = Null /\ Cardinality(taken) < MaxTeams
  IN /\ <<t, b>> \in assigning.todo /\ assigning.reading = <<>>
     /\ assigning' = IF found THEN [assigning EXCEPT !.reading = <<t, b>>,
                                                     !.status = teams[t].status]
                     ELSE [assigning EXCEPT !.todo = @ \ {<<t, b>>}]
     /\ UNCHANGED <<places, matching, matched>>
\* save() writes the brief and the status read before; a refusal of the trigger
\* rolls back to the savepoint.
WriteTeam(t, b) ==
  LET status == IF assigning.status = "forming" THEN "active" ELSE assigning.status
      teams == [View("matching") EXCEPT ![t].brief = b,
                  ![t].status = IF @ = "deleted" THEN @ ELSE status]
  IN /\ assigning.reading = <<t, b>>
     /\ TeamFree("matching", t) /\ BriefFree("matching", b)
     /\ own' = IF BriefAccepted(teams, t) THEN [own EXCEPT !["matching"][t] = teams[t]] ELSE own
     /\ assigning' = [assigning EXCEPT !.reading = <<>>, !.status = "",
                                       !.todo = @ \ {<<t, b>>}]
     /\ UNCHANGED <<person, team, count, changes, calls, matching, matched>>
CommitAssigning ==
  /\ assigning.on /\ assigning.todo = {}
  /\ team' = View("matching")
  /\ count' = [b \in Briefs |-> count[b] + Cardinality(
                 {t \in Teams : own["matching"][t] # Null /\ own["matching"][t].brief = b})]
  /\ own' = [own EXCEPT !["matching"] = NoWrites]
  /\ matched' = Null
  /\ assigning' = NoAssigning
  /\ UNCHANGED <<person, changes, calls, matching>>
\* The process dies or a deadlock is broken; the cache may be cleared already.
AbortAssigning ==
  /\ assigning.on
  /\ own' = [own EXCEPT !["matching"] = NoWrites]
  /\ assigning' = NoAssigning
  /\ matched' \in {matched, Null}
  /\ UNCHANGED <<person, team, count, changes, calls, matching>>

InitMatching == matching = NoMatching /\ matched = Null /\ assigning = NoAssigning
RunMatching ==
  \/ ReadTeams
  \/ \E score \in [matching.teams \X Briefs -> Scores], most \in {MaxTeams} \cup Limits :
       ReadBriefs(score, most)
  \/ \E c \in matching.left : Pick(c)
  \/ EndMatching
FinalizeMatching ==
  \/ \E excluded \in Withheld, override \in Overrides : BeginAssigning(excluded, override)
  \/ \E t \in Teams, b \in Briefs : ReadTeam(t, b) \/ WriteTeam(t, b)
  \/ CommitAssigning \/ AbortAssigning
PickingPairs == matching.step = "pick"

-----------------------------------------------------------------------------
TypeOfMatching == /\ matching \in Matching
                  /\ matched \in (SUBSET Pairs) \cup {Null}
                  /\ assigning \in Assigning

\* The matching is stable: a team that did not get a brief with room has one that
\* scores at least as high, or the brief went to teams that score as high.
StableMatching ==
  \A c \in matching.all \ matching.left :
    \/ \E d \in matching.pairs : d.team = c.team /\ d.score >= c.score
    \/ Cardinality({d \in matching.pairs : d.brief = c.brief /\ d.score >= c.score})
         = matching.room[c.brief]
=============================================================================
