----------------------------- MODULE Placement -----------------------------
(***************************************************************************)
(* Brief matching and team formation of one cohort, next to what members,  *)
(* leaders and staff do to its teams.  The two services hold different     *)
(* advisory locks and keep different previews, so that their finalizations *)
(* meet only at the rows of teams and briefs.                              *)
(***************************************************************************)
EXTENDS BriefMatching, TeamFormation

vars == <<places, matchVars, formVars>>

Init == InitPlaces /\ InitMatching /\ InitFormation
\* What a run does between its reads and its preview is done in memory: it commutes
\* with every other step, and is taken here without interruption.
Next == \/ RunMatching /\ ~ PickingPeople /\ UNCHANGED formVars
        \/ RunFormation /\ ~ PickingPairs /\ UNCHANGED matchVars
        \/ /\ ~ PickingPairs /\ ~ PickingPeople
           /\ \/ Others /\ UNCHANGED <<matchVars, formVars>>
              \/ FinalizeMatching /\ UNCHANGED formVars
              \/ FinalizeFormation /\ UNCHANGED matchVars
Spec == Init /\ [][Next]_vars

-----------------------------------------------------------------------------
TypeOK ==
  /\ person \in [Participants -> Person]
  /\ team \in [Teams -> Team]
  /\ count \in [Briefs -> Nat]
  /\ own \in [Finalizers -> [Teams -> Team \cup {Null}]]
  /\ changes \in 0 .. MaxChanges /\ calls \in [Operations -> 0 .. MaxCalls]
  /\ TypeOfMatching /\ TypeOfFormation

\* No brief has more working teams than places, whichever finalizations and
\* changes by staff overlap, and whatever became stale since a preview.
NoBriefOverbooked == \A b \in Briefs : Cardinality(Working(team, b)) <= MaxTeams

\* Nobody is a confirmed member of two teams, and everybody in a team is of its
\* group, also when a preview is carried out after people have moved.
OneTeamOfOneGroup ==
  \A t \in Teams : Exists(t) =>
    /\ \A u \in Teams \ {t} : Exists(u) => team[t].members \cap team[u].members = {}
    /\ \A p \in team[t].members \cup team[t].pending : person[p].group = team[t].group

\* Formation creates a proposed team whole or not at all: when one of its people has
\* gone to another team meanwhile, the rest do not become a team of fewer than the
\* cohort asks for.  What staff put in by hand may be as small as they like.
NewTeamsAreWhole ==
  [][\A t \in Teams : team[t].status = "absent" /\ team'[t].status = "active" =>
       SizeMin <= Cardinality(team'[t].members) \/ team'[t].members \in Manual]_vars
=============================================================================
