------------------------- MODULE PlacementProofs -------------------------
(***************************************************************************)
(* Theorems about Placement, for any number of teams, participants and     *)
(* briefs, and any number of changes and calls.                            *)
(***************************************************************************)
EXTENDS Placement, FiniteSetTheorems, TLAPS

-----------------------------------------------------------------------------
(* Places on briefs.                                                        *)

AtWork(row, b) == row.status \in {"forming", "active"} /\ row.brief = b
Fits(teams) == \A b \in Briefs : Cardinality(Working(teams, b)) <= MaxTeams

LEMMA WorkingFinite ==
  ASSUME NEW teams, NEW b
  PROVE  /\ IsFiniteSet(Working(teams, b)) /\ Cardinality(Working(teams, b)) \in Nat
         /\ \A t : t \in Working(teams, b) <=> t \in Teams /\ AtWork(teams[t], b)
<1>1. Working(teams, b) \in SUBSET Teams  BY DEF Working
<1>2. \A t : t \in Working(teams, b) <=> t \in Teams /\ AtWork(teams[t], b)
  BY DEF Working, AtWork
<1> QED  BY <1>1, <1>2, PlaceAssumption, FS_Subset, FS_CardinalityType

LEMMA FewerAtWork ==
  ASSUME NEW m, NEW n, NEW b, Cardinality(Working(m, b)) <= MaxTeams,
         \A t \in Teams : AtWork(n[t], b) => AtWork(m[t], b)
  PROVE  Cardinality(Working(n, b)) <= MaxTeams
<1>1. Working(n, b) \in SUBSET Working(m, b)  BY WorkingFinite
<1>2. Cardinality(Working(n, b)) <= Cardinality(Working(m, b))
  BY <1>1, WorkingFinite, FS_Subset
<1>3. Cardinality(Working(n, b)) \in Nat /\ Cardinality(Working(m, b)) \in Nat
  BY WorkingFinite
<1> QED  BY <1>2, <1>3, PlaceAssumption

\* The trigger accepted a team: its brief is not overbooked.
LEMMA Accepted ==
  ASSUME NEW teams, NEW t \in Teams, NEW b \in Briefs, AtWork(teams[t], b),
         BriefAccepted(teams, t)
  PROVE  Cardinality(Working(teams, b)) <= MaxTeams
<1> DEFINE W == Working(teams, b)
<1>1. b # Null  BY PlaceAssumption
<1>2. Cardinality(W \ {t}) < MaxTeams  BY <1>1 DEF BriefAccepted, AtWork
<1>3. IsFiniteSet(W) /\ Cardinality(W) \in Nat /\ t \in W  BY WorkingFinite
<1> HIDE DEF W
<1>4. Cardinality(W \ {t}) = Cardinality(W) - 1  BY <1>3, FS_RemoveElement
<1>5. Cardinality(W) <= MaxTeams  BY <1>2, <1>3, <1>4, PlaceAssumption
<1> QED  BY <1>5 DEF W

-----------------------------------------------------------------------------
(* What open finalizations have written.                                    *)

Owned == [Finalizers -> [Teams -> Team \cup {Null}]]
\* Finalization f sees table teams with its writes w.
Seen(teams, w, f) == [t \in Teams |-> IF w[f][t] = Null THEN teams[t] ELSE w[f][t]]
\* f has put a team to work on b that is not there for others yet.
Adds(teams, w, f, b) ==
  \E t \in Teams : w[f][t] # Null /\ AtWork(w[f][t], b) /\ ~ AtWork(teams[t], b)

Good(teams, w) ==
  /\ teams \in [Teams -> Team] /\ w \in Owned
  /\ \A t \in Teams : w["matching"][t] = Null \/ w["formation"][t] = Null
  /\ \A t \in Teams : w["matching"][t] # Null => teams[t].status # "absent"
  /\ \A f \in Finalizers, t \in Teams :
       w[f][t] # Null /\ teams[t].status # "absent" => w[f][t].status # "absent"
  /\ \A b \in Briefs : ~ Adds(teams, w, "matching", b) \/ ~ Adds(teams, w, "formation", b)
  /\ Fits(teams) /\ \A f \in Finalizers : Fits(Seen(teams, w, f))

\* Who can lock the row of a brief is alone in adding to it.
LEMMA LockedBrief ==
  ASSUME NEW f, NEW b \in Briefs, BriefFree(f, b), NEW g \in Finalizers \ {f}
  PROVE  ~ Adds(team, own, g, b)
BY DEF BriefFree, Adds, AtWork

\* Changes of members only.
LEMMA SamePlaces ==
  ASSUME NEW m, NEW v, Good(m, v), NEW n \in [Teams -> Team], NEW w \in Owned,
         \A t \in Teams : n[t].status = m[t].status /\ n[t].brief = m[t].brief,
         \A f \in Finalizers, t \in Teams :
           IF v[f][t] = Null THEN w[f][t] = Null
           ELSE /\ w[f][t] # Null /\ w[f][t].status = v[f][t].status
                /\ w[f][t].brief = v[f][t].brief
  PROVE  Good(n, w)
<1>1. \A b : \A t \in Teams : AtWork(n[t], b) <=> AtWork(m[t], b)  BY DEF AtWork
<1>2. \A b : \A f \in Finalizers, t \in Teams :
        v[f][t] # Null => (AtWork(w[f][t], b) <=> AtWork(v[f][t], b))
  BY DEF AtWork
<1>3. \A b : \A f \in Finalizers : Adds(n, w, f, b) => Adds(m, v, f, b)
  BY <1>1, <1>2 DEF Adds
<1>4. Fits(n)  BY <1>1, FewerAtWork DEF Fits, Good
<1>5. ASSUME NEW f \in Finalizers PROVE Fits(Seen(n, w, f))
  <2>1. \A b : \A t \in Teams : AtWork(Seen(n, w, f)[t], b) => AtWork(Seen(m, v, f)[t], b)
    BY <1>1, <1>2 DEF Seen
  <2>2. Fits(Seen(m, v, f))  BY DEF Good
  <2> QED  BY <2>1, <2>2, FewerAtWork DEF Fits
<1>6. "matching" \in Finalizers /\ "formation" \in Finalizers  BY DEF Finalizers
<1> QED  BY <1>3, <1>4, <1>5, <1>6 DEF Good

\* A leader or staff writes a team that no finalization has written.
LEMMA StaffWrites ==
  ASSUME Good(team, own), NEW t \in Teams, NEW n \in [Teams -> Team],
         \A f \in Finalizers : own[f][t] = Null,
         \A u \in Teams \ {t} : n[u] = team[u],
         n[t].status # "absent",
         \A b \in Briefs : AtWork(n[t], b) =>
           BriefAccepted(n, t) /\ \A f \in Finalizers : ~ Adds(team, own, f, b)
  PROVE  Good(n, own)
<1>1. \A b : \A f \in Finalizers : Adds(n, own, f, b) => Adds(team, own, f, b)
  BY DEF Adds
<1>2. Fits(n)
  <2> SUFFICES ASSUME NEW b \in Briefs PROVE Cardinality(Working(n, b)) <= MaxTeams
    BY DEF Fits
  <2>1. CASE AtWork(n[t], b)  BY <2>1, Accepted
  <2>2. CASE ~ AtWork(n[t], b)
    <3>1. \A u \in Teams : AtWork(n[u], b) => AtWork(team[u], b)  BY <2>2
    <3> QED  BY <3>1, FewerAtWork DEF Good, Fits
  <2> QED  BY <2>1, <2>2
<1>3. ASSUME NEW f \in Finalizers PROVE Fits(Seen(n, own, f))
  <2> SUFFICES ASSUME NEW b \in Briefs
               PROVE  Cardinality(Working(Seen(n, own, f), b)) <= MaxTeams
    BY DEF Fits
  <2>1. CASE AtWork(n[t], b)
    <3>1. ~ Adds(team, own, f, b)  BY <2>1
    <3>2. \A u \in Teams : AtWork(Seen(n, own, f)[u], b) => AtWork(n[u], b)
      BY <3>1 DEF Adds, Seen
    <3> QED  BY <3>2, <1>2, FewerAtWork DEF Fits
  <2>2. CASE ~ AtWork(n[t], b)
    <3>1. \A u \in Teams : AtWork(Seen(n, own, f)[u], b) => AtWork(Seen(team, own, f)[u], b)
      BY <2>2 DEF Seen
    <3>2. Fits(Seen(team, own, f))  BY DEF Good
    <3> QED  BY <3>1, <3>2, FewerAtWork DEF Fits
  <2> QED  BY <2>1, <2>2
<1>4. "matching" \in Finalizers /\ "formation" \in Finalizers  BY DEF Finalizers
<1>5. \A f \in Finalizers, u \in Teams : own[f][u] # Null => n[u] = team[u]  OBVIOUS
<1> QED  BY <1>1, <1>2, <1>3, <1>4, <1>5 DEF Good

\* A finalization writes a team that the other has not written.
LEMMA FinalizerWrites ==
  ASSUME Good(team, own), NEW f \in Finalizers, NEW t \in Teams, NEW row \in Team,
         NEW w, w = [own EXCEPT ![f][t] = row],
         \A g \in Finalizers \ {f} : own[g][t] = Null,
         f = "matching" => team[t].status # "absent",
         team[t].status # "absent" => row.status # "absent",
         \A b \in Briefs : AtWork(row, b) =>
           \/ AtWork(Seen(team, own, f)[t], b)
           \/ /\ BriefAccepted([Seen(team, own, f) EXCEPT ![t] = row], t)
              /\ BriefFree(f, b)
  PROVE  Good(team, w)
<1>1. team \in [Teams -> Team] /\ own \in Owned  BY DEF Good
<1>2. row # Null  BY PlaceAssumption
<1>3. /\ w \in Owned /\ w[f][t] = row
      /\ \A u \in Teams \ {t} : w[f][u] = own[f][u]
      /\ \A g \in Finalizers \ {f} : w[g] = own[g]
  BY <1>1 DEF Owned
<1>4. \A b : \A g \in Finalizers \ {f} : Adds(team, w, g, b) => Adds(team, own, g, b)
  BY <1>3 DEF Adds
<1>5. \A b \in Briefs : Adds(team, w, f, b) =>
        Adds(team, own, f, b) \/ \A g \in Finalizers \ {f} : ~ Adds(team, own, g, b)
  <2> SUFFICES ASSUME NEW b \in Briefs, NEW u \in Teams,
                      w[f][u] # Null, AtWork(w[f][u], b), ~ AtWork(team[u], b)
               PROVE  Adds(team, own, f, b) \/ \A g \in Finalizers \ {f} : ~ Adds(team, own, g, b)
    BY DEF Adds
  <2>1. CASE u # t  BY <1>3, <2>1 DEF Adds
  <2>2. CASE u = t
    <3>1. CASE AtWork(Seen(team, own, f)[t], b)  BY <2>2, <3>1 DEF Seen, Adds
    <3>2. CASE BriefFree(f, b)  BY <3>2, LockedBrief
    <3> QED  BY <1>3, <2>2, <3>1, <3>2
  <2> QED  BY <2>1, <2>2
<1>6. Seen(team, w, f) = [Seen(team, own, f) EXCEPT ![t] = row]
  <2> DEFINE m == Seen(team, own, f)
  <2>1. m = [u \in Teams |-> m[u]]  BY DEF Seen
  <2>2. Seen(team, w, f) = [u \in Teams |-> IF u = t THEN row ELSE m[u]]
    BY <1>2, <1>3 DEF Seen
  <2> HIDE DEF m
  <2>3. Seen(team, w, f) = [m EXCEPT ![t] = row]  BY <2>1, <2>2
  <2> QED  BY <2>3 DEF m
<1>7. Fits(Seen(team, w, f))
  <2> SUFFICES ASSUME NEW b \in Briefs
               PROVE  Cardinality(Working(Seen(team, w, f), b)) <= MaxTeams
    BY DEF Fits
  <2> DEFINE m == Seen(team, own, f)
             n == Seen(team, w, f)
  <2>1. n[t] = row /\ \A u \in Teams \ {t} : n[u] = m[u]  BY <1>6 DEF Seen
  <2>2. Fits(m)  BY DEF Good
  <2>3. n = [m EXCEPT ![t] = row]  BY <1>6
  <2> HIDE DEF m, n
  <2>4. CASE AtWork(row, b) => AtWork(m[t], b)
    <3>1. \A u \in Teams : AtWork(n[u], b) => AtWork(m[u], b)  BY <2>1, <2>4
    <3>2. Cardinality(Working(n, b)) <= MaxTeams  BY <3>1, <2>2, FewerAtWork DEF Fits
    <3> QED  BY <3>2 DEF n
  <2>5. CASE AtWork(row, b) /\ BriefAccepted(n, t)
    <3>1. Cardinality(Working(n, b)) <= MaxTeams  BY <2>1, <2>5, Accepted
    <3> QED  BY <3>1 DEF n
  <2> QED  BY <2>3, <2>4, <2>5 DEF m
<1>8. \A g \in Finalizers \ {f} : Fits(Seen(team, w, g))
  <2> TAKE g \in Finalizers \ {f}
  <2>1. Seen(team, w, g) = Seen(team, own, g)  BY <1>3 DEF Seen
  <2> QED  BY <2>1 DEF Good
<1>9. Finalizers = {"matching", "formation"}  BY DEF Finalizers
<1>10. \A b \in Briefs : ~ Adds(team, w, "matching", b) \/ ~ Adds(team, w, "formation", b)
  <2> TAKE b \in Briefs
  <2>1. ~ Adds(team, own, "matching", b) \/ ~ Adds(team, own, "formation", b)  BY DEF Good
  <2>2. CASE f = "matching"  BY <2>1, <2>2, <1>4, <1>5, <1>9
  <2>3. CASE f = "formation"  BY <2>1, <2>3, <1>4, <1>5, <1>9
  <2> QED  BY <1>9, <2>2, <2>3
<1>11. \A g \in Finalizers, u \in Teams :
         w[g][u] # Null /\ team[u].status # "absent" => w[g][u].status # "absent"
  BY <1>3 DEF Good
<1>12. \A u \in Teams : w["matching"][u] # Null => team[u].status # "absent"
  BY <1>3, <1>9 DEF Good
<1>13. \A u \in Teams : w["matching"][u] = Null \/ w["formation"][u] = Null
  BY <1>3, <1>9 DEF Good
<1> QED  BY <1>1, <1>3, <1>7, <1>8, <1>10, <1>11, <1>12, <1>13 DEF Good

\* A finalization rolls back.
LEMMA RollBack ==
  ASSUME Good(team, own), NEW f \in Finalizers, NEW w, w = [own EXCEPT ![f] = NoWrites]
  PROVE  Good(team, w)
<1>1. team \in [Teams -> Team] /\ own \in Owned  BY DEF Good
<1>2. NoWrites \in [Teams -> Team \cup {Null}] /\ \A t \in Teams : NoWrites[t] = Null
  BY DEF NoWrites
<1>3. w \in Owned /\ w[f] = NoWrites /\ \A g \in Finalizers \ {f} : w[g] = own[g]
  BY <1>1, <1>2 DEF Owned
<1>4. \A b : ~ Adds(team, w, f, b)  BY <1>2, <1>3 DEF Adds
<1>5. \A b : \A g \in Finalizers \ {f} : Adds(team, w, g, b) => Adds(team, own, g, b)
  BY <1>3 DEF Adds
<1>6. Seen(team, w, f) = team  BY <1>1, <1>2, <1>3 DEF Seen
<1>7. \A g \in Finalizers \ {f} : Seen(team, w, g) = Seen(team, own, g)
  BY <1>3 DEF Seen
<1>8. \A g \in Finalizers : Fits(Seen(team, w, g))  BY <1>6, <1>7 DEF Good
<1>9. Finalizers = {"matching", "formation"}  BY DEF Finalizers
<1>10. \A b \in Briefs : ~ Adds(team, w, "matching", b) \/ ~ Adds(team, w, "formation", b)
  BY <1>4, <1>9
<1>11. \A g \in Finalizers, t \in Teams : w[g][t] = Null \/ w[g][t] = own[g][t]
  BY <1>2, <1>3
<1>12. \A t \in Teams : w["matching"][t] = Null \/ w["formation"][t] = Null
  BY <1>9, <1>11 DEF Good
<1>13. \A t \in Teams : w["matching"][t] # Null => team[t].status # "absent"
  BY <1>9, <1>11 DEF Good
<1>14. \A g \in Finalizers, t \in Teams :
         w[g][t] # Null /\ team[t].status # "absent" => w[g][t].status # "absent"
  BY <1>11 DEF Good
<1>15. Fits(team)  BY DEF Good
<1> QED  BY <1>1, <1>3, <1>8, <1>10, <1>12, <1>13, <1>14, <1>15 DEF Good

\* A finalization commits; the other then sees both.
LEMMA Committed ==
  ASSUME Good(team, own), NEW f \in Finalizers, NEW w, w = [own EXCEPT ![f] = NoWrites],
         NEW n, n = Seen(team, own, f)
  PROVE  /\ Good(n, w)
         /\ \A t \in Teams : team[t].status # "absent" => n[t].status # "absent"
<1>1. team \in [Teams -> Team] /\ own \in Owned  BY DEF Good
<1>2. NoWrites \in [Teams -> Team \cup {Null}] /\ \A t \in Teams : NoWrites[t] = Null
  BY DEF NoWrites
<1>3. w \in Owned /\ w[f] = NoWrites /\ \A g \in Finalizers \ {f} : w[g] = own[g]
  BY <1>1, <1>2 DEF Owned
<1>4. n \in [Teams -> Team] /\ \A t \in Teams : n[t] = IF own[f][t] = Null THEN team[t] ELSE own[f][t]
  <2>1. \A t \in Teams : own[f][t] \in Team \cup {Null} /\ team[t] \in Team
    BY <1>1 DEF Owned
  <2> QED  BY <2>1 DEF Seen
<1>5. \A t \in Teams : team[t].status # "absent" => n[t].status # "absent"
  BY <1>4 DEF Good
<1>6. \A b : ~ Adds(n, w, f, b)  BY <1>2, <1>3 DEF Adds
<1>7. Finalizers = {"matching", "formation"}  BY DEF Finalizers
<1>8. \A g \in Finalizers \ {f}, t \in Teams : own[g][t] # Null => own[f][t] = Null
  BY <1>7 DEF Good
<1>9. Fits(n)  BY DEF Good
<1>10. ASSUME NEW g \in Finalizers PROVE Fits(Seen(n, w, g))
  <2>1. CASE g = f
    <3>1. Seen(n, w, g) = n  BY <1>2, <1>3, <1>4, <2>1 DEF Seen
    <3> QED  BY <1>9, <3>1
  <2>2. CASE g # f
    <3> SUFFICES ASSUME NEW b \in Briefs
                 PROVE  Cardinality(Working(Seen(n, w, g), b)) <= MaxTeams
      BY DEF Fits
    <3>1. \A t \in Teams : Seen(n, w, g)[t] = IF own[g][t] = Null THEN n[t] ELSE own[g][t]
      BY <1>3, <2>2 DEF Seen
    <3>2. CASE ~ Adds(team, own, g, b)
      <4>1. \A t \in Teams : AtWork(Seen(n, w, g)[t], b) => AtWork(n[t], b)
        BY <1>4, <1>8, <2>2, <3>1, <3>2 DEF Adds
      <4> QED  BY <4>1, <1>9, FewerAtWork DEF Fits
    <3>3. CASE ~ Adds(team, own, f, b)
      <4>1. \A t \in Teams : AtWork(Seen(n, w, g)[t], b) => AtWork(Seen(team, own, g)[t], b)
        BY <1>4, <3>1, <3>3 DEF Adds, Seen
      <4>2. Fits(Seen(team, own, g))  BY DEF Good
      <4> QED  BY <4>1, <4>2, FewerAtWork DEF Fits
    <3> QED  BY <1>7, <2>2, <3>2, <3>3 DEF Good
  <2> QED  BY <2>1, <2>2
<1>11. \A g \in Finalizers, t \in Teams :
         w[g][t] # Null => /\ g # f /\ w[g][t] = own[g][t] /\ n[t] = team[t]
  BY <1>2, <1>3, <1>4, <1>8
<1>12. \A g \in Finalizers, t \in Teams :
         w[g][t] # Null /\ n[t].status # "absent" => w[g][t].status # "absent"
  BY <1>11 DEF Good
<1>13. \A t \in Teams : w["matching"][t] # Null => n[t].status # "absent"
  BY <1>7, <1>11 DEF Good
<1>14. \A t \in Teams : w["matching"][t] = Null \/ w["formation"][t] = Null
  BY <1>2, <1>3, <1>7
<1>15. \A b \in Briefs : ~ Adds(n, w, "matching", b) \/ ~ Adds(n, w, "formation", b)
  BY <1>6, <1>7
<1> QED  BY <1>3, <1>4, <1>5, <1>9, <1>10, <1>12, <1>13, <1>14, <1>15 DEF Good

-----------------------------------------------------------------------------
(* What members, leaders and staff do.                                      *)

Rises(n) == \A t \in Teams : team[t].status # "absent" => n[t].status # "absent"

LEMMA OwnRows ==
  ASSUME Good(team, own)
  PROVE  /\ team \in [Teams -> Team] /\ own \in Owned
         /\ \A t \in Teams : team[t] \in Team
         /\ \A f \in Finalizers, t \in Teams : own[f][t] # Null => own[f][t] \in Team
         /\ "matching" \in Finalizers /\ "formation" \in Finalizers
BY DEF Good, Owned, Finalizers

LEMMA StaffFree ==
  ASSUME NEW t \in Teams, TeamFree("staff", t)
  PROVE  \A f \in Finalizers : own[f][t] = Null
BY DEF TeamFree, Finalizers

\* One team gets other members.
LEMMA OthersMembers ==
  ASSUME Good(team, own), NEW t \in Teams, NEW row \in Team, NEW n,
         n = [team EXCEPT ![t] = row],
         row.status = team[t].status, row.brief = team[t].brief
  PROVE  Good(n, own) /\ Rises(n)
<1>1. n \in [Teams -> Team]  BY OwnRows
<1>2. \A u \in Teams : n[u].status = team[u].status /\ n[u].brief = team[u].brief
  BY OwnRows
<1>3. \A f \in Finalizers, u \in Teams :
        IF own[f][u] = Null THEN own[f][u] = Null
        ELSE /\ own[f][u] # Null /\ own[f][u].status = own[f][u].status
             /\ own[f][u].brief = own[f][u].brief
  OBVIOUS
<1>4. Good(n, own)  BY <1>1, <1>2, <1>3, OwnRows, SamePlaces
<1> QED  BY <1>2, <1>4 DEF Rises

LEMMA AssignStep ==
  ASSUME Good(team, own), NEW t \in Teams, NEW b \in Briefs \cup {Null}, Assign(t, b)
  PROVE  Good(team', own') /\ Rises(team') /\ person' = person
<1> DEFINE status == IF team[t].status = "forming" /\ b # Null THEN "active"
                     ELSE team[t].status
           row == [team[t] EXCEPT !.brief = b, !.status = status]
<1>1. /\ TeamFree("staff", t) /\ person' = person /\ own' = own /\ Exists(t)
      /\ \A c \in {team[t].brief, b} \ {Null} : BriefFree("staff", c)
      /\ BriefAccepted(team', t)
      /\ team' = [team EXCEPT ![t].brief = b,
                    ![t].status = IF @ = "forming" /\ b # Null THEN "active" ELSE @]
  BY DEF Assign, Changing
<1>2. team[t] \in Team /\ team[t].status # "absent"  BY <1>1, OwnRows DEF Exists
<1>3. status \in {"forming", "active", "disqualified", "deleted"}  BY <1>2 DEF Team
<1>4. team' = [team EXCEPT ![t] = row]  BY <1>1, OwnRows
<1> HIDE DEF status
<1>5. row \in Team /\ row.brief = b /\ row.status = status  BY <1>2, <1>3 DEF Team
<1> HIDE DEF row
<1>6. /\ team' \in [Teams -> Team] /\ team'[t] = row
      /\ \A u \in Teams \ {t} : team'[u] = team[u]
  BY <1>4, <1>5, OwnRows
<1>7. \A c \in Briefs : AtWork(team'[t], c) =>
        BriefAccepted(team', t) /\ \A f \in Finalizers : ~ Adds(team, own, f, c)
  <2> SUFFICES ASSUME NEW c \in Briefs, AtWork(team'[t], c)
               PROVE  BriefAccepted(team', t) /\ \A f \in Finalizers : ~ Adds(team, own, f, c)
    OBVIOUS
  <2>1. c = b /\ c # Null  BY <1>5, <1>6, PlaceAssumption DEF AtWork
  <2>2. BriefFree("staff", c)  BY <1>1, <2>1
  <2>3. \A f \in Finalizers : f \in Finalizers \ {"staff"}  BY DEF Finalizers
  <2> QED  BY <1>1, <2>2, <2>3, LockedBrief
<1>8. Good(team', own)
  BY <1>1, <1>3, <1>5, <1>6, <1>7, StaffFree, StaffWrites
<1>9. Rises(team')  BY <1>3, <1>5, <1>6 DEF Rises
<1> QED  BY <1>1, <1>8, <1>9

\* A team that is not at work on a brief afterwards.
LEMMA StaffStops ==
  ASSUME Good(team, own), NEW t \in Teams, TeamFree("staff", t), NEW row \in Team,
         NEW n, n = [team EXCEPT ![t] = row], row.status # "absent",
         row.brief = Null \/ row.status \notin {"forming", "active"}
  PROVE  Good(n, own) /\ Rises(n)
<1>1. /\ n \in [Teams -> Team] /\ n[t] = row
      /\ \A u \in Teams \ {t} : n[u] = team[u]
  BY OwnRows
<1>2. \A b \in Briefs : ~ AtWork(n[t], b)  BY <1>1, PlaceAssumption DEF AtWork
<1>3. \A f \in Finalizers : own[f][t] = Null  BY StaffFree
<1>4. Good(n, own)  BY <1>1, <1>2, <1>3, StaffWrites
<1> QED  BY <1>1, <1>4 DEF Rises

LEMMA LeaveStep ==
  ASSUME Good(team, own), NEW t \in Teams, NEW p \in Participants, Leave(t, p)
  PROVE  Good(team', own') /\ Rises(team') /\ person' = person
<1> DEFINE last == team[t].members = {p}
           status == IF last THEN "deleted" ELSE team[t].status
           pending == IF last THEN {} ELSE team[t].pending \ {p}
           row == [team[t] EXCEPT !.members = team[t].members \ {p}, !.pending = pending,
                                  !.status = status]
           less(r) == [r EXCEPT !.members = @ \ {p}, !.pending = @ \ {p}]
<1>1. /\ last => TeamFree("staff", t)
      /\ person' = person /\ Exists(t)
      /\ team' = [team EXCEPT ![t].members = @ \ {p},
                    ![t].pending = IF last THEN {} ELSE @ \ {p},
                    ![t].status = IF last THEN "deleted" ELSE @]
      /\ own' = [f \in Finalizers |-> IF own[f][t] = Null THEN own[f]
                  ELSE [own[f] EXCEPT ![t].members = @ \ {p}, ![t].pending = @ \ {p}]]
  BY DEF Leave
<1>2. team[t] \in Team /\ team[t].status # "absent"  BY <1>1, OwnRows DEF Exists
<1>3. team' = [team EXCEPT ![t] = row]  BY <1>1, OwnRows
<1>4. /\ status \in {"forming", "active", "disqualified", "deleted"}
      /\ pending \in SUBSET Participants
  BY <1>2 DEF Team
<1> HIDE DEF pending, last
<1>5. row \in Team /\ row.status = status /\ row.brief = team[t].brief
  <2> HIDE DEF status
  <2> QED  BY <1>2, <1>4 DEF Team
<1>6. CASE last
  <2>1. \A f \in Finalizers : own[f][t] = Null  BY <1>1, <1>6, StaffFree
  <2>2. own' = [f \in Finalizers |-> own[f]]  BY <1>1, <2>1
  <2>3. own' = own  BY <2>2, OwnRows DEF Owned
  <2>4. row.status = "deleted"  BY <1>5, <1>6
  <2> HIDE DEF row
  <2>5. Good(team', own) /\ Rises(team')  BY <1>1, <1>3, <1>5, <1>6, <2>4, StaffStops
  <2> QED  BY <1>1, <2>3, <2>5
<1>7. CASE ~ last
  <2>1. row.status = team[t].status  BY <1>5, <1>7
  <2> HIDE DEF row
  <2>2. /\ team' \in [Teams -> Team]
        /\ \A u \in Teams : team'[u].status = team[u].status /\ team'[u].brief = team[u].brief
    BY <1>3, <1>5, <2>1, OwnRows
  <2>3. \A r \in Team : less(r) \in Team /\ less(r).status = r.status /\ less(r).brief = r.brief
    BY DEF Team
  <2>4. own' = [f \in Finalizers |-> IF own[f][t] = Null THEN own[f]
                  ELSE [own[f] EXCEPT ![t] = less(own[f][t])]]
    <3>1. \A f \in Finalizers :
            [own[f] EXCEPT ![t].members = @ \ {p}, ![t].pending = @ \ {p}]
              = [own[f] EXCEPT ![t] = less(own[f][t])]
      BY OwnRows DEF Owned
    <3> QED  BY <1>1, <3>1
  <2> HIDE DEF less
  <2>5. \A f \in Finalizers, u \in Teams :
          own'[f][u] = IF u = t /\ own[f][u] # Null THEN less(own[f][u]) ELSE own[f][u]
    BY <2>4, OwnRows DEF Owned
  <2>6. \A f \in Finalizers : own'[f] \in [Teams -> Team \cup {Null}]
    <3> TAKE f \in Finalizers
    <3>1. own[f] \in [Teams -> Team \cup {Null}]  BY OwnRows DEF Owned
    <3>2. CASE own[f][t] = Null  BY <2>4, <3>1, <3>2
    <3>3. CASE own[f][t] # Null
      <4>1. own'[f] = [own[f] EXCEPT ![t] = less(own[f][t])]  BY <2>4, <3>3
      <4>2. less(own[f][t]) \in Team  BY <2>3, <3>3, OwnRows
      <4> QED  BY <3>1, <4>1, <4>2
    <3> QED  BY <3>2, <3>3
  <2>7. own' \in Owned  BY <2>4, <2>6 DEF Owned
  <2>8. \A f \in Finalizers, u \in Teams :
          IF own[f][u] = Null THEN own'[f][u] = Null
          ELSE /\ own'[f][u] # Null /\ own'[f][u].status = own[f][u].status
               /\ own'[f][u].brief = own[f][u].brief
    <3> TAKE f \in Finalizers, u \in Teams
    <3>1. own[f][u] # Null => own[f][u] \in Team  BY OwnRows
    <3>2. Null \notin Team  BY PlaceAssumption
    <3> QED  BY <2>3, <2>5, <3>1, <3>2
  <2>9. Good(team', own')  BY <2>2, <2>7, <2>8, SamePlaces
  <2> QED  BY <1>1, <2>2, <2>9 DEF Rises
<1> QED  BY <1>6, <1>7

LEMMA ConfirmStep ==
  ASSUME Good(team, own), NEW t \in Teams, NEW p \in Participants, Confirm(t, p)
  PROVE  Good(team', own') /\ Rises(team') /\ person' = person
<1> DEFINE in(r) == [r EXCEPT !.members = @ \cup {p}, !.pending = @ \ {p}]
           out(r) == [r EXCEPT !.pending = @ \ {p}]
<1>1. /\ person' = person
      /\ team' = [u \in Teams |-> IF u = t THEN in(team[u]) ELSE out(team[u])]
      /\ own' = [f \in Finalizers |-> [u \in Teams |->
                   IF own[f][u] = Null THEN Null ELSE out(own[f][u])]]
  BY DEF Confirm, Changing
<1>2. \A r \in Team : /\ in(r) \in Team /\ in(r).status = r.status /\ in(r).brief = r.brief
                      /\ out(r) \in Team /\ out(r).status = r.status /\ out(r).brief = r.brief
  BY DEF Team
<1> HIDE DEF in, out
<1>3. /\ team' \in [Teams -> Team]
      /\ \A u \in Teams : team'[u].status = team[u].status /\ team'[u].brief = team[u].brief
  BY <1>1, <1>2, OwnRows
<1>4. own' \in Owned  BY <1>1, <1>2, OwnRows DEF Owned
<1>5. \A f \in Finalizers, u \in Teams :
        IF own[f][u] = Null THEN own'[f][u] = Null
        ELSE /\ own'[f][u] # Null /\ own'[f][u].status = own[f][u].status
             /\ own'[f][u].brief = own[f][u].brief
  <2> TAKE f \in Finalizers, u \in Teams
  <2>1. own'[f][u] = IF own[f][u] = Null THEN Null ELSE out(own[f][u])  BY <1>1
  <2>2. Null \notin Team /\ (own[f][u] # Null => own[f][u] \in Team)
    BY PlaceAssumption, OwnRows
  <2> QED  BY <1>2, <2>1, <2>2
<1>6. Good(team', own')  BY <1>3, <1>4, <1>5, SamePlaces
<1> QED  BY <1>1, <1>3, <1>6 DEF Rises

LEMMA OthersStep ==
  ASSUME Good(team, own), person \in [Participants -> Person], Others
  PROVE  Good(team', own') /\ Rises(team') /\ person' = person
<1>1. PICK t \in Teams : \/ \E b \in Briefs \cup {Null} : Assign(t, b)
                         \/ Disqualify(t)
                         \/ \E p \in Participants : \/ Found(t, p) \/ Join(t, p) \/ Add(t, p)
                                                    \/ Confirm(t, p) \/ Leave(t, p)
  BY DEF Others
<1>2. team[t] \in Team  BY OwnRows
<1>3. CASE Disqualify(t)
  <2> DEFINE row == [team[t] EXCEPT !.status = "disqualified"]
  <2>1. /\ TeamFree("staff", t) /\ person' = person /\ own' = own
        /\ team' = [team EXCEPT ![t] = row]
    BY <1>3, OwnRows DEF Disqualify, Changing
  <2>2. row \in Team /\ row.status = "disqualified"  BY <1>2 DEF Team
  <2> HIDE DEF row
  <2>3. Good(team', own) /\ Rises(team')  BY <2>1, <2>2, StaffStops
  <2> QED  BY <2>1, <2>3
<1>4. ASSUME NEW p \in Participants, Found(t, p)
      PROVE  Good(team', own') /\ Rises(team') /\ person' = person
  <2> DEFINE row == [NoTeam EXCEPT !.status = "forming", !.members = {p},
                                   !.group = person[p].group]
  <2>1. /\ TeamFree("staff", t) /\ person' = person /\ own' = own
        /\ team' = [team EXCEPT ![t] = row]
    BY <1>4 DEF Found, Changing
  <2>2. person[p].group \in Groups \cup {Null}  BY DEF Person
  <2>3. row \in Team /\ row.status = "forming" /\ row.brief = Null
    BY <2>2 DEF Team, NoTeam
  <2> HIDE DEF row
  <2>4. Good(team', own) /\ Rises(team')  BY <2>1, <2>3, StaffStops
  <2> QED  BY <2>1, <2>4
<1>5. ASSUME NEW p \in Participants, Join(t, p)
      PROVE  Good(team', own') /\ Rises(team') /\ person' = person
  <2> DEFINE row == [team[t] EXCEPT !.pending = @ \cup {p}]
  <2>1. /\ person' = person /\ own' = own /\ team' = [team EXCEPT ![t] = row]
    BY <1>5, OwnRows DEF Join, Changing
  <2>2. row \in Team /\ row.status = team[t].status /\ row.brief = team[t].brief
    BY <1>2 DEF Team
  <2> HIDE DEF row
  <2>3. Good(team', own) /\ Rises(team')  BY <2>1, <2>2, OthersMembers
  <2> QED  BY <2>1, <2>3
<1>6. ASSUME NEW p \in Participants, Add(t, p)
      PROVE  Good(team', own') /\ Rises(team') /\ person' = person
  <2> DEFINE row == [team[t] EXCEPT !.members = @ \cup {p}]
  <2>1. /\ person' = person /\ own' = own /\ team' = [team EXCEPT ![t] = row]
    BY <1>6, OwnRows DEF Add, Changing
  <2>2. row \in Team /\ row.status = team[t].status /\ row.brief = team[t].brief
    BY <1>2 DEF Team
  <2> HIDE DEF row
  <2>3. Good(team', own) /\ Rises(team')  BY <2>1, <2>2, OthersMembers
  <2> QED  BY <2>1, <2>3
<1> QED  BY <1>1, <1>3, <1>4, <1>5, <1>6, AssignStep, ConfirmStep, LeaveStep

-----------------------------------------------------------------------------
(* A run of matching.                                                       *)

\* The pairs so far are the best of those that have been looked at.
On(b) == {d \in matching.pairs : d.brief = b}
Greedy ==
  /\ matching.step # "pick" =>
       matching.all = {} /\ matching.left = {} /\ matching.pairs = {}
  /\ matching.left \subseteq matching.all
  /\ matching.pairs \subseteq matching.all \ matching.left
  /\ IsFiniteSet(matching.pairs)
  /\ \A b \in Briefs : Cardinality(On(b)) <= matching.room[b]
  /\ \A c \in matching.all \ matching.left, d \in matching.left : d.score <= c.score
  /\ StableMatching

LEMMA PairsFinite ==
  ASSUME NEW S, IsFiniteSet(S), NEW T \in SUBSET S
  PROVE  IsFiniteSet(T) /\ Cardinality(T) \in Nat /\ Cardinality(S) \in Nat
         /\ Cardinality(T) <= Cardinality(S)
BY FS_Subset, FS_CardinalityType

LEMMA RoomType == ASSUME NEW b, NEW most \in Nat PROVE Room(b, most) \in Nat
<1> DEFINE S == {t \in Teams : Exists(t) /\ team[t].brief = b}
<1>1. Cardinality(S) \in Nat  BY PlaceAssumption, FS_Subset, FS_CardinalityType
<1>2. Room(b, most) = IF Cardinality(S) < most THEN most - Cardinality(S) ELSE 0
  BY DEF Room
<1> HIDE DEF S
<1> QED  BY <1>1, <1>2

LEMMA NoMatchingType == NoMatching \in Matching
BY PlaceAssumption DEF NoMatching, Matching

LEMMA ReadTeamsStep ==
  ASSUME matching \in Matching, Greedy, ReadTeams PROVE matching' \in Matching /\ Greedy'
<1> DEFINE S == {t \in Teams : Eligible(t)}
<1>1. matching' = [NoMatching EXCEPT !.step = "briefs", !.teams = S]  BY DEF ReadTeams
<1>2. S \in SUBSET Teams  OBVIOUS
<1> HIDE DEF S
<1>3. matching' \in Matching /\ matching'.room = NoMatching.room
  BY <1>1, <1>2, NoMatchingType DEF Matching
<1>4. /\ matching'.step = "briefs" /\ matching'.all = {} /\ matching'.left = {}
      /\ matching'.pairs = {}
  BY <1>1 DEF NoMatching
<1>5. \A b \in Briefs : Cardinality(On(b)') <= matching'.room[b]
  <2>1. \A b \in Briefs : On(b)' = {} /\ matching'.room[b] = 0
    BY <1>3, <1>4 DEF On, NoMatching
  <2> QED  BY <2>1, FS_EmptySet
<1> QED  BY <1>3, <1>4, <1>5, FS_EmptySet DEF Greedy, StableMatching

LEMMA ReadBriefsStep ==
  ASSUME matching \in Matching, Greedy,
         NEW score \in [matching.teams \X Briefs -> Scores],
         NEW most \in {MaxTeams} \cup Limits, ReadBriefs(score, most)
  PROVE  matching' \in Matching /\ Greedy'
<1> DEFINE room == [b \in Briefs |-> Room(b, most)]
           all == {[team |-> x[1], brief |-> x[2], score |-> score[x]] :
                     x \in {y \in matching.teams \X Briefs : room[y[2]] > 0}}
<1>1. /\ matching.step = "briefs"
      /\ matching' = [matching EXCEPT !.step = "pick", !.room = room,
                                      !.all = all, !.left = all]
  BY DEF ReadBriefs
<1>2. room \in [Briefs -> Nat]
  BY RoomType, PlaceAssumption, ScoresAssumption
<1>3. all \subseteq Candidate
  <2> SUFFICES ASSUME NEW x \in matching.teams \X Briefs
               PROVE  [team |-> x[1], brief |-> x[2], score |-> score[x]] \in Candidate
    OBVIOUS
  <2>1. x[1] \in Teams /\ x[2] \in Briefs /\ score[x] \in Scores  BY DEF Matching
  <2> QED  BY <2>1 DEF Candidate
<1> HIDE DEF room, all
<1>4. matching' \in Matching  BY <1>1, <1>2, <1>3 DEF Matching
<1>5. /\ matching'.step = "pick" /\ matching'.all = all /\ matching'.left = all
      /\ matching'.pairs = {} /\ matching'.room = room
  BY <1>1, <1>2, <1>3 DEF Matching, Greedy
<1>6. \A b \in Briefs : Cardinality(On(b)') <= matching'.room[b]
  <2>1. \A b \in Briefs : On(b)' = {}  BY <1>5 DEF On
  <2>2. Cardinality({}) = 0  BY FS_EmptySet
  <2>3. \A b \in Briefs : 0 <= room[b]  BY <1>2
  <2> QED  BY <2>1, <2>2, <2>3, <1>5
<1> QED  BY <1>4, <1>5, <1>6, FS_EmptySet DEF Greedy, StableMatching

LEMMA PickStep ==
  ASSUME matching \in Matching, Greedy, NEW c \in matching.left, Pick(c)
  PROVE  matching' \in Matching /\ Greedy'
<1> DEFINE pairs == IF HasRoom(c) THEN matching.pairs \cup {c} ELSE matching.pairs
<1>1. /\ matching.step = "pick" /\ c \in Best(matching.left)
      /\ matching' = [matching EXCEPT !.left = @ \ {c}, !.pairs = pairs]
  BY DEF Pick
<1>2. /\ c \in Candidate /\ matching.pairs \subseteq Candidate
      /\ matching.all \subseteq Candidate /\ matching.left \subseteq Candidate
      /\ matching.room \in [Briefs -> Nat]
  BY DEF Matching
<1>3. pairs \subseteq Candidate  BY <1>2
<1>4. matching' \in Matching
  <2> HIDE DEF pairs
  <2> QED  BY <1>1, <1>3 DEF Matching
<1>5. /\ matching'.step = "pick" /\ matching'.all = matching.all
      /\ matching'.left = matching.left \ {c} /\ matching'.pairs = pairs
      /\ matching'.room = matching.room
  <2> HIDE DEF pairs
  <2> QED  BY <1>1 DEF Matching
<1>6. \A d \in Candidate : d.score \in Nat /\ d.brief \in Briefs
  BY ScoresAssumption DEF Candidate
<1>7. c.brief \in Briefs  BY <1>2, <1>6
<1>8. \A d \in matching.left : d.score <= c.score  BY <1>1 DEF Best
<1>9. \A d \in matching.all \ matching.left : c.score <= d.score  BY DEF Greedy
<1>10. \A d \in matching.pairs : c.score <= d.score  BY <1>9 DEF Greedy
<1>11. IsFiniteSet(matching.pairs) /\ c \notin matching.pairs  BY DEF Greedy
<1>12. \A d \in matching'.all \ matching'.left, e \in matching'.left : e.score <= d.score
  BY <1>5, <1>8 DEF Greedy
<1> DEFINE High(S, e) == {d \in S : d.brief = e.brief /\ d.score >= e.score}
<1>13. ASSUME NEW e \in matching.all \ matching.left
       PROVE  \/ \E d \in matching.pairs : d.team = e.team /\ d.score >= e.score
              \/ Cardinality(High(matching.pairs, e)) = matching.room[e.brief]
  BY DEF Greedy, StableMatching
<1>14. \A b \in Briefs : IsFiniteSet(On(b)) /\ Cardinality(On(b)) \in Nat
  BY <1>11, PairsFinite DEF On
<1>15. \A b \in Briefs : Cardinality(On(b)) <= matching.room[b]  BY DEF Greedy
<1>16. CASE HasRoom(c)
  <2>1. pairs = matching.pairs \cup {c}  BY <1>16
  <2>2. Cardinality(On(c.brief)) < matching.room[c.brief]  BY <1>16 DEF HasRoom, On
  <2>3. IsFiniteSet(pairs)  BY <1>11, <2>1, FS_AddElement
  <2>4. ASSUME NEW b \in Briefs PROVE Cardinality(On(b)') <= matching.room[b]
    <3>1. CASE b = c.brief
      <4>1. On(b)' = On(b) \cup {c} /\ c \notin On(b)  BY <1>5, <1>11, <2>1, <3>1 DEF On
      <4>2. Cardinality(On(b)') = Cardinality(On(b)) + 1
        BY <1>14, <4>1, FS_AddElement
      <4>3. matching.room[b] \in Nat  BY <1>2
      <4> QED  BY <1>14, <2>2, <3>1, <4>2, <4>3
    <3>2. CASE b # c.brief
      <4>1. On(b)' = On(b)  BY <1>5, <2>1, <3>2 DEF On
      <4> QED  BY <1>15, <4>1
    <3> QED  BY <3>1, <3>2
  <2>5. ASSUME NEW e \in matching.all \ (matching.left \ {c})
        PROVE  \/ \E d \in pairs : d.team = e.team /\ d.score >= e.score
               \/ Cardinality(High(pairs, e)) = matching.room[e.brief]
    <3>1. CASE e = c
      <4>1. c.score >= c.score  BY <1>2, <1>6
      <4> QED  BY <2>1, <3>1, <4>1
    <3>2. CASE e # c
      <4>1. e \in matching.all \ matching.left  BY <3>2
      <4>2. CASE \E d \in matching.pairs : d.team = e.team /\ d.score >= e.score
        BY <2>1, <4>2
      <4>3. CASE Cardinality(High(matching.pairs, e)) = matching.room[e.brief]
        <5>1. e.brief # c.brief
          <6> SUFFICES ASSUME e.brief = c.brief PROVE FALSE  OBVIOUS
          <6>1. High(matching.pairs, e) \in SUBSET On(c.brief)  BY DEF On
          <6>2. IsFiniteSet(On(c.brief))  BY <1>7, <1>14
          <6> DEFINE n == Cardinality(High(matching.pairs, e))
                     m == Cardinality(On(c.brief))
          <6>3. n \in Nat /\ m \in Nat /\ n <= m  BY <6>1, <6>2, PairsFinite
          <6>4. n = matching.room[c.brief]  BY <4>3
          <6>5. m < matching.room[c.brief]  BY <2>2
          <6> HIDE DEF n, m
          <6> QED  BY <6>3, <6>4, <6>5
        <5>2. High(pairs, e) = High(matching.pairs, e)  BY <2>1, <5>1
        <5> QED  BY <4>3, <5>2
      <4> QED  BY <1>13, <4>1, <4>2, <4>3
    <3> QED  BY <3>1, <3>2
  <2>6. pairs \subseteq matching.all \ (matching.left \ {c})
    <3>1. matching.left \subseteq matching.all
      BY DEF Greedy
    <3> QED  BY <2>1, <3>1 DEF Greedy
  <2>7. matching.left \ {c} \subseteq matching.all  BY DEF Greedy
  <2> HIDE DEF pairs
  <2> QED  BY <1>4, <1>5, <1>12, <2>3, <2>4, <2>5, <2>6, <2>7 DEF Greedy, StableMatching
<1>17. CASE ~ HasRoom(c)
  <2>1. pairs = matching.pairs  BY <1>17
  <2>2. ASSUME NEW e \in matching.all \ (matching.left \ {c})
        PROVE  \/ \E d \in pairs : d.team = e.team /\ d.score >= e.score
               \/ Cardinality(High(pairs, e)) = matching.room[e.brief]
    <3>1. CASE e = c
      <4>1. CASE \E d \in matching.pairs : d.team = c.team
        <5>1. PICK d \in matching.pairs : d.team = c.team  BY <4>1
        <5>2. d.score >= c.score  BY <1>2, <1>6, <1>10
        <5> QED  BY <2>1, <3>1, <5>1, <5>2
      <4>2. CASE ~ (Cardinality(On(c.brief)) < matching.room[c.brief])
        <5>1. High(pairs, c) = On(c.brief)  BY <1>2, <1>6, <1>10, <2>1 DEF On
        <5>2. matching.room[c.brief] \in Nat  BY <1>2, <1>7
        <5>3. Cardinality(On(c.brief)) = matching.room[c.brief]
          BY <1>7, <1>14, <1>15, <4>2, <5>2
        <5> QED  BY <3>1, <5>1, <5>3
      <4> QED  BY <1>17, <4>1, <4>2 DEF HasRoom, On
    <3>2. CASE e # c  BY <1>13, <2>1, <3>2
    <3> QED  BY <3>1, <3>2
  <2>3. \A b \in Briefs : On(b)' = On(b)  BY <1>5, <2>1 DEF On
  <2>4. pairs \subseteq matching.all \ (matching.left \ {c})  BY <2>1 DEF Greedy
  <2>5. IsFiniteSet(pairs)  BY <2>1, <1>11
  <2>6. matching.left \ {c} \subseteq matching.all  BY DEF Greedy
  <2> HIDE DEF pairs
  <2> QED  BY <1>4, <1>5, <1>12, <1>15, <2>2, <2>3, <2>4, <2>5, <2>6 DEF Greedy, StableMatching
<1> QED  BY <1>16, <1>17

LEMMA NoMatchingGreedy == ASSUME matching = NoMatching PROVE Greedy
<1>1. /\ matching.step = "idle" /\ matching.all = {} /\ matching.left = {}
      /\ matching.pairs = {} /\ matching.room = [b \in Briefs |-> 0]
  BY DEF NoMatching
<1>2. \A b \in Briefs : Cardinality(On(b)) <= matching.room[b]
  <2>1. \A b \in Briefs : On(b) = {} /\ matching.room[b] = 0  BY <1>1 DEF On
  <2> QED  BY <2>1, FS_EmptySet
<1> QED  BY <1>1, <1>2, FS_EmptySet DEF Greedy, StableMatching

-----------------------------------------------------------------------------
(* The finalization of matching.                                            *)

\* A team that has been read is in the table.
Reading == assigning.reading # <<>> =>
             assigning.status # "" /\ team[assigning.reading[1]].status # "absent"

LEMMA SeenRow ==
  ASSUME Good(team, own), NEW f \in Finalizers
  PROVE  /\ View(f) = Seen(team, own, f) /\ View(f) \in [Teams -> Team]
         /\ \A t \in Teams : team[t].status # "absent" => View(f)[t].status # "absent"
<1>1. View(f) = Seen(team, own, f)  BY DEF View, Seen
<1>2. \A t \in Teams : team[t] \in Team /\ (own[f][t] # Null => own[f][t] \in Team)
  BY OwnRows
<1>3. View(f) \in [Teams -> Team]  BY <1>2 DEF View
<1>4. \A t \in Teams : team[t].status # "absent" => View(f)[t].status # "absent"
  BY DEF View, Good
<1> QED  BY <1>1, <1>3, <1>4

LEMMA NoAssigningType == NoAssigning \in Assigning /\ NoAssigning.reading = <<>>
BY DEF NoAssigning, Assigning

LEMMA WriteTeamStep ==
  ASSUME Good(team, own), TypeOfMatching, Reading, NEW t \in Teams, NEW b \in Briefs,
         WriteTeam(t, b)
  PROVE  Good(team, own')
<1> DEFINE m == View("matching")
           new == IF assigning.status = "forming" THEN "active" ELSE assigning.status
           status == IF m[t].status = "deleted" THEN m[t].status ELSE new
           row == [m[t] EXCEPT !.brief = b, !.status = status]
           teams == [m EXCEPT ![t].brief = b, ![t].status = IF @ = "deleted" THEN @ ELSE new]
<1>1. /\ assigning.reading = <<t, b>> /\ TeamFree("matching", t) /\ BriefFree("matching", b)
      /\ own' = IF BriefAccepted(teams, t) THEN [own EXCEPT !["matching"][t] = teams[t]] ELSE own
  BY DEF WriteTeam
<1>2. "matching" \in Finalizers /\ \A g \in Finalizers \ {"matching"} : own[g][t] = Null
  BY <1>1 DEF Finalizers, TeamFree
<1>3. m \in [Teams -> Team] /\ m = Seen(team, own, "matching")  BY <1>2, SeenRow
<1>4. assigning.status # "" /\ team[t].status # "absent"
  <2>1. assigning.reading = <<t, b>>  BY <1>1
  <2>2. <<t, b>> # <<>> /\ <<t, b>>[1] = t  OBVIOUS
  <2> HIDE DEF m, new, status, row, teams
  <2> QED  BY <2>1, <2>2 DEF Reading
<1>5. assigning.status \in {"forming", "active", "disqualified"}
  BY <1>4 DEF TypeOfMatching, Assigning
<1>6. status \in {"forming", "active", "disqualified", "deleted"}  BY <1>5
<1> HIDE DEF m
<1>7. teams = [m EXCEPT ![t] = row]  BY <1>3
<1> HIDE DEF status
<1>8. row \in Team /\ row.brief = b /\ row.status = status  BY <1>3, <1>6 DEF Team
<1> HIDE DEF row
<1>9. teams[t] = row  BY <1>3, <1>7
<1> HIDE DEF teams
<1>10. CASE BriefAccepted(teams, t)
  <2>1. own' = [own EXCEPT !["matching"][t] = row]  BY <1>1, <1>9, <1>10
  <2>2. BriefAccepted([Seen(team, own, "matching") EXCEPT ![t] = row], t)
    BY <1>3, <1>7, <1>10
  <2>3. \A c \in Briefs : AtWork(row, c) => c = b  BY <1>8 DEF AtWork
  <2>4. row.status # "absent"  BY <1>6, <1>8
  <2>5. \A c \in Briefs : AtWork(row, c) =>
          \/ AtWork(Seen(team, own, "matching")[t], c)
          \/ /\ BriefAccepted([Seen(team, own, "matching") EXCEPT ![t] = row], t)
             /\ BriefFree("matching", c)
    BY <1>1, <2>2, <2>3
  <2>6. row \in Team /\ team[t].status # "absent"  BY <1>4, <1>8
  <2> QED  BY <1>2, <2>1, <2>4, <2>5, <2>6, FinalizerWrites
<1>11. CASE ~ BriefAccepted(teams, t)  BY <1>1, <1>11
<1> QED  BY <1>10, <1>11

LEMMA FinalizeMatchingStep ==
  ASSUME Good(team, own), TypeOfMatching, Reading, FinalizeMatching
  PROVE  /\ Good(team', own') /\ Rises(team') /\ TypeOfMatching' /\ Reading'
         /\ UNCHANGED <<matching, person>>
<1>1. /\ matching \in Matching /\ matched \in (SUBSET Pairs) \cup {Null}
      /\ assigning \in Assigning
  BY DEF TypeOfMatching
<1>2. Rises(team)  BY DEF Rises
<1>3. ASSUME NEW excluded \in Withheld, NEW override \in Overrides,
             BeginAssigning(excluded, override)
      PROVE  /\ Good(team', own') /\ Rises(team') /\ TypeOfMatching' /\ Reading'
             /\ UNCHANGED <<matching, person>>
  <2> DEFINE todo == override \cup {x \in matched : /\ x[1] \notin excluded
                                                    /\ \A y \in override : y[1] # x[1]}
  <2>1. /\ matched # Null /\ UNCHANGED <<tables, matching, matched>>
        /\ assigning' = [NoAssigning EXCEPT !.on = TRUE, !.todo = todo]
    BY <1>3 DEF BeginAssigning, Calling
  <2>2. todo \in SUBSET Pairs  BY <1>1, <2>1, ScoresAssumption DEF Pairs
  <2> HIDE DEF todo
  <2>3. assigning' \in Assigning /\ assigning'.reading = <<>>
    BY <2>1, <2>2 DEF NoAssigning, Assigning
  <2> QED  BY <1>1, <1>2, <2>1, <2>3 DEF tables, TypeOfMatching, Reading
<1>4. ASSUME NEW t \in Teams, NEW b \in Briefs, ReadTeam(t, b)
      PROVE  /\ Good(team', own') /\ Rises(team') /\ TypeOfMatching' /\ Reading'
             /\ UNCHANGED <<matching, person>>
  <2> DEFINE teams == View("matching")
             taken == {u \in Teams : /\ teams[u].brief = b
                                     /\ teams[u].status \notin {"absent", "deleted"}}
             found == /\ teams[t].status \notin {"absent", "deleted"}
                      /\ teams[t].brief = Null /\ Cardinality(taken) < MaxTeams
  <2>1. /\ UNCHANGED <<places, matching, matched>> /\ assigning.reading = <<>>
        /\ assigning' = IF found THEN [assigning EXCEPT !.reading = <<t, b>>,
                                                        !.status = teams[t].status]
                        ELSE [assigning EXCEPT !.todo = @ \ {<<t, b>>}]
    BY <1>4 DEF ReadTeam
  <2>2. "matching" \in Finalizers  BY DEF Finalizers
  <2>3. teams[t] \in Team  BY <2>2, SeenRow
  <2>4. CASE found
    <3>1. teams[t].status \in {"forming", "active", "disqualified"}
      BY <2>3, <2>4 DEF Team
    <3>2. team[t].status # "absent"
      <4>1. own["matching"][t] # Null => team[t].status # "absent"  BY DEF Good
      <4> QED  BY <3>1, <4>1 DEF View
    <3>3. /\ assigning' \in Assigning /\ assigning'.reading = <<t, b>>
          /\ assigning'.status = teams[t].status
      <4> HIDE DEF teams, found
      <4>1. <<t, b>> \in Pairs  BY DEF Pairs
      <4> QED  BY <1>1, <2>1, <2>4, <3>1, <4>1 DEF Assigning
    <3>4. Reading'
      <4>1. assigning'.status # ""  BY <3>1, <3>3
      <4>2. <<t, b>>[1] = t /\ team' = team  BY <2>1 DEF places, tables
      <4> HIDE DEF teams, found
      <4> QED  BY <3>2, <3>3, <4>1, <4>2 DEF Reading
    <3> HIDE DEF teams, found
    <3> QED  BY <1>1, <1>2, <2>1, <3>3, <3>4 DEF places, tables, TypeOfMatching
  <2>5. CASE ~ found
    <3>1. assigning' \in Assigning /\ assigning'.reading = <<>>
      <4> HIDE DEF teams, found
      <4> QED  BY <1>1, <2>1, <2>5 DEF Assigning
    <3> QED  BY <1>1, <1>2, <2>1, <3>1 DEF places, tables, TypeOfMatching, Reading
  <2> QED  BY <2>4, <2>5
<1>5. ASSUME NEW t \in Teams, NEW b \in Briefs, WriteTeam(t, b)
      PROVE  /\ Good(team', own') /\ Rises(team') /\ TypeOfMatching' /\ Reading'
             /\ UNCHANGED <<matching, person>>
  <2>1. /\ UNCHANGED <<person, team, matching, matched>>
        /\ assigning' = [assigning EXCEPT !.reading = <<>>, !.status = "",
                                          !.todo = @ \ {<<t, b>>}]
    BY <1>5 DEF WriteTeam
  <2>2. assigning' \in Assigning /\ assigning'.reading = <<>>
    BY <1>1, <2>1 DEF Assigning
  <2>3. Good(team, own')  BY <1>5, WriteTeamStep
  <2> QED  BY <1>1, <1>2, <2>1, <2>2, <2>3 DEF TypeOfMatching, Reading
<1>6. CASE CommitAssigning
  <2>1. /\ team' = View("matching") /\ own' = [own EXCEPT !["matching"] = NoWrites]
        /\ matched' = Null /\ assigning' = NoAssigning /\ UNCHANGED <<person, matching>>
    BY <1>6 DEF CommitAssigning
  <2>2. "matching" \in Finalizers  BY DEF Finalizers
  <2>3. team' = Seen(team, own, "matching")  BY <2>1, <2>2, SeenRow
  <2>4. Good(team', own') /\ Rises(team')  BY <2>1, <2>2, <2>3, Committed DEF Rises
  <2> QED  BY <1>1, <2>1, <2>4, NoAssigningType DEF TypeOfMatching, Reading
<1>7. CASE AbortAssigning
  <2>1. /\ own' = [own EXCEPT !["matching"] = NoWrites]
        /\ matched' \in {matched, Null} /\ assigning' = NoAssigning
        /\ UNCHANGED <<person, team, matching>>
    BY <1>7 DEF AbortAssigning
  <2>2. Good(team, own')  BY <2>1, RollBack DEF Finalizers
  <2> QED  BY <1>1, <1>2, <2>1, <2>2, NoAssigningType DEF TypeOfMatching, Reading
<1> QED  BY <1>3, <1>4, <1>5, <1>6, <1>7 DEF FinalizeMatching

LEMMA RunMatchingStep ==
  ASSUME TypeOfMatching, Greedy, Reading, RunMatching
  PROVE  TypeOfMatching' /\ Greedy' /\ Reading' /\ UNCHANGED tables
<1>1. /\ matching \in Matching /\ matched \in (SUBSET Pairs) \cup {Null}
      /\ assigning \in Assigning
  BY DEF TypeOfMatching
<1>2. UNCHANGED <<tables, assigning>>
  BY DEF RunMatching, ReadTeams, ReadBriefs, Pick, EndMatching, Calling, places
<1>3. Reading'  BY <1>2 DEF Reading, tables
<1>4. CASE EndMatching
  <2>1. /\ matching' = NoMatching
        /\ matched' = {<<c.team, c.brief>> : c \in matching.pairs}
    BY <1>4 DEF EndMatching
  <2>2. matched' \in SUBSET Pairs
    <3>1. \A c \in matching.pairs : c.team \in Teams /\ c.brief \in Briefs
      BY <1>1 DEF Matching, Candidate
    <3> QED  BY <2>1, <3>1 DEF Pairs
  <2>3. Greedy'
    <3>1. ASSUME matching' = NoMatching PROVE Greedy'
      <4>1. /\ matching'.step = "idle" /\ matching'.all = {} /\ matching'.left = {}
            /\ matching'.pairs = {} /\ matching'.room = [b \in Briefs |-> 0]
        BY <3>1 DEF NoMatching
      <4>2. \A b \in Briefs : Cardinality(On(b)') <= matching'.room[b]
        <5>1. \A b \in Briefs : On(b)' = {} /\ matching'.room[b] = 0  BY <4>1 DEF On
        <5> QED  BY <5>1, FS_EmptySet
      <4> QED  BY <4>1, <4>2, FS_EmptySet DEF Greedy, StableMatching
    <3> QED  BY <2>1, <3>1
  <2> QED  BY <1>1, <1>2, <1>3, <2>1, <2>2, <2>3, NoMatchingType DEF TypeOfMatching
<1>5. CASE ~ EndMatching
  <2>1. matching' \in Matching /\ Greedy' /\ matched' = matched
    <3>1. CASE ReadTeams  BY <1>1, <3>1, ReadTeamsStep DEF ReadTeams
    <3>2. CASE \E score \in [matching.teams \X Briefs -> Scores],
                 most \in {MaxTeams} \cup Limits : ReadBriefs(score, most)
      BY <1>1, <3>2, ReadBriefsStep DEF ReadBriefs
    <3>3. CASE \E c \in matching.left : Pick(c)  BY <1>1, <3>3, PickStep DEF Pick
    <3> QED  BY <1>5, <3>1, <3>2, <3>3 DEF RunMatching
  <2> QED  BY <1>1, <1>2, <1>3, <2>1 DEF TypeOfMatching
<1> QED  BY <1>4, <1>5

-----------------------------------------------------------------------------
(* A run of formation.                                                      *)

\* Proposals that can be carried out on the tables.
Usable(P) ==
  /\ P \subseteq Proposal
  /\ \A x \in P : /\ x.kind \in {"backfill", "brief"} => x.team \in Teams
                  /\ x.kind = "brief" => x.brief \in Briefs
FormingHeld(f) ==
  /\ {"all", "left", "proposed"} \subseteq DOMAIN f
  /\ f.all \subseteq Participants /\ f.left \subseteq Participants /\ Usable(f.proposed)
FormInv == /\ FormingHeld(forming)
           /\ preview # Null => Usable(preview.proposed)
           /\ founding \in Founding /\ Usable(founding.todo)

LEMMA UsableMore ==
  ASSUME NEW P, Usable(P), NEW x \in Proposal,
         x.kind \in {"backfill", "brief"} => x.team \in Teams,
         x.kind = "brief" => x.brief \in Briefs
  PROVE  Usable(P \cup {x})
BY DEF Usable

LEMMA NoFormingHeld == FormingHeld(NoForming) /\ Usable({})
BY DEF NoForming, FormingHeld, Usable

\* Fewer people are left over, and a proposal more is made or not.
LEMMA FormingGoesOn ==
  ASSUME FormingHeld(forming), NEW new, {"all", "left", "proposed"} \subseteq DOMAIN new,
         new.all = forming.all, new.left \subseteq forming.left,
         Usable(new.proposed)
  PROVE  FormingHeld(new)
BY DEF FormingHeld

LEMMA ProposalTypes ==
  ASSUME NEW S \in SUBSET Participants
  PROVE  /\ \A t \in Teams : /\ Backfill(t, S) \in Proposal
                             /\ Backfill(t, S).kind = "backfill" /\ Backfill(t, S).team = t
         /\ \A t \in Teams, b \in Briefs :
              /\ BriefFor(t, b) \in Proposal /\ BriefFor(t, b).kind = "brief"
              /\ BriefFor(t, b).team = t /\ BriefFor(t, b).brief = b
         /\ \A k \in {"team", "manual"}, b \in Briefs \cup {Null} :
              NewTeam(k, S, b) \in Proposal /\ NewTeam(k, S, b).kind = k
BY DEF Backfill, BriefFor, NewTeam, Proposal, Kinds

LEMMA GoKeeps ==
  ASSUME FormInv, NEW new, Go(new), FormingHeld(new)
  PROVE  FormInv' /\ UNCHANGED tables
BY DEF FormInv, Go, places

LEMMA ShowKeeps == ASSUME FormInv, Show PROVE FormInv' /\ UNCHANGED tables
<1>1. /\ forming' = NoForming /\ UNCHANGED <<places, founding>>
      /\ preview'.proposed = forming.proposed
  BY DEF Show
<1>2. FormingHeld(forming')  BY <1>1, NoFormingHeld
<1>3. Usable(preview'.proposed)  BY <1>1 DEF FormInv, FormingHeld
<1> QED  BY <1>1, <1>2, <1>3 DEF FormInv, places

LEMMA RunFormationStep ==
  ASSUME FormInv, RunFormation PROVE FormInv' /\ UNCHANGED tables
<1>1. FormingHeld(forming)  BY DEF FormInv
<1>2. /\ {"all", "left", "proposed"} \subseteq DOMAIN forming
      /\ forming.all \subseteq Participants /\ forming.left \subseteq Participants
      /\ Usable(forming.proposed)
  BY <1>1 DEF FormingHeld
<1>3. ASSUME NEW byBrief, NEW force, ReadParticipants(byBrief, force)
      PROVE  FormInv' /\ UNCHANGED tables
  <2> DEFINE all == {p \in Participants : /\ ~ Attached(p) /\ person[p].active
                                    /\ person[p].group \in Pooled}
  <2>1. /\ forming' = [NoForming EXCEPT !.step = "teams", !.byBrief = byBrief,
                          !.force = force, !.all = all, !.left = all]
        /\ UNCHANGED <<tables, preview, founding>>
    BY <1>3 DEF ReadParticipants, Calling
  <2>2. all \subseteq Participants  OBVIOUS
  <2> HIDE DEF all
  <2>3. FormingHeld(forming')
    <3>1. /\ forming'.all = all /\ forming'.left = all /\ forming'.proposed = {}
          /\ {"all", "left", "proposed"} \subseteq DOMAIN forming'
      BY <2>1 DEF NoForming
    <3> QED  BY <2>2, <3>1, NoFormingHeld DEF FormingHeld
  <2> QED  BY <2>1, <2>3 DEF FormInv
<1>4. CASE ReadUndersized
  <2> DEFINE size == [t \in Teams |-> LET n == Cardinality({p \in team[t].members : person[p].active})
                                     IN IF Open(t) /\ n < SizeMax THEN n ELSE Null]
             new == [forming EXCEPT !.step = "backfill", !.size = size]
  <2>1. Go(new)  BY <1>4 DEF ReadUndersized
  <2> HIDE DEF size
  <2>2. FormingHeld(new)  BY <1>1 DEF FormingHeld
  <2> QED  BY <2>1, <2>2, GoKeeps
<1>5. ASSUME NEW t \in Teams, NEW S \in SUBSET Compatible(t), ProposeBackfill(t, S)
      PROVE  FormInv' /\ UNCHANGED tables
  <2> DEFINE proposed == IF S = {} THEN forming.proposed
                         ELSE forming.proposed \cup {Backfill(t, S)}
             new == [forming EXCEPT !.size[t] = Null, !.left = @ \ S, !.proposed = proposed]
  <2>1. Go(new)  BY <1>5 DEF ProposeBackfill
  <2>2. S \in SUBSET Participants  BY <1>2 DEF Compatible
  <2>3. Usable(proposed)  BY <1>2, <2>2, ProposalTypes, UsableMore
  <2> HIDE DEF proposed
  <2>4. FormingHeld(new)  BY <1>2, <2>3 DEF FormingHeld
  <2> QED  BY <2>1, <2>4, GoKeeps
<1>6. CASE EndBackfill
  <2> DEFINE step == IF forming.byBrief THEN "briefs" ELSE "same"
             new == [forming EXCEPT !.step = step]
  <2>1. Go(new)  BY <1>6 DEF EndBackfill
  <2> HIDE DEF step
  <2>2. FormingHeld(new)  BY <1>1 DEF FormingHeld
  <2> QED  BY <2>1, <2>2, GoKeeps
<1>7. CASE ReadBriefLists
  <2> DEFINE waiting == {b \in Briefs : Needs(b) /\ \E i \in DOMAIN Verticals : b \in OfVertical(i)}
             open == {b \in Idle : Needs(b)} \cup waiting
             spare == [forming EXCEPT !.step = "spare", !.waiting = waiting, !.open = open]
  <2>1. Go(spare)  BY <1>7 DEF ReadBriefLists
  <2> HIDE DEF waiting, open
  <2>2. FormingHeld(spare)  BY <1>1 DEF FormingHeld
  <2> QED  BY <2>1, <2>2, GoKeeps
<1>8. ASSUME NEW suits \in Suits, ReadSpareTeams(suits)
      PROVE  FormInv' /\ UNCHANGED tables
  <2> DEFINE again == [NoForming EXCEPT !.step = "teams", !.force = forming.force,
                                        !.all = forming.all, !.left = forming.all]
             idle == {x \in suits : Open(x[1]) /\ team[x[1]].brief = Null}
             on == [forming EXCEPT !.step = "round", !.spare = idle]
  <2>1. Go(again) \/ Go(on)  BY <1>8 DEF ReadSpareTeams
  <2> HIDE DEF idle
  <2>2. FormingHeld(on)  BY <1>1 DEF FormingHeld
  <2>3. FormingHeld(again)
    <3>1. /\ again.all = forming.all /\ again.left = forming.all /\ again.proposed = {}
          /\ {"all", "left", "proposed"} \subseteq DOMAIN again
      BY DEF NoForming
    <3> HIDE DEF again
    <3> QED  BY <1>2, <3>1, NoFormingHeld DEF FormingHeld
  <2> HIDE DEF again, on
  <2> QED  BY <2>1, <2>2, <2>3, GoKeeps
<1>9. ASSUME NEW b \in Briefs, NEW t \in Teams, GiveToTeam(t, b)
      PROVE  FormInv' /\ UNCHANGED tables
  <2> DEFINE proposed == forming.proposed \cup {BriefFor(t, b)}
             new == [Passed(b) EXCEPT !.progress = TRUE, !.open = @ \ {b},
                       !.spare = {x \in @ : x[1] # t}, !.proposed = @ \cup {BriefFor(t, b)}]
  <2>1. Go(new)  BY <1>9 DEF GiveToTeam
  <2>2. Usable(proposed)  BY <1>2, ProposalTypes, UsableMore
  <2>3. /\ {"all", "left", "proposed"} \subseteq DOMAIN new
        /\ new.all = forming.all /\ new.left = forming.left /\ new.proposed = proposed
    BY <1>2 DEF Passed
  <2> HIDE DEF new, proposed
  <2>4. FormingHeld(new)  BY <1>1, <2>2, <2>3, FormingGoesOn
  <2> QED  BY <2>1, <2>4, GoKeeps
<1>10. ASSUME NEW b \in Briefs, NEW S \in SUBSET forming.left, GiveToNewTeam(S, b)
       PROVE  FormInv' /\ UNCHANGED tables
  <2> DEFINE proposed == forming.proposed \cup {NewTeam("team", S, b)}
             new == [Passed(b) EXCEPT !.progress = TRUE, !.open = @ \ {b},
                       !.left = @ \ S, !.proposed = @ \cup {NewTeam("team", S, b)}]
  <2>1. Go(new)  BY <1>10 DEF GiveToNewTeam
  <2>2. S \in SUBSET Participants  BY <1>2
  <2>3. Usable(proposed)  BY <1>2, <2>2, ProposalTypes, UsableMore
  <2>4. /\ {"all", "left", "proposed"} \subseteq DOMAIN new
        /\ new.all = forming.all /\ new.left \subseteq forming.left /\ new.proposed = proposed
    BY <1>2 DEF Passed
  <2> HIDE DEF new, proposed
  <2>5. FormingHeld(new)  BY <1>1, <2>3, <2>4, FormingGoesOn
  <2> QED  BY <2>1, <2>5, GoKeeps
<1>11. ASSUME NEW b \in Briefs, PassOver(b) PROVE FormInv' /\ UNCHANGED tables
  <2>1. Go(Passed(b))  BY <1>11 DEF PassOver
  <2>2. FormingHeld(Passed(b))  BY <1>1 DEF FormingHeld, Passed
  <2> QED  BY <2>1, <2>2, GoKeeps
<1>12. CASE SkipVertical
  <2> DEFINE new == [forming EXCEPT !.vertical = @ + 1]
  <2>1. Go(new)  BY <1>12 DEF SkipVertical
  <2>2. FormingHeld(new)  BY <1>1 DEF FormingHeld
  <2> QED  BY <2>1, <2>2, GoKeeps
<1>13. CASE EndRound
  <2> DEFINE new == [forming EXCEPT !.vertical = 1, !.progress = FALSE]
  <2>1. Go(new) \/ Show  BY <1>13 DEF EndRound
  <2>2. FormingHeld(new)  BY <1>1 DEF FormingHeld
  <2> QED  BY <2>1, <2>2, GoKeeps, ShowKeeps
<1>14. ASSUME NEW S \in SUBSET forming.left, FormTeam(S) PROVE FormInv' /\ UNCHANGED tables
  <2> DEFINE proposed == forming.proposed \cup {NewTeam("team", S, Null)}
             new == [forming EXCEPT !.left = @ \ S, !.proposed = proposed]
  <2>1. Go(new)  BY <1>14 DEF FormTeam
  <2>2. S \in SUBSET Participants  BY <1>2
  <2>3. Usable(proposed)  BY <1>2, <2>2, ProposalTypes, UsableMore
  <2> HIDE DEF proposed
  <2>4. FormingHeld(new)  BY <1>2, <2>3 DEF FormingHeld
  <2> QED  BY <2>1, <2>4, GoKeeps
<1>15. CASE EndPhase
  <2> DEFINE new(s) == [forming EXCEPT !.step = s]
  <2>1. Go(new("cross")) \/ Go(new("mixed")) \/ Show
    <3>1. forming.step \in Phases  BY <1>15 DEF EndPhase, NothingToForm
    <3> QED  BY <1>15, <3>1 DEF EndPhase, In, Phases
  <2>2. FormingHeld(new("cross")) /\ FormingHeld(new("mixed"))  BY <1>1 DEF FormingHeld
  <2> QED  BY <2>1, <2>2, GoKeeps, ShowKeeps
<1> QED
  BY <1>3, <1>4, <1>5, <1>6, <1>7, <1>8, <1>9, <1>10, <1>11, <1>12, <1>13, <1>14, <1>15
  DEF RunFormation

-----------------------------------------------------------------------------
(* The finalization of formation.                                           *)

LEMMA BeginFoundingStep ==
  ASSUME FormInv, NEW excluded \in Excluded, NEW manual \in Manual,
         BeginFounding(excluded, manual)
  PROVE  FormInv' /\ UNCHANGED tables
<1> DEFINE without(x) == [x EXCEPT !.members = @ \ excluded]
           stays(x) == CASE x.kind = "backfill" -> x.members # {}
                         [] x.kind = "brief" -> TRUE
                         [] x.kind = "team" -> Cardinality(x.members) >= SizeMin
           added == IF manual = {} THEN {} ELSE {NewTeam("manual", manual, Null)}
           kept == {x \in {without(y) : y \in preview.proposed} : stays(x)}
           todo == kept \cup added
<1>1. /\ preview # Null /\ UNCHANGED <<tables, forming, preview>>
      /\ founding' = [NoFounding EXCEPT !.on = TRUE, !.todo = todo]
  BY DEF BeginFounding, Calling
<1>2. Usable(preview.proposed)  BY <1>1 DEF FormInv
<1>3. \A y \in preview.proposed :
        /\ without(y) \in Proposal /\ without(y).kind = y.kind
        /\ without(y).team = y.team /\ without(y).brief = y.brief
  BY <1>2 DEF Usable, Proposal
<1> HIDE DEF without, stays
<1>4. Usable(kept)  BY <1>2, <1>3 DEF Usable
<1>5. manual \in SUBSET Participants  BY VerticalsAssumption
<1>6. \A x \in added : x \in Proposal /\ x.kind = "manual"  BY <1>5, ProposalTypes
<1> HIDE DEF kept, added
<1>7. Usable(todo)  BY <1>4, <1>6 DEF Usable
<1> HIDE DEF todo
<1>8. founding' \in Founding /\ founding'.todo = todo
  BY <1>1, <1>7 DEF NoFounding, Founding, Usable
<1>9. Usable(founding'.todo)  BY <1>7, <1>8
<1> QED  BY <1>1, <1>8, <1>9 DEF FormInv

LEMMA DoneKeeps ==
  ASSUME FormInv, NEW x, NEW failed \in BOOLEAN, Done(x, failed)
  PROVE  FormInv' /\ UNCHANGED <<team, person>>
<1>1. /\ founding' = [founding EXCEPT !.todo = @ \ {x}, !.aborted = failed]
      /\ UNCHANGED <<person, team, forming, preview>>
  BY DEF Done
<1>2. /\ founding' \in Founding
      /\ founding'.todo = founding.todo \ {x}
  BY <1>1 DEF FormInv, Founding
<1>3. Usable(founding'.todo)  BY <1>2 DEF FormInv, Usable
<1> QED  BY <1>1, <1>2, <1>3 DEF FormInv

LEMMA MatchingFree ==
  ASSUME NEW t \in Teams, TeamFree("formation", t)
  PROVE  \A g \in Finalizers \ {"formation"} : own[g][t] = Null
BY DEF TeamFree

LEMMA NoFoundingHeld == NoFounding \in Founding /\ Usable(NoFounding.todo)
BY DEF NoFounding, Founding, Usable

LEMMA FinalizeFormationStep ==
  ASSUME Good(team, own), person \in [Participants -> Person], FormInv, FinalizeFormation
  PROVE  Good(team', own') /\ Rises(team') /\ FormInv' /\ person' = person
<1> DEFINE m == View("formation")
<1>1. /\ "formation" \in Finalizers /\ m = Seen(team, own, "formation")
      /\ m \in [Teams -> Team]
      /\ \A t \in Teams : team[t].status # "absent" => m[t].status # "absent"
  BY SeenRow DEF Finalizers
<1>2. Rises(team)  BY DEF Rises
<1>3. \A x \in founding.todo :
        /\ x \in Proposal
        /\ x.kind \in {"backfill", "brief"} => x.team \in Teams
        /\ x.kind = "brief" => x.brief \in Briefs
  BY DEF FormInv, Usable
<1>4. ASSUME NEW excluded \in Excluded, NEW manual \in Manual, BeginFounding(excluded, manual)
      PROVE  Good(team', own') /\ Rises(team') /\ FormInv' /\ person' = person
  BY <1>2, <1>4, BeginFoundingStep DEF tables
<1>5. ASSUME NEW x \in founding.todo, ApplyBackfill(x)
      PROVE  Good(team', own') /\ Rises(team') /\ FormInv' /\ person' = person
  <2> DEFINE t == x.team
             clash == x.members \cap (m[t].members \cup m[t].pending) # {}
             row == [m[t] EXCEPT !.pending = @ \cup x.members]
  <2>1. /\ TeamFree("formation", t) /\ Done(x, clash)
        /\ own' = IF clash THEN own ELSE [own EXCEPT !["formation"][t] = row]
        /\ x.kind = "backfill"
    BY <1>5 DEF ApplyBackfill, Write
  <2>2. t \in Teams /\ x.members \in SUBSET Participants  BY <1>3, <2>1 DEF Proposal
  <2>3. m[t] \in Team  BY <1>1, <2>2
  <2>4. FormInv' /\ team' = team /\ person' = person  BY <2>1, DoneKeeps
  <2>5. CASE clash  BY <1>2, <2>1, <2>4, <2>5
  <2>6. CASE ~ clash
    <3> HIDE DEF m, t
    <3>1. row \in Team /\ row.status = m[t].status /\ row.brief = m[t].brief
      BY <2>2, <2>3 DEF Team
    <3>2. own' = [own EXCEPT !["formation"][t] = row]  BY <2>1, <2>6
    <3> HIDE DEF row
    <3>3. \A b \in Briefs : AtWork(row, b) => AtWork(Seen(team, own, "formation")[t], b)
      BY <1>1, <3>1 DEF AtWork
    <3>4. team[t].status # "absent" => row.status # "absent"  BY <1>1, <2>2, <3>1
    <3>5. \A g \in Finalizers \ {"formation"} : own[g][t] = Null  BY <2>1, <2>2, MatchingFree
    <3>6. Good(team, own')  BY <1>1, <2>2, <3>1, <3>2, <3>3, <3>4, <3>5, FinalizerWrites
    <3> QED  BY <1>2, <2>4, <3>6
  <2> QED  BY <2>5, <2>6
<1>6. ASSUME NEW x \in founding.todo, ApplyBrief(x)
      PROVE  Good(team', own') /\ Rises(team') /\ FormInv' /\ person' = person
  <2> DEFINE t == x.team
             b == x.brief
             row == [m[t] EXCEPT !.brief = b]
             teams == [m EXCEPT ![t].brief = b]
             accepted == BriefAccepted(teams, t)
  <2>1. /\ TeamFree("formation", t) /\ BriefFree("formation", b) /\ Done(x, ~ accepted)
        /\ own' = IF accepted THEN [own EXCEPT !["formation"][t] = teams[t]] ELSE own
        /\ x.kind = "brief"
    BY <1>6 DEF ApplyBrief, Write
  <2>2. t \in Teams /\ b \in Briefs  BY <1>3, <2>1
  <2>3. m[t] \in Team  BY <1>1, <2>2
  <2>4. FormInv' /\ team' = team /\ person' = person
    <3> HIDE DEF accepted
    <3>1. (~ accepted) \in BOOLEAN  OBVIOUS
    <3> QED  BY <2>1, <3>1, DoneKeeps
  <2>5. CASE ~ accepted  BY <1>2, <2>1, <2>4, <2>5
  <2>6. CASE accepted
    <3> HIDE DEF m, t, b
    <3>1. row \in Team /\ row.status = m[t].status /\ row.brief = b
      BY <2>2, <2>3 DEF Team
    <3>2. teams = [m EXCEPT ![t] = row] /\ teams[t] = row  BY <1>1, <2>2
    <3> HIDE DEF row, teams
    <3>3. own' = [own EXCEPT !["formation"][t] = row]  BY <2>1, <2>6, <3>2
    <3>4. \A c \in Briefs : AtWork(row, c) => c = b  BY <3>1 DEF AtWork
    <3>5. BriefAccepted([Seen(team, own, "formation") EXCEPT ![t] = row], t)
      BY <1>1, <2>6, <3>2
    <3>6. \A c \in Briefs : AtWork(row, c) =>
            \/ AtWork(Seen(team, own, "formation")[t], c)
            \/ /\ BriefAccepted([Seen(team, own, "formation") EXCEPT ![t] = row], t)
               /\ BriefFree("formation", c)
      BY <2>1, <3>4, <3>5
    <3>7. team[t].status # "absent" => row.status # "absent"  BY <1>1, <2>2, <3>1
    <3>8. \A g \in Finalizers \ {"formation"} : own[g][t] = Null  BY <2>1, <2>2, MatchingFree
    <3>9. Good(team, own')  BY <1>1, <2>2, <3>1, <3>3, <3>6, <3>7, <3>8, FinalizerWrites
    <3> QED  BY <1>2, <2>4, <3>9
  <2> QED  BY <2>5, <2>6
<1>7. ASSUME NEW x \in founding.todo, NEW t \in Teams, NEW lead \in x.members,
             ApplyTeam(x, t, lead)
      PROVE  Good(team', own') /\ Rises(team') /\ FormInv' /\ person' = person
  <2> DEFINE row == [status |-> "active", group |-> person[lead].group, brief |-> x.brief,
                     members |-> x.members, pending |-> {}]
             teams == [m EXCEPT ![t] = row]
  <2>1. /\ team[t].status = "absent" /\ Done(x, FALSE) /\ Create(x, t, row)
        /\ x.brief # Null => BriefFree("formation", x.brief)
    BY <1>7 DEF ApplyTeam
  <2>2. row \in Team /\ row.status = "active" /\ row.brief = x.brief
    <3>1. x.members \in SUBSET Participants /\ x.brief \in Briefs \cup {Null}
      BY <1>3 DEF Proposal
    <3>2. person[lead].group \in Groups \cup {Null}  BY <3>1 DEF Person
    <3> QED  BY <3>1, <3>2 DEF Team
  <2>3. FormInv' /\ team' = team /\ person' = person  BY <2>1, DoneKeeps
  <2> HIDE DEF row
  <2>4. own' = own \/ (own' = [own EXCEPT !["formation"][t] = row] /\ BriefAccepted(teams, t))
    BY <2>1 DEF Create, Write
  <2>5. CASE own' = own  BY <1>2, <2>3, <2>5
  <2>6. CASE own' = [own EXCEPT !["formation"][t] = row] /\ BriefAccepted(teams, t)
    <3>1. \A g \in Finalizers \ {"formation"} : own[g][t] = Null
      BY <2>1 DEF Good, Finalizers
    <3>2. \A c \in Briefs : AtWork(row, c) => BriefFree("formation", c)
      BY <2>1, <2>2, PlaceAssumption DEF AtWork
    <3> HIDE DEF m
    <3>3. BriefAccepted([Seen(team, own, "formation") EXCEPT ![t] = row], t)  BY <1>1, <2>6
    <3>4. Good(team, own')
      BY <1>1, <2>1, <2>2, <2>6, <3>1, <3>2, <3>3, FinalizerWrites
    <3> QED  BY <1>2, <2>3, <3>4
  <2> QED  BY <2>4, <2>5, <2>6
<1>8. CASE CommitFounding
  <2>1. /\ team' = IF founding.aborted THEN team ELSE m
        /\ own' = [own EXCEPT !["formation"] = NoWrites]
        /\ preview' = Null /\ founding' = NoFounding /\ UNCHANGED <<person, forming>>
    BY <1>8 DEF CommitFounding
  <2>2. FormInv'  BY <2>1, NoFoundingHeld DEF FormInv
  <2>3. Good(team', own') /\ Rises(team')
    <3> HIDE DEF m
    <3>1. CASE founding.aborted  BY <1>1, <1>2, <2>1, <3>1, RollBack
    <3>2. CASE ~ founding.aborted  BY <1>1, <2>1, <3>2, Committed DEF Rises
    <3> QED  BY <3>1, <3>2
  <2> QED  BY <2>1, <2>2, <2>3
<1>9. CASE AbortFounding
  <2>1. /\ own' = [own EXCEPT !["formation"] = NoWrites] /\ preview' \in {preview, Null}
        /\ founding' = NoFounding /\ UNCHANGED <<person, team, forming>>
    BY <1>9 DEF AbortFounding
  <2>2. FormInv'  BY <2>1, NoFoundingHeld DEF FormInv
  <2>3. Good(team, own')  BY <1>1, <2>1, RollBack
  <2> QED  BY <1>2, <2>1, <2>2, <2>3
<1> QED  BY <1>4, <1>5, <1>6, <1>7, <1>8, <1>9 DEF FinalizeFormation

-----------------------------------------------------------------------------
(* The theorems.                                                            *)

PlacesInv == /\ Good(team, own) /\ person \in [Participants -> Person]
             /\ TypeOfMatching /\ Greedy /\ Reading /\ FormInv

LEMMA InitPlacesInv == ASSUME Init PROVE PlacesInv
<1>1. /\ person \in People /\ team \in Start
      /\ own = [f \in Finalizers |-> NoWrites]
      /\ matching = NoMatching /\ matched = Null /\ assigning = NoAssigning
      /\ forming = NoForming /\ preview = Null /\ founding = NoFounding
  BY DEF Init, InitPlaces, InitMatching, InitFormation
<1>2. team \in [Teams -> Team] /\ person \in [Participants -> Person]
  BY <1>1, StartAssumption
<1>3. Fits(team)  BY <1>1, CapacityAssumption DEF Fits
<1>4. \A f \in Finalizers, t \in Teams : own[f][t] = Null  BY <1>1 DEF NoWrites
<1>5. own \in Owned  BY <1>1 DEF Owned, NoWrites
<1>6. \A f \in Finalizers : Seen(team, own, f) = team  BY <1>2, <1>4 DEF Seen
<1>7. \A f \in Finalizers : Fits(Seen(team, own, f))  BY <1>3, <1>6
<1>8. Good(team, own)  BY <1>2, <1>3, <1>4, <1>5, <1>7 DEF Good, Adds, Finalizers
<1>9. TypeOfMatching  BY <1>1, NoMatchingType, NoAssigningType DEF TypeOfMatching
<1>10. Reading  BY <1>1, NoAssigningType DEF Reading
<1>11. FormInv  BY <1>1, NoFormingHeld, NoFoundingHeld DEF FormInv
<1> QED  BY <1>1, <1>2, <1>8, <1>9, <1>10, <1>11, NoMatchingGreedy DEF PlacesInv

\* Matching goes on with what it has read, whatever others do to the teams.
LEMMA MatchingKept ==
  ASSUME TypeOfMatching, Greedy, Reading, UNCHANGED matchVars, Rises(team')
  PROVE  TypeOfMatching' /\ Greedy' /\ Reading'
<1>1. UNCHANGED <<matching, matched, assigning>>  BY DEF matchVars
<1>2. Reading'
  <2>1. SUFFICES ASSUME assigning.reading # <<>>
                 PROVE  assigning.status # "" /\ team'[assigning.reading[1]].status # "absent"
    BY <1>1 DEF Reading
  <2>2. assigning.reading \in Teams \X Briefs
    BY <2>1 DEF TypeOfMatching, Assigning, Pairs
  <2> QED  BY <2>1, <2>2 DEF Reading, Rises
<1> QED  BY <1>1, <1>2 DEF TypeOfMatching, Greedy, StableMatching, On

LEMMA FormationKept == ASSUME FormInv, UNCHANGED formVars PROVE FormInv'
BY DEF FormInv, formVars

LEMMA NextPlacesInv == ASSUME PlacesInv, [Next]_vars PROVE PlacesInv'
<1> USE DEF PlacesInv
<1>1. CASE RunMatching /\ UNCHANGED formVars
  <2>1. TypeOfMatching' /\ Greedy' /\ Reading' /\ UNCHANGED tables
    BY <1>1, RunMatchingStep
  <2> QED  BY <1>1, <2>1, FormationKept DEF tables
<1>2. CASE RunFormation /\ UNCHANGED matchVars
  <2>1. FormInv' /\ UNCHANGED tables  BY <1>2, RunFormationStep
  <2>2. Rises(team')  BY <2>1 DEF Rises, tables
  <2> QED  BY <1>2, <2>1, <2>2, MatchingKept DEF tables
<1>3. CASE Others /\ UNCHANGED <<matchVars, formVars>>
  BY <1>3, OthersStep, MatchingKept, FormationKept
<1>4. CASE FinalizeMatching /\ UNCHANGED formVars
  <2>1. /\ Good(team', own') /\ TypeOfMatching' /\ Reading' /\ UNCHANGED <<matching, person>>
    BY <1>4, FinalizeMatchingStep
  <2>2. Greedy'  BY <2>1 DEF Greedy, StableMatching, On
  <2> QED  BY <1>4, <2>1, <2>2, FormationKept
<1>5. CASE FinalizeFormation /\ UNCHANGED matchVars
  BY <1>5, FinalizeFormationStep, MatchingKept
<1>6. CASE UNCHANGED vars
  <2>1. UNCHANGED <<matchVars, formVars, tables>>  BY <1>6 DEF vars, places
  <2>2. Rises(team')  BY <2>1 DEF Rises, tables
  <2> QED  BY <2>1, <2>2, MatchingKept, FormationKept DEF tables
<1> QED  BY <1>1, <1>2, <1>3, <1>4, <1>5, <1>6 DEF Next

\* What open finalizations have written fits the tables at every time, and what a
\* run of matching has picked so far is the best of what it has looked at.
THEOREM PlacesHold == Spec => []PlacesInv
<1>1. Init => PlacesInv  BY InitPlacesInv
<1>2. PlacesInv /\ [Next]_vars => PlacesInv'  BY NextPlacesInv
<1> QED  BY <1>1, <1>2, PTL DEF Spec

\* No brief has more working teams than places, although the two finalizations hold
\* different advisory locks and previews that are half an hour old, and staff assign
\* briefs meanwhile.
THEOREM BriefsFit == Spec => []NoBriefOverbooked
<1>1. PlacesInv => NoBriefOverbooked  BY DEF PlacesInv, Good, Fits, NoBriefOverbooked
<1> QED  BY <1>1, PlacesHold, PTL

\* Greedy assignment by score never passes over a pair in favour of a worse one.
THEOREM GreedyIsStable == Spec => []StableMatching
<1>1. PlacesInv => StableMatching  BY DEF PlacesInv, Greedy
<1> QED  BY <1>1, PlacesHold, PTL

-----------------------------------------------------------------------------
(* Members.                                                                 *)

Here(row) == row.status \notin {"absent", "deleted"}
OneGroup(row) ==
  Here(row) => \A p \in row.members \cup row.pending : person[p].group = row.group
Apart(teams) == \A t, u \in Teams : t # u /\ Here(teams[t]) /\ Here(teams[u]) =>
                  teams[t].members \cap teams[u].members = {}
Alike(r, q) == /\ r.members = q.members /\ r.group = q.group
               /\ r.status = "deleted" <=> q.status = "deleted"

\* An open finalization holds a team with the members that others see; only
\* formation brings new teams, and they are apart from all others.
Placed(teams, w) ==
  /\ \A t \in Teams : teams[t].status = "absent" =>
                        teams[t].members = {} /\ teams[t].pending = {}
  /\ \A t \in Teams : OneGroup(teams[t])
  /\ \A f \in Finalizers, t \in Teams : w[f][t] # Null =>
       /\ w[f][t].status # "absent" /\ OneGroup(w[f][t])
       /\ teams[t].status # "absent" => Alike(w[f][t], teams[t])
  /\ Apart(Seen(teams, w, "formation"))

\* Teams stay in their group.
Stays(n) == \A t \in Teams : team[t].status # "absent" =>
              n[t].status # "absent" /\ n[t].group = team[t].group

LEMMA TeamsApart ==
  ASSUME Placed(team, own), Good(team, own)
  PROVE  /\ Apart(team)
         /\ \A t, u \in Teams : t # u /\ Here(team[t]) /\ Here(View("formation")[u])
              => team[t].members \cap View("formation")[u].members = {}
<1> DEFINE V == Seen(team, own, "formation")
<1>1. "formation" \in Finalizers /\ View("formation") = V  BY SeenRow DEF Finalizers
<1>2. ASSUME NEW t \in Teams, Here(team[t])
      PROVE  Here(V[t]) /\ V[t].members = team[t].members
  <2>1. CASE own["formation"][t] = Null  BY <1>2, <2>1 DEF Seen
  <2>2. CASE own["formation"][t] # Null
    BY <1>1, <1>2, <2>2 DEF Seen, Placed, Alike, Here
  <2> QED  BY <2>1, <2>2
<1>3. Apart(V)  BY DEF Placed
<1> HIDE DEF V
<1> QED  BY <1>1, <1>2, <1>3 DEF Apart

\* A leader or staff writes a team that no finalization has written.
LEMMA StaffPlaces ==
  ASSUME Placed(team, own), Good(team, own), NEW t \in Teams, TeamFree("staff", t),
         NEW row \in Team, NEW n, n = [team EXCEPT ![t] = row],
         row.status # "absent", OneGroup(row),
         Here(row) => \A u \in Teams \ {t} : Here(View("formation")[u]) =>
                        row.members \cap View("formation")[u].members = {}
  PROVE  Placed(n, own)
<1>1. n[t] = row /\ \A u \in Teams \ {t} : n[u] = team[u]  BY OwnRows
<1>2. \A f \in Finalizers : own[f][t] = Null  BY StaffFree
<1>3. \A u \in Teams : n[u].status = "absent" => n[u].members = {} /\ n[u].pending = {}
  BY <1>1 DEF Placed
<1>4. \A u \in Teams : OneGroup(n[u])  BY <1>1 DEF Placed
<1>5. \A f \in Finalizers, u \in Teams : own[f][u] # Null => n[u] = team[u]
  BY <1>1, <1>2
<1>6. \A f \in Finalizers, u \in Teams : own[f][u] # Null =>
        /\ own[f][u].status # "absent" /\ OneGroup(own[f][u])
        /\ n[u].status # "absent" => Alike(own[f][u], n[u])
  BY <1>5 DEF Placed
<1>7. Apart(Seen(n, own, "formation"))
  <2> DEFINE V == View("formation")
             W == Seen(n, own, "formation")
  <2>1. "formation" \in Finalizers  BY DEF Finalizers
  <2>2. W[t] = row /\ \A u \in Teams \ {t} : W[u] = V[u]
    BY <1>1, <1>2, <2>1 DEF Seen, View
  <2>3. Apart(V)  BY <2>1, SeenRow DEF Placed
  <2> HIDE DEF V, W
  <2>4. Here(row) => \A u \in Teams \ {t} : Here(V[u]) => row.members \cap V[u].members = {}
    BY DEF V
  <2>5. Apart(W)  BY <2>2, <2>3, <2>4 DEF Apart
  <2> QED  BY <2>5 DEF W
<1> QED  BY <1>3, <1>4, <1>6, <1>7 DEF Placed

\* A finalization writes a team.
LEMMA FinalizerPlaces ==
  ASSUME Placed(team, own), Good(team, own), NEW f \in Finalizers, NEW t \in Teams,
         NEW row \in Team, NEW w, w = [own EXCEPT ![f][t] = row],
         row.status # "absent", OneGroup(row),
         team[t].status # "absent" => Alike(row, team[t]),
         team[t].status = "absent" =>
           \A u \in Teams \ {t} : Here(View("formation")[u]) =>
             row.members \cap View("formation")[u].members = {}
  PROVE  Placed(team, w)
<1>1. row # Null  BY PlaceAssumption
<1>2. /\ w[f][t] = row /\ \A u \in Teams \ {t} : w[f][u] = own[f][u]
      /\ \A g \in Finalizers \ {f} : w[g] = own[g]
  BY OwnRows DEF Owned
<1>3. \A g \in Finalizers, u \in Teams : w[g][u] # Null =>
        /\ w[g][u].status # "absent" /\ OneGroup(w[g][u])
        /\ team[u].status # "absent" => Alike(w[g][u], team[u])
  <2> TAKE g \in Finalizers, u \in Teams
  <2>1. CASE g = f /\ u = t  BY <1>2, <2>1
  <2>2. CASE ~ (g = f /\ u = t)
    <3>1. w[g][u] = own[g][u]  BY <1>2, <2>2
    <3> QED  BY <3>1 DEF Placed
  <2> QED  BY <2>1, <2>2
<1>4. Apart(Seen(team, w, "formation"))
  <2> DEFINE V == View("formation")
             W == Seen(team, w, "formation")
  <2>1. "formation" \in Finalizers  BY DEF Finalizers
  <2>2. V = Seen(team, own, "formation") /\ Apart(V)  BY <2>1, SeenRow DEF Placed
  <2>3. CASE f # "formation"
    <3>1. W = V  BY <1>2, <2>1, <2>2, <2>3 DEF Seen
    <3> QED  BY <2>2, <3>1
  <2>4. CASE f = "formation"
    <3>1. W[t] = row /\ \A u \in Teams \ {t} : W[u] = V[u]
      BY <1>1, <1>2, <2>2, <2>4 DEF Seen
    <3>2. ASSUME Here(row), NEW u \in Teams \ {t}, Here(V[u])
          PROVE  row.members \cap V[u].members = {}
      <4>1. CASE team[t].status = "absent"  BY <3>2, <4>1
      <4>2. CASE team[t].status # "absent"
        <5>1. Here(team[t]) /\ row.members = team[t].members
          BY <3>2, <4>2 DEF Alike, Here
        <5> HIDE DEF V
        <5>2. team[t].members \cap V[u].members = {}
          BY <3>2, <5>1, TeamsApart DEF V
        <5> QED  BY <5>1, <5>2
      <4> QED  BY <4>1, <4>2
    <3> HIDE DEF V, W
    <3>3. Apart(W)  BY <2>2, <3>1, <3>2 DEF Apart
    <3> QED  BY <3>3 DEF W
  <2> QED  BY <2>3, <2>4
<1> QED  BY <1>3, <1>4 DEF Placed

\* A finalization rolls back.
LEMMA RollBackPlaces ==
  ASSUME Placed(team, own), Good(team, own), NEW f \in Finalizers,
         NEW w, w = [own EXCEPT ![f] = NoWrites]
  PROVE  Placed(team, w)
<1>1. \A t \in Teams : NoWrites[t] = Null  BY DEF NoWrites
<1>2. w[f] = NoWrites /\ \A g \in Finalizers \ {f} : w[g] = own[g]
  BY OwnRows DEF Owned
<1>3. \A g \in Finalizers, t \in Teams : w[g][t] # Null => w[g][t] = own[g][t]
  BY <1>1, <1>2
<1>4. \A g \in Finalizers, t \in Teams : w[g][t] # Null =>
        /\ w[g][t].status # "absent" /\ OneGroup(w[g][t])
        /\ team[t].status # "absent" => Alike(w[g][t], team[t])
  BY <1>3 DEF Placed
<1>5. Apart(Seen(team, w, "formation"))
  <2>1. CASE f = "formation"
    <3>1. Seen(team, w, "formation") = team  BY <1>1, <1>2, <2>1, OwnRows DEF Seen
    <3> QED  BY <3>1, TeamsApart
  <2>2. CASE f # "formation"
    <3>1. Seen(team, w, "formation") = Seen(team, own, "formation")
      BY <1>2, <2>2, OwnRows DEF Seen
    <3> QED  BY <3>1 DEF Placed
  <2> QED  BY <2>1, <2>2
<1> QED  BY <1>4, <1>5 DEF Placed

\* A finalization commits.
LEMMA CommittedPlaces ==
  ASSUME Placed(team, own), Good(team, own), NEW f \in Finalizers,
         NEW w, w = [own EXCEPT ![f] = NoWrites], NEW n, n = Seen(team, own, f)
  PROVE  Placed(n, w) /\ Stays(n)
<1>1. \A t \in Teams : NoWrites[t] = Null  BY DEF NoWrites
<1>2. w[f] = NoWrites /\ \A g \in Finalizers \ {f} : w[g] = own[g]
  BY OwnRows DEF Owned
<1>3. \A t \in Teams : n[t] = IF own[f][t] = Null THEN team[t] ELSE own[f][t]
  BY DEF Seen
<1>4. \A t \in Teams : n[t].status = "absent" => n[t].members = {} /\ n[t].pending = {}
  BY <1>3 DEF Placed
<1>5. \A t \in Teams : OneGroup(n[t])  BY <1>3 DEF Placed
<1>6. \A g \in Finalizers, t \in Teams : w[g][t] # Null =>
        g # f /\ w[g][t] = own[g][t] /\ own[f][t] = Null /\ n[t] = team[t]
  BY <1>1, <1>2, <1>3 DEF Good, Finalizers
<1>7. \A g \in Finalizers, t \in Teams : w[g][t] # Null =>
        /\ w[g][t].status # "absent" /\ OneGroup(w[g][t])
        /\ n[t].status # "absent" => Alike(w[g][t], n[t])
  BY <1>6 DEF Placed
<1>8. Apart(Seen(n, w, "formation"))
  <2> DEFINE V == Seen(team, own, "formation")
             W == Seen(n, w, "formation")
  <2>1. Apart(V)  BY DEF Placed
  <2>2. CASE f = "formation"
    <3>1. W = V
      <4>1. \A t \in Teams : w["formation"][t] = Null  BY <1>1, <1>2, <2>2
      <4>2. W = [t \in Teams |-> n[t]]  BY <4>1 DEF Seen
      <4>3. \A t \in Teams : n[t] = V[t]  BY <2>2
      <4> QED  BY <4>2, <4>3 DEF Seen
    <3> QED  BY <2>1, <3>1
  <2>3. CASE f = "matching"
    <3>1. ASSUME NEW t \in Teams PROVE W[t].members = V[t].members /\ (Here(W[t]) <=> Here(V[t]))
      <4>1. w["formation"] = own["formation"]  BY <1>2, <2>3, OwnRows
      <4>2. CASE own["formation"][t] # Null  BY <4>1, <4>2 DEF Seen
      <4>3. CASE own["formation"][t] = Null /\ own[f][t] = Null  BY <1>3, <4>1, <4>3 DEF Seen
      <4>4. CASE own["formation"][t] = Null /\ own[f][t] # Null
        <5>1. W[t] = own[f][t] /\ V[t] = team[t]  BY <1>3, <4>1, <4>4 DEF Seen
        <5>2. team[t].status # "absent"  BY <2>3, <4>4 DEF Good
        <5>3. own[f][t].status # "absent" /\ Alike(own[f][t], team[t])
          BY <4>4, <5>2 DEF Placed
        <5> QED  BY <5>1, <5>2, <5>3 DEF Alike, Here
      <4> QED  BY <4>2, <4>3, <4>4
    <3> HIDE DEF V, W
    <3>2. Apart(W)  BY <2>1, <3>1 DEF Apart
    <3> QED  BY <3>2 DEF W
  <2> QED  BY <2>2, <2>3 DEF Finalizers
<1>9. Stays(n)
  <2> SUFFICES ASSUME NEW t \in Teams, team[t].status # "absent"
               PROVE  n[t].status # "absent" /\ n[t].group = team[t].group
    BY DEF Stays
  <2>1. own[f][t] # Null => own[f][t].status # "absent" /\ Alike(own[f][t], team[t])
    BY DEF Placed
  <2> QED  BY <1>3, <2>1 DEF Alike
<1> QED  BY <1>4, <1>5, <1>7, <1>8, <1>9 DEF Placed

\* Somebody leaves others behind.
LEMMA LeavePlaces ==
  ASSUME Placed(team, own), Good(team, own), NEW t \in Teams, NEW p \in Participants,
         Leave(t, p)
  PROVE  Placed(team', own') /\ Stays(team') /\ person' = person
<1> DEFINE last == team[t].members = {p}
           status == IF last THEN "deleted" ELSE team[t].status
           pending == IF last THEN {} ELSE team[t].pending \ {p}
           row == [team[t] EXCEPT !.members = team[t].members \ {p}, !.pending = pending,
                                  !.status = status]
           less(r) == [r EXCEPT !.members = @ \ {p}, !.pending = @ \ {p}]
<1>1. /\ last => TeamFree("staff", t)
      /\ person' = person /\ Exists(t)
      /\ team' = [team EXCEPT ![t].members = @ \ {p},
                    ![t].pending = IF last THEN {} ELSE @ \ {p},
                    ![t].status = IF last THEN "deleted" ELSE @]
      /\ own' = [f \in Finalizers |-> IF own[f][t] = Null THEN own[f]
                  ELSE [own[f] EXCEPT ![t].members = @ \ {p}, ![t].pending = @ \ {p}]]
  BY DEF Leave
<1>2. team[t] \in Team /\ Here(team[t])  BY <1>1, OwnRows DEF Exists, Here
<1>3. team' = [team EXCEPT ![t] = row]  BY <1>1, OwnRows
<1>4. /\ status \in {"forming", "active", "disqualified", "deleted"}
      /\ pending \in SUBSET team[t].pending
      /\ pending \in SUBSET Participants
  BY <1>2 DEF Team, Here
<1>5. /\ status = IF last THEN "deleted" ELSE team[t].status
      /\ ~ last => pending = team[t].pending \ {p}
  OBVIOUS
<1> HIDE DEF pending, last, status
<1>6. /\ row \in Team /\ row.status = status /\ row.group = team[t].group
      /\ row.members = team[t].members \ {p} /\ row.pending = pending
  BY <1>2, <1>4 DEF Team
<1> HIDE DEF row
<1>7. OneGroup(row)
  <2>1. OneGroup(team[t])  BY DEF Placed
  <2> QED  BY <1>2, <1>4, <1>6, <2>1 DEF OneGroup
<1>8. Stays(team')
  <2>1. team'[t] = row /\ \A u \in Teams \ {t} : team'[u] = team[u]  BY <1>3, OwnRows
  <2> QED  BY <1>4, <1>6, <2>1 DEF Stays
<1>9. CASE last
  <2>1. \A f \in Finalizers : own[f][t] = Null  BY <1>1, <1>9, StaffFree
  <2>2. own' = [f \in Finalizers |-> own[f]]  BY <1>1, <2>1
  <2>3. own' = own  BY <2>2, OwnRows DEF Owned
  <2>4. row.status = "deleted"  BY <1>5, <1>6, <1>9
  <2>5. Placed(team', own)
    BY <1>1, <1>3, <1>6, <1>7, <1>9, <2>4, StaffPlaces DEF Here
  <2> QED  BY <1>1, <1>8, <2>3, <2>5
<1>10. CASE ~ last
  <2>1. row.status = team[t].status /\ row.pending = team[t].pending \ {p}
    BY <1>5, <1>6, <1>10
  <2>2. team'[t] = row /\ \A u \in Teams \ {t} : team'[u] = team[u]  BY <1>3, OwnRows
  <2>3. \A r \in Team : /\ less(r) \in Team /\ less(r).status = r.status
                        /\ less(r).group = r.group
                        /\ less(r).members = r.members \ {p}
                        /\ less(r).pending = r.pending \ {p}
    BY DEF Team
  <2>4. own' = [f \in Finalizers |-> IF own[f][t] = Null THEN own[f]
                  ELSE [own[f] EXCEPT ![t] = less(own[f][t])]]
    <3>1. \A f \in Finalizers :
            [own[f] EXCEPT ![t].members = @ \ {p}, ![t].pending = @ \ {p}]
              = [own[f] EXCEPT ![t] = less(own[f][t])]
      BY OwnRows DEF Owned
    <3> QED  BY <1>1, <3>1
  <2> HIDE DEF less
  <2>5. \A f \in Finalizers, u \in Teams :
          own'[f][u] = IF u = t /\ own[f][u] # Null THEN less(own[f][u]) ELSE own[f][u]
    BY <2>4, OwnRows DEF Owned
  <2>6. \A r \in Team : less(r) # Null  BY <2>3, PlaceAssumption
  <2>7. \A u \in Teams : team'[u].status = "absent" =>
          team'[u].members = {} /\ team'[u].pending = {}
    BY <1>2, <2>1, <2>2 DEF Placed, Here
  <2>8. \A u \in Teams : OneGroup(team'[u])  BY <1>7, <2>2 DEF Placed
  <2>9. ASSUME NEW f \in Finalizers, NEW u \in Teams, own'[f][u] # Null
        PROVE  /\ own'[f][u].status # "absent" /\ OneGroup(own'[f][u])
               /\ team'[u].status # "absent" => Alike(own'[f][u], team'[u])
    <3>1. own[f][u] # Null /\ own[f][u] \in Team
      BY <2>5, <2>6, <2>9, OwnRows
    <3>2. /\ own[f][u].status # "absent" /\ OneGroup(own[f][u])
          /\ team[u].status # "absent" => Alike(own[f][u], team[u])
      BY <3>1 DEF Placed
    <3>3. CASE u # t  BY <2>2, <2>5, <3>2, <3>3
    <3>4. CASE u = t
      <4>1. own'[f][u] = less(own[f][u]) /\ team'[u] = row  BY <2>2, <2>5, <3>1, <3>4
      <4>2. OneGroup(less(own[f][u]))  BY <2>3, <3>1, <3>2 DEF OneGroup, Here
      <4>3. Alike(own[f][u], team[u])  BY <1>2, <3>2, <3>4 DEF Here
      <4>4. Alike(less(own[f][u]), row)
        BY <1>6, <2>1, <2>3, <3>1, <3>4, <4>3 DEF Alike
      <4> QED  BY <2>3, <3>1, <3>2, <4>1, <4>2, <4>4
    <3> QED  BY <3>3, <3>4
  <2>10. Apart(Seen(team', own', "formation"))
    <3> DEFINE V == Seen(team, own, "formation")
               W == Seen(team', own', "formation")
    <3>1. "formation" \in Finalizers /\ Apart(V)  BY DEF Placed, Finalizers
    <3>2. ASSUME NEW u \in Teams
          PROVE  W[u].members \subseteq V[u].members /\ W[u].status = V[u].status
      <4>1. CASE own["formation"][u] = Null
        <5>1. W[u] = team'[u] /\ V[u] = team[u]  BY <2>5, <3>1, <4>1 DEF Seen
        <5> QED  BY <1>6, <2>1, <2>2, <5>1
      <4>2. CASE own["formation"][u] # Null
        <5>1. own["formation"][u] \in Team  BY <3>1, <4>2, OwnRows
        <5>2. own'["formation"][u] # Null  BY <2>5, <2>6, <3>1, <4>2, <5>1
        <5>3. W[u] = own'["formation"][u] /\ V[u] = own["formation"][u]
          BY <4>2, <5>2 DEF Seen
        <5> QED  BY <2>3, <2>5, <3>1, <5>1, <5>3
      <4> QED  BY <4>1, <4>2
    <3> HIDE DEF V, W
    <3>3. Apart(W)  BY <3>1, <3>2 DEF Apart, Here
    <3> QED  BY <3>3 DEF W
  <2>11. Placed(team', own')  BY <2>7, <2>8, <2>9, <2>10 DEF Placed
  <2> QED  BY <1>1, <1>8, <2>11
<1> QED  BY <1>9, <1>10

\* A member is confirmed, and nowhere pending any more.
LEMMA ConfirmPlaces ==
  ASSUME Placed(team, own), Good(team, own), NEW t \in Teams, NEW p \in Participants,
         Confirm(t, p)
  PROVE  Placed(team', own') /\ Stays(team') /\ person' = person
<1> DEFINE in(r) == [r EXCEPT !.members = @ \cup {p}, !.pending = @ \ {p}]
           out(r) == [r EXCEPT !.pending = @ \ {p}]
<1>1. /\ person' = person /\ TeamFree("staff", t) /\ Exists(t) /\ p \in team[t].pending
      /\ PersonFree(p) /\ Unplaced(team, {p})
      /\ team' = [u \in Teams |-> IF u = t THEN in(team[u]) ELSE out(team[u])]
      /\ own' = [f \in Finalizers |-> [u \in Teams |->
                   IF own[f][u] = Null THEN Null ELSE out(own[f][u])]]
  BY DEF Confirm, Changing
<1>2. \A r \in Team : /\ in(r) \in Team /\ in(r).status = r.status /\ in(r).group = r.group
                      /\ in(r).members = r.members \cup {p} /\ in(r).pending = r.pending \ {p}
                      /\ out(r) \in Team /\ out(r).status = r.status /\ out(r).group = r.group
                      /\ out(r).members = r.members /\ out(r).pending = r.pending \ {p}
  BY DEF Team
<1> HIDE DEF in, out
<1>3. /\ team[t] \in Team /\ Here(team[t])
      /\ \A f \in Finalizers : own[f][t] = Null
  BY <1>1, OwnRows, StaffFree DEF Exists, Here
<1>4. \A r \in Team : out(r) # Null  BY <1>2, PlaceAssumption
<1>5. /\ team'[t] = in(team[t])
      /\ \A u \in Teams \ {t} : team'[u] = out(team[u])
      /\ \A u \in Teams : team[u] \in Team
  BY <1>1, OwnRows
<1>6. \A f \in Finalizers, u \in Teams :
        /\ own[f][u] = Null => own'[f][u] = Null
        /\ own[f][u] # Null => /\ u # t /\ own[f][u] \in Team
                               /\ own'[f][u] = out(own[f][u]) /\ own'[f][u] # Null
  BY <1>1, <1>3, <1>4, OwnRows
<1>7. \A u \in Teams : team'[u].status = "absent" =>
        team'[u].members = {} /\ team'[u].pending = {}
  <2> SUFFICES ASSUME NEW u \in Teams, team'[u].status = "absent"
               PROVE  team'[u].members = {} /\ team'[u].pending = {}
    OBVIOUS
  <2>1. u # t  BY <1>2, <1>3, <1>5 DEF Here
  <2>2. team'[u] = out(team[u]) /\ team[u].status = "absent"  BY <1>2, <1>5, <2>1
  <2> QED  BY <1>2, <1>5, <2>2 DEF Placed
<1>8. \A r \in Team : OneGroup(r) => OneGroup(out(r))
  BY <1>2 DEF OneGroup, Here
<1>9. \A u \in Teams : OneGroup(team'[u])
  <2>1. OneGroup(in(team[t]))
    <3>1. OneGroup(team[t])  BY DEF Placed
    <3> QED  BY <1>1, <1>2, <1>3, <3>1 DEF OneGroup
  <2> QED  BY <1>5, <1>8, <2>1 DEF Placed
<1>10. ASSUME NEW f \in Finalizers, NEW u \in Teams, own'[f][u] # Null
       PROVE  /\ own'[f][u].status # "absent" /\ OneGroup(own'[f][u])
              /\ team'[u].status # "absent" => Alike(own'[f][u], team'[u])
  <2>1. /\ own[f][u] # Null /\ u # t /\ own[f][u] \in Team
        /\ own'[f][u] = out(own[f][u]) /\ team'[u] = out(team[u]) /\ team[u] \in Team
    BY <1>5, <1>6, <1>10
  <2>2. /\ own[f][u].status # "absent" /\ OneGroup(own[f][u])
        /\ team[u].status # "absent" => Alike(own[f][u], team[u])
    BY <2>1 DEF Placed
  <2> QED  BY <1>2, <1>8, <2>1, <2>2 DEF Alike
<1>11. Apart(Seen(team', own', "formation"))
  <2> DEFINE V == Seen(team, own, "formation")
             W == Seen(team', own', "formation")
  <2>1. "formation" \in Finalizers /\ Apart(V)  BY DEF Placed, Finalizers
  <2>2. V[t] = team[t] /\ W[t] = in(team[t])
    BY <1>3, <1>5, <1>6, <2>1 DEF Seen
  <2>3. ASSUME NEW u \in Teams \ {t}
        PROVE  /\ W[u].members = V[u].members /\ W[u].status = V[u].status
               /\ Here(V[u]) => p \notin V[u].members
    <3>1. team[u].status # "deleted" => p \notin team[u].members
      BY <1>1 DEF Unplaced
    <3>2. CASE own["formation"][u] = Null
      <4>1. V[u] = team[u] /\ W[u] = out(team[u])  BY <1>5, <1>6, <2>1, <3>2 DEF Seen
      <4> QED  BY <1>2, <1>5, <3>1, <4>1 DEF Here
    <3>3. CASE own["formation"][u] # Null
      <4> DEFINE r == own["formation"][u]
      <4>1. V[u] = r /\ W[u] = out(r) /\ r \in Team
        BY <1>6, <2>1, <3>3 DEF Seen
      <4>2. p \in r.members \cup r.pending <=> p \in team[u].members \cup team[u].pending
        BY <1>1, <2>1, <3>3 DEF PersonFree
      <4>3. CASE team[u].status = "absent"
        <5>1. team[u].members = {} /\ team[u].pending = {}  BY <4>3 DEF Placed
        <5> HIDE DEF r
        <5> QED  BY <1>2, <4>1, <4>2, <5>1
      <4>4. CASE team[u].status # "absent"
        <5>1. Alike(r, team[u])  BY <2>1, <3>3, <4>4 DEF Placed
        <5> HIDE DEF r
        <5> QED  BY <1>2, <3>1, <4>1, <5>1 DEF Alike, Here
      <4> QED  BY <4>3, <4>4
    <3> QED  BY <3>2, <3>3
  <2>4. W[t].status = V[t].status /\ W[t].members = V[t].members \cup {p}
    BY <1>2, <1>3, <2>2
  <2> HIDE DEF V, W
  <2>5. Apart(W)  BY <2>1, <2>3, <2>4 DEF Apart, Here
  <2> QED  BY <2>5 DEF W
<1>12. Stays(team')
  <2>1. \A u \in Teams : team'[u].status = team[u].status /\ team'[u].group = team[u].group
    BY <1>2, <1>5
  <2> QED  BY <2>1 DEF Stays
<1> QED  BY <1>1, <1>7, <1>9, <1>10, <1>11, <1>12 DEF Placed

\* Who has no row in team_members that others see, or that an open finalization is
\* about to insert, is in no team.
LEMMA NoRow ==
  ASSUME NEW p, ~ HasRow(p), PersonFree(p), NEW t \in Teams
  PROVE  p \notin View("formation")[t].members
<1>1. "formation" \in Finalizers  BY DEF Finalizers
<1> QED  BY <1>1 DEF HasRow, PersonFree, View

\* Staff writes a team and leaves it in its group.
LEMMA TeamStays ==
  ASSUME Good(team, own), NEW t \in Teams, NEW row, NEW n, n = [team EXCEPT ![t] = row],
         row.status # "absent", team[t].status # "absent" => row.group = team[t].group
  PROVE  Stays(n)
BY OwnRows DEF Stays

LEMMA OthersPlaces ==
  ASSUME Placed(team, own), Good(team, own), person \in [Participants -> Person], Others
  PROVE  Placed(team', own') /\ Stays(team') /\ person' = person
<1> DEFINE V == View("formation")
<1>1. PICK t \in Teams : \/ \E b \in Briefs \cup {Null} : Assign(t, b)
                         \/ Disqualify(t)
                         \/ \E p \in Participants : \/ Found(t, p) \/ Join(t, p) \/ Add(t, p)
                                                    \/ Confirm(t, p) \/ Leave(t, p)
  BY DEF Others
<1>2. team[t] \in Team /\ OneGroup(team[t])  BY OwnRows DEF Placed
\* A team that is there keeps its members or gets one who is in no other.
<1>3. ASSUME NEW row \in Team, team' = [team EXCEPT ![t] = row], own' = own,
             person' = person, TeamFree("staff", t), Here(team[t]), Here(row),
             row.group = team[t].group, OneGroup(row),
             \/ row.members = team[t].members
             \/ \E p \in Participants : /\ row.members = team[t].members \cup {p}
                                        /\ ~ HasRow(p) /\ PersonFree(p)
      PROVE  Placed(team', own') /\ Stays(team') /\ person' = person
  <2>1. ASSUME NEW u \in Teams \ {t}, Here(V[u]) PROVE row.members \cap V[u].members = {}
    <3>1. team[t].members \cap V[u].members = {}  BY <1>3, <2>1, TeamsApart
    <3>2. \A p \in Participants : ~ HasRow(p) /\ PersonFree(p) => p \notin V[u].members
      BY NoRow
    <3> HIDE DEF V
    <3> QED  BY <1>3, <3>1, <3>2
  <2>2. row.status # "absent"  BY <1>3 DEF Here
  <2>3. Placed(team', own)  BY <1>3, <2>1, <2>2, StaffPlaces
  <2> QED  BY <1>3, <2>2, <2>3, TeamStays
<1>4. ASSUME NEW b \in Briefs \cup {Null}, Assign(t, b)
      PROVE  Placed(team', own') /\ Stays(team') /\ person' = person
  <2> DEFINE status == IF team[t].status = "forming" /\ b # Null THEN "active"
                       ELSE team[t].status
             row == [team[t] EXCEPT !.brief = b, !.status = status]
  <2>1. /\ TeamFree("staff", t) /\ person' = person /\ own' = own /\ Here(team[t])
        /\ team' = [team EXCEPT ![t].brief = b,
                      ![t].status = IF @ = "forming" /\ b # Null THEN "active" ELSE @]
    BY <1>4 DEF Assign, Changing, Exists, Here
  <2>2. team' = [team EXCEPT ![t] = row]  BY <2>1, OwnRows
  <2>3. status \in {"forming", "active", "disqualified"}  BY <1>2, <2>1 DEF Team, Here
  <2> HIDE DEF status
  <2>4. /\ row \in Team /\ row.status = status /\ row.group = team[t].group
        /\ row.members = team[t].members /\ row.pending = team[t].pending
    BY <1>2, <2>3 DEF Team
  <2> HIDE DEF row
  <2>5. Here(row) /\ OneGroup(row)  BY <1>2, <2>1, <2>3, <2>4 DEF Here, OneGroup
  <2> QED  BY <1>3, <2>1, <2>2, <2>4, <2>5
<1>5. CASE Disqualify(t)
  <2> DEFINE row == [team[t] EXCEPT !.status = "disqualified"]
  <2>1. /\ TeamFree("staff", t) /\ person' = person /\ own' = own /\ Here(team[t])
        /\ team' = [team EXCEPT ![t] = row]
    BY <1>5, OwnRows DEF Disqualify, Changing, Open, Here
  <2>2. /\ row \in Team /\ row.status = "disqualified" /\ row.group = team[t].group
        /\ row.members = team[t].members /\ row.pending = team[t].pending
    BY <1>2 DEF Team
  <2> HIDE DEF row
  <2>3. Here(row) /\ OneGroup(row)  BY <1>2, <2>1, <2>2 DEF Here, OneGroup
  <2> QED  BY <1>3, <2>1, <2>2, <2>3
<1>6. ASSUME NEW p \in Participants, Found(t, p)
      PROVE  Placed(team', own') /\ Stays(team') /\ person' = person
  <2> DEFINE row == [NoTeam EXCEPT !.status = "forming", !.members = {p},
                                   !.group = person[p].group]
  <2>1. /\ TeamFree("staff", t) /\ person' = person /\ own' = own
        /\ ~ HasRow(p) /\ PersonFree(p) /\ team[t].status = "absent"
        /\ team' = [team EXCEPT ![t] = row]
    BY <1>6 DEF Found, Changing
  <2>2. person[p].group \in Groups \cup {Null}  BY DEF Person
  <2>3. /\ row \in Team /\ row.status = "forming" /\ row.members = {p} /\ row.pending = {}
        /\ row.group = person[p].group
    BY <2>2 DEF Team, NoTeam
  <2> HIDE DEF row
  <2>4. OneGroup(row) /\ row.status # "absent"  BY <2>3 DEF OneGroup
  <2>5. \A u \in Teams : row.members \cap V[u].members = {}
    <3>1. \A u \in Teams : p \notin V[u].members  BY <2>1, NoRow
    <3> HIDE DEF V
    <3> QED  BY <2>3, <3>1
  <2>6. Placed(team', own)  BY <2>1, <2>3, <2>4, <2>5, StaffPlaces
  <2> QED  BY <2>1, <2>4, <2>6, TeamStays
<1>7. ASSUME NEW p \in Participants, Join(t, p)
      PROVE  Placed(team', own') /\ Stays(team') /\ person' = person
  <2> DEFINE row == [team[t] EXCEPT !.pending = @ \cup {p}]
  <2>1. /\ TeamFree("staff", t) /\ person' = person /\ own' = own /\ Here(team[t])
        /\ team[t].group = person[p].group /\ team' = [team EXCEPT ![t] = row]
    BY <1>7, OwnRows DEF Join, Changing, Here
  <2>2. /\ row \in Team /\ row.status = team[t].status /\ row.group = team[t].group
        /\ row.members = team[t].members /\ row.pending = team[t].pending \cup {p}
    BY <1>2 DEF Team
  <2> HIDE DEF row
  <2>3. Here(row) /\ OneGroup(row)  BY <1>2, <2>1, <2>2 DEF Here, OneGroup
  <2> QED  BY <1>3, <2>1, <2>2, <2>3
<1>8. ASSUME NEW p \in Participants, Add(t, p)
      PROVE  Placed(team', own') /\ Stays(team') /\ person' = person
  <2> DEFINE row == [team[t] EXCEPT !.members = @ \cup {p}]
  <2>1. /\ TeamFree("staff", t) /\ person' = person /\ own' = own /\ Here(team[t])
        /\ ~ HasRow(p) /\ PersonFree(p)
        /\ team[t].group = person[p].group /\ team' = [team EXCEPT ![t] = row]
    BY <1>8, OwnRows DEF Add, Changing, Exists, Here
  <2>2. /\ row \in Team /\ row.status = team[t].status /\ row.group = team[t].group
        /\ row.members = team[t].members \cup {p} /\ row.pending = team[t].pending
    BY <1>2 DEF Team
  <2> HIDE DEF row
  <2>3. Here(row) /\ OneGroup(row)  BY <1>2, <2>1, <2>2 DEF Here, OneGroup
  <2> QED  BY <1>3, <2>1, <2>2, <2>3
<1> QED  BY <1>1, <1>4, <1>5, <1>6, <1>7, <1>8, ConfirmPlaces, LeavePlaces

\* Proposals concern teams that are there, and bring them people of their group.
Sensible(x, teams) ==
  /\ x.kind \in {"backfill", "brief"} => teams[x.team].status # "absent"
  /\ x.kind = "backfill" => \A p \in x.members : person[p].group = teams[x.team].group
Meant(P, teams) == \A x \in P : Sensible(x, teams)
FormMeant(f, teams) ==
  /\ {"size", "spare", "proposed"} \subseteq DOMAIN f /\ DOMAIN f.size = Teams
  /\ Meant(f.proposed, teams)
  /\ \A t \in Teams : f.size[t] # Null => teams[t].status # "absent"
  /\ \A t \in Teams, b \in Briefs : <<t, b>> \in f.spare => teams[t].status # "absent"
MeantInv == /\ FormMeant(forming, team)
            /\ preview # Null => Meant(preview.proposed, team)
            /\ Meant(founding.todo, team)

LEMMA MeantStays ==
  ASSUME NEW P, Usable(P), Meant(P, team), NEW n, Stays(n)
  PROVE  Meant(P, n)
BY DEF Sensible, Meant, Usable, Stays

\* What others do to the teams leaves proposals sensible.
LEMMA MeantKept ==
  ASSUME MeantInv, FormInv, UNCHANGED formVars, person' = person, Stays(team')
  PROVE  MeantInv'
<1>1. UNCHANGED <<forming, preview, founding>>  BY DEF formVars
<1>2. Meant(founding.todo, team')  BY MeantStays DEF MeantInv, FormInv
<1>3. preview # Null => Meant(preview.proposed, team')
  BY MeantStays DEF MeantInv, FormInv
<1>4. Meant(forming.proposed, team')
  BY MeantStays DEF MeantInv, FormInv, FormMeant, FormingHeld
<1>5. FormMeant(forming, team')  BY <1>4 DEF MeantInv, FormMeant, Stays
<1> QED
  BY <1>1, <1>2, <1>3, <1>5 DEF MeantInv, FormMeant, Meant, Sensible

\* A run goes on with less, or with a proposal more.
LEMMA RunGoesOn ==
  ASSUME MeantInv, UNCHANGED tables, NEW new, Go(new),
         {"size", "spare", "proposed"} \subseteq DOMAIN new, DOMAIN new.size = Teams,
         \A t \in Teams : new.size[t] # Null => team[t].status # "absent",
         \A t \in Teams, b \in Briefs : <<t, b>> \in new.spare => team[t].status # "absent",
         NEW x, new.proposed \in {forming.proposed, forming.proposed \cup {x}, {}},
         Sensible(x, team)
  PROVE  MeantInv'
<1>1. forming' = new /\ UNCHANGED <<preview, founding, person, team>>  BY DEF Go, tables
<1>2. Meant(new.proposed, team)  BY DEF MeantInv, FormMeant, Meant, Sensible
<1>3. FormMeant(new, team)  BY <1>2 DEF FormMeant
<1> QED  BY <1>1, <1>3 DEF MeantInv, FormMeant, Meant, Sensible

\* Only the step, the lists, or who and what is left over changes.
LEMMA RunKeeps ==
  ASSUME MeantInv, UNCHANGED tables, NEW new, Go(new),
         {"size", "spare", "proposed"} \subseteq DOMAIN new,
         new.size = forming.size, new.spare \subseteq forming.spare,
         NEW x, new.proposed \in {forming.proposed, forming.proposed \cup {x}},
         Sensible(x, team)
  PROVE  MeantInv'
<1>1. /\ DOMAIN new.size = Teams
      /\ \A t \in Teams : new.size[t] # Null => team[t].status # "absent"
      /\ \A t \in Teams, b \in Briefs : <<t, b>> \in new.spare => team[t].status # "absent"
  BY DEF MeantInv, FormMeant
<1> QED  BY <1>1, RunGoesOn

LEMMA NoFormingMeant ==
  /\ {"size", "spare", "proposed"} \subseteq DOMAIN NoForming
  /\ DOMAIN NoForming.size = Teams /\ NoForming.spare = {} /\ NoForming.proposed = {}
  /\ \A t \in Teams : NoForming.size[t] = Null
BY DEF NoForming

LEMMA ShowMeant ==
  ASSUME MeantInv, UNCHANGED tables, Show PROVE MeantInv'
<1>1. /\ forming' = NoForming /\ UNCHANGED <<founding, person, team>>
      /\ preview'.proposed = forming.proposed
  BY DEF Show, tables
<1>2. FormMeant(NoForming, team)  BY NoFormingMeant DEF FormMeant, Meant, Sensible
<1> QED  BY <1>1, <1>2 DEF MeantInv, FormMeant, Meant, Sensible

LEMMA NewTeamMeant ==
  ASSUME NEW k \in {"team", "manual"}, NEW S, NEW b
  PROVE  Sensible(NewTeam(k, S, b), team)
BY DEF Sensible, NewTeam

LEMMA RunFormationMeant ==
  ASSUME MeantInv, RunFormation, UNCHANGED tables PROVE MeantInv'
<1>1. /\ {"size", "spare", "proposed"} \subseteq DOMAIN forming
      /\ DOMAIN forming.size = Teams
      /\ \A t \in Teams : forming.size[t] # Null => team[t].status # "absent"
      /\ \A t \in Teams, b \in Briefs : <<t, b>> \in forming.spare => team[t].status # "absent"
  BY DEF MeantInv, FormMeant
<1> DEFINE x0 == NewTeam("team", {}, Null)
<1>2. Sensible(x0, team)  BY NewTeamMeant
<1> HIDE DEF x0
<1>3. ASSUME NEW byBrief, NEW force, ReadParticipants(byBrief, force) PROVE MeantInv'
  <2> DEFINE all == {p \in Participants : /\ ~ Attached(p) /\ person[p].active
                                    /\ person[p].group \in Pooled}
  <2>1. /\ forming' = [NoForming EXCEPT !.step = "teams", !.byBrief = byBrief,
                          !.force = force, !.all = all, !.left = all]
        /\ UNCHANGED <<preview, founding, person, team>>
    BY <1>3 DEF ReadParticipants, tables
  <2> HIDE DEF all
  <2>2. /\ {"size", "spare", "proposed"} \subseteq DOMAIN forming'
        /\ forming'.size = NoForming.size /\ forming'.spare = {} /\ forming'.proposed = {}
    BY <2>1, NoFormingMeant
  <2>3. FormMeant(forming', team)
    BY <2>2, NoFormingMeant DEF FormMeant, Meant, Sensible
  <2> QED  BY <2>1, <2>3 DEF MeantInv, FormMeant, Meant, Sensible
<1>4. CASE ReadUndersized
  <2> DEFINE size == [t \in Teams |-> LET n == Cardinality({p \in team[t].members : person[p].active})
                                     IN IF Open(t) /\ n < SizeMax THEN n ELSE Null]
             new == [forming EXCEPT !.step = "backfill", !.size = size]
  <2>1. Go(new)  BY <1>4 DEF ReadUndersized
  <2>2. DOMAIN size = Teams /\ \A t \in Teams : size[t] # Null => team[t].status # "absent"
    BY DEF Open
  <2> HIDE DEF size
  <2>3. /\ {"size", "spare", "proposed"} \subseteq DOMAIN new /\ new.size = size
        /\ new.spare = forming.spare /\ new.proposed = forming.proposed
    BY <1>1
  <2> HIDE DEF new
  <2> QED  BY <1>1, <1>2, <2>1, <2>2, <2>3, RunGoesOn
<1>5. ASSUME NEW t \in Teams, NEW S \in SUBSET Compatible(t), ProposeBackfill(t, S)
      PROVE  MeantInv'
  <2> DEFINE x == Backfill(t, S)
             proposed == IF S = {} THEN forming.proposed ELSE forming.proposed \cup {x}
             size == [forming.size EXCEPT ![t] = Null]
             new == [forming EXCEPT !.size[t] = Null, !.left = @ \ S, !.proposed = proposed]
  <2>1. Go(new) /\ team[t].status # "absent"
    BY <1>1, <1>5 DEF ProposeBackfill, Smallest
  <2>2. Sensible(x, team)  BY <2>1 DEF Sensible, Backfill, Compatible
  <2>3. proposed \in {forming.proposed, forming.proposed \cup {x}}  OBVIOUS
  <2> HIDE DEF proposed, x
  <2>4. /\ {"size", "spare", "proposed"} \subseteq DOMAIN new /\ new.size = size
        /\ new.spare = forming.spare /\ new.proposed = proposed
    BY <1>1
  <2>5. DOMAIN size = Teams /\ \A u \in Teams : size[u] # Null => team[u].status # "absent"
    BY <1>1
  <2> HIDE DEF new, size
  <2> QED  BY <1>1, <2>1, <2>2, <2>3, <2>4, <2>5, RunGoesOn
<1>6. CASE EndBackfill
  <2> DEFINE step == IF forming.byBrief THEN "briefs" ELSE "same"
             new == [forming EXCEPT !.step = step]
  <2>1. Go(new)  BY <1>6 DEF EndBackfill
  <2> HIDE DEF step
  <2>2. /\ {"size", "spare", "proposed"} \subseteq DOMAIN new /\ new.size = forming.size
        /\ new.spare = forming.spare /\ new.proposed = forming.proposed
    BY <1>1
  <2> HIDE DEF new
  <2> QED  BY <1>2, <2>1, <2>2, RunKeeps
<1>7. CASE ReadBriefLists
  <2> DEFINE waiting == {b \in Briefs : Needs(b) /\ \E i \in DOMAIN Verticals : b \in OfVertical(i)}
             open == {b \in Idle : Needs(b)} \cup waiting
             new == [forming EXCEPT !.step = "spare", !.waiting = waiting, !.open = open]
  <2>1. Go(new)  BY <1>7 DEF ReadBriefLists
  <2> HIDE DEF waiting, open
  <2>2. /\ {"size", "spare", "proposed"} \subseteq DOMAIN new /\ new.size = forming.size
        /\ new.spare = forming.spare /\ new.proposed = forming.proposed
    BY <1>1
  <2> HIDE DEF new
  <2> QED  BY <1>2, <2>1, <2>2, RunKeeps
<1>8. ASSUME NEW suits \in Suits, ReadSpareTeams(suits) PROVE MeantInv'
  <2> DEFINE again == [NoForming EXCEPT !.step = "teams", !.force = forming.force,
                                        !.all = forming.all, !.left = forming.all]
             idle == {x \in suits : Open(x[1]) /\ team[x[1]].brief = Null}
             on == [forming EXCEPT !.step = "round", !.spare = idle]
  <2>1. Go(again) \/ Go(on)  BY <1>8 DEF ReadSpareTeams
  <2>2. \A t \in Teams, b \in Briefs : <<t, b>> \in idle => team[t].status # "absent"
    BY DEF Open
  <2> HIDE DEF idle
  <2>3. /\ {"size", "spare", "proposed"} \subseteq DOMAIN on /\ on.size = forming.size
        /\ on.spare = idle /\ on.proposed = forming.proposed
    BY <1>1
  <2>4. /\ {"size", "spare", "proposed"} \subseteq DOMAIN again
        /\ again.size = NoForming.size /\ again.spare = {} /\ again.proposed = {}
    BY NoFormingMeant
  <2> HIDE DEF on, again
  <2>5. CASE Go(on)  BY <1>1, <1>2, <2>2, <2>3, <2>5, RunGoesOn
  <2>6. CASE Go(again)
    <3>1. /\ DOMAIN again.size = Teams
          /\ \A t \in Teams : again.size[t] # Null => team[t].status # "absent"
          /\ \A t \in Teams, b \in Briefs : <<t, b>> \in again.spare => team[t].status # "absent"
          /\ again.proposed \in {forming.proposed, forming.proposed \cup {x0}, {}}
      BY <2>4, NoFormingMeant
    <3> QED  BY <1>2, <2>4, <2>6, <3>1, RunGoesOn
  <2> QED  BY <2>1, <2>5, <2>6
<1>9. ASSUME NEW b \in Briefs, NEW t \in Teams, GiveToTeam(t, b) PROVE MeantInv'
  <2> DEFINE x == BriefFor(t, b)
             new == [Passed(b) EXCEPT !.progress = TRUE, !.open = @ \ {b},
                       !.spare = {y \in @ : y[1] # t}, !.proposed = @ \cup {x}]
  <2>1. Go(new) /\ <<t, b>> \in forming.spare  BY <1>9 DEF GiveToTeam, Suitable
  <2>2. Sensible(x, team)  BY <1>1, <2>1 DEF Sensible, BriefFor
  <2> HIDE DEF x
  <2>3. /\ {"size", "spare", "proposed"} \subseteq DOMAIN new /\ new.size = forming.size
        /\ new.spare \subseteq forming.spare /\ new.proposed = forming.proposed \cup {x}
    BY <1>1 DEF Passed
  <2> HIDE DEF new
  <2> QED  BY <2>1, <2>2, <2>3, RunKeeps
<1>10. ASSUME NEW b \in Briefs, NEW S \in SUBSET forming.left, GiveToNewTeam(S, b)
       PROVE  MeantInv'
  <2> DEFINE x == NewTeam("team", S, b)
             new == [Passed(b) EXCEPT !.progress = TRUE, !.open = @ \ {b},
                       !.left = @ \ S, !.proposed = @ \cup {x}]
  <2>1. Go(new)  BY <1>10 DEF GiveToNewTeam
  <2>2. Sensible(x, team)  BY NewTeamMeant
  <2> HIDE DEF x
  <2>3. /\ {"size", "spare", "proposed"} \subseteq DOMAIN new /\ new.size = forming.size
        /\ new.spare = forming.spare /\ new.proposed = forming.proposed \cup {x}
    BY <1>1 DEF Passed
  <2> HIDE DEF new
  <2> QED  BY <2>1, <2>2, <2>3, RunKeeps
<1>11. ASSUME NEW b \in Briefs, PassOver(b) PROVE MeantInv'
  <2>1. Go(Passed(b))  BY <1>11 DEF PassOver
  <2>2. /\ {"size", "spare", "proposed"} \subseteq DOMAIN Passed(b) /\ Passed(b).size = forming.size
        /\ Passed(b).spare = forming.spare /\ Passed(b).proposed = forming.proposed
    BY <1>1 DEF Passed
  <2> QED  BY <1>2, <2>1, <2>2, RunKeeps
<1>12. ASSUME NEW new, Go(new), \/ new = [forming EXCEPT !.vertical = @ + 1]
                                \/ new = [forming EXCEPT !.vertical = 1, !.progress = FALSE]
                                \/ \E s : new = [forming EXCEPT !.step = s]
       PROVE  MeantInv'
  <2>1. /\ {"size", "spare", "proposed"} \subseteq DOMAIN new /\ new.size = forming.size
        /\ new.spare = forming.spare /\ new.proposed = forming.proposed
    BY <1>1, <1>12
  <2> QED  BY <1>2, <1>12, <2>1, RunKeeps
<1>13. CASE SkipVertical \/ EndRound
  BY <1>12, <1>13, ShowMeant DEF SkipVertical, EndRound
<1>14. ASSUME NEW S \in SUBSET forming.left, FormTeam(S) PROVE MeantInv'
  <2> DEFINE x == NewTeam("team", S, Null)
             new == [forming EXCEPT !.left = @ \ S, !.proposed = @ \cup {x}]
  <2>1. Go(new)  BY <1>14 DEF FormTeam
  <2>2. Sensible(x, team)  BY NewTeamMeant
  <2> HIDE DEF x
  <2>3. /\ {"size", "spare", "proposed"} \subseteq DOMAIN new /\ new.size = forming.size
        /\ new.spare = forming.spare /\ new.proposed = forming.proposed \cup {x}
    BY <1>1
  <2> HIDE DEF new
  <2> QED  BY <2>1, <2>2, <2>3, RunKeeps
<1>15. CASE EndPhase
  <2>1. forming.step \in Phases  BY <1>15 DEF EndPhase, NothingToForm
  <2>2. Go([forming EXCEPT !.step = "cross"]) \/ Go([forming EXCEPT !.step = "mixed"]) \/ Show
    BY <1>15, <2>1 DEF EndPhase, In, Phases
  <2> QED  BY <1>12, <2>2, ShowMeant
<1> QED
  BY <1>3, <1>4, <1>5, <1>6, <1>7, <1>8, <1>9, <1>10, <1>11, <1>13, <1>14, <1>15
  DEF RunFormation

LEMMA SeenAlike ==
  ASSUME Placed(team, own), Good(team, own), NEW f \in Finalizers, NEW t \in Teams,
         team[t].status # "absent"
  PROVE  /\ View(f)[t] \in Team /\ Alike(View(f)[t], team[t]) /\ OneGroup(View(f)[t])
         /\ View(f)[t].status # "absent"
BY OwnRows DEF View, Placed, Alike

LEMMA FinalizeMatchingPlaces ==
  ASSUME Placed(team, own), Good(team, own), TypeOfMatching, Reading, FinalizeMatching
  PROVE  Placed(team', own') /\ Stays(team') /\ person' = person
<1>1. "matching" \in Finalizers  BY DEF Finalizers
<1>2. Stays(team)  BY DEF Stays
<1>3. CASE \/ \E excluded \in Withheld, override \in Overrides :
                BeginAssigning(excluded, override)
           \/ \E t \in Teams, b \in Briefs : ReadTeam(t, b)
  <2>1. UNCHANGED <<team, own, person>>
    BY <1>3 DEF BeginAssigning, ReadTeam, Calling, places, tables
  <2> QED  BY <1>2, <2>1 DEF Placed, OneGroup
<1>4. ASSUME NEW t \in Teams, NEW b \in Briefs, WriteTeam(t, b)
      PROVE  Placed(team', own') /\ Stays(team') /\ person' = person
  <2> DEFINE m == View("matching")
             new == IF assigning.status = "forming" THEN "active" ELSE assigning.status
             status == IF m[t].status = "deleted" THEN m[t].status ELSE new
             row == [m[t] EXCEPT !.brief = b, !.status = status]
             teams == [m EXCEPT ![t].brief = b, ![t].status = IF @ = "deleted" THEN @ ELSE new]
  <2>1. /\ assigning.reading = <<t, b>> /\ UNCHANGED <<team, person>>
        /\ own' \in {own, [own EXCEPT !["matching"][t] = teams[t]]}
    BY <1>4 DEF WriteTeam
  <2>2. m \in [Teams -> Team]  BY <1>1, SeenRow
  <2>3. assigning.status # "" /\ team[t].status # "absent"
    <3>1. <<t, b>> # <<>> /\ <<t, b>>[1] = t  OBVIOUS
    <3> HIDE DEF m, new, status, row, teams
    <3> QED  BY <2>1, <3>1 DEF Reading
  <2>4. assigning.status \in {"forming", "active", "disqualified"}
    BY <2>3 DEF TypeOfMatching, Assigning
  <2>5. /\ m[t] \in Team /\ Alike(m[t], team[t]) /\ OneGroup(m[t])
        /\ m[t].status # "absent"
    BY <1>1, <2>3, SeenAlike
  <2>6. /\ status \in {"forming", "active", "disqualified", "deleted"}
        /\ status = "deleted" <=> m[t].status = "deleted"
    BY <2>4
  <2> HIDE DEF m
  <2>7. teams[t] = row  BY <2>2
  <2> HIDE DEF status, teams
  <2>8. /\ row \in Team /\ row.status = status /\ row.group = m[t].group
        /\ row.members = m[t].members /\ row.pending = m[t].pending
    BY <2>5, <2>6 DEF Team
  <2> HIDE DEF row
  <2>9. /\ row.status # "absent" /\ OneGroup(row) /\ Alike(row, team[t])
    BY <2>5, <2>6, <2>8 DEF OneGroup, Here, Alike
  <2>10. Placed(team, [own EXCEPT !["matching"][t] = row])
    BY <1>1, <2>3, <2>8, <2>9, FinalizerPlaces
  <2>11. Placed(team, own')  BY <2>1, <2>7, <2>10
  <2> QED  BY <1>2, <2>1, <2>11
<1>5. CASE CommitAssigning
  <2>1. /\ team' = View("matching") /\ own' = [own EXCEPT !["matching"] = NoWrites]
        /\ person' = person
    BY <1>5 DEF CommitAssigning
  <2>2. team' = Seen(team, own, "matching")  BY <1>1, <2>1, SeenRow
  <2> QED  BY <1>1, <2>1, <2>2, CommittedPlaces
<1>6. CASE AbortAssigning
  <2>1. own' = [own EXCEPT !["matching"] = NoWrites] /\ UNCHANGED <<person, team>>
    BY <1>6 DEF AbortAssigning
  <2> QED  BY <1>1, <1>2, <2>1, RollBackPlaces
<1> QED  BY <1>3, <1>4, <1>5, <1>6 DEF FinalizeMatching

\* One proposal less to carry out.
LEMMA DoneMeant ==
  ASSUME MeantInv, FormInv, NEW x, NEW failed, Done(x, failed) PROVE MeantInv'
<1>1. /\ founding' = [founding EXCEPT !.todo = @ \ {x}, !.aborted = failed]
      /\ UNCHANGED <<person, team, forming, preview>>
  BY DEF Done
<1>2. founding'.todo \subseteq founding.todo  BY <1>1 DEF FormInv, Founding
<1> QED  BY <1>1, <1>2 DEF MeantInv, FormMeant, Meant, Sensible

LEMMA BeginFoundingMeant ==
  ASSUME MeantInv, FormInv, NEW excluded \in Excluded, NEW manual \in Manual,
         BeginFounding(excluded, manual)
  PROVE  MeantInv' /\ UNCHANGED <<team, own, person>>
<1> DEFINE without(x) == [x EXCEPT !.members = @ \ excluded]
           stays(x) == CASE x.kind = "backfill" -> x.members # {}
                         [] x.kind = "brief" -> TRUE
                         [] x.kind = "team" -> Cardinality(x.members) >= SizeMin
           added == IF manual = {} THEN {} ELSE {NewTeam("manual", manual, Null)}
           kept == {x \in {without(y) : y \in preview.proposed} : stays(x)}
           todo == kept \cup added
<1>1. /\ preview # Null /\ UNCHANGED <<tables, forming, preview>>
      /\ founding' = [NoFounding EXCEPT !.on = TRUE, !.todo = todo]
  BY DEF BeginFounding, Calling
<1>2. preview.proposed \subseteq Proposal /\ Meant(preview.proposed, team)
  BY <1>1 DEF FormInv, Usable, MeantInv
<1>3. \A y \in preview.proposed :
        /\ without(y).kind = y.kind /\ without(y).team = y.team
        /\ without(y).members \subseteq y.members
  BY <1>2 DEF Proposal
<1> HIDE DEF without, stays
<1>4. \A x \in kept : Sensible(x, team)
  <2>1. \A y \in preview.proposed : Sensible(without(y), team)
    BY <1>2, <1>3 DEF Meant, Sensible
  <2> QED  BY <2>1
<1>5. \A x \in added : Sensible(x, team)  BY NewTeamMeant
<1> HIDE DEF kept, added
<1>6. founding'.todo = todo  BY <1>1 DEF NoFounding
<1>7. Meant(founding'.todo, team)  BY <1>4, <1>5, <1>6 DEF Meant
<1> QED  BY <1>1, <1>7 DEF MeantInv, FormMeant, Meant, Sensible, tables

LEMMA FinalizeFormationPlaces ==
  ASSUME Placed(team, own), Good(team, own), MeantInv, FormInv,
         person \in [Participants -> Person], FinalizeFormation
  PROVE  Placed(team', own') /\ MeantInv'
<1> DEFINE m == View("formation")
           Kept == Placed(team', own') /\ MeantInv'
<1>1. "formation" \in Finalizers /\ m \in [Teams -> Team] /\ m = Seen(team, own, "formation")
  BY SeenRow DEF Finalizers
<1>2. \A x \in founding.todo :
        /\ x \in Proposal
        /\ x.kind \in {"backfill", "brief"} => x.team \in Teams
        /\ Sensible(x, team)
  BY DEF FormInv, Usable, MeantInv, Meant
<1>3. ASSUME UNCHANGED <<team, person>>, Placed(team, own') PROVE Placed(team', own')
  BY <1>3 DEF Placed, OneGroup
<1>4. ASSUME NEW excluded \in Excluded, NEW manual \in Manual, BeginFounding(excluded, manual)
      PROVE  Kept
  <2>1. MeantInv' /\ UNCHANGED <<team, own, person>>  BY <1>4, BeginFoundingMeant
  <2> QED  BY <1>3, <2>1
\* What a proposal writes to a team that is there.
<1>5. ASSUME NEW t \in Teams, team[t].status # "absent", NEW row \in Team,
             own' = [own EXCEPT !["formation"][t] = row], UNCHANGED <<team, person>>,
             row.status = m[t].status, row.group = m[t].group,
             row.members = m[t].members,
             \A p \in row.pending : p \in m[t].pending \/ person[p].group = team[t].group
      PROVE  Placed(team', own')
  <2>1. /\ Alike(m[t], team[t]) /\ OneGroup(m[t]) /\ m[t].status # "absent"
    BY <1>1, <1>5, SeenAlike
  <2> HIDE DEF m
  <2>2. row.status # "absent" /\ OneGroup(row) /\ Alike(row, team[t])
    BY <1>5, <2>1 DEF OneGroup, Here, Alike
  <2>3. Placed(team, own')  BY <1>1, <1>5, <2>2, FinalizerPlaces
  <2> QED  BY <1>3, <1>5, <2>3
<1>6. ASSUME NEW x \in founding.todo, ApplyBackfill(x) PROVE Kept
  <2> DEFINE t == x.team
             clash == x.members \cap (m[t].members \cup m[t].pending) # {}
             row == [m[t] EXCEPT !.pending = @ \cup x.members]
  <2>1. /\ Done(x, clash) /\ x.kind = "backfill"
        /\ own' = IF clash THEN own ELSE [own EXCEPT !["formation"][t] = row]
    BY <1>6 DEF ApplyBackfill, Write
  <2>2. /\ t \in Teams /\ team[t].status # "absent" /\ x.members \in SUBSET Participants
        /\ \A p \in x.members : person[p].group = team[t].group
    BY <1>2, <2>1 DEF Proposal, Sensible
  <2>3. MeantInv' /\ UNCHANGED <<team, person>>
    BY <2>1, DoneMeant DEF Done
  <2>4. CASE clash  BY <1>3, <2>1, <2>3, <2>4
  <2>5. CASE ~ clash
    <3>1. m[t] \in Team  BY <1>1, <2>2
    <3> HIDE DEF m, t
    <3>2. /\ row \in Team /\ row.status = m[t].status /\ row.group = m[t].group
          /\ row.members = m[t].members /\ row.pending = m[t].pending \cup x.members
      BY <2>2, <3>1 DEF Team
    <3>3. own' = [own EXCEPT !["formation"][t] = row]  BY <2>1, <2>5
    <3> HIDE DEF row
    <3>4. \A p \in row.pending : p \in m[t].pending \/ person[p].group = team[t].group
      BY <2>2, <3>2
    <3> QED  BY <1>5, <2>2, <2>3, <3>2, <3>3, <3>4
  <2> QED  BY <2>4, <2>5
<1>7. ASSUME NEW x \in founding.todo, ApplyBrief(x) PROVE Kept
  <2> DEFINE t == x.team
             row == [m[t] EXCEPT !.brief = x.brief]
             teams == [m EXCEPT ![t].brief = x.brief]
             accepted == BriefAccepted(teams, t)
  <2>1. /\ Done(x, ~ accepted) /\ x.kind = "brief"
        /\ own' = IF accepted THEN [own EXCEPT !["formation"][t] = teams[t]] ELSE own
    BY <1>7 DEF ApplyBrief, Write
  <2>2. t \in Teams /\ team[t].status # "absent" /\ x.brief \in Briefs \cup {Null}
    BY <1>2, <2>1 DEF Proposal, Sensible
  <2>3. MeantInv' /\ UNCHANGED <<team, person>>
    <3> HIDE DEF accepted
    <3> QED  BY <2>1, DoneMeant DEF Done
  <2>4. CASE ~ accepted  BY <1>3, <2>1, <2>3, <2>4
  <2>5. CASE accepted
    <3>1. m[t] \in Team  BY <1>1, <2>2
    <3>2. teams[t] = row  BY <1>1, <2>2
    <3> HIDE DEF m, t
    <3>3. /\ row \in Team /\ row.status = m[t].status /\ row.group = m[t].group
          /\ row.members = m[t].members /\ row.pending = m[t].pending
      BY <2>2, <3>1 DEF Team
    <3> HIDE DEF row, teams
    <3>4. own' = [own EXCEPT !["formation"][t] = row]  BY <2>1, <2>5, <3>2
    <3> QED  BY <1>5, <2>2, <2>3, <3>3, <3>4
  <2> QED  BY <2>4, <2>5
<1>8. ASSUME NEW x \in founding.todo, NEW t \in Teams, NEW lead \in x.members,
             ApplyTeam(x, t, lead)
      PROVE  Kept
  <2> DEFINE row == [status |-> "active", group |-> person[lead].group, brief |-> x.brief,
                     members |-> x.members, pending |-> {}]
  <2>1. team[t].status = "absent" /\ Done(x, FALSE) /\ Create(x, t, row)
    BY <1>8 DEF ApplyTeam
  <2>2. MeantInv' /\ UNCHANGED <<team, person>>  BY <2>1, DoneMeant DEF Done
  <2>3. /\ row \in Team /\ row.status = "active" /\ row.members = x.members
        /\ row.pending = {}
    <3>1. x.members \in SUBSET Participants /\ x.brief \in Briefs \cup {Null}
      BY <1>2 DEF Proposal
    <3>2. person[lead].group \in Groups \cup {Null}  BY <3>1 DEF Person
    <3> QED  BY <3>1, <3>2 DEF Team
  <2> HIDE DEF row
  <2>4. \/ own' = own
        \/ /\ own' = [own EXCEPT !["formation"][t] = row]
           /\ \A p \in row.members : person[p].group = row.group
           /\ Unplaced(m, row.members)
    BY <2>1 DEF Create, Write
  <2>5. CASE own' = own  BY <1>3, <2>2, <2>5
  <2>6. CASE /\ own' = [own EXCEPT !["formation"][t] = row]
             /\ \A p \in row.members : person[p].group = row.group
             /\ Unplaced(m, row.members)
    <3>1. row.status # "absent" /\ OneGroup(row)  BY <2>3, <2>6 DEF OneGroup
    <3> HIDE DEF m
    <3>2. \A u \in Teams \ {t} : Here(m[u]) => row.members \cap m[u].members = {}
      BY <2>6 DEF Unplaced, Here
    <3>3. Placed(team, own')
      BY <1>1, <2>1, <2>3, <2>6, <3>1, <3>2, FinalizerPlaces DEF m
    <3> QED  BY <1>3, <2>2, <3>3
  <2> QED  BY <2>4, <2>5, <2>6
<1>9. CASE CommitFounding \/ AbortFounding
  <2>1. /\ own' = [own EXCEPT !["formation"] = NoWrites] /\ founding' = NoFounding
        /\ preview' \in {preview, Null} /\ UNCHANGED <<person, forming>>
        /\ team' \in {team, m}
    BY <1>9 DEF CommitFounding, AbortFounding
  <2> HIDE DEF m
  <2>2. Placed(team, own') /\ Placed(m, own') /\ Stays(m) /\ Stays(team)
    BY <1>1, <2>1, RollBackPlaces, CommittedPlaces DEF Stays
  <2>3. Placed(team', own')
    <3>1. \A n : person' = person /\ team' = n /\ Placed(n, own') => Placed(team', own')
      BY DEF Placed, OneGroup
    <3> QED  BY <2>1, <2>2, <3>1
  <2>4. Stays(team')  BY <2>1, <2>2
  <2>5. FormMeant(forming, team')
    <3>1. Meant(forming.proposed, team')
      BY <2>4, MeantStays DEF MeantInv, FormInv, FormMeant, FormingHeld
    <3> QED  BY <2>4, <3>1 DEF MeantInv, FormMeant, Stays
  <2>6. preview' # Null => Meant(preview'.proposed, team')
    BY <2>1, <2>4, MeantStays DEF MeantInv, FormInv
  <2>7. Meant(founding'.todo, team')  BY <2>1 DEF NoFounding, Meant
  <2>8. MeantInv'
    BY <2>1, <2>5, <2>6, <2>7 DEF MeantInv, FormMeant, Meant, Sensible
  <2> QED  BY <2>3, <2>8
<1> QED  BY <1>4, <1>6, <1>7, <1>8, <1>9 DEF FinalizeFormation

\* Teams share nobody and are of one group, and proposals are sensible.
PeopleInv == Placed(team, own) /\ MeantInv

LEMMA InitPeople == ASSUME Init PROVE PeopleInv
<1>1. /\ person \in People /\ team \in Start /\ own = [f \in Finalizers |-> NoWrites]
      /\ forming = NoForming /\ preview = Null /\ founding = NoFounding
  BY DEF Init, InitPlaces, InitFormation
<1>2. \A f \in Finalizers, t \in Teams : own[f][t] = Null  BY <1>1 DEF NoWrites
<1>3. team \in [Teams -> Team] /\ "formation" \in Finalizers
  BY <1>1, StartAssumption DEF Finalizers
<1>4. Seen(team, own, "formation") = team  BY <1>2, <1>3 DEF Seen
<1>5. Apart(team)  BY <1>1, MembersAssumption DEF Apart, Here
<1>6. \A t \in Teams : OneGroup(team[t])  BY <1>1, MembersAssumption DEF OneGroup, Here
<1>7. \A t \in Teams : team[t].status = "absent" =>
        team[t].members = {} /\ team[t].pending = {}
  BY <1>1, MembersAssumption
<1>8. Placed(team, own)  BY <1>2, <1>4, <1>5, <1>6, <1>7 DEF Placed
<1>9. Meant({}, team)  BY DEF Meant
<1>10. FormMeant(NoForming, team)  BY <1>9, NoFormingMeant DEF FormMeant
<1>11. NoFounding.todo = {}  BY DEF NoFounding
<1> QED  BY <1>1, <1>8, <1>9, <1>10, <1>11 DEF PeopleInv, MeantInv

LEMMA NextPeople == ASSUME PlacesInv, PeopleInv, [Next]_vars PROVE PeopleInv'
<1> USE DEF PlacesInv
<1>p. Placed(team, own) /\ MeantInv  BY DEF PeopleInv
<1>0. ASSUME person' = person, Placed(team', own') PROVE Placed(team, own)'
  BY <1>0 DEF Placed, OneGroup, Apart, Seen, Here, Alike
<1>1. ASSUME UNCHANGED tables PROVE Placed(team', own') /\ Stays(team') /\ person' = person
  BY <1>p, <1>1 DEF tables, Placed, OneGroup, Stays, Apart, Seen
<1>2. ASSUME Placed(team', own'), Stays(team'), person' = person, UNCHANGED formVars
      PROVE  PeopleInv'
  <2>1. Placed(team, own)'  BY <1>0, <1>2
  <2>2. MeantInv'  BY <1>p, <1>2, MeantKept
  <2> QED  BY <2>1, <2>2 DEF PeopleInv
<1>3. CASE RunMatching /\ UNCHANGED formVars
  <2>1. UNCHANGED tables  BY <1>3, RunMatchingStep
  <2> QED  BY <1>1, <1>2, <1>3, <2>1
<1>4. CASE RunFormation
  <2>1. UNCHANGED tables  BY <1>4, RunFormationStep
  <2>2. Placed(team, own)'  BY <1>0, <1>1, <2>1
  <2>3. MeantInv'  BY <1>p, <1>4, <2>1, RunFormationMeant
  <2> QED  BY <2>2, <2>3 DEF PeopleInv
<1>5. CASE Others /\ UNCHANGED <<matchVars, formVars>>
  <2>1. Placed(team', own') /\ Stays(team') /\ person' = person
    BY <1>p, <1>5, OthersPlaces
  <2> QED  BY <1>2, <1>5, <2>1
<1>6. CASE FinalizeMatching /\ UNCHANGED formVars
  <2>1. Placed(team', own') /\ Stays(team') /\ person' = person
    BY <1>p, <1>6, FinalizeMatchingPlaces
  <2> QED  BY <1>2, <1>6, <2>1
<1>7. CASE FinalizeFormation
  <2>1. Placed(team', own') /\ MeantInv'  BY <1>p, <1>7, FinalizeFormationPlaces
  <2>2. person' = person  BY <1>7, FinalizeFormationStep
  <2>3. Placed(team, own)'  BY <1>0, <2>1, <2>2
  <2> QED  BY <2>1, <2>3 DEF PeopleInv
<1>8. CASE UNCHANGED vars
  <2>1. UNCHANGED <<tables, formVars>>  BY <1>8 DEF vars, places
  <2> QED  BY <1>1, <1>2, <2>1
<1> QED  BY <1>3, <1>4, <1>5, <1>6, <1>7, <1>8 DEF Next

\* Nobody is a confirmed member of two teams, and everybody in a team is of its
\* group, whatever previews the two finalizations carry out and however people move
\* meanwhile: what formation has written and nobody sees yet is apart from all teams
\* too, because joining one waits for the locks of those it has placed.
THEOREM PeopleFit == Spec => []OneTeamOfOneGroup
<1>1. Init => PeopleInv  BY InitPeople
<1>2. PlacesInv /\ PeopleInv /\ [Next]_vars => PeopleInv'  BY NextPeople
<1>3. PlacesInv /\ PeopleInv => OneTeamOfOneGroup
  <2> SUFFICES ASSUME PlacesInv, PeopleInv PROVE OneTeamOfOneGroup
    OBVIOUS
  <2>1. Apart(team)  BY TeamsApart DEF PlacesInv, PeopleInv
  <2>2. \A t \in Teams : OneGroup(team[t])  BY DEF PeopleInv, Placed
  <2> QED  BY <2>1, <2>2 DEF OneTeamOfOneGroup, Apart, OneGroup, Here, Exists
<1> QED  BY <1>1, <1>2, <1>3, PlacesHold, PTL DEF Spec

=============================================================================
