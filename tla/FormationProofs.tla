------------------------- MODULE FormationProofs -------------------------
(***************************************************************************)
(* Theorems about what team formation proposes and carries out, in         *)
(* Placement, for any number of teams, participants and briefs.            *)
(***************************************************************************)
EXTENDS PlacementProofs

-----------------------------------------------------------------------------
(* Pools of people.                                                         *)

LEMMA PeopleFinite ==
  ASSUME NEW S \in SUBSET Participants
  PROVE  IsFiniteSet(S) /\ Cardinality(S) \in Nat
BY PlaceAssumption, FS_Subset, FS_CardinalityType

LEMMA FewerPeople ==
  ASSUME NEW S \in SUBSET Participants, NEW R \in SUBSET S
  PROVE  Cardinality(R) <= Cardinality(S)
BY PeopleFinite, FS_Subset

\* A finite set has subsets of every smaller size.
LEMMA SubsetOfSize ==
  ASSUME NEW S, IsFiniteSet(S), NEW k \in 0 .. Cardinality(S)
  PROVE  kSubset(k, S) # {}
<1> DEFINE n == Cardinality(S)
<1>1. n \in Nat /\ ExistsBijection(1 .. n, S)  BY FS_CardinalityType
<1>2. PICK f : f \in Bijection(1 .. n, S)  BY <1>1 DEF ExistsBijection
<1>3. /\ f \in [1 .. n -> S]
      /\ \A i, j \in 1 .. n : f[i] = f[j] => i = j
  BY <1>2 DEF Bijection, Injection, IsInjective
<1>4. k \in Nat /\ k <= n  BY <1>1
<1> HIDE DEF n
<1>5. 1 .. k \subseteq 1 .. n  BY <1>1, <1>4
<1> DEFINE T == {f[i] : i \in 1 .. k}
           g == [i \in 1 .. k |-> f[i]]
<1>6. T \in SUBSET S  BY <1>3, <1>5
<1>7. g \in Bijection(1 .. k, T)
  <2>1. g \in [1 .. k -> T] /\ \A i \in 1 .. k : g[i] = f[i]  OBVIOUS
  <2>2. \A i, j \in 1 .. k : g[i] = g[j] => i = j  BY <1>3, <1>5
  <2>3. \A y \in T : \E i \in 1 .. k : g[i] = y  OBVIOUS
  <2> HIDE DEF g, T
  <2> QED  BY <2>1, <2>2, <2>3 DEF Bijection, Injection, Surjection, IsInjective
<1> HIDE DEF T, g
<1>8. ExistsBijection(1 .. k, T)  BY <1>7 DEF ExistsBijection
<1>9. IsFiniteSet(1 .. k) /\ Cardinality(1 .. k) = k  BY <1>4, FS_Interval
<1>10. Cardinality(T) = k  BY <1>8, <1>9, FS_Bijection
<1>11. T \in kSubset(k, S)  BY <1>6, <1>10 DEF kSubset
<1> QED  BY <1>11

\* What can be formed of a pool is a team of legal size.
LEMMA FormableSize ==
  ASSUME NEW pool \in SUBSET Participants, NEW S \in Formable(pool)
  PROVE  S \in SUBSET pool /\ SizeMin <= Cardinality(S) /\ Cardinality(S) <= SizeMax
<1> DEFINE size == IF Cardinality(pool) < SizeMax THEN Cardinality(pool) ELSE SizeMax
<1>1. Formable(pool) = IF size < SizeMin THEN {} ELSE kSubset(size, pool)  BY DEF Formable
<1>2. Cardinality(pool) \in Nat  BY PeopleFinite
<1>3. size \in Nat /\ size <= SizeMax  BY <1>2, SizeAssumption
<1> HIDE DEF size
<1>4. ~ size < SizeMin /\ S \in kSubset(size, pool)  BY <1>1
<1>5. S \in SUBSET pool /\ Cardinality(S) = size  BY <1>4 DEF kSubset
<1> QED  BY <1>3, <1>4, <1>5, SizeAssumption

\* When nothing can be formed, too few people are there.
LEMMA NotFormable ==
  ASSUME NEW pool \in SUBSET Participants, Formable(pool) = {}
  PROVE  Cardinality(pool) < SizeMin
<1> DEFINE size == IF Cardinality(pool) < SizeMax THEN Cardinality(pool) ELSE SizeMax
<1>1. Formable(pool) = IF size < SizeMin THEN {} ELSE kSubset(size, pool)  BY DEF Formable
<1>2. IsFiniteSet(pool) /\ Cardinality(pool) \in Nat  BY PeopleFinite
<1>3. size \in 0 .. Cardinality(pool)  BY <1>2, SizeAssumption
<1>4. size < SizeMin => Cardinality(pool) < SizeMin  BY <1>2, SizeAssumption
<1> HIDE DEF size
<1>5. kSubset(size, pool) # {}  BY <1>2, <1>3, SubsetOfSize
<1> QED  BY <1>1, <1>4, <1>5

-----------------------------------------------------------------------------
(* What a run has proposed, and what it may propose next.                   *)

Unlike(x, y) ==
  /\ x.members \cap y.members = {}
  /\ x.kind = y.kind => x.team = Null \/ x.team # y.team
  /\ x.brief = Null \/ x.brief # y.brief
Legal(S) ==
  /\ SizeMin <= Cardinality(S) /\ Cardinality(S) <= SizeMax
  /\ \A p, q \in S : person[p].group = person[q].group

LEMMA SoundParts ==
  ASSUME NEW P
  PROVE  SoundProposals(P) <=> /\ \A x, y \in P : x # y => Unlike(x, y)
                               /\ \A x \in P : x.kind = "team" => Legal(x.members)
BY DEF SoundProposals, Unlike, Legal

LEMMA SoundMore ==
  ASSUME NEW P, SoundProposals(P), NEW x, \A y \in P : Unlike(x, y),
         x.kind = "team" => Legal(x.members)
  PROVE  SoundProposals(P \cup {x})
<1>1. \A y \in P : Unlike(y, x)  BY DEF Unlike
<1> QED  BY <1>1, SoundParts

\* The people and the brief of a proposal, and the team that a brief is for, are
\* no longer there to be proposed.
Settled(x, f) ==
  /\ x.kind = "backfill" => x.brief = Null
  /\ x.kind = "brief" => x.members = {} /\ \A b \in Briefs : <<x.team, b>> \notin f.spare
  /\ x.kind = "team" => x.team = Null
  /\ x.kind # "manual"
  /\ x.members \cap f.left = {}
  /\ x.brief # Null => x.brief \notin f.waiting
\* Teams that are not full get people before any team gets a brief.
InOrder(f) ==
  /\ f.step \in {"idle", "teams"} => f.proposed = {}
  /\ f.step \in {"backfill", "briefs", "spare"} => \A x \in f.proposed : x.kind = "backfill"
  /\ f.step = "backfill" => \A x \in f.proposed : f.size[x.team] = Null
RunSound(f) == /\ SoundProposals(f.proposed) /\ \A x \in f.proposed : Settled(x, f)
               /\ InOrder(f)

\* There is less to propose.
Less(f, g) == f.left \subseteq g.left /\ f.spare \subseteq g.spare /\ f.waiting \subseteq g.waiting

LEMMA SettledKept ==
  ASSUME NEW f, NEW g, Less(f, g), NEW x, Settled(x, g) PROVE Settled(x, f)
BY DEF Less, Settled

LEMMA SoundKept ==
  ASSUME NEW f, NEW g, RunSound(g), Less(f, g), f.proposed = g.proposed, InOrder(f)
  PROVE  RunSound(f)
BY SettledKept DEF RunSound

LEMMA SoundAdded ==
  ASSUME NEW f, NEW g, RunSound(g), Less(f, g), NEW x, f.proposed = g.proposed \cup {x},
         InOrder(f), Settled(x, f), \A y \in g.proposed : Unlike(x, y),
         x.kind = "team" => Legal(x.members)
  PROVE  RunSound(f)
<1>1. SoundProposals(f.proposed)  BY SoundMore DEF RunSound
<1>2. \A y \in f.proposed : Settled(y, f)  BY SettledKept DEF RunSound
<1> QED  BY <1>1, <1>2 DEF RunSound

LEMMA NothingProposed ==
  ASSUME NEW f, f.proposed = {} PROVE RunSound(f)
BY DEF RunSound, SoundProposals, InOrder

\* Too few people of any group are left for a team.
TooFew(left) == \A g \in Pooled : Cardinality({p \in left : person[p].group = g}) < SizeMin
\* In a round without progress no brief waits of a vertical that has had its turn.
Visited(f) == f.progress \/ \A i \in 1 .. f.vertical - 1 : OfVertical(i) \cap f.waiting = {}
\* A round looks at every brief that needs a team, unless there are no people for one.
RunFair(f) ==
  /\ f.step \in {"briefs", "spare", "round"} => f.byBrief
  /\ f.step # "round" => f.vertical = 1
  /\ f.step \in {"spare", "round"} =>
       /\ \A b \in f.waiting : \E i \in DOMAIN Verticals : b \in OfVertical(i)
       /\ TooFew(f.left) \/ (f.open \subseteq Idle \cup f.waiting /\ Visited(f))

LEMMA FewerLeft ==
  ASSUME NEW S \in SUBSET Participants, TooFew(S), NEW R \in SUBSET S
  PROVE  TooFew(R)
<1> SUFFICES ASSUME NEW g \in Pooled
             PROVE  Cardinality({p \in R : person[p].group = g}) < SizeMin
  BY DEF TooFew
<1> DEFINE A == {p \in S : person[p].group = g}
           B == {p \in R : person[p].group = g}
<1>1. A \in SUBSET Participants /\ B \in SUBSET A  OBVIOUS
<1>2. Cardinality(A) < SizeMin  BY DEF TooFew
<1> HIDE DEF A, B
<1>3. Cardinality(B) <= Cardinality(A)  BY <1>1, FewerPeople
<1>4. Cardinality(A) \in Nat /\ Cardinality(B) \in Nat
  <2>1. B \in SUBSET Participants  BY <1>1
  <2> QED  BY <1>1, <2>1, PeopleFinite
<1>5. Cardinality(B) < SizeMin  BY <1>2, <1>3, <1>4, SizeAssumption
<1> QED  BY <1>5 DEF B

\* No team can be formed of any group.
LEMMA NoneFormable ==
  ASSUME forming.left \subseteq Participants,
         \A g \in Pooled : Formable(InGroup(g)) = {}
  PROVE  TooFew(forming.left)
<1> SUFFICES ASSUME NEW g \in Pooled PROVE Cardinality(InGroup(g)) < SizeMin
  BY DEF TooFew, InGroup
<1>1. InGroup(g) \in SUBSET Participants  BY DEF InGroup
<1> QED  BY <1>1, NotFormable

\* Whoever is formed into a team is of one group.
LEMMA FormedOfGroup ==
  ASSUME forming.left \subseteq Participants, NEW g, NEW pool \in SUBSET InGroup(g),
         NEW S \in Formable(pool)
  PROVE  S \in SUBSET forming.left /\ Legal(S)
<1>1. InGroup(g) \in SUBSET forming.left /\ \A p \in InGroup(g) : person[p].group = g
  BY DEF InGroup
<1>2. pool \in SUBSET Participants  BY <1>1
<1>3. S \in SUBSET pool /\ SizeMin <= Cardinality(S) /\ Cardinality(S) <= SizeMax
  BY <1>2, FormableSize
<1> QED  BY <1>1, <1>3 DEF Legal

-----------------------------------------------------------------------------
(* Steps of a run.                                                          *)

\* A preview: sound, and with nobody left over who could have been a team.
Shown(v) == /\ SoundProposals(v.proposed) /\ \A x \in v.proposed : x.kind # "manual"
            /\ TooFew(v.people) \/ (v.byBrief /\ v.briefs \subseteq Idle)
RunOk(f) == f \in Forming /\ RunSound(f) /\ RunFair(f)
RunInv == RunOk(forming) /\ preview \in Preview \cup {Null} /\ (preview # Null => Shown(preview))

LEMMA NoFormingOk == RunOk(NoForming)
<1>1. NoForming \in Forming  BY DEF NoForming, Forming
<1>2. NoForming.proposed = {} /\ NoForming.step = "idle" /\ NoForming.vertical = 1
  BY DEF NoForming
<1>3. RunSound(NoForming)  BY <1>2, NothingProposed
<1>4. RunFair(NoForming)  BY <1>2 DEF RunFair
<1> QED  BY <1>1, <1>3, <1>4 DEF RunOk

\* Nothing but the call that forms teams, the preview, and the people is looked at.
LEMMA RunInvNext ==
  ASSUME person' = person, RunOk(forming'), preview' \in Preview \cup {Null},
         preview' # Null => Shown(preview')
  PROVE  RunInv'
BY DEF RunInv, RunOk, RunSound, RunFair, InOrder, Settled, Visited, Shown, SoundProposals,
       TooFew, Forming, Proposal

LEMMA GoOn ==
  ASSUME RunInv, UNCHANGED tables, NEW new, Go(new), RunOk(new)
  PROVE  RunInv'
<1>1. forming' = new /\ UNCHANGED <<person, preview>>  BY DEF Go, tables
<1> QED  BY <1>1, RunInvNext DEF RunInv

LEMMA ShowOn ==
  ASSUME RunInv, UNCHANGED tables, Show,
         TooFew(forming.left) \/ (forming.byBrief /\ forming.open \subseteq Idle)
  PROVE  RunInv'
<1>1. /\ forming' = NoForming /\ person' = person
      /\ preview' = [proposed |-> forming.proposed, byBrief |-> forming.byBrief,
                     people |-> forming.left, briefs |-> forming.open]
  BY DEF Show, tables
<1>2. forming \in Forming /\ RunSound(forming)  BY DEF RunInv, RunOk
<1>3. preview' \in Preview  BY <1>1, <1>2 DEF Forming, Preview
<1>4. Shown(preview')  BY <1>1, <1>2 DEF Shown, RunSound, Settled
<1> QED  BY <1>1, <1>3, <1>4, NoFormingOk, RunInvNext

\* One proposal more, or none.
LEMMA RunOn ==
  ASSUME RunSound(forming), NEW new, Less(new, forming), InOrder(new), RunFair(new),
         new \in Forming, NEW x,
         \/ new.proposed = forming.proposed
         \/ /\ new.proposed = forming.proposed \cup {x}
            /\ Settled(x, new) /\ \A y \in forming.proposed : Unlike(x, y)
            /\ x.kind = "team" => Legal(x.members)
  PROVE  RunOk(new)
BY SoundKept, SoundAdded DEF RunOk

LEMMA PassedType ==
  ASSUME forming \in Forming, NEW b
  PROVE  /\ Passed(b) \in Forming /\ Passed(b).waiting = forming.waiting \ {b}
         /\ Passed(b).step = forming.step /\ Passed(b).byBrief = forming.byBrief
         /\ Passed(b).left = forming.left /\ Passed(b).open = forming.open
         /\ Passed(b).spare = forming.spare /\ Passed(b).proposed = forming.proposed
<1> DEFINE v == forming.vertical + 1
           w == forming.waiting \ {b}
<1>1. v \in Nat /\ w \in SUBSET Briefs  BY DEF Forming
<1>2. Passed(b) = [forming EXCEPT !.vertical = v, !.waiting = w]  BY DEF Passed
<1> HIDE DEF v
<1>3. w = forming.waiting \ {b}  OBVIOUS
<1> HIDE DEF w
<1> QED  BY <1>1, <1>2, <1>3 DEF Forming

LEMMA RunFormationInv ==
  ASSUME RunInv, FormInv, Good(team, own), RunFormation, UNCHANGED tables PROVE RunInv'
<1>1. /\ forming \in Forming /\ RunSound(forming) /\ RunFair(forming)
      /\ forming.left \in SUBSET Participants /\ forming.proposed \in SUBSET Proposal
      /\ forming.waiting \in SUBSET Briefs /\ forming.vertical \in Nat
  BY DEF RunInv, RunOk, Forming
<1>2. \A y \in forming.proposed :
        /\ y.kind = "backfill" => y.team \in Teams
        /\ Settled(y, forming)
  BY <1>1 DEF FormInv, FormingHeld, Usable, RunSound
<1>3. InOrder(forming)  BY <1>1 DEF RunSound
<1>4. ASSUME NEW byBrief \in BOOLEAN, NEW force \in BOOLEAN, ReadParticipants(byBrief, force)
      PROVE  RunInv'
  <2> DEFINE all == {p \in Participants : /\ ~ Attached(p) /\ person[p].active
                                    /\ person[p].group \in Pooled}
             new == [NoForming EXCEPT !.step = "teams", !.byBrief = byBrief,
                          !.force = force, !.all = all, !.left = all]
  <2>1. forming' = new /\ UNCHANGED <<preview, person>>
    BY <1>4 DEF ReadParticipants, tables
  <2>2. all \in SUBSET Participants  OBVIOUS
  <2> HIDE DEF all
  <2>3. new \in Forming /\ new.proposed = {} /\ new.step = "teams" /\ new.vertical = 1
    BY <2>2, NoFormingOk DEF RunOk, Forming, NoForming
  <2> HIDE DEF new
  <2>4. RunOk(new)  BY <2>3, NothingProposed DEF RunOk, RunFair
  <2> QED  BY <2>1, <2>4, RunInvNext DEF RunInv
<1>5. CASE ReadUndersized
  <2> DEFINE size == [t \in Teams |-> LET n == Cardinality({p \in team[t].members : person[p].active})
                                     IN IF Open(t) /\ n < SizeMax THEN n ELSE Null]
             new == [forming EXCEPT !.step = "backfill", !.size = size]
  <2>1. Go(new) /\ forming.step = "teams"  BY <1>5 DEF ReadUndersized, In
  <2>2. size \in [Teams -> 0 .. SizeMax \cup {Null}]
    <3>1. \A t \in Teams : Cardinality({p \in team[t].members : person[p].active}) \in Nat
      <4>1. \A t \in Teams : {p \in team[t].members : person[p].active} \subseteq Participants
        BY OwnRows DEF Team
      <4> QED  BY <4>1, PeopleFinite
    <3> QED  BY <3>1, SizeAssumption
  <2> HIDE DEF size
  <2>3. /\ new \in Forming /\ new.step = "backfill" /\ new.proposed = forming.proposed
        /\ new.vertical = forming.vertical
    BY <1>1, <2>2 DEF Forming
  <2>4. new.proposed = {} /\ new.vertical = 1  BY <1>1, <1>3, <2>1, <2>3 DEF InOrder, RunFair
  <2> HIDE DEF new
  <2>5. RunOk(new)  BY <2>3, <2>4, NothingProposed DEF RunOk, RunFair
  <2> QED  BY <2>1, <2>5, GoOn
<1>6. ASSUME NEW t \in Teams, NEW S \in SUBSET Compatible(t), ProposeBackfill(t, S)
      PROVE  RunInv'
  <2> DEFINE x == Backfill(t, S)
             proposed == IF S = {} THEN forming.proposed ELSE forming.proposed \cup {x}
             size == [forming.size EXCEPT ![t] = Null]
             new == [forming EXCEPT !.size[t] = Null, !.left = @ \ S, !.proposed = proposed]
  <2>1. Go(new) /\ forming.step = "backfill" /\ forming.size[t] # Null
    BY <1>6 DEF ProposeBackfill, In, Smallest
  <2>2. S \in SUBSET forming.left  BY DEF Compatible
  <2>3. /\ x \in Proposal /\ x.kind = "backfill" /\ x.team = t /\ x.members = S /\ x.brief = Null
    BY <1>1, <2>2, ProposalTypes DEF Backfill
  <2>4. /\ proposed \in {forming.proposed, forming.proposed \cup {x}}
        /\ proposed \in SUBSET Proposal
    BY <1>1, <2>3
  <2>5. /\ size \in [Teams -> 0 .. SizeMax \cup {Null}] /\ size[t] = Null
        /\ \A u \in Teams : forming.size[u] = Null => size[u] = Null
    BY <1>1 DEF Forming
  <2> HIDE DEF proposed, x
  <2>6. /\ new \in Forming /\ new.step = "backfill" /\ new.proposed = proposed
        /\ new.vertical = forming.vertical /\ new.size = size /\ new.left = forming.left \ S
        /\ new.spare = forming.spare /\ new.waiting = forming.waiting
    BY <1>1, <2>1, <2>4, <2>5 DEF Forming
  <2> HIDE DEF new, size
  <2>7. \A y \in forming.proposed :
          /\ y.kind = "backfill" /\ y.team \in Teams /\ forming.size[y.team] = Null
          /\ y.members \cap forming.left = {}
    BY <1>2, <1>3, <2>1 DEF InOrder, Settled
  <2>8. InOrder(new)  BY <2>3, <2>4, <2>5, <2>6, <2>7 DEF InOrder
  <2>9. Settled(x, new)  BY <2>3, <2>6 DEF Settled
  <2>10. \A y \in forming.proposed : Unlike(x, y)  BY <2>1, <2>2, <2>3, <2>7 DEF Unlike
  <2>11. RunFair(new)  BY <1>1, <2>1, <2>6 DEF RunFair
  <2>12. Less(new, forming)  BY <2>6 DEF Less
  <2>13. RunOk(new)  BY <1>1, <2>3, <2>4, <2>6, <2>8, <2>9, <2>10, <2>11, <2>12, RunOn
  <2> QED  BY <2>1, <2>13, GoOn
<1>7. CASE EndBackfill
  <2> DEFINE step == IF forming.byBrief THEN "briefs" ELSE "same"
             new == [forming EXCEPT !.step = step]
  <2>1. Go(new) /\ forming.step = "backfill"  BY <1>7 DEF EndBackfill, In
  <2>2. step \in {"briefs", "same"} /\ (step = "briefs" => forming.byBrief)  OBVIOUS
  <2> HIDE DEF step
  <2>3. /\ new \in Forming /\ new.step = step /\ new.proposed = forming.proposed
        /\ new.vertical = forming.vertical /\ new.left = forming.left
        /\ new.spare = forming.spare /\ new.waiting = forming.waiting
        /\ new.byBrief = forming.byBrief
    BY <1>1, <2>2 DEF Forming, Phases
  <2> HIDE DEF new
  <2>4. InOrder(new)  BY <1>3, <2>1, <2>2, <2>3 DEF InOrder
  <2>5. RunFair(new)  BY <1>1, <2>1, <2>2, <2>3 DEF RunFair
  <2>6. Less(new, forming)  BY <2>3 DEF Less
  <2>7. RunOk(new)  BY <1>1, <2>3, <2>4, <2>5, <2>6, RunOn
  <2> QED  BY <2>1, <2>7, GoOn
<1>8. CASE ReadBriefLists
  <2> DEFINE waiting == {b \in Briefs : Needs(b) /\ \E i \in DOMAIN Verticals : b \in OfVertical(i)}
             open == {b \in Idle : Needs(b)} \cup waiting
             new == [forming EXCEPT !.step = "spare", !.waiting = waiting, !.open = open]
  <2>1. Go(new) /\ forming.step = "briefs"  BY <1>8 DEF ReadBriefLists, In
  <2>2. /\ waiting \in SUBSET Briefs /\ open \in SUBSET Briefs /\ open \subseteq Idle \cup waiting
        /\ \A b \in waiting : \E i \in DOMAIN Verticals : b \in OfVertical(i)
    BY VerticalsAssumption
  <2> HIDE DEF waiting, open
  <2>3. /\ new \in Forming /\ new.step = "spare" /\ new.proposed = forming.proposed
        /\ new.vertical = forming.vertical /\ new.left = forming.left /\ new.open = open
        /\ new.spare = forming.spare /\ new.waiting = waiting /\ new.byBrief = forming.byBrief
    BY <1>1, <2>2 DEF Forming
  <2> HIDE DEF new
  <2>4. \A y \in forming.proposed : y.kind = "backfill" /\ y.brief = Null
    BY <1>2, <1>3, <2>1 DEF InOrder, Settled
  <2>5. InOrder(new)  BY <2>3, <2>4 DEF InOrder
  <2>6. \A y \in new.proposed : Settled(y, new)
    BY <1>2, <2>3, <2>4 DEF Settled
  <2>7. new.vertical = 1 /\ new.byBrief  BY <1>1, <2>1, <2>3 DEF RunFair
  <2>8. Visited(new)  BY <2>7 DEF Visited
  <2>9. RunFair(new)  BY <2>2, <2>3, <2>7, <2>8 DEF RunFair
  <2>10. RunOk(new)  BY <1>1, <2>3, <2>5, <2>6, <2>9 DEF RunOk, RunSound
  <2> QED  BY <2>1, <2>10, GoOn
<1>9. ASSUME NEW suits \in Suits, ReadSpareTeams(suits) PROVE RunInv'
  <2> DEFINE again == [NoForming EXCEPT !.step = "teams", !.force = forming.force,
                                        !.all = forming.all, !.left = forming.all]
             idle == {x \in suits : Open(x[1]) /\ team[x[1]].brief = Null}
             on == [forming EXCEPT !.step = "round", !.spare = idle]
  <2>1. (Go(again) \/ Go(on)) /\ forming.step = "spare"  BY <1>9 DEF ReadSpareTeams, In
  <2>2. idle \in SUBSET (Teams \X Briefs)  BY VerticalsAssumption
  <2> HIDE DEF idle
  <2>3. /\ on \in Forming /\ on.step = "round" /\ on.proposed = forming.proposed
        /\ on.vertical = forming.vertical /\ on.left = forming.left /\ on.open = forming.open
        /\ on.waiting = forming.waiting /\ on.byBrief = forming.byBrief
        /\ on.progress = forming.progress
    BY <1>1, <2>2 DEF Forming
  <2>4. again \in Forming /\ again.proposed = {} /\ again.step = "teams" /\ again.vertical = 1
    BY <1>1, NoFormingOk DEF RunOk, Forming, NoForming
  <2> HIDE DEF on, again
  <2>5. RunOk(again)  BY <2>4, NothingProposed DEF RunOk, RunFair
  <2>6. \A y \in forming.proposed : y.kind = "backfill"
    BY <1>3, <2>1 DEF InOrder
  <2>7. InOrder(on)  BY <2>3 DEF InOrder
  <2>8. \A y \in on.proposed : Settled(y, on)
    BY <1>2, <2>3, <2>6 DEF Settled
  <2>9. RunFair(on)  BY <1>1, <2>1, <2>3 DEF RunFair, Visited
  <2>10. RunOk(on)  BY <1>1, <2>3, <2>7, <2>8, <2>9 DEF RunOk, RunSound
  <2> QED  BY <2>1, <2>5, <2>10, GoOn
\* The turn of a brief.
<1>10. ASSUME NEW b \in Briefs, Turn(b)
       PROVE  /\ forming.step = "round" /\ b \in forming.waiting /\ b # Null
              /\ forming.byBrief
              /\ \A c \in forming.waiting : \E i \in DOMAIN Verticals : c \in OfVertical(i)
              /\ TooFew(forming.left) \/ forming.open \subseteq Idle \cup forming.waiting
              /\ \A y \in forming.proposed : y.brief # b /\ y.members \cap forming.left = {}
  <2>1. forming.step = "round" /\ b \in forming.waiting  BY <1>10 DEF Turn, In
  <2>2. b # Null  BY PlaceAssumption
  <2>3. \A y \in forming.proposed : y.brief # b /\ y.members \cap forming.left = {}
    BY <1>2, <2>1, <2>2 DEF Settled
  <2> QED  BY <1>1, <2>1, <2>2, <2>3 DEF RunFair
<1>11. ASSUME NEW b \in Briefs, NEW t \in Teams, GiveToTeam(t, b) PROVE RunInv'
  <2> DEFINE x == BriefFor(t, b)
             spare == {y \in forming.spare : y[1] # t}
             new == [Passed(b) EXCEPT !.progress = TRUE, !.open = @ \ {b},
                       !.spare = {y \in @ : y[1] # t}, !.proposed = @ \cup {x}]
  <2>1. Go(new) /\ Turn(b) /\ <<t, b>> \in forming.spare  BY <1>11 DEF GiveToTeam, Suitable
  <2>2. /\ x \in Proposal /\ x.kind = "brief" /\ x.team = t /\ x.members = {} /\ x.brief = b
    BY ProposalTypes DEF BriefFor
  <2>3. /\ spare \subseteq forming.spare /\ \A c \in Briefs : <<t, c>> \notin spare
    OBVIOUS
  <2> HIDE DEF x
  <2>4. /\ new \in Forming /\ new.step = forming.step /\ new.progress = TRUE
        /\ new.proposed = forming.proposed \cup {x} /\ new.left = forming.left
        /\ new.open = forming.open \ {b} /\ new.spare = spare
        /\ new.waiting = forming.waiting \ {b} /\ new.byBrief = forming.byBrief
    <3> DEFINE f == Passed(b)
    <3>1. f \in Forming  BY <1>1, PassedType
    <3> HIDE DEF f
    <3>2. /\ new \in Forming /\ new.step = f.step /\ new.progress = TRUE
          /\ new.proposed = f.proposed \cup {x} /\ new.left = f.left
          /\ new.open = f.open \ {b} /\ new.spare = {y \in f.spare : y[1] # t}
          /\ new.waiting = f.waiting /\ new.byBrief = f.byBrief
      BY <2>2, <3>1 DEF Forming, f
    <3> QED  BY <1>1, <3>2, PassedType DEF f
  <2> HIDE DEF new, spare
  <2>5. Less(new, forming)  BY <2>3, <2>4 DEF Less
  <2>6. InOrder(new)  BY <1>10, <2>1, <2>4 DEF InOrder
  <2>7. Settled(x, new)  BY <1>10, <2>1, <2>2, <2>3, <2>4 DEF Settled
  <2>8. \A y \in forming.proposed : Unlike(x, y)
    <3> SUFFICES ASSUME NEW y \in forming.proposed PROVE Unlike(x, y)
      OBVIOUS
    <3>1. y.brief # b  BY <1>10, <2>1
    <3>2. y.kind = "brief" => y.team # t  BY <1>2, <2>1 DEF Settled
    <3> QED  BY <2>2, <3>1, <3>2 DEF Unlike
  <2>9. RunFair(new)  BY <1>10, <2>1, <2>4 DEF RunFair, Visited
  <2>10. RunOk(new)  BY <1>1, <2>2, <2>4, <2>5, <2>6, <2>7, <2>8, <2>9, RunOn
  <2> QED  BY <2>1, <2>10, GoOn
<1>12. ASSUME NEW b \in Briefs, NEW S \in SUBSET forming.left, GiveToNewTeam(S, b)
       PROVE  RunInv'
  <2> DEFINE x == NewTeam("team", S, b)
             new == [Passed(b) EXCEPT !.progress = TRUE, !.open = @ \ {b},
                       !.left = @ \ S, !.proposed = @ \cup {x}]
  <2>1. Go(new) /\ Turn(b) /\ \E g \in Pooled : S \in Formable(InGroup(g))
    BY <1>12 DEF GiveToNewTeam
  <2>2. Legal(S)  BY <1>1, <2>1, FormedOfGroup
  <2>3. /\ x \in Proposal /\ x.kind = "team" /\ x.team = Null /\ x.members = S /\ x.brief = b
    BY <1>1, ProposalTypes DEF NewTeam
  <2> HIDE DEF x
  <2>4. /\ new \in Forming /\ new.step = forming.step /\ new.progress = TRUE
        /\ new.proposed = forming.proposed \cup {x} /\ new.left = forming.left \ S
        /\ new.open = forming.open \ {b} /\ new.spare = forming.spare
        /\ new.waiting = forming.waiting \ {b} /\ new.byBrief = forming.byBrief
    <3> DEFINE f == Passed(b)
    <3>1. f \in Forming  BY <1>1, PassedType
    <3> HIDE DEF f
    <3>2. /\ new \in Forming /\ new.step = f.step /\ new.progress = TRUE
          /\ new.proposed = f.proposed \cup {x} /\ new.left = f.left \ S
          /\ new.open = f.open \ {b} /\ new.spare = f.spare
          /\ new.waiting = f.waiting /\ new.byBrief = f.byBrief
      BY <2>3, <3>1 DEF Forming, f
    <3> QED  BY <1>1, <3>2, PassedType DEF f
  <2> HIDE DEF new
  <2>5. Less(new, forming)  BY <2>4 DEF Less
  <2>6. InOrder(new)  BY <1>10, <2>1, <2>4 DEF InOrder
  <2>7. Settled(x, new)  BY <2>3, <2>4 DEF Settled
  <2>8. \A y \in forming.proposed : Unlike(x, y)
    BY <1>10, <2>1, <2>3 DEF Unlike
  <2>9. TooFew(forming.left) => TooFew(new.left)  BY <1>1, <2>4, FewerLeft
  <2>10. RunFair(new)  BY <1>10, <2>1, <2>4, <2>9 DEF RunFair, Visited
  <2>11. RunOk(new)  BY <1>1, <2>2, <2>3, <2>4, <2>5, <2>6, <2>7, <2>8, <2>10, RunOn
  <2> QED  BY <2>1, <2>11, GoOn
<1>13. ASSUME NEW b \in Briefs, PassOver(b) PROVE RunInv'
  <2> DEFINE new == Passed(b)
  <2>1. Go(new) /\ Turn(b) /\ \A g \in Pooled : Formable(InGroup(g)) = {}
    BY <1>13 DEF PassOver
  <2>2. TooFew(forming.left)  BY <1>1, <2>1, NoneFormable
  <2>3. /\ new \in Forming /\ new.step = forming.step /\ new.proposed = forming.proposed
        /\ new.left = forming.left /\ new.spare = forming.spare
        /\ new.waiting = forming.waiting \ {b} /\ new.byBrief = forming.byBrief
    BY <1>1, PassedType
  <2> HIDE DEF new
  <2>4. Less(new, forming) /\ InOrder(new)  BY <1>10, <2>1, <2>3 DEF Less, InOrder
  <2>5. RunFair(new)  BY <1>10, <2>1, <2>2, <2>3 DEF RunFair
  <2>6. RunOk(new)  BY <1>1, <2>3, <2>4, <2>5, RunOn
  <2> QED  BY <2>1, <2>6, GoOn
<1>14. CASE SkipVertical
  <2> DEFINE v == forming.vertical
             new == [forming EXCEPT !.vertical = @ + 1]
  <2>1. Go(new) /\ forming.step = "round" /\ OfVertical(v) \cap forming.waiting = {}
    BY <1>14 DEF SkipVertical, In
  <2>2. /\ new \in Forming /\ new.step = "round" /\ new.proposed = forming.proposed
        /\ new.left = forming.left /\ new.spare = forming.spare /\ new.open = forming.open
        /\ new.waiting = forming.waiting /\ new.byBrief = forming.byBrief
        /\ new.progress = forming.progress /\ new.vertical = v + 1
    BY <1>1, <2>1 DEF Forming
  <2> HIDE DEF new
  <2>3. Less(new, forming) /\ InOrder(new)  BY <2>2 DEF Less, InOrder
  <2>4. v \in Nat  BY <1>1
  <2> HIDE DEF v
  <2>5. \A i \in 1 .. (v + 1) - 1 : i = v \/ i \in 1 .. v - 1  BY <2>4
  <2>6. Visited(forming) => Visited(new)  BY <2>1, <2>2, <2>5 DEF Visited, v
  <2>7. RunFair(new)  BY <1>1, <2>1, <2>2, <2>6 DEF RunFair
  <2>8. RunOk(new)  BY <1>1, <2>2, <2>3, <2>7, RunOn
  <2> QED  BY <2>1, <2>8, GoOn
<1>15. CASE EndRound
  <2> DEFINE new == [forming EXCEPT !.vertical = 1, !.progress = FALSE]
  <2>1. /\ forming.step = "round" /\ forming.vertical > Len(Verticals)
        /\ IF forming.progress THEN Go(new) ELSE Show
    BY <1>15 DEF EndRound, In
  <2>2. /\ forming.byBrief
        /\ \A b \in forming.waiting : \E i \in DOMAIN Verticals : b \in OfVertical(i)
        /\ TooFew(forming.left) \/ (forming.open \subseteq Idle \cup forming.waiting /\ Visited(forming))
    BY <1>1, <2>1 DEF RunFair
  <2>3. CASE forming.progress
    <3>1. Go(new)  BY <2>1, <2>3
    <3>2. /\ new \in Forming /\ new.step = "round" /\ new.proposed = forming.proposed
          /\ new.left = forming.left /\ new.spare = forming.spare /\ new.open = forming.open
          /\ new.waiting = forming.waiting /\ new.byBrief = forming.byBrief
          /\ new.vertical = 1
      BY <1>1, <2>1 DEF Forming
    <3> HIDE DEF new
    <3>3. Less(new, forming) /\ InOrder(new)  BY <3>2 DEF Less, InOrder
    <3>4. Visited(new)  BY <3>2 DEF Visited
    <3>5. RunFair(new)  BY <2>2, <3>2, <3>4 DEF RunFair
    <3>6. RunOk(new)  BY <1>1, <3>2, <3>3, <3>5, RunOn
    <3> QED  BY <3>1, <3>6, GoOn
  <2>4. CASE ~ forming.progress
    <3>1. Show  BY <2>1, <2>4
    <3>2. \A i \in DOMAIN Verticals : i \in 1 .. forming.vertical - 1
      BY <1>1, <2>1, VerticalsAssumption
    <3>3. Visited(forming) => forming.waiting = {}
      BY <2>2, <2>4, <3>2 DEF Visited
    <3> QED  BY <2>2, <3>1, <3>3, ShowOn
  <2> QED  BY <2>3, <2>4
<1>16. ASSUME NEW S \in SUBSET forming.left, FormTeam(S) PROVE RunInv'
  <2> DEFINE x == NewTeam("team", S, Null)
             new == [forming EXCEPT !.left = @ \ S, !.proposed = @ \cup {x}]
  <2>1. Go(new) /\ forming.step \in Phases /\ \E pool \in Pools : S \in Formable(pool)
    BY <1>16 DEF FormTeam
  <2>2. Legal(S)
    <3>1. \E g \in Pooled : \E pool \in SUBSET InGroup(g) : S \in Formable(pool)
      BY <2>1 DEF Pools, Phases, In
    <3> QED  BY <1>1, <3>1, FormedOfGroup
  <2>3. /\ x \in Proposal /\ x.kind = "team" /\ x.team = Null /\ x.members = S /\ x.brief = Null
    BY <1>1, ProposalTypes DEF NewTeam
  <2> HIDE DEF x
  <2>4. /\ new \in Forming /\ new.step = forming.step /\ new.vertical = forming.vertical
        /\ new.proposed = forming.proposed \cup {x} /\ new.left = forming.left \ S
        /\ new.spare = forming.spare /\ new.waiting = forming.waiting
    BY <1>1, <2>3 DEF Forming
  <2> HIDE DEF new
  <2>5. Less(new, forming)  BY <2>4 DEF Less
  <2>6. InOrder(new)  BY <2>1, <2>4 DEF InOrder, Phases
  <2>7. Settled(x, new)  BY <2>3, <2>4 DEF Settled
  <2>8. \A y \in forming.proposed : Unlike(x, y)
    BY <1>2, <2>3 DEF Unlike, Settled
  <2>9. RunFair(new)  BY <1>1, <2>1, <2>4 DEF RunFair, Phases
  <2>10. RunOk(new)  BY <1>1, <2>2, <2>3, <2>4, <2>5, <2>6, <2>7, <2>8, <2>9, RunOn
  <2> QED  BY <2>1, <2>10, GoOn
<1>17. CASE EndPhase
  <2> DEFINE new(s) == [forming EXCEPT !.step = s]
  <2>1. /\ forming.step \in Phases /\ \A pool \in Pools : Formable(pool) = {}
        /\ \/ Go(new("cross")) \/ Go(new("mixed"))
           \/ forming.step = "mixed" /\ Show
    <3>1. forming.step \in Phases  BY <1>17 DEF EndPhase, NothingToForm
    <3> QED  BY <1>17, <3>1 DEF EndPhase, NothingToForm, In, Phases
  <2>2. ASSUME NEW s \in {"cross", "mixed"} PROVE RunOk(new(s))
    <3>1. /\ new(s) \in Forming /\ new(s).step = s /\ new(s).proposed = forming.proposed
          /\ new(s).left = forming.left /\ new(s).spare = forming.spare
          /\ new(s).waiting = forming.waiting /\ new(s).vertical = forming.vertical
      BY <1>1, <2>2 DEF Forming, Phases
    <3> HIDE DEF new
    <3>2. Less(new(s), forming) /\ InOrder(new(s))  BY <2>2, <3>1 DEF Less, InOrder
    <3>3. RunFair(new(s))  BY <1>1, <2>1, <2>2, <3>1 DEF RunFair, Phases
    <3> QED  BY <1>1, <3>1, <3>2, <3>3, RunOn
  <2>3. CASE forming.step = "mixed" /\ Show
    <3>1. \A g \in Pooled : InGroup(g) \in Pools  BY <2>3 DEF Pools, In
    <3>2. TooFew(forming.left)  BY <1>1, <2>1, <3>1, NoneFormable
    <3> QED  BY <2>3, <3>2, ShowOn
  <2> HIDE DEF new
  <2> QED  BY <2>1, <2>2, <2>3, GoOn
<1> QED
  BY <1>4, <1>5, <1>6, <1>7, <1>8, <1>9, <1>11, <1>12, <1>13, <1>14, <1>15, <1>16, <1>17
  DEF RunFormation

-----------------------------------------------------------------------------
(* Counters.                                                                *)

Tally == /\ count \in [Briefs -> Nat] /\ changes \in 0 .. MaxChanges
         /\ calls \in [Operations -> 0 .. MaxCalls]

LEMMA RecountType ==
  ASSUME count \in [Briefs -> Nat], NEW teams, NEW B
  PROVE  Recount(teams, B) \in [Briefs -> Nat]
BY WorkingFinite DEF Recount

LEMMA CallingTally ==
  ASSUME Tally, NEW o \in Operations, Calling(o) PROVE Tally'
<1>1. /\ calls[o] < MaxCalls /\ calls' = [calls EXCEPT ![o] = @ + 1]
      /\ UNCHANGED <<count, changes>>
  BY DEF Calling, tables
<1>2. calls' \in [Operations -> 0 .. MaxCalls]  BY <1>1, PlaceAssumption DEF Tally
<1> QED  BY <1>1, <1>2 DEF Tally

LEMMA ChangesTally ==
  ASSUME Tally, changes < MaxChanges, changes' = changes + 1, calls' = calls,
         count' \in [Briefs -> Nat]
  PROVE  Tally'
BY PlaceAssumption DEF Tally

LEMMA OthersTally == ASSUME Tally, Others PROVE Tally'
<1> DEFINE Step == /\ changes < MaxChanges /\ changes' = changes + 1 /\ calls' = calls
                   /\ count' = count \/ \E B : count' = Recount(team', B)
<1>1. \A t \in Teams, b \in Briefs \cup {Null} : Assign(t, b) => Step
  BY DEF Assign, Changing
<1>2. \A t \in Teams : Disqualify(t) => Step  BY DEF Disqualify, Changing
<1>3. \A t \in Teams, p \in Participants :
        Found(t, p) \/ Join(t, p) \/ Add(t, p) \/ Confirm(t, p) \/ Leave(t, p) => Step
  <2> TAKE t \in Teams, p \in Participants
  <2>1. Found(t, p) => Step  BY DEF Found, Changing
  <2>2. Join(t, p) => Step  BY DEF Join, Changing
  <2>3. Add(t, p) => Step  BY DEF Add, Changing
  <2>4. Confirm(t, p) => Step  BY DEF Confirm, Changing
  <2>5. Leave(t, p) => Step  BY DEF Leave
  <2> QED  BY <2>1, <2>2, <2>3, <2>4, <2>5
<1> HIDE DEF Step
<1>4. Step  BY <1>1, <1>2, <1>3 DEF Others
<1> USE DEF Step
<1>5. count' \in [Briefs -> Nat]
  <2>1. CASE count' = count  BY <2>1 DEF Tally
  <2>2. ASSUME NEW B, count' = Recount(team', B) PROVE count' \in [Briefs -> Nat]
    <3>1. \A teams : Recount(teams, B) \in [Briefs -> Nat]  BY RecountType DEF Tally
    <3> QED  BY <2>2, <3>1
  <2> QED  BY <1>4, <2>1, <2>2
<1> QED  BY <1>4, <1>5, ChangesTally

LEMMA NextTally == ASSUME Tally, [Next]_vars PROVE Tally'
<1>1. ASSUME UNCHANGED <<count, changes, calls>> PROVE Tally'  BY <1>1 DEF Tally
<1>2. \A o \in Operations : Calling(o) => Tally'  BY CallingTally
<1>3. /\ "runMatching" \in Operations /\ "finalizeMatching" \in Operations
      /\ "runTeamFormation" \in Operations /\ "finalizeTeamFormation" \in Operations
  BY DEF Operations
<1>4. CASE RunMatching
  <2>1. Calling("runMatching") \/ UNCHANGED <<count, changes, calls>>
    BY <1>4 DEF RunMatching, ReadTeams, ReadBriefs, Pick, EndMatching, places, tables
  <2> QED  BY <1>1, <1>2, <1>3, <2>1
<1>5. CASE RunFormation
  <2>1. Calling("runTeamFormation") \/ UNCHANGED places
    BY <1>5 DEF RunFormation, ReadParticipants, ReadUndersized, ProposeBackfill, EndBackfill,
      ReadBriefLists, ReadSpareTeams, GiveToTeam, GiveToNewTeam, PassOver, SkipVertical,
      EndRound, FormTeam, EndPhase, NothingToForm, Go, Show, Phases, In
  <2> QED  BY <1>1, <1>2, <1>3, <2>1 DEF places, tables
<1>6. CASE Others  BY <1>6, OthersTally
<1>7. CASE FinalizeMatching
  <2>1. CASE CommitAssigning
    <3>1. /\ UNCHANGED <<changes, calls>>
          /\ count' = [b \in Briefs |-> count[b] + Cardinality(
               {t \in Teams : own["matching"][t] # Null /\ own["matching"][t].brief = b})]
      BY <2>1 DEF CommitAssigning
    <3> DEFINE Given(b) == {t \in Teams : own["matching"][t] # Null
                                          /\ own["matching"][t].brief = b}
    <3>2. \A b : Cardinality(Given(b)) \in Nat
      <4>1. \A b : Given(b) \in SUBSET Teams  OBVIOUS
      <4> HIDE DEF Given
      <4> QED  BY <4>1, PlaceAssumption, FS_Subset, FS_CardinalityType
    <3>3. count' = [b \in Briefs |-> count[b] + Cardinality(Given(b))]  BY <3>1
    <3> HIDE DEF Given
    <3>4. count' \in [Briefs -> Nat]  BY <3>2, <3>3 DEF Tally
    <3> QED  BY <3>1, <3>4 DEF Tally
  <2>2. CASE ~ CommitAssigning
    <3>1. Calling("finalizeMatching") \/ UNCHANGED <<count, changes, calls>>
      BY <1>7, <2>2 DEF FinalizeMatching, BeginAssigning, ReadTeam, WriteTeam, AbortAssigning,
        places, tables
    <3> QED  BY <1>1, <1>2, <1>3, <3>1
  <2> QED  BY <2>1, <2>2
<1>8. CASE FinalizeFormation
  <2>1. Calling("finalizeTeamFormation") \/ UNCHANGED <<count, changes, calls>>
    BY <1>8 DEF FinalizeFormation, BeginFounding, ApplyBackfill, ApplyBrief, ApplyTeam, Done,
      CommitFounding, AbortFounding
  <2> QED  BY <1>1, <1>2, <1>3, <2>1
<1>9. CASE UNCHANGED vars  BY <1>1, <1>9 DEF vars, places, tables
<1> QED  BY <1>4, <1>5, <1>6, <1>7, <1>8, <1>9 DEF Next

-----------------------------------------------------------------------------
(* New teams.                                                               *)

Whole(S) == SizeMin <= Cardinality(S) \/ S \in Manual
\* What formation has created and nobody sees yet, and what it is to create.
Created(teams, w) ==
  \A t \in Teams : w["formation"][t] # Null /\ teams[t].status = "absent" =>
                     Whole(w["formation"][t].members)
ToCreate(P) == \A x \in P : x.kind \in {"team", "manual"} => Whole(x.members)
Entire == Created(team, own) /\ ToCreate(founding.todo)
Fresh(t) == team[t].status = "absent" /\ team'[t].status = "active"

LEMMA CreatedKept ==
  ASSUME Created(team, own), NEW n, Rises(n), NEW w,
         \A t \in Teams : team[t].status = "absent" /\ w["formation"][t] # Null =>
            /\ own["formation"][t] # Null
            /\ w["formation"][t].members = own["formation"][t].members
  PROVE  Created(n, w)
BY DEF Created, Rises

LEMMA OthersCreate ==
  ASSUME Good(team, own), person \in [Participants -> Person], Created(team, own), Others
  PROVE  Created(team', own') /\ \A t \in Teams : ~ Fresh(t)
<1>1. Rises(team')  BY OthersStep
<1>2. /\ own \in Owned /\ "formation" \in Finalizers /\ team \in [Teams -> Team]
  BY OwnRows
<1>3. ASSUME own' = own PROVE Created(team', own')  BY <1>1, <1>3, CreatedKept
<1> DEFINE Fine == Created(team', own') /\ \A t \in Teams : ~ Fresh(t)
<1>4. ASSUME NEW t \in Teams, NEW b \in Briefs \cup {Null}, Assign(t, b) PROVE Fine
  <2>1. own' = own /\ Exists(t) /\ \A u \in Teams \ {t} : team'[u] = team[u]
    BY <1>2, <1>4 DEF Assign
  <2>2. \A u \in Teams : ~ Fresh(u)  BY <2>1 DEF Fresh, Exists
  <2> QED  BY <1>3, <2>1, <2>2
<1>5. ASSUME NEW t \in Teams, Disqualify(t) PROVE Fine
  <2>1. own' = own /\ Open(t) /\ \A u \in Teams \ {t} : team'[u] = team[u]
    BY <1>2, <1>5 DEF Disqualify
  <2>2. \A u \in Teams : ~ Fresh(u)  BY <2>1 DEF Fresh, Open
  <2> QED  BY <1>3, <2>1, <2>2
<1>6. ASSUME NEW t \in Teams, NEW p \in Participants, Found(t, p) PROVE Fine
  <2>1. own' = own /\ \A u \in Teams : team'[u] = team[u] \/ team'[u].status = "forming"
    BY <1>2, <1>6 DEF Found, NoTeam
  <2>2. \A u \in Teams : ~ Fresh(u)  BY <2>1 DEF Fresh
  <2> QED  BY <1>3, <2>1, <2>2
<1>7. ASSUME NEW t \in Teams, NEW p \in Participants, Join(t, p) \/ Add(t, p) PROVE Fine
  <2>1. own' = own /\ \A u \in Teams : team'[u].status = team[u].status
    BY <1>2, <1>7 DEF Join, Add, Team
  <2>2. \A u \in Teams : ~ Fresh(u)  BY <2>1 DEF Fresh
  <2> QED  BY <1>3, <2>1, <2>2
<1>8. ASSUME NEW t \in Teams, NEW p \in Participants, Confirm(t, p) PROVE Fine
  <2>1. \A u \in Teams : team'[u].status = team[u].status
    BY <1>2, <1>8 DEF Confirm, Team
  <2>2. \A u \in Teams : own'["formation"][u] =
          IF own["formation"][u] = Null THEN Null
          ELSE [own["formation"][u] EXCEPT !.pending = @ \ {p}]
    BY <1>2, <1>8 DEF Confirm
  <2>3. \A u \in Teams : own["formation"][u] # Null => own["formation"][u] \in Team
    BY OwnRows
  <2>4. \A u \in Teams : own'["formation"][u] # Null =>
          /\ own["formation"][u] # Null
          /\ own'["formation"][u].members = own["formation"][u].members
    BY <2>2, <2>3 DEF Team
  <2>5. Created(team', own')  BY <1>1, <2>4, CreatedKept
  <2> QED  BY <2>1, <2>5 DEF Fresh
<1>9. ASSUME NEW t \in Teams, NEW p \in Participants, Leave(t, p) PROVE Fine
  <2>1. Exists(t) /\ \A u \in Teams \ {t} : team'[u] = team[u]  BY <1>2, <1>9 DEF Leave
  <2>2. \A u \in Teams \ {t} : own'["formation"][u] = own["formation"][u]
    BY <1>2, <1>9 DEF Leave, Owned
  <2>3. Created(team', own')  BY <1>1, <2>1, <2>2, CreatedKept DEF Exists
  <2> QED  BY <2>1, <2>3 DEF Fresh, Exists
<1> QED  BY <1>4, <1>5, <1>6, <1>7, <1>8, <1>9 DEF Others

LEMMA MatchingCreates ==
  ASSUME Good(team, own), Created(team, own), FinalizeMatching
  PROVE  Created(team', own') /\ \A t \in Teams : ~ Fresh(t)
<1>1. own \in Owned /\ "formation" \in Finalizers /\ "matching" \in Finalizers
  BY OwnRows
<1>2. own'["formation"] = own["formation"]
  BY <1>1 DEF FinalizeMatching, BeginAssigning, ReadTeam, WriteTeam, CommitAssigning,
    AbortAssigning, Calling, places, tables, Owned
<1>3. team' = team \/ team' = View("matching")
  BY DEF FinalizeMatching, BeginAssigning, ReadTeam, WriteTeam, CommitAssigning,
    AbortAssigning, Calling, places, tables
<1>4. \A t \in Teams : /\ team[t].status # "absent" => View("matching")[t].status # "absent"
                       /\ team[t].status = "absent" => View("matching")[t] = team[t]
  BY <1>1, SeenRow DEF Good, View
<1>5. Rises(team')  BY <1>3, <1>4 DEF Rises
<1>6. Created(team', own')  BY <1>2, <1>5, CreatedKept
<1> QED  BY <1>3, <1>4, <1>6 DEF Fresh

LEMMA DoneToCreate ==
  ASSUME ToCreate(founding.todo), NEW x, NEW failed, Done(x, failed), founding \in Founding
  PROVE  ToCreate(founding'.todo) /\ team' = team
BY DEF Done, ToCreate, Founding

LEMMA BeginToCreate ==
  ASSUME FormInv, RunInv, NEW excluded \in Excluded, NEW manual \in Manual,
         BeginFounding(excluded, manual)
  PROVE  ToCreate(founding'.todo) /\ UNCHANGED <<team, own>>
<1> DEFINE without(x) == [x EXCEPT !.members = @ \ excluded]
           stays(x) == CASE x.kind = "backfill" -> x.members # {}
                         [] x.kind = "brief" -> TRUE
                         [] x.kind = "team" -> Cardinality(x.members) >= SizeMin
           added == IF manual = {} THEN {} ELSE {NewTeam("manual", manual, Null)}
           kept == {x \in {without(y) : y \in preview.proposed} : stays(x)}
           todo == kept \cup added
<1>1. /\ preview # Null /\ UNCHANGED <<team, own>>
      /\ founding' = [NoFounding EXCEPT !.on = TRUE, !.todo = todo]
  BY DEF BeginFounding, Calling, tables
<1>2. preview.proposed \subseteq Proposal /\ \A y \in preview.proposed : y.kind # "manual"
  BY <1>1 DEF FormInv, Usable, RunInv, Shown
<1>3. \A y \in preview.proposed : without(y).kind = y.kind
  BY <1>2 DEF Proposal
<1>4. \A x : x.kind = "team" /\ stays(x) => Cardinality(x.members) >= SizeMin
  OBVIOUS
<1> HIDE DEF without, stays
<1>5. \A x \in kept : x.kind \in {"team", "manual"} => Cardinality(x.members) >= SizeMin
  BY <1>2, <1>3, <1>4
<1>6. ToCreate(kept)
  <2>1. \A n : n >= SizeMin => SizeMin <= n  OBVIOUS
  <2> QED  BY <1>5, <2>1 DEF ToCreate, Whole
<1>7. ToCreate(added)  BY DEF ToCreate, Whole, NewTeam
<1>8. founding'.todo = todo  BY <1>1 DEF NoFounding
<1> HIDE DEF kept, added
<1> QED  BY <1>1, <1>6, <1>7, <1>8 DEF ToCreate

\* A proposal that is carried out is done with, and what it writes is a team that
\* others see already, or a whole one.
LEMMA FormationCreates ==
  ASSUME Good(team, own), FormInv, RunInv, MeantInv, Entire, FinalizeFormation
  PROVE  /\ Created(team', own') /\ ToCreate(founding'.todo)
         /\ \A t \in Teams : Fresh(t) => Whole(team'[t].members)
<1> DEFINE Fine == /\ Created(team', own') /\ ToCreate(founding'.todo)
                   /\ \A t \in Teams : Fresh(t) => Whole(team'[t].members)
<1>1. /\ own \in Owned /\ "formation" \in Finalizers /\ founding \in Founding
      /\ Created(team, own) /\ ToCreate(founding.todo)
  BY OwnRows DEF FormInv, Entire
<1>2. ASSUME team' = team PROVE \A t \in Teams : ~ Fresh(t)  BY <1>2 DEF Fresh
<1>3. ASSUME NEW t, NEW row, own' = [own EXCEPT !["formation"][t] = row], team' = team,
             t \in Teams => (team[t].status = "absent" => Whole(row.members))
      PROVE  Created(team', own')
  <2>1. \A u \in Teams : own'["formation"][u] = IF u = t THEN row ELSE own["formation"][u]
    BY <1>1, <1>3 DEF Owned
  <2> QED  BY <1>1, <1>3, <2>1 DEF Created
<1>4. ASSUME own' = own, team' = team PROVE Created(team', own')  BY <1>1, <1>4
<1>5. ASSUME NEW excluded \in Excluded, NEW manual \in Manual, BeginFounding(excluded, manual)
      PROVE  Fine
  BY <1>2, <1>4, <1>5, BeginToCreate
<1>6. ASSUME NEW x \in founding.todo, ApplyBackfill(x) \/ ApplyBrief(x) PROVE Fine
  <2>1. /\ \E failed : Done(x, failed)
        /\ own' = own \/ \E row : own' = [own EXCEPT !["formation"][x.team] = row]
        /\ x.kind \in {"backfill", "brief"}
    BY <1>6 DEF ApplyBackfill, ApplyBrief, Write
  <2>2. ToCreate(founding'.todo) /\ team' = team  BY <1>1, <2>1, DoneToCreate
  <2>3. team[x.team].status # "absent"  BY <2>1 DEF MeantInv, Meant, Sensible
  <2>4. Created(team', own')  BY <1>3, <1>4, <2>1, <2>2, <2>3
  <2> QED  BY <1>2, <2>2, <2>4
<1>7. ASSUME NEW x \in founding.todo, NEW t \in Teams, NEW lead \in x.members,
             ApplyTeam(x, t, lead)
      PROVE  Fine
  <2> DEFINE row == [status |-> "active", group |-> person[lead].group, brief |-> x.brief,
                     members |-> x.members, pending |-> {}]
  <2>1. /\ x.kind \in {"team", "manual"} /\ Done(x, FALSE)
        /\ own' = own \/ own' = [own EXCEPT !["formation"][t] = row]
    BY <1>7 DEF ApplyTeam, Create, Write
  <2>2. ToCreate(founding'.todo) /\ team' = team  BY <1>1, <2>1, DoneToCreate
  <2>3. row.members = x.members /\ Whole(x.members)  BY <1>1, <2>1 DEF ToCreate
  <2> HIDE DEF row
  <2>4. Created(team', own')  BY <1>3, <1>4, <2>1, <2>2, <2>3
  <2> QED  BY <1>2, <2>2, <2>4
<1>8. CASE CommitFounding \/ AbortFounding
  <2>1. /\ own' = [own EXCEPT !["formation"] = NoWrites] /\ founding' = NoFounding
        /\ team' \in {team, View("formation")}
    BY <1>8 DEF CommitFounding, AbortFounding
  <2>2. Created(team', own')  BY <1>1, <2>1 DEF Created, NoWrites, Owned
  <2>3. ToCreate(founding'.todo)  BY <2>1 DEF NoFounding, ToCreate
  <2>4. ASSUME NEW t \in Teams, Fresh(t) PROVE Whole(team'[t].members)
    <3>1. team[t].status = "absent" /\ team' = View("formation")
      BY <2>1, <2>4 DEF Fresh
    <3>2. own["formation"][t] # Null /\ team'[t] = own["formation"][t]
      BY <2>4, <3>1 DEF View, Fresh
    <3> QED  BY <1>1, <3>1, <3>2 DEF Created
  <2> QED  BY <2>2, <2>3, <2>4
<1> QED  BY <1>5, <1>6, <1>7, <1>8 DEF FinalizeFormation

-----------------------------------------------------------------------------
(* The theorems.                                                            *)

ProposedInv == RunInv /\ Tally /\ Entire

LEMMA InitProposed == ASSUME Init PROVE ProposedInv
<1>1. /\ team \in Start /\ own = [f \in Finalizers |-> NoWrites]
      /\ count = [b \in Briefs |-> Cardinality(Working(team, b))]
      /\ changes = 0 /\ calls = [o \in Operations |-> 0]
      /\ forming = NoForming /\ preview = Null /\ founding = NoFounding
  BY DEF Init, InitPlaces, InitFormation
<1>2. RunInv  BY <1>1, NoFormingOk DEF RunInv
<1>3. Tally  BY <1>1, WorkingFinite, PlaceAssumption DEF Tally
<1>4. Entire  BY <1>1 DEF Entire, Created, ToCreate, NoWrites, NoFounding, Finalizers
<1> QED  BY <1>2, <1>3, <1>4 DEF ProposedInv

LEMMA NextProposed ==
  ASSUME PlacesInv, PeopleInv, ProposedInv, [Next]_vars
  PROVE  /\ ProposedInv'
         /\ \A t \in Teams : team[t].status = "absent" /\ team'[t].status = "active" =>
              SizeMin <= Cardinality(team'[t].members) \/ team'[t].members \in Manual
<1> USE DEF PlacesInv
<1>1. MeantInv /\ RunInv /\ Entire /\ Created(team, own) /\ ToCreate(founding.todo)
  BY DEF PeopleInv, ProposedInv, Entire
<1>2. Tally'  BY NextTally DEF ProposedInv
<1>3. ASSUME UNCHANGED <<formVars, person>> PROVE RunInv'
  BY <1>1, <1>3, RunInvNext DEF RunInv, formVars
<1>4. SUFFICES /\ RunInv' /\ Created(team', own') /\ ToCreate(founding'.todo)
               /\ \A t \in Teams : Fresh(t) => Whole(team'[t].members)
  BY <1>2, <1>4 DEF ProposedInv, Entire, Created, ToCreate, Whole, Fresh
<1>5. ASSUME UNCHANGED tables
      PROVE  Created(team', own') /\ \A t \in Teams : Fresh(t) => Whole(team'[t].members)
  BY <1>1, <1>5 DEF tables, Fresh
<1>6. CASE RunMatching /\ UNCHANGED formVars
  <2>1. UNCHANGED tables  BY <1>6, RunMatchingStep
  <2> QED  BY <1>1, <1>3, <1>5, <1>6, <2>1 DEF tables, formVars
<1>7. CASE RunFormation
  <2>1. UNCHANGED tables  BY <1>7, RunFormationStep
  <2>2. RunInv'  BY <1>1, <1>7, <2>1, RunFormationInv
  <2>3. founding' = founding
    BY <1>7 DEF RunFormation, ReadParticipants, ReadUndersized, ProposeBackfill, EndBackfill,
      ReadBriefLists, ReadSpareTeams, GiveToTeam, GiveToNewTeam, PassOver, SkipVertical,
      EndRound, FormTeam, EndPhase, NothingToForm, Go, Show, Phases, In
  <2> QED  BY <1>1, <1>5, <2>1, <2>2, <2>3
<1>8. CASE Others /\ UNCHANGED <<matchVars, formVars>>
  <2>1. person' = person  BY <1>8, OthersStep
  <2>2. Created(team', own') /\ \A t \in Teams : ~ Fresh(t)  BY <1>1, <1>8, OthersCreate
  <2> QED  BY <1>1, <1>3, <1>8, <2>1, <2>2 DEF formVars
<1>9. CASE FinalizeMatching /\ UNCHANGED formVars
  <2>1. person' = person  BY <1>9, FinalizeMatchingStep
  <2>2. Created(team', own') /\ \A t \in Teams : ~ Fresh(t)  BY <1>1, <1>9, MatchingCreates
  <2> QED  BY <1>1, <1>3, <1>9, <2>1, <2>2 DEF formVars
<1>10. CASE FinalizeFormation
  <2>1. person' = person  BY <1>10, FinalizeFormationStep
  <2>2. forming' = forming /\ preview' \in {preview, Null}
    BY <1>10 DEF FinalizeFormation, BeginFounding, ApplyBackfill, ApplyBrief, ApplyTeam, Done,
      CommitFounding, AbortFounding
  <2>3. RunInv'  BY <1>1, <2>1, <2>2, RunInvNext DEF RunInv
  <2> QED  BY <1>1, <1>10, <2>3, FormationCreates
<1>11. CASE UNCHANGED vars
  <2>1. UNCHANGED <<tables, formVars>>  BY <1>11 DEF vars, places
  <2> QED  BY <1>1, <1>3, <1>5, <2>1 DEF tables, formVars
<1> QED  BY <1>6, <1>7, <1>8, <1>9, <1>10, <1>11 DEF Next

\* What a run of formation has found and proposed so far, what a preview shows and
\* what a finalization has created are in order together.
THEOREM ProposedHold == Spec => [](PlacesInv /\ PeopleInv /\ ProposedInv)
<1>1. Init => PlacesInv /\ PeopleInv /\ ProposedInv
  BY InitPlacesInv, InitPeople, InitProposed
<1>2. PlacesInv /\ PeopleInv /\ ProposedInv /\ [Next]_vars =>
        (PlacesInv /\ PeopleInv /\ ProposedInv)'
  BY NextPlacesInv, NextPeople, NextProposed
<1> QED  BY <1>1, <1>2, PTL DEF Spec

\* Every variable of matching and formation keeps its type, whoever interferes.
THEOREM PlacementTypes == Spec => []TypeOK
<1>1. PlacesInv /\ PeopleInv /\ ProposedInv => TypeOK
  BY DEF PlacesInv, Good, Owned, ProposedInv, RunInv, RunOk, Tally, FormInv, TypeOK,
    TypeOfFormation
<1> QED  BY <1>1, ProposedHold, PTL

\* A preview, and a run at every point of it, proposes nobody twice, no team and no
\* brief twice, and new teams of one group and of a legal size.
THEOREM PreviewsAreSound == Spec => []SoundPreview
<1>1. PlacesInv /\ PeopleInv /\ ProposedInv => SoundPreview
  BY DEF ProposedInv, RunInv, RunOk, RunSound, Shown, SoundPreview
<1> QED  BY <1>1, ProposedHold, PTL

\* Whoever a preview leaves over could not have been a team: when rounds over the
\* verticals end without progress, every brief that needed a team has had its turn, or
\* a brief was passed over because no group had enough people left.
THEOREM NobodyIsLeftBehind == Spec => []NobodyLeftBehind
<1>1. PlacesInv /\ PeopleInv /\ ProposedInv => NobodyLeftBehind
  BY DEF ProposedInv, RunInv, Shown, TooFew, NobodyLeftBehind
<1> QED  BY <1>1, ProposedHold, PTL

\* Formation creates a proposed team whole or not at all, also when some of its
\* people have gone to another team since the preview.
THEOREM TeamsAreWhole == Spec => NewTeamsAreWhole
<1>1. PlacesInv /\ PeopleInv /\ ProposedInv /\ [Next]_vars =>
        [\A t \in Teams : team[t].status = "absent" /\ team'[t].status = "active" =>
           SizeMin <= Cardinality(team'[t].members) \/ team'[t].members \in Manual]_vars
  BY NextProposed
<1> QED  BY <1>1, ProposedHold, PTL DEF Spec, NewTeamsAreWhole
=============================================================================
