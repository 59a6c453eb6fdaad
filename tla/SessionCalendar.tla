-------------------------- MODULE SessionCalendar --------------------------
(***************************************************************************)
(* What booking promises the mentors: each live session has a time of its  *)
(* mentor's calendar to itself.  A session takes a time, or moves to one,  *)
(* only where it clashes with no other, and any number of sessions may     *)
(* give theirs up at once.                                                 *)
(***************************************************************************)
EXTENDS Naturals

CONSTANTS Sessions,
          Mentors,
          Times,        \* intervals: [at, mins]
          Free          \* the place of a session that has none

VARIABLE place          \* of each session: a mentor and a time, or Free

Place == [mentor : Mentors, time : Times]

Clash(x, y) == /\ x.mentor = y.mentor
               /\ x.time.at < y.time.at + y.time.mins
               /\ y.time.at < x.time.at + x.time.mins

Init == place = [s \in Sessions |-> Free]

Take(s, x) ==
  /\ \A r \in Sessions \ {s} : place[r] = Free \/ ~ Clash(place[r], x)
  /\ place' = [place EXCEPT ![s] = x]

GiveUp(S) == place' = [s \in Sessions |-> IF s \in S THEN Free ELSE place[s]]

Next == \/ \E S \in SUBSET Sessions : GiveUp(S)
        \/ \E s \in Sessions, x \in Place : Take(s, x)

Spec == Init /\ [][Next]_place
=============================================================================
