---------------------------- MODULE MCSubmissions ----------------------------
(* Instances of Submissions for TLC.                                       *)
EXTENDS Submissions, TLC

Symmetry == Permutations(Contents) \cup Permutations(Participants)
            \cup Permutations(Staff)

\* The properties say nothing of what happens after a request has overwritten
\* its rival, so TLC goes no further there; and works have nothing to do with
\* each other, so it looks at one after the other.
Touched(w) ==
  w \in past \/ Exists(w) \/ \E h \in Procs : req[h] # Null /\ req[h].work = w
Bounds ==
  /\ overwritten = {}
  /\ \A v, w \in Works : Touched(v) /\ Touched(w) => v = w
=============================================================================
