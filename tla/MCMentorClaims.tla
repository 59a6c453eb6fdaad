--------------------------- MODULE MCMentorClaims ---------------------------
(* Instances of MentorClaims for TLC.                                      *)
EXTENDS MentorClaims, TLC

\* One slot after the other; two bookings clash when they take the same one.
NextSlots == {[at |-> 1, mins |-> 1], [at |-> 2, mins |-> 1]}

OneSlot == {[at |-> 1, mins |-> 1]}

\* A long slot besides, which clashes with both.
MixedSlots == NextSlots \cup {[at |-> 1, mins |-> 2]}

\* The teams of an instance are of one cohort.
CONSTANT HomeCohort
AtHome == [t \in Teams |-> HomeCohort]

Symmetry == Permutations(Procs) \cup Permutations(ClaimIds)
            \cup Permutations(SessionIds)

-----------------------------------------------------------------------------
(* A later start, when a session is over and the jobs are due.             *)

CONSTANTS FirstTeam, FirstMentor, FirstClaim, FirstSession

\* FirstTeam claimed FirstMentor at time 0 and booked a session, which is over
\* by now: it can still be confirmed, declined, cancelled and completed, its
\* claim is overdue, and the mentor has not answered in time.
AfterFirstSession ==
  /\ now = 2
  /\ claims = [c \in ClaimIds |->
                 IF c = FirstClaim
                 THEN [team |-> FirstTeam, mentor |-> FirstMentor,
                       status |-> "active", expiresAt |-> ExpiryTime,
                       sessionCount |-> 0, swapUsed |-> FALSE]
                 ELSE NoClaim]
  /\ sessions = [s \in SessionIds |->
                   IF s = FirstSession
                   THEN [claim |-> FirstClaim, slot |-> [at |-> 1, mins |-> 1],
                         status |-> "scheduled", bookedAt |-> 0]
                   ELSE NoSession]
  /\ mentors = [m \in Mentors |-> [active |-> TRUE, cohort |-> HomeCohort,
                                   deleted |-> FALSE]]
  /\ tx = [p \in Procs |-> Idle]

LateSpec == AfterFirstSession /\ [][Next]_vars

LateSymmetry == Permutations(Procs) \cup Permutations(ClaimIds \ {FirstClaim})
=============================================================================
