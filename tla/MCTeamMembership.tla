------------------------ MODULE MCTeamMembership ------------------------
(* Instances of TeamMembership for TLC.                                    *)
EXTENDS TeamMembership, TLC

Symmetry == Permutations(Teams) \cup Permutations(Participants)
            \cup Permutations(Briefs) \cup Permutations(Invitations)
            \cup Permutations(Requests) \cup Permutations(Handlers)

\* One handler at a time: every call about members, their channel and the teams of a
\* formation run.  The two calls that write no membership are left to the other run.
SerialOps == AllOps \ {"save", "assign"}
\* Bound: at most one of an invitation, a removal request, and a participant who
\* reads the channel of a team without being its member.
NoneInvited == invitation = NoMail
NoneToRemove == \A q \in Requests : removal[q] = NoRequest
NoneOutside == \A t \in Teams : Outsiders(t) = {}
OneOnFile == \/ NoneInvited /\ NoneToRemove
             \/ NoneInvited /\ NoneOutside
             \/ NoneToRemove /\ NoneOutside

\* Two handlers at a time that bring members into teams and teams to briefs.
RacingOps == {"join", "confirm", "add", "form", "save", "assign", "chat"}
\* A participant has created a team.
RacingInit ==
  \E t \in Teams, p \in Participants :
    /\ team = [u \in Teams |-> IF u = t THEN [status |-> "forming", brief |-> Null,
                                              channel |-> "open"] ELSE NoTeam]
    /\ member = [u \in Teams |-> [q \in Participants |->
                   IF u = t /\ q = p THEN [status |-> "confirmed", role |-> "lead",
                                           id |-> 0] ELSE NoMember]]
    /\ standing = [q \in Participants |-> IF q = p THEN "assigned" ELSE "ready"]
    /\ chat = [u \in Teams |-> IF u = t THEN {p} ELSE {}]
    /\ invitation = NoMail
    /\ removal = [q \in Requests |-> NoRequest]
    /\ handler = [h \in Handlers |-> Idle]
RacingSpec == RacingInit /\ [][Next]_vars
=============================================================================
