CONSTANTS
  Teams = {t1, t2}
  Participants = {p1, p2}
  Briefs = {}
  Invitations = {i1}
  Requests = {q1}
  Handlers = {h1}
  Ops <- SerialOps
  TeamSizeMax = 2
  MaxTeams = 1
  Null = Null
SPECIFICATION Spec
CONSTRAINT OneOnFile
SYMMETRY Symmetry
INVARIANTS TypeOK StandingFollowsMembership DeletedTeamIsEmpty
PROPERTY OnlyTheDeclinedReadOn
CHECK_DEADLOCK FALSE
