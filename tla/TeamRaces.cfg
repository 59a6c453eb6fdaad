CONSTANTS
  Teams = {t1, t2}
  Participants = {p1, p2, p3}
  Briefs = {b1}
  Invitations = {}
  Requests = {}
  Handlers = {h1, h2}
  Ops <- RacingOps
  TeamSizeMax = 2
  MaxTeams = 1
  Null = Null
SPECIFICATION RacingSpec
SYMMETRY Symmetry
INVARIANTS TeamCapacity OneConfirmedTeam BriefCapacity
CHECK_DEADLOCK FALSE
