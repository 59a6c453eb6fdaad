SPECIFICATION LateSpec
CONSTANTS
  Teams = {t1, t2}
  Mentors = {m1, m2}
  Cohorts = {home, away}
  HomeCohort = home
  CohortOf <- AtHome
  Managed = {m2}
  ClaimIds = {c1, c2, c3}
  SessionIds = {s1}
  Procs = {p1, p2}
  Slots <- OneSlot
  Buffer = 0
  MaxClaims = 1
  MaxSessions = 2
  ExpiryTime = 1
  NonResponseTime = 1
  MaxNow = 2
  None = None
  FirstTeam = t1
  FirstMentor = m1
  FirstClaim = c1
  FirstSession = s1
SYMMETRY LateSymmetry
INVARIANTS OneActiveClaimPerTeam MentorCapacity
PROPERTY ClaimedInOwnCohort
