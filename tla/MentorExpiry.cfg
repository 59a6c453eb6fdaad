SPECIFICATION FairSpec
CONSTANTS
  Teams = {t1}
  Mentors = {m1}
  Cohorts = {home}
  HomeCohort = home
  CohortOf <- AtHome
  Managed = {m1}
  ClaimIds = {c1}
  SessionIds = {s1}
  Procs = {p1, p2}
  Slots <- OneSlot
  Buffer = 0
  MaxClaims = 1
  MaxSessions = 1
  ExpiryTime = 1
  NonResponseTime = 0
  MaxNow = 2
  None = None
  FirstTeam = t1
  FirstMentor = m1
  FirstClaim = c1
  FirstSession = s1
PROPERTY OverdueClaimsEnd
