SPECIFICATION Spec
CONSTANTS
  Teams = {t1}
  Mentors = {m1}
  Cohorts = {home}
  HomeCohort = home
  CohortOf <- AtHome
  Managed = {}
  ClaimIds = {c1}
  SessionIds = {s1, s2}
  Procs = {p1, p2}
  Slots <- MixedSlots
  Buffer = 0
  MaxClaims = 1
  MaxSessions = 2
  ExpiryTime = 1
  NonResponseTime = 1
  MaxNow = 2
  None = None
  FirstTeam = t1
  FirstMentor = m1
  FirstClaim = c1
  FirstSession = s1
SYMMETRY Symmetry
INVARIANTS TypeOK NoDoubleBooking
PROPERTIES DeclinedStaysDeclined ImplementsCalendar
