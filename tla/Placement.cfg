CONSTANTS
  Teams = {t1, t2}
  Participants = {p1, p2, p3, p4, p5}
  Briefs = {b1, b2}
  Groups = {g1, g2}
  Countries = {c1, c2}
  t1 = t1 t2 = t2 p1 = p1 p2 = p2 p3 = p3 p4 = p4 p5 = p5
  g1 = g1 g2 = g2 c1 = c1 c2 = c2 b1 = b1 b2 = b2 v1 = v1 v2 = v2
  Null = Null
  People <- MCPeople
  Start <- MCStart
  Verticals <- MCVerticals
  BriefsOf <- MCBriefsOf
  Idle = {}
  SizeMin = 2
  SizeMax = 3
  MaxTeams = 1
  MaxChanges = 1
  MaxCalls = 1
  Withheld <- MCWithheld
  Overrides <- MCOverrides
  Suits <- MCSuits
  Excluded <- MCExcluded
  Manual <- MCManual
  Scores = {1, 2}
  Limits <- MCLimits
SPECIFICATION Spec
INVARIANTS TypeOK StableMatching SoundPreview NobodyLeftBehind NoBriefOverbooked OneTeamOfOneGroup
PROPERTY NewTeamsAreWhole
CHECK_DEADLOCK FALSE
