\* A stage with manual approval and one that takes late work; two requests of
\* the team and two of staff next to the evaluation worker.
SPECIFICATION Spec
CONSTANTS
  Works = {manual, late}
  Manual = {manual}
  LateAllowed = {late}
  Contents = {a, b}
  Participants = {member1, member2}
  Staff = {staff1, staff2}
  MaxVersion = 2
  Null = Null
CONSTRAINT Bounds
SYMMETRY Symmetry
INVARIANTS TypeOK ResultFitsContent JudgedAsRead
PROPERTIES ContentKept UnlockedStays
