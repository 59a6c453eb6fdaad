SPECIFICATION Spec
CONSTANTS
  Works = {e1}
  Jobs = {j1}
  Requests = {r1}
  Reconciler = reconciler
  Workers = {w1}
  MaxAttempts = 2
  MaxStalled = 1
  Null = Null
SYMMETRY Symmetry
INVARIANTS TypeOK CompletedHasResult
PROPERTY CancelWaitsForCommit
