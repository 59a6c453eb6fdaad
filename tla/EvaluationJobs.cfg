SPECIFICATION Spec
CONSTANTS
  Works = {e1}
  Jobs = {j1, j2}
  Requests = {r1}
  Reconciler = reconciler
  Workers = {w1}
  MaxAttempts = 1
  MaxStalled = 0
  Null = Null
SYMMETRY Symmetry
INVARIANT OneActiveJob
