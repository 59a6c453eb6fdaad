SPECIFICATION FairSpec
CONSTANTS
  Works = {e1}
  Jobs = {j1}
  Requests = {r1}
  Reconciler = reconciler
  Workers = {w1}
  MaxAttempts = 2
  MaxStalled = 1
  Null = Null
INVARIANT ProcessingIsHeld
PROPERTY JobsSettle
