CONSTANTS
  Events = {e1, e2}
  Participants = {}
  Hosts = {h1}
  Channels = {push}
  Email = email
  Push = push
  Optional = {push}
  Slots = {1, 2}
  Length = 2
  Day = 0
  MaxNow = 1
  Writers = {w1, w2}
  Instances = {i1, i2}
  MaxRevision = 2
  MaxChanges = 0
  Null = Null
SPECIFICATION Spec
SYMMETRY Symmetry
INVARIANT NoHostOverlap
CHECK_DEADLOCK FALSE
