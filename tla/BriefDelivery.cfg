CONSTANTS
  Events = {e1}
  Participants = {p1}
  Hosts = {h1}
  Channels = {push}
  Email = email
  Push = push
  Optional = {push}
  Slots = {1}
  Length = 1
  Day = 0
  MaxNow = 2
  Writers = {w1}
  Instances = {i1, i2}
  MaxRevision = 2
  MaxChanges = 2
  Null = Null
SPECIFICATION FairSpec
INVARIANTS TypeOK RecordedMeansShown
PROPERTIES ImplementsDelivery EveryoneInformed ZoomFollows
CHECK_DEADLOCK FALSE
