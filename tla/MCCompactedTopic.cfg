SPECIFICATION TopicSpec
CONSTANTS
  RetryTime = 2
  CallTime = 1
  MaxMessages = 3
  MaxFaults = 2
  Users = {anna, bert}
INVARIANTS
  LastWordKept
PROPERTIES
  LastWordHandled
CHECK_DEADLOCK FALSE
