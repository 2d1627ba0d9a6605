SPECIFICATION ConsumerSpec
CONSTANTS
  RetryTime = 4
  CallTime = 1
  MaxMessages = 3
  MaxFaults = 3
INVARIANTS
  ConsumerInv
  GivesUpInTime
PROPERTIES
  AllHandled
  Delivers
CHECK_DEADLOCK FALSE
