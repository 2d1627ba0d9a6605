SPECIFICATION LifecycleSpec
CONSTANTS
  RetryTime = 3
  CallTime = 1
  MaxMessages = 2
  MaxFaults = 3
  Calls = {c1, c2}
  ConnectivityTest = TRUE
INVARIANTS
  LifecycleInv
  NothingSkipped
  CleanExit
PROPERTIES
  ShutsDown
