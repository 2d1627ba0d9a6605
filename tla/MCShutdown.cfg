SPECIFICATION LifecycleSpec
CONSTANTS
  RetryTime = 3
  CallTime = 1
  MaxMessages = 2
  MaxFaults = 1
  Calls = {c1, c2}
  ConnectivityTest = TRUE
INVARIANTS
  ShutdownCloses
