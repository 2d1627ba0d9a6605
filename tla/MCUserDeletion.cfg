SPECIFICATION UserDeletionSpec
CONSTANTS
  Ids = {1, 2, 3}
  Gone = gone
  bob = bob
  Users <- MCUsers
  Admins = {}
  Legacy = {1, 2, 3}
  NoOwner = NoOwner
  NoDoc = NoDoc
  NoResource = NoResource
  Buffer = 1
  Batch = 2
  Shares <- MCShares
  MaxFaults = 2
INVARIANTS
  DeletionInv
  UserGone
  NoneOrphaned
  CleanSweep
PROPERTIES
  OthersKeep
  Completes
CHECK_DEADLOCK FALSE
