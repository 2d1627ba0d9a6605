SPECIFICATION MeanwhileSpec
CONSTANTS
  Ids = {1, 2, 3}
  Gone = gone
  bob = bob
  Users <- MCUsers
  Admins = {bob}
  Legacy = {}
  NoOwner = NoOwner
  NoDoc = NoDoc
  NoResource = NoResource
  Buffer = 1
  Batch = 1
  Shares <- MCShares
  Unused = {2}
  Requests = {r1}
  LastArrival = 1
  MaxFaults = 1
  MaxOthers = 2
INVARIANTS
  UserGoneMeanwhile
  MeanwhileInv
PROPERTIES
  OthersKeptMeanwhile
CHECK_DEADLOCK FALSE
