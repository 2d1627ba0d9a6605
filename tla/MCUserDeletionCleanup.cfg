SPECIFICATION SystemSpec
CONSTANTS
  Ids = {1, 2}
  Gone = gone
  bob = bob
  Users <- MCUsers
  Admins = {}
  Legacy = {1, 2}
  NoOwner = NoOwner
  NoDoc = NoDoc
  NoResource = NoResource
  Buffer = 1
  Batch = 1
  Shares <- MCShares
  MaxFaults = 2
PROPERTIES
  OthersKeptBoth
  Settles
