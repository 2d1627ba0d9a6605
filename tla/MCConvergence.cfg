SPECIFICATION FairSpec
CONSTANTS
  Ids = {new}
  Legacy = {}
  Users = {alice, root}
  Admins = {root}
  Requests = {r1, r2}
  NoOwner = NoOwner
  NoDoc = NoDoc
  NoResource = NoResource
  Buffer = 1
  RequestTime = 0
  ScanTime = 1
  LastArrival = 1
  MaxTime = 4
  MaxFaults = 1
PROPERTIES
  Convergence
