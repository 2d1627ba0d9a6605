SPECIFICATION FairSpec
CONSTANTS
  Ids = {new, legacy}
  Legacy = {legacy}
  Users = {alice, root}
  Admins = {root}
  Requests = {r1}
  NoOwner = NoOwner
  NoDoc = NoDoc
  NoResource = NoResource
  Buffer = 1
  RequestTime = 0
  ScanTime = 1
  LastArrival = 1
  MaxTime = 4
  MaxFaults = 1
INVARIANTS
  IndInv
PROPERTIES
  Convergence
