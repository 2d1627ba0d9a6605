SPECIFICATION Spec
CONSTANTS
  Ids = {new}
  Legacy = {}
  Users = {alice, root}
  Admins = {root}
  Requests = {r1, r2}
  NoOwner = NoOwner
  NoDoc = NoDoc
  NoResource = NoResource
  Buffer = 2
  RequestTime = 1
  ScanTime = 1
  LastArrival = 2
  MaxTime = 4
  MaxFaults = 1
INVARIANTS
  TypeOK
  Durability
  ResourceHasDoc
PROPERTIES
  KeepsIntact
  OwnerStable
  RightsKept
  Refinement
SYMMETRY Symmetry
