SPECIFICATION ContentSpec
CONSTANTS
  Ids = {p}
  Legacy = {}
  Users = {alice, root}
  Admins = {root}
  Requests = {r1, r2}
  NoOwner = NoOwner
  NoDoc = NoDoc
  NoResource = NoResource
  Buffer = 2
  LastArrival = 1
  MaxFaults = 1
  Bodies <- MCBodies
  Original <- MCOriginal
INVARIANTS
  ContentInv
  UpdateStands
  StoredValid
  OwnerStands
SYMMETRY Symmetry
