SPECIFICATION ReadSpec
CONSTANTS
  Ids = {p, q, s}
  Keys <- MCKeys
  Public <- MCPublic
  Options <- MCOptions
  NoDoc = NoDoc
  NoFilter = NoFilter
  MaxChanges = 3
SYMMETRY Symmetry
INVARIANTS
  ReadInv
  OnlyPermitted
  TotalExact
  NoGaps
  NoRepeats
