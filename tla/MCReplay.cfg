SPECIFICATION FairSpec
CONSTANTS
  Questions = {q1}
  PageLimit = 1
  UpdateBound = 3
  FaultBound = 1
  WireBound = 2
INVARIANTS
  HolesAreCut
  OpenIsShown
PROPERTIES
  CatchesUp
