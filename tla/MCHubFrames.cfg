SPECIFICATION FairSpec
CONSTANTS
  h1 = h1
  h2 = h2
  None = None
  Hubs = {h1, h2}
  Sessions = {s1}
  HomeOf <- MCHomeOf
  LegBound = 1
  FrameBound = 2
  FaultBound = 2
INVARIANTS
  NoHole
PROPERTIES
  FramesArrive
  LostLegIsNoticed
CHECK_DEADLOCK FALSE
