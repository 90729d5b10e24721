SPECIFICATION FairSpec
CONSTANTS
  h1 = h1
  h2 = h2
  None = None
  Hubs = {h1, h2}
  Sessions = {s1}
  HomeOf <- MCHomeOf
  LegBound = 2
  FrameBound = 0
  FaultBound = 1
PROPERTIES
  LiveLegStays
  LegSettles
  ClientHears
CHECK_DEADLOCK FALSE
