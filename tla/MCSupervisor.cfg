SPECIFICATION FairSpec
CONSTANTS
  Agents = {a1}
  Hosts = {h1}
  Sessions = {s1}
  OnDisk = {s1}
  Devices = {d1}
  CanApprove = {d1}
  HostCap = 2
  QueueMax = 1
  TurnBound = 2
  Requests = {r1}
  Gates = {g1, g2}
  Plans = {p1}
  None = None
  NoGate = NoGate
INVARIANTS
  TurnsCounted
PROPERTIES
  ImplementsGate
  QuestionsSettle
