SPECIFICATION LifeSpec
CONSTANTS
  Agents = {a1, a2}
  Hosts = {h1, h2}
  Sessions = {s1, s2}
  OnDisk = {s1}
  Devices = {d1}
  HostCap = 2
  QueueMax = 2
  TurnBound = 2
  None = None
INVARIANT SessionHeldOnce
