SPECIFICATION Spec
CONSTANTS
  None = None
  Containers = {c1, c2}
  Requests = {r1, r2, r3}
  Attempts = 2
  MaxConcurrent = 1
  MaxRequests = 2
INVARIANTS
  CeilingsHold
  BooksBalance
  ActivatedIsServed
PROPERTIES
  ReleasedIsSilent
CHECK_DEADLOCK FALSE
