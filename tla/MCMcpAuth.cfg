SPECIFICATION FairSpec
CONSTANTS
  g1 = g1
  g2 = g2
  Grants = {g1, g2}
  Exchanges = {e1, e2}
  Logins <- MCLogins
  Imports <- MCImports
  GenBound = 1
INVARIANTS
  NeverRedeemsSpent
  SuccessorFirst
  NoBearerWithoutGrant
  RefreshingIsInFlight
PROPERTIES
  DeadGrantsStayQuiet
  AgingEnds
