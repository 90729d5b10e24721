SPECIFICATION FairSpec
CONSTANTS
  Routines = {t1}
  Runs = {r1, r2}
  ActionCount = 2
  Definitions <- Written
INVARIANTS
  RowsAreInFlight
  AgentsAreRetired
  NoOrphanRow
PROPERTIES
  SingletonRunsAlone
  RecordsAreFinal
  RunsSettle
