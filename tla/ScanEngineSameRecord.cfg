SPECIFICATION Spec
CONSTANTS
  Records <- MCRecords
  Periods = {"1s", "2s"}
  EventNames = {"e"}
  Clients <- MCClients
  Writes <- SameRecord
  Interrupting = {"b"}
  Databases <- MCDatabases
  MaxPeriods = 2
  QueueCapacity = 1
  MaxSpawns = 2
  MaxPuts = 1
CHECK_DEADLOCK FALSE
INVARIANT OnNoOtherList
