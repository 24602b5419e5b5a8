SPECIFICATION ListsSpec
CONSTANTS
  Records <- MCRecords
  Periods = {"1s", "2s"}
  EventNames = {"e"}
  Clients <- MCClients
  Writes <- OwnRecords
  Interrupting = {"b"}
  Databases <- MCDatabases
  MaxPeriods = 1
  QueueCapacity = 1
  MaxSpawns = 2
  MaxPuts = 1
  i1 = i1
  i2 = i2
  x = x
  y = y
  NoRequest = NoRequest
  Cids <- MCCids
  Ioids <- MCIoids
  Dying <- OneDying
  PVs <- OnePV
  MaxSid = 2
  Discipline = "overlapping"
CHECK_DEADLOCK FALSE
INVARIANTS TypeOK OneThreadPerPeriod AcceptedIsScanned AllJoined OnNoOtherList WakeNotLost JoinReturns
INVARIANTS TablesTypeOK IndexesAgree NewestKeepsItsCid ToldIsGone
PROPERTY DecidesOnNewest
