SPECIFICATION TablesSpec
CONSTANTS
  i1 = i1
  i2 = i2
  x = x
  y = y
  NoRequest = NoRequest
  Cids <- MCCids
  Ioids <- MCIoids
  Dying <- OneDying
  PVs <- TwoPVs
  MaxSid = 2
  Discipline = "recycled"
CHECK_DEADLOCK FALSE
PROPERTY ClosesItsOwn
