SPECIFICATION TablesSpec
CONSTANTS
  i1 = i1
  i2 = i2
  x = x
  y = y
  NoRequest = NoRequest
  Cids <- MCCids
  Ioids <- MCIoids
  Dying <- OneDying
  PVs <- OnePV
  MaxSid = 2
  Discipline = "fresh"
CHECK_DEADLOCK FALSE
PROPERTY AnnouncesNewest
