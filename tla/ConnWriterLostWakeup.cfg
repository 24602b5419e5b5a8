SPECIFICATION FairSpec
CONSTANTS
  Conn = "conn"
  Producers = {"conn", "p1"}
  Conts = {"c1", "c2"}
  Ioids = {"m1"}
  Lens = {1, 3}
  HighWater = 2
  InlineBatchLimit = 1
  MaxDeposits = 3
  Cancellable = {}
PROPERTIES BackpressureReleased
CHECK_DEADLOCK FALSE
