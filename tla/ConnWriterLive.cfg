SPECIFICATION FairSpec
CONSTANTS
  Conn = "conn"
  Producers = {"conn", "p1"}
  Conts = {"c1", "c2"}
  Ioids = {"m1"}
  Lens = {2}
  HighWater = 2
  InlineBatchLimit = 1
  MaxDeposits = 3
  Cancellable = {"await_lock", "write"}
PROPERTIES EventuallySent BackpressureReleased DeathNoticed
CHECK_DEADLOCK FALSE
