SPECIFICATION Spec
CONSTANTS
  Conn = "conn"
  Producers = {"conn", "p1"}
  Conts = {c1, c2, c3}
  Ioids = {"m1", "m2"}
  Lens = {1, 2}
  HighWater = 2
  InlineBatchLimit = 1
  MaxDeposits = 3
  Cancellable = {"await_lock", "write"}
SYMMETRY ContSymmetry
INVARIANTS TypeOK OneFlusher NoStrandedWork NoTornFrames OnlyMonitorsOvertaken NothingLost BacklogExact TwoContinuations
PROPERTIES DeadIsFinal
CHECK_DEADLOCK FALSE
