SPECIFICATION Spec
CONSTANTS
  s1 = s1
  s2 = s2
  s3 = s3
  Conns <- MCConns
  Channels <- MCChannels
  Subs <- MCSubs
  ConnOf <- MCConnOf
  ChannelOf <- MCChannelOf
  Recreated <- MCRecreated
  SubscribeFails = FALSE
  MaxPumps = 2
  NoPump = NoPump
CHECK_DEADLOCK FALSE
SYMMETRY SubSymmetry
INVARIANTS TypeOK NeverSilent OnePump NothingVanishes ChargedIsDeposited
PROPERTIES DestroysItsOwn
