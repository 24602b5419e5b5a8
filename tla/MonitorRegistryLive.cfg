SPECIFICATION FairSpec
CONSTANTS
  s1 = s1
  s2 = s2
  s3 = s3
  Conns <- MCConns
  Channels <- MCChannels
  Subs <- SmallSubs
  ConnOf <- MCConnOf
  ChannelOf <- SmallChannelOf
  Recreated <- MCRecreated
  SubscribeFails = TRUE
  MaxPumps = 2
  NoPump = NoPump
CHECK_DEADLOCK FALSE
PROPERTIES EndAnnounced PumpTerminates
