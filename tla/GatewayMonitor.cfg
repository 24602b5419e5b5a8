SPECIFICATION FairSpec
CONSTANTS
  s1 = s1
  s2 = s2
  s3 = s3
  Names <- OneName
  Subs <- MCSubs
  NameOf <- AllOne
  MaxEntries = 2
CHECK_DEADLOCK FALSE
INVARIANTS TypeOK NobodyStranded NoLeakedUpstream DeathIsReal
PROPERTIES WokenIsUnbound EndReachesAll IdleIsStopped
