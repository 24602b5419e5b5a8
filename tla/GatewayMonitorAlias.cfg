SPECIFICATION Spec
CONSTANTS
  s1 = s1
  s2 = s2
  s3 = s3
  Names <- TwoNames
  Subs <- MCSubs
  NameOf <- Aliased
  MaxEntries = 2
CHECK_DEADLOCK FALSE
PROPERTY WokenIsUnbound
