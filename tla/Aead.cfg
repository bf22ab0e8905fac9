SPECIFICATION Spec
CONSTANTS
  t1 = t1
  t2 = t2
  Threads = {t1, t2}
  Configs <- MCConfigs
  Requests <- MCRequests
  Overwritten <- MCOverwritten
  TagLength = 2
  CCMTagLengths = {1, 2}
  BlockSize = 2
  MaxInt = 5
  ByteBits = 1
  UsizeBits = 8
  None = None
INVARIANTS
  SealsItsOwn
  OpensOnlyGenuine
  BoundariesFit
CHECK_DEADLOCK FALSE
