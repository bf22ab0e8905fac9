SPECIFICATION Spec
CONSTANTS
  Nil = Nil
  Keys <- MCKeys
  TimeBits = 2
  MAX_CLOCK_SKEW = 1
  Data = {"m1"}
  Times <- MCTimes
  TTLs <- MCTTLs
  MaxClock = 2
  MaxEncrypted = 1
  MaxIssued = 3
  MaxRing = 2
INVARIANTS
  RotationKeepsAge
PROPERTIES
  AtomicCalls
  GenuineIsRead
