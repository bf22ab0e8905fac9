SPECIFICATION Spec
CONSTANTS
  ByteBits = 3
  MaxBits = 12
  TicksPerYear = 2
  Microseconds = 2
  AddressBits = {3, 5}
  Nil = Nil
  U32 = 8
  U64 = 16
  TlsFeatures = {5, 17}
  SctHashes = {1, 2}
  SctSignatures = {1}
  LogIdBytes = 1
  TimestampBytes = 1
  NonAscii = {"notascii"}
  NonPrintable = {"notprintable"}
  Wildcards = {"*"}
  Threads = {t1, t2}
  Values <- MCValues
  Foreign <- MCForeign
  MaxExtensions = 2
  Followers = {"KeyUsage", "CRLReason", "OCSPNonce"}
INVARIANTS
  OneObject
  ReadBack
  Rewritable
CHECK_DEADLOCK FALSE
