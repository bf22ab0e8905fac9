SPECIFICATION DocumentSpec
CONSTANTS
  Nil = Nil
  ByteBits = 4
  MaxBits = 12
  TicksPerYear = 2
  Microseconds = 2
  AddressBits = {4}
  DigestSize <- MCDigestSize
  OaepHashes = {"sha1", "sha256", "sha384"}
  KeyBits = 537
  BitsPerByte = 8
  V15Overhead = 11
  AutoLength = AutoLength
  MaxLength = MaxLength
  DigestLength = DigestLength
  SigningHashes = {"sha256", "sha384", "sha3_256"}
  Sha3 = {"sha3_256"}
  NotAHash = NotAHash
  SerialBits = 9
  OcspHashes = {"sha1", "sha256", "sha384"}
  Inputs <- MCInputs
  ListInputs <- MCListInputs
  ExistingEntries <- MCExistingEntries
  MaxList = 3
  Signings <- MCSignings
  Issuers <- MCIssuers
  Algorithms <- MCAlgorithms
  Indices <- MCIndices
INVARIANTS
  ValidOnlyAsSigned
  SignedVerifies
  ReadsBack
  CrlViewsAgree
CHECK_DEADLOCK FALSE
