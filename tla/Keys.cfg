SPECIFICATION Spec
CONSTANTS
  MaxPassword = 3
  CallbackBuffer = 4
  Fips = FALSE
  Boringssl = FALSE
  None = None
  ByteBits = 2
  MaxBits = 12
  DsaPBits = {4, 5}
  DsaQBits = {4}
  MIN_MODULUS_SIZE = 4
  CurveOrder = 5
  Null = Null
  DigestSize <- MCDigestSize
  OaepHashes = {"a", "b"}
  KeyBits = 49
  BitsPerByte = 8
  V15Overhead = 6
  AutoLength = AutoLength
  MaxLength = MaxLength
  DigestLength = DigestLength
  Nil = Nil
  Generated <- MCGenerated
  Foreign <- MCForeign
  Encryptions <- MCEncryptions
  Passwords <- MCPasswords
  SigningArgs <- MCSigningArgs
  RecoverArgs <- MCRecoverArgs
  EncryptionArgs <- MCEncryptionArgs
  Numbers <- MCNumbers
INVARIANTS
  ReadableOnlyWithPassword
  LoadsWhatWasWritten
  VerifiesExactlyTheSigned
  DecryptsWhatItEncrypts
  KeysWork
CHECK_DEADLOCK FALSE
