SPECIFICATION Spec
CONSTANTS
  Objects = {h1, h2, h3}
  First = h1
  Chunks = {"a"}
  DigestSize = 2
  Lengths = {0, 1, 2}
  Signatures <- MCSignatures
  MaxInput = 2
INVARIANTS
  DigestOfInput
  VerdictOfInput
  OneAnswer
  SqueezeLimit
