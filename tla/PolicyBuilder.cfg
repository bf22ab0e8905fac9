CONSTANTS
  Label <- MCLabel
  LabelLen <- MCLabelLen
  Fold <- MCFold
  HostLabel <- MCHostLabel
  AtomLabel <- MCAtomLabel
  Star = "*"
  MaxLabelLen = 3
  MaxNameLen = 11
  V4Bits = 2
  V6Bits = 3
  SPKIAlgorithm <- MCSPKIAlgorithm
  SignatureAlgorithm <- MCSignatureAlgorithm
  MinimumRSAModulus = 2048
  TicksPerYear = 1
  Assignments <- MCAssignments
  Depths = {0, 3}
  Times = {2025, 2027}
  Subjects <- MCSubjects
  TestCerts <- MCTestCerts
  MaxExtPolicies = 2
  MaxBuilders = 3
  MaxVerifiers = 1
SPECIFICATION BuilderSpec
INVARIANTS
  MandatoryChecks
  UnknownCriticalRefused
