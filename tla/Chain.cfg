CONSTANTS
  Label <- MCLabel
  LabelLen <- MCLabelLen
  Fold <- MCFold
  HostLabel <- MCHostLabel
  AtomLabel <- MCAtomLabel
  Star = "*"
  MaxLabelLen = 3
  MaxNameLen = 11
  V4Bits = 2
  V6Bits = 3
  SPKIAlgorithm <- MCSPKIAlgorithm
  SignatureAlgorithm <- MCSignatureAlgorithm
  MinimumRSAModulus = 2048
  TicksPerYear = 1
  Cert <- MCCert
  Content <- MCContent
  Requests <- MCRequests
  MaxDepth = 2
  CheckLimit = 6
SPECIFICATION Spec
INVARIANTS
  TypeOK
  Soundness
  DepthBounded
  NoEmptySubject
PROPERTIES
  FatalIsFinal
  ImplementsPathValidation
