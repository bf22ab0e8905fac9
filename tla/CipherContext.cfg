SPECIFICATION Spec
CONSTANTS
  Configs <- MCConfigs
  Tags <- MCTags
  Sealed <- MCSealed
  Lengths <- MCLengths
  BlockSize = 2
  ChunkSize = 3
  MaxEncryptedBytes = 5
  MaxAADBytes = 2
  DataBound = 6
INVARIANTS
  WithinLimits
  NoOverrun
  MessageComplete
  Authentic
PROPERTIES
  AADFirst
