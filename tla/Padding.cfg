SPECIFICATION PaddingSpec
CONSTANTS
  BlockSizes <- MCBlockSizes
  Alphabet <- MCAlphabet
  MaxMessage = 3
  MaxForeign = 4
INVARIANTS
  HoldsLastBlock
  PaddingCorrect
