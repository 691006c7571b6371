CONSTANTS
  SequenceIds = {s1, s2, s3}
  Blocks = {b1, b2, b3, b4}
  BlockSize = 2
  TotalSlots = 7
  MaxTokens = 3
  None = None
SPECIFICATION Spec
SYMMETRY Symm
CHECK_DEADLOCK FALSE
INVARIANTS BlocksAccountedFor SharedBlocksAgree RegionsDisjoint ScansExact
PROPERTIES ImplementsPort
