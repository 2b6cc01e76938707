SPECIFICATION Spec
CONSTANTS
  a = a
  b = b
  Nowhere = Nowhere
  Chunk <- TwoChunks
  Room = 7
  Frame = 3
  Batch = 2
  MaxAccesses = 3
INVARIANTS DumpIsTrace WholeFrames HarmNeedsCause
CHECK_DEADLOCK FALSE
