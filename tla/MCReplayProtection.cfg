SPECIFICATION RingSpec
CONSTANTS
  BufferSize = 3
  MaxSequence = 9
  Sequences <- MCSequences
INVARIANTS
  RingTypeOK
  WindowIsExact
  NoReplay
