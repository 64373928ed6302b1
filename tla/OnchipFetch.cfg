SPECIFICATION FairSpec
CONSTANTS
  Groups = 2
  GroupBytes = 2
  Span = 8
  LastWord = 7
  Sectors = 1
  CountMod = 256
  FifoDepth = 3
  AlmostFull = 2
  Commands <- ReachingCommands
INVARIANTS
  NoFifoOverflow
  DoneCountsBytes
PROPERTIES
  ImplementsBeatStream
  FetchCompletes
