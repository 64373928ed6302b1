SPECIFICATION FairSpec
CONSTANTS
  Groups = 2
  GroupBytes = 2
  Span = 4
  LastWord = 2
  Sectors = 2
  CountMod = 16
  FifoDepth = 3
  AlmostFull = 2
  MaxInFlight = 2
  Commands <- ReachingCommands
  ReadyValues <- AnyReady
INVARIANTS
  OneReadPerWait
  DoneCountsBytes
  NoFifoOverflow
PROPERTIES
  ImplementsBeatStream
  FetchCompletes
