SPECIFICATION Spec
CONSTANTS
  Groups = 2
  GroupBytes = 2
  Span = 4
  LastWord = 2
  Sectors = 2
  CountMod = 256
  FifoDepth = 3
  AlmostFull = 2
  MaxInFlight = 2
  Commands <- UnalignedCommands
  ReadyValues <- SteadyReady
INVARIANTS
  OnlyBytesNamed
