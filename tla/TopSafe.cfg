SPECIFICATION FairSpec
CONSTANTS
  Beats = 9
  EngineDepth = 2
  PathStop = 2
  PathDepth = 7
  MaxMemTicks = 2
  HostWaitsFor = "sent"
INVARIANTS
  NoBeatDropped
  SendsOwnWords
  PathNoOverflow
PROPERTIES
  CommandIsSent
