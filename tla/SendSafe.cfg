SPECIFICATION FairSpec
CONSTANTS
  HBlank = 1
  HPhase = 2
  HActive = 4
  HFront = 3
  VSync = 1
  VBack = 1
  VPhase = 2
  VFront = 1
  PulseMod = 8
  FrameMod = 4
  DelayOf <- Delays
  StartCycles = 2
  Requests <- SomeRequests
  AnyTimeStarts = TRUE
INVARIANTS
  WordsInStep
  FrameIsWhole
  PulseAfterFrame
  CountsFrames
PROPERTIES
  CommandEnds
