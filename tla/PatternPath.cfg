SPECIFICATION PathSpec
CONSTANTS
  WordsPerBeat = 2
  BeatDepth = 2
  PingDepth = 9
  PingStop = 4
  ByteValids <- MCByteValids
  WordMod = 3
  MaxMemTicks = 2
INVARIANTS
  NoGap
PROPERTIES
  ImplementsWordQueue
