CONSTANTS
  Timings <- MCTimings
  Depths = {24, 36}
  DeModes <- MCDeModes
  Rates <- MCRates
  Asked = {1764}
  MaxCalls = 4
  Formats <- MCFormats
SPECIFICATION TxSpec
INVARIANTS
  TxTypeOK
  FrameTellsOutput
  MatrixAsAnnounced
  DepthSurvives
  AudioRateTold
  DeWindow
CHECK_DEADLOCK FALSE
