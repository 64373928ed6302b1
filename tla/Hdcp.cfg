CONSTANTS
  Polls = 1
  Blocks = 2
SPECIFICATION Spec
INVARIANTS
  EngineTakesNoLiveCommand
  
PROPERTIES
  NothingWaitsForEver
