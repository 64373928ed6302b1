SPECIFICATION FairSpec
CONSTANTS
  Args <- TwoArgs
  NoArgs = NoArgs
  PollPeriod = 3
  HostClearsDone = TRUE
  ResetDuringStart = FALSE
  MaxResets = 2
INVARIANTS
  IssuesWhatIsWanted
  DoneIsEarned
  EnginesAreScheduled
  PortIsFree
PROPERTIES
  CommandIsReported
