CONSTANTS
  Polls = 1
  Blocks = 2
SPECIFICATION Spec
INVARIANT
  AuthenticatedAfterHang
