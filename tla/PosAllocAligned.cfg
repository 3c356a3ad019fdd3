SPECIFICATION Spec
CONSTANTS
  Base = 8
  Size = 72
  Requests = {8, 16}
  AlignRequests = {12}
  Aligns = {8}
INVARIANT CallersApart
CHECK_DEADLOCK FALSE
