SPECIFICATION Spec
CONSTANTS
  W = 2
  WINDOW = 16
  BigEndian = TRUE
  Kinds = {"write", "other"}
  MinBytes = 1
  MaxBytes = 6
  MaxPackets = 2
  Prompts = {TRUE}
INVARIANTS EveryByteInItsWord
CHECK_DEADLOCK FALSE
