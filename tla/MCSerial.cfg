SPECIFICATION Spec
CONSTANTS
  Prompts = {TRUE, FALSE}
  W = 3
  WINDOW = 16
  BigEndian = FALSE
  Kinds = {"write", "read", "other"}
  MinBytes = 1
  MaxBytes = 6
  MaxPackets = 2
  CmdLen = 1
  AddrLen = 2
  DummyLen = 2
  Depth = 2
  AddrMod = 12
  CountMod = 8
  Commands = {"writeMem", "readMem", "writeReg", "readReg", "unknown"}
  SlowCommands = {"writeMem", "readMem"}
  Bases = {0, 5}
  WrapLengths = {0, 2}
  MaxWords = 3
  SlowWords = 2
  MaxBursts = 3
  SlowBursts = 2
INVARIANTS SerialTypeOK MemoryAsSent AcknowledgedExactly WordsInPlace ReadsInPlace NoReadPastWrap
PROPERTIES StopSignalled WrittenInOrder FifoDrains
CHECK_DEADLOCK FALSE
