SPECIFICATION Spec
CONSTANTS
  Pins = {0}
  ENABLE_ZFORTH_BOOT = FALSE
  Entries = {4, 9}
  WORD = 2
  BLOCK = 4
  LOADER = 6
  MAX_NB_AREA = 3
  L2 = 8
  Top = 26
  MaxSegments = 2
  MaxLen = 5
  MAX = 8
  SrecTop = 16
  Files <- SampleFiles
  MaxLost = 1
PROPERTY Resynchronises

CHECK_DEADLOCK FALSE
