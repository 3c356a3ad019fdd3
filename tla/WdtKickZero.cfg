SPECIFICATION Spec
CONSTANTS
  MaxCount = 5
  InitValues = {0, 3}
INVARIANTS
  NoSpuriousPulse
