SPECIFICATION PlatformSpec
CONSTANTS
  MaxCount = 5
  InitValues = {1, 3, 4}
  Words = 5
  MaxRuns = 2
  ARCHI_CLUSTER_NB_PE = 4
  l_num_core = 6
  FOR_IN = 3
  Printers = {fc0, pe0, pe1}
  fc0 = fc0
  pe0 = pe0
  pe1 = pe1
  LineLen = 2
  Lines = 1
  MayPuts = {fc0}
  Freqs = {1000, 333333333}
  SocFreq = 100000000
  BootMults = {1525}
  BootDivs = {1}
INVARIANTS EveryOverflowReported NoSpuriousPulse NoLostAlert
INVARIANTS OneAnswerPerRing
INVARIANTS Lockstep HandledOnce EstimateExact OneDivisor ResultsComplete
INVARIANTS LinesWhole
INVARIANTS FrequencyKept
PROPERTIES BarksUnlessKicked RingAnswered FCReturns EveryLinePrinted
\* the programs end
CHECK_DEADLOCK FALSE
