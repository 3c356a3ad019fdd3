SPECIFICATION ControlSpec
CONSTANTS
  ARCHI_CLUSTER_NB_PE = 3
  l_num_core = 4
  FOR_IN = 1
INVARIANT AlphaNormalized
\* the program ends
CHECK_DEADLOCK FALSE
