SPECIFICATION FairSpec
CONSTANT NUM_SCMI_MSG = 2
PROPERTY EveryMessageAnswered
\* the exchange ends, or the agent polls for ever
CHECK_DEADLOCK FALSE
