SPECIFICATION FairSpec
CONSTANT NUM_SCMI_MSG = 3
INVARIANTS
  OwnedWhileWritten
  AnsweredOnce
  NoRingLost
PROPERTIES
  ImplementsChannel
  MainFinishes
\* the exchange ends, or the agent polls for ever
CHECK_DEADLOCK FALSE
