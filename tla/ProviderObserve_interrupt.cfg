SPECIFICATION FairSpec
PROPERTY InterruptExits130
CHECK_DEADLOCK FALSE
