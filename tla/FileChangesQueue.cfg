SPECIFICATION FairQueueSpec
CONSTANTS
  Jobs = {j1, j2}
  MaxChanges = 3
INVARIANTS
  HandsOnAll
PROPERTIES
  EveryChangeIsSent
CHECK_DEADLOCK FALSE
