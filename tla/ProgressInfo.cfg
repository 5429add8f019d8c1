SPECIFICATION FairSpec
CONSTANTS
  Ops = {o1, o2}
  Queueable = {o1, o2}
  Asking = {o1}
  Items = 2
  MaxClicks = 2
INVARIANTS
  NoDanglingCallback
  WaitsAsShown
PROPERTIES
  QueueMoves
CHECK_DEADLOCK FALSE
