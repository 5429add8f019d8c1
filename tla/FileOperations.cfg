SPECIFICATION Spec
CONSTANTS
  Disks <- MCDisks
  Bins <- MCBins
  Jobs <- MCJobs
  NewNames <- MCNewNames
  Unwritable <- MCUnwritable
  Mended <- MCMended
  Uses = {"error", "scan", "cancel", "undo", "undo_move", "empty"}
INVARIANTS
  NothingIsLostUnasked
  PairsAreTheWork
  ViewsAreTold
  UndoneIsGone
CHECK_DEADLOCK FALSE
