SPECIFICATION FactorySpec
CONSTANTS
  Files = {f1, f2}
  NoFile = NoFile
  Delay = 1
  Broken = {f2}
  Changing = {f1}
  MaxChanges = 2
INVARIANTS
  OneWorker
  EveryRequestIsMet
  ThumbnailIsCurrent
  ShownIsCurrent
CHECK_DEADLOCK FALSE
