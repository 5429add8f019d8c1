SPECIFICATION Spec
CONSTANTS
  Names = {a, b}
  Links = {b}
  Uses = {"delete", "change", "reload", "other", "stop", "freeze", "error", "hidden"}
  MaxQueued = 1
  MaxChanges = 2
INVARIANTS
  NoFileIsMissed
  GhostsAreOvertaken
  ShownIsListed
  NothingIsStranded
CHECK_DEADLOCK FALSE
