SPECIFICATION FairSpec
CONSTANTS
  Actions = {a1, a2, a3, a4}
  Kinds = {"trash", "move"}
  Levels = 2
  Uses = {}
INVARIANTS
  NothingElseFreedIsUsed
PROPERTIES
  RecordingResumes
  ImplementsHistory
CHECK_DEADLOCK FALSE
