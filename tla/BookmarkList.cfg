SPECIFICATION FairListSpec
CONSTANTS
  Bookmarks = {a, b}
  NoFile = NoFile
  MaxLength = 2
  MaxActs = 3
  MaxWrites = 2
  MaxErrors = 1
INVARIANTS
  NothingIsLost
PROPERTIES
  ListSettles
CHECK_DEADLOCK FALSE
