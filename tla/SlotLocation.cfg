SPECIFICATION FairSpec
CONSTANTS
  Locations = {a, b, c}
  NoLocation = NoLocation
  Uses = {"reload", "stop", "switch", "delete", "close", "error", "not_mounted", "load_error", "forget"}
  BackDistances = {0}
  ForwardDistances = {0}
  MaxClicks = 5
INVARIANTS
  AnswersAreExpected
  WatchesOnlyWhatItShows
PROPERTIES
  ImplementsHistory
  ChangesEnd
CHECK_DEADLOCK FALSE
