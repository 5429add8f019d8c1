SPECIFICATION FairSpec
CONSTANTS
  Directories <- MCDirectories
  Root = "top"
  NoDirectory = NoDirectory
  Files <- MCFiles
  Content <- MCContent
  Leads <- MCLeads
  Queries = {"some", "none"}
  Matches <- MCMatches
  SavedSearches = {"saved"}
  Clients = {c}
  Calls = {k}
  BatchSize = 2
  MaxActs = 4
INVARIANTS
  FilesAreWatched
  ReportsAreCurrent
  ResultsAreComplete
PROPERTIES
  CallsEnd
CHECK_DEADLOCK FALSE
