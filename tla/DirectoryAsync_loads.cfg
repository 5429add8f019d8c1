SPECIFICATION FairSpec
CONSTANTS
  Directories <- MCDirectories
  Files <- MCFiles
  NoFile = NoFile
  Home <- MCHome
  Corresponding <- Nested
  Listing <- MCListing
  Kinds = {"file_info", "directory_count"}
  Requests <- LoadRequests
  AtOnce = {}
  Listed = {"parent", "child"}
  Uses = {"monitor", "reload", "changed", "reentrant"}
  MaxAsyncJobs = 2
  ClientCalls = 4
INVARIANTS
  LoadsAreWanted
  EndsOnlyStartedJobs
PROPERTIES
  FileListsLoad
CHECK_DEADLOCK FALSE
