SPECIFICATION FairSpec
CONSTANTS
  Directories <- MCDirectories
  Files <- MCFiles
  NoFile = NoFile
  Home <- MCHome
  Corresponding <- Nested
  Listing <- MCListing
  Kinds = {"file_info", "directory_count", "link_info", "extension_info"}
  Requests <- MixedRequests
  AtOnce = {}
  Listed = {}
  Uses = {"monitor", "callback", "invalidate"}
  MaxAsyncJobs = 1
  ClientCalls = 3
PROPERTIES
  ImplementsRequests
  CallbacksFire
CHECK_DEADLOCK FALSE
