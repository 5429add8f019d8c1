SPECIFICATION Spec
CONSTANTS
  Directories <- MCDirectories
  Files <- MCFiles
  NoFile = NoFile
  Home <- MCHome
  Corresponding <- Nested
  Listing <- MCListing
  Kinds = {"file_info", "mount", "directory_count", "deep_count"}
  Requests <- JobRequests
  AtOnce <- Skipped
  Listed = {}
  Uses = {"monitor", "callback", "invalidate", "reentrant"}
  MaxAsyncJobs = 1
  ClientCalls = 4
INVARIANTS
  JobsExact
  NoLostWakeUp
  NoForgottenWork
  NoUnwantedJob
  NoStaleAnswer
CHECK_DEADLOCK FALSE
