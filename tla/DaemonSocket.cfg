CONSTANTS
  Clients = {c1, c2}
  Runners = {d1}
  Nobody = Nobody
  MayShutdown = {c1, c2, d1}
  MayCrash = {c1, c2, d1}
  MayTimeout = {c1}
  Entries = {"none", "stale", "file"}
  Directories = {"private", "absent"}
SPECIFICATION FairSpec
CHECK_DEADLOCK FALSE
INVARIANTS
  LiveDaemonOwnsThePath
  CleanExitLeavesNoSocket
PROPERTIES
  UnrelatedEntryIsKept
  StartsSucceed
