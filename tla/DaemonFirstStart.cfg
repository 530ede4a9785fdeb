CONSTANTS
  Clients = {c1, c2}
  Runners = {}
  Nobody = Nobody
  MayShutdown = {}
  MayCrash = {}
  MayTimeout = {}
  Entries = {"none"}
  Directories = {"absent"}
SPECIFICATION FairSpec
CHECK_DEADLOCK FALSE
PROPERTIES
  FirstStartsSucceed
