CONSTANTS
  p1 = p1
  p2 = p2
  a = a
  b = b
  c = c
  d = d
  None = None
  Processes = {p1, p2}
  Agents = {a, b, c, d}
  Listed = {a, b, c}
  Channels <- McChannels
  Assignments <- McAssignments
  Catalogs <- McCatalogs
  FirstEntries <- McFirstEntries
  FirstPackages <- McFirstPackages
  FirstPrograms <- McFirstPrograms
  OPERATION_CONCURRENCY = 2
SPECIFICATION FairSpec
INVARIANTS
  BatchReport
  InstalledStaysInstalled
  UninstalledMeansGone
  EnvironmentIsVerified

  
CHECK_DEADLOCK FALSE
