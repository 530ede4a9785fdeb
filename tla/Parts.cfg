CONSTANTS
  Nobody = Nobody
  Writers = {w1, w2, w3, w4}
  Launches = {l1, l2}
  Archives <- McArchives
  MaxSteps = 4
  MaxDownload = 4
  MaxExpanded = 3
  MaxEntries = 3
  MaxFiles = 2
  INSTALL_LOG_MAX_BYTES = 6
  INSTALL_LOG_TAIL_BYTES = 3
  HeaderBytes = 1
  LineBytes = {1, 2, 5}
  Lengths = {0, 1, 2, 3, 4, 6}
  Lines = 2
  STDERR_TAIL_BYTES = 4
  STDERR_CHANNEL_CAPACITY = 2
  MaxRoutes = 2
  Strings <- McStrings
SPECIFICATION Spec
CHECK_DEADLOCK FALSE
INVARIANTS
  ExtractionIsBounded
  LogIsRecent
  StderrIsAccountedFor
  DispatchGoesBySegments
