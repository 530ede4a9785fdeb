CONSTANTS
  Procs = {p1, p2, p3}
  Ops = {"run", "uninstall", "prune"}
  Nobody = Nobody
  MayCrash = {}
  MayCancel = {p1}
  RestoreFails = FALSE
SPECIFICATION FairSpec
CHECK_DEADLOCK FALSE
PROPERTIES
  OperationsEnd
  NeverWaitsForAgents
