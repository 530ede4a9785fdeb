CONSTANTS
  Procs = {p1, p2}
  Ops = {"run", "refresh"}
  Nobody = Nobody
  MayCrash = {p1, p2}
  MayCancel = {}
  RestoreFails = TRUE
SPECIFICATION Spec
CHECK_DEADLOCK FALSE
PROPERTIES
  PreservedCopyIsKept
