CONSTANTS
  Procs = {p1, p2, p3}
  Ops = {"run", "refresh", "uninstall", "prune"}
  Nobody = Nobody
  MayCrash = {p1, p2, p3}
  MayCancel = {p1, p2, p3}
  RestoreFails = FALSE
SPECIFICATION Spec
SYMMETRY Symmetry
CHECK_DEADLOCK FALSE
INVARIANTS
  TypeOK
  LeasedEntryIsValid
PROPERTIES
  ActiveWorkIsKept
  PreservedCopyIsKept
  EntryChangesUnderLocks
