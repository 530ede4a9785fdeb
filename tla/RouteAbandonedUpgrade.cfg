CONSTANTS
  Conns = {k1, k2}
  MaxProcesses = 1
  Nobody = Nobody
SPECIFICATION Spec
INVARIANTS
  ClosingReleasesSlot
