CONSTANTS
  n1 = n1  c1 = c1  c2 = c2  a1 = a1  a2 = a2  r1 = r1  r2 = r2
  Tasks = {t1, t2, t3}
  Main = main
  Conns = {}
  Names = {n1}
  Cfgs = {c1, c2}
  Ids = {a1, a2}
  Routes = {r1, r2}
  Insts = {i1, i2}
  NoInst = NoInst
  Nobody = Nobody
  Requests <- LifecycleRequests
SPECIFICATION Spec
SYMMETRY Symmetry
INVARIANTS
  LiveListenerIsRegistered
  StopAnsweredMeansGone
  ExitLeavesNothing
PROPERTIES
  NoInstanceAfterShutdown
  CreateAnswersTheLiveInstance
