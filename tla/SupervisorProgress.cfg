CONSTANTS
  n1 = n1  c1 = c1  c2 = c2  a1 = a1  a2 = a2  r1 = r1  r2 = r2
  Tasks = {t1, t2}
  Main = main
  Conns = {k1}
  Names = {n1}
  Cfgs = {c1, c2}
  Ids = {a1, a2}
  Routes = {r1, r2}
  Insts = {i1}
  NoInst = NoInst
  Nobody = Nobody
  Requests <- WaitingRequests
SPECIFICATION FairSpec
INVARIANTS
  DispatchOnlyWhileRunning
PROPERTIES
  ShutdownExits
  ControlAnswers
