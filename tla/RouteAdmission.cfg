CONSTANTS
  Conns = {k1, k2, k3}
  MaxProcesses = 2
  Nobody = Nobody
SPECIFICATION FairSpec
INVARIANTS
  TypeOK
  ProcessLimit
  ReservationGoesToItsHandshake
  SlotsComeBack
  ReadyzReportsNewestLaunch
PROPERTIES
  LaunchRecordedOnce
  UpgradeAnswered
  CancelEndsAgents
