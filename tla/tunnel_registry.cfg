SPECIFICATION FairSpec
CONSTANTS
  ws1 = ws1
  quic1 = quic1
  admin1 = admin1
  None = None
  Conns = {ws1, quic1}
  Quic = {quic1}
  Admins = {admin1}
INVARIANTS
  TypeOK
  NoOrphan
  LeavesOnce
  QuicRowIsCleared
PROPERTIES
  KeepsTunnelPromise
  LostTunnelLeaves
  CommittedDisconnectCloses
CHECK_DEADLOCK FALSE
