SPECIFICATION Spec
CONSTANTS
  ssh1 = ssh1
  ssh2 = ssh2
  rdp1 = rdp1
  db1 = db1
  files1 = files1
  files2 = files2
  broker1 = broker1
  broker2 = broker2
  Sessions = {ssh1, db1}
  Owned = {db1}
  Ssh = {ssh1}
  Brokered = {ssh1}
  Finalizers = {broker1, broker2}
  Scopes = {files1, files2}
  ScopeOf <- MixedScopeOf
  MaxEnds = 1
SYMMETRY BrokerSymmetry
INVARIANTS
  TypeOK
  OneEndAudit
  ClosedIsAudited
  PauseFollowsAudit
  FinalizeRetriesAreQuiet
  ReadyMeansComplete
PROPERTIES
  KeepsStatusPromise
CHECK_DEADLOCK FALSE
