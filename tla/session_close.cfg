SPECIFICATION Spec
CONSTANTS
  ssh1 = ssh1
  ssh2 = ssh2
  rdp1 = rdp1
  db1 = db1
  files1 = files1
  files2 = files2
  broker1 = broker1
  broker2 = broker2
  Sessions = {ssh1, ssh2}
  Owned = {}
  Ssh = {ssh1, ssh2}
  Brokered = {ssh1}
  Finalizers = {broker1}
  Scopes = {files1}
  ScopeOf <- SharedScopeOf
  MaxEnds = 0
PROPERTIES
  RecordingSettles
  LastOwnerCloseCleansSandbox
CHECK_DEADLOCK FALSE
