SPECIFICATION Spec
CONSTANTS
  shell = shell
  tab1 = tab1
  tab2 = tab2
  auditor = auditor
  None = None
  Sessions = {shell}
  Reasons <- CloseReasons
  Conns = {tab1, tab2}
  Observers = {}
  Chatty = {}
  SessionOf <- GrantedSession
INVARIANTS
  ExclusiveControl
  ClosedRuntimeClosesRow
PROPERTIES
  ClosedRowEndsRuntime
CHECK_DEADLOCK FALSE
