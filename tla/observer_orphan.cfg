SPECIFICATION Spec
CONSTANTS
  shell = shell
  tab1 = tab1
  tab2 = tab2
  auditor = auditor
  None = None
  Sessions = {shell}
  Reasons <- CloseReasons
  Conns = {tab1}
  Observers = {auditor}
  Chatty = {tab1}
  SessionOf <- GrantedSession
INVARIANTS
  ObserversHearClosed
CHECK_DEADLOCK FALSE
