SPECIFICATION Spec
CONSTANTS
  rdp = rdp
  vnc = vnc
  None = None
  Opens = {rdp}
  Talking = {rdp}
  MaxId = 2
INVARIANTS
  NoStreamSurvives
CHECK_DEADLOCK FALSE
