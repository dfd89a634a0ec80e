SPECIFICATION Spec
CONSTANTS
  rdp = rdp
  vnc = vnc
  None = None
  Opens = {rdp}
  Talking = {rdp}
  MaxId = 2
PROPERTIES
  BrokenSocketEndsStream
CHECK_DEADLOCK FALSE
