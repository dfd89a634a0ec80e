SPECIFICATION Spec
CONSTANTS
  rdp = rdp
  vnc = vnc
  None = None
  Opens = {rdp, vnc}
  Talking = {rdp}
  MaxId = 1
INVARIANTS
  TypeOK
  AckNeverBlocks
PROPERTIES
  OnlyItsSocketEndsStream
  OpenReturns
  ServiceEndEndsStream
  TunnelEndEndsStreams
CHECK_DEADLOCK FALSE
