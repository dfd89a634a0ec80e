SPECIFICATION Spec
CONSTANTS
  desk = desk
  owner = owner
  Sessions = {desk}
  Reasons <- CloseReasons
  Pipes = {owner}
  Owners = {owner}
  RowOf <- FollowedRow
  MaxTyped <- Keystrokes
INVARIANTS
  TypeOK
  BufferIsKept
  PauseLeaksOneEachWay
PROPERTIES
  BufferReachesGuacd
  ClosedRowEndsPipes
  EndedPipeClosesRow
CHECK_DEADLOCK FALSE
