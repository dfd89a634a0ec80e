--------------------------- MODULE MCDesktopPipe ---------------------------
(***************************************************************************)
(* One desktop session and its owner, who types three messages: enough for *)
(* two in the buffer and one written past it.                              *)
(***************************************************************************)
EXTENDS DesktopPipe

CONSTANTS desk, owner

FollowedRow == [p \in Pipes |-> desk]

Keystrokes == [p \in Pipes |-> 3]

CloseReasons == {"admin_terminated", "guac_close"}
=============================================================================
