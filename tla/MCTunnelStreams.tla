--------------------------- MODULE MCTunnelStreams ---------------------------
(***************************************************************************)
(* A tunnel that carries an RDP and a VNC session; a single id makes it    *)
(* reuse ids, which the program does after 65,535 opens.                   *)
(***************************************************************************)
EXTENDS TunnelStreams

CONSTANTS rdp, vnc
=============================================================================
