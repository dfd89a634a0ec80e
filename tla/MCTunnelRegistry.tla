-------------------------- MODULE MCTunnelRegistry --------------------------
(***************************************************************************)
(* A gateway whose agent falls back between WebSocket and QUIC, and        *)
(* an administrator.                                                       *)
(***************************************************************************)
EXTENDS TunnelRegistry

CONSTANTS ws1, quic1, admin1
=============================================================================
