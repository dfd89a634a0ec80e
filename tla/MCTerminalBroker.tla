-------------------------- MODULE MCTerminalBroker --------------------------
(***************************************************************************)
(* One SSH session, two browsers that race to control it and an observer.  *)
(***************************************************************************)
EXTENDS TerminalBroker

CONSTANTS shell, tab1, tab2, auditor

GrantedSession == [c \in Conns \union Observers |-> shell]

CloseReasons == {"client_disconnect", "admin_terminated", "broker_close"}
=============================================================================
