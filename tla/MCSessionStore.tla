--------------------------- MODULE MCSessionStore ---------------------------
(***************************************************************************)
(* Instances of SessionStore for TLC: an SSH session that two runtimes may *)
(* be finalizing at once, with a database session, whose client sends      *)
(* owner heartbeats; the same with an RDP session, which has a broker too; *)
(* and two SSH sessions of one user on one connection, which share a file  *)
(* scope.                                                                  *)
(***************************************************************************)
EXTENDS SessionStore, TLC

CONSTANTS ssh1, ssh2, rdp1, db1, files1, files2, broker1, broker2

MixedScopeOf == [s \in Sessions |-> IF s = ssh1 THEN files1 ELSE files2]

SharedScopeOf == [s \in Sessions |-> files1]

(* Finalizers differ in nothing, and the run that uses this checks safety. *)
BrokerSymmetry == Permutations(Finalizers)
=============================================================================
