------------------------ MODULE TunnelRegistry_proofs ------------------------
(***************************************************************************)
(* Theorems about TunnelRegistry, for any number of connections and of     *)
(* administrators. Inv adds to the properties what the code relies on: a   *)
(* goroutine refers only to connections that were registered, and what it  *)
(* has replaced or removed is not the registered one (Placed); a transport *)
(* is closed only after its registration (Opened); a QUIC loop ends after  *)
(* its handler's writes (QuicOrder).                                       *)
(***************************************************************************)
EXTENDS TunnelRegistry, TLAPS

Placed ==
  /\ registry # None => Registered(registry)
  /\ \A c \in Conns : target[c] = c
  /\ \A d \in Conns : existing[d] # None =>
       Registered(d) /\ Registered(existing[d]) /\ registry # existing[d]
  /\ \A x \in Enders : end[x] # "idle" /\ target[x] # None => Registered(target[x])
  /\ DeregisteredStaysOff
  /\ \A a \in Admins : admin[a] # "calling" => end[a] = "idle"

Opened ==
  \A c \in Conns :
    /\ handler[c] \in {"new", "rejected"} => link[c] = "none"
    /\ handler[c] = "accepted" => link[c] \in {"open", "lost"}
    /\ Registered(c) => link[c] # "none"
    /\ registry = c => link[c] # "closed"

QuicOrder ==
  \A c \in Quic :
    /\ end[c] # "idle" => handler[c] = "done"
    /\ end[c] \in {"cleared", "audited"} => row # c

Inv == TypeOK /\ Placed /\ LeavesOnce /\ Opened /\ NoOrphan /\ QuicOrder

-----------------------------------------------------------------------------
(* Every action keeps its type, and deregister has a connection.           *)
LEMMA TypeStep == ASSUME TypeOK, Placed, [Next]_vars PROVE TypeOK'
<1> USE RegistryAssumption DEF TypeOK, Enders, brokerVars, Placed,
    DeregisteredStaysOff
<1>1. ASSUME NEW c \in Conns, Accept(c) PROVE TypeOK'
  BY <1>1 DEF Accept
<1>2. ASSUME NEW c \in Conns, Reject(c) PROVE TypeOK'
  BY <1>2 DEF Reject
<1>3. ASSUME NEW c \in Conns, Lose(c) PROVE TypeOK'
  BY <1>3 DEF Lose
<1>4. ASSUME NEW c \in Conns, Swap(c) PROVE TypeOK'
  BY <1>4 DEF Swap
<1>5. ASSUME NEW c \in Conns, Evict(c) PROVE TypeOK'
  BY <1>5 DEF Evict
<1>6. ASSUME NEW c \in Conns, Ack(c) PROVE TypeOK'
  BY <1>6 DEF Ack
<1>7. ASSUME NEW c \in Conns, MarkConnected(c) PROVE TypeOK'
  BY <1>7 DEF MarkConnected
<1>8. ASSUME NEW c \in Conns, AuditConnect(c) PROVE TypeOK'
  BY <1>8 DEF AuditConnect
<1>9. ASSUME NEW c \in Conns, LoopEnds(c) PROVE TypeOK'
  BY <1>9 DEF LoopEnds
<1>10. ASSUME NEW x \in Enders, Delete(x) PROVE TypeOK'
  BY <1>10 DEF Delete
<1>11. ASSUME NEW x \in Enders, CloseTransport(x) PROVE TypeOK'
  BY <1>11 DEF CloseTransport
<1>12. ASSUME NEW x \in Enders, MarkDisconnected(x) PROVE TypeOK'
  BY <1>12 DEF MarkDisconnected
<1>13. ASSUME NEW x \in Enders, AuditDisconnect(x) PROVE TypeOK'
  BY <1>13 DEF AuditDisconnect
<1>14. ASSUME GenerateToken PROVE TypeOK'
  BY <1>14 DEF GenerateToken
<1>15. ASSUME NEW a \in Admins, Revoke(a) PROVE TypeOK'
  BY <1>15 DEF Revoke
<1>16. ASSUME NEW a \in Admins, CheckForced(a) PROVE TypeOK'
  BY <1>16 DEF CheckForced
<1>17. ASSUME NEW a \in Admins, CommitForced(a) PROVE TypeOK'
  BY <1>17 DEF CommitForced
<1>18. ASSUME NEW a \in Admins, FindTunnel(a) PROVE TypeOK'
  BY <1>18 DEF FindTunnel
<1>19. ASSUME NEW a \in Admins, CallFails(a) PROVE TypeOK'
  BY <1>19 DEF CallFails
<1>20. CASE UNCHANGED vars
  BY <1>20 DEF vars
<1> QED
  BY <1>1, <1>2, <1>3, <1>4, <1>5, <1>6, <1>7, <1>8, <1>9, <1>10, <1>11, <1>12,
     <1>13, <1>14, <1>15, <1>16, <1>17, <1>18, <1>19, <1>20
     DEF Next, ConnStep, EndStep, AdminStep

(* What was replaced or removed was registered and is not any more.        *)
LEMMA PlacedStep == ASSUME TypeOK, Placed, [Next]_vars PROVE Placed'
<1> USE RegistryAssumption DEF TypeOK, Enders, brokerVars, Placed, DeregisteredStaysOff,
    Registered, Ending
<1>1. ASSUME NEW c \in Conns, Accept(c) PROVE Placed'
  BY <1>1 DEF Accept
<1>2. ASSUME NEW c \in Conns, Reject(c) PROVE Placed'
  BY <1>2 DEF Reject
<1>3. ASSUME NEW c \in Conns, Lose(c) PROVE Placed'
  BY <1>3 DEF Lose
<1>4. ASSUME NEW c \in Conns, Swap(c) PROVE Placed'
  BY <1>4 DEF Swap
<1>5. ASSUME NEW c \in Conns, Evict(c) PROVE Placed'
  BY <1>5 DEF Evict
<1>6. ASSUME NEW c \in Conns, Ack(c) PROVE Placed'
  BY <1>6 DEF Ack
<1>7. ASSUME NEW c \in Conns, MarkConnected(c) PROVE Placed'
  BY <1>7 DEF MarkConnected
<1>8. ASSUME NEW c \in Conns, AuditConnect(c) PROVE Placed'
  BY <1>8 DEF AuditConnect
<1>9. ASSUME NEW c \in Conns, LoopEnds(c) PROVE Placed'
  BY <1>9 DEF LoopEnds
<1>10. ASSUME NEW x \in Enders, Delete(x) PROVE Placed'
  BY <1>10 DEF Delete
<1>11. ASSUME NEW x \in Enders, CloseTransport(x) PROVE Placed'
  BY <1>11 DEF CloseTransport
<1>12. ASSUME NEW x \in Enders, MarkDisconnected(x) PROVE Placed'
  BY <1>12 DEF MarkDisconnected
<1>13. ASSUME NEW x \in Enders, AuditDisconnect(x) PROVE Placed'
  BY <1>13 DEF AuditDisconnect
<1>14. ASSUME GenerateToken PROVE Placed'
  BY <1>14 DEF GenerateToken
<1>15. ASSUME NEW a \in Admins, Revoke(a) PROVE Placed'
  BY <1>15 DEF Revoke
<1>16. ASSUME NEW a \in Admins, CheckForced(a) PROVE Placed'
  BY <1>16 DEF CheckForced
<1>17. ASSUME NEW a \in Admins, CommitForced(a) PROVE Placed'
  BY <1>17 DEF CommitForced
<1>18. ASSUME NEW a \in Admins, FindTunnel(a) PROVE Placed'
  BY <1>18 DEF FindTunnel
<1>19. ASSUME NEW a \in Admins, CallFails(a) PROVE Placed'
  BY <1>19 DEF CallFails
<1>20. CASE UNCHANGED vars
  BY <1>20 DEF vars
<1> QED
  BY <1>1, <1>2, <1>3, <1>4, <1>5, <1>6, <1>7, <1>8, <1>9, <1>10, <1>11, <1>12,
     <1>13, <1>14, <1>15, <1>16, <1>17, <1>18, <1>19, <1>20
     DEF Next, ConnStep, EndStep, AdminStep

(* The one that removes a tunnel found it registered: nobody else had      *)
(* removed it, and nobody will.                                            *)
LEMMA LeavesOnceStep == ASSUME TypeOK, Placed, LeavesOnce, [Next]_vars PROVE LeavesOnce'
<1> USE RegistryAssumption DEF TypeOK, Enders, brokerVars, Placed, DeregisteredStaysOff,
    Registered, Ending, LeavesOnce
<1>1. ASSUME NEW c \in Conns, Accept(c) PROVE LeavesOnce'
  BY <1>1 DEF Accept
<1>2. ASSUME NEW c \in Conns, Reject(c) PROVE LeavesOnce'
  BY <1>2 DEF Reject
<1>3. ASSUME NEW c \in Conns, Lose(c) PROVE LeavesOnce'
  BY <1>3 DEF Lose
<1>4. ASSUME NEW c \in Conns, Swap(c) PROVE LeavesOnce'
  BY <1>4 DEF Swap
<1>5. ASSUME NEW c \in Conns, Evict(c) PROVE LeavesOnce'
  BY <1>5 DEF Evict
<1>6. ASSUME NEW c \in Conns, Ack(c) PROVE LeavesOnce'
  BY <1>6 DEF Ack
<1>7. ASSUME NEW c \in Conns, MarkConnected(c) PROVE LeavesOnce'
  BY <1>7 DEF MarkConnected
<1>8. ASSUME NEW c \in Conns, AuditConnect(c) PROVE LeavesOnce'
  BY <1>8 DEF AuditConnect
<1>9. ASSUME NEW c \in Conns, LoopEnds(c) PROVE LeavesOnce'
  BY <1>9 DEF LoopEnds
<1>10. ASSUME NEW x \in Enders, Delete(x) PROVE LeavesOnce'
  BY <1>10, SMTT(60) DEF Delete
<1>11. ASSUME NEW x \in Enders, CloseTransport(x) PROVE LeavesOnce'
  BY <1>11 DEF CloseTransport
<1>12. ASSUME NEW x \in Enders, MarkDisconnected(x) PROVE LeavesOnce'
  BY <1>12 DEF MarkDisconnected
<1>13. ASSUME NEW x \in Enders, AuditDisconnect(x) PROVE LeavesOnce'
  BY <1>13 DEF AuditDisconnect
<1>14. ASSUME GenerateToken PROVE LeavesOnce'
  BY <1>14 DEF GenerateToken
<1>15. ASSUME NEW a \in Admins, Revoke(a) PROVE LeavesOnce'
  BY <1>15 DEF Revoke
<1>16. ASSUME NEW a \in Admins, CheckForced(a) PROVE LeavesOnce'
  BY <1>16 DEF CheckForced
<1>17. ASSUME NEW a \in Admins, CommitForced(a) PROVE LeavesOnce'
  BY <1>17 DEF CommitForced
<1>18. ASSUME NEW a \in Admins, FindTunnel(a) PROVE LeavesOnce'
  BY <1>18 DEF FindTunnel
<1>19. ASSUME NEW a \in Admins, CallFails(a) PROVE LeavesOnce'
  BY <1>19 DEF CallFails
<1>20. CASE UNCHANGED vars
  BY <1>20 DEF vars
<1> QED
  BY <1>1, <1>2, <1>3, <1>4, <1>5, <1>6, <1>7, <1>8, <1>9, <1>10, <1>11, <1>12,
     <1>13, <1>14, <1>15, <1>16, <1>17, <1>18, <1>19, <1>20
     DEF Next, ConnStep, EndStep, AdminStep

(* A transport is closed by whoever took its connection off the registry.  *)
LEMMA OpenedStep == ASSUME TypeOK, Placed, Opened, [Next]_vars PROVE Opened'
<1> USE RegistryAssumption DEF TypeOK, Enders, brokerVars, Placed, DeregisteredStaysOff,
    Registered, Ending, Opened
<1>1. ASSUME NEW c \in Conns, Accept(c) PROVE Opened'
  BY <1>1 DEF Accept
<1>2. ASSUME NEW c \in Conns, Reject(c) PROVE Opened'
  BY <1>2 DEF Reject
<1>3. ASSUME NEW c \in Conns, Lose(c) PROVE Opened'
  BY <1>3 DEF Lose
<1>4. ASSUME NEW c \in Conns, Swap(c) PROVE Opened'
  BY <1>4 DEF Swap
<1>5. ASSUME NEW c \in Conns, Evict(c) PROVE Opened'
  BY <1>5 DEF Evict
<1>6. ASSUME NEW c \in Conns, Ack(c) PROVE Opened'
  BY <1>6 DEF Ack
<1>7. ASSUME NEW c \in Conns, MarkConnected(c) PROVE Opened'
  BY <1>7 DEF MarkConnected
<1>8. ASSUME NEW c \in Conns, AuditConnect(c) PROVE Opened'
  BY <1>8 DEF AuditConnect
<1>9. ASSUME NEW c \in Conns, LoopEnds(c) PROVE Opened'
  BY <1>9 DEF LoopEnds
<1>10. ASSUME NEW x \in Enders, Delete(x) PROVE Opened'
  BY <1>10 DEF Delete
<1>11. ASSUME NEW x \in Enders, CloseTransport(x) PROVE Opened'
  BY <1>11 DEF CloseTransport
<1>12. ASSUME NEW x \in Enders, MarkDisconnected(x) PROVE Opened'
  BY <1>12 DEF MarkDisconnected
<1>13. ASSUME NEW x \in Enders, AuditDisconnect(x) PROVE Opened'
  BY <1>13 DEF AuditDisconnect
<1>14. ASSUME GenerateToken PROVE Opened'
  BY <1>14 DEF GenerateToken
<1>15. ASSUME NEW a \in Admins, Revoke(a) PROVE Opened'
  BY <1>15 DEF Revoke
<1>16. ASSUME NEW a \in Admins, CheckForced(a) PROVE Opened'
  BY <1>16 DEF CheckForced
<1>17. ASSUME NEW a \in Admins, CommitForced(a) PROVE Opened'
  BY <1>17 DEF CommitForced
<1>18. ASSUME NEW a \in Admins, FindTunnel(a) PROVE Opened'
  BY <1>18 DEF FindTunnel
<1>19. ASSUME NEW a \in Admins, CallFails(a) PROVE Opened'
  BY <1>19 DEF CallFails
<1>20. CASE UNCHANGED vars
  BY <1>20 DEF vars
<1> QED
  BY <1>1, <1>2, <1>3, <1>4, <1>5, <1>6, <1>7, <1>8, <1>9, <1>10, <1>11, <1>12,
     <1>13, <1>14, <1>15, <1>16, <1>17, <1>18, <1>19, <1>20
     DEF Next, ConnStep, EndStep, AdminStep

(* Taking a connection off the registry makes the obligation to close it,  *)
(* which only closing it discharges.                                       *)
LEMMA NoOrphanStep == ASSUME TypeOK, Placed, QuicOrder, NoOrphan, [Next]_vars PROVE NoOrphan'
<1> USE RegistryAssumption DEF TypeOK, Enders, brokerVars, Placed, QuicOrder,
    DeregisteredStaysOff, Registered, NoOrphan
<1>1. ASSUME NEW c \in Conns, Accept(c) PROVE NoOrphan'
  BY <1>1 DEF Accept
<1>2. ASSUME NEW c \in Conns, Reject(c) PROVE NoOrphan'
  BY <1>2 DEF Reject
<1>3. ASSUME NEW c \in Conns, Lose(c) PROVE NoOrphan'
  BY <1>3 DEF Lose
<1>4. ASSUME NEW c \in Conns, Swap(c) PROVE NoOrphan'
  BY <1>4 DEF Swap
<1>5. ASSUME NEW c \in Conns, Evict(c) PROVE NoOrphan'
  BY <1>5 DEF Evict
<1>6. ASSUME NEW c \in Conns, Ack(c) PROVE NoOrphan'
  BY <1>6 DEF Ack
<1>7. ASSUME NEW c \in Conns, MarkConnected(c) PROVE NoOrphan'
  BY <1>7 DEF MarkConnected
<1>8. ASSUME NEW c \in Conns, AuditConnect(c) PROVE NoOrphan'
  BY <1>8 DEF AuditConnect
<1>9. ASSUME NEW c \in Conns, LoopEnds(c) PROVE NoOrphan'
  BY <1>9 DEF LoopEnds
<1>10. ASSUME NEW x \in Enders, Delete(x) PROVE NoOrphan'
  BY <1>10 DEF Delete
<1>11. ASSUME NEW x \in Enders, CloseTransport(x) PROVE NoOrphan'
  BY <1>11 DEF CloseTransport
<1>12. ASSUME NEW x \in Enders, MarkDisconnected(x) PROVE NoOrphan'
  BY <1>12 DEF MarkDisconnected
<1>13. ASSUME NEW x \in Enders, AuditDisconnect(x) PROVE NoOrphan'
  BY <1>13 DEF AuditDisconnect
<1>14. ASSUME GenerateToken PROVE NoOrphan'
  BY <1>14 DEF GenerateToken
<1>15. ASSUME NEW a \in Admins, Revoke(a) PROVE NoOrphan'
  BY <1>15 DEF Revoke
<1>16. ASSUME NEW a \in Admins, CheckForced(a) PROVE NoOrphan'
  BY <1>16 DEF CheckForced
<1>17. ASSUME NEW a \in Admins, CommitForced(a) PROVE NoOrphan'
  BY <1>17 DEF CommitForced
<1>18. ASSUME NEW a \in Admins, FindTunnel(a) PROVE NoOrphan'
  BY <1>18 DEF FindTunnel
<1>19. ASSUME NEW a \in Admins, CallFails(a) PROVE NoOrphan'
  BY <1>19 DEF CallFails
<1>20. CASE UNCHANGED vars
  BY <1>20 DEF vars
<1> QED
  BY <1>1, <1>2, <1>3, <1>4, <1>5, <1>6, <1>7, <1>8, <1>9, <1>10, <1>11, <1>12,
     <1>13, <1>14, <1>15, <1>16, <1>17, <1>18, <1>19, <1>20
     DEF Next, ConnStep, EndStep, AdminStep

(* A QUIC loop ends after its handler's last write.                        *)
LEMMA QuicStep == ASSUME TypeOK, Placed, QuicOrder, [Next]_vars PROVE QuicOrder'
<1> USE RegistryAssumption DEF TypeOK, Enders, brokerVars, Placed, QuicOrder,
    DeregisteredStaysOff
<1>1. ASSUME NEW c \in Conns, Accept(c) PROVE QuicOrder'
  BY <1>1 DEF Accept
<1>2. ASSUME NEW c \in Conns, Reject(c) PROVE QuicOrder'
  BY <1>2 DEF Reject
<1>3. ASSUME NEW c \in Conns, Lose(c) PROVE QuicOrder'
  BY <1>3 DEF Lose
<1>4. ASSUME NEW c \in Conns, Swap(c) PROVE QuicOrder'
  BY <1>4 DEF Swap
<1>5. ASSUME NEW c \in Conns, Evict(c) PROVE QuicOrder'
  BY <1>5 DEF Evict
<1>6. ASSUME NEW c \in Conns, Ack(c) PROVE QuicOrder'
  BY <1>6 DEF Ack
<1>7. ASSUME NEW c \in Conns, MarkConnected(c) PROVE QuicOrder'
  BY <1>7 DEF MarkConnected
<1>8. ASSUME NEW c \in Conns, AuditConnect(c) PROVE QuicOrder'
  BY <1>8 DEF AuditConnect
<1>9. ASSUME NEW c \in Conns, LoopEnds(c) PROVE QuicOrder'
  BY <1>9 DEF LoopEnds
<1>10. ASSUME NEW x \in Enders, Delete(x) PROVE QuicOrder'
  BY <1>10 DEF Delete
<1>11. ASSUME NEW x \in Enders, CloseTransport(x) PROVE QuicOrder'
  BY <1>11 DEF CloseTransport
<1>12. ASSUME NEW x \in Enders, MarkDisconnected(x) PROVE QuicOrder'
  BY <1>12 DEF MarkDisconnected
<1>13. ASSUME NEW x \in Enders, AuditDisconnect(x) PROVE QuicOrder'
  BY <1>13 DEF AuditDisconnect
<1>14. ASSUME GenerateToken PROVE QuicOrder'
  BY <1>14 DEF GenerateToken
<1>15. ASSUME NEW a \in Admins, Revoke(a) PROVE QuicOrder'
  BY <1>15 DEF Revoke
<1>16. ASSUME NEW a \in Admins, CheckForced(a) PROVE QuicOrder'
  BY <1>16 DEF CheckForced
<1>17. ASSUME NEW a \in Admins, CommitForced(a) PROVE QuicOrder'
  BY <1>17 DEF CommitForced
<1>18. ASSUME NEW a \in Admins, FindTunnel(a) PROVE QuicOrder'
  BY <1>18 DEF FindTunnel
<1>19. ASSUME NEW a \in Admins, CallFails(a) PROVE QuicOrder'
  BY <1>19 DEF CallFails
<1>20. CASE UNCHANGED vars
  BY <1>20 DEF vars
<1> QED
  BY <1>1, <1>2, <1>3, <1>4, <1>5, <1>6, <1>7, <1>8, <1>9, <1>10, <1>11, <1>12,
     <1>13, <1>14, <1>15, <1>16, <1>17, <1>18, <1>19, <1>20
     DEF Next, ConnStep, EndStep, AdminStep

-----------------------------------------------------------------------------
(* The invariant holds at first, of a gateway nobody has connected to, ... *)
LEMMA InvInit == Init => Inv
<1> SUFFICES ASSUME Init PROVE Inv
  OBVIOUS
<1> USE RegistryAssumption DEF Init, Enders, Registered, Ending
<1>1. TypeOK
  BY DEF TypeOK
<1>2. Placed
  BY DEF Placed, DeregisteredStaysOff
<1>3. LeavesOnce
  BY DEF LeavesOnce
<1>4. Opened /\ NoOrphan
  BY DEF Opened, NoOrphan
<1>5. QuicOrder
  BY DEF QuicOrder
<1> QED
  BY <1>1, <1>2, <1>3, <1>4, <1>5 DEF Inv

(* ... and of every behaviour.                                             *)
LEMMA Invariance == Spec => []Inv
<1>1. Inv /\ [Next]_vars => Inv'
  BY TypeStep, PlacedStep, LeavesOnceStep, OpenedStep, NoOrphanStep, QuicStep
     DEF Inv
<1> QED
  BY <1>1, InvInit, PTL DEF Spec

(* Every variable keeps its type, and deregister never runs without a      *)
(* connection (broker_connections.go:239).                                 *)
THEOREM TypeCorrect == Spec => []TypeOK
<1>1. Inv => TypeOK
  BY DEF Inv
<1> QED
  BY <1>1, Invariance, PTL

(* Whoever goes through the registry gets a transport the broker has not   *)
(* closed, however registrations and disconnections overlap.               *)
THEOREM RegisteredIsNotClosedHolds == Spec => []RegisteredIsNotClosed
<1>1. Inv => RegisteredIsNotClosed
  <2> SUFFICES ASSUME Inv, registry # None PROVE link[registry] \in {"open", "lost"}
    BY DEF RegisteredIsNotClosed
  <2>1. registry \in Conns /\ link[registry] \in {"none", "open", "lost", "closed"}
    BY DEF Inv, TypeOK
  <2>2. link[registry] # "none" /\ link[registry] # "closed"
    BY <2>1 DEF Inv, Placed, Opened
  <2> QED
    BY <2>1, <2>2
<1> QED
  BY <1>1, Invariance, PTL

(* A tunnel the registry has lost sight of is closed or about to be.       *)
THEOREM NoOrphanHolds == Spec => []NoOrphan
<1>1. Inv => NoOrphan
  BY DEF Inv
<1> QED
  BY <1>1, Invariance, PTL

(* One goroutine takes a tunnel off the registry: the row is cleared and   *)
(* the disconnect audited at most once per tunnel, never for a replaced    *)
(* one.                                                                    *)
THEOREM LeavesOnceHolds == Spec => []LeavesOnce
<1>1. Inv => LeavesOnce
  BY DEF Inv
<1> QED
  BY <1>1, Invariance, PTL

(* A tunnel that deregister has seen to, for its loop or for an            *)
(* administrator, is never found in the registry again: the safety half of *)
(* LostTunnelLeaves and CommittedDisconnectCloses.                         *)
THEOREM DeregisteredStaysOffHolds == Spec => []DeregisteredStaysOff
<1>1. Inv => DeregisteredStaysOff
  BY DEF Inv, Placed
<1> QED
  BY <1>1, Invariance, PTL

(* A QUIC tunnel that ended by itself does not stay in the Gateway row.    *)
THEOREM QuicRowIsClearedHolds == Spec => []QuicRowIsCleared
<1>1. Inv => QuicRowIsCleared
  BY DEF Inv, QuicOrder, QuicRowIsCleared
<1> QED
  BY <1>1, Invariance, PTL

-----------------------------------------------------------------------------
(* The refinement of TunnelLives. What each connection stands for:         *)
LifeOf(c) == IF link[c] = "closed" THEN "down"
             ELSE IF registry = c  THEN "up"
             ELSE IF Registered(c) THEN "leaving"
             ELSE "new"

Life == [c \in Conns |-> LifeOf(c)]

(* A step that leaves the life of each connection alone stutters, and one  *)
(* that changes the life of one connection is read off that connection.    *)
LEMMA Lives ==
  /\ (\A d \in Conns : LifeOf(d)' = LifeOf(d)) => Life' = Life
  /\ \A c \in Conns :
       (\A d \in Conns \ {c} : LifeOf(d)' = LifeOf(d))
         => Life' = [Life EXCEPT ![c] = LifeOf(c)']
BY DEF Life

(* Only the critical sections on the registry and the closing of a         *)
(* transport change the life of a connection.                              *)
LEMMA OtherActions ==
  ASSUME Inv, [Next]_vars,
         ~ \E c \in Conns : Swap(c) \/ Evict(c),
         ~ \E x \in Enders : Delete(x) \/ CloseTransport(x),
         NEW d \in Conns
  PROVE  LifeOf(d)' = LifeOf(d)
<1> USE RegistryAssumption DEF Inv, TypeOK, Enders, brokerVars, Opened, Registered, LifeOf
<1>1. ASSUME NEW c \in Conns, Accept(c) \/ Reject(c) \/ Lose(c) PROVE LifeOf(d)' = LifeOf(d)
  BY <1>1 DEF Accept, Reject, Lose
<1>2. ASSUME NEW c \in Conns, Ack(c) \/ MarkConnected(c) \/ AuditConnect(c) \/ LoopEnds(c)
      PROVE  LifeOf(d)' = LifeOf(d)
  BY <1>2 DEF Ack, MarkConnected, AuditConnect, LoopEnds
<1>3. ASSUME NEW x \in Enders, MarkDisconnected(x) \/ AuditDisconnect(x)
      PROVE  LifeOf(d)' = LifeOf(d)
  BY <1>3 DEF MarkDisconnected, AuditDisconnect
<1>4. ASSUME NEW a \in Admins,
             Revoke(a) \/ CheckForced(a) \/ CommitForced(a) \/ FindTunnel(a) \/ CallFails(a)
      PROVE  LifeOf(d)' = LifeOf(d)
  BY <1>4 DEF Revoke, CheckForced, CommitForced, FindTunnel, CallFails
<1>5. CASE GenerateToken \/ UNCHANGED vars
  BY <1>5 DEF GenerateToken, vars
<1> QED
  BY <1>1, <1>2, <1>3, <1>4, <1>5 DEF Next, ConnStep, EndStep, AdminStep

(* The critical section of a registration puts one tunnel in the place of  *)
(* another ...                                                             *)
LEMMA SwapConnects == ASSUME Inv, NEW c \in Conns, Swap(c) PROVE Promise!Connect(c)
<1> USE RegistryAssumption DEF Inv, TypeOK
<1>1. handler[c] = "accepted" /\ registry # c /\ link[c] # "closed" /\ LifeOf(c) = "new"
  BY DEF Swap, Placed, Opened, Registered, LifeOf
<1>2. registry' = c /\ link' = link /\ LifeOf(c)' = "up"
  BY <1>1 DEF Swap, LifeOf
<1>3. ASSUME NEW d \in Conns, d # c
      PROVE  LifeOf(d)' = IF LifeOf(d) = "up" THEN "leaving" ELSE LifeOf(d)
  <2>1. Registered(d)' = Registered(d)
    BY <1>3 DEF Swap, Registered
  <2>2. registry = d => Registered(d) /\ link[d] # "closed"
    BY DEF Placed, Opened
  <2> QED
    BY <1>2, <1>3, <2>1, <2>2 DEF LifeOf
<1>4. Life[c] = "new" /\ Life' = [d \in Conns |-> IF d = c THEN "up"
                                   ELSE IF Life[d] = "up" THEN "leaving" ELSE Life[d]]
  BY <1>1, <1>2, <1>3 DEF Life
<1> QED
  BY <1>4 DEF Promise!Connect, Life, LifeOf

(* ... its second half closes a tunnel that has left, or had left already  *)
(* and been closed, ...                                                    *)
LEMMA EvictCloses ==
  ASSUME Inv, NEW c \in Conns, Evict(c)
  PROVE  (\E d \in Conns : Promise!Close(d)) \/ Life' = Life
<1> USE RegistryAssumption DEF Inv, TypeOK
<1>1. \A d \in Conns : Registered(d)' = Registered(d) /\ registry' = registry
  BY DEF Evict, Registered
<1>2. \A d \in Conns \ {existing[c]} : LifeOf(d)' = LifeOf(d)
  BY <1>1 DEF Evict, LifeOf
<1>3. CASE existing[c] = None \/ link[existing[c]] = "closed"
  BY <1>1, <1>2, <1>3, Lives DEF Evict, LifeOf
<1>4. CASE existing[c] # None /\ link[existing[c]] # "closed"
  <2>1. PICK d \in Conns : d = existing[c]
    BY <1>4
  <2>2. LifeOf(d) = "leaving" /\ LifeOf(d)' = "down"
    BY <1>4, <2>1 DEF Evict, Placed, LifeOf
  <2>3. Life' = [Life EXCEPT ![d] = "down"] /\ Life[d] = "leaving"
    BY <1>2, <2>1, <2>2, Lives DEF Life
  <2> QED
    BY <2>3 DEF Promise!Close, Life, LifeOf
<1> QED
  BY <1>3, <1>4

(* ... deregister takes the tunnel in use out of it, if it is still there, *)
LEMMA DeleteLeaves ==
  ASSUME Inv, NEW x \in Enders, Delete(x)
  PROVE  (\E d \in Conns : Promise!Leave(d)) \/ Life' = Life
<1> USE RegistryAssumption DEF Inv, TypeOK
<1>1. link' = link /\ \A d \in Conns : Registered(d)' = Registered(d)
  BY DEF Delete, Registered
<1>2. CASE registry # target[x]
  BY <1>1, <1>2, Lives DEF Delete, LifeOf
<1>3. CASE registry = target[x]
  <2>1. PICK d \in Conns : registry = d /\ registry' = None /\ d # None
    BY <1>3 DEF Delete
  <2>2. LifeOf(d) = "up" /\ LifeOf(d)' = "leaving"
    BY <1>1, <2>1 DEF Placed, Opened, LifeOf
  <2>3. \A e \in Conns \ {d} : LifeOf(e)' = LifeOf(e)
    BY <1>1, <2>1 DEF LifeOf
  <2>4. Life' = [Life EXCEPT ![d] = "leaving"] /\ Life[d] = "up"
    BY <2>1, <2>2, <2>3, Lives DEF Life
  <2> QED
    BY <2>1, <2>4 DEF Promise!Leave, Life, LifeOf
<1> QED
  BY <1>2, <1>3

(* ... and closes it afterwards.                                           *)
LEMMA CloseTransportCloses ==
  ASSUME Inv, NEW x \in Enders, CloseTransport(x)
  PROVE  (\E d \in Conns : Promise!Close(d)) \/ Life' = Life
<1> USE RegistryAssumption DEF Inv, TypeOK
<1>1. PICK d \in Conns :
        /\ Registered(d) /\ registry # d
        /\ registry' = registry /\ link' = [link EXCEPT ![d] = "closed"]
        /\ \A e \in Conns : Registered(e)' = Registered(e)
  <2>1. PICK d \in Conns : d = target[x]
    BY DEF CloseTransport, Enders
  <2>2. Registered(d) /\ registry # d
    BY <2>1 DEF CloseTransport, Placed, DeregisteredStaysOff
  <2> QED
    BY <2>1, <2>2 DEF CloseTransport, Registered
<1>2. \A e \in Conns \ {d} : LifeOf(e)' = LifeOf(e)
  BY <1>1 DEF LifeOf
<1>3. LifeOf(d)' = "down" /\ LifeOf(d) \in {"leaving", "down"}
  BY <1>1 DEF LifeOf
<1>4. CASE LifeOf(d) = "down"
  BY <1>2, <1>3, <1>4, Lives
<1>5. CASE LifeOf(d) = "leaving"
  <2>1. Life' = [Life EXCEPT ![d] = "down"] /\ Life[d] = "leaving"
    BY <1>1, <1>2, <1>3, <1>5, Lives DEF Life
  <2> QED
    BY <1>1, <2>1 DEF Promise!Close, Life, LifeOf
<1> QED
  BY <1>3, <1>4, <1>5

(* The registry implements TunnelLives, whoever races: there is one tunnel *)
(* in use, the newer takes the place of the older in one step, and the     *)
(* broker closes a transport only after its tunnel has left the registry,  *)
(* to which it never returns.                                              *)
THEOREM KeepsTunnelPromiseHolds == Spec => KeepsTunnelPromise
<1>1. Init => Promise!LivesInit
  BY RegistryAssumption DEF Init, Promise!LivesInit, Registered
<1>2. Inv /\ [Next]_vars => [Promise!LivesNext]_Life
  <2> SUFFICES ASSUME Inv, [Next]_vars PROVE Promise!LivesNext \/ Life' = Life
    OBVIOUS
  <2>1. ASSUME NEW c \in Conns, Swap(c) \/ Evict(c) PROVE Promise!LivesNext \/ Life' = Life
    BY <2>1, SwapConnects, EvictCloses DEF Promise!LivesNext
  <2>2. ASSUME NEW x \in Enders, Delete(x) \/ CloseTransport(x)
        PROVE  Promise!LivesNext \/ Life' = Life
    BY <2>2, DeleteLeaves, CloseTransportCloses DEF Promise!LivesNext
  <2>3. CASE /\ ~ \E c \in Conns : Swap(c) \/ Evict(c)
             /\ ~ \E x \in Enders : Delete(x) \/ CloseTransport(x)
    BY <2>3, OtherActions, Lives
  <2> QED
    BY <2>1, <2>2, <2>3
<1> QED
  BY <1>1, <1>2, Invariance, PTL
  DEF Spec, KeepsTunnelPromise, Promise!LivesSpec, Life, LifeOf
=============================================================================
