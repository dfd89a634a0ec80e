---------------------------- MODULE TunnelRegistry ----------------------------
(***************************************************************************)
(* The tunnels of one gateway: the broker's registry, which holds at most  *)
(* one connection per gateway, the goroutines that register and deregister *)
(* connections, the administrators' revocations and forced disconnections, *)
(* and the Gateway row.                                                    *)
(*                                                                         *)
(* A WebSocket tunnel is registered by its request's handler, which then   *)
(* starts a read loop; a QUIC tunnel is served by one goroutine throughout.*)
(* Deregistration is the same code whoever runs it: the tunnel's own loop, *)
(* or the DELETE handler on behalf of an administrator. A critical section *)
(* under Broker.mu and a statement on the database are one action each.    *)
(***************************************************************************)
CONSTANTS
  Conns,        \* connections agents of the gateway make
  Quic,         \* those over QUIC; the others are WebSockets
  Admins,       \* administrators' requests, one operation each
  None

ASSUME RegistryAssumption ==
  /\ Quic \subseteq Conns
  /\ Conns \intersect Admins = {}
  /\ None \notin Conns

VARIABLES
  registry,     \* registry[gatewayID]
  link,         \* each connection's transport; lost: the agent is gone
  handler,      \* progress of the goroutine that registers each connection
  existing,     \* the connection that each registration replaced
  end,          \* progress of deregister for each loop and each DELETE
  target,       \* the connection it is called with
  admin,        \* progress of each administrator's request
  enabled,      \* Gateway.tunnelEnabled, with the hash of the current token
  row           \* Gateway.tunnelConnectedAt, as the connection it is from

brokerVars == <<registry, link, handler, existing, end, target>>
vars == <<registry, link, handler, existing, end, target, admin, enabled, row>>

Enders == Conns \union Admins

TypeOK ==
  /\ registry \in Conns \union {None}
  /\ link     \in [Conns -> {"none", "open", "lost", "closed"}]
  /\ handler  \in [Conns -> {"new", "rejected", "accepted", "swapped", "registered",
                             "acked", "marked", "done"}]
  /\ existing \in [Conns -> Conns \union {None}]
  /\ end      \in [Enders -> {"idle", "going", "deleted", "closed", "cleared",
                              "audited", "no-op"}]
  /\ target   \in [Enders -> Conns \union {None}]
  /\ admin    \in [Admins -> {"idle", "checked", "committed", "calling", "unheard",
                              "refused"}]
  /\ \A x \in Enders : target[x] = None => end[x] \in {"idle", "no-op"}
  /\ enabled  \in BOOLEAN
  /\ row      \in Conns \union {None}

Init ==
  /\ registry = None
  /\ link     = [c \in Conns |-> "none"]
  /\ handler  = [c \in Conns |-> "new"]
  /\ existing = [c \in Conns |-> None]
  /\ end      = [x \in Enders |-> "idle"]
  /\ target   = [x \in Enders |-> IF x \in Conns THEN x ELSE None]
  /\ admin    = [a \in Admins |-> "idle"]
  /\ enabled  = FALSE
  /\ row      = None

-----------------------------------------------------------------------------
(* authenticateTunnel reads the row: tunnelling enabled, the token of the  *)
(* row, the certificate of the gateway. Then Upgrade, or the QUIC hello.   *)
Accept(c) ==
  /\ handler[c] = "new"
  /\ enabled
  /\ handler' = [handler EXCEPT ![c] = "accepted"]
  /\ link'    = [link    EXCEPT ![c] = "open"]
  /\ UNCHANGED <<registry, existing, end, target, admin, enabled, row>>

(* Disabled, another token, another certificate, or a malformed request.   *)
Reject(c) ==
  /\ handler[c] = "new"
  /\ handler' = [handler EXCEPT ![c] = "rejected"]
  /\ UNCHANGED <<registry, link, existing, end, target, admin, enabled, row>>

(* The critical section of registerConnection and registerQUIC: the newest *)
(* connection takes the entry.                                             *)
Swap(c) ==
  /\ handler[c] = "accepted"
  /\ registry' = c
  /\ existing' = [existing EXCEPT ![c] = registry]
  /\ handler'  = [handler  EXCEPT ![c] = "swapped"]
  /\ UNCHANGED <<link, end, target, admin, enabled, row>>

(* Faulty variant: the replaced connection is left to its own loop.        *)
ReplaceWithoutEviction(c) ==
  /\ handler[c] = "swapped"
  /\ handler' = [handler EXCEPT ![c] = "registered"]
  /\ UNCHANGED <<registry, link, existing, end, target, admin, enabled, row>>

(* Faulty variant: whatever is registered after the swap is closed.        *)
EvictRegistered(c) ==
  /\ handler[c] = "swapped"
  /\ handler' = [handler EXCEPT ![c] = "registered"]
  /\ link' = [d \in Conns |-> IF existing[c] # None /\ d = registry THEN "closed" ELSE link[d]]
  /\ UNCHANGED <<registry, existing, end, target, admin, enabled, row>>

(* The replaced connection is closed outside the lock; a WebSocket's read  *)
(* loop starts afterwards.                                                 *)
Evict(c) ==
  /\ handler[c] = "swapped"
  /\ handler' = [handler EXCEPT ![c] = "registered"]
  /\ link' = [d \in Conns |-> IF d = existing[c] THEN "closed" ELSE link[d]]
  /\ UNCHANGED <<registry, existing, end, target, admin, enabled, row>>

(* QUIC only: the ack, whose failure ends the handler in deregister.       *)
Ack(c) ==
  /\ c \in Quic
  /\ handler[c] = "registered"
  /\ \/ /\ link[c] = "open"
        /\ handler' = [handler EXCEPT ![c] = "acked"]
        /\ UNCHANGED end
     \/ /\ link[c] # "open"
        /\ handler' = [handler EXCEPT ![c] = "done"]
        /\ end'     = [end     EXCEPT ![c] = "going"]
  /\ UNCHANGED <<registry, link, existing, target, admin, enabled, row>>

(* MarkTunnelConnected.                                                    *)
MarkConnected(c) ==
  /\ handler[c] = IF c \in Quic THEN "acked" ELSE "registered"
  /\ handler' = [handler EXCEPT ![c] = "marked"]
  /\ row'     = c
  /\ UNCHANGED <<registry, link, existing, end, target, admin, enabled>>

(* The TUNNEL_CONNECT audit; a WebSocket's handler returns, a QUIC         *)
(* connection's goes on to its control loop.                               *)
AuditConnect(c) ==
  /\ handler[c] = "marked"
  /\ handler' = [handler EXCEPT ![c] = "done"]
  /\ UNCHANGED <<registry, link, existing, end, target, admin, enabled, row>>

(* The agent goes away or the network drops the tunnel.                    *)
Lose(c) ==
  /\ link[c] = "open"
  /\ link' = [link EXCEPT ![c] = "lost"]
  /\ UNCHANGED <<registry, handler, existing, end, target, admin, enabled, row>>

(* Faulty variant: the loop of a QUIC connection runs beside its handler.  *)
LoopEndsEarly(c) ==
  /\ end[c] = "idle"
  /\ link[c] \in {"lost", "closed"}
  /\ handler[c] \in {"registered", "acked", "marked", "done"}
  /\ end' = [end EXCEPT ![c] = "going"]
  /\ UNCHANGED <<registry, link, handler, existing, target, admin, enabled, row>>

(* readLoop or runQUICControl returns once a read fails.                   *)
LoopEnds(c) ==
  /\ end[c] = "idle"
  /\ link[c] \in {"lost", "closed"}
  /\ handler[c] \in IF c \in Quic THEN {"done"} ELSE {"registered", "marked", "done"}
  /\ end' = [end EXCEPT ![c] = "going"]
  /\ UNCHANGED <<registry, link, handler, existing, target, admin, enabled, row>>

-----------------------------------------------------------------------------
(* deregister.                                                             *)

(* Faulty variant: whatever is registered for the gateway is deleted.      *)
DeleteWhateverIsThere(x) ==
  /\ end[x] = "going"
  /\ registry' = None
  /\ end' = [end EXCEPT ![x] = IF registry = None THEN "no-op" ELSE "deleted"]
  /\ UNCHANGED <<link, handler, existing, target, admin, enabled, row>>

(* Faulty variant: a connection that is not registered is ended all the    *)
(* same.                                                                   *)
DeleteAnyway(x) ==
  /\ end[x] = "going"
  /\ registry' = IF registry = target[x] THEN None ELSE registry
  /\ end' = [end EXCEPT ![x] = "deleted"]
  /\ UNCHANGED <<link, handler, existing, target, admin, enabled, row>>

(* The critical section: nothing is done for a connection that is not, or  *)
(* no longer, the registered one.                                          *)
Delete(x) ==
  /\ end[x] = "going"
  /\ \/ /\ registry = target[x]
        /\ registry' = None
        /\ end' = [end EXCEPT ![x] = "deleted"]
     \/ /\ registry # target[x]
        /\ end' = [end EXCEPT ![x] = "no-op"]
        /\ UNCHANGED registry
  /\ UNCHANGED <<link, handler, existing, target, admin, enabled, row>>

(* closeTransport, idempotent for both transports.                         *)
CloseTransport(x) ==
  /\ end[x] = "deleted"
  /\ link' = [link EXCEPT ![target[x]] = "closed"]
  /\ end'  = [end  EXCEPT ![x] = "closed"]
  /\ UNCHANGED <<registry, handler, existing, target, admin, enabled, row>>

(* MarkTunnelDisconnected.                                                 *)
MarkDisconnected(x) ==
  /\ end[x] = "closed"
  /\ row' = None
  /\ end' = [end EXCEPT ![x] = "cleared"]
  /\ UNCHANGED <<registry, link, handler, existing, target, admin, enabled>>

(* The TUNNEL_DISCONNECT audit.                                            *)
AuditDisconnect(x) ==
  /\ end[x] = "cleared"
  /\ end' = [end EXCEPT ![x] = "audited"]
  /\ UNCHANGED <<registry, link, handler, existing, target, admin, enabled, row>>

-----------------------------------------------------------------------------
(* Administrators.                                                         *)

(* GenerateTunnelToken commits; a connected tunnel is left alone.          *)
GenerateToken ==
  /\ enabled' = TRUE
  /\ UNCHANGED <<brokerVars, admin, row>>

(* RevokeTunnelToken commits.                                              *)
Revoke(a) ==
  /\ admin[a] = "idle"
  /\ enabled' = FALSE
  /\ row'     = None
  /\ admin'   = [admin EXCEPT ![a] = "committed"]
  /\ UNCHANGED brokerVars

(* ForceDisconnectTunnel asks the broker whether a tunnel is connected.    *)
CheckForced(a) ==
  /\ admin[a] = "idle"
  /\ \/ /\ registry # None
        /\ admin' = [admin EXCEPT ![a] = "checked"]
     \/ admin' = [admin EXCEPT ![a] = "refused"]
  /\ UNCHANGED <<brokerVars, enabled, row>>

CommitForced(a) ==
  /\ admin[a] = "checked"
  /\ row'   = None
  /\ admin' = [admin EXCEPT ![a] = "committed"]
  /\ UNCHANGED <<brokerVars, enabled>>

(* Faulty variant: deregister is called with no connection.                *)
FindNothing(a) ==
  /\ admin[a] = "committed"
  /\ admin'  = [admin  EXCEPT ![a] = "calling"]
  /\ target' = [target EXCEPT ![a] = registry]
  /\ end'    = [end    EXCEPT ![a] = "going"]
  /\ UNCHANGED <<registry, link, handler, existing, enabled, row>>

(* The DELETE request reaches the broker, whose disconnectTunnel reads the *)
(* registry under the read lock; 404 when there is none.                   *)
FindTunnel(a) ==
  /\ admin[a] = "committed"
  /\ admin'  = [admin  EXCEPT ![a] = "calling"]
  /\ target' = [target EXCEPT ![a] = registry]
  /\ end'    = [end    EXCEPT ![a] = IF registry = None THEN "no-op" ELSE "going"]
  /\ UNCHANGED <<registry, link, handler, existing, enabled, row>>

(* The request fails; both services ignore the error.                      *)
CallFails(a) ==
  /\ admin[a] = "committed"
  /\ admin' = [admin EXCEPT ![a] = "unheard"]
  /\ UNCHANGED <<brokerVars, enabled, row>>

-----------------------------------------------------------------------------
ConnStep(c) ==
  Swap(c) \/ Evict(c) \/ Ack(c) \/ MarkConnected(c) \/ AuditConnect(c) \/ LoopEnds(c)

EndStep(x) == Delete(x) \/ CloseTransport(x) \/ MarkDisconnected(x) \/ AuditDisconnect(x)

AdminStep(a) == CommitForced(a) \/ FindTunnel(a) \/ CallFails(a)

Next ==
  \/ \E c \in Conns : Accept(c) \/ Reject(c) \/ Lose(c) \/ ConnStep(c)
  \/ \E x \in Enders : EndStep(x)
  \/ GenerateToken
  \/ \E a \in Admins : Revoke(a) \/ CheckForced(a) \/ AdminStep(a)

Spec == Init /\ [][Next]_vars

(* Goroutines that can run do; agents and administrators may never come.   *)
FairSpec ==
  /\ Spec
  /\ \A c \in Conns : WF_vars(ConnStep(c))
  /\ \A x \in Enders : WF_vars(EndStep(x))
  /\ \A a \in Admins : WF_vars(AdminStep(a))

-----------------------------------------------------------------------------
Registered(c) == handler[c] \notin {"new", "rejected", "accepted"}
Ending(x, c)  == target[x] = c /\ end[x] \in {"deleted", "closed", "cleared", "audited"}

(* The registered tunnel is never one the broker has closed: whoever opens *)
(* a stream through the registry gets a transport only its agent can have  *)
(* ended (broker_connections.go:25-35, 175-184).                           *)
RegisteredIsNotClosed == registry # None => link[registry] \in {"open", "lost"}

(* The registry keeps the promise of TunnelLives: a tunnel is in use while *)
(* it is registered, has left once it is not any more, and is down when    *)
(* its transport has been closed (broker_connections.go:12-40, 172-194).   *)
Promise == INSTANCE TunnelLives WITH
  Tunnels <- Conns,
  life    <- [c \in Conns |-> IF link[c] = "closed" THEN "down"
                              ELSE IF registry = c  THEN "up"
                              ELSE IF Registered(c) THEN "leaving"
                              ELSE "new"]

KeepsTunnelPromise == Promise!LivesSpec

(* A tunnel that is no longer registered, whoever replaced or removed it   *)
(* and in whatever order, is closed or about to be: no transport is left   *)
(* open that the registry cannot reach (broker_connections.go:30-36,       *)
(* 181-184).                                                               *)
NoOrphan ==
  \A c \in Conns :
    Registered(c) /\ link[c] # "closed" =>
      \/ registry = c
      \/ \E d \in Conns : existing[d] = c /\ handler[d] = "swapped"
      \/ \E x \in Enders : target[x] = c /\ end[x] = "deleted"

(* A tunnel leaves the registry once: replaced by one newer tunnel, with   *)
(* no TUNNEL_DISCONNECT, or deregistered by one of its loop and the        *)
(* administrators, which alone clears the row and writes the audit         *)
(* (broker_connections.go:175-194).                                        *)
LeavesOnce ==
  \A c \in Conns :
    /\ \A d, e \in Conns : existing[d] = c /\ existing[e] = c => d = e
    /\ \A x, y \in Enders : Ending(x, c) /\ Ending(y, c) => x = y
    /\ \A d \in Conns, x \in Enders : existing[d] = c => ~Ending(x, c)

(* A QUIC tunnel that ended by itself does not stay in the Gateway row:    *)
(* one goroutine writes its connect before its disconnect. A WebSocket's   *)
(* two writes are of two goroutines and may commit in either order         *)
(* (broker_quic.go:350-369, broker_handlers.go:48-51).                     *)
QuicRowIsCleared == \A c \in Quic : end[c] \in {"cleared", "audited"} => row # c

(* A tunnel whose agent has gone leaves the registry and is closed, also   *)
(* when it is lost half-way through its registration.                      *)
LostTunnelLeaves ==
  \A c \in Conns :
    Registered(c) /\ link[c] = "lost" ~> registry # c /\ link[c] = "closed"

(* Whoever has been through the critical section of deregister, as a loop  *)
(* or for an administrator, and whether or not it was the one to remove    *)
(* the tunnel, leaves it off the registry for good: the lookups that       *)
(* follow a lost or a disconnected tunnel never find it again              *)
(* (broker_connections.go:173-181).                                        *)
DeregisteredStaysOff ==
  \A x \in Enders :
    target[x] # None /\ end[x] \notin {"idle", "going"} => registry # target[x]

(* The tunnel that is registered when a revocation or a forced disconnect  *)
(* commits is closed, unless the request to the broker fails               *)
(* (tunnels_service.go:213-217, 262-266; docs/api/admin.md:205).           *)
CommittedDisconnectCloses ==
  \A a \in Admins, c \in Conns :
    admin[a] = "committed" /\ registry = c ~> link[c] = "closed" \/ admin[a] = "unheard"
=============================================================================
