---------------------------- MODULE TunnelStreams ----------------------------
(***************************************************************************)
(* One WebSocket tunnel: the tunnel broker, which opens a logical stream   *)
(* for each client socket its TCP proxies accept, and the tunnel agent,    *)
(* which dials the local service for each OPEN frame and forwards bytes.   *)
(*                                                                         *)
(* The broker's state is shared by its read loop, the proxies' goroutines, *)
(* the open timers and whoever closes the transport, under Broker.mu; a    *)
(* critical section is one action. The agent's read loop shares its socket *)
(* map with one copier goroutine per socket. Frames travel in order both   *)
(* ways and are lost when the tunnel goes down.                            *)
(***************************************************************************)
EXTENDS Integers, Sequences, FiniteSets

CONSTANTS
  Opens,        \* calls of openStream; each names its stream and its socket
  Talking,      \* those whose client or service sends bytes
  MaxId,        \* maxStreamID: ids are 1..MaxId and are reused in turn
  None

ASSUME StreamsAssumption ==
  /\ MaxId \in Nat \ {0}
  /\ None \notin Opens
  /\ Talking \subseteq Opens

VARIABLES
  next,         \* nextStreamID; 0 after an overflow
  pending,      \* pendingOpens
  streams,      \* streams
  idOf,         \* the streamID each open was given, 0 before
  client,       \* progress of each proxy goroutine
  resolve,      \* content of the pendingOpen's resolve channel, capacity 1
  life,         \* each streamConn: closeOnce not done, running, done
  link,         \* progress of closeTransport
  doomed,       \* streams closeTransport has yet to close
  loop,         \* what the broker's read loop is in the middle of
  toAgent,      \* frames on their way to the agent
  toBroker,     \* frames on their way to the broker
  agentUp,      \* whether the agent still runs this connection
  sockets,      \* Forwarder.sockets
  local,        \* each open's connection to the local service
  copier,       \* progress of copyLocalToTunnel for each open
  gaveUp        \* opens whose socket HandleData dropped after a failed write

brokerVars == <<next, pending, streams, idOf, client, resolve, life, link, doomed, loop>>
agentVars  == <<agentUp, sockets, local, copier, gaveUp>>
vars == <<next, pending, streams, idOf, client, resolve, life, link, doomed, loop,
          toAgent, toBroker, agentUp, sockets, local, copier, gaveUp>>

Ids    == 1..MaxId
Frames == [kind : {"OPEN", "DATA", "CLOSE"}, id : Ids, of : Opens]
Frame(kind, id, o) == [kind |-> kind, id |-> id, of |-> o]

TypeOK ==
  /\ next     \in 0..MaxId
  /\ pending  \in [Ids -> Opens \union {None}]
  /\ streams  \in [Ids -> Opens \union {None}]
  /\ idOf     \in [Opens -> 0..MaxId]
  /\ client   \in [Opens -> {"new", "allocated", "waiting", "proxying", "closed", "failed"}]
  /\ resolve  \in [Opens -> {"empty", "stream", "nil"}]
  /\ life     \in [Opens -> {"live", "closing", "dead"}]
  /\ link     \in {"up", "closing", "swapped", "down"}
  /\ doomed   \in SUBSET Opens
  /\ loop     \in [at : {"idle", "ack", "reap"}, of : Opens \union {None}]
  /\ toAgent  \in Seq(Frames)
  /\ toBroker \in Seq(Frames)
  /\ agentUp  \in BOOLEAN
  /\ sockets  \in [Ids -> Opens \union {None}]
  /\ local    \in [Opens -> {"none", "open", "reset", "shut"}]
  /\ copier   \in [Opens -> {"none", "reading", "holding", "done"}]
  /\ gaveUp   \in SUBSET Opens

Idle == [at |-> "idle", of |-> None]

Init ==
  /\ next     = 1
  /\ pending  = [id \in Ids |-> None]
  /\ streams  = [id \in Ids |-> None]
  /\ idOf     = [o \in Opens |-> 0]
  /\ client   = [o \in Opens |-> "new"]
  /\ resolve  = [o \in Opens |-> "empty"]
  /\ life     = [o \in Opens |-> "live"]
  /\ link     = "up"
  /\ doomed   = {}
  /\ loop     = Idle
  /\ toAgent  = <<>>
  /\ toBroker = <<>>
  /\ agentUp  = TRUE
  /\ sockets  = [id \in Ids |-> None]
  /\ local    = [o \in Opens |-> "none"]
  /\ copier   = [o \in Opens |-> "none"]
  /\ gaveUp   = {}

(* Frames sent to a peer that has gone are lost.                           *)
ToAgent(kind, id, o)  == IF agentUp THEN Append(toAgent, Frame(kind, id, o)) ELSE toAgent
ToBroker(kind, id, o) == IF link # "down" THEN Append(toBroker, Frame(kind, id, o))
                                          ELSE toBroker

-----------------------------------------------------------------------------
(* allocateStreamID: from nextStreamID on, wrapping to 1, the first id that*)
(* neither map holds.                                                      *)
IdAt(k) == (((IF next = 0 THEN 0 ELSE next - 1) + k) % MaxId) + 1
Free(id) == streams[id] = None /\ pending[id] = None

(* Faulty variant: nextStreamID does not overflow to 0.                    *)
AllocateWithoutWrap(o) ==
  /\ client[o] = "new"
  /\ \E id \in Ids :
       /\ Free(id)
       /\ next'    = id + 1
       /\ pending' = [pending EXCEPT ![id] = o]
       /\ idOf'    = [idOf    EXCEPT ![o] = id]
       /\ client'  = [client  EXCEPT ![o] = "allocated"]
  /\ UNCHANGED <<streams, resolve, life, link, doomed, loop, toAgent, toBroker, agentVars>>

(* openStream, first critical section. When every id is taken it fails.    *)
Allocate(o) ==
  /\ client[o] = "new"
  /\ \/ /\ \A id \in Ids : ~Free(id)
        /\ client' = [client EXCEPT ![o] = "failed"]
        /\ UNCHANGED <<next, pending, idOf>>
     \/ \E k \in 0..(MaxId - 1) :
          /\ Free(IdAt(k))
          /\ \A j \in 0..(k - 1) : ~Free(IdAt(j))
          /\ next'    = (IdAt(k) + 1) % (MaxId + 1)
          /\ pending' = [pending EXCEPT ![IdAt(k)] = o]
          /\ idOf'    = [idOf    EXCEPT ![o] = IdAt(k)]
          /\ client'  = [client  EXCEPT ![o] = "allocated"]
  /\ UNCHANGED <<streams, resolve, life, link, doomed, loop, toAgent, toBroker, agentVars>>

(* The OPEN frame goes out, or the write fails and the entry is dropped.   *)
SendOpen(o) ==
  /\ client[o] = "allocated"
  /\ \/ /\ link = "up"
        /\ client'  = [client EXCEPT ![o] = "waiting"]
        /\ toAgent' = ToAgent("OPEN", idOf[o], o)
        /\ UNCHANGED pending
     \/ /\ link # "up"
        /\ client'  = [client  EXCEPT ![o] = "failed"]
        /\ pending' = [pending EXCEPT ![idOf[o]] = None]
        /\ UNCHANGED toAgent
  /\ UNCHANGED <<next, streams, idOf, resolve, life, link, doomed, loop, toBroker, agentVars>>

(* Faulty variant: the timer resolves an open it no longer finds pending.  *)
OpenTimeoutUnchecked(o) ==
  /\ client[o] \in {"allocated", "waiting"}
  /\ resolve[o] = "empty"
  /\ pending' = [pending EXCEPT ![idOf[o]] = IF @ = o THEN None ELSE @]
  /\ resolve' = [resolve EXCEPT ![o] = "nil"]
  /\ UNCHANGED <<next, streams, idOf, client, life, link, doomed, loop, toAgent, toBroker,
                 agentVars>>

(* The open timer fires before the agent has answered.                     *)
OpenTimeout(o) ==
  /\ client[o] \in {"allocated", "waiting"}
  /\ pending[idOf[o]] = o
  /\ pending' = [pending EXCEPT ![idOf[o]] = None]
  /\ resolve' = [resolve EXCEPT ![o] = "nil"]
  /\ UNCHANGED <<next, streams, idOf, client, life, link, doomed, loop, toAgent, toBroker,
                 agentVars>>

(* openStream returns what the channel holds.                              *)
Resolve(o) ==
  /\ client[o] = "waiting"
  /\ resolve[o] # "empty"
  /\ client' = [client EXCEPT ![o] = IF resolve[o] = "stream" THEN "proxying" ELSE "failed"]
  /\ UNCHANGED <<next, pending, streams, idOf, resolve, life, link, doomed, loop,
                 toAgent, toBroker, agentVars>>

(* The proxy copies a chunk from its client's socket into the stream.      *)
ClientData(o) ==
  /\ o \in Talking
  /\ client[o] = "proxying"
  /\ life[o] = "live"
  /\ link = "up"
  /\ ~\E i \in DOMAIN toAgent : toAgent[i].kind = "DATA"   \* bound: one in flight
  /\ toAgent' = ToAgent("DATA", idOf[o], o)
  /\ UNCHANGED <<brokerVars, toBroker, agentVars>>

(* Its client hangs up, or a write to the stream fails: streamConn.Close   *)
(* closes the stream's closed channel ...                                  *)
BeginClose(o) ==
  /\ client[o] = "proxying"
  /\ life[o] = "live"
  /\ life' = [life EXCEPT ![o] = "closing"]
  /\ UNCHANGED <<next, pending, streams, idOf, client, resolve, link, doomed, loop,
                 toAgent, toBroker, agentVars>>

(* ... sends CLOSE, and deletes whatever its id now maps to.               *)
FinishClose(o) ==
  /\ life[o] = "closing"
  /\ life'    = [life    EXCEPT ![o] = "dead"]
  /\ client'  = [client  EXCEPT ![o] = "closed"]
  /\ streams' = [streams EXCEPT ![idOf[o]] = None]
  /\ toAgent' = IF link = "up" THEN ToAgent("CLOSE", idOf[o], o) ELSE toAgent
  /\ UNCHANGED <<next, pending, idOf, resolve, link, doomed, loop, toBroker, agentVars>>

(* The proxy reads the end of a stream that somebody else has closed.      *)
ReadEnd(o) ==
  /\ client[o] = "proxying"
  /\ life[o] = "dead"
  /\ client' = [client EXCEPT ![o] = "closed"]
  /\ UNCHANGED <<next, pending, streams, idOf, resolve, life, link, doomed, loop,
                 toAgent, toBroker, agentVars>>

-----------------------------------------------------------------------------
(* The broker's read loop, which runs until the WebSocket is closed.       *)
Receives(kind) ==
  /\ loop = Idle
  /\ link # "down"
  /\ toBroker # <<>>
  /\ Head(toBroker).kind = kind
  /\ toBroker' = Tail(toBroker)

(* handleOpenAck takes the pending open, in one critical section, ...      *)
TakeAck ==
  /\ Receives("OPEN")
  /\ LET id == Head(toBroker).id IN
       IF pending[id] = None
       THEN UNCHANGED <<pending, loop>>
       ELSE /\ pending' = [pending EXCEPT ![id] = None]
            /\ loop'    = [at |-> "ack", of |-> pending[id]]
  /\ UNCHANGED <<next, streams, idOf, client, resolve, life, link, doomed, toAgent, agentVars>>

(* ... inserts its stream in another, and resolves it.                     *)
FinishAck ==
  LET o == loop.of IN
  /\ loop.at = "ack"
  /\ streams' = [streams EXCEPT ![idOf[o]] = o]
  /\ resolve' = [resolve EXCEPT ![o] = "stream"]
  /\ loop'    = Idle
  /\ UNCHANGED <<next, pending, idOf, client, life, link, doomed, toAgent, toBroker, agentVars>>

(* handleData: the payload goes to the proxy or, for an unknown id, away.  *)
TakeData ==
  /\ Receives("DATA")
  /\ UNCHANGED <<brokerVars, toAgent, agentVars>>

(* Faulty variant: a CLOSE for a pending open does not resolve it.         *)
TakeCloseUnresolved ==
  /\ Receives("CLOSE")
  /\ LET id == Head(toBroker).id IN
       IF streams[id] # None
       THEN /\ loop'    = [at |-> "reap", of |-> streams[id]]
            /\ streams' = [streams EXCEPT ![id] = None]
            /\ UNCHANGED pending
       ELSE /\ pending' = [pending EXCEPT ![id] = None]
            /\ UNCHANGED <<streams, loop>>
  /\ UNCHANGED <<next, idOf, client, resolve, life, link, doomed, toAgent, agentVars>>

(* handleClose: a stream is taken out of the map, to be closed; a pending  *)
(* open is resolved with nil.                                              *)
TakeClose ==
  /\ Receives("CLOSE")
  /\ LET id == Head(toBroker).id IN
       \/ /\ streams[id] # None
          /\ loop'    = [at |-> "reap", of |-> streams[id]]
          /\ streams' = [streams EXCEPT ![id] = None]
          /\ UNCHANGED <<pending, resolve>>
       \/ /\ streams[id] = None
          /\ pending' = [pending EXCEPT ![id] = None]
          /\ resolve' = [o \in Opens |-> IF o = pending[id] THEN "nil" ELSE resolve[o]]
          /\ UNCHANGED <<streams, loop>>
  /\ UNCHANGED <<next, idOf, client, life, link, doomed, toAgent, agentVars>>

(* stream.close(false), once nobody else is in the middle of closing it.   *)
FinishReap ==
  LET o == loop.of IN
  /\ loop.at = "reap"
  /\ life[o] # "closing"
  /\ life'    = [life EXCEPT ![o] = "dead"]
  /\ streams' = [streams EXCEPT ![idOf[o]] = IF life[o] = "live" THEN None ELSE @]
  /\ loop'    = Idle
  /\ UNCHANGED <<next, pending, idOf, client, resolve, link, doomed, toAgent, toBroker,
                 agentVars>>

-----------------------------------------------------------------------------
(* closeTransport, under closeOnce: the agent reconnects, an administrator *)
(* disconnects the gateway, or the read loop has failed. No frame can be   *)
(* written after the close frame.                                          *)
BeginDrop ==
  /\ link = "up"
  /\ link' = "closing"
  /\ UNCHANGED <<next, pending, streams, idOf, client, resolve, life, doomed, loop,
                 toAgent, toBroker, agentVars>>

(* Under the lock both maps are replaced by empty ones; the pending opens  *)
(* taken out are then resolved with nil, ...                               *)
SwapMaps ==
  /\ link = "closing"
  /\ link'    = "swapped"
  /\ doomed'  = {streams[id] : id \in Ids} \ {None}
  /\ streams' = [id \in Ids |-> None]
  /\ pending' = [id \in Ids |-> None]
  /\ resolve' = [o \in Opens |-> IF \E id \in Ids : pending[id] = o THEN "nil" ELSE resolve[o]]
  /\ UNCHANGED <<next, idOf, client, life, loop, toAgent, toBroker, agentVars>>

(* Faulty variant: the streams taken out are forgotten.                    *)
DestroyNothing(o) ==
  /\ o \in doomed
  /\ doomed' = doomed \ {o}
  /\ UNCHANGED <<next, pending, streams, idOf, client, resolve, life, link, loop,
                 toAgent, toBroker, agentVars>>

(* ... the streams are closed one by one, each of them like any other, ... *)
Destroy(o) ==
  /\ o \in doomed
  /\ life[o] # "closing"
  /\ doomed'  = doomed \ {o}
  /\ life'    = [life EXCEPT ![o] = "dead"]
  /\ streams' = [streams EXCEPT ![idOf[o]] = IF life[o] = "live" THEN None ELSE @]
  /\ UNCHANGED <<next, pending, idOf, client, resolve, link, loop, toAgent, toBroker,
                 agentVars>>

(* ... and the WebSocket is closed, which ends the read loop.              *)
CloseSocket ==
  /\ link = "swapped"
  /\ doomed = {}
  /\ link' = "down"
  /\ toBroker' = <<>>
  /\ UNCHANGED <<next, pending, streams, idOf, client, resolve, life, doomed, loop,
                 toAgent, agentVars>>

-----------------------------------------------------------------------------
(* The agent's read loop.                                                  *)
AgentReceives(kind) ==
  /\ agentUp
  /\ toAgent # <<>>
  /\ Head(toAgent).kind = kind
  /\ toAgent' = Tail(toAgent)

(* HandleOpen. The frame waits while the local service is dialled; then    *)
(* the open is refused, or its socket is filed under the id, in place of   *)
(* one already there, which is closed, and acknowledged; if the ack cannot *)
(* be written it is removed and closed.                                    *)
AgentOpen ==
  /\ AgentReceives("OPEN")
  /\ LET id == Head(toAgent).id
         o  == Head(toAgent).of
     IN \/ /\ toBroker' = ToBroker("CLOSE", id, o)
           /\ UNCHANGED <<sockets, local, copier>>
        \/ /\ sockets'  = [sockets EXCEPT ![id] = o]
           /\ local'    = [p \in Opens |-> IF p = o THEN "open"
                                           ELSE IF p = sockets[id] THEN "shut" ELSE local[p]]
           /\ copier'   = [copier EXCEPT ![o] = "reading"]
           /\ toBroker' = ToBroker("OPEN", id, o)
        \/ /\ link = "down"
           /\ sockets' = [sockets EXCEPT ![id] = None]
           /\ local'   = [p \in Opens |-> IF p \in {o, sockets[id]} THEN "shut" ELSE local[p]]
           /\ UNCHANGED <<copier, toBroker>>
  /\ UNCHANGED <<brokerVars, agentUp, gaveUp>>

(* removeAndClose                                                          *)
RemoveAndClose(id) ==
  /\ sockets' = [sockets EXCEPT ![id] = None]
  /\ local'   = [o \in Opens |-> IF o = sockets[id] THEN "shut" ELSE local[o]]

(* HandleData: a write to a socket the service has closed may fail, and    *)
(* then the socket is removed without telling the broker.                  *)
AgentData ==
  /\ AgentReceives("DATA")
  /\ LET id == Head(toAgent).id IN
       \/ UNCHANGED <<sockets, local, gaveUp>>
       \/ /\ sockets[id] # None
          /\ local[sockets[id]] = "reset"
          /\ gaveUp' = gaveUp \union {sockets[id]}
          /\ RemoveAndClose(id)
  /\ UNCHANGED <<brokerVars, toBroker, agentUp, copier>>

(* HandleClose                                                             *)
AgentClose ==
  /\ AgentReceives("CLOSE")
  /\ RemoveAndClose(Head(toAgent).id)
  /\ UNCHANGED <<brokerVars, toBroker, agentUp, copier, gaveUp>>

(* The network fails, the agent renews its certificate, or the broker has  *)
(* closed: the read fails, DestroyAll closes every filed socket and the    *)
(* connection is closed.                                                   *)
AgentDrops ==
  /\ agentUp
  /\ agentUp' = FALSE
  /\ toAgent' = <<>>
  /\ sockets' = [id \in Ids |-> None]
  /\ local'   = [o \in Opens |-> IF \E id \in Ids : sockets[id] = o THEN "shut" ELSE local[o]]
  /\ UNCHANGED <<brokerVars, toBroker, copier, gaveUp>>

(* The local service closes its end of a connection.                       *)
ServiceCloses(o) ==
  /\ local[o] = "open"
  /\ local' = [local EXCEPT ![o] = "reset"]
  /\ UNCHANGED <<brokerVars, toAgent, toBroker, agentUp, sockets, copier, gaveUp>>

(* copyLocalToTunnel: bytes are read ...                                   *)
CopierReads(o) ==
  /\ o \in Talking
  /\ copier[o] = "reading"
  /\ local[o] = "open"
  /\ ~\E i \in DOMAIN toBroker : toBroker[i].kind = "DATA"   \* bound: one in flight
  /\ copier' = [copier EXCEPT ![o] = "holding"]
  /\ UNCHANGED <<brokerVars, toAgent, toBroker, agentUp, sockets, local, gaveUp>>

(* ... and sent; when that fails, whatever the id maps to is closed.       *)
CopierSends(o) ==
  /\ copier[o] = "holding"
  /\ \/ /\ agentUp
        /\ copier'   = [copier EXCEPT ![o] = "reading"]
        /\ toBroker' = ToBroker("DATA", idOf[o], o)
        /\ UNCHANGED <<sockets, local>>
     \/ /\ ~agentUp
        /\ copier' = [copier EXCEPT ![o] = "done"]
        /\ RemoveAndClose(idOf[o])
        /\ UNCHANGED toBroker
  /\ UNCHANGED <<brokerVars, toAgent, agentUp, gaveUp>>

(* Faulty variants: this socket is not closed; the end of a socket is not  *)
(* reported to the broker.                                                 *)
CopierEndsOpen(o) ==
  /\ copier[o] = "reading"
  /\ local[o] \in {"reset", "shut"}
  /\ copier'   = [copier EXCEPT ![o] = "done"]
  /\ sockets'  = [sockets EXCEPT ![idOf[o]] = None]
  /\ toBroker' = IF sockets[idOf[o]] # None /\ agentUp THEN ToBroker("CLOSE", idOf[o], o)
                                                       ELSE toBroker
  /\ UNCHANGED <<brokerVars, toAgent, agentUp, local, gaveUp>>

CopierEndsSilently(o) ==
  /\ copier[o] = "reading"
  /\ local[o] \in {"reset", "shut"}
  /\ copier'  = [copier EXCEPT ![o] = "done"]
  /\ local'   = [local EXCEPT ![o] = "shut"]
  /\ sockets' = [sockets EXCEPT ![idOf[o]] = None]
  /\ UNCHANGED <<brokerVars, toAgent, toBroker, agentUp, gaveUp>>

(* The read ends: whatever the id maps to is removed, CLOSE is sent if     *)
(* that was something, and this socket is closed.                          *)
CopierEnds(o) ==
  /\ copier[o] = "reading"
  /\ local[o] \in {"reset", "shut"}
  /\ copier'   = [copier EXCEPT ![o] = "done"]
  /\ local'    = [local EXCEPT ![o] = "shut"]
  /\ sockets'  = [sockets EXCEPT ![idOf[o]] = None]
  /\ toBroker' = IF sockets[idOf[o]] # None /\ agentUp THEN ToBroker("CLOSE", idOf[o], o)
                                                       ELSE toBroker
  /\ UNCHANGED <<brokerVars, toAgent, agentUp, gaveUp>>

-----------------------------------------------------------------------------
ProxyStep(o)  == Allocate(o) \/ SendOpen(o) \/ Resolve(o) \/ FinishClose(o) \/ ReadEnd(o)
ReadLoop      == TakeAck \/ FinishAck \/ TakeData \/ TakeClose \/ FinishReap
DropStep      == SwapMaps \/ (\E o \in Opens : Destroy(o)) \/ CloseSocket
AgentLoop     == AgentOpen \/ AgentData \/ AgentClose
CopierStep(o) == CopierSends(o) \/ CopierEnds(o)

Next ==
  \/ \E o \in Opens : \/ ProxyStep(o) \/ OpenTimeout(o) \/ ClientData(o) \/ BeginClose(o)
                      \/ CopierStep(o) \/ CopierReads(o) \/ ServiceCloses(o)
  \/ ReadLoop \/ BeginDrop \/ DropStep
  \/ AgentLoop \/ AgentDrops

(* Goroutines run on, timers fire, and each side notices that the other    *)
(* has closed the connection; a write returns or fails. What clients, the  *)
(* local service and administrators do, and when the network fails, is up  *)
(* to them.                                                                *)
Fairness ==
  /\ \A o \in Opens : /\ WF_vars(ProxyStep(o)) /\ WF_vars(OpenTimeout(o))
                      /\ WF_vars(CopierStep(o))
  /\ WF_vars(ReadLoop) /\ WF_vars(DropStep) /\ WF_vars(AgentLoop)
  /\ WF_vars(~agentUp /\ BeginDrop)
  /\ WF_vars(link # "up" /\ AgentDrops)

Spec == Init /\ [][Next]_vars /\ Fairness

-----------------------------------------------------------------------------
(* Properties.                                                             *)

(* The id of the open has been given to another one too.                   *)
Reused(o) == \E p \in Opens \ {o} : idOf[p] = idOf[o]

(* The read loop resolves a pending open with a plain channel send, which  *)
(* would block every stream of the tunnel if the channel already held a    *)
(* value: of the ack, the CLOSE, the timer and closeTransport, the one     *)
(* that takes an entry out of pendingOpens is the only one to resolve it.  *)
AckNeverBlocks ==
  /\ loop.at = "ack" => resolve[loop.of] = "empty"
  /\ \A id \in Ids : pending[id] # None => resolve[pending[id]] = "empty"

(* While the tunnel is up, a stream its client has not closed is closed    *)
(* only when the agent has closed its socket to the local service, unless  *)
(* its id has been used before: a copier that ends late, or a socket left  *)
(* over from an open that timed out, can close a stream that reuses its id.*)
OnlyItsSocketEndsStream ==
  [][\A o \in Opens :
       /\ link = "up" /\ agentUp
       /\ life[o] = "live" /\ life'[o] = "dead"
       => \/ local[o] = "shut"
          \/ Reused(o)]_vars

(* Every openStream returns, with a stream or an error, whatever the agent *)
(* answers and whenever the tunnel goes down, unless its id has been used  *)
(* before: an open whose write fails after it has timed out deletes the    *)
(* entry of the open that has its id by then.                              *)
OpenReturns ==
  \A o \in Opens :
    client[o] \in {"allocated", "waiting"}
      ~> \/ client[o] \in {"proxying", "failed", "closed"}
         \/ Reused(o)

(* While the tunnel is up, a connection the local service closes ends its  *)
(* stream, unless HandleData has met the closed socket first or the id has *)
(* been used before.                                                       *)
ServiceEndEndsStream ==
  \A o \in Opens :
    (client[o] = "proxying" /\ local[o] = "reset")
      ~> \/ client[o] # "proxying" \/ link # "up"
         \/ o \in gaveUp
         \/ Reused(o)

(* While the tunnel is up, a connection the local service closes ends its  *)
(* stream, whether the copier or HandleData is the first to meet the       *)
(* closed socket.                                                          *)
BrokenSocketEndsStream ==
  \A o \in Opens :
    (client[o] = "proxying" /\ local[o] = "reset")
      ~> (client[o] # "proxying" \/ link # "up")

(* When the tunnel goes down, every stream it carried ends, unless the     *)
(* read loop was half-way through the ack of its open.                     *)
TunnelEndEndsStreams ==
  \A o \in Opens :
    (link = "down" /\ client[o] = "proxying")
      ~> client[o] # "proxying" \/ streams[idOf[o]] = o \/ Reused(o)

(* When the WebSocket has gone, no logical stream is left.                 *)
NoStreamSurvives == link = "down" /\ loop = Idle => \A id \in Ids : streams[id] = None

(* Every open that waits is going to be resolved: it is still pending, for *)
(* the ack, a CLOSE, the timer or closeTransport to find, or the read loop *)
(* is acknowledging it.                                                    *)
OpenHasResolver ==
  \A o \in Opens :
    client[o] \in {"allocated", "waiting"} /\ resolve[o] = "empty"
      => \/ pending[idOf[o]] = o
         \/ loop.at = "ack" /\ loop.of = o
         \/ Reused(o)

(* Every stream handed to a proxy that nobody has closed yet is one that a *)
(* CLOSE frame or closeTransport still finds, or that is about to be       *)
(* closed.                                                                 *)
LiveStreamIsFiled ==
  \A o \in Opens :
    resolve[o] = "stream" /\ life[o] = "live"
      => \/ streams[idOf[o]] = o
         \/ loop.at = "reap" /\ loop.of = o
         \/ o \in doomed
         \/ Reused(o)

(* While the tunnel is up, a filed stream whose socket the agent has       *)
(* closed has a CLOSE frame on its way, unless HandleData has closed it.   *)
Lost(o) == local[o] = "shut" /\ o \notin gaveUp /\ ~Reused(o)

SocketEndIsReported ==
  link = "up" /\ agentUp =>
    \A o \in Opens :
      Lost(o) /\ (streams[idOf[o]] = o \/ (loop.at = "ack" /\ loop.of = o)) =>
        \E i \in 1..Len(toBroker) : toBroker[i].kind = "CLOSE" /\ toBroker[i].of = o

-----------------------------------------------------------------------------
(* Strengthenings of the invariants above that a step preserves.           *)

(* An open that has got beyond its allocation has a real id, never 0, and  *)
(* it is its own proxy that is in the middle of closing it.                *)
HasId(o) == idOf[o] \in Ids

IdInv ==
  /\ \A o \in Opens : client[o] \notin {"new", "failed"} => HasId(o)
  /\ \A o \in Opens : life[o] = "closing" => client[o] = "proxying"
  /\ \A o \in Opens : copier[o] # "none" => HasId(o)
  /\ \A i \in 1..Len(toAgent) : HasId(toAgent[i].of)

(* A pending open is filed under its own id only, waits for its first      *)
(* resolution, and is not the one the read loop is acknowledging.          *)
PendingInv ==
  /\ AckNeverBlocks
  /\ \A id \in Ids :
       pending[id] # None => /\ idOf[pending[id]] = id
                             /\ client[pending[id]] # "new"
  /\ \A o \in Opens : client[o] = "new" => resolve[o] = "empty"
  /\ loop.at # "idle" => loop.of \in Opens
  /\ loop.at = "ack" => /\ client[loop.of] # "new"
                        /\ \A id \in Ids : pending[id] # loop.of

(* A frame carries the id its open was given, an open that has not been    *)
(* allocated has none, and a stream or socket is filed under its own.      *)
OriginInv ==
  /\ \A o \in Opens : client[o] = "new" => idOf[o] = 0
  /\ \A o \in Opens : local[o] # "none" => HasId(o)
  /\ \A id \in Ids : streams[id] # None => idOf[streams[id]] = id
  /\ \A id \in Ids : sockets[id] # None => idOf[sockets[id]] = id
  /\ \A i \in 1..Len(toAgent)  : idOf[toAgent[i].of]  = toAgent[i].id
  /\ \A i \in 1..Len(toBroker) : idOf[toBroker[i].of] = toBroker[i].id
  /\ loop.at # "idle" => HasId(loop.of)

(* An open is dialled at most once: while its OPEN frame is on its way the *)
(* agent knows nothing of it and has answered nothing, and afterwards the  *)
(* frames that answer it tell what became of the dial.                     *)
Asked(o) == client[o] \notin {"new", "allocated"}

DialInv ==
  /\ \A o \in Opens : copier[o] # "none" \/ local[o] # "none" => Asked(o)
  /\ \A id \in Ids : sockets[id] # None => copier[sockets[id]] # "none"
  /\ \A i \in 1..Len(toAgent) : toAgent[i].kind = "OPEN" =>
       /\ Asked(toAgent[i].of)
       /\ copier[toAgent[i].of] = "none" /\ local[toAgent[i].of] = "none"
       /\ \A j \in 1..Len(toAgent) :
            toAgent[j].kind = "OPEN" /\ toAgent[j].of = toAgent[i].of => j = i
       /\ \A j \in 1..Len(toBroker) : toBroker[j].of # toAgent[i].of
  /\ \A i \in 1..Len(toBroker) :
       /\ Asked(toBroker[i].of)
       /\ IF toBroker[i].kind = "CLOSE"
          THEN local[toBroker[i].of] = "shut" \/ copier[toBroker[i].of] = "none"
          ELSE copier[toBroker[i].of] # "none"

(* A stream the broker holds has had a socket at the agent, and the one    *)
(* the read loop closes has lost it; closeTransport closes streams only    *)
(* after the tunnel has gone.                                              *)
EndInv ==
  /\ \A id \in Ids :
       streams[id] # None => copier[streams[id]] # "none" \/ Reused(streams[id])
  /\ loop.at = "ack"  => copier[loop.of] # "none" \/ Reused(loop.of)
  /\ loop.at = "reap" => local[loop.of] = "shut" \/ Reused(loop.of)
  /\ doomed # {} => link = "swapped"

(* A stream comes from one ack, is closed only after that, is not filed    *)
(* again, and only its closing sends CLOSE to the agent.                   *)
ClosedInv ==
  /\ \A o \in Opens : resolve[o] = "stream" =>
       HasId(o) /\ (copier[o] # "none" \/ Reused(o))
  /\ \A o \in Opens : client[o] = "proxying" \/ life[o] # "live" => resolve[o] = "stream"
  /\ \A id \in Ids : streams[id] # None => resolve[streams[id]] = "stream"
  /\ \A o \in doomed : resolve[o] = "stream"
  /\ loop.at = "reap" => resolve[loop.of] = "stream"
  /\ \A o \in Opens : life[o] = "dead" /\ streams[idOf[o]] = o => Reused(o)
  /\ \A i \in 1..Len(toAgent) : toAgent[i].kind = "CLOSE" => life[toAgent[i].of] = "dead"
  /\ \A i \in 1..Len(toBroker) : toBroker[i].kind = "OPEN" =>
       /\ \/ resolve[toBroker[i].of] # "stream" /\ ~(loop.at = "ack" /\ loop.of = toBroker[i].of)
          \/ Reused(toBroker[i].of)
       /\ \A j \in 1..Len(toBroker) :
            toBroker[j].kind = "OPEN" /\ toBroker[j].of = toBroker[i].of => j = i

(* A socket that is open is filed and has a copier to watch it; when it is *)
(* lost before the ack of its open is read, the CLOSE follows the ack.     *)
ReportInv ==
  /\ SocketEndIsReported
  /\ link = "up" /\ agentUp =>
       \A i \in 1..Len(toBroker) : toBroker[i].kind = "OPEN" /\ Lost(toBroker[i].of) =>
         \E j \in (i + 1)..Len(toBroker) :
           toBroker[j].kind = "CLOSE" /\ toBroker[j].of = toBroker[i].of
  /\ agentUp =>
       \A o \in Opens : local[o] \in {"open", "reset"} =>
         /\ copier[o] \in {"reading", "holding"}
         /\ sockets[idOf[o]] = o \/ Reused(o)
=============================================================================
