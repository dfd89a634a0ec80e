------------------------- MODULE TunnelEnds_proofs --------------------------
(***************************************************************************)
(* How streams end: theorems about TunnelStreams, for any number of opens  *)
(* and of stream ids, that relate the two ends of a stream through the     *)
(* frames in flight between them.                                          *)
(*                                                                         *)
(* The lemmas of the first part say what a step can do to each queue and   *)
(* to each variable, and by which action; the second part has one lemma    *)
(* per invariant, which then only looks at the actions that disturb it.    *)
(***************************************************************************)
EXTENDS TunnelStreams_proofs

-----------------------------------------------------------------------------
(* A queue after a frame has been sent, and after one has been received.   *)
Adds(q, r, f) ==
  /\ Len(r) = Len(q) + 1
  /\ r[Len(q) + 1] = f
  /\ \A i \in 1..Len(q) : r[i] = q[i]

Drops(q, r) ==
  /\ Len(q) = Len(r) + 1
  /\ \A i \in 1..Len(r) : r[i] = q[i + 1]

(* Queues have lengths and hold frames.                                    *)
LEMMA Lengths ==
  ASSUME TypeOK
  PROVE  /\ Len(toAgent) \in Nat /\ Len(toBroker) \in Nat
         /\ \A i \in 1..Len(toAgent)  : toAgent[i]  \in Frames
         /\ \A i \in 1..Len(toBroker) : toBroker[i] \in Frames
<1>1. toAgent \in Seq(Frames) /\ toBroker \in Seq(Frames)
  BY DEF TypeOK
<1> QED
  BY <1>1

(* Appending is adding, and taking the tail of a queue is dropping.        *)
LEMMA QueueOps ==
  ASSUME NEW q \in Seq(Frames), NEW f \in Frames
  PROVE  /\ Adds(q, Append(q, f), f)
         /\ q # <<>> => Drops(q, Tail(q)) /\ Head(q) = q[1]
<1>1. Adds(q, Append(q, f), f)
  BY AppendProperties DEF Adds
<1>2. q # <<>> => Drops(q, Tail(q)) /\ Head(q) = q[1]
  BY Received DEF Drops
<1> QED
  BY <1>1, <1>2

(* What sending a frame does to either queue.                              *)
LEMMA Sends ==
  ASSUME TypeOK, NEW kind \in {"OPEN", "DATA", "CLOSE"}, NEW o \in Opens, HasId(o)
  PROVE  /\ \/ ~agentUp /\ ToAgent(kind, idOf[o], o) = toAgent
            \/ agentUp /\ Adds(toAgent, ToAgent(kind, idOf[o], o), Frame(kind, idOf[o], o))
         /\ \/ link = "down" /\ ToBroker(kind, idOf[o], o) = toBroker
            \/ /\ link # "down"
               /\ Adds(toBroker, ToBroker(kind, idOf[o], o), Frame(kind, idOf[o], o))
<1>1. toAgent \in Seq(Frames) /\ toBroker \in Seq(Frames)
  BY DEF TypeOK
<1>2. Frame(kind, idOf[o], o) \in Frames
  BY FrameFields DEF HasId
<1> QED
  BY <1>1, <1>2, QueueOps DEF ToAgent, ToBroker

(* What receiving a frame does to either queue.                            *)
LEMMA Receipt ==
  ASSUME TypeOK
  PROVE  /\ \A kind : Receives(kind) =>
              /\ Drops(toBroker, toBroker') /\ Head(toBroker) = toBroker[1]
              /\ toBroker[1] \in Frames /\ toBroker[1].kind = kind
         /\ \A kind : AgentReceives(kind) =>
              /\ Drops(toAgent, toAgent') /\ Head(toAgent) = toAgent[1]
              /\ toAgent[1] \in Frames /\ toAgent[1].kind = kind
<1>1. toAgent \in Seq(Frames) /\ toBroker \in Seq(Frames)
  BY DEF TypeOK
<1>2. ASSUME NEW kind, Receives(kind)
      PROVE  /\ Drops(toBroker, toBroker') /\ Head(toBroker) = toBroker[1]
             /\ toBroker[1] \in Frames /\ toBroker[1].kind = kind
  BY <1>1, <1>2, QueueOps, Received DEF Receives
<1>3. ASSUME NEW kind, AgentReceives(kind)
      PROVE  /\ Drops(toAgent, toAgent') /\ Head(toAgent) = toAgent[1]
             /\ toAgent[1] \in Frames /\ toAgent[1].kind = kind
  BY <1>1, <1>3, QueueOps, Received DEF AgentReceives
<1> QED
  BY <1>2, <1>3

-----------------------------------------------------------------------------
(* What a step may do to the broker's variables ...                        *)
OpensEvolve ==
  \A o \in Opens :
    /\ \/ idOf'[o] = idOf[o]
       \/ client[o] = "new" /\ client'[o] = "allocated" /\ idOf'[o] \in Ids
    /\ client'[o] = "new" => client[o] = "new" /\ idOf'[o] = idOf[o]
    /\ Asked(o) => Asked(o)'
    /\ client'[o] = "proxying" => client[o] = "proxying" \/ resolve[o] = "stream"
    /\ resolve'[o] # resolve[o] => resolve[o] = "empty"
    /\ resolve'[o] = "stream" =>
         \/ resolve[o] = "stream"
         \/ loop.at = "ack" /\ loop.of = o /\ streams'[idOf[o]] = o
    /\ \/ life'[o] = life[o]
       \/ life[o] = "live" /\ life'[o] = "closing" /\ client[o] = "proxying"
       \/ /\ life'[o] = "dead"
          /\ life[o] = "closing" \/ (loop.at = "reap" /\ loop.of = o) \/ o \in doomed
          /\ life[o] # "dead" => streams'[idOf[o]] = None

StreamsEvolve ==
  \A id \in Ids :
    \/ streams'[id] = streams[id]
    \/ /\ loop.at = "ack" /\ idOf[loop.of] = id
       /\ streams'[id] = loop.of /\ resolve'[loop.of] = "stream"
    \/ /\ streams'[id] = None
       /\ \/ \E p \in Opens : idOf[p] = id /\ life'[p] = "dead"
          \/ loop' = [at |-> "reap", of |-> streams[id]]
          \/ streams[id] \in doomed' \union {None}

LoopEvolves ==
  \/ loop' = loop
  \/ loop' = Idle /\ loop.at = "ack" /\ resolve'[loop.of] = "stream"
  \/ loop' = Idle /\ loop.at = "reap" /\ life'[loop.of] = "dead"
  \/ /\ loop = Idle /\ TakeAck /\ UNCHANGED streams
     /\ loop' = [at |-> "ack", of |-> pending[toBroker[1].id]]
     /\ loop'.of \in Opens
  \/ /\ loop = Idle /\ TakeClose
     /\ loop' = [at |-> "reap", of |-> streams[toBroker[1].id]]
     /\ loop'.of \in Opens

BrokerEvolves ==
  /\ OpensEvolve /\ StreamsEvolve /\ LoopEvolves
  /\ link' = "up" => link = "up"
  /\ \A o \in doomed' : o \in doomed \/ \E id \in Ids : streams[id] = o
  /\ \A o \in doomed  : o \in doomed' \/ life'[o] = "dead" \/ link = "closing"

(* ... and to the agent's.                                                 *)
AgentEvolves ==
  /\ agentUp' => agentUp
  /\ gaveUp \subseteq gaveUp'
  /\ \A o \in Opens :
       \/ copier'[o] = copier[o]
       \/ copier[o] # "none" /\ copier'[o] # "none"
       \/ AgentOpen /\ o = toAgent[1].of
  /\ \A id \in Ids :
       \/ sockets'[id] \in {sockets[id], None}
       \/ /\ AgentOpen /\ id = toAgent[1].id
          /\ sockets'[id] = toAgent[1].of /\ copier'[sockets'[id]] # "none"
  /\ \A o \in Opens :
       \/ local'[o] = local[o]
       \/ local[o] = "open" /\ local'[o] = "reset"
       \/ /\ local'[o] = "shut"
          /\ copier[o] # "none" \/ (\E id \in Ids : sockets[id] = o)
       \/ AgentOpen /\ o = toAgent[1].of

(* Agent and network leave the broker alone, and the broker the agent.     *)
LEMMA AgentActions ==
  ASSUME \/ AgentOpen \/ AgentData \/ AgentClose \/ AgentDrops
         \/ \E o \in Opens : CopierReads(o) \/ CopierSends(o) \/ CopierEnds(o)
                             \/ ServiceCloses(o)
  PROVE  UNCHANGED brokerVars
BY DEF AgentOpen, AgentData, AgentClose, AgentDrops, CopierReads, CopierSends, CopierEnds,
       ServiceCloses

LEMMA Standstill ==
  UNCHANGED brokerVars => BrokerEvolves
BY SMTT(60) DEF BrokerEvolves, OpensEvolve, StreamsEvolve, LoopEvolves, brokerVars, Asked

(* Every step of the broker keeps to BrokerEvolves.                        *)
LEMMA BrokerSteps ==
  ASSUME Inv, OriginInv, ClosedInv, [Next]_vars PROVE BrokerEvolves
<1> USE DEF BrokerEvolves, OpensEvolve, StreamsEvolve, LoopEvolves, Asked, Inv, TypeOK
<1>1. ASSUME NEW o \in Opens, Allocate(o) PROVE BrokerEvolves
  <2>1. UNCHANGED <<streams, resolve, life, link, loop, doomed>>
    BY <1>1, Allocated
  <2>2. CASE client' = [client EXCEPT ![o] = "failed"] /\ UNCHANGED idOf
    BY <1>1, <2>1, <2>2, Allocated
  <2>3. CASE \E id \in Ids : /\ idOf'   = [idOf   EXCEPT ![o] = id]
                            /\ client' = [client EXCEPT ![o] = "allocated"]
    <3>1. PICK id \in Ids : /\ idOf'   = [idOf   EXCEPT ![o] = id]
                           /\ client' = [client EXCEPT ![o] = "allocated"]
      BY <2>3
    <3>2. client[o] = "new"
      BY <1>1, Allocated
    <3> QED
      BY <2>1, <3>1, <3>2
  <2> QED
    BY <1>1, <2>2, <2>3, Allocated
<1>2. ASSUME NEW o \in Opens, SendOpen(o) PROVE BrokerEvolves
  BY <1>2 DEF SendOpen
<1>3. ASSUME NEW o \in Opens, OpenTimeout(o) PROVE BrokerEvolves
  BY <1>3, Parameters DEF OpenTimeout, PendingInv, AckNeverBlocks, IdInv, HasId
<1>4. ASSUME NEW o \in Opens, Resolve(o) PROVE BrokerEvolves
  BY <1>4 DEF Resolve
<1>5. ASSUME NEW o \in Opens, ClientData(o) PROVE BrokerEvolves
  BY <1>5, Standstill DEF ClientData
<1>6. ASSUME NEW o \in Opens, BeginClose(o) PROVE BrokerEvolves
  BY <1>6 DEF BeginClose
<1>7. ASSUME NEW o \in Opens, FinishClose(o) PROVE BrokerEvolves
  BY <1>7, ZenonT(60) DEF FinishClose, IdInv, HasId
<1>8. ASSUME NEW o \in Opens, ReadEnd(o) PROVE BrokerEvolves
  BY <1>8 DEF ReadEnd
<1>9. ASSUME NEW o \in Opens, Destroy(o) PROVE BrokerEvolves
  BY <1>9 DEF Destroy, ClosedInv, HasId
<1>10. ASSUME TakeAck PROVE BrokerEvolves
  <2>1. /\ Head(toBroker) = toBroker[1] /\ toBroker[1].id \in Ids /\ loop = Idle
    BY <1>10, Receipt, FrameFields DEF TakeAck, Receives
  <2> QED
    BY <1>10, <2>1 DEF TakeAck
<1>11. ASSUME FinishAck PROVE BrokerEvolves
  BY <1>11 DEF FinishAck, PendingInv, AckNeverBlocks, OriginInv, HasId
<1>12. ASSUME TakeData PROVE BrokerEvolves
  BY <1>12, Standstill DEF TakeData
<1>13. ASSUME TakeClose PROVE BrokerEvolves
  <2>1. /\ Head(toBroker) = toBroker[1] /\ toBroker[1].id \in Ids /\ loop = Idle
    BY <1>13, Receipt, FrameFields DEF TakeClose, Receives
  <2>2. UNCHANGED <<idOf, client, life, link, doomed>>
    BY <1>13 DEF TakeClose
  <2>3. CASE /\ streams[toBroker[1].id] # None
             /\ loop'    = [at |-> "reap", of |-> streams[toBroker[1].id]]
             /\ streams' = [streams EXCEPT ![toBroker[1].id] = None]
             /\ UNCHANGED resolve
    BY <1>13, <2>1, <2>2, <2>3
  <2>4. CASE /\ resolve' = [o \in Opens |-> IF o = pending[toBroker[1].id] THEN "nil"
                                            ELSE resolve[o]]
             /\ UNCHANGED <<streams, loop>>
    <3>1. \A o \in Opens : resolve'[o] # resolve[o] => resolve[o] = "empty"
      <4>1. pending[toBroker[1].id] # None => resolve[pending[toBroker[1].id]] = "empty"
        BY <2>1 DEF PendingInv, AckNeverBlocks
      <4>2. ASSUME NEW o \in Opens, resolve'[o] # resolve[o] PROVE resolve[o] = "empty"
        BY <2>4, <4>1, <4>2, Parameters
      <4> QED
        BY <4>2
    <3>2. \A o \in Opens : resolve'[o] = "stream" => resolve[o] = "stream"
      BY <2>1, <2>4
    <3> QED
      BY <2>2, <2>4, <3>1, <3>2
  <2>5. \/ /\ streams[Head(toBroker).id] # None
           /\ loop'    = [at |-> "reap", of |-> streams[Head(toBroker).id]]
           /\ streams' = [streams EXCEPT ![Head(toBroker).id] = None]
           /\ UNCHANGED resolve
        \/ /\ resolve' = [o \in Opens |-> IF o = pending[Head(toBroker).id] THEN "nil"
                                         ELSE resolve[o]]
           /\ UNCHANGED <<streams, loop>>
    BY <1>13 DEF TakeClose
  <2>6. Head(toBroker) = toBroker[1]
    BY <2>1
  <2> HIDE DEF BrokerEvolves
  <2> QED
    BY <2>3, <2>4, <2>5, <2>6
<1>14. ASSUME FinishReap PROVE BrokerEvolves
  BY <1>14 DEF FinishReap, PendingInv, ClosedInv, HasId
<1>15. ASSUME BeginDrop PROVE BrokerEvolves
  BY <1>15 DEF BeginDrop
<1>16. ASSUME SwapMaps PROVE BrokerEvolves
  BY <1>16, Parameters DEF SwapMaps, PendingInv, AckNeverBlocks
<1>17. ASSUME CloseSocket PROVE BrokerEvolves
  BY <1>17 DEF CloseSocket
<1>18. CASE \/ AgentOpen \/ AgentData \/ AgentClose \/ AgentDrops
            \/ \E o \in Opens : CopierReads(o) \/ CopierSends(o) \/ CopierEnds(o)
                                \/ ServiceCloses(o)
  BY <1>18, AgentActions, Standstill
<1>19. CASE UNCHANGED vars
  BY <1>19, Standstill DEF vars, brokerVars
<1> QED
  BY <1>1, <1>2, <1>3, <1>4, <1>5, <1>6, <1>7, <1>8, <1>9, <1>10, <1>11, <1>12, <1>13,
     <1>14, <1>15, <1>16, <1>17, <1>18, <1>19
  DEF Next, ProxyStep, ReadLoop, DropStep, AgentLoop, CopierStep

(* The broker leaves the agent alone.                                      *)
LEMMA BrokerActions ==
  ASSUME \/ ReadLoop \/ BeginDrop \/ SwapMaps \/ CloseSocket
         \/ \E o \in Opens : \/ Allocate(o) \/ SendOpen(o) \/ OpenTimeout(o) \/ Resolve(o)
                             \/ ClientData(o) \/ BeginClose(o) \/ FinishClose(o)
                             \/ ReadEnd(o) \/ Destroy(o)
  PROVE  UNCHANGED agentVars
BY DEF ReadLoop, TakeAck, FinishAck, TakeData, TakeClose, FinishReap, BeginDrop, SwapMaps,
       CloseSocket, Allocate, SendOpen, OpenTimeout, Resolve, ClientData, BeginClose,
       FinishClose, ReadEnd, Destroy

(* Every step of the agent keeps to AgentEvolves.                          *)
LEMMA AgentSteps ==
  ASSUME Inv, [Next]_vars PROVE AgentEvolves
<1> USE DEF AgentEvolves, Inv, TypeOK
<1>1. ASSUME UNCHANGED agentVars PROVE AgentEvolves
  BY <1>1 DEF agentVars
<1>2. ASSUME NEW o \in Opens, CopierReads(o) PROVE AgentEvolves
  BY <1>2 DEF CopierReads
<1>3. ASSUME NEW o \in Opens, CopierSends(o) PROVE AgentEvolves
  <2>1. idOf[o] \in Ids
    BY <1>3 DEF CopierSends, IdInv, HasId
  <2>2. agentUp' = agentUp /\ gaveUp' = gaveUp
    BY <1>3 DEF CopierSends
  <2>3. CASE copier' = [copier EXCEPT ![o] = "reading"] /\ UNCHANGED <<sockets, local>>
    BY <1>3, <2>2, <2>3 DEF CopierSends
  <2>4. CASE copier' = [copier EXCEPT ![o] = "done"] /\ RemoveAndClose(idOf[o])
    BY <1>3, <2>1, <2>2, <2>4 DEF CopierSends, RemoveAndClose
  <2> QED
    BY <1>3, <2>3, <2>4 DEF CopierSends
<1>4. ASSUME NEW o \in Opens, CopierEnds(o) PROVE AgentEvolves
  <2>1. idOf[o] \in Ids
    BY <1>4 DEF CopierEnds, IdInv, HasId
  <2> QED
    BY <1>4, <2>1 DEF CopierEnds
<1>5. ASSUME NEW o \in Opens, ServiceCloses(o) PROVE AgentEvolves
  BY <1>5 DEF ServiceCloses
<1>6. ASSUME AgentOpen PROVE AgentEvolves
  <2> DEFINE id == Head(toAgent).id
             o  == Head(toAgent).of
  <2>1. id = toAgent[1].id /\ o = toAgent[1].of /\ id \in Ids /\ o \in Opens
    BY <1>6, Receipt, FrameFields DEF AgentOpen
  <2>2. agentUp' = agentUp /\ gaveUp' = gaveUp
    BY <1>6 DEF AgentOpen
  <2>3. copier' = copier \/ copier' = [copier EXCEPT ![o] = "reading"]
    BY <1>6 DEF AgentOpen
  <2>4. CASE UNCHANGED <<sockets, local>>
    BY <1>6, <2>1, <2>2, <2>3, <2>4
  <2>5. CASE /\ sockets' = [sockets EXCEPT ![id] = o]
             /\ local'   = [p \in Opens |-> IF p = o THEN "open"
                                             ELSE IF p = sockets[id] THEN "shut" ELSE local[p]]
             /\ copier'  = [copier EXCEPT ![o] = "reading"]
    <3>1. \A j \in Ids : \/ sockets'[j] \in {sockets[j], None}
                         \/ j = id /\ sockets'[j] = o /\ copier'[sockets'[j]] # "none"
      BY <2>1, <2>5
    <3>2. \A p \in Opens \ {o} : \/ local'[p] = local[p]
                                 \/ local'[p] = "shut" /\ sockets[id] = p
      BY <2>1, <2>5
    <3> QED
      BY <1>6, <2>1, <2>2, <2>3, <3>1, <3>2
  <2>6. CASE /\ sockets' = [sockets EXCEPT ![id] = None]
             /\ local' = [p \in Opens |-> IF p \in {o, sockets[id]} THEN "shut" ELSE local[p]]
    <3>1. \A p \in Opens \ {o} : \/ local'[p] = local[p]
                                 \/ local'[p] = "shut" /\ sockets[id] = p
      BY <2>1, <2>6
    <3> QED
      BY <1>6, <2>1, <2>2, <2>3, <2>6, <3>1
  <2>7. \/ UNCHANGED <<sockets, local>>
        \/ /\ sockets' = [sockets EXCEPT ![id] = o]
           /\ local'   = [p \in Opens |-> IF p = o THEN "open"
                                           ELSE IF p = sockets[id] THEN "shut" ELSE local[p]]
           /\ copier'  = [copier EXCEPT ![o] = "reading"]
        \/ /\ sockets' = [sockets EXCEPT ![id] = None]
           /\ local' = [p \in Opens |-> IF p \in {o, sockets[id]} THEN "shut" ELSE local[p]]
    BY <1>6 DEF AgentOpen
  <2> HIDE DEF AgentEvolves, id, o
  <2> QED
    BY <2>4, <2>5, <2>6, <2>7, Zenon
<1>7. ASSUME AgentData PROVE AgentEvolves
  <2>1. Head(toAgent).id \in Ids
    BY <1>7, Reads DEF AgentData
  <2> QED
    BY <1>7, <2>1 DEF AgentData, RemoveAndClose
<1>8. ASSUME AgentClose PROVE AgentEvolves
  <2>1. Head(toAgent).id \in Ids
    BY <1>8, Reads DEF AgentClose
  <2> QED
    BY <1>8, <2>1 DEF AgentClose, RemoveAndClose
<1>9. ASSUME AgentDrops PROVE AgentEvolves
  BY <1>9 DEF AgentDrops
<1>10. CASE UNCHANGED vars
  BY <1>1, <1>10 DEF vars, agentVars
<1> QED
  BY <1>1, <1>2, <1>3, <1>4, <1>5, <1>6, <1>7, <1>8, <1>9, <1>10, BrokerActions
  DEF Next, ProxyStep, ReadLoop, DropStep, AgentLoop, CopierStep

(* Which step changes the queue of frames to the agent, and how.           *)
AgentQueue ==
  \/ toAgent' = toAgent
  \/ toAgent' = <<>>
  \/ Drops(toAgent, toAgent') /\ (AgentOpen \/ AgentData \/ AgentClose)
  \/ \E o \in Opens :
       \/ SendOpen(o)    /\ HasId(o) /\ Adds(toAgent, toAgent', Frame("OPEN",  idOf[o], o))
       \/ ClientData(o)  /\ HasId(o) /\ Adds(toAgent, toAgent', Frame("DATA",  idOf[o], o))
       \/ FinishClose(o) /\ HasId(o) /\ Adds(toAgent, toAgent', Frame("CLOSE", idOf[o], o))

LEMMA AgentQueueSteps ==
  ASSUME Inv, [Next]_vars PROVE AgentQueue
<1> USE DEF AgentQueue, Inv
<1>1. ASSUME NEW o \in Opens, SendOpen(o) PROVE AgentQueue
  <2>1. HasId(o)
    BY <1>1 DEF SendOpen, IdInv
  <2> QED
    BY <1>1, <2>1, Sends DEF SendOpen
<1>2. ASSUME NEW o \in Opens, ClientData(o) PROVE AgentQueue
  <2>1. HasId(o)
    BY <1>2 DEF ClientData, IdInv
  <2> QED
    BY <1>2, <2>1, Sends DEF ClientData
<1>3. ASSUME NEW o \in Opens, FinishClose(o) PROVE AgentQueue
  <2>1. HasId(o)
    BY <1>3 DEF FinishClose, IdInv
  <2> QED
    BY <1>3, <2>1, Sends DEF FinishClose
<1>4. CASE AgentOpen \/ AgentData \/ AgentClose
  BY <1>4, Receipt DEF AgentOpen, AgentData, AgentClose
<1>5. CASE AgentDrops
  BY <1>5 DEF AgentDrops
<1>6. ASSUME NEW o \in Opens,
             \/ Allocate(o) \/ OpenTimeout(o) \/ Resolve(o) \/ BeginClose(o) \/ ReadEnd(o)
             \/ Destroy(o) \/ CopierReads(o) \/ CopierSends(o) \/ CopierEnds(o)
             \/ ServiceCloses(o)
      PROVE  AgentQueue
  BY <1>6 DEF Allocate, OpenTimeout, Resolve, BeginClose, ReadEnd, Destroy, CopierReads,
              CopierSends, CopierEnds, ServiceCloses
<1>7. CASE ReadLoop \/ BeginDrop \/ SwapMaps \/ CloseSocket
  BY <1>7 DEF ReadLoop, TakeAck, FinishAck, TakeData, TakeClose, FinishReap, BeginDrop,
              SwapMaps, CloseSocket
<1>8. CASE UNCHANGED vars
  BY <1>8 DEF vars
<1> HIDE DEF AgentQueue
<1> QED
  BY <1>1, <1>2, <1>3, <1>4, <1>5, <1>6, <1>7, <1>8
  DEF Next, ProxyStep, DropStep, AgentLoop, CopierStep

(* Which step changes the queue of frames to the broker, and how.          *)
BrokerQueue ==
  \/ toBroker' = toBroker
  \/ toBroker' = <<>> /\ link' = "down"
  \/ /\ Drops(toBroker, toBroker') /\ loop = Idle
     /\ \/ TakeAck   /\ toBroker[1].kind = "OPEN"
        \/ TakeData  /\ toBroker[1].kind = "DATA" /\ UNCHANGED brokerVars
        \/ TakeClose /\ toBroker[1].kind = "CLOSE"
  \/ /\ AgentOpen
     /\ \/ /\ Adds(toBroker, toBroker', Frame("CLOSE", toAgent[1].id, toAgent[1].of))
           /\ UNCHANGED copier
        \/ /\ Adds(toBroker, toBroker', Frame("OPEN",  toAgent[1].id, toAgent[1].of))
           /\ copier'[toAgent[1].of] # "none"
  \/ \E o \in Opens :
       \/ /\ CopierSends(o) /\ HasId(o) /\ copier[o] # "none"
          /\ Adds(toBroker, toBroker', Frame("DATA", idOf[o], o))
       \/ /\ CopierEnds(o) /\ HasId(o) /\ copier[o] # "none" /\ local'[o] = "shut"
          /\ Adds(toBroker, toBroker', Frame("CLOSE", idOf[o], o))

LEMMA BrokerQueueSteps ==
  ASSUME Inv, OriginInv, [Next]_vars PROVE BrokerQueue
<1> USE DEF BrokerQueue, Inv
<1>1. ASSUME NEW o \in Opens, CopierSends(o) PROVE BrokerQueue
  <2>1. HasId(o)
    BY <1>1 DEF CopierSends, IdInv
  <2> QED
    BY <1>1, <2>1, Sends DEF CopierSends
<1>2. ASSUME NEW o \in Opens, CopierEnds(o) PROVE BrokerQueue
  <2>1. HasId(o)
    BY <1>2 DEF CopierEnds, IdInv
  <2>2. local'[o] = "shut" /\ copier[o] # "none"
    BY <1>2 DEF CopierEnds, TypeOK
  <2> QED
    BY <1>2, <2>1, <2>2, Sends DEF CopierEnds
<1>3. CASE AgentOpen
  <2>1. /\ Head(toAgent) = toAgent[1] /\ toAgent[1].of \in Opens
        /\ toAgent[1].id = idOf[toAgent[1].of] /\ HasId(toAgent[1].of)
    BY <1>3, Receipt, Reads, FrameFields DEF AgentOpen, IdInv, OriginInv
  <2>2. CASE toBroker' = ToBroker("CLOSE", toAgent[1].id, toAgent[1].of) /\ UNCHANGED copier
    BY <1>3, <2>1, <2>2, Sends
  <2>3. CASE /\ toBroker' = ToBroker("OPEN", toAgent[1].id, toAgent[1].of)
             /\ copier' = [copier EXCEPT ![toAgent[1].of] = "reading"]
    <3>1. copier'[toAgent[1].of] # "none"
      BY <2>1, <2>3 DEF TypeOK
    <3> QED
      BY <1>3, <2>1, <2>3, <3>1, Sends
  <2> QED
    BY <1>3, <2>1, <2>2, <2>3 DEF AgentOpen
<1>4. CASE TakeAck
  BY <1>4, Receipt DEF TakeAck, Receives
<1>5. CASE TakeData
  BY <1>5, Receipt DEF TakeData, Receives
<1>6. CASE TakeClose
  BY <1>6, Receipt DEF TakeClose, Receives
<1>7. CASE CloseSocket
  BY <1>7 DEF CloseSocket
<1>8. ASSUME NEW o \in Opens,
             \/ Allocate(o) \/ SendOpen(o) \/ OpenTimeout(o) \/ Resolve(o) \/ ClientData(o)
             \/ BeginClose(o) \/ FinishClose(o) \/ ReadEnd(o) \/ Destroy(o)
             \/ CopierReads(o) \/ ServiceCloses(o)
      PROVE  BrokerQueue
  BY <1>8 DEF Allocate, SendOpen, OpenTimeout, Resolve, ClientData, BeginClose, FinishClose,
              ReadEnd, Destroy, CopierReads, ServiceCloses
<1>9. CASE \/ FinishAck \/ FinishReap \/ BeginDrop \/ SwapMaps \/ AgentData \/ AgentClose
           \/ AgentDrops
  BY <1>9 DEF FinishAck, FinishReap, BeginDrop, SwapMaps, AgentData, AgentClose, AgentDrops
<1>10. CASE UNCHANGED vars
  BY <1>10 DEF vars
<1> HIDE DEF BrokerQueue
<1> QED
  BY <1>1, <1>2, <1>3, <1>4, <1>5, <1>6, <1>7, <1>8, <1>9, <1>10
  DEF Next, ProxyStep, ReadLoop, DropStep, AgentLoop, CopierStep

(* The frames that are in a queue after a step: those that were there      *)
(* before it, and the one it has sent.                                     *)
LEMMA AgentFrames ==
  ASSUME Inv, AgentQueue, NEW i \in 1..Len(toAgent')
  PROVE  \/ \E j \in 1..Len(toAgent) :
              /\ toAgent'[i] = toAgent[j]
              /\ j = i \/ (j = i + 1 /\ (AgentOpen \/ AgentData \/ AgentClose))
         \/ \E o \in Opens :
              \/ SendOpen(o)    /\ HasId(o) /\ toAgent'[i] = Frame("OPEN",  idOf[o], o)
              \/ ClientData(o)  /\ HasId(o) /\ toAgent'[i] = Frame("DATA",  idOf[o], o)
              \/ FinishClose(o) /\ HasId(o) /\ toAgent'[i] = Frame("CLOSE", idOf[o], o)
<1>1. Len(toAgent) \in Nat
  BY Lengths DEF Inv
<1>2. CASE toAgent' = toAgent
  BY <1>2
<1>3. CASE toAgent' = <<>>
  BY <1>3
<1>4. CASE Drops(toAgent, toAgent') /\ (AgentOpen \/ AgentData \/ AgentClose)
  <2>1. i + 1 \in 1..Len(toAgent) /\ toAgent'[i] = toAgent[i + 1]
    BY <1>1, <1>4 DEF Drops
  <2> QED
    BY <1>4, <2>1
<1>5. ASSUME NEW f, Adds(toAgent, toAgent', f)
      PROVE  toAgent'[i] = f \/ (i \in 1..Len(toAgent) /\ toAgent'[i] = toAgent[i])
  BY <1>1, <1>5 DEF Adds
<1> QED
  BY <1>2, <1>3, <1>4, <1>5 DEF AgentQueue

LEMMA BrokerFrames ==
  ASSUME Inv, BrokerQueue, NEW i \in 1..Len(toBroker')
  PROVE  \/ \E j \in 1..Len(toBroker) :
              /\ toBroker'[i] = toBroker[j]
              /\ \/ j = i /\ ~Drops(toBroker, toBroker')
                 \/ j = i + 1 /\ Drops(toBroker, toBroker')
         \/ /\ AgentOpen /\ UNCHANGED copier
            /\ toBroker'[i] = Frame("CLOSE", toAgent[1].id, toAgent[1].of)
         \/ /\ AgentOpen /\ copier'[toAgent[1].of] # "none"
            /\ toBroker'[i] = Frame("OPEN", toAgent[1].id, toAgent[1].of)
         \/ \E o \in Opens :
              /\ HasId(o) /\ copier[o] # "none"
              /\ \/ CopierSends(o) /\ toBroker'[i] = Frame("DATA", idOf[o], o)
                 \/ /\ CopierEnds(o) /\ local'[o] = "shut"
                    /\ toBroker'[i] = Frame("CLOSE", idOf[o], o)
<1>1. Len(toBroker) \in Nat
  BY Lengths DEF Inv
<1>2. CASE toBroker' = toBroker
  BY <1>1, <1>2 DEF Drops
<1>3. CASE toBroker' = <<>>
  BY <1>3
<1>4. CASE Drops(toBroker, toBroker')
  <2>1. i + 1 \in 1..Len(toBroker) /\ toBroker'[i] = toBroker[i + 1]
    BY <1>1, <1>4 DEF Drops
  <2> QED
    BY <1>4, <2>1
<1>5. ASSUME NEW f, Adds(toBroker, toBroker', f)
      PROVE  toBroker'[i] = f \/ (i \in 1..Len(toBroker) /\ toBroker'[i] = toBroker[i])
  BY <1>1, <1>5 DEF Adds
<1> QED
  BY <1>2, <1>3, <1>4, <1>5 DEF BrokerQueue

(* The fields of a frame.                                                  *)
LEMMA FrameParts ==
  \A kind, id, o : /\ Frame(kind, id, o).kind = kind
                   /\ Frame(kind, id, o).id = id
                   /\ Frame(kind, id, o).of = o
BY DEF Frame

-----------------------------------------------------------------------------
(* The inductive invariant of the tunnel, again.                           *)
LEMMA InvStep == Inv /\ [Next]_vars => Inv'
BY TypeStep, IdStep, PendingStep DEF Inv

(* An id that has been given stays given, so a reused one stays reused.    *)
LEMMA IdsStay ==
  ASSUME Inv, OriginInv, BrokerEvolves, NEW o \in Opens, HasId(o)
  PROVE  /\ idOf'[o] = idOf[o] /\ HasId(o)'
         /\ \A p \in Opens : idOf[p] = idOf[o] => idOf'[p] = idOf'[o]
         /\ \A p \in Opens : idOf[p] = idOf[o] /\ p # o => Reused(o) /\ Reused(o)'
         /\ Reused(o) => Reused(o)'
<1>1. 0 \notin Ids
  BY Parameters DEF Ids
<1>2. \A p \in Opens : idOf[p] \in Ids => idOf'[p] = idOf[p]
  BY <1>1 DEF OriginInv, BrokerEvolves, OpensEvolve
<1> QED
  BY <1>2 DEF HasId, Reused

(* What is waiting for its own answer belongs to an id.                    *)
LEMMA FrameOpens ==
  ASSUME Inv, OriginInv
  PROVE  /\ \A i \in 1..Len(toAgent) :
              toAgent[i].of \in Opens /\ HasId(toAgent[i].of) /\ toAgent[i].id \in Ids
         /\ \A i \in 1..Len(toBroker) :
              toBroker[i].of \in Opens /\ HasId(toBroker[i].of) /\ toBroker[i].id \in Ids
BY Lengths, FrameFields DEF Inv, OriginInv, HasId

(* Frames, streams and sockets keep the id of their open.                  *)
LEMMA OriginStep ==
  ASSUME Inv, OriginInv, ClosedInv, [Next]_vars PROVE OriginInv'
<1>1. Inv' /\ BrokerEvolves /\ AgentEvolves /\ AgentQueue /\ BrokerQueue
  BY InvStep, BrokerSteps, AgentSteps, AgentQueueSteps, BrokerQueueSteps
<1>2. ASSUME NEW o \in Opens, client'[o] = "new" PROVE idOf'[o] = 0
  BY <1>1, <1>2 DEF OriginInv, BrokerEvolves, OpensEvolve
<1>3. ASSUME NEW id \in Ids, streams'[id] # None PROVE idOf'[streams'[id]] = id
  <2>1. CASE streams'[id] = streams[id]
    <3>1. streams[id] \in Opens /\ HasId(streams[id]) /\ idOf[streams[id]] = id
      BY <1>3, <2>1 DEF Inv, TypeOK, OriginInv, HasId
    <3> QED
      BY <1>1, <2>1, <3>1, IdsStay
  <2>2. CASE loop.at = "ack" /\ idOf[loop.of] = id /\ streams'[id] = loop.of
    <3>1. loop.of \in Opens /\ HasId(loop.of)
      BY <2>2 DEF Inv, PendingInv, OriginInv
    <3> QED
      BY <1>1, <2>2, <3>1, IdsStay
  <2> QED
    BY <1>1, <1>3, <2>1, <2>2 DEF BrokerEvolves, StreamsEvolve
<1>4. ASSUME NEW id \in Ids, sockets'[id] # None PROVE idOf'[sockets'[id]] = id
  <2>1. CASE sockets'[id] = sockets[id]
    <3>1. sockets[id] \in Opens /\ HasId(sockets[id]) /\ idOf[sockets[id]] = id
      BY <1>4, <2>1 DEF Inv, TypeOK, OriginInv, HasId
    <3> QED
      BY <1>1, <2>1, <3>1, IdsStay
  <2>2. CASE AgentOpen /\ id = toAgent[1].id /\ sockets'[id] = toAgent[1].of
    <3>1. 1 \in 1..Len(toAgent)
      BY <2>2, Reads DEF AgentOpen, Inv
    <3>2. toAgent[1].of \in Opens /\ HasId(toAgent[1].of) /\ idOf[toAgent[1].of] = id
      BY <2>2, <3>1, FrameOpens DEF OriginInv
    <3> QED
      BY <1>1, <2>2, <3>2, IdsStay
  <2> QED
    BY <1>1, <1>4, <2>1, <2>2 DEF AgentEvolves
<1>5. ASSUME NEW i \in 1..Len(toAgent') PROVE idOf'[toAgent'[i].of] = toAgent'[i].id
  <2>1. ASSUME NEW j \in 1..Len(toAgent), toAgent'[i] = toAgent[j]
        PROVE  idOf'[toAgent'[i].of] = toAgent'[i].id
    <3>1. toAgent[j].of \in Opens /\ HasId(toAgent[j].of) /\ idOf[toAgent[j].of] = toAgent[j].id
      BY FrameOpens DEF OriginInv
    <3> QED
      BY <1>1, <2>1, <3>1, IdsStay
  <2>2. ASSUME NEW o \in Opens, NEW kind, HasId(o), toAgent'[i] = Frame(kind, idOf[o], o)
        PROVE  idOf'[toAgent'[i].of] = toAgent'[i].id
    BY <1>1, <2>2, IdsStay DEF Frame
  <2> QED
    BY <1>1, <2>1, <2>2, AgentFrames
<1>6. ASSUME NEW i \in 1..Len(toBroker') PROVE idOf'[toBroker'[i].of] = toBroker'[i].id
  <2>1. ASSUME NEW j \in 1..Len(toBroker), toBroker'[i] = toBroker[j]
        PROVE  idOf'[toBroker'[i].of] = toBroker'[i].id
    <3>1. /\ toBroker[j].of \in Opens /\ HasId(toBroker[j].of)
          /\ idOf[toBroker[j].of] = toBroker[j].id
      BY FrameOpens DEF OriginInv
    <3> QED
      BY <1>1, <2>1, <3>1, IdsStay
  <2>2. ASSUME NEW o \in Opens, NEW kind, HasId(o), toBroker'[i] = Frame(kind, idOf[o], o)
        PROVE  idOf'[toBroker'[i].of] = toBroker'[i].id
    BY <1>1, <2>2, IdsStay DEF Frame
  <2>3. ASSUME AgentOpen
        PROVE  /\ toAgent[1].of \in Opens /\ HasId(toAgent[1].of)
               /\ toAgent[1].id = idOf[toAgent[1].of]
    <3>1. 1 \in 1..Len(toAgent)
      BY <2>3, Reads DEF AgentOpen, Inv
    <3> QED
      BY <3>1, FrameOpens DEF OriginInv
  <2>4. CASE AgentOpen /\ \E kind : toBroker'[i] = Frame(kind, toAgent[1].id, toAgent[1].of)
    BY <2>2, <2>3, <2>4
  <2> QED
    BY <1>1, <2>1, <2>2, <2>4, BrokerFrames
<1>7. (loop.at # "idle" => HasId(loop.of))'
  <2>1. CASE loop' = loop
    BY <1>1, <2>1, IdsStay DEF Inv, PendingInv, OriginInv
  <2>2. CASE loop' = Idle
    BY <2>2 DEF Idle
  <2>3. CASE loop = Idle /\ TakeAck /\ loop' = [at |-> "ack", of |-> pending[toBroker[1].id]]
             /\ loop'.of \in Opens
    <3>1. toBroker[1].id \in Ids
      BY <2>3, Reads, Receipt DEF TakeAck, Inv
    <3>2. loop'.of = pending[toBroker[1].id] /\ loop'.of # None
      BY <2>3, Parameters
    <3>3. HasId(loop'.of)
      BY <3>1, <3>2 DEF Inv, PendingInv, HasId
    <3> QED
      BY <1>1, <2>3, <3>3, IdsStay
  <2>4. CASE loop = Idle /\ TakeClose /\ loop' = [at |-> "reap", of |-> streams[toBroker[1].id]]
             /\ loop'.of \in Opens
    <3>1. toBroker[1].id \in Ids
      BY <2>4, Reads, Receipt DEF TakeClose, Inv
    <3>2. loop'.of = streams[toBroker[1].id] /\ loop'.of # None
      BY <2>4, Parameters
    <3>3. HasId(loop'.of)
      BY <3>1, <3>2 DEF OriginInv, HasId
    <3> QED
      BY <1>1, <2>4, <3>3, IdsStay
  <2> QED
    BY <1>1, <2>1, <2>2, <2>3, <2>4 DEF BrokerEvolves, LoopEvolves
<1>8. ASSUME NEW o \in Opens, local'[o] # "none" PROVE HasId(o)'
  <2>1. \A id \in Ids : sockets[id] = o => HasId(o)
    BY Parameters DEF OriginInv, HasId
  <2>2. AgentOpen /\ o = toAgent[1].of => HasId(o)
    BY Reads, FrameOpens DEF AgentOpen, Inv
  <2>3. local[o] # "none" \/ copier[o] # "none" => HasId(o)
    BY DEF OriginInv, Inv, IdInv
  <2>4. HasId(o)
    BY <1>1, <1>8, <2>1, <2>2, <2>3 DEF AgentEvolves
  <2> QED
    BY <1>1, <2>4, IdsStay
<1> QED
  BY <1>2, <1>3, <1>4, <1>5, <1>6, <1>7, <1>8 DEF OriginInv

(* The agent dials an open of which it knows nothing.                      *)
LEMMA HeadOpen ==
  ASSUME Inv, OriginInv, DialInv, AgentOpen
  PROVE  /\ 1 \in 1..Len(toAgent) /\ toAgent[1].kind = "OPEN"
         /\ toAgent[1].of \in Opens /\ HasId(toAgent[1].of)
         /\ toAgent[1].id \in Ids /\ idOf[toAgent[1].of] = toAgent[1].id
         /\ Asked(toAgent[1].of)
         /\ copier[toAgent[1].of] = "none" /\ local[toAgent[1].of] = "none"
         /\ \A j \in 1..Len(toAgent) :
              toAgent[j].kind = "OPEN" /\ toAgent[j].of = toAgent[1].of => j = 1
         /\ \A j \in 1..Len(toBroker) : toBroker[j].of # toAgent[1].of
<1>1. 1 \in 1..Len(toAgent) /\ toAgent[1].kind = "OPEN"
  BY Reads, Receipt DEF AgentOpen, Inv
<1> QED
  BY <1>1, FrameOpens DEF OriginInv, DialInv

(* A socket that is shut stays shut, and a copier that has started has     *)
(* started for good; an open the agent knows nothing of stays unknown to   *)
(* it until it is dialled.                                                 *)
LEMMA DialStays ==
  ASSUME Inv, OriginInv, DialInv, AgentEvolves, NEW o \in Opens
  PROVE  /\ local[o] = "shut" => local'[o] = "shut"
         /\ copier[o] # "none" => copier'[o] # "none"
         /\ copier[o] = "none" /\ local[o] = "none" /\ ~(AgentOpen /\ o = toAgent[1].of)
              => copier'[o] = "none" /\ local'[o] = "none"
         /\ copier[o] = "none" /\ ~(AgentOpen /\ o = toAgent[1].of) => copier'[o] = "none"
<1>1. \A id \in Ids : sockets[id] = o => copier[o] # "none"
  BY Parameters DEF DialInv
<1>2. AgentOpen /\ o = toAgent[1].of => copier[o] = "none" /\ local[o] = "none"
  BY HeadOpen
<1> QED
  BY <1>1, <1>2 DEF AgentEvolves

(* The agent is asked once for each open.                                  *)
LEMMA DialStep ==
  ASSUME Inv, OriginInv, DialInv, ClosedInv, [Next]_vars PROVE DialInv'
<1>1. Inv' /\ BrokerEvolves /\ AgentEvolves /\ AgentQueue /\ BrokerQueue
  BY InvStep, BrokerSteps, AgentSteps, AgentQueueSteps, BrokerQueueSteps
<1>2. ASSUME NEW o \in Opens, Asked(o) PROVE Asked(o)'
  BY <1>1, <1>2 DEF BrokerEvolves, OpensEvolve
<1>3. ASSUME NEW o \in Opens, copier'[o] # "none" \/ local'[o] # "none" PROVE Asked(o)'
  <2>1. copier[o] # "none" \/ local[o] # "none" \/ (AgentOpen /\ o = toAgent[1].of)
    BY <1>1, <1>3, DialStays
  <2> QED
    BY <1>2, <2>1, HeadOpen DEF DialInv
<1>4. ASSUME NEW id \in Ids, sockets'[id] # None PROVE copier'[sockets'[id]] # "none"
  <2>1. CASE sockets'[id] = sockets[id]
    <3>1. sockets[id] \in Opens /\ copier[sockets[id]] # "none"
      BY <1>4, <2>1 DEF Inv, TypeOK, DialInv
    <3> QED
      BY <1>1, <2>1, <3>1, DialStays
  <2> QED
    BY <1>1, <1>4, <2>1 DEF AgentEvolves
<1>5. ASSUME NEW i \in 1..Len(toAgent'), toAgent'[i].kind = "OPEN"
      PROVE  /\ Asked(toAgent[i].of)'
             /\ copier'[toAgent'[i].of] = "none" /\ local'[toAgent'[i].of] = "none"
             /\ \A k \in 1..Len(toAgent') :
                  toAgent'[k].kind = "OPEN" /\ toAgent'[k].of = toAgent'[i].of => k = i
             /\ \A k \in 1..Len(toBroker') : toBroker'[k].of # toAgent'[i].of
  <2>1. /\ \A j \in 1..Len(toAgent) : toAgent[j].of \in Opens
        /\ \A j \in 1..Len(toBroker) : toBroker[j].of \in Opens
    BY FrameOpens
  (* One that was there before: the agent has dialled another, if any.     *)
  <2>2. ASSUME NEW j \in 1..Len(toAgent), toAgent'[i] = toAgent[j],
               \/ j = i
               \/ j = i + 1 /\ (AgentOpen \/ AgentData \/ AgentClose)
        PROVE  /\ Asked(toAgent[i].of)'
               /\ copier'[toAgent'[i].of] = "none" /\ local'[toAgent'[i].of] = "none"
               /\ \A k \in 1..Len(toBroker') : toBroker'[k].of # toAgent'[i].of
    <3>1. PICK o \in Opens :
            /\ o = toAgent[j].of /\ toAgent'[i].of = o /\ Asked(o)
            /\ copier[o] = "none" /\ local[o] = "none"
            /\ \A k \in 1..Len(toBroker) : toBroker[k].of # o
      BY <1>5, <2>1, <2>2 DEF DialInv
    <3>2. ~(AgentOpen /\ o = toAgent[1].of)
      <4>1. SUFFICES ASSUME AgentOpen, o = toAgent[1].of PROVE FALSE
        OBVIOUS
      <4>2. j = 1
        BY <1>5, <2>2, <3>1, <4>1, HeadOpen
      <4>3. Drops(toAgent, toAgent')
        BY <4>1, Receipt DEF AgentOpen, Inv
      <4>4. i = 1 /\ toAgent'[1] = toAgent[2] /\ 2 \in 1..Len(toAgent)
        BY <2>2, <4>2, <4>3, Lengths DEF Drops, Inv
      <4> QED
        BY <1>5, <2>2, <3>1, <4>1, <4>2, <4>4, HeadOpen
    <3>3. copier'[o] = "none" /\ local'[o] = "none" /\ Asked(o)'
      BY <1>1, <1>2, <3>1, <3>2, DialStays
    <3>4. ASSUME NEW k \in 1..Len(toBroker') PROVE toBroker'[k].of # o
      BY <1>1, <3>1, <3>2, <3>4, BrokerFrames, FrameParts, SMTT(60)
    <3> QED
      BY <3>1, <3>3, <3>4
  (* One that has just been sent.                                          *)
  <2>3. ASSUME NEW o \in Opens, SendOpen(o), toAgent'[i] = Frame("OPEN", idOf[o], o)
        PROVE  /\ Asked(toAgent[i].of)'
               /\ copier'[toAgent'[i].of] = "none" /\ local'[toAgent'[i].of] = "none"
               /\ \A k \in 1..Len(toBroker') : toBroker'[k].of # toAgent'[i].of
    <3>1. toAgent'[i].of = o
      BY <2>3 DEF Frame
    <3>2. ~Asked(o) /\ Asked(o)' /\ UNCHANGED <<toBroker, copier, local>>
      BY <2>3 DEF SendOpen, Asked, agentVars, Inv, TypeOK
    <3> QED
      BY <3>1, <3>2 DEF DialInv
  (* There are not two, whichever they were before.                        *)
  <2>4. ASSUME NEW k \in 1..Len(toAgent'), toAgent'[k].kind = "OPEN",
               toAgent'[k].of = toAgent'[i].of
        PROVE  k = i
    <3>1. Len(toAgent) \in Nat
      BY Lengths DEF Inv
    <3>2. CASE toAgent' = toAgent
      BY <1>5, <2>4, <3>2 DEF DialInv
    <3>3. CASE Drops(toAgent, toAgent')
      <4>1. /\ i + 1 \in 1..Len(toAgent) /\ toAgent'[i] = toAgent[i + 1]
            /\ k + 1 \in 1..Len(toAgent) /\ toAgent'[k] = toAgent[k + 1]
        BY <3>1, <3>3 DEF Drops
      <4>2. i + 1 = k + 1
        BY <1>5, <2>4, <4>1 DEF DialInv
      <4> QED
        BY <4>2
    <3>4. CASE \E o \in Opens : /\ SendOpen(o)
                               /\ Adds(toAgent, toAgent', Frame("OPEN", idOf[o], o))
      <4>1. PICK o \in Opens : /\ SendOpen(o)
                               /\ Adds(toAgent, toAgent', Frame("OPEN", idOf[o], o))
        BY <3>4
      <4>2. \A j \in 1..Len(toAgent) : ~(toAgent[j].kind = "OPEN" /\ toAgent[j].of = o)
        BY <4>1 DEF SendOpen, DialInv, Asked
      <4>3. toAgent'[Len(toAgent) + 1].of = o
        BY <4>1 DEF Adds, Frame
      <4>4. \A j \in 1..Len(toAgent') :
              j = Len(toAgent) + 1 \/ (j \in 1..Len(toAgent) /\ toAgent'[j] = toAgent[j])
        BY <3>1, <4>1 DEF Adds
      <4> QED
        BY <1>5, <2>4, <4>2, <4>3, <4>4 DEF DialInv
    <3>5. ASSUME NEW f, f.kind # "OPEN", Adds(toAgent, toAgent', f) PROVE k = i
      <4>1. \A j \in 1..Len(toAgent') :
              \/ toAgent'[j] = f
              \/ j \in 1..Len(toAgent) /\ toAgent'[j] = toAgent[j]
        BY <3>1, <3>5 DEF Adds
      <4> QED
        BY <1>5, <2>4, <3>5, <4>1 DEF DialInv
    <3> QED
      BY <1>1, <3>2, <3>3, <3>4, <3>5, FrameParts DEF AgentQueue
  <2>5. \/ \E j \in 1..Len(toAgent) :
              /\ toAgent'[i] = toAgent[j]
              /\ j = i \/ (j = i + 1 /\ (AgentOpen \/ AgentData \/ AgentClose))
        \/ \E o \in Opens : SendOpen(o) /\ toAgent'[i] = Frame("OPEN", idOf[o], o)
    BY <1>1, <1>5, AgentFrames, FrameParts
  <2> QED
    BY <2>2, <2>3, <2>4, <2>5
<1>6. ASSUME NEW i \in 1..Len(toBroker')
      PROVE  /\ Asked(toBroker[i].of)'
             /\ IF toBroker'[i].kind = "CLOSE"
                THEN local'[toBroker'[i].of] = "shut" \/ copier'[toBroker'[i].of] = "none"
                ELSE copier'[toBroker'[i].of] # "none"
  <2>1. ASSUME NEW j \in 1..Len(toBroker), toBroker'[i] = toBroker[j]
        PROVE  /\ Asked(toBroker[i].of)'
               /\ IF toBroker'[i].kind = "CLOSE"
                  THEN local'[toBroker'[i].of] = "shut" \/ copier'[toBroker'[i].of] = "none"
                  ELSE copier'[toBroker'[i].of] # "none"
    <3>1. PICK o \in Opens :
            o = toBroker[j].of /\ Asked(o) /\ ~(AgentOpen /\ o = toAgent[1].of)
      BY FrameOpens, HeadOpen DEF DialInv
    <3>2. IF toBroker[j].kind = "CLOSE" THEN local[o] = "shut" \/ copier[o] = "none"
                                       ELSE copier[o] # "none"
      BY <3>1 DEF DialInv
    <3>3. Asked(o)'
      BY <1>2, <3>1
    <3>4. IF toBroker[j].kind = "CLOSE" THEN local'[o] = "shut" \/ copier'[o] = "none"
                                       ELSE copier'[o] # "none"
      BY <1>1, <3>1, <3>2, DialStays
    <3> QED
      BY <2>1, <3>1, <3>3, <3>4
  <2>2. CASE AgentOpen /\ UNCHANGED copier
             /\ toBroker'[i] = Frame("CLOSE", toAgent[1].id, toAgent[1].of)
    <3>1. toBroker'[i].of = toAgent[1].of /\ toBroker'[i].kind = "CLOSE"
      BY <2>2 DEF Frame
    <3> QED
      BY <1>2, <2>2, <3>1, HeadOpen
  <2>3. CASE AgentOpen /\ copier'[toAgent[1].of] # "none"
             /\ toBroker'[i] = Frame("OPEN", toAgent[1].id, toAgent[1].of)
    <3>1. toBroker'[i].of = toAgent[1].of /\ toBroker'[i].kind = "OPEN"
      BY <2>3 DEF Frame
    <3> QED
      BY <1>2, <2>3, <3>1, HeadOpen
  <2>4. ASSUME NEW o \in Opens, copier[o] # "none",
               \/ toBroker'[i] = Frame("DATA", idOf[o], o)
               \/ local'[o] = "shut" /\ toBroker'[i] = Frame("CLOSE", idOf[o], o)
        PROVE  /\ Asked(toBroker[i].of)'
               /\ IF toBroker'[i].kind = "CLOSE"
                  THEN local'[toBroker'[i].of] = "shut" \/ copier'[toBroker'[i].of] = "none"
                  ELSE copier'[toBroker'[i].of] # "none"
    <3>1. toBroker'[i].of = o /\ (toBroker'[i].kind = "DATA" \/ local'[o] = "shut")
      BY <2>4 DEF Frame
    <3>2. Asked(o)' /\ copier'[o] # "none"
      BY <1>1, <1>2, <2>4, DialStays DEF DialInv
    <3>3. toBroker'[i].kind \in {"DATA", "CLOSE"}
      BY <2>4 DEF Frame
    <3> QED
      BY <3>1, <3>2, <3>3
  <2> QED
    BY <1>1, <2>1, <2>2, <2>3, <2>4, BrokerFrames
<1> QED
  BY <1>3, <1>4, <1>5, <1>6 DEF DialInv

(* What the read loop takes up: an ack is for a pending open that has the  *)
(* id of the frame, a CLOSE is for the stream that has it.                 *)
LEMMA Takes ==
  ASSUME Inv, OriginInv, loop' # loop, loop' # Idle, BrokerEvolves
  PROVE  \E o \in Opens :
           /\ loop = Idle /\ loop'.of = o /\ o # None /\ HasId(o)
           /\ 1 \in 1..Len(toBroker) /\ Drops(toBroker, toBroker')
           /\ idOf[toBroker[1].of] = idOf[o] /\ toBroker[1].of \in Opens
           /\ \/ /\ loop'.at = "ack" /\ TakeAck /\ toBroker[1].kind = "OPEN"
                 /\ pending[idOf[o]] = o /\ UNCHANGED streams
              \/ /\ loop'.at = "reap" /\ TakeClose /\ toBroker[1].kind = "CLOSE"
                 /\ streams[idOf[o]] = o /\ streams'[idOf[o]] = None
<1>1. CASE loop = Idle /\ TakeAck /\ loop' = [at |-> "ack", of |-> pending[toBroker[1].id]]
           /\ loop'.of \in Opens /\ UNCHANGED streams
  <2>1. /\ Drops(toBroker, toBroker') /\ toBroker[1].kind = "OPEN" /\ 1 \in 1..Len(toBroker)
        /\ toBroker \in Seq(Frames) /\ toBroker # <<>>
    BY <1>1, Receipt, Received DEF TakeAck, Receives, Inv, TypeOK
  <2>2. /\ toBroker[1].id \in Ids /\ toBroker[1].of \in Opens
        /\ idOf[toBroker[1].of] = toBroker[1].id
    BY <2>1, FrameOpens DEF OriginInv
  <2>3. loop'.of = pending[toBroker[1].id] /\ loop'.of # None /\ loop'.at = "ack"
    BY <1>1, Parameters
  <2>4. idOf[loop'.of] = toBroker[1].id
    BY <2>2, <2>3 DEF Inv, PendingInv
  <2> QED
    BY <1>1, <2>1, <2>2, <2>3, <2>4 DEF HasId
<1>2. CASE loop = Idle /\ TakeClose /\ loop' = [at |-> "reap", of |-> streams[toBroker[1].id]]
           /\ loop'.of \in Opens
  <2>1. /\ Drops(toBroker, toBroker') /\ toBroker[1].kind = "CLOSE" /\ 1 \in 1..Len(toBroker)
        /\ toBroker \in Seq(Frames) /\ toBroker # <<>> /\ Head(toBroker) = toBroker[1]
    BY <1>2, Receipt, Received DEF TakeClose, Receives, Inv, TypeOK
  <2>2. /\ toBroker[1].id \in Ids /\ toBroker[1].of \in Opens
        /\ idOf[toBroker[1].of] = toBroker[1].id
    BY <2>1, FrameOpens DEF OriginInv
  <2>3. loop'.of = streams[toBroker[1].id] /\ loop'.of # None /\ loop'.at = "reap"
    BY <1>2, Parameters
  <2>4. idOf[loop'.of] = toBroker[1].id
    BY <2>2, <2>3 DEF OriginInv
  <2>5. streams'[toBroker[1].id] = None
    BY <1>2, <2>1, <2>2, <2>3 DEF TakeClose, Inv, TypeOK
  <2> QED
    BY <1>2, <2>1, <2>2, <2>3, <2>4, <2>5 DEF HasId
<1> QED
  BY <1>1, <1>2 DEF BrokerEvolves, LoopEvolves

(* Streams come from sockets, and end with them.                           *)
LEMMA EndStep ==
  ASSUME Inv, OriginInv, DialInv, EndInv, ClosedInv, [Next]_vars PROVE EndInv'
<1>1. Inv' /\ OriginInv' /\ BrokerEvolves /\ AgentEvolves
  BY InvStep, OriginStep, BrokerSteps, AgentSteps
<1>2. ASSUME NEW o \in Opens, HasId(o), copier[o] # "none" \/ Reused(o)
      PROVE  (copier[o] # "none" \/ Reused(o))'
  BY <1>1, <1>2, DialStays, IdsStay
<1>3. ASSUME NEW o \in Opens, HasId(o), local[o] = "shut" \/ Reused(o)
      PROVE  (local[o] = "shut" \/ Reused(o))'
  BY <1>1, <1>3, DialStays, IdsStay
<1>4. ASSUME NEW id \in Ids, streams'[id] # None
      PROVE  (copier[streams[id]] # "none" \/ Reused(streams[id]))'
  <2>1. CASE streams'[id] = streams[id]
    <3>1. PICK o \in Opens : o = streams[id] /\ HasId(o) /\ (copier[o] # "none" \/ Reused(o))
      BY <1>4, <2>1 DEF Inv, TypeOK, OriginInv, HasId, EndInv
    <3> QED
      BY <1>2, <2>1, <3>1
  <2>2. CASE loop.at = "ack" /\ streams'[id] = loop.of
    <3>1. PICK o \in Opens : o = loop.of /\ HasId(o) /\ (copier[o] # "none" \/ Reused(o))
      BY <2>2 DEF Inv, PendingInv, OriginInv, EndInv
    <3> QED
      BY <1>2, <2>2, <3>1
  <2> QED
    BY <1>1, <1>4, <2>1, <2>2 DEF BrokerEvolves, StreamsEvolve
<1>5. (loop.at = "ack" => copier[loop.of] # "none" \/ Reused(loop.of))'
  <2>1. CASE loop' = loop
    <3>1. loop.at = "ack" => \E o \in Opens :
            o = loop.of /\ HasId(o) /\ (copier[o] # "none" \/ Reused(o))
      BY DEF Inv, PendingInv, OriginInv, EndInv
    <3> QED
      BY <1>2, <2>1, <3>1
  <2>2. CASE loop' # loop /\ loop' # Idle
    <3>1. PICK o \in Opens :
            /\ loop'.of = o /\ HasId(o) /\ 1 \in 1..Len(toBroker)
            /\ idOf[toBroker[1].of] = idOf[o] /\ toBroker[1].of \in Opens
            /\ loop'.at = "ack" => toBroker[1].kind = "OPEN"
      BY <1>1, <2>2, Takes
    <3>2. loop'.at = "ack" => copier[o] # "none" \/ Reused(o)
      BY <3>1 DEF DialInv, Reused
    <3> QED
      BY <1>2, <3>1, <3>2
  <2> QED
    BY <2>1, <2>2 DEF Idle
<1>6. (loop.at = "reap" => local[loop.of] = "shut" \/ Reused(loop.of))'
  <2>1. CASE loop' = loop
    <3>1. loop.at = "reap" => \E o \in Opens :
            o = loop.of /\ HasId(o) /\ (local[o] = "shut" \/ Reused(o))
      BY DEF Inv, PendingInv, OriginInv, EndInv
    <3> QED
      BY <1>3, <2>1, <3>1
  <2>2. CASE loop' # loop /\ loop' # Idle
    <3>1. PICK o \in Opens :
            /\ loop'.of = o /\ HasId(o) /\ 1 \in 1..Len(toBroker)
            /\ idOf[toBroker[1].of] = idOf[o] /\ toBroker[1].of \in Opens
            /\ loop'.at = "reap" => toBroker[1].kind = "CLOSE" /\ streams[idOf[o]] = o
      BY <1>1, <2>2, Takes
    <3>2. loop'.at = "reap" => local[o] = "shut" \/ Reused(o)
      <4>1. CASE toBroker[1].of # o
        BY <3>1, <4>1 DEF Reused
      <4>2. CASE toBroker[1].of = o /\ loop'.at = "reap"
        <5>1. local[o] = "shut" \/ copier[o] = "none"
          BY <3>1, <4>2 DEF DialInv
        <5>2. copier[o] # "none" \/ Reused(o)
          BY <3>1, <4>2, Parameters DEF EndInv, HasId
        <5> QED
          BY <5>1, <5>2
      <4> QED
        BY <4>1, <4>2
    <3> QED
      BY <1>3, <3>1, <3>2
  <2> QED
    BY <2>1, <2>2 DEF Idle
<1>7. doomed' # {} => link' = "swapped"
  <2>1. CASE SwapMaps
    BY <2>1 DEF SwapMaps
  <2>2. CASE CloseSocket
    BY <2>2 DEF CloseSocket
  <2>3. CASE BeginDrop
    BY <2>3 DEF BeginDrop, EndInv
  <2>4. ASSUME NEW o \in Opens, Destroy(o) PROVE doomed' # {} => link' = "swapped"
    BY <2>4 DEF Destroy, EndInv
  <2>5. ASSUME UNCHANGED <<doomed, link>> PROVE doomed' # {} => link' = "swapped"
    BY <2>5 DEF EndInv
  <2>6. ASSUME NEW o \in Opens,
               \/ Allocate(o) \/ SendOpen(o) \/ OpenTimeout(o) \/ Resolve(o) \/ ClientData(o)
               \/ BeginClose(o) \/ FinishClose(o) \/ ReadEnd(o)
        PROVE  UNCHANGED <<doomed, link>>
    BY <2>6 DEF Allocate, SendOpen, OpenTimeout, Resolve, ClientData, BeginClose, FinishClose,
                ReadEnd, brokerVars
  <2>7. CASE ReadLoop
    BY <2>5, <2>7 DEF ReadLoop, TakeAck, FinishAck, TakeData, TakeClose, FinishReap, brokerVars
  <2>8. CASE \/ AgentOpen \/ AgentData \/ AgentClose \/ AgentDrops
             \/ \E o \in Opens : CopierReads(o) \/ CopierSends(o) \/ CopierEnds(o)
                                 \/ ServiceCloses(o)
    BY <2>5, <2>8, AgentActions DEF brokerVars
  <2>9. CASE UNCHANGED vars
    BY <2>5, <2>9 DEF vars
  <2> QED
    BY <2>1, <2>2, <2>3, <2>4, <2>5, <2>6, <2>7, <2>8, <2>9
    DEF Next, ProxyStep, DropStep, AgentLoop, CopierStep
<1> QED
  BY <1>4, <1>5, <1>6, <1>7 DEF EndInv

(* A stream comes from one ack, and is closed once.                        *)
LEMMA ClosedStep ==
  ASSUME Inv, OriginInv, DialInv, EndInv, ClosedInv, [Next]_vars PROVE ClosedInv'
<1>1. /\ Inv' /\ OriginInv' /\ DialInv' /\ EndInv'
      /\ BrokerEvolves /\ AgentEvolves /\ AgentQueue /\ BrokerQueue
  BY InvStep, OriginStep, DialStep, EndStep, BrokerSteps, AgentSteps, AgentQueueSteps,
     BrokerQueueSteps
<1>2. ASSUME NEW o \in Opens, resolve[o] = "stream" PROVE resolve'[o] = "stream"
  BY <1>1, <1>2 DEF BrokerEvolves, OpensEvolve
<1>3. ASSUME NEW o \in Opens, resolve'[o] = "stream"
      PROVE  HasId(o)' /\ (copier[o] # "none" \/ Reused(o))'
  <2>1. HasId(o) /\ (copier[o] # "none" \/ Reused(o))
    <3>1. CASE resolve[o] = "stream"
      BY <3>1 DEF ClosedInv
    <3>2. CASE loop.at = "ack" /\ loop.of = o
      BY <3>2 DEF OriginInv, EndInv
    <3> QED
      BY <1>1, <1>3, <3>1, <3>2 DEF BrokerEvolves, OpensEvolve
  <2> QED
    BY <1>1, <2>1, DialStays, IdsStay
<1>4. ASSUME NEW o \in Opens, client'[o] = "proxying" \/ life'[o] # "live"
      PROVE  resolve'[o] = "stream"
  <2>1. \/ client[o] = "proxying" \/ resolve[o] = "stream" \/ life[o] # "live"
        \/ loop.at = "reap" /\ loop.of = o
        \/ o \in doomed
    BY <1>1, <1>4 DEF BrokerEvolves, OpensEvolve
  <2> QED
    BY <1>2, <2>1 DEF ClosedInv
<1>5. ASSUME NEW id \in Ids, streams'[id] # None PROVE resolve'[streams'[id]] = "stream"
  <2>1. CASE streams'[id] = streams[id]
    BY <1>2, <1>5, <2>1 DEF ClosedInv, Inv, TypeOK
  <2> QED
    BY <1>1, <1>5, <2>1 DEF BrokerEvolves, StreamsEvolve
<1>6. ASSUME NEW o \in doomed' PROVE resolve'[o] = "stream"
  <2>1. o \in Opens /\ o # None
    BY <1>1, Parameters DEF Inv, TypeOK
  <2>2. o \in doomed \/ \E id \in Ids : streams[id] = o
    BY <1>1 DEF BrokerEvolves
  <2> QED
    BY <1>2, <2>1, <2>2 DEF ClosedInv
<1>7. loop'.at = "reap" => resolve'[loop'.of] = "stream"
  <2>1. CASE loop' = loop
    BY <1>2, <2>1 DEF ClosedInv, Inv, PendingInv
  <2>2. CASE loop' # loop /\ loop' # Idle
    <3>1. PICK o \in Opens : /\ loop'.of = o /\ o # None /\ HasId(o)
                             /\ loop'.at = "ack" \/ streams[idOf[o]] = o
      BY <1>1, <2>2, Takes
    <3> QED
      BY <1>2, <3>1 DEF ClosedInv, HasId
  <2> QED
    BY <2>1, <2>2 DEF Idle
<1>8. ASSUME NEW o \in Opens, life'[o] = "dead", streams'[idOf'[o]] = o PROVE Reused(o)'
  <2>1. resolve'[o] = "stream"
    BY <1>4, <1>8
  <2>2. resolve[o] = "stream" /\ HasId(o) /\ idOf'[o] = idOf[o]
    <3>1. CASE loop.at = "ack" /\ loop.of = o
      <4>1. resolve[o] = "empty"
        BY <3>1 DEF Inv, PendingInv, AckNeverBlocks
      <4>2. life[o] = "live"
        BY <4>1 DEF ClosedInv, Inv, TypeOK
      <4>3. o \in doomed
        BY <1>1, <1>8, <3>1, <4>2 DEF BrokerEvolves, OpensEvolve
      <4> QED
        BY <4>1, <4>3 DEF ClosedInv
    <3>2. resolve[o] = "stream"
      BY <1>1, <2>1, <3>1 DEF BrokerEvolves, OpensEvolve
    <3> QED
      BY <1>1, <3>2, IdsStay DEF ClosedInv
  <2>3. CASE life[o] = "dead"
    <3>1. streams'[idOf[o]] = streams[idOf[o]] \/ (loop.at = "ack" /\ loop.of = o)
      BY <1>1, <1>8, <2>2, Parameters DEF BrokerEvolves, StreamsEvolve, HasId
    <3>2. streams[idOf[o]] = o
      BY <1>8, <2>2, <3>1 DEF Inv, PendingInv, AckNeverBlocks
    <3> QED
      BY <1>1, <2>2, <2>3, <3>2, IdsStay DEF ClosedInv
  <2>4. CASE life[o] # "dead"
    <3>1. streams'[idOf[o]] = None
      BY <1>1, <1>8, <2>4 DEF BrokerEvolves, OpensEvolve
    <3> QED
      BY <1>8, <2>2, <3>1, Parameters
  <2> QED
    BY <2>3, <2>4
<1>9. ASSUME NEW i \in 1..Len(toAgent'), toAgent'[i].kind = "CLOSE"
      PROVE  life'[toAgent'[i].of] = "dead"
  <2>1. ASSUME NEW j \in 1..Len(toAgent), toAgent'[i] = toAgent[j]
        PROVE  life'[toAgent'[i].of] = "dead"
    <3>1. PICK o \in Opens : o = toAgent[j].of /\ life[o] = "dead"
      BY <1>9, <2>1, FrameOpens DEF ClosedInv
    <3>2. life'[o] = "dead"
      BY <1>1, <3>1 DEF BrokerEvolves, OpensEvolve
    <3> QED
      BY <2>1, <3>1, <3>2
  <2>2. ASSUME NEW o \in Opens, FinishClose(o), toAgent'[i].of = o
        PROVE  life'[toAgent'[i].of] = "dead"
    BY <2>2 DEF FinishClose, Inv, TypeOK
  <2> QED
    BY <1>1, <1>9, <2>1, <2>2, AgentFrames, FrameParts
<1>10. ASSUME NEW i \in 1..Len(toBroker'), toBroker'[i].kind = "OPEN"
       PROVE  (\/ /\ resolve[toBroker[i].of] # "stream"
                  /\ ~(loop.at = "ack" /\ loop.of = toBroker[i].of)
               \/ Reused(toBroker[i].of))'
  (* One that was there before: the read loop takes another, if any.       *)
  <2>1. ASSUME NEW o \in Opens, NEW j \in 1..Len(toBroker), toBroker[j].of = o,
               toBroker'[i] = toBroker[j], ~Reused(o)',
               j = i \/ (j = i + 1 /\ Drops(toBroker, toBroker'))
        PROVE  resolve'[o] # "stream" /\ ~(loop'.at = "ack" /\ loop'.of = o)
    <3>1. /\ HasId(o) /\ ~Reused(o) /\ resolve[o] # "stream"
          /\ ~(loop.at = "ack" /\ loop.of = o)
      BY <1>1, <1>10, <2>1, FrameOpens, IdsStay DEF ClosedInv
    <3>2. resolve'[o] # "stream"
      BY <1>1, <3>1 DEF BrokerEvolves, OpensEvolve
    <3>3. ASSUME loop'.at = "ack", loop'.of = o, loop' # loop PROVE FALSE
      <4>1. /\ 1 \in 1..Len(toBroker) /\ Drops(toBroker, toBroker')
            /\ idOf[toBroker[1].of] = idOf[o] /\ toBroker[1].of \in Opens
            /\ toBroker[1].kind = "OPEN"
        BY <1>1, <3>3, Takes DEF Idle
      <4>2. toBroker[1].of = o
        BY <3>1, <4>1 DEF Reused
      <4>3. j = 1
        BY <1>10, <2>1, <4>1, <4>2 DEF ClosedInv
      <4>4. i = 1 /\ toBroker'[1] = toBroker[2] /\ 2 \in 1..Len(toBroker)
        BY <2>1, <4>1, <4>3, Lengths DEF Drops, Inv
      <4> QED
        BY <1>10, <2>1, <4>1, <4>2, <4>4 DEF ClosedInv
    <3> QED
      BY <3>1, <3>2, <3>3
  (* One that the agent has just sent: the open was not known to it.       *)
  <2>2. ASSUME AgentOpen, toBroker'[i].of = toAgent[1].of, ~Reused(toAgent[1].of)
        PROVE  /\ resolve'[toBroker'[i].of] # "stream"
               /\ ~(loop'.at = "ack" /\ loop'.of = toBroker'[i].of)
    <3>1. toAgent[1].of \in Opens /\ HasId(toAgent[1].of) /\ copier[toAgent[1].of] = "none"
      BY <2>2, HeadOpen
    <3>2. resolve' = resolve /\ loop' = loop
      BY <2>2, AgentActions DEF brokerVars
    <3> QED
      BY <2>2, <3>1, <3>2 DEF ClosedInv, EndInv
  <2>3. CASE AgentOpen /\ toBroker'[i] = Frame("OPEN", toAgent[1].id, toAgent[1].of)
    <3>1. PICK o \in Opens : o = toAgent[1].of /\ toBroker'[i].of = o /\ HasId(o)
      BY <2>3, HeadOpen, FrameParts
    <3> QED
      BY <1>1, <2>2, <2>3, <3>1, IdsStay
  <2>4. \/ \E j \in 1..Len(toBroker) : /\ toBroker'[i] = toBroker[j]
                                       /\ j = i \/ (j = i + 1 /\ Drops(toBroker, toBroker'))
        \/ AgentOpen /\ toBroker'[i] = Frame("OPEN", toAgent[1].id, toAgent[1].of)
    BY <1>1, <1>10, BrokerFrames, FrameParts
  <2> QED
    BY <2>1, <2>3, <2>4, FrameOpens
<1>11. ASSUME NEW i \in 1..Len(toBroker'), toBroker'[i].kind = "OPEN",
              NEW k \in 1..Len(toBroker'), toBroker'[k].kind = "OPEN",
              toBroker'[k].of = toBroker'[i].of
       PROVE  k = i
  <2>1. Len(toBroker) \in Nat
    BY Lengths DEF Inv
  <2>2. CASE toBroker' = toBroker
    BY <1>11, <2>2 DEF ClosedInv
  <2>3. CASE Drops(toBroker, toBroker')
    <3>1. /\ i + 1 \in 1..Len(toBroker) /\ toBroker'[i] = toBroker[i + 1]
          /\ k + 1 \in 1..Len(toBroker) /\ toBroker'[k] = toBroker[k + 1]
      BY <2>1, <2>3 DEF Drops
    <3>2. i + 1 = k + 1
      BY <1>11, <3>1 DEF ClosedInv
    <3> QED
      BY <3>2
  <2>4. CASE AgentOpen /\ Adds(toBroker, toBroker', Frame("OPEN", toAgent[1].id, toAgent[1].of))
    <3>1. toBroker'[Len(toBroker) + 1].of = toAgent[1].of
      BY <2>4, FrameParts DEF Adds
    <3>2. \A j \in 1..Len(toBroker) : toBroker[j].of # toAgent[1].of
      BY <2>4, HeadOpen
    <3>3. \A j \in 1..Len(toBroker') :
            j = Len(toBroker) + 1 \/ (j \in 1..Len(toBroker) /\ toBroker'[j] = toBroker[j])
      BY <2>1, <2>4 DEF Adds
    <3> QED
      BY <1>11, <3>1, <3>2, <3>3 DEF ClosedInv
  <2>5. ASSUME NEW f, f.kind # "OPEN", Adds(toBroker, toBroker', f) PROVE k = i
    <3>1. \A j \in 1..Len(toBroker') :
            toBroker'[j] = f \/ (j \in 1..Len(toBroker) /\ toBroker'[j] = toBroker[j])
      BY <2>1, <2>5 DEF Adds
    <3> QED
      BY <1>11, <2>5, <3>1 DEF ClosedInv
  <2> QED
    BY <1>1, <2>2, <2>3, <2>4, <2>5, FrameParts DEF BrokerQueue
<1> QED
  BY <1>3, <1>4, <1>5, <1>6, <1>7, <1>8, <1>9, <1>10, <1>11 DEF ClosedInv

(* Nobody forgets an open that waits.                                      *)
LEMMA ResolverStep ==
  ASSUME Inv, OriginInv, ClosedInv, OpenHasResolver, [Next]_vars PROVE OpenHasResolver'
<1>1. Inv' /\ BrokerEvolves
  BY InvStep, BrokerSteps
<1> DEFINE Expected(o) == pending[idOf[o]] = o \/ (loop.at = "ack" /\ loop.of = o)
                          \/ Reused(o)
<1> SUFFICES ASSUME NEW o \in Opens, client'[o] \in {"allocated", "waiting"},
                    resolve'[o] = "empty"
             PROVE  Expected(o)'
  BY DEF OpenHasResolver
<1>2. resolve[o] = "empty"
  BY <1>1 DEF BrokerEvolves, OpensEvolve
<1>3. ASSUME client[o] \in {"allocated", "waiting"}
      PROVE  /\ HasId(o) /\ idOf'[o] = idOf[o]
             /\ Expected(o)
             /\ Reused(o) => Expected(o)'
             /\ \A p \in Opens : idOf[p] = idOf[o] /\ p # o => Expected(o)'
  <2>1. HasId(o)
    BY <1>3 DEF Inv, IdInv
  <2> QED
    BY <1>1, <1>2, <1>3, <2>1, IdsStay DEF OpenHasResolver
<1>4. ASSUME client[o] \in {"allocated", "waiting"},
             pending'[idOf[o]] = pending[idOf[o]] \/ pending[idOf[o]] # o,
             loop' = loop \/ loop.at # "ack" \/ loop.of # o
      PROVE  Expected(o)'
  BY <1>3, <1>4
<1>5. ASSUME NEW p \in Opens, Allocate(p) PROVE Expected(o)'
  <2>1. CASE p = o
    <3>1. \E id \in Ids : /\ pending' = [pending EXCEPT ![id] = o]
                          /\ idOf'    = [idOf    EXCEPT ![o] = id]
      BY <1>5, <2>1, Allocated DEF Inv, TypeOK
    <3> QED
      BY <3>1 DEF Inv, TypeOK
  <2>2. CASE p # o
    <3>1. client[o] \in {"allocated", "waiting"} /\ loop' = loop
      BY <1>5, <2>2, Allocated DEF Inv, TypeOK
    <3>2. pending'[idOf[o]] = pending[idOf[o]] \/ pending[idOf[o]] = None
      BY <1>3, <1>5, <3>1, Allocated, SMTT(60) DEF Inv, TypeOK, HasId
    <3> QED
      BY <1>4, <3>1, <3>2, Parameters
  <2> QED
    BY <2>1, <2>2
<1>6. ASSUME NEW p \in Opens, SendOpen(p) PROVE Expected(o)'
  <2>1. client[o] \in {"allocated", "waiting"} /\ loop' = loop
    BY <1>6 DEF SendOpen, Inv, TypeOK
  <2>2. CASE idOf[p] # idOf[o]
    <3>1. pending'[idOf[o]] = pending[idOf[o]]
      BY <1>3, <1>6, <2>1, <2>2 DEF SendOpen, Inv, TypeOK, HasId
    <3> QED
      BY <1>4, <2>1, <3>1
  <2>3. CASE p = o
    <3>1. pending' = pending
      BY <1>6, <2>3 DEF SendOpen, Inv, TypeOK
    <3> QED
      BY <1>4, <2>1, <3>1
  <2> QED
    BY <1>3, <2>1, <2>2, <2>3
<1>7. ASSUME NEW p \in Opens, OpenTimeout(p) PROVE Expected(o)'
  <2>1. client[o] \in {"allocated", "waiting"} /\ loop' = loop /\ p # o
    BY <1>7 DEF OpenTimeout, Inv, TypeOK
  <2>2. CASE idOf[p] # idOf[o]
    <3>1. pending'[idOf[o]] = pending[idOf[o]]
      BY <1>3, <1>7, <2>1, <2>2 DEF OpenTimeout, Inv, TypeOK, HasId
    <3> QED
      BY <1>4, <2>1, <3>1
  <2> QED
    BY <1>3, <2>1, <2>2
<1>8. CASE TakeAck
  <2>1. client[o] \in {"allocated", "waiting"} /\ loop = Idle /\ loop.at # "ack"
    BY <1>8 DEF TakeAck, Receives, Idle
  <2>2. Head(toBroker).id \in Ids
    BY <1>8, Reads DEF TakeAck, Inv
  <2>3. CASE Head(toBroker).id # idOf[o] \/ pending[Head(toBroker).id] = None
    <3>1. pending'[idOf[o]] = pending[idOf[o]] \/ pending[idOf[o]] # o
      BY <1>3, <1>8, <2>1, <2>2, <2>3, Parameters DEF TakeAck, Inv, TypeOK, HasId
    <3> QED
      BY <1>4, <2>1, <3>1
  <2>4. CASE Head(toBroker).id = idOf[o] /\ pending[Head(toBroker).id] # None
    <3>1. pending[idOf[o]] = o => loop'.at = "ack" /\ loop'.of = o
      BY <1>8, <2>4 DEF TakeAck
    <3> QED
      BY <1>3, <2>1, <3>1
  <2> QED
    BY <2>3, <2>4
<1>9. CASE FinishAck
  <2>1. client[o] \in {"allocated", "waiting"} /\ pending' = pending /\ loop.of # o
    BY <1>9 DEF FinishAck, Inv, TypeOK, PendingInv
  <2> QED
    BY <1>4, <2>1
<1>10. CASE TakeClose
  <2>1. /\ client[o] \in {"allocated", "waiting"} /\ loop.at # "ack"
        /\ Head(toBroker).id \in Ids
    BY <1>10, Reads DEF TakeClose, Receives, Idle, Inv
  <2>2. pending'[idOf[o]] = pending[idOf[o]] \/ pending[idOf[o]] # o
    <3>1. CASE pending' = pending
      BY <3>1
    <3>2. CASE /\ pending' = [pending EXCEPT ![Head(toBroker).id] = None]
               /\ resolve' = [q \in Opens |-> IF q = pending[Head(toBroker).id] THEN "nil"
                                              ELSE resolve[q]]
      <4>1. pending[Head(toBroker).id] # o
        BY <3>2
      <4> QED
        BY <1>3, <2>1, <3>2, <4>1 DEF Inv, TypeOK, HasId
    <3> QED
      BY <1>10, <3>1, <3>2 DEF TakeClose
  <2> QED
    BY <1>4, <2>1, <2>2
<1>11. CASE FinishReap
  <2>1. client' = client /\ pending' = pending /\ loop.at # "ack"
    BY <1>11 DEF FinishReap
  <2> QED
    BY <1>4, <2>1
<1>12. CASE SwapMaps
  <2>1. client[o] \in {"allocated", "waiting"} /\ loop' = loop
    BY <1>12 DEF SwapMaps
  <2>2. pending[idOf[o]] # o
    BY <1>3, <1>12, <2>1 DEF SwapMaps, HasId
  <2> QED
    BY <1>4, <2>1, <2>2
<1>13. ASSUME UNCHANGED <<pending, loop>>,
              client'[o] = client[o] \/ client'[o] \notin {"allocated", "waiting"}
       PROVE  Expected(o)'
  BY <1>4, <1>13
<1>14. ASSUME NEW p \in Opens, \/ Resolve(p) \/ ClientData(p) \/ BeginClose(p)
                               \/ FinishClose(p) \/ ReadEnd(p) \/ Destroy(p)
       PROVE  Expected(o)'
  BY <1>13, <1>14 DEF Resolve, ClientData, BeginClose, FinishClose, ReadEnd, Destroy,
                      brokerVars, Inv, TypeOK
<1>15. CASE TakeData \/ BeginDrop \/ CloseSocket
  BY <1>13, <1>15 DEF TakeData, BeginDrop, CloseSocket, brokerVars
<1>16. CASE \/ AgentOpen \/ AgentData \/ AgentClose \/ AgentDrops
            \/ \E p \in Opens : CopierReads(p) \/ CopierSends(p) \/ CopierEnds(p)
                                \/ ServiceCloses(p)
  BY <1>13, <1>16, AgentActions DEF brokerVars
<1>17. CASE UNCHANGED vars
  BY <1>13, <1>17 DEF vars
<1> HIDE DEF Expected
<1> QED
  BY <1>5, <1>6, <1>7, <1>8, <1>9, <1>10, <1>11, <1>12, <1>14, <1>15, <1>16, <1>17
  DEF Next, ProxyStep, ReadLoop, DropStep, AgentLoop, CopierStep

(* Nobody forgets a stream that has not been closed.                       *)
LEMMA FiledStep ==
  ASSUME Inv, OriginInv, EndInv, ClosedInv, LiveStreamIsFiled, [Next]_vars
  PROVE  LiveStreamIsFiled'
<1>1. Inv' /\ BrokerEvolves
  BY InvStep, BrokerSteps
<1> SUFFICES ASSUME NEW o \in Opens, resolve'[o] = "stream", life'[o] = "live",
                    ~Reused(o)', o \notin doomed'
             PROVE  \/ streams'[idOf'[o]] = o
                    \/ loop'.at = "reap" /\ loop'.of = o
  BY DEF LiveStreamIsFiled
<1>2. life[o] = "live"
  BY <1>1 DEF BrokerEvolves, OpensEvolve
<1>3. CASE loop.at = "ack" /\ loop.of = o /\ streams'[idOf[o]] = o
  BY <1>1, <1>3, IdsStay DEF OriginInv
<1>4. CASE resolve[o] = "stream"
  <2>1. /\ HasId(o) /\ idOf'[o] = idOf[o] /\ ~Reused(o)
        /\ \A p \in Opens : idOf[p] = idOf[o] => p = o
    BY <1>1, <1>4, IdsStay DEF ClosedInv
  <2>2. o \notin doomed
    BY <1>1 DEF BrokerEvolves, EndInv
  <2>3. CASE loop.at = "reap" /\ loop.of = o
    BY <1>1, <2>3 DEF BrokerEvolves, LoopEvolves, Idle
  <2>4. CASE streams[idOf[o]] = o
    <3>1. CASE loop.at = "ack" /\ idOf[loop.of] = idOf[o] /\ streams'[idOf[o]] = loop.of
      BY <2>1, <3>1 DEF Inv, PendingInv
    <3>2. CASE loop' = [at |-> "reap", of |-> o]
      BY <3>2
    <3> QED
      BY <1>1, <2>1, <2>4, <3>1, <3>2, Parameters DEF BrokerEvolves, StreamsEvolve, HasId
  <2> QED
    BY <1>2, <1>4, <2>1, <2>2, <2>3, <2>4 DEF LiveStreamIsFiled
<1> QED
  BY <1>1, <1>3, <1>4 DEF BrokerEvolves, OpensEvolve

(* How a socket comes to be shut while the tunnel is up: its own copier    *)
(* ends and sends CLOSE, the stream has been closed, or HandleData gives   *)
(* up; anything else that closes it has the same id.                       *)
LEMMA Shutting ==
  ASSUME Inv, OriginInv, DialInv, ReportInv, ClosedInv, [Next]_vars, NEW o \in Opens,
         local[o] # "shut", local'[o] = "shut", link' = "up", agentUp', ~Reused(o),
         o \notin gaveUp'
  PROVE  /\ HasId(o) /\ UNCHANGED brokerVars
         /\ \/ Adds(toBroker, toBroker', Frame("CLOSE", idOf[o], o))
            \/ life[o] = "dead"
<1> USE DEF Inv, TypeOK
<1>1. \A id \in Ids : sockets[id] = o => HasId(o) /\ idOf[o] = id
  BY Parameters DEF OriginInv, HasId
<1>2. \A p \in Opens : idOf[p] = idOf[o] => p = o
  BY DEF Reused
<1>3. link = "up" /\ agentUp
  BY BrokerSteps, AgentSteps DEF BrokerEvolves, AgentEvolves
<1>4. CASE AgentOpen
  <2> DEFINE id == Head(toAgent).id
             p  == Head(toAgent).of
  <2>1. /\ id = toAgent[1].id /\ p = toAgent[1].of /\ p \in Opens /\ id \in Ids
        /\ idOf[p] = id /\ local[p] = "none"
    BY <1>4, HeadOpen, Receipt DEF AgentOpen
  <2>2. \/ local' = local
        \/ local' = [q \in Opens |-> IF q = p THEN "open"
                                     ELSE IF q = sockets[id] THEN "shut" ELSE local[q]]
    BY <1>3, <1>4 DEF AgentOpen
  <2>3. p # o /\ sockets[id] = o
    BY <2>1, <2>2
  <2> QED
    BY <1>1, <1>2, <2>1, <2>3
<1>5. CASE AgentData
  BY <1>5 DEF AgentData, RemoveAndClose
<1>6. CASE AgentClose
  <2>1. /\ Head(toAgent) = toAgent[1] /\ toAgent[1].kind = "CLOSE" /\ toAgent[1].id \in Ids
        /\ 1 \in 1..Len(toAgent) /\ toAgent[1].of \in Opens
    BY <1>6, Receipt, Reads DEF AgentClose
  <2>2. sockets[toAgent[1].id] = o
    BY <1>6, <2>1 DEF AgentClose, RemoveAndClose
  <2>3. HasId(o) /\ idOf[toAgent[1].of] = idOf[o]
    BY <1>1, <2>1, <2>2 DEF OriginInv
  <2>4. toAgent[1].of = o
    BY <1>2, <2>1, <2>3
  <2> QED
    BY <1>6, <2>1, <2>3, <2>4 DEF AgentClose, ClosedInv
<1>7. CASE AgentDrops
  BY <1>7 DEF AgentDrops
<1>8. ASSUME NEW p \in Opens, CopierEnds(p)
      PROVE  /\ HasId(o) /\ UNCHANGED brokerVars
             /\ Adds(toBroker, toBroker', Frame("CLOSE", idOf[o], o))
  <2>1. p = o
    BY <1>8 DEF CopierEnds
  <2>2. local[o] = "reset" /\ HasId(o)
    BY <1>8, <2>1 DEF CopierEnds, IdInv
  <2>3. sockets[idOf[o]] = o
    BY <1>3, <2>2 DEF ReportInv
  <2>4. toBroker' = ToBroker("CLOSE", idOf[o], o)
    BY <1>3, <1>8, <2>1, <2>3, Parameters DEF CopierEnds
  <2> QED
    BY <1>3, <1>8, <2>2, <2>4, Sends, ZenonT(60) DEF CopierEnds
<1>9. ASSUME NEW p \in Opens, CopierSends(p) PROVE FALSE
  BY <1>3, <1>9 DEF CopierSends
<1>10. ASSUME NEW p \in Opens, CopierReads(p) \/ ServiceCloses(p) PROVE FALSE
  BY <1>10, ZenonT(60) DEF CopierReads, ServiceCloses
<1>11. CASE UNCHANGED agentVars
  BY <1>11 DEF agentVars
<1>12. CASE UNCHANGED vars
  BY <1>12 DEF vars
<1> QED
  BY <1>4, <1>5, <1>6, <1>7, <1>8, <1>9, <1>10, <1>11, <1>12, BrokerActions
  DEF Next, ProxyStep, ReadLoop, DropStep, AgentLoop, CopierStep

(* A CLOSE frame in flight stays there until the read loop takes it.       *)
LEMMA CloseStays ==
  ASSUME Inv, BrokerQueue, link' # "down", NEW i \in 1..Len(toBroker),
         ~(i = 1 /\ Drops(toBroker, toBroker'))
  PROVE  \/ i \in 1..Len(toBroker') /\ toBroker'[i] = toBroker[i]
            /\ ~Drops(toBroker, toBroker')
         \/ i - 1 \in 1..Len(toBroker') /\ toBroker'[i - 1] = toBroker[i]
            /\ Drops(toBroker, toBroker')
<1>1. Len(toBroker) \in Nat
  BY Lengths DEF Inv
<1>2. CASE Drops(toBroker, toBroker')
  <2>1. Len(toBroker') = Len(toBroker) - 1
    BY <1>1, <1>2, Lengths DEF Drops, BrokerQueue, Inv
  <2>2. i - 1 \in 1..Len(toBroker')
    BY <1>1, <1>2, <2>1
  <2>3. toBroker'[i - 1] = toBroker[i]
    BY <1>1, <1>2, <2>2 DEF Drops
  <2> QED
    BY <1>2, <2>2, <2>3
<1>3. CASE ~Drops(toBroker, toBroker')
  <2>1. ASSUME NEW f, Adds(toBroker, toBroker', f)
        PROVE  i \in 1..Len(toBroker') /\ toBroker'[i] = toBroker[i]
    BY <1>1, <2>1 DEF Adds
  <2> QED
    BY <1>3, <2>1 DEF BrokerQueue
<1> QED
  BY <1>2, <1>3

(* A socket that is open was open before, with its copier at work, or has  *)
(* just been dialled; what removes it from the map closes it, or belongs   *)
(* to an open with the same id.                                            *)
LEMMA Watching ==
  ASSUME Inv, OriginInv, DialInv, ReportInv, ClosedInv, [Next]_vars, NEW o \in Opens,
         local'[o] \in {"open", "reset"}, agentUp'
  PROVE  copier'[o] \in {"reading", "holding"} /\ (sockets[idOf[o]] = o \/ Reused(o))'
<1> USE DEF Inv, TypeOK
<1>1. BrokerEvolves /\ agentUp
  BY BrokerSteps, AgentSteps DEF AgentEvolves
<1>2. ASSUME local[o] \in {"open", "reset"}
      PROVE  /\ HasId(o) /\ idOf'[o] = idOf[o]
             /\ copier[o] \in {"reading", "holding"}
             /\ sockets[idOf[o]] = o \/ Reused(o)'
             /\ \A p \in Opens : idOf[p] = idOf[o] => p = o \/ Reused(o)'
  <2>1. HasId(o) /\ copier[o] \in {"reading", "holding"} /\ (sockets[idOf[o]] = o \/ Reused(o))
    BY <1>1, <1>2 DEF ReportInv, OriginInv
  <2> QED
    BY <1>1, <2>1, IdsStay
<1>3. ASSUME UNCHANGED agentVars PROVE local[o] \in {"open", "reset"} /\ UNCHANGED agentVars
  BY <1>3 DEF agentVars
<1>4. CASE UNCHANGED agentVars
  BY <1>2, <1>3, <1>4 DEF agentVars
<1>5. ASSUME NEW p \in Opens, CopierReads(p) \/ CopierSends(p) \/ ServiceCloses(p)
      PROVE  copier'[o] \in {"reading", "holding"} /\ (sockets[idOf[o]] = o \/ Reused(o))'
  <2>1. local[o] \in {"open", "reset"} /\ UNCHANGED sockets
    BY <1>1, <1>5 DEF CopierReads, CopierSends, ServiceCloses
  <2>2. copier'[o] \in {"reading", "holding"}
    BY <1>1, <1>2, <1>5, <2>1 DEF CopierReads, CopierSends, ServiceCloses
  <2> QED
    BY <1>2, <2>1, <2>2
<1>6. ASSUME NEW p \in Opens, CopierEnds(p)
      PROVE  copier'[o] \in {"reading", "holding"} /\ (sockets[idOf[o]] = o \/ Reused(o))'
  <2>1. p # o /\ local[o] \in {"open", "reset"} /\ copier'[o] = copier[o]
    BY <1>6 DEF CopierEnds
  <2>2. idOf[p] # idOf[o] => sockets'[idOf[o]] = sockets[idOf[o]]
    BY <1>2, <1>6, <2>1 DEF CopierEnds, HasId
  <2> QED
    BY <1>2, <2>1, <2>2
<1>7. CASE AgentOpen
  <2> DEFINE id == Head(toAgent).id
             p  == Head(toAgent).of
  <2>1. /\ p \in Opens /\ id \in Ids /\ idOf[p] = id /\ HasId(p) /\ local[p] = "none"
    BY <1>7, HeadOpen, Receipt DEF AgentOpen
  <2>2. idOf' = idOf
    BY <1>7 DEF AgentOpen, brokerVars
  <2>3. CASE o = p
    <3>1. sockets' = [sockets EXCEPT ![id] = p] /\ copier' = [copier EXCEPT ![p] = "reading"]
      BY <1>7, <2>1, <2>3 DEF AgentOpen
    <3> QED
      BY <2>1, <2>2, <2>3, <3>1
  <2>4. CASE o # p
    <3>1. local[o] \in {"open", "reset"} /\ copier'[o] = copier[o]
      BY <1>7, <2>1, <2>4 DEF AgentOpen
    <3>2. id # idOf[o] => sockets'[idOf[o]] = sockets[idOf[o]]
      BY <1>2, <1>7, <2>1, <3>1 DEF AgentOpen, HasId
    <3> QED
      BY <1>2, <2>1, <2>4, <3>1, <3>2
  <2> QED
    BY <2>3, <2>4
<1>8. ASSUME AgentData \/ AgentClose
      PROVE  copier'[o] \in {"reading", "holding"} /\ (sockets[idOf[o]] = o \/ Reused(o))'
  <2> DEFINE id == Head(toAgent).id
  <2>1. id \in Ids /\ copier' = copier
    BY <1>8, Reads DEF AgentData, AgentClose
  <2>2. CASE UNCHANGED <<sockets, local>>
    BY <1>2, <2>1, <2>2
  <2>3. CASE RemoveAndClose(id)
    <3>1. local[o] \in {"open", "reset"} /\ sockets[id] # o
      BY <2>3 DEF RemoveAndClose
    <3>2. sockets[idOf[o]] = o => sockets'[idOf[o]] = o
      BY <1>2, <2>1, <2>3, <3>1 DEF RemoveAndClose, HasId
    <3> QED
      BY <1>2, <2>1, <3>1, <3>2
  <2> QED
    BY <1>8, <2>2, <2>3 DEF AgentData, AgentClose
<1>9. CASE AgentDrops
  BY <1>9 DEF AgentDrops
<1>10. CASE UNCHANGED vars
  BY <1>4, <1>10 DEF vars, agentVars
<1> QED
  BY <1>4, <1>5, <1>6, <1>7, <1>8, <1>9, <1>10, BrokerActions
  DEF Next, ProxyStep, ReadLoop, DropStep, AgentLoop, CopierStep

(* A socket that has been dialled has had its id all along.                *)
LEMMA Asking ==
  ASSUME Inv, OriginInv, DialInv, ClosedInv, [Next]_vars, NEW o \in Opens, local'[o] # "none"
  PROVE  HasId(o)
<1>1. AgentEvolves
  BY AgentSteps
<1>2. \A id \in Ids : sockets[id] = o => HasId(o)
  BY Parameters DEF OriginInv, HasId
<1>3. AgentOpen /\ o = toAgent[1].of => HasId(o)
  BY HeadOpen
<1>4. local[o] # "none" \/ copier[o] # "none" => HasId(o)
  BY DEF OriginInv, Inv, IdInv
<1> QED
  BY <1>1, <1>2, <1>3, <1>4 DEF AgentEvolves

(* The end of a socket is not lost on its way to the broker.               *)
LEMMA ReportStep ==
  ASSUME Inv, OriginInv, DialInv, EndInv, ClosedInv, ReportInv, [Next]_vars
  PROVE  ReportInv'
<1>1. /\ Inv' /\ OriginInv' /\ ClosedInv'
      /\ BrokerEvolves /\ AgentEvolves /\ BrokerQueue
      /\ Len(toBroker) \in Nat /\ Len(toBroker') \in Nat
  <2>1. Inv'
    BY InvStep
  <2>2. (Len(toBroker) \in Nat)'
    BY <2>1, Lengths, PTL DEF Inv
  <2> QED
    BY <2>1, <2>2, OriginStep, ClosedStep, BrokerSteps, AgentSteps, BrokerQueueSteps, Lengths
    DEF Inv
<1> DEFINE Reported(o) == \E i \in 1..Len(toBroker) :
                            toBroker[i].kind = "CLOSE" /\ toBroker[i].of = o
           Follows(i, o) == \E j \in (i + 1)..Len(toBroker) :
                              toBroker[j].kind = "CLOSE" /\ toBroker[j].of = o
           Held(o) == streams[idOf[o]] = o \/ (loop.at = "ack" /\ loop.of = o)
<1>2. ASSUME link' = "up", agentUp', NEW o \in Opens, Lost(o)', HasId(o)
      PROVE  /\ link = "up" /\ agentUp /\ o \notin gaveUp /\ ~Reused(o) /\ idOf'[o] = idOf[o]
             /\ \A p \in Opens : idOf[p] = idOf[o] => p = o
             /\ local[o] = "shut" => Lost(o)
  <2>1. Reused(o) => Reused(o)'
    BY <1>1, <1>2, IdsStay
  <2> QED
    BY <1>1, <1>2, <2>1, IdsStay DEF Lost, AgentEvolves, BrokerEvolves, Reused
(* A stream that has lost its socket, or has just lost it.                 *)
<1>3. ASSUME link' = "up", agentUp', NEW o \in Opens, Lost(o)', Held(o)'
      PROVE  Reported(o)'
  <2>1. HasId(o) /\ idOf'[o] = idOf[o] /\ o # None
    <3>1. HasId(o)'
      BY <1>1, <1>3 DEF Lost, OriginInv
    <3>2. HasId(o)
      BY <1>3, Asking DEF Lost
    <3> QED
      BY <1>2, <1>3, <3>2, Parameters
  <2>2. link = "up" /\ agentUp /\ ~Reused(o) /\ (local[o] = "shut" => Lost(o))
    BY <1>2, <1>3, <2>1
  <2>3. CASE local[o] = "shut" /\ Held(o)
    <3>1. PICK i \in 1..Len(toBroker) : toBroker[i].kind = "CLOSE" /\ toBroker[i].of = o
      BY <2>2, <2>3 DEF ReportInv, SocketEndIsReported
    <3>2. CASE i = 1 /\ Drops(toBroker, toBroker')
      <4>1. TakeClose /\ loop = Idle
        BY <1>1, <1>3, <3>1, <3>2 DEF BrokerQueue, Drops, Adds
      <4>2. Head(toBroker).id = idOf[o]
        BY <3>1, <3>2, <4>1, Receipt DEF TakeClose, OriginInv, Inv
      <4>3. streams[idOf[o]] = o
        BY <2>3, <4>1 DEF Idle
      <4>4. streams'[idOf[o]] = None /\ loop'.at = "reap"
        BY <2>1, <4>1, <4>2, <4>3 DEF TakeClose, Inv, TypeOK, HasId
      <4> QED
        BY <1>3, <2>1, <4>4
    <3>3. CASE ~(i = 1 /\ Drops(toBroker, toBroker'))
      BY <1>1, <1>3, <3>1, <3>3, CloseStays
    <3> QED
      BY <3>2, <3>3
  <2>4. CASE local[o] = "shut" /\ ~Held(o)
    <3>1. ~(streams'[idOf[o]] = o)
      BY <1>1, <2>1, <2>4 DEF BrokerEvolves, StreamsEvolve, HasId
    <3>2. loop'.at = "ack" /\ loop'.of = o /\ loop' # loop
      BY <1>3, <2>1, <2>4, <3>1
    <3>3. /\ 1 \in 1..Len(toBroker) /\ Drops(toBroker, toBroker')
          /\ idOf[toBroker[1].of] = idOf[o] /\ toBroker[1].of \in Opens
          /\ toBroker[1].kind = "OPEN"
      BY <1>1, <3>2, Takes DEF Idle
    <3>4. toBroker[1].of = o
      BY <2>2, <3>3 DEF Reused
    <3>5. PICK j \in (1 + 1)..Len(toBroker) : toBroker[j].kind = "CLOSE" /\ toBroker[j].of = o
      BY <2>2, <2>4, <3>3, <3>4 DEF ReportInv
    <3> QED
      BY <1>1, <1>3, <3>5, CloseStays
  <2>5. CASE local[o] # "shut"
    <3>1. /\ UNCHANGED brokerVars
          /\ Adds(toBroker, toBroker', Frame("CLOSE", idOf[o], o)) \/ life[o] = "dead"
      BY <1>3, <2>2, <2>5, Shutting DEF Lost
    <3>2. life[o] # "dead"
      <4>1. Held(o)
        BY <1>3, <3>1 DEF brokerVars
      <4>2. loop.at = "ack" /\ loop.of = o => resolve[o] # "stream"
        BY DEF Inv, PendingInv, AckNeverBlocks
      <4> QED
        BY <2>2, <4>1, <4>2 DEF ClosedInv
    <3>3. /\ toBroker'[Len(toBroker) + 1].kind = "CLOSE"
          /\ toBroker'[Len(toBroker) + 1].of = o
          /\ Len(toBroker) + 1 \in 1..Len(toBroker')
      BY <1>1, <3>1, <3>2, FrameParts DEF Adds
    <3> QED
      BY <3>3
  <2> QED
    BY <2>3, <2>4, <2>5
(* The same of a socket whose ack is in flight.                            *)
<1>4. ASSUME link' = "up", agentUp', NEW i \in 1..Len(toBroker'), NEW o \in Opens,
             toBroker'[i].kind = "OPEN", toBroker'[i].of = o, Lost(o)'
      PROVE  Follows(i, o)'
  <2>1. HasId(o) /\ idOf'[o] = idOf[o]
    <3>1. HasId(o)'
      BY <1>1, <1>4 DEF Lost, OriginInv
    <3>2. HasId(o)
      BY <1>4, Asking DEF Lost
    <3> QED
      BY <1>2, <1>4, <3>2
  <2>2. link = "up" /\ agentUp /\ ~Reused(o) /\ (local[o] = "shut" => Lost(o))
    BY <1>2, <1>4, <2>1
  <2>3. \/ \E j \in 1..Len(toBroker) :
              /\ toBroker[j] = toBroker'[i]
              /\ \/ j = i /\ ~Drops(toBroker, toBroker')
                 \/ j = i + 1 /\ Drops(toBroker, toBroker')
        \/ AgentOpen /\ o = toAgent[1].of
    BY <1>1, <1>4, BrokerFrames, FrameParts
  <2>4. CASE local[o] = "shut"
    <3>1. PICK j \in 1..Len(toBroker) :
              /\ toBroker[j] = toBroker'[i]
              /\ \/ j = i /\ ~Drops(toBroker, toBroker')
                 \/ j = i + 1 /\ Drops(toBroker, toBroker')
      BY <2>3, <2>4, HeadOpen
    <3>2. PICK k \in (j + 1)..Len(toBroker) : toBroker[k].kind = "CLOSE" /\ toBroker[k].of = o
      BY <1>4, <2>2, <2>4, <3>1 DEF ReportInv
    <3>3. k \in 1..Len(toBroker) /\ k # 1 /\ k > j
      BY <1>1, <3>1, <3>2
    <3>4. \/ k \in 1..Len(toBroker') /\ toBroker'[k] = toBroker[k] /\ ~Drops(toBroker, toBroker')
          \/ k - 1 \in 1..Len(toBroker') /\ toBroker'[k - 1] = toBroker[k]
             /\ Drops(toBroker, toBroker')
      BY <1>1, <1>4, <3>3, CloseStays
    <3>5. \/ k \in (i + 1)..Len(toBroker') /\ toBroker'[k] = toBroker[k]
          \/ k - 1 \in (i + 1)..Len(toBroker') /\ toBroker'[k - 1] = toBroker[k]
      BY <1>1, <3>1, <3>3, <3>4
    <3> QED
      BY <3>2, <3>5
  <2>5. CASE local[o] # "shut"
    <3>1. \/ Adds(toBroker, toBroker', Frame("CLOSE", idOf[o], o))
          \/ life[o] = "dead"
      BY <1>4, <2>2, <2>5, Shutting DEF Lost
    <3>2. life[o] # "dead"
      <4>1. SUFFICES ASSUME life[o] = "dead" PROVE FALSE
        OBVIOUS
      <4>2. resolve[o] = "stream" /\ copier[o] # "none"
        BY <2>2, <4>1 DEF ClosedInv
      <4> QED
        BY <1>4, <2>2, <2>3, <4>2, HeadOpen DEF ClosedInv
    <3>3. /\ toBroker'[Len(toBroker) + 1].kind = "CLOSE"
          /\ toBroker'[Len(toBroker) + 1].of = o
          /\ Len(toBroker') = Len(toBroker) + 1
      BY <3>1, <3>2, FrameParts DEF Adds
    <3>4. i # Len(toBroker) + 1
      BY <1>4, <3>3
    <3>5. Len(toBroker) + 1 \in (i + 1)..Len(toBroker')
      BY <1>1, <3>3, <3>4
    <3> QED
      BY <3>3, <3>5
  <2> QED
    BY <2>4, <2>5
(* An open socket stays filed, and watched by its copier.                  *)
<1>5. (link = "up" /\ agentUp => \A o \in Opens : Lost(o) /\ Held(o) => Reported(o))'
  BY <1>3
<1>6. \A i \in 1..Len(toBroker') : toBroker'[i].of \in Opens
  <2>1. toBroker' \in Seq(Frames)
    BY <1>1 DEF Inv, TypeOK
  <2> QED
    BY <2>1, FrameFields
<1>7. (link = "up" /\ agentUp =>
         \A i \in 1..Len(toBroker) : toBroker[i].kind = "OPEN" /\ Lost(toBroker[i].of) =>
           Follows(i, toBroker[i].of))'
  BY <1>4, <1>6
<1>8. (agentUp => \A o \in Opens : local[o] \in {"open", "reset"} =>
         copier[o] \in {"reading", "holding"} /\ (sockets[idOf[o]] = o \/ Reused(o)))'
  BY Watching
<1> QED
  BY <1>5, <1>7, <1>8 DEF ReportInv, SocketEndIsReported

-----------------------------------------------------------------------------
(* The inductive invariant of both ends: what is known of the broker, of   *)
(* the agent and of the frames between them.                               *)
EndsInv ==
  /\ Inv /\ OriginInv /\ DialInv /\ EndInv /\ ClosedInv
  /\ OpenHasResolver /\ LiveStreamIsFiled /\ ReportInv

LEMMA EndsInit == Init => EndsInv
<1> SUFFICES ASSUME Init PROVE EndsInv
  OBVIOUS
<1> USE Parameters DEF Init, Idle
<1>1. Inv
  BY InvInit
<1>2. OriginInv /\ DialInv
  BY DEF OriginInv, DialInv
<1>3. EndInv /\ ClosedInv
  BY DEF EndInv, ClosedInv
<1>4. OpenHasResolver /\ LiveStreamIsFiled
  BY DEF OpenHasResolver, LiveStreamIsFiled
<1>5. ReportInv
  BY DEF ReportInv, SocketEndIsReported, Lost
<1> QED
  BY <1>1, <1>2, <1>3, <1>4, <1>5 DEF EndsInv

(* Every reachable state of the tunnel satisfies it.                       *)
THEOREM EndsInvariance == Spec => []EndsInv
<1>1. EndsInv /\ [Next]_vars => EndsInv'
  BY InvStep, OriginStep, DialStep, EndStep, ClosedStep, ResolverStep, FiledStep, ReportStep
  DEF EndsInv
<1> QED
  BY <1>1, EndsInit, PTL DEF Spec

(* While the tunnel is up, the broker's read loop closes a stream its      *)
(* client has not closed only for a CLOSE that the agent sent because it   *)
(* closed the stream's socket, or for another open with the same id; and   *)
(* closeTransport closes none before the tunnel has gone.                  *)
THEOREM OnlyItsSocketEndsStreamHolds == Spec => OnlyItsSocketEndsStream
<1> DEFINE Kept == \A o \in Opens :
                     /\ link = "up" /\ agentUp
                     /\ life[o] = "live" /\ life'[o] = "dead"
                     => \/ local[o] = "shut"
                        \/ Reused(o)
<1>1. EndsInv /\ [Next]_vars => Kept
  <2> SUFFICES ASSUME EndsInv, [Next]_vars, NEW o \in Opens, link = "up",
                      life[o] = "live", life'[o] = "dead"
               PROVE  local[o] = "shut" \/ Reused(o)
    OBVIOUS
  <2>1. (loop.at = "reap" /\ loop.of = o) \/ o \in doomed
    BY BrokerSteps DEF EndsInv, BrokerEvolves, OpensEvolve
  <2> QED
    BY <2>1 DEF EndsInv, EndInv
<1> QED
  BY <1>1, EndsInvariance, PTL DEF Spec, OnlyItsSocketEndsStream

(* openStream never waits for an answer that nobody is going to give: the  *)
(* open is pending, for the ack, a CLOSE, its timer or closeTransport to   *)
(* take, or handleOpenAck has taken it and is about to resolve it.         *)
THEOREM OpenHasResolverHolds == Spec => []OpenHasResolver
<1>1. EndsInv => OpenHasResolver
  BY DEF EndsInv
<1> QED
  BY <1>1, EndsInvariance, PTL

(* A stream openStream has handed to a proxy and that nobody has closed is *)
(* in the broker's map, in the hands of handleClose or among the streams   *)
(* closeTransport took out: it cannot be left running and forgotten.       *)
THEOREM LiveStreamIsFiledHolds == Spec => []LiveStreamIsFiled
<1>1. EndsInv => LiveStreamIsFiled
  BY DEF EndsInv
<1> QED
  BY <1>1, EndsInvariance, PTL

(* While the tunnel is up, a socket the agent has closed, other than by a  *)
(* failed write in HandleData, has a CLOSE on its way to the stream the    *)
(* broker still holds for it, behind the ack when that is still in flight. *)
THEOREM SocketEndIsReportedHolds == Spec => []SocketEndIsReported
<1>1. EndsInv => SocketEndIsReported
  BY DEF EndsInv, ReportInv
<1> QED
  BY <1>1, EndsInvariance, PTL
=============================================================================
