------------------------ MODULE TunnelStreams_proofs ------------------------
(***************************************************************************)
(* Theorems about TunnelStreams, for any number of opens and of stream     *)
(* ids, by induction on the steps of the broker and of the agent.          *)
(***************************************************************************)
EXTENDS TunnelStreams, SequenceTheorems, TLAPS

-----------------------------------------------------------------------------
(* What the assumption says of the parameters.                             *)
LEMMA Parameters ==
  /\ MaxId \in Nat /\ MaxId > 0
  /\ None \notin Opens
  /\ Ids \subseteq 0..MaxId
BY StreamsAssumption DEF Ids

(* A remainder lies below the divisor.                                     *)
LEMMA Remainder ==
  ASSUME NEW n \in Nat, NEW m \in Nat \ {0} PROVE n % m \in 0..(m - 1)
OBVIOUS

(* allocateStreamID only returns ids, and leaves nextStreamID in range.    *)
LEMMA IdInTurn ==
  ASSUME next \in 0..MaxId, NEW k \in 0..(MaxId - 1)
  PROVE  /\ IdAt(k) \in Ids
         /\ (IdAt(k) + 1) % (MaxId + 1) \in 0..MaxId
<1> DEFINE n == (IF next = 0 THEN 0 ELSE next - 1) + k
<1>1. n \in Nat
  BY Parameters
<1>2. n % MaxId \in 0..(MaxId - 1)
  BY <1>1, Parameters, Remainder
<1>3. IdAt(k) \in Ids
  BY <1>2, Parameters DEF IdAt, Ids
<1>4. (IdAt(k) + 1) % (MaxId + 1) \in 0..((MaxId + 1) - 1)
  <2>1. IdAt(k) + 1 \in Nat /\ MaxId + 1 \in Nat \ {0}
    BY <1>3, Parameters DEF Ids
  <2> HIDE DEF n
  <2> QED
    BY <2>1, Remainder
<1> QED
  BY <1>3, <1>4, Parameters

(* What an allocation does, without the arithmetic.                        *)
LEMMA Allocated ==
  ASSUME TypeOK, NEW o \in Opens, Allocate(o)
  PROVE  /\ client[o] = "new"
         /\ \/ /\ client' = [client EXCEPT ![o] = "failed"]
               /\ UNCHANGED <<next, pending, idOf>>
            \/ \E id \in Ids :
                 /\ pending[id] = None
                 /\ next' \in 0..MaxId
                 /\ pending' = [pending EXCEPT ![id] = o]
                 /\ idOf'    = [idOf    EXCEPT ![o] = id]
                 /\ client'  = [client  EXCEPT ![o] = "allocated"]
         /\ UNCHANGED <<streams, resolve, life, link, doomed, loop, toAgent,
                        toBroker, agentVars>>
<1> USE DEF Allocate, Free
<1>1. CASE \E k \in 0..(MaxId - 1) :
             /\ Free(IdAt(k))
             /\ next'    = (IdAt(k) + 1) % (MaxId + 1)
             /\ pending' = [pending EXCEPT ![IdAt(k)] = o]
             /\ idOf'    = [idOf    EXCEPT ![o] = IdAt(k)]
             /\ client'  = [client  EXCEPT ![o] = "allocated"]
  <2>1. PICK k \in 0..(MaxId - 1) :
             /\ Free(IdAt(k))
             /\ next'    = (IdAt(k) + 1) % (MaxId + 1)
             /\ pending' = [pending EXCEPT ![IdAt(k)] = o]
             /\ idOf'    = [idOf    EXCEPT ![o] = IdAt(k)]
             /\ client'  = [client  EXCEPT ![o] = "allocated"]
    BY <1>1
  <2>2. IdAt(k) \in Ids /\ next' \in 0..MaxId
    BY <2>1, IdInTurn DEF TypeOK
  <2> QED
    BY <2>1, <2>2
<1>2. CASE client' = [client EXCEPT ![o] = "failed"]
           /\ UNCHANGED <<next, pending, idOf>>
  BY <1>2
<1> QED
  BY <1>1, <1>2

(* A frame belongs to an open and carries a stream id.                     *)
LEMMA FrameFields ==
  /\ \A f \in Frames : f.id \in Ids /\ f.of \in Opens
  /\ \A kind \in {"OPEN", "DATA", "CLOSE"}, id \in Ids, o \in Opens :
       Frame(kind, id, o) \in Frames /\ Frame(kind, id, o).of = o
BY DEF Frames, Frame

(* What is in a queue of frames after one has been sent ...                *)
LEMMA Sent ==
  ASSUME NEW q \in Seq(Frames), NEW f \in Frames
  PROVE  /\ Append(q, f) \in Seq(Frames)
         /\ \A i \in 1..Len(Append(q, f)) :
              Append(q, f)[i] = f \/ (i \in 1..Len(q) /\ Append(q, f)[i] = q[i])
<1>1. /\ Append(q, f) \in Seq(Frames)
      /\ Len(Append(q, f)) = Len(q) + 1 /\ Len(q) \in Nat
      /\ \A i \in 1..Len(q) : Append(q, f)[i] = q[i]
      /\ Append(q, f)[Len(q) + 1] = f
  BY AppendProperties
<1> SUFFICES ASSUME NEW i \in 1..Len(Append(q, f))
             PROVE  Append(q, f)[i] = f \/ (i \in 1..Len(q) /\ Append(q, f)[i] = q[i])
  BY <1>1
<1>2. CASE i = Len(q) + 1
  BY <1>1, <1>2
<1>3. CASE i \in 1..Len(q)
  BY <1>1, <1>3, Zenon
<1> QED
  BY <1>1, <1>2, <1>3

(* ... and after one has been received.                                    *)
LEMMA Received ==
  ASSUME NEW q \in Seq(Frames), q # <<>>
  PROVE  /\ Head(q) \in Frames
         /\ Tail(q) \in Seq(Frames)
         /\ 1 \in 1..Len(q) /\ Head(q) = q[1]
         /\ \A i \in 1..Len(Tail(q)) : i + 1 \in 1..Len(q) /\ Tail(q)[i] = q[i + 1]
OBVIOUS

(* Frames sent either way are well formed, and those sent to the agent     *)
(* belong to opens that have an id if those before them do.                *)
LEMMA Queues ==
  ASSUME TypeOK, NEW kind \in {"OPEN", "DATA", "CLOSE"}, NEW id \in Ids, NEW o \in Opens
  PROVE  /\ ToAgent(kind, id, o) \in Seq(Frames)
         /\ ToBroker(kind, id, o) \in Seq(Frames)
         /\ \A i \in 1..Len(ToAgent(kind, id, o)) :
              \/ ToAgent(kind, id, o)[i].of = o
              \/ i \in 1..Len(toAgent) /\ ToAgent(kind, id, o)[i] = toAgent[i]
<1>1. Frame(kind, id, o) \in Frames /\ Frame(kind, id, o).of = o
  BY FrameFields
<1>2. toAgent \in Seq(Frames) /\ toBroker \in Seq(Frames)
  BY DEF TypeOK
<1> QED
  BY <1>1, <1>2, Sent DEF ToAgent, ToBroker

(* A frame that is read is well formed, and so is what remains.            *)
LEMMA Reads ==
  ASSUME TypeOK
  PROVE  /\ \A kind : Receives(kind) =>
              /\ Head(toBroker).id \in Ids
              /\ toBroker' \in Seq(Frames)
         /\ \A kind : AgentReceives(kind) =>
              /\ Head(toAgent).id \in Ids /\ Head(toAgent).of \in Opens
              /\ toAgent' \in Seq(Frames)
              /\ 1 \in 1..Len(toAgent) /\ Head(toAgent) = toAgent[1]
              /\ \A i \in 1..Len(toAgent') :
                   i + 1 \in 1..Len(toAgent) /\ toAgent'[i] = toAgent[i + 1]
<1>1. toAgent \in Seq(Frames) /\ toBroker \in Seq(Frames)
  BY DEF TypeOK
<1>2. ASSUME NEW kind, Receives(kind)
      PROVE  Head(toBroker).id \in Ids /\ toBroker' \in Seq(Frames)
  BY <1>1, <1>2, Received, FrameFields DEF Receives
<1>3. ASSUME NEW kind, AgentReceives(kind)
      PROVE  /\ Head(toAgent).id \in Ids /\ Head(toAgent).of \in Opens
             /\ toAgent' \in Seq(Frames)
             /\ 1 \in 1..Len(toAgent) /\ Head(toAgent) = toAgent[1]
             /\ \A i \in 1..Len(toAgent') :
                  i + 1 \in 1..Len(toAgent) /\ toAgent'[i] = toAgent[i + 1]
  BY <1>1, <1>3, Received, FrameFields DEF AgentReceives
<1> QED
  BY <1>2, <1>3

(* Every step keeps the state in its types.                                *)
LEMMA TypeStep ==
  TypeOK /\ IdInv /\ PendingInv /\ [Next]_vars => TypeOK'
<1> SUFFICES ASSUME TypeOK, IdInv, PendingInv, [Next]_vars PROVE TypeOK'
  OBVIOUS
<1> USE DEF TypeOK, brokerVars, agentVars
<1>1. ASSUME NEW o \in Opens, Allocate(o) PROVE TypeOK'
  <2>1. UNCHANGED <<streams, resolve, life, link, doomed, loop, toAgent, toBroker, agentVars>>
    BY <1>1, Allocated
  <2>2. CASE client' = [client EXCEPT ![o] = "failed"] /\ UNCHANGED <<next, pending, idOf>>
    BY <2>1, <2>2
  <2>3. CASE \E id \in Ids :
               /\ next' \in 0..MaxId
               /\ pending' = [pending EXCEPT ![id] = o]
               /\ idOf'    = [idOf    EXCEPT ![o] = id]
               /\ client'  = [client  EXCEPT ![o] = "allocated"]
    <3>1. PICK id \in Ids :
               /\ next' \in 0..MaxId
               /\ pending' = [pending EXCEPT ![id] = o]
               /\ idOf'    = [idOf    EXCEPT ![o] = id]
               /\ client'  = [client  EXCEPT ![o] = "allocated"]
      BY <2>3
    <3>2. id \in 0..MaxId
      BY Parameters
    <3> QED
      BY <2>1, <3>1, <3>2
  <2> QED
    BY <1>1, <2>2, <2>3, Allocated
<1>2. ASSUME NEW o \in Opens, SendOpen(o) PROVE TypeOK'
  <2>1. HasId(o)
    BY <1>2 DEF SendOpen, IdInv
  <2>2. \/ toAgent' = ToAgent("OPEN", idOf[o], o)
        \/ toAgent' = toAgent
    BY <1>2 DEF SendOpen
  <2>3. toAgent' \in Seq(Frames)
    BY <2>1, <2>2, Queues DEF HasId
  <2>4. \/ client' = [client EXCEPT ![o] = "waiting"]
        \/ client' = [client EXCEPT ![o] = "failed"]
    BY <1>2 DEF SendOpen
  <2>5. \/ pending' = [pending EXCEPT ![idOf[o]] = None]
        \/ pending' = pending
    BY <1>2 DEF SendOpen
  <2>6. UNCHANGED <<next, streams, idOf, resolve, life, link, doomed, loop, toBroker, agentVars>>
    BY <1>2 DEF SendOpen
  <2> QED
    BY <2>3, <2>4, <2>5, <2>6, ZenonT(60)
<1>3. ASSUME NEW o \in Opens, OpenTimeout(o) PROVE TypeOK'
  BY <1>3 DEF OpenTimeout
<1>4. ASSUME NEW o \in Opens, Resolve(o) PROVE TypeOK'
  BY <1>4 DEF Resolve
<1>5. ASSUME NEW o \in Opens, ClientData(o) PROVE TypeOK'
  BY <1>5, Queues DEF ClientData, IdInv, HasId
<1>6. ASSUME NEW o \in Opens, BeginClose(o) PROVE TypeOK'
  BY <1>6 DEF BeginClose
<1>7. ASSUME NEW o \in Opens, FinishClose(o) PROVE TypeOK'
  BY <1>7, Queues DEF FinishClose, IdInv, HasId
<1>8. ASSUME NEW o \in Opens, ReadEnd(o) PROVE TypeOK'
  BY <1>8 DEF ReadEnd
<1>9. ASSUME NEW o \in Opens, Destroy(o) PROVE TypeOK'
  BY <1>9 DEF Destroy
<1>10. ASSUME NEW o \in Opens, CopierReads(o) PROVE TypeOK'
  BY <1>10 DEF CopierReads
<1>11. ASSUME NEW o \in Opens, CopierSends(o) PROVE TypeOK'
  <2>1. HasId(o)
    BY <1>11 DEF CopierSends, IdInv
  <2>2. toBroker' \in Seq(Frames)
    BY <1>11, <2>1, Queues DEF CopierSends, HasId
  <2>3. sockets' \in [Ids -> Opens \union {None}]
    BY <1>11, ZenonT(60) DEF CopierSends, RemoveAndClose
  <2>4. local' \in [Opens -> {"none", "open", "reset", "shut"}]
    BY <1>11 DEF CopierSends, RemoveAndClose
  <2>5. copier' \in [Opens -> {"none", "reading", "holding", "done"}]
    BY <1>11, ZenonT(60) DEF CopierSends
  <2> QED
    BY <1>11, <2>1, <2>2, <2>3, <2>4, <2>5 DEF CopierSends
<1>12. ASSUME NEW o \in Opens, CopierEnds(o) PROVE TypeOK'
  BY <1>12, Queues DEF CopierEnds, IdInv, HasId
<1>13. ASSUME NEW o \in Opens, ServiceCloses(o) PROVE TypeOK'
  BY <1>13 DEF ServiceCloses
<1>14. ASSUME TakeAck PROVE TypeOK'
  <2>1. Head(toBroker).id \in Ids /\ toBroker' \in Seq(Frames)
    BY <1>14, Reads DEF TakeAck
  <2>2. pending' \in [Ids -> Opens \union {None}]
    BY <1>14, <2>1 DEF TakeAck
  <2>3. loop' \in [at : {"idle", "ack", "reap"}, of : Opens \union {None}]
    BY <1>14, <2>1 DEF TakeAck
  <2> QED
    BY <1>14, <2>1, <2>2, <2>3 DEF TakeAck
<1>15. ASSUME FinishAck PROVE TypeOK'
  BY <1>15 DEF FinishAck, PendingInv, Idle
<1>16. ASSUME TakeData PROVE TypeOK'
  BY <1>16, Reads DEF TakeData
<1>17. ASSUME TakeClose PROVE TypeOK'
  <2>1. Head(toBroker).id \in Ids /\ toBroker' \in Seq(Frames)
    BY <1>17, Reads DEF TakeClose
  <2>2. pending' \in [Ids -> Opens \union {None}]
    BY <1>17, <2>1 DEF TakeClose
  <2>3. streams' \in [Ids -> Opens \union {None}]
    BY <1>17, <2>1 DEF TakeClose
  <2>4. resolve' \in [Opens -> {"empty", "stream", "nil"}]
    BY <1>17, <2>1 DEF TakeClose
  <2>5. loop' \in [at : {"idle", "ack", "reap"}, of : Opens \union {None}]
    BY <1>17, <2>1 DEF TakeClose
  <2> QED
    BY <1>17, <2>1, <2>2, <2>3, <2>4, <2>5 DEF TakeClose
<1>18. ASSUME FinishReap PROVE TypeOK'
  BY <1>18 DEF FinishReap, PendingInv, Idle
<1>19. ASSUME BeginDrop PROVE TypeOK'
  BY <1>19 DEF BeginDrop
<1>20. ASSUME SwapMaps PROVE TypeOK'
  BY <1>20 DEF SwapMaps
<1>21. ASSUME CloseSocket PROVE TypeOK'
  BY <1>21 DEF CloseSocket
<1>22. ASSUME AgentOpen PROVE TypeOK'
  <2> DEFINE id == Head(toAgent).id
             p  == Head(toAgent).of
  <2>1. id \in Ids /\ p \in Opens /\ toAgent' \in Seq(Frames)
    BY <1>22, Reads DEF AgentOpen
  <2>2. \/ toBroker' = ToBroker("CLOSE", id, p)
        \/ toBroker' = ToBroker("OPEN", id, p)
        \/ toBroker' = toBroker
    BY <1>22 DEF AgentOpen
  <2>3. toBroker' \in Seq(Frames)
    BY <2>1, <2>2, Queues
  <2>4. sockets' \in [Ids -> Opens \union {None}]
    BY <1>22, <2>1, ZenonT(60) DEF AgentOpen
  <2>5. local' \in [Opens -> {"none", "open", "reset", "shut"}]
    BY <1>22 DEF AgentOpen
  <2>6. copier' \in [Opens -> {"none", "reading", "holding", "done"}]
    BY <1>22, <2>1 DEF AgentOpen
  <2> QED
    BY <1>22, <2>1, <2>3, <2>4, <2>5, <2>6 DEF AgentOpen
<1>23. ASSUME AgentData PROVE TypeOK'
  <2>1. Head(toAgent).id \in Ids /\ toAgent' \in Seq(Frames)
    BY <1>23, Reads DEF AgentData
  <2>2. sockets' \in [Ids -> Opens \union {None}]
    BY <1>23, <2>1 DEF AgentData, RemoveAndClose
  <2>3. local' \in [Opens -> {"none", "open", "reset", "shut"}]
    BY <1>23 DEF AgentData, RemoveAndClose
  <2>4. gaveUp' \in SUBSET Opens
    BY <1>23, <2>1 DEF AgentData, RemoveAndClose
  <2> QED
    BY <1>23, <2>1, <2>2, <2>3, <2>4 DEF AgentData
<1>24. ASSUME AgentClose PROVE TypeOK'
  BY <1>24, Reads DEF AgentClose, RemoveAndClose
<1>25. ASSUME AgentDrops PROVE TypeOK'
  <2>1. sockets' \in [Ids -> Opens \union {None}]
    BY <1>25 DEF AgentDrops
  <2>2. local' \in [Opens -> {"none", "open", "reset", "shut"}]
    BY <1>25 DEF AgentDrops
  <2>3. toAgent' = <<>> /\ agentUp' = FALSE
    BY <1>25 DEF AgentDrops
  <2>4. UNCHANGED <<brokerVars, toBroker, copier, gaveUp>>
    BY <1>25 DEF AgentDrops
  <2>5. toAgent' \in Seq(Frames)
    BY <2>3
  <2>6. agentUp' \in BOOLEAN
    BY <2>3
  <2> QED
    BY <2>1, <2>2, <2>4, <2>5, <2>6
<1>26. CASE UNCHANGED vars
  BY <1>26 DEF vars
<1> QED
  BY <1>1, <1>2, <1>3, <1>4, <1>5, <1>6, <1>7, <1>8, <1>9, <1>10, <1>11,
     <1>12, <1>13, <1>14, <1>15, <1>16, <1>17, <1>18, <1>19, <1>20, <1>21,
     <1>22, <1>23, <1>24, <1>25, <1>26
  DEF Next, ProxyStep, ReadLoop, DropStep, AgentLoop, CopierStep

(* No open that has its id loses it.                                       *)
LEMMA IdStep ==
  TypeOK /\ IdInv /\ PendingInv /\ [Next]_vars => IdInv'
<1> SUFFICES ASSUME TypeOK, IdInv, PendingInv, [Next]_vars PROVE IdInv'
  OBVIOUS
<1> USE DEF TypeOK, IdInv, HasId, brokerVars, agentVars
<1>1. ASSUME NEW o \in Opens, Allocate(o) PROVE IdInv'
  <2>1. client[o] = "new" /\ UNCHANGED <<life, copier, toAgent>>
    BY <1>1, Allocated
  <2>2. \A i \in 1..Len(toAgent) : toAgent[i].of \in Opens
    BY FrameFields
  <2>3. CASE client' = [client EXCEPT ![o] = "failed"] /\ idOf' = idOf
    BY <2>1, <2>3
  <2>4. CASE \E id \in Ids : /\ idOf'   = [idOf   EXCEPT ![o] = id]
                            /\ client' = [client EXCEPT ![o] = "allocated"]
    <3>1. \A p \in Opens : idOf[p] \in Ids => idOf'[p] \in Ids
      BY <2>4
    <3>2. idOf'[o] \in Ids
      BY <2>4
    <3> QED
      BY <2>1, <2>2, <2>4, <3>1, <3>2
  <2> QED
    BY <1>1, <2>3, <2>4, Allocated
<1>2. ASSUME NEW o \in Opens, SendOpen(o) PROVE IdInv'
  <2>1. HasId(o)
    BY <1>2 DEF SendOpen
  <2>2. toAgent' = toAgent \/ toAgent' = ToAgent("OPEN", idOf[o], o)
    BY <1>2 DEF SendOpen
  <2>3. \A i \in 1..Len(toAgent') :
          toAgent'[i].of = o \/ (i \in 1..Len(toAgent) /\ toAgent'[i] = toAgent[i])
    <3>1. CASE toAgent' = toAgent
      BY <3>1
    <3>2. CASE toAgent' # toAgent
      <4>1. toAgent' = ToAgent("OPEN", idOf[o], o) /\ idOf[o] \in Ids
        BY <2>1, <2>2, <3>2
      <4> HIDE DEF TypeOK, IdInv
      <4> QED
        BY <4>1, Queues
    <3> QED
      BY <3>1, <3>2
  <2>4. /\ client[o] = "allocated"
        /\ \/ client' = [client EXCEPT ![o] = "waiting"]
           \/ client' = [client EXCEPT ![o] = "failed"]
        /\ UNCHANGED <<idOf, life, copier>>
    BY <1>2 DEF SendOpen
  <2>5. \A i \in 1..Len(toAgent') : HasId(toAgent'[i].of)
    BY <2>1, <2>3
  <2> QED
    BY <2>1, <2>4, <2>5, ZenonT(60)
<1>3. ASSUME NEW o \in Opens, OpenTimeout(o) PROVE IdInv'
  BY <1>3 DEF OpenTimeout
<1>4. ASSUME NEW o \in Opens, Resolve(o) PROVE IdInv'
  BY <1>4 DEF Resolve
<1>5. ASSUME NEW o \in Opens, ClientData(o) PROVE IdInv'
  <2>1. HasId(o)
    BY <1>5 DEF ClientData
  <2>2. toAgent' = toAgent \/ toAgent' = ToAgent("DATA", idOf[o], o)
    BY <1>5 DEF ClientData
  <2>3. \A i \in 1..Len(toAgent') :
          toAgent'[i].of = o \/ (i \in 1..Len(toAgent) /\ toAgent'[i] = toAgent[i])
    <3>1. CASE toAgent' = toAgent
      BY <3>1
    <3>2. CASE toAgent' # toAgent
      <4>1. toAgent' = ToAgent("DATA", idOf[o], o) /\ idOf[o] \in Ids
        BY <2>1, <2>2, <3>2
      <4> HIDE DEF TypeOK, IdInv
      <4> QED
        BY <4>1, Queues
    <3> QED
      BY <3>1, <3>2
  <2>4. UNCHANGED <<idOf, client, life, copier>>
    BY <1>5 DEF ClientData
  <2>5. \A i \in 1..Len(toAgent') : HasId(toAgent'[i].of)
    BY <2>1, <2>3
  <2> QED
    BY <2>1, <2>4, <2>5
<1>6. ASSUME NEW o \in Opens, BeginClose(o) PROVE IdInv'
  BY <1>6 DEF BeginClose
<1>7. ASSUME NEW o \in Opens, FinishClose(o) PROVE IdInv'
  <2>1. HasId(o)
    BY <1>7 DEF FinishClose
  <2>2. toAgent' = toAgent \/ toAgent' = ToAgent("CLOSE", idOf[o], o)
    BY <1>7 DEF FinishClose
  <2>3. \A i \in 1..Len(toAgent') :
          toAgent'[i].of = o \/ (i \in 1..Len(toAgent) /\ toAgent'[i] = toAgent[i])
    <3>1. CASE toAgent' = toAgent
      BY <3>1
    <3>2. CASE toAgent' # toAgent
      <4>1. toAgent' = ToAgent("CLOSE", idOf[o], o) /\ idOf[o] \in Ids
        BY <2>1, <2>2, <3>2
      <4> HIDE DEF TypeOK, IdInv
      <4> QED
        BY <4>1, Queues
    <3> QED
      BY <3>1, <3>2
  <2>4. /\ client' = [client EXCEPT ![o] = "closed"]
        /\ life'   = [life   EXCEPT ![o] = "dead"]
        /\ UNCHANGED <<idOf, copier>>
    BY <1>7 DEF FinishClose
  <2>5. \A i \in 1..Len(toAgent') : HasId(toAgent'[i].of)
    BY <2>1, <2>3
  <2> QED
    BY <2>1, <2>4, <2>5
<1>8. ASSUME NEW o \in Opens, ReadEnd(o) PROVE IdInv'
  BY <1>8 DEF ReadEnd
<1>9. ASSUME NEW o \in Opens, Destroy(o) PROVE IdInv'
  BY <1>9 DEF Destroy
<1>10. ASSUME NEW o \in Opens, CopierReads(o) PROVE IdInv'
  BY <1>10 DEF CopierReads
<1>11. ASSUME NEW o \in Opens, CopierSends(o) PROVE IdInv'
  BY <1>11 DEF CopierSends, RemoveAndClose
<1>12. ASSUME NEW o \in Opens, CopierEnds(o) PROVE IdInv'
  BY <1>12 DEF CopierEnds
<1>13. ASSUME NEW o \in Opens, ServiceCloses(o) PROVE IdInv'
  BY <1>13 DEF ServiceCloses
<1>14. ASSUME TakeAck PROVE IdInv'
  BY <1>14 DEF TakeAck, Receives
<1>15. ASSUME FinishAck PROVE IdInv'
  BY <1>15 DEF FinishAck, PendingInv
<1>16. ASSUME TakeData PROVE IdInv'
  BY <1>16 DEF TakeData, Receives
<1>17. ASSUME TakeClose PROVE IdInv'
  BY <1>17 DEF TakeClose, Receives
<1>18. ASSUME FinishReap PROVE IdInv'
  BY <1>18 DEF FinishReap
<1>19. ASSUME BeginDrop PROVE IdInv'
  BY <1>19 DEF BeginDrop
<1>20. ASSUME SwapMaps PROVE IdInv'
  BY <1>20 DEF SwapMaps
<1>21. ASSUME CloseSocket PROVE IdInv'
  BY <1>21 DEF CloseSocket
<1>22. ASSUME AgentOpen PROVE IdInv'
  <2>1. \A i \in 1..Len(toAgent') : HasId(toAgent'[i].of)
    BY <1>22, Reads, SMTT(60) DEF AgentOpen
  <2>2. Head(toAgent).of \in Opens /\ HasId(Head(toAgent).of)
    BY <1>22, Reads DEF AgentOpen
  <2>3. copier' = copier \/ copier' = [copier EXCEPT ![Head(toAgent).of] = "reading"]
    BY <1>22 DEF AgentOpen
  <2>4. UNCHANGED <<idOf, client, life>>
    BY <1>22 DEF AgentOpen
  <2> QED
    BY <2>1, <2>2, <2>3, <2>4
<1>23. ASSUME AgentData PROVE IdInv'
  <2>1. AgentReceives("DATA")
    BY <1>23 DEF AgentData
  <2>2. \A i \in 1..Len(toAgent') : HasId(toAgent'[i].of)
    <3>1. \A i \in 1..Len(toAgent') :
            i + 1 \in 1..Len(toAgent) /\ toAgent'[i] = toAgent[i + 1]
      <4> HIDE DEF TypeOK, IdInv
      <4> QED
        BY <2>1, Reads
    <3>2. \A i \in 1..Len(toAgent) : HasId(toAgent[i].of)
      OBVIOUS
    <3> HIDE DEF TypeOK, IdInv, HasId
    <3>3. \A i \in 1..Len(toAgent') : HasId(toAgent[i + 1].of)
      BY <3>1, <3>2
    <3>4. ASSUME NEW i \in 1..Len(toAgent') PROVE HasId(toAgent'[i].of)
      BY <3>1, <3>3, Zenon
    <3> QED
      BY <3>4
  <2>3. UNCHANGED <<idOf, client, life, copier>>
    BY <1>23 DEF AgentData
  <2> QED
    BY <2>2, <2>3
<1>24. ASSUME AgentClose PROVE IdInv'
  <2>1. AgentReceives("CLOSE")
    BY <1>24 DEF AgentClose
  <2>2. \A i \in 1..Len(toAgent') : HasId(toAgent'[i].of)
    <3>1. \A i \in 1..Len(toAgent') :
            i + 1 \in 1..Len(toAgent) /\ toAgent'[i] = toAgent[i + 1]
      <4> HIDE DEF TypeOK, IdInv
      <4> QED
        BY <2>1, Reads
    <3>2. \A i \in 1..Len(toAgent) : HasId(toAgent[i].of)
      OBVIOUS
    <3> HIDE DEF TypeOK, IdInv, HasId
    <3>3. \A i \in 1..Len(toAgent') : HasId(toAgent[i + 1].of)
      BY <3>1, <3>2
    <3>4. ASSUME NEW i \in 1..Len(toAgent') PROVE HasId(toAgent'[i].of)
      BY <3>1, <3>3, Zenon
    <3> QED
      BY <3>4
  <2>3. UNCHANGED <<idOf, client, life, copier>>
    BY <1>24 DEF AgentClose
  <2> QED
    BY <2>2, <2>3
<1>25. ASSUME AgentDrops PROVE IdInv'
  BY <1>25 DEF AgentDrops
<1>26. CASE UNCHANGED vars
  BY <1>26 DEF vars
<1> QED
  BY <1>1, <1>2, <1>3, <1>4, <1>5, <1>6, <1>7, <1>8, <1>9, <1>10, <1>11,
     <1>12, <1>13, <1>14, <1>15, <1>16, <1>17, <1>18, <1>19, <1>20, <1>21,
     <1>22, <1>23, <1>24, <1>25, <1>26
  DEF Next, ProxyStep, ReadLoop, DropStep, AgentLoop, CopierStep

(* Whatever takes a pending open out of the map is the first to resolve it.*)
LEMMA PendingStep ==
  TypeOK /\ IdInv /\ PendingInv /\ [Next]_vars => PendingInv'
<1> SUFFICES ASSUME TypeOK, IdInv, PendingInv, [Next]_vars PROVE PendingInv'
  OBVIOUS
<1> USE DEF TypeOK, PendingInv, AckNeverBlocks, brokerVars, agentVars
<1>1. ASSUME NEW o \in Opens, Allocate(o) PROVE PendingInv'
  <2>1. CASE client' = [client EXCEPT ![o] = "failed"] /\ UNCHANGED <<next, pending, idOf>>
    <3>1. UNCHANGED <<resolve, loop>>
      BY <1>1, Allocated
    <3> QED
      BY <2>1, <3>1
  <2>2. CASE \E id \in Ids :
               /\ pending[id] = None
               /\ pending' = [pending EXCEPT ![id] = o]
               /\ idOf'    = [idOf    EXCEPT ![o] = id]
               /\ client'  = [client  EXCEPT ![o] = "allocated"]
    <3>1. PICK id \in Ids :
               /\ pending[id] = None
               /\ pending' = [pending EXCEPT ![id] = o]
               /\ idOf'    = [idOf    EXCEPT ![o] = id]
               /\ client'  = [client  EXCEPT ![o] = "allocated"]
      BY <2>2
    <3>2. client[o] = "new" /\ UNCHANGED <<resolve, loop>>
      BY <1>1, Allocated
    <3>3. \A j \in Ids : pending[j] # o /\ (j = id \/ pending'[j] = pending[j])
      BY <3>1, <3>2, Parameters
    <3>4. pending'[id] = o /\ idOf'[o] = id /\ client'[o] = "allocated" /\ resolve'[o] = "empty"
      BY <3>1, <3>2
    <3>5. \A p \in Opens \ {o} : idOf'[p] = idOf[p] /\ client'[p] = client[p]
      BY <3>1
    <3>6. ASSUME NEW j \in Ids, pending'[j] # None
          PROVE  /\ resolve'[pending'[j]] = "empty"
                 /\ idOf'[pending'[j]] = j
                 /\ client'[pending'[j]] # "new"
      <4>1. CASE j = id
        BY <3>4, <4>1
      <4>2. CASE j # id
        <5>1. pending'[j] = pending[j] /\ pending[j] \in Opens \ {o}
          BY <3>3, <3>6, <4>2
        <5> QED
          BY <3>2, <3>5, <3>6, <5>1
      <4> QED
        BY <4>1, <4>2
    <3>7. loop.at = "ack" => loop.of # o
      BY <3>2
    <3> QED
      BY <3>1, <3>2, <3>3, <3>4, <3>5, <3>6, <3>7
  <2> QED
    BY <1>1, <2>1, <2>2, Allocated
<1>2. ASSUME NEW o \in Opens, SendOpen(o) PROVE PendingInv'
  <2>1. \A j \in Ids : pending'[j] \in {pending[j], None}
    BY <1>2 DEF SendOpen
  <2>2. client[o] # "new" /\ client'[o] # "new"
    BY <1>2 DEF SendOpen
  <2>3. \A p \in Opens \ {o} : client'[p] = client[p]
    BY <1>2 DEF SendOpen
  <2>4. UNCHANGED <<idOf, resolve, loop>>
    BY <1>2 DEF SendOpen
  <2> QED
    BY <2>1, <2>2, <2>3, <2>4, Parameters
<1>3. ASSUME NEW o \in Opens, OpenTimeout(o) PROVE PendingInv'
  <2>1. idOf[o] \in Ids
    BY <1>3 DEF OpenTimeout, IdInv, HasId
  <2>2. /\ client[o] # "new" /\ pending[idOf[o]] = o
        /\ pending' = [pending EXCEPT ![idOf[o]] = None]
        /\ resolve' = [resolve EXCEPT ![o] = "nil"]
        /\ UNCHANGED <<idOf, client, loop>>
    BY <1>3 DEF OpenTimeout
  <2>3. \A j \in Ids \ {idOf[o]} : pending'[j] = pending[j] /\ pending[j] # o
    BY <2>2, Parameters
  <2>4. pending'[idOf[o]] = None
    BY <2>1, <2>2
  <2>5. \A j \in Ids : pending'[j] # None =>
          pending'[j] = pending[j] /\ resolve'[pending[j]] = resolve[pending[j]]
    BY <2>2, <2>3, <2>4
  <2>6. loop.at = "ack" => loop.of # o
    BY <2>1, <2>2
  <2>7. \A j \in Ids : pending'[j] \in {pending[j], None}
    BY <2>3, <2>4
  <2> QED
    BY <2>2, <2>5, <2>6, <2>7, Parameters
<1>4. ASSUME NEW o \in Opens, Resolve(o) PROVE PendingInv'
  BY <1>4 DEF Resolve
<1>5. ASSUME NEW o \in Opens, ClientData(o) PROVE PendingInv'
  BY <1>5 DEF ClientData
<1>6. ASSUME NEW o \in Opens, BeginClose(o) PROVE PendingInv'
  BY <1>6 DEF BeginClose
<1>7. ASSUME NEW o \in Opens, FinishClose(o) PROVE PendingInv'
  BY <1>7 DEF FinishClose
<1>8. ASSUME NEW o \in Opens, ReadEnd(o) PROVE PendingInv'
  BY <1>8 DEF ReadEnd
<1>9. ASSUME NEW o \in Opens, Destroy(o) PROVE PendingInv'
  BY <1>9 DEF Destroy
<1>10. ASSUME NEW o \in Opens, CopierReads(o) PROVE PendingInv'
  BY <1>10 DEF CopierReads
<1>11. ASSUME NEW o \in Opens, CopierSends(o) PROVE PendingInv'
  BY <1>11 DEF CopierSends, RemoveAndClose
<1>12. ASSUME NEW o \in Opens, CopierEnds(o) PROVE PendingInv'
  BY <1>12 DEF CopierEnds
<1>13. ASSUME NEW o \in Opens, ServiceCloses(o) PROVE PendingInv'
  BY <1>13 DEF ServiceCloses
<1>14. ASSUME TakeAck PROVE PendingInv'
  <2>1. Head(toBroker).id \in Ids /\ loop = Idle
    BY <1>14, Reads DEF TakeAck, Receives
  <2>2. UNCHANGED <<idOf, client, resolve>>
    BY <1>14 DEF TakeAck
  <2>3. CASE UNCHANGED <<pending, loop>>
    BY <2>2, <2>3
  <2>4. CASE \E id \in Ids : /\ pending[id] # None
                            /\ pending' = [pending EXCEPT ![id] = None]
                            /\ loop' = [at |-> "ack", of |-> pending[id]]
    <3>1. PICK id \in Ids : /\ pending[id] # None
                            /\ pending' = [pending EXCEPT ![id] = None]
                            /\ loop' = [at |-> "ack", of |-> pending[id]]
      BY <2>4
    <3>2. \A j \in Ids \ {id} : pending'[j] = pending[j] /\ pending[j] # pending[id]
      BY <3>1
    <3>3. pending'[id] = None
      BY <3>1
    <3>4. loop'.at = "ack" /\ loop'.of = pending[id] /\ pending[id] \in Opens
      BY <3>1
    <3>5. \A j \in Ids : pending'[j] # None => pending'[j] = pending[j]
      BY <3>2, <3>3
    <3>6. \A j \in Ids : pending'[j] # loop'.of
      BY <3>1, <3>2, <3>3, <3>4, Parameters
    <3>7. resolve'[loop'.of] = "empty" /\ client'[loop'.of] # "new"
      BY <2>2, <3>1, <3>4
    <3> QED
      BY <2>2, <3>4, <3>5, <3>6, <3>7
  <2> QED
    BY <1>14, <2>1, <2>3, <2>4 DEF TakeAck
<1>15. ASSUME FinishAck PROVE PendingInv'
  BY <1>15 DEF FinishAck, Idle
<1>16. ASSUME TakeData PROVE PendingInv'
  BY <1>16 DEF TakeData, Receives
<1>17. ASSUME TakeClose PROVE PendingInv'
  <2>1. Head(toBroker).id \in Ids /\ loop = Idle
    BY <1>17, Reads DEF TakeClose, Receives
  <2>2. UNCHANGED <<idOf, client>>
    BY <1>17 DEF TakeClose
  <2>3. CASE \E id \in Ids : /\ streams[id] # None
                            /\ loop' = [at |-> "reap", of |-> streams[id]]
                            /\ UNCHANGED <<pending, resolve>>
    <3>1. loop'.at = "reap" /\ loop'.of \in Opens
      BY <2>3
    <3>2. UNCHANGED <<pending, resolve>>
      BY <2>3
    <3> QED
      BY <2>2, <3>1, <3>2
  <2>4. CASE \E id \in Ids :
               /\ pending' = [pending EXCEPT ![id] = None]
               /\ resolve' = [o \in Opens |-> IF o = pending[id] THEN "nil" ELSE resolve[o]]
               /\ loop' = loop
    <3>1. PICK id \in Ids :
               /\ pending' = [pending EXCEPT ![id] = None]
               /\ resolve' = [o \in Opens |-> IF o = pending[id] THEN "nil" ELSE resolve[o]]
               /\ loop' = loop
      BY <2>4
    <3>2. pending'[id] = None /\ \A j \in Ids \ {id} : pending'[j] = pending[j]
      BY <3>1
    <3>3. ASSUME NEW j \in Ids, pending'[j] # None
          PROVE  pending'[j] = pending[j] /\ resolve'[pending[j]] = resolve[pending[j]]
      <4>1. j # id /\ pending'[j] = pending[j] /\ pending[j] \in Opens
        BY <3>2, <3>3
      <4>2. pending[j] # pending[id]
        BY <3>3, <4>1
      <4> QED
        BY <3>1, <4>1, <4>2
    <3>4. ASSUME NEW o \in Opens, client[o] = "new" PROVE resolve'[o] = resolve[o]
      <4>1. o # pending[id]
        BY <3>4, Parameters
      <4> QED
        BY <3>1, <4>1
    <3>5. loop.at = "idle"
      BY <2>1 DEF Idle
    <3> QED
      BY <2>2, <3>1, <3>3, <3>4, <3>5
  <2> QED
    BY <1>17, <2>1, <2>3, <2>4, ZenonT(60) DEF TakeClose
<1>18. ASSUME FinishReap PROVE PendingInv'
  BY <1>18 DEF FinishReap, Idle
<1>19. ASSUME BeginDrop PROVE PendingInv'
  BY <1>19 DEF BeginDrop
<1>20. ASSUME SwapMaps PROVE PendingInv'
  <2>1. /\ pending' = [id \in Ids |-> None]
        /\ UNCHANGED <<idOf, client, loop>>
        /\ resolve' = [o \in Opens |-> IF \E id \in Ids : pending[id] = o THEN "nil" ELSE resolve[o]]
    BY <1>20 DEF SwapMaps
  <2>2. \A o \in Opens : client[o] = "new" => resolve'[o] = "empty"
    BY <2>1, Parameters
  <2>3. loop.at = "ack" => resolve'[loop.of] = "empty"
    BY <2>1
  <2> QED
    BY <2>1, <2>2, <2>3, Parameters
<1>21. ASSUME CloseSocket PROVE PendingInv'
  BY <1>21 DEF CloseSocket
<1>22. ASSUME AgentOpen PROVE PendingInv'
  BY <1>22 DEF AgentOpen, AgentReceives
<1>23. ASSUME AgentData PROVE PendingInv'
  BY <1>23 DEF AgentData, AgentReceives, RemoveAndClose
<1>24. ASSUME AgentClose PROVE PendingInv'
  BY <1>24 DEF AgentClose, AgentReceives, RemoveAndClose
<1>25. ASSUME AgentDrops PROVE PendingInv'
  BY <1>25 DEF AgentDrops
<1>26. CASE UNCHANGED vars
  BY <1>26 DEF vars
<1> QED
  BY <1>1, <1>2, <1>3, <1>4, <1>5, <1>6, <1>7, <1>8, <1>9, <1>10, <1>11,
     <1>12, <1>13, <1>14, <1>15, <1>16, <1>17, <1>18, <1>19, <1>20, <1>21,
     <1>22, <1>23, <1>24, <1>25, <1>26
  DEF Next, ProxyStep, ReadLoop, DropStep, AgentLoop, CopierStep

-----------------------------------------------------------------------------
(* The inductive invariant.                                                *)
Inv == TypeOK /\ IdInv /\ PendingInv

LEMMA InvInit == Init => Inv
<1> SUFFICES ASSUME Init PROVE Inv
  OBVIOUS
<1> USE Parameters DEF Init, Idle, Ids
<1>1. TypeOK
  BY DEF TypeOK, Frames
<1>2. IdInv
  BY DEF IdInv, HasId
<1>3. PendingInv
  BY DEF PendingInv, AckNeverBlocks
<1> QED
  BY <1>1, <1>2, <1>3 DEF Inv

(* Every reachable state of the tunnel satisfies the inductive invariant.  *)
THEOREM Invariance == Spec => []Inv
<1>1. Inv /\ [Next]_vars => Inv'
  BY TypeStep, IdStep, PendingStep DEF Inv
<1> QED
  BY <1>1, InvInit, PTL DEF Spec

(* Type correctness of the broker's maps, the agent's sockets and the      *)
(* frames between them: only real stream ids are allocated and sent.       *)
THEOREM TypeCorrect == Spec => []TypeOK
<1>1. Inv => TypeOK
  BY DEF Inv
<1> QED
  BY <1>1, Invariance, PTL

(* handleOpenAck never blocks on a resolve channel that the open timer, a  *)
(* CLOSE or closeTransport has filled, whatever the number of streams.     *)
THEOREM AckNeverBlocksHolds == Spec => []AckNeverBlocks
<1>1. Inv => AckNeverBlocks
  BY DEF Inv, PendingInv
<1> QED
  BY <1>1, Invariance, PTL
=============================================================================
