----------------------- MODULE TerminalBroker_proofs -----------------------
(***************************************************************************)
(* Theorems about TerminalBroker, for any number of sessions, control      *)
(* connections and observers, by induction on the steps of the broker and  *)
(* of the control plane.                                                   *)
(***************************************************************************)
EXTENDS TerminalBroker, TLAPS

-----------------------------------------------------------------------------
(* What the assumptions say of the grants and of the absent runtime.       *)
LEMMA Grants ==
  /\ None \notin Conns
  /\ \A c \in Conns : SessionOf[c] \in Sessions
  /\ \A o \in Observers : SessionOf[o] \in Sessions
  /\ {"client_disconnect", "admin_terminated", "broker_close"} \subseteq Reasons
BY BrokerAssumption

(* A row is closed once: no step audits a closed row.                      *)
LEMMA RowStep ==
  TypeOK /\ RowInv /\ [Next]_vars => RowInv'
<1> SUFFICES ASSUME TypeOK, RowInv, [Next]_vars PROVE RowInv'
  OBVIOUS
<1> USE DEF TypeOK, StatusTypeOK, RowInv, statusVars, connVars, closeVars,
            pauseVars, observeVars
<1>1. ASSUME NEW s \in Sessions, ControlPlane(s) PROVE RowInv'
  BY <1>1, Grants DEF ControlPlane, Start, Pause, Resume, Move, Close,
         IsOpen, Phases
<1>2. ASSUME NEW c \in Conns, ControlArrives(c) PROVE RowInv'
  BY <1>2, Grants DEF ControlArrives, Pruned, Occupied
<1>3. ASSUME NEW c \in Conns, Dial(c) PROVE RowInv'
  BY <1>3, Grants DEF Dial
<1>4. ASSUME NEW c \in Conns, Register(c) PROVE RowInv'
  BY <1>4, Grants DEF Register, Occupied
<1>5. ASSUME NEW c \in Conns, Run(c) PROVE RowInv'
  BY <1>5, Grants DEF Run
<1>6. ASSUME NEW c \in Conns, BeginClose(c) PROVE RowInv'
  BY <1>6, Grants DEF BeginClose, CloseStep
<1>7. ASSUME NEW c \in Conns, Unregister(c) PROVE RowInv'
  BY <1>7, Grants DEF Unregister, CloseStep
<1>8. ASSUME NEW c \in Conns, HangUp(c) PROVE RowInv'
  BY <1>8, Grants DEF HangUp, CloseStep
<1>9. ASSUME NEW c \in Conns, ClearSubscribers(c) PROVE RowInv'
  BY <1>9, Grants DEF ClearSubscribers, CloseStep
<1>10. ASSUME NEW c \in Conns, Finalize(c) PROVE RowInv'
  BY <1>10, Grants DEF Finalize, CloseStep, Close, IsOpen, Phases
<1>11. ASSUME NEW c \in Conns, EndClose(c) PROVE RowInv'
  BY <1>11, Grants DEF EndClose, CloseStep
<1>12. ASSUME NEW c \in Conns, MonitorRead(c) PROVE RowInv'
  BY <1>12, Grants DEF MonitorRead
<1>13. ASSUME NEW c \in Conns, Mirror(c) PROVE RowInv'
  BY <1>13, Grants DEF Mirror
<1>14. ASSUME NEW c \in Conns, MirrorClosed(c) PROVE RowInv'
  BY <1>14, Grants DEF MirrorClosed
<1>15. ASSUME NEW c \in Conns, MonitorCloses(c) PROVE RowInv'
  BY <1>15, Grants DEF MonitorCloses
<1>16. ASSUME NEW c \in Conns, Streaming(c) PROVE RowInv'
  BY <1>16, Grants DEF Streaming, GateBeforeRead, ReadChunk, GateBeforeSend,
         SendChunk, EndStream, Advance
<1>17. ASSUME NEW o \in Observers, ObserverArrives(o) PROVE RowInv'
  BY <1>17, Grants DEF ObserverArrives, Pruned, Occupied
<1>18. ASSUME NEW o \in Observers, ObserverAttaches(o) PROVE RowInv'
  BY <1>18, Grants DEF ObserverAttaches
<1>19. ASSUME NEW o \in Observers, ObserverLeaves(o) PROVE RowInv'
  BY <1>19, Grants DEF ObserverLeaves
<1>20. CASE UNCHANGED vars
  BY <1>20 DEF vars
<1> QED
  BY <1>1, <1>2, <1>3, <1>4, <1>5, <1>6, <1>7, <1>8, <1>9, <1>10, <1>11,
     <1>12, <1>13, <1>14, <1>15, <1>16, <1>17, <1>18, <1>19, <1>20
  DEF Next, Handshake, Closing, Monitoring, Observing

(* The pointers of observers to runtimes are never dangling.               *)
LEMMA SeatStep ==
  TypeOK /\ SeatInv /\ [Next]_vars => SeatInv'
<1> SUFFICES ASSUME TypeOK, SeatInv, [Next]_vars PROVE SeatInv'
  OBVIOUS
<1> USE DEF TypeOK, SeatInv, Seats, statusVars, connVars, closeVars,
            pauseVars, observeVars
<1>1. ASSUME NEW s \in Sessions, ControlPlane(s) PROVE SeatInv'
  BY <1>1, Grants DEF ControlPlane, Start, Pause, Resume, Move, Close,
         IsOpen, Phases
<1>2. ASSUME NEW c \in Conns, ControlArrives(c) PROVE SeatInv'
  BY <1>2, Grants DEF ControlArrives, Pruned, Occupied
<1>3. ASSUME NEW c \in Conns, Dial(c) PROVE SeatInv'
  BY <1>3, Grants DEF Dial
<1>4. ASSUME NEW c \in Conns, Register(c) PROVE SeatInv'
  BY <1>4, Grants DEF Register, Occupied
<1>5. ASSUME NEW c \in Conns, Run(c) PROVE SeatInv'
  BY <1>5, Grants DEF Run
<1>6. ASSUME NEW c \in Conns, BeginClose(c) PROVE SeatInv'
  BY <1>6, Grants DEF BeginClose, CloseStep
<1>7. ASSUME NEW c \in Conns, Unregister(c) PROVE SeatInv'
  BY <1>7, Grants DEF Unregister, CloseStep
<1>8. ASSUME NEW c \in Conns, HangUp(c) PROVE SeatInv'
  BY <1>8, Grants DEF HangUp, CloseStep
<1>9. ASSUME NEW c \in Conns, ClearSubscribers(c) PROVE SeatInv'
  BY <1>9, Grants DEF ClearSubscribers, CloseStep
<1>10. ASSUME NEW c \in Conns, Finalize(c) PROVE SeatInv'
  BY <1>10, Grants DEF Finalize, CloseStep, Close, IsOpen, Phases
<1>11. ASSUME NEW c \in Conns, EndClose(c) PROVE SeatInv'
  BY <1>11, Grants DEF EndClose, CloseStep
<1>12. ASSUME NEW c \in Conns, MonitorRead(c) PROVE SeatInv'
  BY <1>12, Grants DEF MonitorRead
<1>13. ASSUME NEW c \in Conns, Mirror(c) PROVE SeatInv'
  BY <1>13, Grants DEF Mirror
<1>14. ASSUME NEW c \in Conns, MirrorClosed(c) PROVE SeatInv'
  BY <1>14, Grants DEF MirrorClosed
<1>15. ASSUME NEW c \in Conns, MonitorCloses(c) PROVE SeatInv'
  BY <1>15, Grants DEF MonitorCloses
<1>16. ASSUME NEW c \in Conns, Streaming(c) PROVE SeatInv'
  BY <1>16, Grants DEF Streaming, GateBeforeRead, ReadChunk, GateBeforeSend,
         SendChunk, EndStream, Advance
<1>17. ASSUME NEW o \in Observers, ObserverArrives(o) PROVE SeatInv'
  BY <1>17, Grants DEF ObserverArrives, Pruned, Occupied
<1>18. ASSUME NEW o \in Observers, ObserverAttaches(o) PROVE SeatInv'
  BY <1>18, Grants DEF ObserverAttaches
<1>19. ASSUME NEW o \in Observers, ObserverLeaves(o) PROVE SeatInv'
  BY <1>19, Grants DEF ObserverLeaves
<1>20. CASE UNCHANGED vars
  BY <1>20 DEF vars
<1> QED
  BY <1>1, <1>2, <1>3, <1>4, <1>5, <1>6, <1>7, <1>8, <1>9, <1>10, <1>11,
     <1>12, <1>13, <1>14, <1>15, <1>16, <1>17, <1>18, <1>19, <1>20
  DEF Next, Handshake, Closing, Monitoring, Observing

(* Every step keeps the state in its types.                                *)
LEMMA TypeStep ==
  TypeOK /\ RowInv /\ SeatInv /\ [Next]_vars => TypeOK'
<1> SUFFICES ASSUME TypeOK, RowInv, SeatInv, [Next]_vars PROVE TypeOK'
  OBVIOUS
<1> USE DEF TypeOK, StatusTypeOK, RowInv, SeatInv, Stages, CloseSteps,
            Polls, Phases, Positions, Seats, statusVars, connVars,
            closeVars, pauseVars, observeVars
<1>1. ASSUME NEW s \in Sessions, ControlPlane(s) PROVE TypeOK'
  BY <1>1, Grants DEF ControlPlane, Start, Pause, Resume, Move, Close,
         IsOpen, Phases
<1>2. ASSUME NEW c \in Conns, ControlArrives(c) PROVE TypeOK'
  BY <1>2, Grants DEF ControlArrives, Pruned, Occupied
<1>3. ASSUME NEW c \in Conns, Dial(c) PROVE TypeOK'
  BY <1>3, Grants DEF Dial
<1>4. ASSUME NEW c \in Conns, Register(c) PROVE TypeOK'
  BY <1>4, Grants, SMTT(60) DEF Register, Occupied
<1>5. ASSUME NEW c \in Conns, Run(c) PROVE TypeOK'
  BY <1>5, Grants DEF Run
<1>6. ASSUME NEW c \in Conns, BeginClose(c) PROVE TypeOK'
  BY <1>6, Grants DEF BeginClose, CloseStep
<1>7. ASSUME NEW c \in Conns, Unregister(c) PROVE TypeOK'
  BY <1>7, Grants DEF Unregister, CloseStep
<1>8. ASSUME NEW c \in Conns, HangUp(c) PROVE TypeOK'
  BY <1>8, Grants, SMTT(60) DEF HangUp, CloseStep
<1>9. ASSUME NEW c \in Conns, ClearSubscribers(c) PROVE TypeOK'
  BY <1>9, Grants DEF ClearSubscribers, CloseStep
<1>10. ASSUME NEW c \in Conns, Finalize(c) PROVE TypeOK'
  <2>1. closer' \in [Conns -> CloseSteps]
    BY <1>10 DEF Finalize, CloseStep
  <2>2. CASE Close(SessionOf[c], "broker_close") /\ UNCHANGED unfinalized
    BY <1>10, <2>1, <2>2, Grants DEF Finalize, Close, IsOpen
  <2>3. CASE UNCHANGED <<statusVars, unfinalized>>
    BY <1>10, <2>1, <2>3 DEF Finalize
  <2>4. CASE /\ unfinalized' = [unfinalized EXCEPT ![c] = TRUE]
             /\ UNCHANGED statusVars
    BY <1>10, <2>1, <2>4 DEF Finalize
  <2> QED
    BY <1>10, <2>2, <2>3, <2>4 DEF Finalize
<1>11. ASSUME NEW c \in Conns, EndClose(c) PROVE TypeOK'
  BY <1>11, Grants DEF EndClose, CloseStep
<1>12. ASSUME NEW c \in Conns, MonitorRead(c) PROVE TypeOK'
  BY <1>12, Grants DEF MonitorRead
<1>13. ASSUME NEW c \in Conns, Mirror(c) PROVE TypeOK'
  BY <1>13, Grants DEF Mirror
<1>14. ASSUME NEW c \in Conns, MirrorClosed(c) PROVE TypeOK'
  BY <1>14, Grants DEF MirrorClosed
<1>15. ASSUME NEW c \in Conns, MonitorCloses(c) PROVE TypeOK'
  BY <1>15, Grants DEF MonitorCloses
<1>16. ASSUME NEW c \in Conns, Streaming(c) PROVE TypeOK'
  BY <1>16, Grants DEF Streaming, GateBeforeRead, ReadChunk, GateBeforeSend,
         SendChunk, EndStream, Advance
<1>17. ASSUME NEW o \in Observers, ObserverArrives(o) PROVE TypeOK'
  BY <1>17, Grants DEF ObserverArrives, Pruned, Occupied
<1>18. ASSUME NEW o \in Observers, ObserverAttaches(o) PROVE TypeOK'
  <2>1. seat[o].at \in Conns
    BY <1>18 DEF ObserverAttaches
  <2>2. seat' \in [Observers -> Seats]
    BY <1>18 DEF ObserverAttaches
  <2>3. watching' \in [Conns -> SUBSET Observers]
    BY <1>18, <2>1 DEF ObserverAttaches
  <2> QED
    BY <1>18, <2>2, <2>3 DEF ObserverAttaches
<1>19. ASSUME NEW o \in Observers, ObserverLeaves(o) PROVE TypeOK'
  BY <1>19, Grants DEF ObserverLeaves
<1>20. CASE UNCHANGED vars
  BY <1>20 DEF vars
<1> QED
  BY <1>1, <1>2, <1>3, <1>4, <1>5, <1>6, <1>7, <1>8, <1>9, <1>10, <1>11,
     <1>12, <1>13, <1>14, <1>15, <1>16, <1>17, <1>18, <1>19, <1>20
  DEF Next, Handshake, Closing, Monitoring, Observing

(* One runtime at most is registered for a session.                        *)
LEMMA RegistryStep ==
  TypeOK /\ RegistryInv /\ [Next]_vars => RegistryInv'
<1> SUFFICES ASSUME TypeOK, RegistryInv, [Next]_vars PROVE RegistryInv'
  OBVIOUS
<1> USE DEF TypeOK, RegistryInv, ExclusiveControl, Controlling, CloseSteps,
            statusVars, connVars, closeVars, pauseVars, observeVars
<1>1. ASSUME NEW s \in Sessions, ControlPlane(s) PROVE RegistryInv'
  BY <1>1, Grants DEF ControlPlane, Start, Pause, Resume, Move, Close,
         IsOpen, Phases
<1>2. ASSUME NEW c \in Conns, ControlArrives(c) PROVE RegistryInv'
  BY <1>2, Grants DEF ControlArrives, Pruned, Occupied
<1>3. ASSUME NEW c \in Conns, Dial(c) PROVE RegistryInv'
  BY <1>3, Grants DEF Dial
<1>4. ASSUME NEW c \in Conns, Register(c) PROVE RegistryInv'
  BY <1>4, Grants DEF Register, Occupied
<1>5. ASSUME NEW c \in Conns, Run(c) PROVE RegistryInv'
  BY <1>5, Grants DEF Run
<1>6. ASSUME NEW c \in Conns, BeginClose(c) PROVE RegistryInv'
  BY <1>6, Grants DEF BeginClose, CloseStep
<1>7. ASSUME NEW c \in Conns, Unregister(c) PROVE RegistryInv'
  BY <1>7, Grants DEF Unregister, CloseStep
<1>8. ASSUME NEW c \in Conns, HangUp(c) PROVE RegistryInv'
  BY <1>8, Grants DEF HangUp, CloseStep
<1>9. ASSUME NEW c \in Conns, ClearSubscribers(c) PROVE RegistryInv'
  BY <1>9, Grants DEF ClearSubscribers, CloseStep
<1>10. ASSUME NEW c \in Conns, Finalize(c) PROVE RegistryInv'
  BY <1>10, Grants DEF Finalize, CloseStep, Close, IsOpen, Phases
<1>11. ASSUME NEW c \in Conns, EndClose(c) PROVE RegistryInv'
  BY <1>11, Grants DEF EndClose, CloseStep
<1>12. ASSUME NEW c \in Conns, MonitorRead(c) PROVE RegistryInv'
  BY <1>12, Grants DEF MonitorRead
<1>13. ASSUME NEW c \in Conns, Mirror(c) PROVE RegistryInv'
  BY <1>13, Grants DEF Mirror
<1>14. ASSUME NEW c \in Conns, MirrorClosed(c) PROVE RegistryInv'
  BY <1>14, Grants DEF MirrorClosed
<1>15. ASSUME NEW c \in Conns, MonitorCloses(c) PROVE RegistryInv'
  BY <1>15, Grants DEF MonitorCloses
<1>16. ASSUME NEW c \in Conns, Streaming(c) PROVE RegistryInv'
  BY <1>16, Grants DEF Streaming, GateBeforeRead, ReadChunk, GateBeforeSend,
         SendChunk, EndStream, Advance
<1>17. ASSUME NEW o \in Observers, ObserverArrives(o) PROVE RegistryInv'
  BY <1>17, Grants DEF ObserverArrives, Pruned, Occupied
<1>18. ASSUME NEW o \in Observers, ObserverAttaches(o) PROVE RegistryInv'
  BY <1>18, Grants DEF ObserverAttaches
<1>19. ASSUME NEW o \in Observers, ObserverLeaves(o) PROVE RegistryInv'
  BY <1>19, Grants DEF ObserverLeaves
<1>20. CASE UNCHANGED vars
  BY <1>20 DEF vars
<1> QED
  BY <1>1, <1>2, <1>3, <1>4, <1>5, <1>6, <1>7, <1>8, <1>9, <1>10, <1>11,
     <1>12, <1>13, <1>14, <1>15, <1>16, <1>17, <1>18, <1>19, <1>20
  DEF Next, Handshake, Closing, Monitoring, Observing

(* A runtime ends with its row closed, or with a failure on record.        *)
LEMMA CloseStepInv ==
  TypeOK /\ CloseInv /\ [Next]_vars => CloseInv'
<1> SUFFICES ASSUME TypeOK, CloseInv, [Next]_vars PROVE CloseInv'
  OBVIOUS
<1> USE DEF TypeOK, StatusTypeOK, Phases, CloseInv, statusVars, connVars,
            closeVars, pauseVars, observeVars
<1>1. ASSUME NEW s \in Sessions, ControlPlane(s) PROVE CloseInv'
  BY <1>1, Grants DEF ControlPlane, Start, Pause, Resume, Move, Close,
         IsOpen, Phases
<1>2. ASSUME NEW c \in Conns, ControlArrives(c) PROVE CloseInv'
  BY <1>2, Grants DEF ControlArrives, Pruned, Occupied
<1>3. ASSUME NEW c \in Conns, Dial(c) PROVE CloseInv'
  BY <1>3, Grants DEF Dial
<1>4. ASSUME NEW c \in Conns, Register(c) PROVE CloseInv'
  BY <1>4, Grants DEF Register, Occupied
<1>5. ASSUME NEW c \in Conns, Run(c) PROVE CloseInv'
  BY <1>5, Grants DEF Run
<1>6. ASSUME NEW c \in Conns, BeginClose(c) PROVE CloseInv'
  BY <1>6, Grants DEF BeginClose, CloseStep
<1>7. ASSUME NEW c \in Conns, Unregister(c) PROVE CloseInv'
  BY <1>7, Grants DEF Unregister, CloseStep
<1>8. ASSUME NEW c \in Conns, HangUp(c) PROVE CloseInv'
  BY <1>8, Grants DEF HangUp, CloseStep
<1>9. ASSUME NEW c \in Conns, ClearSubscribers(c) PROVE CloseInv'
  BY <1>9, Grants DEF ClearSubscribers, CloseStep
<1>10. ASSUME NEW c \in Conns, Finalize(c) PROVE CloseInv'
  BY <1>10, Grants DEF Finalize, CloseStep, Close, IsOpen, Phases
<1>11. ASSUME NEW c \in Conns, EndClose(c) PROVE CloseInv'
  BY <1>11, Grants DEF EndClose, CloseStep
<1>12. ASSUME NEW c \in Conns, MonitorRead(c) PROVE CloseInv'
  BY <1>12, Grants DEF MonitorRead
<1>13. ASSUME NEW c \in Conns, Mirror(c) PROVE CloseInv'
  BY <1>13, Grants DEF Mirror
<1>14. ASSUME NEW c \in Conns, MirrorClosed(c) PROVE CloseInv'
  BY <1>14, Grants DEF MirrorClosed
<1>15. ASSUME NEW c \in Conns, MonitorCloses(c) PROVE CloseInv'
  BY <1>15, Grants DEF MonitorCloses
<1>16. ASSUME NEW c \in Conns, Streaming(c) PROVE CloseInv'
  BY <1>16, Grants DEF Streaming, GateBeforeRead, ReadChunk, GateBeforeSend,
         SendChunk, EndStream, Advance
<1>17. ASSUME NEW o \in Observers, ObserverArrives(o) PROVE CloseInv'
  BY <1>17, Grants DEF ObserverArrives, Pruned, Occupied
<1>18. ASSUME NEW o \in Observers, ObserverAttaches(o) PROVE CloseInv'
  BY <1>18, Grants DEF ObserverAttaches
<1>19. ASSUME NEW o \in Observers, ObserverLeaves(o) PROVE CloseInv'
  BY <1>19, Grants DEF ObserverLeaves
<1>20. CASE UNCHANGED vars
  BY <1>20 DEF vars
<1> QED
  BY <1>1, <1>2, <1>3, <1>4, <1>5, <1>6, <1>7, <1>8, <1>9, <1>10, <1>11,
     <1>12, <1>13, <1>14, <1>15, <1>16, <1>17, <1>18, <1>19, <1>20
  DEF Next, Handshake, Closing, Monitoring, Observing

(* A mirrored pause is only lifted by a resume or by a closed row.         *)
LEMMA PauseStep ==
  TypeOK /\ PauseInv /\ [Next]_vars => PauseInv'
<1> SUFFICES ASSUME TypeOK, PauseInv, [Next]_vars PROVE PauseInv'
  OBVIOUS
<1> USE DEF TypeOK, PauseInv, statusVars, connVars, closeVars, pauseVars,
            observeVars
<1>1. ASSUME NEW s \in Sessions, ControlPlane(s) PROVE PauseInv'
  BY <1>1, Grants DEF ControlPlane, Start, Pause, Resume, Move, Close,
         IsOpen, Phases
<1>2. ASSUME NEW c \in Conns, ControlArrives(c) PROVE PauseInv'
  BY <1>2, Grants DEF ControlArrives, Pruned, Occupied
<1>3. ASSUME NEW c \in Conns, Dial(c) PROVE PauseInv'
  BY <1>3, Grants DEF Dial
<1>4. ASSUME NEW c \in Conns, Register(c) PROVE PauseInv'
  BY <1>4, Grants DEF Register, Occupied
<1>5. ASSUME NEW c \in Conns, Run(c) PROVE PauseInv'
  BY <1>5, Grants DEF Run
<1>6. ASSUME NEW c \in Conns, BeginClose(c) PROVE PauseInv'
  BY <1>6, Grants DEF BeginClose, CloseStep
<1>7. ASSUME NEW c \in Conns, Unregister(c) PROVE PauseInv'
  BY <1>7, Grants DEF Unregister, CloseStep
<1>8. ASSUME NEW c \in Conns, HangUp(c) PROVE PauseInv'
  BY <1>8, Grants DEF HangUp, CloseStep
<1>9. ASSUME NEW c \in Conns, ClearSubscribers(c) PROVE PauseInv'
  BY <1>9, Grants DEF ClearSubscribers, CloseStep
<1>10. ASSUME NEW c \in Conns, Finalize(c) PROVE PauseInv'
  BY <1>10, Grants DEF Finalize, CloseStep, Close, IsOpen, Phases
<1>11. ASSUME NEW c \in Conns, EndClose(c) PROVE PauseInv'
  BY <1>11, Grants DEF EndClose, CloseStep
<1>12. ASSUME NEW c \in Conns, MonitorRead(c) PROVE PauseInv'
  BY <1>12, Grants DEF MonitorRead
<1>13. ASSUME NEW c \in Conns, Mirror(c) PROVE PauseInv'
  BY <1>13, Grants DEF Mirror
<1>14. ASSUME NEW c \in Conns, MirrorClosed(c) PROVE PauseInv'
  BY <1>14, Grants DEF MirrorClosed
<1>15. ASSUME NEW c \in Conns, MonitorCloses(c) PROVE PauseInv'
  BY <1>15, Grants DEF MonitorCloses
<1>16. ASSUME NEW c \in Conns, Streaming(c) PROVE PauseInv'
  BY <1>16, Grants DEF Streaming, GateBeforeRead, ReadChunk, GateBeforeSend,
         SendChunk, EndStream, Advance
<1>17. ASSUME NEW o \in Observers, ObserverArrives(o) PROVE PauseInv'
  BY <1>17, Grants DEF ObserverArrives, Pruned, Occupied
<1>18. ASSUME NEW o \in Observers, ObserverAttaches(o) PROVE PauseInv'
  BY <1>18, Grants DEF ObserverAttaches
<1>19. ASSUME NEW o \in Observers, ObserverLeaves(o) PROVE PauseInv'
  BY <1>19, Grants DEF ObserverLeaves
<1>20. CASE UNCHANGED vars
  BY <1>20 DEF vars
<1> QED
  BY <1>1, <1>2, <1>3, <1>4, <1>5, <1>6, <1>7, <1>8, <1>9, <1>10, <1>11,
     <1>12, <1>13, <1>14, <1>15, <1>16, <1>17, <1>18, <1>19, <1>20
  DEF Next, Handshake, Closing, Monitoring, Observing

(* The monitor of a running runtime finds a row, and its last act is to    *)
(* see to the close.                                                       *)
LEMMA MonitorStep ==
  TypeOK /\ MonitorInv /\ [Next]_vars => MonitorInv'
<1> SUFFICES ASSUME TypeOK, MonitorInv, [Next]_vars PROVE MonitorInv'
  OBVIOUS
<1> USE DEF TypeOK, StatusTypeOK, Phases, MonitorInv, statusVars, connVars,
            closeVars, pauseVars, observeVars
<1>1. ASSUME NEW s \in Sessions, ControlPlane(s) PROVE MonitorInv'
  BY <1>1, Grants DEF ControlPlane, Start, Pause, Resume, Move, Close,
         IsOpen, Phases
<1>2. ASSUME NEW c \in Conns, ControlArrives(c) PROVE MonitorInv'
  BY <1>2, Grants DEF ControlArrives, Pruned, Occupied
<1>3. ASSUME NEW c \in Conns, Dial(c) PROVE MonitorInv'
  BY <1>3, Grants DEF Dial
<1>4. ASSUME NEW c \in Conns, Register(c) PROVE MonitorInv'
  BY <1>4, Grants DEF Register, Occupied
<1>5. ASSUME NEW c \in Conns, Run(c) PROVE MonitorInv'
  BY <1>5, Grants DEF Run
<1>6. ASSUME NEW c \in Conns, BeginClose(c) PROVE MonitorInv'
  BY <1>6, Grants DEF BeginClose, CloseStep
<1>7. ASSUME NEW c \in Conns, Unregister(c) PROVE MonitorInv'
  BY <1>7, Grants DEF Unregister, CloseStep
<1>8. ASSUME NEW c \in Conns, HangUp(c) PROVE MonitorInv'
  BY <1>8, Grants DEF HangUp, CloseStep
<1>9. ASSUME NEW c \in Conns, ClearSubscribers(c) PROVE MonitorInv'
  BY <1>9, Grants DEF ClearSubscribers, CloseStep
<1>10. ASSUME NEW c \in Conns, Finalize(c) PROVE MonitorInv'
  BY <1>10, Grants DEF Finalize, CloseStep, Close, IsOpen, Phases
<1>11. ASSUME NEW c \in Conns, EndClose(c) PROVE MonitorInv'
  BY <1>11, Grants DEF EndClose, CloseStep
<1>12. ASSUME NEW c \in Conns, MonitorRead(c) PROVE MonitorInv'
  BY <1>12, Grants DEF MonitorRead
<1>13. ASSUME NEW c \in Conns, Mirror(c) PROVE MonitorInv'
  BY <1>13, Grants DEF Mirror
<1>14. ASSUME NEW c \in Conns, MirrorClosed(c) PROVE MonitorInv'
  BY <1>14, Grants DEF MirrorClosed
<1>15. ASSUME NEW c \in Conns, MonitorCloses(c) PROVE MonitorInv'
  BY <1>15, Grants DEF MonitorCloses
<1>16. ASSUME NEW c \in Conns, Streaming(c) PROVE MonitorInv'
  BY <1>16, Grants DEF Streaming, GateBeforeRead, ReadChunk, GateBeforeSend,
         SendChunk, EndStream, Advance
<1>17. ASSUME NEW o \in Observers, ObserverArrives(o) PROVE MonitorInv'
  BY <1>17, Grants DEF ObserverArrives, Pruned, Occupied
<1>18. ASSUME NEW o \in Observers, ObserverAttaches(o) PROVE MonitorInv'
  BY <1>18, Grants DEF ObserverAttaches
<1>19. ASSUME NEW o \in Observers, ObserverLeaves(o) PROVE MonitorInv'
  BY <1>19, Grants DEF ObserverLeaves
<1>20. CASE UNCHANGED vars
  BY <1>20 DEF vars
<1> QED
  BY <1>1, <1>2, <1>3, <1>4, <1>5, <1>6, <1>7, <1>8, <1>9, <1>10, <1>11,
     <1>12, <1>13, <1>14, <1>15, <1>16, <1>17, <1>18, <1>19, <1>20
  DEF Next, Handshake, Closing, Monitoring, Observing

-----------------------------------------------------------------------------
(* The induction the theorems below share.                                 *)
Inv == TypeOK /\ RowInv /\ RegistryInv /\ CloseInv /\ PauseInv /\ MonitorInv
         /\ SeatInv

LEMMA Invariance == Spec => []Inv
<1>1. Init => Inv
  BY Grants
  DEF Init, StatusInit, Inv, TypeOK, StatusTypeOK, NoReason, Phases, Stages,
      CloseSteps, Polls, Positions, Seats, RowInv, RegistryInv,
      ExclusiveControl, Controlling, CloseInv, PauseInv, MonitorInv, SeatInv
<1>2. Inv /\ [Next]_vars => Inv'
  BY TypeStep, RowStep, RegistryStep, CloseStepInv, PauseStep, MonitorStep,
     SeatStep DEF Inv
<1> QED
  BY <1>1, <1>2, PTL DEF Spec

(* Every variable keeps its type; in particular no session row, polled and *)
(* finalized by the broker while others close it, is audited twice.        *)
THEOREM TypeCorrect == Spec => []TypeOK
<1>1. Inv => TypeOK
  BY DEF Inv
<1> QED
  BY <1>1, Invariance, PTL

(* Of any number of connections that dial for one session at the same      *)
(* time, one controls it, and it is the one the registry names.            *)
THEOREM ExclusiveControlHolds == Spec => []ExclusiveControl
<1>1. Inv => ExclusiveControl
  BY DEF Inv, RegistryInv
<1> QED
  BY <1>1, Invariance, PTL

(* A closed runtime leaves a closed row, unless its finalization failed:   *)
(* the monitor marks a close external only when the row is closed already. *)
THEOREM ClosedRuntimeClosesRowHolds == Spec => []ClosedRuntimeClosesRow
<1>1. Inv => ClosedRuntimeClosesRow
  BY DEF Inv, CloseInv, ClosedRuntimeClosesRow
<1> QED
  BY <1>1, Invariance, PTL

(* A runtime that nobody has closed has a monitor that can apply what the  *)
(* row says: the safety half of ClosedRowEndsRuntime and                   *)
(* PauseReachesRuntime.                                                    *)
THEOREM RuntimeHasMonitorHolds == Spec => []RuntimeHasMonitor
<1>1. Inv => RuntimeHasMonitor
  BY DEF Inv, TypeOK, Polls, Phases, MonitorInv, RuntimeHasMonitor
<1> QED
  BY <1>1, Invariance, PTL

(* No chunk that was read before a pause passes the second gate while the  *)
(* pause lasts, until the row is seen closed.                              *)
THEOREM PauseHoldsOutputHolds == Spec => PauseHoldsOutput
<1>1. ASSUME Inv, [Next]_vars, NEW c \in Conns,
             output[c] = "held", output'[c] = "passed"
      PROVE  ~frozen[c] \/ external[c]
  <2> USE DEF Inv, TypeOK, observeVars
  <2>1. ASSUME NEW d \in Conns, Streaming(d) PROVE ~paused[c]
    <3>1. d = c
      BY <1>1, <2>1 DEF Streaming, GateBeforeRead, ReadChunk, GateBeforeSend,
                        SendChunk, EndStream, Advance
    <3> QED
      BY <1>1, <2>1, <3>1
      DEF Streaming, GateBeforeRead, ReadChunk, GateBeforeSend, SendChunk,
          EndStream, Advance
  <2>2. ASSUME NEW d \in Conns, Handshake(d) \/ Closing(d) \/ Monitoring(d)
        PROVE  UNCHANGED output
    BY <2>2 DEF Handshake, ControlArrives, Dial, Register, Run, BeginClose,
                Closing, Unregister, HangUp, ClearSubscribers, Finalize,
                EndClose, Monitoring, MonitorRead, Mirror, MirrorClosed,
                MonitorCloses
  <2>3. ASSUME NEW s \in Sessions, ControlPlane(s) PROVE UNCHANGED output
    BY <2>3 DEF ControlPlane
  <2>4. ASSUME NEW o \in Observers, Observing(o) PROVE UNCHANGED output
    BY <2>4 DEF Observing, ObserverArrives, ObserverAttaches, ObserverLeaves
  <2>5. ~paused[c]
    BY <1>1, <2>1, <2>2, <2>3, <2>4 DEF Next, vars
  <2> QED
    BY <2>5, <1>1 DEF PauseInv
<1>2. Inv /\ [Next]_vars
        => [\A c \in Conns : output[c] = "held" /\ output'[c] = "passed"
                                => ~frozen[c] \/ external[c]]_vars
  BY <1>1
<1> QED
  BY <1>2, Invariance, PTL DEF Spec, PauseHoldsOutput
=============================================================================
