------------------------- MODULE DesktopPipe_proofs -------------------------
(***************************************************************************)
(* Theorems about DesktopPipe, for any number of rows, pipes and messages. *)
(*                                                                         *)
(* The argument for the buffer: at any time one place holds the buffered   *)
(* messages that are still to be sent (the buffer, the handler of "ready", *)
(* or one of the two flushes), so nobody sends past anybody (Holder). It   *)
(* stays so because the reader stops buffering in the critical section in  *)
(* which the handler takes the buffer over, and because every place is     *)
(* emptied before its goroutine fills it again (Positions).                *)
(***************************************************************************)
EXTENDS DesktopPipe, SequenceTheorems, TLAPS

(* A row is audited when it is closed, and not before.                     *)
RowInv == \A s \in Sessions : ends[s] = (IF phase[s] = "CLOSED" THEN 1 ELSE 0)

(* Which place may hold messages, from the position of its goroutine.      *)
PlaceAt(rd, at, mon, tk, ob, mb) ==
  /\ at \in {"handshake", "recorded"} => ~rd
  /\ at \in {"announcing", "restored", "resumed", "flushing"} => rd
  /\ tk # <<>> => at \in {"announcing", "failing", "told", "ended"}
  /\ ob # <<>> => at \in {"flushing", "failing", "told", "ended"}
  /\ mb # <<>> => mon \in {"flushing", "stopped"}
  /\ ~rd => tk = <<>> /\ ob = <<>> /\ mb = <<>>

Positions ==
  \A p \in Pipes :
    PlaceAt(ready[p], output[p], monitor[p], taken[p], outBatch[p], monBatch[p])

(* One place at most holds messages, and they complete what was sent.      *)
HolderAt(rd, pd, tk, ob, mb, fl, kp) ==
  /\ ~rd => fl = <<>> /\ pd = kp
  /\ ob # <<>> => mb = <<>> /\ tk = <<>> /\ pd = <<>> /\ fl \o ob = kp
  /\ mb # <<>> => tk = <<>> /\ pd = <<>> /\ fl \o mb = kp
  /\ tk # <<>> => pd = <<>> /\ fl \o tk = kp
  /\ pd # <<>> => fl \o pd = kp
  /\ ob = <<>> /\ mb = <<>> /\ tk = <<>> /\ pd = <<>> => fl = kp

Holder ==
  \A p \in Pipes :
    HolderAt(ready[p], pending[p], taken[p], outBatch[p], monBatch[p], flushed[p],
             kept[p])

(* What has leaked during a pause, with what has passed the check and may  *)
(* still leak.                                                             *)
LeakInv ==
  \A p \in Pipes :
    /\ ~paused[p] => leakedIn[p] = 0 /\ leakedOut[p] = 0
    /\ leakedIn[p] <= 1 /\ leakedOut[p] <= 1
    /\ paused[p] /\ input[p] \in {"checked", "direct"} => leakedIn[p] = 0
    /\ paused[p] /\ output[p] = "passed" => leakedOut[p] = 0

(* One direction has told the browser of an error when it has ended or is  *)
(* about to; no error reaches it once the pipe is closed.                  *)
InputTold(p)  == input[p] \in {"told", "ended"}
OutputTold(p) == output[p] \in {"relayed", "told", "ended"} \/ closed[p]

(* The errors of a pause, with the directions that may have told them.     *)
ErrorInv ==
  \A p \in Pipes :
    /\ ~paused[p] => leakedErrors[p] = 0
    /\ leakedErrors[p] <= (IF InputTold(p) THEN 1 ELSE 0)
                            + (IF OutputTold(p) THEN 1 ELSE 0)

(* A pipe is closed by whoever ends one of its goroutines, and its reader  *)
(* of guacd is the last to end.                                            *)
Ended ==
  /\ EndedPipeHasFinalizer
  /\ \A p \in Pipes : output[p] = "ended" => stage[p] \in {"ended", "finalized"}

(* Once guacd is ready, what is in the buffer waits for the handler of     *)
(* "ready", for the end of a pause, or for nothing any more.               *)
Watched ==
  \A p \in Pipes :
    ready[p] /\ pending[p] # <<>>
      => \/ output[p] \in {"restored", "resumed"}
         \/ paused[p] /\ monitor[p] # "stopped"
         \/ monitor[p] = "resumed"
         \/ closed[p]

Inv ==
  TypeOK /\ RowInv /\ Positions /\ Holder /\ LeakInv /\ ErrorInv /\ Ended /\ Watched

-----------------------------------------------------------------------------
(* What the assumptions say of the rows that pipes follow.                 *)
LEMMA Rows ==
  /\ \A p \in Pipes : RowOf[p] \in Sessions
  /\ {"admin_terminated", "guac_close"} \subseteq Reasons
BY PipeAssumption

(* What was buffered last is there.                                        *)
LEMMA AppendNotEmpty ==
  ASSUME NEW s \in Seq(Nat), NEW n \in Nat
  PROVE  Append(s, n) # <<>>
BY AppendProperties, ZenonT(60)

(* Sending the first message of what is left.                              *)
LEMMA SendFirst ==
  ASSUME NEW f \in Seq(Nat), NEW b \in Seq(Nat), b # <<>>
  PROVE  /\ Head(b) \in Nat /\ Tail(b) \in Seq(Nat)
         /\ Append(f, Head(b)) \in Seq(Nat)
         /\ Append(f, Head(b)) \o Tail(b) = f \o b
         /\ Tail(b) = <<>> => Append(f, Head(b)) = f \o b
<1> DEFINE lhs == Append(f, Head(b)) \o Tail(b)
           rhs == f \o b
<1>1. Head(b) \in Nat /\ Tail(b) \in Seq(Nat)
  BY HeadTailProperties
<1>2. Append(f, Head(b)) \in Seq(Nat)
  BY <1>1, AppendProperties
<1>3. lhs = rhs
  <2>1. lhs \in Seq(Nat) /\ rhs \in Seq(Nat)
    BY <1>1, <1>2
  <2>2. Len(lhs) = Len(rhs)
    OBVIOUS
  <2>3. \A i \in 1 .. Len(lhs) : lhs[i] = rhs[i]
    BY SMTT(30)
  <2> QED
    BY <2>1, <2>2, <2>3, SeqEqual, Zenon
<1>4. Append(f, Head(b)) \o <<>> = Append(f, Head(b))
  BY <1>2, ConcatEmptySeq
<1> QED
  BY <1>1, <1>2, <1>3, <1>4

-----------------------------------------------------------------------------
(* A row is closed once: no step audits a closed row.                      *)
LEMMA RowStep ==
  ASSUME TypeOK, RowInv, [Next]_vars
  PROVE  RowInv'
<1> USE DEF TypeOK, RunTypeOK, BufferTypeOK, statusVars, runVars, pauseVars,
    bufferVars, leakVars, StatusTypeOK, RowInv
<1>1. ASSUME NEW s \in Sessions, ControlPlane(s) PROVE RowInv'
  BY <1>1, Rows DEF ControlPlane, Start, Pause, Resume, Move, Close, IsOpen, Phases
<1>2. ASSUME NEW p \in Pipes, Open(p) PROVE RowInv'
  BY <1>2, Rows DEF Open, CloseAll
<1>3. ASSUME NEW p \in Pipes, Finalize(p) PROVE RowInv'
  BY <1>3, Rows DEF Finalize, Close, IsOpen, Phases
<1>4. ASSUME NEW p \in Pipes, ReadMessage(p) PROVE RowInv'
  BY <1>4, Rows DEF ReadMessage, InputStep
<1>5. ASSUME NEW p \in Pipes, CheckPaused(p) PROVE RowInv'
  BY <1>5, Rows DEF CheckPaused, InputStep
<1>6. ASSUME NEW p \in Pipes, BufferInput(p) PROVE RowInv'
  BY <1>6, Rows DEF BufferInput, InputStep
<1>7. ASSUME NEW p \in Pipes, WriteDirect(p) PROVE RowInv'
  BY <1>7, Rows DEF WriteDirect, InputStep, CountLeak
<1>8. ASSUME NEW p \in Pipes, InputEnds(p) PROVE RowInv'
  BY <1>8, Rows DEF InputEnds, InputStep, CloseAll
<1>9. ASSUME NEW p \in Pipes, RecordReady(p) PROVE RowInv'
  BY <1>9, Rows DEF RecordReady, OutputGoes, OutputStep
<1>10. ASSUME NEW p \in Pipes, MarkReady(p) PROVE RowInv'
  BY <1>10, Rows DEF MarkReady, OutputStep
<1>11. ASSUME NEW p \in Pipes, Announce(p) PROVE RowInv'
  BY <1>11, Rows DEF Announce, OutputStep
<1>12. ASSUME NEW p \in Pipes, CheckResumed(p) PROVE RowInv'
  BY <1>12, Rows DEF CheckResumed, OutputGoes, OutputStep
<1>13. ASSUME NEW p \in Pipes, OutputTakes(p) PROVE RowInv'
  BY <1>13, Rows DEF OutputTakes, OutputStep, TakePending
<1>14. ASSUME NEW p \in Pipes, OutputFlushes(p) PROVE RowInv'
  BY <1>14, Rows DEF OutputFlushes, OutputGoes, OutputStep, WritePending
<1>15. ASSUME NEW p \in Pipes, GateBeforeRead(p) PROVE RowInv'
  BY <1>15, Rows DEF GateBeforeRead, OutputGoes, OutputStep
<1>16. ASSUME NEW p \in Pipes, ReadInstructions(p) PROVE RowInv'
  BY <1>16, Rows DEF ReadInstructions, OutputGoes, OutputStep
<1>17. ASSUME NEW p \in Pipes, GateBeforeSend(p) PROVE RowInv'
  BY <1>17, Rows DEF GateBeforeSend, OutputGoes, OutputStep
<1>18. ASSUME NEW p \in Pipes, SendInstruction(p) PROVE RowInv'
  BY <1>18, Rows DEF SendInstruction, OutputStep, CountLeak
<1>19. ASSUME NEW p \in Pipes, EndOutput(p) PROVE RowInv'
  BY <1>19, Rows DEF EndOutput, ReturnFrom, OutputStep, CloseAll
<1>20. ASSUME NEW p \in Pipes, QueryState(p) PROVE RowInv'
  BY <1>20, Rows DEF QueryState, MonitorStep
<1>21. ASSUME NEW p \in Pipes, Mirror(p) PROVE RowInv'
  BY <1>21, Rows DEF Mirror, MonitorStep
<1>22. ASSUME NEW p \in Pipes, MonitorTakes(p) PROVE RowInv'
  BY <1>22, Rows DEF MonitorTakes, MonitorStep, TakePending
<1>23. ASSUME NEW p \in Pipes, MonitorFlushes(p) PROVE RowInv'
  BY <1>23, Rows DEF MonitorFlushes, MonitorStep, WritePending, CloseAll
<1>24. ASSUME NEW p \in Pipes, MonitorGoesOn(p) PROVE RowInv'
  BY <1>24, Rows DEF MonitorGoesOn, MonitorStep, CloseAll
<1>25. ASSUME NEW p \in Pipes, TellInputFailed(p) PROVE RowInv'
  BY <1>25, Rows DEF TellInputFailed, InputStep, TellError, CountLeak
<1>26. ASSUME NEW p \in Pipes, NextInstruction(p) PROVE RowInv'
  BY <1>26, Rows DEF NextInstruction, OutputGoes, OutputStep
<1>27. ASSUME NEW p \in Pipes, HandshakeError(p) PROVE RowInv'
  BY <1>27, Rows DEF HandshakeError, OutputGoes, OutputStep
<1>28. ASSUME NEW p \in Pipes, OutputFails(p) PROVE RowInv'
  BY <1>28, Rows DEF OutputFails, OutputGoes, OutputStep
<1>29. ASSUME NEW p \in Pipes, RelayError(p) PROVE RowInv'
  BY <1>29, Rows DEF RelayError, OutputStep, CountLeak
<1>30. ASSUME NEW p \in Pipes, CloseAfterError(p) PROVE RowInv'
  BY <1>30, Rows DEF CloseAfterError, OutputStep, CloseAll
<1>31. ASSUME NEW p \in Pipes, TellOutputFailed(p) PROVE RowInv'
  BY <1>31, Rows DEF TellOutputFailed, OutputStep, TellError, CountLeak
<1>32. ASSUME NEW p \in Pipes, EndAfterTelling(p) PROVE RowInv'
  BY <1>32, Rows DEF EndAfterTelling, ReturnFrom, OutputStep, CloseAll
<1>33. CASE UNCHANGED vars
  BY <1>33 DEF vars
<1> QED
  BY <1>1, <1>2, <1>3, <1>4, <1>5, <1>6, <1>7, <1>8, <1>9, <1>10, <1>11, <1>12,
     <1>13, <1>14, <1>15, <1>16, <1>17, <1>18, <1>19, <1>20, <1>21, <1>22, <1>23,
     <1>24, <1>25, <1>26, <1>27, <1>28, <1>29, <1>30, <1>31, <1>32, <1>33
     DEF Next, Reading, GettingReady, Sending, Monitoring

(* Every action keeps the types of the rows, ...                           *)
LEMMA StatusTypeStep ==
  ASSUME StatusTypeOK, RowInv, [Next]_vars
  PROVE  StatusTypeOK'
<1> USE DEF TypeOK, RunTypeOK, BufferTypeOK, statusVars, runVars, pauseVars,
    bufferVars, leakVars, StatusTypeOK, RowInv
<1>1. ASSUME NEW s \in Sessions, ControlPlane(s) PROVE StatusTypeOK'
  BY <1>1, Rows DEF ControlPlane, Start, Pause, Resume, Move, Close, IsOpen, Phases
<1>2. ASSUME NEW p \in Pipes, Open(p) PROVE StatusTypeOK'
  BY <1>2, Rows DEF Open, CloseAll
<1>3. ASSUME NEW p \in Pipes, Finalize(p) PROVE StatusTypeOK'
  BY <1>3, Rows DEF Finalize, Close, IsOpen, Phases
<1>4. ASSUME NEW p \in Pipes, ReadMessage(p) PROVE StatusTypeOK'
  BY <1>4, Rows DEF ReadMessage, InputStep
<1>5. ASSUME NEW p \in Pipes, CheckPaused(p) PROVE StatusTypeOK'
  BY <1>5, Rows DEF CheckPaused, InputStep
<1>6. ASSUME NEW p \in Pipes, BufferInput(p) PROVE StatusTypeOK'
  BY <1>6, Rows DEF BufferInput, InputStep
<1>7. ASSUME NEW p \in Pipes, WriteDirect(p) PROVE StatusTypeOK'
  BY <1>7, Rows DEF WriteDirect, InputStep, CountLeak
<1>8. ASSUME NEW p \in Pipes, InputEnds(p) PROVE StatusTypeOK'
  BY <1>8, Rows DEF InputEnds, InputStep, CloseAll
<1>9. ASSUME NEW p \in Pipes, RecordReady(p) PROVE StatusTypeOK'
  BY <1>9, Rows DEF RecordReady, OutputGoes, OutputStep
<1>10. ASSUME NEW p \in Pipes, MarkReady(p) PROVE StatusTypeOK'
  BY <1>10, Rows DEF MarkReady, OutputStep
<1>11. ASSUME NEW p \in Pipes, Announce(p) PROVE StatusTypeOK'
  BY <1>11, Rows DEF Announce, OutputStep
<1>12. ASSUME NEW p \in Pipes, CheckResumed(p) PROVE StatusTypeOK'
  BY <1>12, Rows DEF CheckResumed, OutputGoes, OutputStep
<1>13. ASSUME NEW p \in Pipes, OutputTakes(p) PROVE StatusTypeOK'
  BY <1>13, Rows DEF OutputTakes, OutputStep, TakePending
<1>14. ASSUME NEW p \in Pipes, OutputFlushes(p) PROVE StatusTypeOK'
  BY <1>14, Rows DEF OutputFlushes, OutputGoes, OutputStep, WritePending
<1>15. ASSUME NEW p \in Pipes, GateBeforeRead(p) PROVE StatusTypeOK'
  BY <1>15, Rows DEF GateBeforeRead, OutputGoes, OutputStep
<1>16. ASSUME NEW p \in Pipes, ReadInstructions(p) PROVE StatusTypeOK'
  BY <1>16, Rows DEF ReadInstructions, OutputGoes, OutputStep
<1>17. ASSUME NEW p \in Pipes, GateBeforeSend(p) PROVE StatusTypeOK'
  BY <1>17, Rows DEF GateBeforeSend, OutputGoes, OutputStep
<1>18. ASSUME NEW p \in Pipes, SendInstruction(p) PROVE StatusTypeOK'
  BY <1>18, Rows DEF SendInstruction, OutputStep, CountLeak
<1>19. ASSUME NEW p \in Pipes, EndOutput(p) PROVE StatusTypeOK'
  BY <1>19, Rows DEF EndOutput, ReturnFrom, OutputStep, CloseAll
<1>20. ASSUME NEW p \in Pipes, QueryState(p) PROVE StatusTypeOK'
  BY <1>20, Rows DEF QueryState, MonitorStep
<1>21. ASSUME NEW p \in Pipes, Mirror(p) PROVE StatusTypeOK'
  BY <1>21, Rows DEF Mirror, MonitorStep
<1>22. ASSUME NEW p \in Pipes, MonitorTakes(p) PROVE StatusTypeOK'
  BY <1>22, Rows DEF MonitorTakes, MonitorStep, TakePending
<1>23. ASSUME NEW p \in Pipes, MonitorFlushes(p) PROVE StatusTypeOK'
  BY <1>23, Rows DEF MonitorFlushes, MonitorStep, WritePending, CloseAll
<1>24. ASSUME NEW p \in Pipes, MonitorGoesOn(p) PROVE StatusTypeOK'
  BY <1>24, Rows DEF MonitorGoesOn, MonitorStep, CloseAll
<1>25. ASSUME NEW p \in Pipes, TellInputFailed(p) PROVE StatusTypeOK'
  BY <1>25, Rows DEF TellInputFailed, InputStep, TellError, CountLeak
<1>26. ASSUME NEW p \in Pipes, NextInstruction(p) PROVE StatusTypeOK'
  BY <1>26, Rows DEF NextInstruction, OutputGoes, OutputStep
<1>27. ASSUME NEW p \in Pipes, HandshakeError(p) PROVE StatusTypeOK'
  BY <1>27, Rows DEF HandshakeError, OutputGoes, OutputStep
<1>28. ASSUME NEW p \in Pipes, OutputFails(p) PROVE StatusTypeOK'
  BY <1>28, Rows DEF OutputFails, OutputGoes, OutputStep
<1>29. ASSUME NEW p \in Pipes, RelayError(p) PROVE StatusTypeOK'
  BY <1>29, Rows DEF RelayError, OutputStep, CountLeak
<1>30. ASSUME NEW p \in Pipes, CloseAfterError(p) PROVE StatusTypeOK'
  BY <1>30, Rows DEF CloseAfterError, OutputStep, CloseAll
<1>31. ASSUME NEW p \in Pipes, TellOutputFailed(p) PROVE StatusTypeOK'
  BY <1>31, Rows DEF TellOutputFailed, OutputStep, TellError, CountLeak
<1>32. ASSUME NEW p \in Pipes, EndAfterTelling(p) PROVE StatusTypeOK'
  BY <1>32, Rows DEF EndAfterTelling, ReturnFrom, OutputStep, CloseAll
<1>33. CASE UNCHANGED vars
  BY <1>33 DEF vars
<1> QED
  BY <1>1, <1>2, <1>3, <1>4, <1>5, <1>6, <1>7, <1>8, <1>9, <1>10, <1>11, <1>12,
     <1>13, <1>14, <1>15, <1>16, <1>17, <1>18, <1>19, <1>20, <1>21, <1>22, <1>23,
     <1>24, <1>25, <1>26, <1>27, <1>28, <1>29, <1>30, <1>31, <1>32, <1>33
     DEF Next, Reading, GettingReady, Sending, Monitoring

(* ... of the goroutines and their flags, ...                              *)
LEMMA RunTypeStep ==
  ASSUME TypeOK, [Next]_vars
  PROVE  RunTypeOK'
<1> USE DEF TypeOK, RunTypeOK, BufferTypeOK, statusVars, runVars, pauseVars,
    bufferVars, leakVars, StatusTypeOK, Phases, Stages, Monitors, Inputs, Outputs
<1>0. ASSUME NEW p \in Pipes PROVE TellError(p) => leakedErrors' \in [Pipes -> Nat]
  <2>1. leakedErrors[p] \in Nat /\ leakedErrors[p] + 1 \in Nat
    OBVIOUS
  <2>2. CountLeak(p, leakedErrors) \in [Pipes -> Nat]
    BY <2>1 DEF CountLeak
  <2> QED
    BY <2>2 DEF TellError
<1>1. ASSUME NEW s \in Sessions, ControlPlane(s) PROVE RunTypeOK'
  BY <1>1, Rows DEF ControlPlane, Start, Pause, Resume, Move, Close, IsOpen, Phases
<1>2. ASSUME NEW p \in Pipes, Open(p) PROVE RunTypeOK'
  BY <1>2, Rows, ZenonT(60) DEF Open, CloseAll
<1>3. ASSUME NEW p \in Pipes, Finalize(p) PROVE RunTypeOK'
  BY <1>3, Rows, ZenonT(60) DEF Finalize, Close, IsOpen, Phases
<1>4. ASSUME NEW p \in Pipes, ReadMessage(p) PROVE RunTypeOK'
  BY <1>4, Rows DEF ReadMessage, InputStep
<1>5. ASSUME NEW p \in Pipes, CheckPaused(p) PROVE RunTypeOK'
  BY <1>5, Rows DEF CheckPaused, InputStep
<1>6. ASSUME NEW p \in Pipes, BufferInput(p) PROVE RunTypeOK'
  BY <1>6, Rows, ZenonT(60) DEF BufferInput, InputStep
<1>7. ASSUME NEW p \in Pipes, WriteDirect(p) PROVE RunTypeOK'
  <2>1. leakedIn' \in [Pipes -> Nat]
    <3>1. leakedIn' = CountLeak(p, leakedIn) \/ leakedIn' = leakedIn
      BY <1>7 DEF WriteDirect
    <3>2. leakedIn[p] \in Nat /\ leakedIn[p] + 1 \in Nat
      OBVIOUS
    <3>3. CountLeak(p, leakedIn) \in [Pipes -> Nat]
      BY <3>2 DEF CountLeak
    <3> QED
      BY <3>1, <3>3
  <2>2. closed' \in [Pipes -> BOOLEAN] /\ input' \in [Pipes -> Inputs]
    BY <1>7, ZenonT(60) DEF WriteDirect, InputStep, CloseAll
  <2> QED
    BY <1>7, <2>1, <2>2 DEF WriteDirect
<1>8. ASSUME NEW p \in Pipes, InputEnds(p) PROVE RunTypeOK'
  BY <1>8, Rows DEF InputEnds, InputStep, CloseAll
<1>9. ASSUME NEW p \in Pipes, RecordReady(p) PROVE RunTypeOK'
  BY <1>9, Rows DEF RecordReady, OutputGoes, OutputStep
<1>10. ASSUME NEW p \in Pipes, MarkReady(p) PROVE RunTypeOK'
  BY <1>10, Rows DEF MarkReady, OutputStep
<1>11. ASSUME NEW p \in Pipes, Announce(p) PROVE RunTypeOK'
  BY <1>11, Rows DEF Announce, OutputStep
<1>12. ASSUME NEW p \in Pipes, CheckResumed(p) PROVE RunTypeOK'
  BY <1>12, Rows DEF CheckResumed, OutputGoes, OutputStep
<1>13. ASSUME NEW p \in Pipes, OutputTakes(p) PROVE RunTypeOK'
  BY <1>13, Rows DEF OutputTakes, OutputStep, TakePending
<1>14. ASSUME NEW p \in Pipes, OutputFlushes(p) PROVE RunTypeOK'
  BY <1>14, Rows, ZenonT(60) DEF OutputFlushes, OutputGoes, OutputStep, WritePending
<1>15. ASSUME NEW p \in Pipes, GateBeforeRead(p) PROVE RunTypeOK'
  BY <1>15, Rows DEF GateBeforeRead, OutputGoes, OutputStep
<1>16. ASSUME NEW p \in Pipes, ReadInstructions(p) PROVE RunTypeOK'
  BY <1>16, Rows DEF ReadInstructions, OutputGoes, OutputStep
<1>17. ASSUME NEW p \in Pipes, GateBeforeSend(p) PROVE RunTypeOK'
  BY <1>17, Rows DEF GateBeforeSend, OutputGoes, OutputStep
<1>18. ASSUME NEW p \in Pipes, SendInstruction(p) PROVE RunTypeOK'
  <2>1. CASE paused[p]
    BY <1>18, <2>1, SMTT(60) DEF SendInstruction, OutputStep, CountLeak
  <2>2. CASE ~paused[p]
    BY <1>18, <2>2 DEF SendInstruction, OutputStep, CountLeak
  <2> QED
    BY <2>1, <2>2
<1>19. ASSUME NEW p \in Pipes, EndOutput(p) PROVE RunTypeOK'
  BY <1>19, Rows, ZenonT(60) DEF EndOutput, ReturnFrom, OutputStep, CloseAll
<1>20. ASSUME NEW p \in Pipes, QueryState(p) PROVE RunTypeOK'
  BY <1>20, Rows DEF QueryState, MonitorStep
<1>21. ASSUME NEW p \in Pipes, Mirror(p) PROVE RunTypeOK'
  BY <1>21, Rows DEF Mirror, MonitorStep
<1>22. ASSUME NEW p \in Pipes, MonitorTakes(p) PROVE RunTypeOK'
  BY <1>22, Rows, ZenonT(60) DEF MonitorTakes, MonitorStep, TakePending
<1>23. ASSUME NEW p \in Pipes, MonitorFlushes(p) PROVE RunTypeOK'
  BY <1>23, Rows, ZenonT(60) DEF MonitorFlushes, MonitorStep, WritePending, CloseAll
<1>24. ASSUME NEW p \in Pipes, MonitorGoesOn(p) PROVE RunTypeOK'
  BY <1>24, Rows, ZenonT(60) DEF MonitorGoesOn, MonitorStep, CloseAll
<1>25. ASSUME NEW p \in Pipes, TellInputFailed(p) PROVE RunTypeOK'
  BY <1>0, <1>25 DEF TellInputFailed, InputStep
<1>26. ASSUME NEW p \in Pipes, NextInstruction(p) PROVE RunTypeOK'
  BY <1>26, Rows, SMTT(60) DEF NextInstruction, OutputGoes, OutputStep
<1>27. ASSUME NEW p \in Pipes, HandshakeError(p) PROVE RunTypeOK'
  BY <1>27, Rows DEF HandshakeError, OutputGoes, OutputStep
<1>28. ASSUME NEW p \in Pipes, OutputFails(p) PROVE RunTypeOK'
  BY <1>28, Rows, SMTT(60) DEF OutputFails, OutputGoes, OutputStep
<1>29. ASSUME NEW p \in Pipes, RelayError(p) PROVE RunTypeOK'
  BY <1>29, Rows, SMTT(60) DEF RelayError, OutputStep, CountLeak
<1>30. ASSUME NEW p \in Pipes, CloseAfterError(p) PROVE RunTypeOK'
  BY <1>30, Rows DEF CloseAfterError, OutputStep, CloseAll
<1>31. ASSUME NEW p \in Pipes, TellOutputFailed(p) PROVE RunTypeOK'
  BY <1>0, <1>31 DEF TellOutputFailed, OutputStep
<1>32. ASSUME NEW p \in Pipes, EndAfterTelling(p) PROVE RunTypeOK'
  BY <1>32, Rows DEF EndAfterTelling, ReturnFrom, OutputStep, CloseAll
<1>33. CASE UNCHANGED vars
  BY <1>33 DEF vars
<1> QED
  BY <1>1, <1>2, <1>3, <1>4, <1>5, <1>6, <1>7, <1>8, <1>9, <1>10, <1>11, <1>12,
     <1>13, <1>14, <1>15, <1>16, <1>17, <1>18, <1>19, <1>20, <1>21, <1>22, <1>23,
     <1>24, <1>25, <1>26, <1>27, <1>28, <1>29, <1>30, <1>31, <1>32, <1>33
     DEF Next, Reading, GettingReady, Sending, Monitoring

(* ... and of the buffers.                                                 *)
LEMMA BufferTypeStep ==
  ASSUME TypeOK, [Next]_vars
  PROVE  BufferTypeOK'
<1> USE DEF TypeOK, RunTypeOK, BufferTypeOK, statusVars, runVars, pauseVars,
    bufferVars, leakVars
<1>1. ASSUME NEW s \in Sessions, ControlPlane(s) PROVE BufferTypeOK'
  BY <1>1 DEF ControlPlane, Start, Pause, Resume, Move, Close, IsOpen, Phases
<1>2. ASSUME NEW p \in Pipes, Open(p) PROVE BufferTypeOK'
  BY <1>2 DEF Open, CloseAll
<1>3. ASSUME NEW p \in Pipes, Finalize(p) PROVE BufferTypeOK'
  BY <1>3 DEF Finalize, Close, IsOpen, Phases
<1>4. ASSUME NEW p \in Pipes, ReadMessage(p) PROVE BufferTypeOK'
  BY <1>4, SMTT(60) DEF ReadMessage, InputStep
<1>5. ASSUME NEW p \in Pipes, CheckPaused(p) PROVE BufferTypeOK'
  BY <1>5 DEF CheckPaused, InputStep
<1>6. ASSUME NEW p \in Pipes, BufferInput(p) PROVE BufferTypeOK'
  <2>1. CASE ready[p]
    BY <1>6, <2>1 DEF BufferInput
  <2>2. CASE ~ready[p]
    <3>1. /\ pending[p] \in Seq(Nat) /\ kept[p] \in Seq(Nat) /\ typed[p] \in Nat
      OBVIOUS
    <3>2. /\ Append(pending[p], typed[p]) \in Seq(Nat)
          /\ Append(kept[p], typed[p]) \in Seq(Nat)
      BY <3>1, AppendProperties
    <3> QED
      BY <1>6, <2>2, <3>2, ZenonT(60) DEF BufferInput
  <2> QED
    BY <2>1, <2>2
<1>7. ASSUME NEW p \in Pipes, WriteDirect(p) PROVE BufferTypeOK'
  BY <1>7 DEF WriteDirect, InputStep, CountLeak
<1>8. ASSUME NEW p \in Pipes, InputEnds(p) PROVE BufferTypeOK'
  BY <1>8 DEF InputEnds, InputStep, CloseAll
<1>9. ASSUME NEW p \in Pipes, RecordReady(p) PROVE BufferTypeOK'
  BY <1>9 DEF RecordReady, OutputGoes, OutputStep
<1>10. ASSUME NEW p \in Pipes, MarkReady(p) PROVE BufferTypeOK'
  BY <1>10 DEF MarkReady, OutputStep
<1>11. ASSUME NEW p \in Pipes, Announce(p) PROVE BufferTypeOK'
  BY <1>11 DEF Announce, OutputStep
<1>12. ASSUME NEW p \in Pipes, CheckResumed(p) PROVE BufferTypeOK'
  BY <1>12 DEF CheckResumed, OutputGoes, OutputStep
<1>13. ASSUME NEW p \in Pipes, OutputTakes(p) PROVE BufferTypeOK'
  BY <1>13, EmptySeq, SMTT(60) DEF OutputTakes, OutputStep, TakePending
<1>14. ASSUME NEW p \in Pipes, OutputFlushes(p) PROVE BufferTypeOK'
  <2>1. outBatch[p] \in Seq(Nat) /\ flushed[p] \in Seq(Nat)
    OBVIOUS
  <2>2. CASE UNCHANGED <<typed, bufferVars>>
    BY <2>2
  <2>3. CASE /\ WritePending(p, outBatch)
             /\ UNCHANGED <<typed, ready, pending, taken, monBatch, kept>>
    <3>1. Tail(outBatch[p]) \in Seq(Nat) /\ Append(flushed[p], Head(outBatch[p])) \in Seq(Nat)
      BY <2>1, <2>3, SendFirst DEF WritePending
    <3> QED
      BY <2>3, <3>1 DEF WritePending
  <2> QED
    BY <1>14, <2>2, <2>3 DEF OutputFlushes, OutputGoes
<1>15. ASSUME NEW p \in Pipes, GateBeforeRead(p) PROVE BufferTypeOK'
  BY <1>15 DEF GateBeforeRead, OutputGoes, OutputStep
<1>16. ASSUME NEW p \in Pipes, ReadInstructions(p) PROVE BufferTypeOK'
  BY <1>16 DEF ReadInstructions, OutputGoes, OutputStep
<1>17. ASSUME NEW p \in Pipes, GateBeforeSend(p) PROVE BufferTypeOK'
  BY <1>17 DEF GateBeforeSend, OutputGoes, OutputStep
<1>18. ASSUME NEW p \in Pipes, SendInstruction(p) PROVE BufferTypeOK'
  BY <1>18 DEF SendInstruction, OutputStep, CountLeak
<1>19. ASSUME NEW p \in Pipes, EndOutput(p) PROVE BufferTypeOK'
  BY <1>19 DEF EndOutput, ReturnFrom, OutputStep, CloseAll
<1>20. ASSUME NEW p \in Pipes, QueryState(p) PROVE BufferTypeOK'
  BY <1>20 DEF QueryState, MonitorStep
<1>21. ASSUME NEW p \in Pipes, Mirror(p) PROVE BufferTypeOK'
  BY <1>21 DEF Mirror, MonitorStep
<1>22. ASSUME NEW p \in Pipes, MonitorTakes(p) PROVE BufferTypeOK'
  <2>1. CASE ~ready[p]
    BY <1>22, <2>1 DEF MonitorTakes
  <2>2. CASE ready[p]
    <3>1. pending[p] \in Seq(Nat) /\ <<>> \in Seq(Nat)
      BY EmptySeq
    <3> QED
      BY <1>22, <2>2, <3>1, ZenonT(60) DEF MonitorTakes, TakePending
  <2> QED
    BY <2>1, <2>2
<1>23. ASSUME NEW p \in Pipes, MonitorFlushes(p) PROVE BufferTypeOK'
  <2>1. monBatch[p] \in Seq(Nat) /\ flushed[p] \in Seq(Nat)
    OBVIOUS
  <2>2. CASE UNCHANGED <<typed, bufferVars>>
    BY <2>2
  <2>3. CASE /\ WritePending(p, monBatch)
             /\ UNCHANGED <<typed, ready, pending, taken, outBatch, kept>>
    <3>1. Tail(monBatch[p]) \in Seq(Nat) /\ Append(flushed[p], Head(monBatch[p])) \in Seq(Nat)
      BY <2>1, <2>3, SendFirst DEF WritePending
    <3> QED
      BY <2>3, <3>1 DEF WritePending
  <2> QED
    BY <1>23, <2>2, <2>3 DEF MonitorFlushes, MonitorStep
<1>24. ASSUME NEW p \in Pipes, MonitorGoesOn(p) PROVE BufferTypeOK'
  BY <1>24 DEF MonitorGoesOn, MonitorStep, CloseAll
<1>25. ASSUME NEW p \in Pipes, TellInputFailed(p) PROVE BufferTypeOK'
  BY <1>25 DEF TellInputFailed, InputStep, TellError, CountLeak
<1>26. ASSUME NEW p \in Pipes, NextInstruction(p) PROVE BufferTypeOK'
  BY <1>26 DEF NextInstruction, OutputGoes, OutputStep
<1>27. ASSUME NEW p \in Pipes, HandshakeError(p) PROVE BufferTypeOK'
  BY <1>27 DEF HandshakeError, OutputGoes, OutputStep
<1>28. ASSUME NEW p \in Pipes, OutputFails(p) PROVE BufferTypeOK'
  BY <1>28 DEF OutputFails, OutputGoes, OutputStep
<1>29. ASSUME NEW p \in Pipes, RelayError(p) PROVE BufferTypeOK'
  BY <1>29 DEF RelayError, OutputStep, CountLeak
<1>30. ASSUME NEW p \in Pipes, CloseAfterError(p) PROVE BufferTypeOK'
  BY <1>30 DEF CloseAfterError, OutputStep, CloseAll
<1>31. ASSUME NEW p \in Pipes, TellOutputFailed(p) PROVE BufferTypeOK'
  BY <1>31 DEF TellOutputFailed, OutputStep, TellError, CountLeak
<1>32. ASSUME NEW p \in Pipes, EndAfterTelling(p) PROVE BufferTypeOK'
  BY <1>32 DEF EndAfterTelling, ReturnFrom, OutputStep, CloseAll
<1>33. CASE UNCHANGED vars
  BY <1>33 DEF vars
<1> QED
  BY <1>1, <1>2, <1>3, <1>4, <1>5, <1>6, <1>7, <1>8, <1>9, <1>10, <1>11, <1>12,
     <1>13, <1>14, <1>15, <1>16, <1>17, <1>18, <1>19, <1>20, <1>21, <1>22, <1>23,
     <1>24, <1>25, <1>26, <1>27, <1>28, <1>29, <1>30, <1>31, <1>32, <1>33
     DEF Next, Reading, GettingReady, Sending, Monitoring

(* A goroutine leaves its place when it has emptied it.                    *)
LEMMA PositionsStep ==
  ASSUME TypeOK, Positions, [Next]_vars
  PROVE  Positions'
<1> USE DEF TypeOK, RunTypeOK, BufferTypeOK, statusVars, runVars, pauseVars,
    bufferVars, leakVars, Positions, PlaceAt
<1>1. ASSUME NEW s \in Sessions, ControlPlane(s) PROVE Positions'
  BY <1>1 DEF ControlPlane, Start, Pause, Resume, Move, Close, IsOpen, Phases
<1>2. ASSUME NEW p \in Pipes, Open(p) PROVE Positions'
  BY <1>2, ZenonT(60) DEF Open, CloseAll
<1>3. ASSUME NEW p \in Pipes, Finalize(p) PROVE Positions'
  BY <1>3 DEF Finalize, Close, IsOpen, Phases
<1>4. ASSUME NEW p \in Pipes, ReadMessage(p) PROVE Positions'
  BY <1>4 DEF ReadMessage, InputStep
<1>5. ASSUME NEW p \in Pipes, CheckPaused(p) PROVE Positions'
  BY <1>5 DEF CheckPaused, InputStep
<1>6. ASSUME NEW p \in Pipes, BufferInput(p) PROVE Positions'
  BY <1>6 DEF BufferInput, InputStep
<1>7. ASSUME NEW p \in Pipes, WriteDirect(p) PROVE Positions'
  BY <1>7 DEF WriteDirect, InputStep, CountLeak
<1>8. ASSUME NEW p \in Pipes, InputEnds(p) PROVE Positions'
  BY <1>8 DEF InputEnds, InputStep, CloseAll
<1>9. ASSUME NEW p \in Pipes, RecordReady(p) PROVE Positions'
  BY <1>9 DEF RecordReady, OutputGoes, OutputStep
<1>10. ASSUME NEW p \in Pipes, MarkReady(p) PROVE Positions'
  BY <1>10 DEF MarkReady, OutputStep
<1>11. ASSUME NEW p \in Pipes, Announce(p) PROVE Positions'
  BY <1>11 DEF Announce, OutputStep
<1>12. ASSUME NEW p \in Pipes, CheckResumed(p) PROVE Positions'
  BY <1>12 DEF CheckResumed, OutputGoes, OutputStep
<1>13. ASSUME NEW p \in Pipes, OutputTakes(p) PROVE Positions'
  BY <1>13 DEF OutputTakes, OutputStep, TakePending
<1>14. ASSUME NEW p \in Pipes, OutputFlushes(p) PROVE Positions'
  <2>1. CASE /\ OutputStep(p, "flushing", "flushing")
             /\ WritePending(p, outBatch)
             /\ UNCHANGED <<ready, monitor, taken, monBatch>>
    <3>1. output' = output /\ output[p] = "flushing"
      BY <2>1 DEF OutputStep
    <3>2. /\ \A q \in Pipes : q # p => outBatch'[q] = outBatch[q]
          /\ outBatch[p] # <<>>
      BY <2>1 DEF WritePending
    <3> QED
      BY <2>1, <3>1, <3>2
  <2>2. CASE outBatch[p] = <<>> /\ OutputGoes(p, "flushing", "next")
    <3>1. UNCHANGED <<ready, monitor, taken, outBatch, monBatch>>
      BY <2>2 DEF OutputGoes
    <3>2. /\ \A q \in Pipes : q # p => output'[q] = output[q]
          /\ output[p] = "flushing" /\ output'[p] = "next"
      BY <2>2 DEF OutputGoes, OutputStep
    <3> QED
      BY <2>2, <3>1, <3>2
  <2> QED
    BY <1>14, <2>1, <2>2 DEF OutputFlushes
<1>15. ASSUME NEW p \in Pipes, GateBeforeRead(p) PROVE Positions'
  BY <1>15 DEF GateBeforeRead, OutputGoes, OutputStep
<1>16. ASSUME NEW p \in Pipes, ReadInstructions(p) PROVE Positions'
  BY <1>16 DEF ReadInstructions, OutputGoes, OutputStep
<1>17. ASSUME NEW p \in Pipes, GateBeforeSend(p) PROVE Positions'
  BY <1>17 DEF GateBeforeSend, OutputGoes, OutputStep
<1>18. ASSUME NEW p \in Pipes, SendInstruction(p) PROVE Positions'
  BY <1>18 DEF SendInstruction, OutputStep, CountLeak
<1>19. ASSUME NEW p \in Pipes, EndOutput(p) PROVE Positions'
  <2>1. PICK from \in {"handshake", "reading", "waiting", "held"} : ReturnFrom(p, from)
    BY <1>19 DEF EndOutput
  <2> QED
    BY <2>1 DEF ReturnFrom, OutputStep, CloseAll
<1>20. ASSUME NEW p \in Pipes, QueryState(p) PROVE Positions'
  BY <1>20 DEF QueryState, MonitorStep
<1>21. ASSUME NEW p \in Pipes, Mirror(p) PROVE Positions'
  BY <1>21 DEF Mirror, MonitorStep
<1>22. ASSUME NEW p \in Pipes, MonitorTakes(p) PROVE Positions'
  BY <1>22, ZenonT(60) DEF MonitorTakes, MonitorStep, TakePending
<1>23. ASSUME NEW p \in Pipes, MonitorFlushes(p) PROVE Positions'
  <2>1. CASE /\ MonitorStep(p, "flushing", "flushing")
             /\ WritePending(p, monBatch)
             /\ UNCHANGED <<ready, output, taken, outBatch>>
    <3>1. monitor' = monitor /\ monitor[p] = "flushing"
      BY <2>1 DEF MonitorStep
    <3>2. /\ \A q \in Pipes : q # p => monBatch'[q] = monBatch[q]
          /\ monBatch[p] # <<>>
      BY <2>1 DEF WritePending
    <3> QED
      BY <2>1, <3>1, <3>2
  <2>2. ASSUME NEW to \in {"mirrored", "stopped"}, MonitorStep(p, "flushing", to),
               to = "mirrored" => monBatch[p] = <<>>, UNCHANGED <<output, bufferVars>>
        PROVE  Positions'
    <3>1. /\ \A q \in Pipes : q # p => monitor'[q] = monitor[q]
          /\ monitor[p] = "flushing" /\ monitor'[p] = to
      BY <2>2 DEF MonitorStep
    <3> QED
      BY <2>2, <3>1
  <2> QED
    BY <1>23, <2>1, <2>2 DEF MonitorFlushes
<1>24. ASSUME NEW p \in Pipes, MonitorGoesOn(p) PROVE Positions'
  BY <1>24 DEF MonitorGoesOn, MonitorStep, CloseAll
<1>25. ASSUME NEW p \in Pipes, TellInputFailed(p) PROVE Positions'
  BY <1>25 DEF TellInputFailed, InputStep, TellError, CountLeak
<1>26. ASSUME NEW p \in Pipes, NextInstruction(p) PROVE Positions'
  <2>1. PICK to \in {"held", "error", "waiting"} : OutputGoes(p, "next", to)
    BY <1>26 DEF NextInstruction
  <2> QED
    BY <2>1 DEF OutputGoes, OutputStep
<1>27. ASSUME NEW p \in Pipes, HandshakeError(p) PROVE Positions'
  BY <1>27 DEF HandshakeError, OutputGoes, OutputStep
<1>28. ASSUME NEW p \in Pipes, OutputFails(p) PROVE Positions'
  BY <1>28 DEF OutputFails, OutputGoes, OutputStep
<1>29. ASSUME NEW p \in Pipes, RelayError(p) PROVE Positions'
  BY <1>29 DEF RelayError, OutputStep, CountLeak
<1>30. ASSUME NEW p \in Pipes, CloseAfterError(p) PROVE Positions'
  BY <1>30 DEF CloseAfterError, OutputStep, CloseAll
<1>31. ASSUME NEW p \in Pipes, TellOutputFailed(p) PROVE Positions'
  BY <1>31 DEF TellOutputFailed, OutputStep, TellError, CountLeak
<1>32. ASSUME NEW p \in Pipes, EndAfterTelling(p) PROVE Positions'
  BY <1>32 DEF EndAfterTelling, ReturnFrom, OutputStep, CloseAll
<1>33. CASE UNCHANGED vars
  BY <1>33 DEF vars
<1> QED
  BY <1>1, <1>2, <1>3, <1>4, <1>5, <1>6, <1>7, <1>8, <1>9, <1>10, <1>11, <1>12,
     <1>13, <1>14, <1>15, <1>16, <1>17, <1>18, <1>19, <1>20, <1>21, <1>22, <1>23,
     <1>24, <1>25, <1>26, <1>27, <1>28, <1>29, <1>30, <1>31, <1>32, <1>33
     DEF Next, Reading, GettingReady, Sending, Monitoring

(* Messages move from place to place all together, or one by one to guacd. *)
LEMMA HolderStep ==
  ASSUME TypeOK, Positions, Holder, [Next]_vars
  PROVE  Holder'
<1> USE DEF TypeOK, RunTypeOK, BufferTypeOK, statusVars, runVars, pauseVars,
    bufferVars, leakVars
<1>1. ASSUME NEW s \in Sessions, ControlPlane(s) PROVE Holder'
  BY <1>1 DEF ControlPlane, Start, Pause, Resume, Move, Close, IsOpen, Phases,
     Holder
<1>2. ASSUME NEW p \in Pipes, Open(p) PROVE Holder'
  BY <1>2 DEF Open, CloseAll, Holder
<1>3. ASSUME NEW p \in Pipes, Finalize(p) PROVE Holder'
  BY <1>3 DEF Finalize, Close, IsOpen, Phases, Holder
<1>4. ASSUME NEW p \in Pipes, ReadMessage(p) PROVE Holder'
  BY <1>4 DEF ReadMessage, InputStep, Holder
<1>5. ASSUME NEW p \in Pipes, CheckPaused(p) PROVE Holder'
  BY <1>5 DEF CheckPaused, InputStep, Holder
<1>6. ASSUME NEW p \in Pipes, BufferInput(p) PROVE Holder'
  <2>1. CASE ready[p]
    BY <1>6, <2>1 DEF BufferInput, InputStep, Holder
  <2>2. CASE ~ready[p]
    <3>1. ASSUME NEW q \in Pipes, q # p
          PROVE  pending'[q] = pending[q] /\ kept'[q] = kept[q]
      BY <1>6, <2>2, <3>1 DEF BufferInput
    <3>2. pending'[p] = Append(pending[p], typed[p]) /\ kept'[p] = Append(kept[p], typed[p])
      BY <1>6, <2>2, SMTT(60) DEF BufferInput
    <3>3. UNCHANGED <<ready, taken, outBatch, monBatch, flushed>>
      BY <1>6 DEF BufferInput
    <3>4. HolderAt(ready[p], pending[p], taken[p], outBatch[p], monBatch[p], flushed[p],
                   kept[p])
      BY DEF Holder
    <3>5. taken[p] = <<>> /\ outBatch[p] = <<>> /\ monBatch[p] = <<>>
      BY <2>2 DEF Positions, PlaceAt
    <3>6. pending[p] \in Seq(Nat) /\ typed[p] \in Nat
      OBVIOUS
    <3>7. Append(pending[p], typed[p]) # <<>>
      BY <3>6, AppendNotEmpty
    <3>8. Append(pending[p], typed[p]) \in Seq(Nat)
      BY <3>6, AppendProperties
    <3>10. <<>> \o Append(pending[p], typed[p]) = Append(pending[p], typed[p])
      BY <3>8, ConcatEmptySeq
    <3>9. HolderAt(ready[p], pending[p], taken[p], outBatch[p], monBatch[p], flushed[p],
                   kept[p])'
      BY <2>2, <3>2, <3>3, <3>4, <3>5, <3>7, <3>10 DEF HolderAt
    <3> QED
      BY <3>1, <3>3, <3>9 DEF Holder
  <2> QED
    BY <2>1, <2>2
<1>7. ASSUME NEW p \in Pipes, WriteDirect(p) PROVE Holder'
  BY <1>7 DEF WriteDirect, InputStep, CountLeak, Holder
<1>8. ASSUME NEW p \in Pipes, InputEnds(p) PROVE Holder'
  BY <1>8 DEF InputEnds, InputStep, CloseAll, Holder
<1>9. ASSUME NEW p \in Pipes, RecordReady(p) PROVE Holder'
  BY <1>9 DEF RecordReady, OutputGoes, OutputStep, Holder
<1>10. ASSUME NEW p \in Pipes, MarkReady(p) PROVE Holder'
  <2>1. ASSUME NEW q \in Pipes, q # p
        PROVE  /\ ready'[q] = ready[q]
               /\ pending'[q] = pending[q]
               /\ taken'[q] = taken[q]
               /\ outBatch'[q] = outBatch[q]
               /\ monBatch'[q] = monBatch[q]
               /\ flushed'[q] = flushed[q]
               /\ kept'[q] = kept[q]
    BY <1>10, <2>1 DEF MarkReady, OutputStep
  <2>2. /\ ready'[p] = TRUE
        /\ pending'[p] = <<>>
        /\ taken'[p] = pending[p]
        /\ outBatch'[p] = outBatch[p]
        /\ monBatch'[p] = monBatch[p]
        /\ flushed'[p] = flushed[p]
        /\ kept'[p] = kept[p]
    BY <1>10 DEF MarkReady, OutputStep
  <2>3. /\ pending[p] \in Seq(Nat)
        /\ taken[p] \in Seq(Nat)
        /\ outBatch[p] \in Seq(Nat)
        /\ monBatch[p] \in Seq(Nat)
        /\ flushed[p] \in Seq(Nat)
        /\ kept[p] \in Seq(Nat)
    OBVIOUS
  <2>4. HolderAt(ready[p], pending[p], taken[p], outBatch[p], monBatch[p], flushed[p],
                 kept[p])
    BY DEF Holder
  <2>5. PlaceAt(ready[p], output[p], monitor[p], taken[p], outBatch[p], monBatch[p])
    BY DEF Positions
  <2>6. \A s \in Seq(Nat) : s \o <<>> = s /\ <<>> \o s = s
    BY ConcatEmptySeq
  <2>7. output[p] = "recorded"
    BY <1>10 DEF MarkReady, OutputStep
  <2>9. HolderAt(ready[p], pending[p], taken[p], outBatch[p], monBatch[p], flushed[p],
                 kept[p])'
    BY <2>2, <2>3, <2>4, <2>5, <2>6, <2>7 DEF HolderAt, PlaceAt
  <2> QED
    BY <2>1, <2>9 DEF Holder
<1>11. ASSUME NEW p \in Pipes, Announce(p) PROVE Holder'
  <2>1. ASSUME NEW q \in Pipes, q # p
        PROVE  /\ ready'[q] = ready[q]
               /\ pending'[q] = pending[q]
               /\ taken'[q] = taken[q]
               /\ outBatch'[q] = outBatch[q]
               /\ monBatch'[q] = monBatch[q]
               /\ flushed'[q] = flushed[q]
               /\ kept'[q] = kept[q]
    BY <1>11, <2>1 DEF Announce, OutputStep
  <2>2. /\ ready'[p] = ready[p]
        /\ pending'[p] = taken[p] \o pending[p]
        /\ taken'[p] = <<>>
        /\ outBatch'[p] = outBatch[p]
        /\ monBatch'[p] = monBatch[p]
        /\ flushed'[p] = flushed[p]
        /\ kept'[p] = kept[p]
    BY <1>11 DEF Announce, OutputStep
  <2>3. /\ pending[p] \in Seq(Nat)
        /\ taken[p] \in Seq(Nat)
        /\ outBatch[p] \in Seq(Nat)
        /\ monBatch[p] \in Seq(Nat)
        /\ flushed[p] \in Seq(Nat)
        /\ kept[p] \in Seq(Nat)
    OBVIOUS
  <2>4. HolderAt(ready[p], pending[p], taken[p], outBatch[p], monBatch[p], flushed[p],
                 kept[p])
    BY DEF Holder
  <2>5. PlaceAt(ready[p], output[p], monitor[p], taken[p], outBatch[p], monBatch[p])
    BY DEF Positions
  <2>6. \A s \in Seq(Nat) : s \o <<>> = s /\ <<>> \o s = s
    BY ConcatEmptySeq
  <2>7. /\ taken[p] = <<>> => taken[p] \o pending[p] = pending[p]
        /\ pending[p] = <<>> => taken[p] \o pending[p] = taken[p]
    BY <2>3, <2>6
  <2>8. ready[p]
    BY <1>11, <2>5 DEF Announce, OutputStep, PlaceAt
  <2>9. HolderAt(ready[p], pending[p], taken[p], outBatch[p], monBatch[p], flushed[p],
                 kept[p])'
    BY <2>2, <2>4, <2>7, <2>8 DEF HolderAt
  <2> QED
    BY <2>1, <2>9 DEF Holder
<1>12. ASSUME NEW p \in Pipes, CheckResumed(p) PROVE Holder'
  BY <1>12 DEF CheckResumed, OutputGoes, OutputStep, Holder
<1>13. ASSUME NEW p \in Pipes, OutputTakes(p) PROVE Holder'
  <2>1. ASSUME NEW q \in Pipes, q # p
        PROVE  /\ ready'[q] = ready[q]
               /\ pending'[q] = pending[q]
               /\ taken'[q] = taken[q]
               /\ outBatch'[q] = outBatch[q]
               /\ monBatch'[q] = monBatch[q]
               /\ flushed'[q] = flushed[q]
               /\ kept'[q] = kept[q]
    BY <1>13, <2>1 DEF OutputTakes, OutputStep, TakePending
  <2>2. /\ ready'[p] = ready[p]
        /\ pending'[p] = <<>>
        /\ taken'[p] = taken[p]
        /\ outBatch'[p] = pending[p]
        /\ monBatch'[p] = monBatch[p]
        /\ flushed'[p] = flushed[p]
        /\ kept'[p] = kept[p]
    BY <1>13 DEF OutputTakes, OutputStep, TakePending
  <2>3. /\ pending[p] \in Seq(Nat)
        /\ taken[p] \in Seq(Nat)
        /\ outBatch[p] \in Seq(Nat)
        /\ monBatch[p] \in Seq(Nat)
        /\ flushed[p] \in Seq(Nat)
        /\ kept[p] \in Seq(Nat)
    OBVIOUS
  <2>4. HolderAt(ready[p], pending[p], taken[p], outBatch[p], monBatch[p], flushed[p],
                 kept[p])
    BY DEF Holder
  <2>5. PlaceAt(ready[p], output[p], monitor[p], taken[p], outBatch[p], monBatch[p])
    BY DEF Positions
  <2>6. output[p] = "resumed"
    BY <1>13 DEF OutputTakes, OutputStep
  <2>7. ready[p] /\ outBatch[p] = <<>> /\ taken[p] = <<>>
    BY <2>5, <2>6 DEF PlaceAt
  <2>9. HolderAt(ready[p], pending[p], taken[p], outBatch[p], monBatch[p], flushed[p],
                 kept[p])'
    BY <2>2, <2>4, <2>7 DEF HolderAt
  <2> QED
    BY <2>1, <2>9 DEF Holder
<1>14. ASSUME NEW p \in Pipes, OutputFlushes(p) PROVE Holder'
  <2>10. CASE UNCHANGED bufferVars
    BY <2>10 DEF Holder
  <2>20. CASE WritePending(p, outBatch) /\ UNCHANGED <<ready, pending, taken, monBatch, kept>>
    <3>1. ASSUME NEW q \in Pipes, q # p
          PROVE  /\ ready'[q] = ready[q]
                 /\ pending'[q] = pending[q]
                 /\ taken'[q] = taken[q]
                 /\ outBatch'[q] = outBatch[q]
                 /\ monBatch'[q] = monBatch[q]
                 /\ flushed'[q] = flushed[q]
                 /\ kept'[q] = kept[q]
      BY <2>20, <3>1 DEF WritePending
    <3>2. /\ ready'[p] = ready[p]
          /\ pending'[p] = pending[p]
          /\ taken'[p] = taken[p]
          /\ outBatch'[p] = Tail(outBatch[p])
          /\ monBatch'[p] = monBatch[p]
          /\ flushed'[p] = Append(flushed[p], Head(outBatch[p]))
          /\ kept'[p] = kept[p]
      BY <2>20 DEF WritePending
    <3>3. /\ pending[p] \in Seq(Nat)
          /\ taken[p] \in Seq(Nat)
          /\ outBatch[p] \in Seq(Nat)
          /\ monBatch[p] \in Seq(Nat)
          /\ flushed[p] \in Seq(Nat)
          /\ kept[p] \in Seq(Nat)
      OBVIOUS
    <3>4. HolderAt(ready[p], pending[p], taken[p], outBatch[p], monBatch[p], flushed[p],
                   kept[p])
      BY DEF Holder
    <3>5. PlaceAt(ready[p], output[p], monitor[p], taken[p], outBatch[p], monBatch[p])
      BY DEF Positions
    <3>6. outBatch[p] # <<>>
      BY <2>20 DEF WritePending
    <3>7. /\ Append(flushed[p], Head(outBatch[p])) \o Tail(outBatch[p]) = flushed[p] \o outBatch[p]
          /\ Tail(outBatch[p]) = <<>>
               => Append(flushed[p], Head(outBatch[p])) = flushed[p] \o outBatch[p]
      BY <3>3, <3>6, SendFirst
    <3>8. ready[p]
      BY <3>5, <3>6 DEF PlaceAt
    <3>9. HolderAt(ready[p], pending[p], taken[p], outBatch[p], monBatch[p], flushed[p],
                   kept[p])'
      BY <3>2, <3>4, <3>6, <3>7, <3>8 DEF HolderAt
    <3> QED
      BY <3>1, <3>9 DEF Holder
  <2> QED
    BY <1>14, <2>10, <2>20 DEF OutputFlushes, OutputGoes
<1>15. ASSUME NEW p \in Pipes, GateBeforeRead(p) PROVE Holder'
  BY <1>15 DEF GateBeforeRead, OutputGoes, OutputStep, Holder
<1>16. ASSUME NEW p \in Pipes, ReadInstructions(p) PROVE Holder'
  BY <1>16 DEF ReadInstructions, OutputGoes, OutputStep, Holder
<1>17. ASSUME NEW p \in Pipes, GateBeforeSend(p) PROVE Holder'
  BY <1>17 DEF GateBeforeSend, OutputGoes, OutputStep, Holder
<1>18. ASSUME NEW p \in Pipes, SendInstruction(p) PROVE Holder'
  BY <1>18 DEF SendInstruction, OutputStep, CountLeak, Holder
<1>19. ASSUME NEW p \in Pipes, EndOutput(p) PROVE Holder'
  BY <1>19 DEF EndOutput, ReturnFrom, OutputStep, CloseAll, Holder
<1>20. ASSUME NEW p \in Pipes, QueryState(p) PROVE Holder'
  BY <1>20 DEF QueryState, MonitorStep, Holder
<1>21. ASSUME NEW p \in Pipes, Mirror(p) PROVE Holder'
  BY <1>21 DEF Mirror, MonitorStep, Holder
<1>22. ASSUME NEW p \in Pipes, MonitorTakes(p) PROVE Holder'
  <2>1. CASE ~ready[p]
    BY <1>22, <2>1 DEF MonitorTakes, MonitorStep, Holder
  <2>2. CASE ready[p]
    <3>1. ASSUME NEW q \in Pipes, q # p
          PROVE  /\ ready'[q] = ready[q]
                 /\ pending'[q] = pending[q]
                 /\ taken'[q] = taken[q]
                 /\ outBatch'[q] = outBatch[q]
                 /\ monBatch'[q] = monBatch[q]
                 /\ flushed'[q] = flushed[q]
                 /\ kept'[q] = kept[q]
      BY <1>22, <2>2, <3>1 DEF MonitorTakes, MonitorStep, TakePending
    <3>2. /\ ready'[p] = ready[p]
          /\ pending'[p] = <<>>
          /\ taken'[p] = taken[p]
          /\ outBatch'[p] = outBatch[p]
          /\ monBatch'[p] = pending[p]
          /\ flushed'[p] = flushed[p]
          /\ kept'[p] = kept[p]
      BY <1>22, <2>2 DEF MonitorTakes, MonitorStep, TakePending
    <3>3. /\ pending[p] \in Seq(Nat)
          /\ taken[p] \in Seq(Nat)
          /\ outBatch[p] \in Seq(Nat)
          /\ monBatch[p] \in Seq(Nat)
          /\ flushed[p] \in Seq(Nat)
          /\ kept[p] \in Seq(Nat)
      OBVIOUS
    <3>4. HolderAt(ready[p], pending[p], taken[p], outBatch[p], monBatch[p], flushed[p],
                   kept[p])
      BY DEF Holder
    <3>5. PlaceAt(ready[p], output[p], monitor[p], taken[p], outBatch[p], monBatch[p])
      BY DEF Positions
    <3>6. monBatch[p] = <<>>
      BY <1>22, <3>5 DEF PlaceAt, MonitorTakes, MonitorStep
    <3>9. HolderAt(ready[p], pending[p], taken[p], outBatch[p], monBatch[p], flushed[p],
                   kept[p])'
      BY <2>2, <3>2, <3>4, <3>6 DEF HolderAt
    <3> QED
      BY <3>1, <3>9 DEF Holder
  <2> QED
    BY <2>1, <2>2
<1>23. ASSUME NEW p \in Pipes, MonitorFlushes(p) PROVE Holder'
  <2>10. CASE UNCHANGED bufferVars
    BY <2>10 DEF Holder
  <2>20. CASE WritePending(p, monBatch) /\ UNCHANGED <<ready, pending, taken, outBatch, kept>>
    <3>1. ASSUME NEW q \in Pipes, q # p
          PROVE  /\ ready'[q] = ready[q]
                 /\ pending'[q] = pending[q]
                 /\ taken'[q] = taken[q]
                 /\ outBatch'[q] = outBatch[q]
                 /\ monBatch'[q] = monBatch[q]
                 /\ flushed'[q] = flushed[q]
                 /\ kept'[q] = kept[q]
      BY <2>20, <3>1 DEF WritePending
    <3>2. /\ ready'[p] = ready[p]
          /\ pending'[p] = pending[p]
          /\ taken'[p] = taken[p]
          /\ outBatch'[p] = outBatch[p]
          /\ monBatch'[p] = Tail(monBatch[p])
          /\ flushed'[p] = Append(flushed[p], Head(monBatch[p]))
          /\ kept'[p] = kept[p]
      BY <2>20 DEF WritePending
    <3>3. /\ pending[p] \in Seq(Nat)
          /\ taken[p] \in Seq(Nat)
          /\ outBatch[p] \in Seq(Nat)
          /\ monBatch[p] \in Seq(Nat)
          /\ flushed[p] \in Seq(Nat)
          /\ kept[p] \in Seq(Nat)
      OBVIOUS
    <3>4. HolderAt(ready[p], pending[p], taken[p], outBatch[p], monBatch[p], flushed[p],
                   kept[p])
      BY DEF Holder
    <3>5. PlaceAt(ready[p], output[p], monitor[p], taken[p], outBatch[p], monBatch[p])
      BY DEF Positions
    <3>6. monBatch[p] # <<>>
      BY <2>20 DEF WritePending
    <3>7. /\ Append(flushed[p], Head(monBatch[p])) \o Tail(monBatch[p]) = flushed[p] \o monBatch[p]
          /\ Tail(monBatch[p]) = <<>>
               => Append(flushed[p], Head(monBatch[p])) = flushed[p] \o monBatch[p]
      BY <3>3, <3>6, SendFirst
    <3>8. ready[p]
      BY <3>5, <3>6 DEF PlaceAt
    <3>9. HolderAt(ready[p], pending[p], taken[p], outBatch[p], monBatch[p], flushed[p],
                   kept[p])'
      BY <3>2, <3>4, <3>6, <3>7, <3>8 DEF HolderAt
    <3> QED
      BY <3>1, <3>9 DEF Holder
  <2> QED
    BY <1>23, <2>10, <2>20 DEF MonitorFlushes, MonitorStep
<1>24. ASSUME NEW p \in Pipes, MonitorGoesOn(p) PROVE Holder'
  BY <1>24 DEF MonitorGoesOn, MonitorStep, CloseAll, Holder
<1>25. ASSUME NEW p \in Pipes, TellInputFailed(p) PROVE Holder'
  BY <1>25 DEF TellInputFailed, InputStep, TellError, CountLeak, Holder
<1>26. ASSUME NEW p \in Pipes, NextInstruction(p) PROVE Holder'
  BY <1>26 DEF NextInstruction, OutputGoes, OutputStep, Holder
<1>27. ASSUME NEW p \in Pipes, HandshakeError(p) PROVE Holder'
  BY <1>27 DEF HandshakeError, OutputGoes, OutputStep, Holder
<1>28. ASSUME NEW p \in Pipes, OutputFails(p) PROVE Holder'
  BY <1>28 DEF OutputFails, OutputGoes, OutputStep, Holder
<1>29. ASSUME NEW p \in Pipes, RelayError(p) PROVE Holder'
  BY <1>29 DEF RelayError, OutputStep, CountLeak, Holder
<1>30. ASSUME NEW p \in Pipes, CloseAfterError(p) PROVE Holder'
  BY <1>30 DEF CloseAfterError, OutputStep, CloseAll, Holder
<1>31. ASSUME NEW p \in Pipes, TellOutputFailed(p) PROVE Holder'
  BY <1>31 DEF TellOutputFailed, OutputStep, TellError, CountLeak, Holder
<1>32. ASSUME NEW p \in Pipes, EndAfterTelling(p) PROVE Holder'
  BY <1>32 DEF EndAfterTelling, ReturnFrom, OutputStep, CloseAll, Holder
<1>33. CASE UNCHANGED vars
  BY <1>33 DEF vars, Holder
<1> QED
  BY <1>1, <1>2, <1>3, <1>4, <1>5, <1>6, <1>7, <1>8, <1>9, <1>10, <1>11, <1>12,
     <1>13, <1>14, <1>15, <1>16, <1>17, <1>18, <1>19, <1>20, <1>21, <1>22, <1>23,
     <1>24, <1>25, <1>26, <1>27, <1>28, <1>29, <1>30, <1>31, <1>32, <1>33
     DEF Next, Reading, GettingReady, Sending, Monitoring

(* While the flag is set nothing passes a check.                           *)
LEMMA LeakStep ==
  ASSUME TypeOK, LeakInv, [Next]_vars
  PROVE  LeakInv'
<1> USE DEF TypeOK, RunTypeOK, BufferTypeOK, statusVars, runVars, pauseVars,
    bufferVars, leakVars, LeakInv
<1>1. ASSUME NEW s \in Sessions, ControlPlane(s) PROVE LeakInv'
  BY <1>1 DEF ControlPlane, Start, Pause, Resume, Move, Close, IsOpen, Phases
<1>2. ASSUME NEW p \in Pipes, Open(p) PROVE LeakInv'
  BY <1>2, SMTT(60) DEF Open, CloseAll
<1>3. ASSUME NEW p \in Pipes, Finalize(p) PROVE LeakInv'
  BY <1>3 DEF Finalize, Close, IsOpen, Phases
<1>4. ASSUME NEW p \in Pipes, ReadMessage(p) PROVE LeakInv'
  BY <1>4 DEF ReadMessage, InputStep
<1>5. ASSUME NEW p \in Pipes, CheckPaused(p) PROVE LeakInv'
  BY <1>5 DEF CheckPaused, InputStep
<1>6. ASSUME NEW p \in Pipes, BufferInput(p) PROVE LeakInv'
  BY <1>6, ZenonT(60) DEF BufferInput, InputStep
<1>7. ASSUME NEW p \in Pipes, WriteDirect(p) PROVE LeakInv'
  <2>1. UNCHANGED <<paused, leakedOut, output>>
    BY <1>7 DEF WriteDirect
  <2>2. \A q \in Pipes :
          q # p => leakedIn'[q] = leakedIn[q] /\ input'[q] = input[q]
    BY <1>7 DEF WriteDirect, InputStep, CountLeak
  <2>3. input[p] = "direct" /\ input'[p] \in {"waiting", "failing"}
    BY <1>7 DEF WriteDirect, InputStep
  <2>4. leakedIn'[p] \in {leakedIn[p], IF paused[p] THEN leakedIn[p] + 1 ELSE leakedIn[p]}
    BY <1>7 DEF WriteDirect, CountLeak
  <2>5. (~paused[p] => leakedIn'[p] = 0) /\ leakedIn'[p] <= 1
    BY <2>3, <2>4
  <2> QED
    BY <2>1, <2>2, <2>3, <2>5
<1>8. ASSUME NEW p \in Pipes, InputEnds(p) PROVE LeakInv'
  BY <1>8 DEF InputEnds, InputStep, CloseAll
<1>9. ASSUME NEW p \in Pipes, RecordReady(p) PROVE LeakInv'
  BY <1>9 DEF RecordReady, OutputGoes, OutputStep
<1>10. ASSUME NEW p \in Pipes, MarkReady(p) PROVE LeakInv'
  BY <1>10 DEF MarkReady, OutputStep
<1>11. ASSUME NEW p \in Pipes, Announce(p) PROVE LeakInv'
  BY <1>11 DEF Announce, OutputStep
<1>12. ASSUME NEW p \in Pipes, CheckResumed(p) PROVE LeakInv'
  BY <1>12 DEF CheckResumed, OutputGoes, OutputStep
<1>13. ASSUME NEW p \in Pipes, OutputTakes(p) PROVE LeakInv'
  BY <1>13 DEF OutputTakes, OutputStep, TakePending
<1>14. ASSUME NEW p \in Pipes, OutputFlushes(p) PROVE LeakInv'
  BY <1>14, ZenonT(60) DEF OutputFlushes, OutputGoes, OutputStep, WritePending
<1>15. ASSUME NEW p \in Pipes, GateBeforeRead(p) PROVE LeakInv'
  BY <1>15 DEF GateBeforeRead, OutputGoes, OutputStep
<1>16. ASSUME NEW p \in Pipes, ReadInstructions(p) PROVE LeakInv'
  BY <1>16 DEF ReadInstructions, OutputGoes, OutputStep
<1>17. ASSUME NEW p \in Pipes, GateBeforeSend(p) PROVE LeakInv'
  BY <1>17 DEF GateBeforeSend, OutputGoes, OutputStep
<1>18. ASSUME NEW p \in Pipes, SendInstruction(p) PROVE LeakInv'
  <2>1. UNCHANGED <<paused, leakedIn, input>>
    BY <1>18 DEF SendInstruction
  <2>2. \A q \in Pipes :
          q # p => leakedOut'[q] = leakedOut[q] /\ output'[q] = output[q]
    BY <1>18 DEF SendInstruction, OutputStep, CountLeak
  <2>3. output[p] = "passed" /\ output'[p] = "next"
    BY <1>18 DEF SendInstruction, OutputStep
  <2>4. leakedOut'[p] = IF paused[p] THEN leakedOut[p] + 1 ELSE leakedOut[p]
    BY <1>18 DEF SendInstruction, CountLeak
  <2>5. (~paused[p] => leakedOut'[p] = 0) /\ leakedOut'[p] <= 1
    BY <2>3, <2>4
  <2> QED
    BY <2>1, <2>2, <2>3, <2>5
<1>19. ASSUME NEW p \in Pipes, EndOutput(p) PROVE LeakInv'
  <2>1. PICK from \in {"handshake", "reading", "waiting", "held"} : ReturnFrom(p, from)
    BY <1>19 DEF EndOutput
  <2> QED
    BY <2>1 DEF ReturnFrom, OutputStep, CloseAll
<1>20. ASSUME NEW p \in Pipes, QueryState(p) PROVE LeakInv'
  BY <1>20 DEF QueryState, MonitorStep
<1>21. ASSUME NEW p \in Pipes, Mirror(p) PROVE LeakInv'
  <2>1. \A q \in Pipes : q # p => /\ paused'[q] = paused[q]
                                 /\ leakedIn'[q] = leakedIn[q]
                                 /\ leakedOut'[q] = leakedOut[q]
    BY <1>21 DEF Mirror
  <2>2. UNCHANGED <<input, output>>
    BY <1>21 DEF Mirror
  <2>3. /\ paused'[p] = paused[p] => leakedIn'[p] = leakedIn[p] /\ leakedOut'[p] = leakedOut[p]
        /\ paused'[p] # paused[p] => leakedIn'[p] = 0 /\ leakedOut'[p] = 0
    BY <1>21 DEF Mirror
  <2>4. CASE paused'[p] = paused[p]
    BY <2>1, <2>2, <2>3, <2>4, ZenonT(60)
  <2>5. CASE paused'[p] # paused[p]
    <3>1. leakedIn'[p] = 0 /\ leakedOut'[p] = 0
      BY <2>3, <2>5
    <3>2. 0 <= 1
      OBVIOUS
    <3> QED
      BY <2>1, <2>2, <3>1, <3>2, ZenonT(60)
  <2> QED
    BY <2>4, <2>5
<1>22. ASSUME NEW p \in Pipes, MonitorTakes(p) PROVE LeakInv'
  BY <1>22 DEF MonitorTakes, MonitorStep, TakePending
<1>23. ASSUME NEW p \in Pipes, MonitorFlushes(p) PROVE LeakInv'
  BY <1>23 DEF MonitorFlushes, MonitorStep, WritePending, CloseAll
<1>24. ASSUME NEW p \in Pipes, MonitorGoesOn(p) PROVE LeakInv'
  BY <1>24 DEF MonitorGoesOn, MonitorStep, CloseAll
<1>25. ASSUME NEW p \in Pipes, TellInputFailed(p) PROVE LeakInv'
  BY <1>25 DEF TellInputFailed, InputStep, TellError, CountLeak
<1>26. ASSUME NEW p \in Pipes, NextInstruction(p) PROVE LeakInv'
  BY <1>26 DEF NextInstruction, OutputGoes, OutputStep
<1>27. ASSUME NEW p \in Pipes, HandshakeError(p) PROVE LeakInv'
  BY <1>27 DEF HandshakeError, OutputGoes, OutputStep
<1>28. ASSUME NEW p \in Pipes, OutputFails(p) PROVE LeakInv'
  BY <1>28 DEF OutputFails, OutputGoes, OutputStep
<1>29. ASSUME NEW p \in Pipes, RelayError(p) PROVE LeakInv'
  BY <1>29 DEF RelayError, OutputStep, CountLeak
<1>30. ASSUME NEW p \in Pipes, CloseAfterError(p) PROVE LeakInv'
  BY <1>30 DEF CloseAfterError, OutputStep, CloseAll
<1>31. ASSUME NEW p \in Pipes, TellOutputFailed(p) PROVE LeakInv'
  BY <1>31 DEF TellOutputFailed, OutputStep, TellError, CountLeak
<1>32. ASSUME NEW p \in Pipes, EndAfterTelling(p) PROVE LeakInv'
  BY <1>32 DEF EndAfterTelling, ReturnFrom, OutputStep, CloseAll
<1>33. CASE UNCHANGED vars
  BY <1>33 DEF vars
<1> QED
  BY <1>1, <1>2, <1>3, <1>4, <1>5, <1>6, <1>7, <1>8, <1>9, <1>10, <1>11, <1>12,
     <1>13, <1>14, <1>15, <1>16, <1>17, <1>18, <1>19, <1>20, <1>21, <1>22, <1>23,
     <1>24, <1>25, <1>26, <1>27, <1>28, <1>29, <1>30, <1>31, <1>32, <1>33
     DEF Next, Reading, GettingReady, Sending, Monitoring

(* Each direction tells the browser of one error at most: the input ends   *)
(* with it, and so does the output, or it closes the pipe.                 *)
LEMMA ErrorStep ==
  ASSUME TypeOK, ErrorInv, [Next]_vars
  PROVE  ErrorInv'
<1> USE DEF TypeOK, RunTypeOK, statusVars, runVars, pauseVars, bufferVars, leakVars
<1> DEFINE Quiet ==
      /\ UNCHANGED <<paused, leakedErrors>>
      /\ \A q \in Pipes : /\ InputTold(q) => InputTold(q)'
                          /\ OutputTold(q) => OutputTold(q)'
<1>0. ASSUME Quiet PROVE ErrorInv'
  BY <1>0 DEF ErrorInv
<1> HIDE DEF Quiet
<1> USE DEF InputTold, OutputTold
<1>1. ASSUME NEW s \in Sessions, ControlPlane(s) PROVE Quiet
  BY <1>1 DEF ControlPlane, Quiet
<1>2. ASSUME NEW p \in Pipes, Open(p) PROVE Quiet
  BY <1>2 DEF Open, CloseAll, Quiet
<1>3. ASSUME NEW p \in Pipes, Finalize(p) PROVE Quiet
  BY <1>3 DEF Finalize, Quiet
<1>4. ASSUME NEW p \in Pipes, ReadMessage(p) PROVE Quiet
  BY <1>4 DEF ReadMessage, InputStep, Quiet
<1>5. ASSUME NEW p \in Pipes, CheckPaused(p) PROVE Quiet
  BY <1>5 DEF CheckPaused, InputStep, Quiet
<1>6. ASSUME NEW p \in Pipes, BufferInput(p) PROVE Quiet
  BY <1>6 DEF BufferInput, InputStep, Quiet
<1>7. ASSUME NEW p \in Pipes, WriteDirect(p) PROVE Quiet
  BY <1>7 DEF WriteDirect, InputStep, Quiet
<1>8. ASSUME NEW p \in Pipes, InputEnds(p) PROVE Quiet
  BY <1>8 DEF InputEnds, InputStep, CloseAll, Quiet
<1>9. ASSUME NEW p \in Pipes, RecordReady(p) PROVE Quiet
  BY <1>9 DEF RecordReady, OutputGoes, OutputStep, Quiet
<1>10. ASSUME NEW p \in Pipes, MarkReady(p) PROVE Quiet
  BY <1>10 DEF MarkReady, OutputStep, Quiet
<1>11. ASSUME NEW p \in Pipes, Announce(p) PROVE Quiet
  BY <1>11 DEF Announce, OutputStep, Quiet
<1>12. ASSUME NEW p \in Pipes, CheckResumed(p) PROVE Quiet
  BY <1>12 DEF CheckResumed, OutputGoes, OutputStep, Quiet
<1>13. ASSUME NEW p \in Pipes, OutputTakes(p) PROVE Quiet
  BY <1>13 DEF OutputTakes, OutputStep, Quiet
<1>14. ASSUME NEW p \in Pipes, OutputFlushes(p) PROVE Quiet
  BY <1>14 DEF OutputFlushes, OutputGoes, OutputStep, Quiet
<1>15. ASSUME NEW p \in Pipes, GateBeforeRead(p) PROVE Quiet
  BY <1>15 DEF GateBeforeRead, OutputGoes, OutputStep, Quiet
<1>16. ASSUME NEW p \in Pipes, ReadInstructions(p) PROVE Quiet
  BY <1>16 DEF ReadInstructions, OutputGoes, OutputStep, Quiet
<1>17. ASSUME NEW p \in Pipes, GateBeforeSend(p) PROVE Quiet
  BY <1>17 DEF GateBeforeSend, OutputGoes, OutputStep, Quiet
<1>18. ASSUME NEW p \in Pipes, SendInstruction(p) PROVE Quiet
  BY <1>18 DEF SendInstruction, OutputStep, Quiet
<1>19. ASSUME NEW p \in Pipes, EndOutput(p) PROVE Quiet
  <2>1. PICK from \in {"handshake", "reading", "waiting", "held"} : ReturnFrom(p, from)
    BY <1>19 DEF EndOutput
  <2> QED
    BY <2>1 DEF ReturnFrom, OutputStep, CloseAll, Quiet
<1>20. ASSUME NEW p \in Pipes, QueryState(p) PROVE Quiet
  BY <1>20 DEF QueryState, Quiet
<1>21. ASSUME NEW p \in Pipes, Mirror(p) PROVE ErrorInv'
  <2>1. UNCHANGED <<input, output, closed>>
    BY <1>21 DEF Mirror
  <2>2. \A q \in Pipes : \/ paused'[q] = paused[q] /\ leakedErrors'[q] = leakedErrors[q]
                         \/ leakedErrors'[q] = 0
    BY <1>21 DEF Mirror
  <2> QED
    BY <2>1, <2>2 DEF ErrorInv
<1>22. ASSUME NEW p \in Pipes, MonitorTakes(p) PROVE Quiet
  BY <1>22 DEF MonitorTakes, Quiet
<1>23. ASSUME NEW p \in Pipes, MonitorFlushes(p) PROVE Quiet
  BY <1>23 DEF MonitorFlushes, CloseAll, Quiet
<1>24. ASSUME NEW p \in Pipes, MonitorGoesOn(p) PROVE Quiet
  BY <1>24 DEF MonitorGoesOn, CloseAll, Quiet
<1>25. ASSUME NEW p \in Pipes, TellInputFailed(p) PROVE ErrorInv'
  <2>1. UNCHANGED <<paused, output, closed>>
    BY <1>25 DEF TellInputFailed
  <2>2. \A q \in Pipes :
          q # p => input'[q] = input[q] /\ leakedErrors'[q] = leakedErrors[q]
    BY <1>25 DEF TellInputFailed, InputStep, TellError, CountLeak
  <2>3. input[p] = "failing" /\ input'[p] = "told"
    BY <1>25 DEF TellInputFailed, InputStep
  <2>4. \/ leakedErrors'[p] = leakedErrors[p]
        \/ ~closed[p] /\ paused[p] /\ leakedErrors'[p] = leakedErrors[p] + 1
    BY <1>25 DEF TellInputFailed, TellError, CountLeak
  <2> QED
    BY <2>1, <2>2, <2>3, <2>4 DEF ErrorInv
<1>26. ASSUME NEW p \in Pipes, NextInstruction(p) PROVE Quiet
  BY <1>26 DEF NextInstruction, OutputGoes, OutputStep, Quiet
<1>27. ASSUME NEW p \in Pipes, HandshakeError(p) PROVE Quiet
  BY <1>27 DEF HandshakeError, OutputGoes, OutputStep, Quiet
<1>28. ASSUME NEW p \in Pipes, OutputFails(p) PROVE Quiet
  BY <1>28 DEF OutputFails, OutputGoes, OutputStep, Quiet
<1>29. ASSUME NEW p \in Pipes, RelayError(p) PROVE ErrorInv'
  <2>1. UNCHANGED <<paused, input, closed>>
    BY <1>29 DEF RelayError
  <2>2. \A q \in Pipes :
          q # p => output'[q] = output[q] /\ leakedErrors'[q] = leakedErrors[q]
    BY <1>29 DEF RelayError, OutputStep, CountLeak
  <2>3. output[p] = "error" /\ output'[p] = "relayed"
    BY <1>29 DEF RelayError, OutputStep
  <2>4. \/ leakedErrors'[p] = leakedErrors[p]
        \/ ~closed[p] /\ paused[p] /\ leakedErrors'[p] = leakedErrors[p] + 1
    BY <1>29 DEF RelayError, CountLeak
  <2> QED
    BY <2>1, <2>2, <2>3, <2>4 DEF ErrorInv
<1>30. ASSUME NEW p \in Pipes, CloseAfterError(p) PROVE Quiet
  BY <1>30 DEF CloseAfterError, OutputStep, CloseAll, Quiet
<1>31. ASSUME NEW p \in Pipes, TellOutputFailed(p) PROVE ErrorInv'
  <2>1. UNCHANGED <<paused, input, closed>>
    BY <1>31 DEF TellOutputFailed
  <2>2. \A q \in Pipes :
          q # p => output'[q] = output[q] /\ leakedErrors'[q] = leakedErrors[q]
    BY <1>31 DEF TellOutputFailed, OutputStep, TellError, CountLeak
  <2>3. output[p] = "failing" /\ output'[p] = "told"
    BY <1>31 DEF TellOutputFailed, OutputStep
  <2>4. \/ leakedErrors'[p] = leakedErrors[p]
        \/ ~closed[p] /\ paused[p] /\ leakedErrors'[p] = leakedErrors[p] + 1
    BY <1>31 DEF TellOutputFailed, TellError, CountLeak
  <2> QED
    BY <2>1, <2>2, <2>3, <2>4 DEF ErrorInv
<1>32. ASSUME NEW p \in Pipes, EndAfterTelling(p) PROVE Quiet
  BY <1>32 DEF EndAfterTelling, ReturnFrom, OutputStep, CloseAll, Quiet
<1>33. CASE UNCHANGED vars
  BY <1>0, <1>33 DEF vars, Quiet
<1> QED
  BY <1>0, <1>1, <1>2, <1>3, <1>4, <1>5, <1>6, <1>7, <1>8, <1>9, <1>10, <1>11, <1>12,
     <1>13, <1>14, <1>15, <1>16, <1>17, <1>18, <1>19, <1>20, <1>21, <1>22, <1>23,
     <1>24, <1>25, <1>26, <1>27, <1>28, <1>29, <1>30, <1>31, <1>32, <1>33
     DEF Next, Reading, GettingReady, Sending, Monitoring

(* Whoever closes a pipe leaves the rest of its end to the reader of guacd.*)
LEMMA EndStep ==
  ASSUME TypeOK, Ended, [Next]_vars
  PROVE  Ended'
<1> USE Rows DEF TypeOK, RunTypeOK, StatusTypeOK, statusVars, runVars, pauseVars,
    bufferVars, leakVars, Ended, EndedPipeHasFinalizer
<1>1. ASSUME NEW s \in Sessions, ControlPlane(s) PROVE Ended'
  BY <1>1 DEF ControlPlane, Start, Pause, Resume, Move, Close, IsOpen, Phases
<1>2. ASSUME NEW p \in Pipes, Open(p) PROVE Ended'
  BY <1>2 DEF Open, CloseAll
<1>3. ASSUME NEW p \in Pipes, Finalize(p) PROVE Ended'
  BY <1>3 DEF Finalize, Close, IsOpen, Phases
<1>4. ASSUME NEW p \in Pipes, ReadMessage(p) PROVE Ended'
  BY <1>4 DEF ReadMessage, InputStep
<1>5. ASSUME NEW p \in Pipes, CheckPaused(p) PROVE Ended'
  BY <1>5 DEF CheckPaused, InputStep
<1>6. ASSUME NEW p \in Pipes, BufferInput(p) PROVE Ended'
  BY <1>6 DEF BufferInput, InputStep
<1>7. ASSUME NEW p \in Pipes, WriteDirect(p) PROVE Ended'
  BY <1>7 DEF WriteDirect, InputStep, CountLeak
<1>8. ASSUME NEW p \in Pipes, InputEnds(p) PROVE Ended'
  BY <1>8 DEF InputEnds, InputStep, CloseAll
<1>9. ASSUME NEW p \in Pipes, RecordReady(p) PROVE Ended'
  BY <1>9 DEF RecordReady, OutputGoes, OutputStep
<1>10. ASSUME NEW p \in Pipes, MarkReady(p) PROVE Ended'
  BY <1>10 DEF MarkReady, OutputStep
<1>11. ASSUME NEW p \in Pipes, Announce(p) PROVE Ended'
  BY <1>11 DEF Announce, OutputStep
<1>12. ASSUME NEW p \in Pipes, CheckResumed(p) PROVE Ended'
  BY <1>12 DEF CheckResumed, OutputGoes, OutputStep
<1>13. ASSUME NEW p \in Pipes, OutputTakes(p) PROVE Ended'
  BY <1>13 DEF OutputTakes, OutputStep, TakePending
<1>14. ASSUME NEW p \in Pipes, OutputFlushes(p) PROVE Ended'
  BY <1>14 DEF OutputStep, OutputFlushes, OutputGoes, WritePending
<1>15. ASSUME NEW p \in Pipes, GateBeforeRead(p) PROVE Ended'
  BY <1>15 DEF GateBeforeRead, OutputGoes, OutputStep
<1>16. ASSUME NEW p \in Pipes, ReadInstructions(p) PROVE Ended'
  BY <1>16 DEF ReadInstructions, OutputGoes, OutputStep
<1>17. ASSUME NEW p \in Pipes, GateBeforeSend(p) PROVE Ended'
  BY <1>17 DEF GateBeforeSend, OutputGoes, OutputStep
<1>18. ASSUME NEW p \in Pipes, SendInstruction(p) PROVE Ended'
  BY <1>18 DEF SendInstruction, OutputStep, CountLeak
<1>19. ASSUME NEW p \in Pipes, EndOutput(p) PROVE Ended'
  BY <1>19 DEF EndOutput, ReturnFrom, OutputStep, CloseAll
<1>20. ASSUME NEW p \in Pipes, QueryState(p) PROVE Ended'
  BY <1>20 DEF QueryState, MonitorStep
<1>21. ASSUME NEW p \in Pipes, Mirror(p) PROVE Ended'
  BY <1>21 DEF Mirror, MonitorStep
<1>22. ASSUME NEW p \in Pipes, MonitorTakes(p) PROVE Ended'
  BY <1>22 DEF MonitorTakes, MonitorStep, TakePending
<1>23. ASSUME NEW p \in Pipes, MonitorFlushes(p) PROVE Ended'
  <2>1. UNCHANGED <<phase, stage, unfinalized, output>>
    BY <1>23 DEF MonitorFlushes
  <2>2. \A q \in Pipes : q # p => monitor'[q] = monitor[q] /\ closed'[q] = closed[q]
    BY <1>23 DEF MonitorFlushes, MonitorStep, CloseAll
  <2>3. CASE monitor'[p] # "stopped" /\ closed' = closed
    BY <2>1, <2>2, <2>3
  <2>4. CASE closed'[p] /\ stage[p] # "new"
    BY <2>1, <2>2, <2>4
  <2> QED
    BY <1>23, <2>3, <2>4 DEF MonitorFlushes, MonitorStep, CloseAll
<1>24. ASSUME NEW p \in Pipes, MonitorGoesOn(p) PROVE Ended'
  BY <1>24 DEF MonitorGoesOn, MonitorStep, CloseAll
<1>25. ASSUME NEW p \in Pipes, TellInputFailed(p) PROVE Ended'
  BY <1>25 DEF TellInputFailed, InputStep, TellError, CountLeak
<1>26. ASSUME NEW p \in Pipes, NextInstruction(p) PROVE Ended'
  BY <1>26 DEF NextInstruction, OutputGoes, OutputStep
<1>27. ASSUME NEW p \in Pipes, HandshakeError(p) PROVE Ended'
  BY <1>27 DEF HandshakeError, OutputGoes, OutputStep
<1>28. ASSUME NEW p \in Pipes, OutputFails(p) PROVE Ended'
  BY <1>28 DEF OutputFails, OutputGoes, OutputStep
<1>29. ASSUME NEW p \in Pipes, RelayError(p) PROVE Ended'
  BY <1>29 DEF RelayError, OutputStep, CountLeak
<1>30. ASSUME NEW p \in Pipes, CloseAfterError(p) PROVE Ended'
  BY <1>30 DEF CloseAfterError, OutputStep, CloseAll
<1>31. ASSUME NEW p \in Pipes, TellOutputFailed(p) PROVE Ended'
  BY <1>31 DEF TellOutputFailed, OutputStep, TellError, CountLeak
<1>32. ASSUME NEW p \in Pipes, EndAfterTelling(p) PROVE Ended'
  BY <1>32 DEF EndAfterTelling, ReturnFrom, OutputStep, CloseAll
<1>33. CASE UNCHANGED vars
  BY <1>33 DEF vars
<1> QED
  BY <1>1, <1>2, <1>3, <1>4, <1>5, <1>6, <1>7, <1>8, <1>9, <1>10, <1>11, <1>12,
     <1>13, <1>14, <1>15, <1>16, <1>17, <1>18, <1>19, <1>20, <1>21, <1>22, <1>23,
     <1>24, <1>25, <1>26, <1>27, <1>28, <1>29, <1>30, <1>31, <1>32, <1>33
     DEF Next, Reading, GettingReady, Sending, Monitoring

(* The buffer is filled again only by the handler of "ready", which goes   *)
(* on to look at the flag, and the monitor takes it when it lowers that.   *)
LEMMA WatchedStep ==
  ASSUME TypeOK, Ended, Watched, [Next]_vars
  PROVE  Watched'
<1> USE Rows DEF TypeOK, RunTypeOK, BufferTypeOK, StatusTypeOK, statusVars, runVars, pauseVars,
    bufferVars, leakVars, Ended, EndedPipeHasFinalizer,
    Watched
<1>1. ASSUME NEW s \in Sessions, ControlPlane(s) PROVE Watched'
  BY <1>1 DEF ControlPlane, Start, Pause, Resume, Move, Close, IsOpen, Phases
<1>2. ASSUME NEW p \in Pipes, Open(p) PROVE Watched'
  <2>1. UNCHANGED <<ready, pending, paused>>
    BY <1>2 DEF Open
  <2>2. \A q \in Pipes : q # p => /\ output'[q] = output[q] /\ monitor'[q] = monitor[q]
                                 /\ closed'[q] = closed[q]
    BY <1>2, SMTT(60) DEF Open, CloseAll
  <2>3. closed'[p] \/ UNCHANGED <<output, monitor, closed>>
    BY <1>2 DEF Open, CloseAll
  <2>4. SUFFICES ASSUME NEW q \in Pipes, (ready[q] /\ pending[q] # <<>>)'
                 PROVE  \/ output'[q] \in {"restored", "resumed"}
                        \/ paused'[q] /\ monitor'[q] # "stopped"
                        \/ monitor'[q] = "resumed"
                        \/ closed'[q]
    OBVIOUS
  <2>5. \/ output[q] \in {"restored", "resumed"}
        \/ paused[q] /\ monitor[q] # "stopped"
        \/ monitor[q] = "resumed"
        \/ closed[q]
    BY <2>1, <2>4
  <2>6. CASE q = p
    BY <2>1, <2>3, <2>5, <2>6
  <2>7. CASE q # p
    BY <2>1, <2>2, <2>5, <2>7
  <2> QED
    BY <2>6, <2>7
<1>3. ASSUME NEW p \in Pipes, Finalize(p) PROVE Watched'
  BY <1>3 DEF Finalize, Close, IsOpen, Phases
<1>4. ASSUME NEW p \in Pipes, ReadMessage(p) PROVE Watched'
  BY <1>4 DEF ReadMessage, InputStep
<1>5. ASSUME NEW p \in Pipes, CheckPaused(p) PROVE Watched'
  BY <1>5 DEF CheckPaused, InputStep
<1>6. ASSUME NEW p \in Pipes, BufferInput(p) PROVE Watched'
  <2>1. UNCHANGED <<ready, paused, output, monitor, closed>>
    BY <1>6 DEF BufferInput
  <2>2. /\ \A q \in Pipes : q # p => pending'[q] = pending[q]
        /\ ready[p] => pending' = pending
    BY <1>6 DEF BufferInput
  <2> QED
    BY <2>1, <2>2
<1>7. ASSUME NEW p \in Pipes, WriteDirect(p) PROVE Watched'
  <2>1. UNCHANGED <<ready, pending, paused, output, monitor>>
    BY <1>7 DEF WriteDirect
  <2>2. \A q \in Pipes : closed[q] => closed'[q]
    BY <1>7, ZenonT(60) DEF WriteDirect, CloseAll
  <2> QED
    BY <2>1, <2>2
<1>8. ASSUME NEW p \in Pipes, InputEnds(p) PROVE Watched'
  BY <1>8 DEF InputEnds, InputStep, CloseAll
<1>9. ASSUME NEW p \in Pipes, RecordReady(p) PROVE Watched'
  BY <1>9, ZenonT(60) DEF RecordReady, OutputGoes, OutputStep
<1>10. ASSUME NEW p \in Pipes, MarkReady(p) PROVE Watched'
  BY <1>10 DEF MarkReady, OutputStep
<1>11. ASSUME NEW p \in Pipes, Announce(p) PROVE Watched'
  BY <1>11 DEF Announce, OutputStep
<1>12. ASSUME NEW p \in Pipes, CheckResumed(p) PROVE Watched'
  <2>1. UNCHANGED <<ready, pending, paused, monitor, closed>>
    BY <1>12 DEF CheckResumed, OutputGoes
  <2>2. /\ \A q \in Pipes : q # p => output'[q] = output[q]
        /\ paused[p] \/ output'[p] = "resumed"
    BY <1>12 DEF CheckResumed, OutputGoes, OutputStep
  <2>3. monitor[p] # "stopped" \/ closed[p]
    OBVIOUS
  <2> QED
    BY <2>1, <2>2, <2>3
<1>13. ASSUME NEW p \in Pipes, OutputTakes(p) PROVE Watched'
  BY <1>13 DEF OutputTakes, OutputStep, TakePending
<1>14. ASSUME NEW p \in Pipes, OutputFlushes(p) PROVE Watched'
  <2>1. UNCHANGED <<ready, pending, paused, monitor, closed>>
    BY <1>14 DEF OutputFlushes, OutputGoes
  <2>2. /\ \A q \in Pipes : q # p => output'[q] = output[q]
        /\ output[p] = "flushing"
    BY <1>14, ZenonT(60) DEF OutputFlushes, OutputGoes, OutputStep
  <2> QED
    BY <2>1, <2>2
<1>15. ASSUME NEW p \in Pipes, GateBeforeRead(p) PROVE Watched'
  BY <1>15, ZenonT(60) DEF GateBeforeRead, OutputGoes, OutputStep
<1>16. ASSUME NEW p \in Pipes, ReadInstructions(p) PROVE Watched'
  BY <1>16, ZenonT(60) DEF ReadInstructions, OutputGoes, OutputStep
<1>17. ASSUME NEW p \in Pipes, GateBeforeSend(p) PROVE Watched'
  BY <1>17, ZenonT(60) DEF GateBeforeSend, OutputGoes, OutputStep
<1>18. ASSUME NEW p \in Pipes, SendInstruction(p) PROVE Watched'
  BY <1>18, ZenonT(60) DEF SendInstruction, OutputStep, CountLeak
<1>19. ASSUME NEW p \in Pipes, EndOutput(p) PROVE Watched'
  <2>1. PICK from \in {"handshake", "reading", "waiting", "held"} : ReturnFrom(p, from)
    BY <1>19 DEF EndOutput
  <2> QED
    BY <2>1 DEF ReturnFrom, OutputStep, CloseAll
<1>20. ASSUME NEW p \in Pipes, QueryState(p) PROVE Watched'
  BY <1>20 DEF QueryState, MonitorStep
<1>21. ASSUME NEW p \in Pipes, Mirror(p) PROVE Watched'
  <2>1. UNCHANGED <<ready, pending, output, closed>>
    BY <1>21 DEF Mirror
  <2>2. \A q \in Pipes : q # p => paused'[q] = paused[q] /\ monitor'[q] = monitor[q]
    BY <1>21 DEF Mirror, MonitorStep
  <2>3. /\ monitor[p] = "answered"
        /\ paused[p] => \/ paused'[p] /\ monitor'[p] = "mirrored"
                        \/ monitor'[p] = "resumed"
    BY <1>21 DEF Mirror, MonitorStep
  <2>4. SUFFICES ASSUME NEW q \in Pipes, (ready[q] /\ pending[q] # <<>>)'
                 PROVE  \/ output'[q] \in {"restored", "resumed"}
                        \/ paused'[q] /\ monitor'[q] # "stopped"
                        \/ monitor'[q] = "resumed"
                        \/ closed'[q]
    OBVIOUS
  <2>5. \/ output[q] \in {"restored", "resumed"}
        \/ paused[q] /\ monitor[q] # "stopped"
        \/ monitor[q] = "resumed"
        \/ closed[q]
    BY <2>1, <2>4
  <2>6. CASE q = p
    BY <2>1, <2>3, <2>5, <2>6
  <2>7. CASE q # p
    BY <2>1, <2>2, <2>5, <2>7
  <2> QED
    BY <2>6, <2>7
<1>22. ASSUME NEW p \in Pipes, MonitorTakes(p) PROVE Watched'
  <2>1. UNCHANGED <<ready, paused, output, closed>>
    BY <1>22 DEF MonitorTakes
  <2>2. \A q \in Pipes : q # p => pending'[q] = pending[q] /\ monitor'[q] = monitor[q]
    BY <1>22, SMTT(60) DEF MonitorTakes, MonitorStep, TakePending
  <2>3. ready[p] => pending'[p] = <<>>
    BY <1>22 DEF MonitorTakes, TakePending
  <2> QED
    BY <2>1, <2>2, <2>3, ZenonT(60)
<1>23. ASSUME NEW p \in Pipes, MonitorFlushes(p) PROVE Watched'
  <2>1. UNCHANGED <<ready, pending, paused, output>>
    BY <1>23 DEF MonitorFlushes
  <2>2. /\ \A q \in Pipes : q # p => monitor'[q] = monitor[q]
        /\ \A q \in Pipes : closed[q] => closed'[q]
    BY <1>23, ZenonT(60) DEF MonitorFlushes, MonitorStep, CloseAll
  <2>3. monitor[p] = "flushing" /\ (monitor'[p] # "stopped" \/ closed'[p])
    BY <1>23 DEF MonitorFlushes, MonitorStep, CloseAll
  <2> QED
    BY <2>1, <2>2, <2>3
<1>24. ASSUME NEW p \in Pipes, MonitorGoesOn(p) PROVE Watched'
  <2>1. UNCHANGED <<ready, pending, paused, output>>
    BY <1>24 DEF MonitorGoesOn
  <2>2. /\ \A q \in Pipes : q # p => monitor'[q] = monitor[q]
        /\ \A q \in Pipes : closed[q] => closed'[q]
    BY <1>24, ZenonT(60) DEF MonitorGoesOn, MonitorStep, CloseAll
  <2>3. monitor[p] # "resumed" /\ (monitor'[p] # "stopped" \/ closed'[p])
    BY <1>24 DEF MonitorGoesOn, MonitorStep, CloseAll
  <2> QED
    BY <2>1, <2>2, <2>3
<1>25. ASSUME NEW p \in Pipes, TellInputFailed(p) PROVE Watched'
  BY <1>25 DEF TellInputFailed, InputStep, TellError, CountLeak
<1>26. ASSUME NEW p \in Pipes, NextInstruction(p) PROVE Watched'
  <2>1. PICK to \in {"held", "error", "waiting"} : OutputGoes(p, "next", to)
    BY <1>26 DEF NextInstruction
  <2> QED
    BY <2>1, ZenonT(60) DEF OutputGoes, OutputStep
<1>27. ASSUME NEW p \in Pipes, HandshakeError(p) PROVE Watched'
  BY <1>27, ZenonT(60) DEF HandshakeError, OutputGoes, OutputStep
<1>28. ASSUME NEW p \in Pipes, OutputFails(p) PROVE Watched'
  <2>1. PICK from \in {"handshake", "announcing", "flushing", "reading", "passed", "error"} :
               OutputGoes(p, from, "failing")
    BY <1>28 DEF OutputFails
  <2> QED
    BY <2>1, ZenonT(60) DEF OutputGoes, OutputStep
<1>29. ASSUME NEW p \in Pipes, RelayError(p) PROVE Watched'
  BY <1>29, ZenonT(60) DEF RelayError, OutputStep, CountLeak
<1>30. ASSUME NEW p \in Pipes, CloseAfterError(p) PROVE Watched'
  BY <1>30 DEF CloseAfterError, OutputStep, CloseAll
<1>31. ASSUME NEW p \in Pipes, TellOutputFailed(p) PROVE Watched'
  BY <1>31, ZenonT(60) DEF TellOutputFailed, OutputStep, TellError, CountLeak
<1>32. ASSUME NEW p \in Pipes, EndAfterTelling(p) PROVE Watched'
  BY <1>32 DEF EndAfterTelling, ReturnFrom, OutputStep, CloseAll
<1>33. CASE UNCHANGED vars
  BY <1>33 DEF vars
<1> QED
  BY <1>1, <1>2, <1>3, <1>4, <1>5, <1>6, <1>7, <1>8, <1>9, <1>10, <1>11, <1>12,
     <1>13, <1>14, <1>15, <1>16, <1>17, <1>18, <1>19, <1>20, <1>21, <1>22, <1>23,
     <1>24, <1>25, <1>26, <1>27, <1>28, <1>29, <1>30, <1>31, <1>32, <1>33
     DEF Next, Reading, GettingReady, Sending, Monitoring

-----------------------------------------------------------------------------
(* Inv holds of a broker that has accepted nothing, and every step keeps   *)
(* it.                                                                     *)
LEMMA InvInit == Init => Inv
<1> SUFFICES ASSUME Init PROVE Inv
  OBVIOUS
<1> USE DEF Init, StatusInit
<1>1. TypeOK
  BY DEF TypeOK, StatusTypeOK, RunTypeOK, BufferTypeOK, Phases, Stages, Monitors,
     Inputs, Outputs
<1>2. RowInv /\ LeakInv /\ ErrorInv
  BY DEF RowInv, LeakInv, ErrorInv, InputTold, OutputTold
<1>3. Positions /\ Holder
  BY DEF Positions, PlaceAt, Holder, HolderAt
<1>4. Ended /\ Watched
  BY DEF Ended, EndedPipeHasFinalizer, Watched
<1> QED
  BY <1>1, <1>2, <1>3, <1>4 DEF Inv

(* Hence Inv holds throughout.                                             *)
LEMMA Invariance == Spec => []Inv
<1>1. Inv /\ [Next]_vars => Inv'
  BY RowStep, StatusTypeStep, RunTypeStep, BufferTypeStep, PositionsStep,
     HolderStep, LeakStep, ErrorStep, EndStep, WatchedStep DEF Inv, TypeOK
<1> QED
  BY <1>1, InvInit, PTL DEF Spec

(* Every variable keeps its type; in particular a row that a pipe and an   *)
(* administrator close at the same time is audited once.                   *)
THEOREM TypeCorrect == Spec => []TypeOK
<1>1. Inv => TypeOK
  BY DEF Inv
<1> QED
  BY <1>1, Invariance, PTL

(* What was typed before guacd was ready is neither lost, sent twice nor   *)
(* reordered, for any number of messages and of pauses.                    *)
THEOREM BufferIsKeptHolds == Spec => []BufferIsKept
<1>1. Inv => BufferIsKept
  <2> SUFFICES ASSUME Inv, NEW p \in Pipes PROVE Buffered(p) = kept[p]
    BY DEF BufferIsKept
  <2>1. /\ flushed[p] \in Seq(Nat) /\ taken[p] \in Seq(Nat)
        /\ pending[p] \in Seq(Nat) /\ outBatch[p] \in Seq(Nat) /\ monBatch[p] \in Seq(Nat)
    BY DEF Inv, TypeOK, BufferTypeOK
  <2>2. \A s \in Seq(Nat) : s \o <<>> = s
    BY ConcatEmptySeq
  <2>3. kept[p] \in Seq(Nat) /\ kept[p] \o <<>> = kept[p] /\ flushed[p] \o <<>> = flushed[p]
    BY <2>1, <2>2 DEF Inv, TypeOK, BufferTypeOK
  <2>4. CASE outBatch[p] # <<>>
    <3>1. monBatch[p] = <<>> /\ taken[p] = <<>> /\ pending[p] = <<>>
          /\ flushed[p] \o outBatch[p] = kept[p]
      BY <2>4 DEF Inv, Holder, HolderAt
    <3> QED
      BY <3>1, <2>3 DEF Buffered
  <2>5. CASE monBatch[p] # <<>>
    <3>1. outBatch[p] = <<>> /\ taken[p] = <<>> /\ pending[p] = <<>>
          /\ flushed[p] \o monBatch[p] = kept[p]
      BY <2>5 DEF Inv, Holder, HolderAt
    <3> QED
      BY <3>1, <2>3 DEF Buffered
  <2>6. CASE taken[p] # <<>>
    <3>1. outBatch[p] = <<>> /\ monBatch[p] = <<>> /\ pending[p] = <<>>
          /\ flushed[p] \o taken[p] = kept[p]
      BY <2>6 DEF Inv, Holder, HolderAt
    <3> QED
      BY <3>1, <2>3 DEF Buffered
  <2>7. CASE outBatch[p] = <<>> /\ monBatch[p] = <<>> /\ taken[p] = <<>> /\ pending[p] # <<>>
    <3>1. flushed[p] \o pending[p] = kept[p]
      BY <2>7 DEF Inv, Holder, HolderAt
    <3> QED
      BY <3>1, <2>7, <2>1, <2>2 DEF Buffered
  <2>8. CASE outBatch[p] = <<>> /\ monBatch[p] = <<>> /\ taken[p] = <<>> /\ pending[p] = <<>>
    <3>1. flushed[p] = kept[p]
      BY <2>8 DEF Inv, Holder, HolderAt
    <3> QED
      BY <3>1, <2>8, <2>1, <2>2 DEF Buffered
  <2> QED
    BY <2>4, <2>5, <2>6, <2>7, <2>8
<1> QED
  BY <1>1, Invariance, PTL

(* However often the monitor polls, a pause lets through at most the one   *)
(* message and the one instruction that had passed the check before it;    *)
(* and however many instructions one read has brought, errors, which it    *)
(* does not hold, reach the browser at most once for each direction.       *)
THEOREM PauseLeaksOneEachWayHolds == Spec => []PauseLeaksOneEachWay
<1>1. Inv => PauseLeaksOneEachWay
  <2> SUFFICES ASSUME Inv, NEW p \in Pipes
               PROVE  leakedIn[p] <= 1 /\ leakedOut[p] <= 1 /\ leakedErrors[p] <= 2
    BY DEF PauseLeaksOneEachWay
  <2>1. leakedIn[p] <= 1 /\ leakedOut[p] <= 1
    BY DEF Inv, LeakInv
  <2>2. leakedErrors[p] <= 2
    BY DEF Inv, TypeOK, RunTypeOK, ErrorInv
  <2> QED
    BY <2>1, <2>2
<1> QED
  BY <1>1, Invariance, PTL

(* A pipe that has been closed is ended by its reader of guacd, then       *)
(* finalized, and one that has not been closed is still watched: the       *)
(* safety half of ClosedRowEndsPipes and EndedPipeClosesRow.               *)
THEOREM EndedPipeHasFinalizerHolds == Spec => []EndedPipeHasFinalizer
<1>1. Inv => EndedPipeHasFinalizer
  BY DEF Inv, Ended
<1> QED
  BY <1>1, Invariance, PTL

(* What is still buffered has somebody who is going to send it, however    *)
(* pauses meet the handler of "ready": the safety half of                  *)
(* BufferReachesGuacd.                                                     *)
THEOREM BufferHasFlusherHolds == Spec => []BufferHasFlusher
<1>1. Inv => BufferHasFlusher
  <2> SUFFICES ASSUME Inv, NEW p \in Pipes, ready[p], flushed[p] # kept[p]
               PROVE  \/ output[p] \in {"announcing", "restored", "resumed", "flushing"}
                      \/ monitor[p] \in {"resumed", "flushing"}
                      \/ paused[p] /\ monitor[p] # "stopped"
                      \/ output[p] \in {"failing", "told"}
                      \/ closed[p]
    BY DEF BufferHasFlusher
  <2>1. output[p] = "ended" \/ monitor[p] = "stopped" => closed[p]
    BY DEF Inv, TypeOK, RunTypeOK, Ended, EndedPipeHasFinalizer
  <2>2. CASE outBatch[p] # <<>> \/ taken[p] # <<>> \/ monBatch[p] # <<>>
    BY <2>1, <2>2 DEF Inv, Positions, PlaceAt
  <2>3. CASE pending[p] # <<>>
    BY <2>3 DEF Inv, Watched
  <2>4. CASE /\ outBatch[p] = <<>> /\ taken[p] = <<>>
             /\ monBatch[p] = <<>> /\ pending[p] = <<>>
    BY <2>4 DEF Inv, Holder, HolderAt
  <2> QED
    BY <2>2, <2>3, <2>4
<1> QED
  BY <1>1, Invariance, PTL
=============================================================================
