---------------------------- MODULE DesktopPipe ----------------------------
(***************************************************************************)
(* The desktop broker's pipe between a browser's WebSocket and guacd: one  *)
(* goroutine per direction, the buffer that keeps what the user types      *)
(* until guacd is ready, the monitor that mirrors the session row into the *)
(* pause flag, and the finalization of the row when the pipe has ended.    *)
(*                                                                         *)
(* The row is the one SessionStatus specifies. The owner's token names its *)
(* row, which its pipe follows and finalizes; an observer's pipe follows   *)
(* the row it observes, and its own token names none.                      *)
(***************************************************************************)
EXTENDS SessionStatus, Sequences

CONSTANTS
  Pipes,        \* WebSockets whose token was accepted, one guacSession each
  Owners,       \* those whose token is the one of the row they follow
  RowOf,        \* the row each of them follows
  MaxTyped      \* bound: messages each browser sends

ASSUME PipeAssumption ==
  /\ Owners \subseteq Pipes
  /\ RowOf \in [Pipes -> Sessions]
  /\ MaxTyped \in [Pipes -> Nat]
  /\ {"admin_terminated", "guac_close"} \subseteq Reasons

VARIABLES
  stage,        \* progress of run()
  closed,       \* closeAll has run: both sockets and the channel are closed
  unfinalized,  \* FinalizeDesktopSession failed
  paused,       \* the paused flag
  monitor,      \* position of monitorSessionState
  poll,         \* the status its latest query returned
  input,        \* position of readWebSocket
  typed,        \* number of the latest message read from the browser
  output,       \* position of readGuacd
  ready,        \* the ready flag
  pending,      \* messages buffered until guacd is ready
  taken,        \* those the handler of "ready" holds while it tells the browser
  outBatch,     \* those flushPending is writing, called by readGuacd
  monBatch,     \* those flushPending is writing, called by the monitor
  kept,         \* history: every message that was buffered, in order
  flushed,      \* history: the buffered messages written to guacd, in order
  leakedIn,     \* history: messages written to guacd directly since the pause
  leakedOut,    \* history: instructions a pause holds that were sent to the
                \* browser since the pause
  leakedErrors  \* history: errors sent to the browser since the pause

runVars    == <<stage, closed, unfinalized>>
leakVars   == <<leakedIn, leakedOut, leakedErrors>>
pauseVars  == <<paused, monitor, poll, leakVars>>
bufferVars == <<ready, pending, taken, outBatch, monBatch, kept, flushed>>
vars == <<phase, reason, ends, stage, closed, unfinalized, paused, monitor,
          poll, leakedIn, leakedOut, leakedErrors, input, typed, output, ready, pending, taken,
          outBatch, monBatch, kept, flushed>>

Stages  == {"new", "running", "ended", "finalized"}
Monitors == {"idle", "answered", "resumed", "flushing", "mirrored", "stopped"}
Inputs  == {"waiting", "read", "checked", "direct", "failing", "told", "ended"}
Outputs == {"handshake", "recorded", "announcing", "restored", "resumed",
            "flushing", "next", "waiting", "reading", "held", "passed",
            "error", "relayed", "failing", "told", "ended"}

RunTypeOK ==
  /\ stage       \in [Pipes -> Stages]
  /\ closed      \in [Pipes -> BOOLEAN]
  /\ unfinalized \in [Pipes -> BOOLEAN]
  /\ paused      \in [Pipes -> BOOLEAN]
  /\ monitor     \in [Pipes -> Monitors]
  /\ poll        \in [Pipes -> Phases]
  /\ leakedIn    \in [Pipes -> Nat]
  /\ leakedOut   \in [Pipes -> Nat]
  /\ leakedErrors \in [Pipes -> Nat]
  /\ input       \in [Pipes -> Inputs]
  /\ output      \in [Pipes -> Outputs]

BufferTypeOK ==
  /\ typed    \in [Pipes -> Nat]
  /\ ready    \in [Pipes -> BOOLEAN]
  /\ pending  \in [Pipes -> Seq(Nat)]
  /\ taken    \in [Pipes -> Seq(Nat)]
  /\ outBatch \in [Pipes -> Seq(Nat)]
  /\ monBatch \in [Pipes -> Seq(Nat)]
  /\ kept     \in [Pipes -> Seq(Nat)]
  /\ flushed  \in [Pipes -> Seq(Nat)]

TypeOK == StatusTypeOK /\ RunTypeOK /\ BufferTypeOK

Init ==
  /\ StatusInit
  /\ stage       = [p \in Pipes |-> "new"]
  /\ closed      = [p \in Pipes |-> FALSE]
  /\ unfinalized = [p \in Pipes |-> FALSE]
  /\ paused      = [p \in Pipes |-> FALSE]
  /\ monitor     = [p \in Pipes |-> "idle"]
  /\ poll        = [p \in Pipes |-> "NONE"]
  /\ leakedIn    = [p \in Pipes |-> 0]
  /\ leakedOut   = [p \in Pipes |-> 0]
  /\ leakedErrors = [p \in Pipes |-> 0]
  /\ input       = [p \in Pipes |-> "waiting"]
  /\ typed       = [p \in Pipes |-> 0]
  /\ output      = [p \in Pipes |-> "handshake"]
  /\ ready       = [p \in Pipes |-> FALSE]
  /\ pending     = [p \in Pipes |-> <<>>]
  /\ taken       = [p \in Pipes |-> <<>>]
  /\ outBatch    = [p \in Pipes |-> <<>>]
  /\ monBatch    = [p \in Pipes |-> <<>>]
  /\ kept        = [p \in Pipes |-> <<>>]
  /\ flushed     = [p \in Pipes |-> <<>>]

-----------------------------------------------------------------------------
(* The control plane changes the row; SessionStore models how.             *)
ControlPlane(s) ==
  /\ \/ Start(s)
     \/ Pause(s)
     \/ Resume(s)
     \/ \E why \in Reasons \ {"guac_close"} : Close(s, why)
  /\ UNCHANGED <<runVars, pauseVars, input, typed, output, bufferVars>>

(* closeAll, under closeOnce. Reads of a closed socket and writes to it    *)
(* fail from then on.                                                      *)
CloseAll(p) == closed' = [closed EXCEPT ![p] = TRUE]

-----------------------------------------------------------------------------
(* HandleWebSocket has dialled guacd; run writes "select" and starts the   *)
(* goroutines, or tells the browser that it failed and goes on to          *)
(* finalize.                                                               *)
Open(p) ==
  /\ stage[p] = "new"
  /\ phase[RowOf[p]] # "NONE"
  /\ \/ /\ stage' = [stage EXCEPT ![p] = "running"]
        /\ UNCHANGED <<closed, input, output, monitor>>
     \/ /\ stage'   = [stage   EXCEPT ![p] = "ended"]
        /\ input'   = [input   EXCEPT ![p] = "ended"]
        /\ output'  = [output  EXCEPT ![p] = "ended"]
        /\ monitor' = [monitor EXCEPT ![p] = "stopped"]
        /\ CloseAll(p)
  /\ UNCHANGED <<statusVars, unfinalized, paused, poll, leakVars, typed, bufferVars>>

(* Faulty variant: the row is closed and audited although it is closed.    *)
FinalizeAgain(p) ==
  /\ stage[p] = "ended"
  /\ stage'  = [stage  EXCEPT ![p] = "finalized"]
  /\ phase'  = [phase  EXCEPT ![RowOf[p]] = "CLOSED"]
  /\ reason' = [reason EXCEPT ![RowOf[p]] = "guac_close"]
  /\ ends'   = [ends   EXCEPT ![RowOf[p]] = @ + 1]
  /\ UNCHANGED <<closed, unfinalized, pauseVars, input, typed, output, bufferVars>>

(* finalize: FinalizeDesktopSession closes the row its token names if it   *)
(* is still open; a failure is logged and forgotten.                       *)
Finalize(p) ==
  /\ stage[p] = "ended"
  /\ stage' = [stage EXCEPT ![p] = "finalized"]
  /\ \/ /\ p \in Owners
        /\ Close(RowOf[p], "guac_close")
        /\ UNCHANGED unfinalized
     \/ /\ p \notin Owners \/ phase[RowOf[p]] = "CLOSED"
        /\ UNCHANGED <<statusVars, unfinalized>>
     \/ /\ unfinalized' = [unfinalized EXCEPT ![p] = TRUE]
        /\ UNCHANGED statusVars
  /\ UNCHANGED <<closed, pauseVars, input, typed, output, bufferVars>>

-----------------------------------------------------------------------------
(* readWebSocket.                                                          *)
InputStep(p, from, to) ==
  /\ stage[p] # "new"
  /\ input[p] = from
  /\ input' = [input EXCEPT ![p] = to]

(* What is sent while the flag is set is a leak of the pause.              *)
CountLeak(p, leaked) == [leaked EXCEPT ![p] = IF paused[p] THEN @ + 1 ELSE @]

(* An error instruction is written to the browser, paused or not, unless   *)
(* the socket is gone.                                                     *)
TellError(p) ==
  \/ ~closed[p] /\ leakedErrors' = CountLeak(p, leakedErrors)
  \/ UNCHANGED leakedErrors

ReadMessage(p) ==
  /\ ~closed[p]
  /\ typed[p] < MaxTyped[p]
  /\ InputStep(p, "waiting", "read")
  /\ typed' = [typed EXCEPT ![p] = @ + 1]
  /\ UNCHANGED <<statusVars, runVars, pauseVars, output, bufferVars>>

(* Faulty variant: a pause does not hold back what the user does.          *)
CheckNothing(p) ==
  /\ InputStep(p, "read", "checked")
  /\ UNCHANGED <<statusVars, runVars, pauseVars, typed, output, bufferVars>>

(* What the user does while the session is paused is dropped, ...          *)
CheckPaused(p) ==
  /\ InputStep(p, "read", IF paused[p] THEN "waiting" ELSE "checked")
  /\ UNCHANGED <<statusVars, runVars, pauseVars, typed, output, bufferVars>>

(* ... and the rest is buffered until guacd is ready, in one critical      *)
(* section with the look at the flag.                                      *)
BufferInput(p) ==
  /\ IF ready[p]
       THEN /\ InputStep(p, "checked", "direct")
            /\ UNCHANGED <<pending, kept>>
       ELSE /\ InputStep(p, "checked", "waiting")
            /\ pending' = [pending EXCEPT ![p] = Append(@, typed[p])]
            /\ kept'    = [kept    EXCEPT ![p] = Append(@, typed[p])]
  /\ UNCHANGED <<statusVars, runVars, pauseVars, typed, output, ready, taken,
                 outBatch, monBatch, flushed>>

(* writeGuacd outside that section; ...                                    *)
WriteDirect(p) ==
  /\ \/ /\ ~closed[p]
        /\ InputStep(p, "direct", "waiting")
        /\ leakedIn' = CountLeak(p, leakedIn)
     \/ /\ InputStep(p, "direct", "failing")
        /\ UNCHANGED leakedIn
  /\ UNCHANGED <<statusVars, runVars, paused, monitor, poll, leakedOut, leakedErrors,
                 typed, output, bufferVars>>

(* ... of a failure the browser is told, ...                               *)
TellInputFailed(p) ==
  /\ InputStep(p, "failing", "told")
  /\ TellError(p)
  /\ UNCHANGED <<statusVars, runVars, paused, monitor, poll, leakedIn, leakedOut,
                 typed, output, bufferVars>>

(* ... before the pipe is closed (sendErrorAndClose). It is closed at once *)
(* when the browser is gone, or the socket was closed under the reader.    *)
InputEnds(p) ==
  /\ InputStep(p, "waiting", "ended") \/ InputStep(p, "told", "ended")
  /\ CloseAll(p)
  /\ UNCHANGED <<statusVars, stage, unfinalized, pauseVars, typed, output,
                 bufferVars>>

-----------------------------------------------------------------------------
(* flushPending: take what is buffered, then write it message by message.  *)
TakePending(p, batch) ==
  /\ batch'   = [batch   EXCEPT ![p] = pending[p]]
  /\ pending' = [pending EXCEPT ![p] = <<>>]

WritePending(p, batch) ==
  /\ ~closed[p]
  /\ batch[p] # <<>>
  /\ flushed' = [flushed EXCEPT ![p] = Append(@, Head(batch[p]))]
  /\ batch'   = [batch   EXCEPT ![p] = Tail(@)]

-----------------------------------------------------------------------------
(* readGuacd.                                                              *)
OutputStep(p, from, to) ==
  /\ stage[p] = "running"
  /\ output[p] = from
  /\ output' = [output EXCEPT ![p] = to]

OutputGoes(p, from, to) ==
  /\ OutputStep(p, from, to)
  /\ UNCHANGED <<statusVars, runVars, pauseVars, input, typed, bufferVars>>

(* "ready" ends the handshake; its connection id is recorded in the row.   *)
RecordReady(p) == ~closed[p] /\ OutputGoes(p, "handshake", "recorded")

(* From here on the reader writes directly. The handler takes the buffer   *)
(* over while it tells the browser, ...                                    *)
MarkReady(p) ==
  /\ OutputStep(p, "recorded", "announcing")
  /\ ready'   = [ready   EXCEPT ![p] = TRUE]
  /\ taken'   = [taken   EXCEPT ![p] = pending[p]]
  /\ pending' = [pending EXCEPT ![p] = <<>>]
  /\ UNCHANGED <<statusVars, runVars, pauseVars, input, typed, outBatch, monBatch,
                 kept, flushed>>

(* Faulty variant: what it took over is not put back.                      *)
AnnounceForgets(p) ==
  /\ ~closed[p]
  /\ OutputStep(p, "announcing", "restored")
  /\ taken' = [taken EXCEPT ![p] = <<>>]
  /\ UNCHANGED <<statusVars, runVars, pauseVars, input, typed, ready, pending,
                 outBatch, monBatch, kept, flushed>>

(* ... puts it back in front, ...                                          *)
Announce(p) ==
  /\ ~closed[p]
  /\ OutputStep(p, "announcing", "restored")
  /\ pending' = [pending EXCEPT ![p] = taken[p] \o @]
  /\ taken'   = [taken   EXCEPT ![p] = <<>>]
  /\ UNCHANGED <<statusVars, runVars, pauseVars, input, typed, ready,
                 outBatch, monBatch, kept, flushed>>

(* ... and flushes it, unless the pipe is paused: then the monitor will.   *)
CheckResumed(p) ==
  OutputGoes(p, "restored", IF paused[p] THEN "next" ELSE "resumed")

OutputTakes(p) ==
  /\ OutputStep(p, "resumed", "flushing")
  /\ TakePending(p, outBatch)
  /\ UNCHANGED <<statusVars, runVars, pauseVars, input, typed, ready, taken,
                 monBatch, kept, flushed>>

OutputFlushes(p) ==
  \/ /\ OutputStep(p, "flushing", "flushing")
     /\ WritePending(p, outBatch)
     /\ UNCHANGED <<statusVars, runVars, pauseVars, input, typed, ready, pending,
                    taken, monBatch, kept>>
  \/ /\ outBatch[p] = <<>>
     /\ OutputGoes(p, "flushing", "next")

(* One read brings any number of instructions. The next of them may be one *)
(* that a pause holds, or an error, which it does not hold; when none is   *)
(* left the reader waits until resumed and reads on. ("args" and "ready",  *)
(* which it does not hold either, belong to the handshake: guacd sends     *)
(* each of them once.)                                                     *)
NextInstruction(p) ==
  \E to \in {"held", "error", "waiting"} : OutputGoes(p, "next", to)

GateBeforeRead(p) == ~paused[p] /\ OutputGoes(p, "waiting", "reading")

ReadInstructions(p) == ~closed[p] /\ OutputGoes(p, "reading", "next")

GateBeforeSend(p) == ~paused[p] /\ OutputGoes(p, "held", "passed")

SendInstruction(p) ==
  /\ ~closed[p]
  /\ OutputStep(p, "passed", "next")
  /\ leakedOut' = CountLeak(p, leakedOut)
  /\ UNCHANGED <<statusVars, runVars, paused, monitor, poll, leakedIn, leakedErrors,
                 input, typed, bufferVars>>

(* An error of guacd's reaches the browser, paused or not, ...             *)
RelayError(p) ==
  /\ ~closed[p]
  /\ OutputStep(p, "error", "relayed")
  /\ leakedErrors' = CountLeak(p, leakedErrors)
  /\ UNCHANGED <<statusVars, runVars, paused, monitor, poll, leakedIn, leakedOut,
                 input, typed, bufferVars>>

(* ... and closes the pipe; the reader goes on with what else it has read. *)
CloseAfterError(p) ==
  /\ OutputStep(p, "relayed", "next")
  /\ CloseAll(p)
  /\ UNCHANGED <<statusVars, stage, unfinalized, pauseVars, input, typed, bufferVars>>

(* guacd reports an error before it is ready.                              *)
HandshakeError(p) == ~closed[p] /\ OutputGoes(p, "handshake", "error")

(* A write to either side or the record of "ready" fails, or what guacd    *)
(* sends cannot be decoded or answered.                                    *)
OutputFails(p) ==
  \E from \in {"handshake", "announcing", "flushing", "reading", "passed", "error"} :
    /\ from = "flushing" => outBatch[p] # <<>>
    /\ OutputGoes(p, from, "failing")

(* The browser is told, paused or not, before the pipe is closed.          *)
TellOutputFailed(p) ==
  /\ OutputStep(p, "failing", "told")
  /\ TellError(p)
  /\ UNCHANGED <<statusVars, runVars, paused, monitor, poll, leakedIn, leakedOut,
                 input, typed, bufferVars>>

(* readGuacd returns, and run goes on to finalize.                         *)
ReturnFrom(p, from) ==
  /\ OutputStep(p, from, "ended")
  /\ stage' = [stage EXCEPT ![p] = "ended"]
  /\ CloseAll(p)
  /\ UNCHANGED <<statusVars, unfinalized, pauseVars, input, typed, bufferVars>>

(* It has told the browser of a failure.                                   *)
EndAfterTelling(p) == ReturnFrom(p, "told")

(* Faulty variant: a stream that waits for a resume does not notice the    *)
(* close.                                                                  *)
EndOutputUnlessPaused(p) ==
  \E from \in {"handshake", "reading"} : ReturnFrom(p, from)

(* guacd has gone, or the pipe was closed during a pause.                  *)
EndOutput(p) ==
  \/ \E from \in {"handshake", "reading"} : ReturnFrom(p, from)
  \/ paused[p] /\ closed[p] /\ \E from \in {"waiting", "held"} : ReturnFrom(p, from)

-----------------------------------------------------------------------------
(* monitorSessionState.                                                    *)
MonitorStep(p, from, to) ==
  /\ stage[p] # "new"
  /\ monitor[p] = from
  /\ monitor' = [monitor EXCEPT ![p] = to]

(* The state query of a tick, ...                                          *)
QueryState(p) ==
  /\ MonitorStep(p, "idle", "answered")
  /\ poll' = [poll EXCEPT ![p] = phase[RowOf[p]]]
  /\ UNCHANGED <<statusVars, runVars, paused, leakVars, input, typed, output,
                 bufferVars>>

(* Faulty variant: the end of a pause leaves the buffer alone.             *)
MirrorWithoutFlush(p) ==
  LET pause == poll[p] = "PAUSED" IN
  /\ MonitorStep(p, "answered", "mirrored")
  /\ paused' = [paused EXCEPT ![p] = pause]
  /\ leakedIn'  = [leakedIn  EXCEPT ![p] = IF paused[p] = pause THEN @ ELSE 0]
  /\ leakedOut' = [leakedOut EXCEPT ![p] = IF paused[p] = pause THEN @ ELSE 0]
  /\ leakedErrors' = [leakedErrors EXCEPT ![p] = IF paused[p] = pause THEN @ ELSE 0]
  /\ UNCHANGED <<statusVars, runVars, poll, input, typed, output, bufferVars>>

(* ... whose answer is applied later: setPaused says whether it changed.   *)
Mirror(p) ==
  LET pause == poll[p] = "PAUSED" IN
  /\ MonitorStep(p, "answered",
                 IF paused[p] /\ ~pause THEN "resumed" ELSE "mirrored")
  /\ paused' = [paused EXCEPT ![p] = pause]
  /\ leakedIn'  = [leakedIn  EXCEPT ![p] = IF paused[p] = pause THEN @ ELSE 0]
  /\ leakedOut' = [leakedOut EXCEPT ![p] = IF paused[p] = pause THEN @ ELSE 0]
  /\ leakedErrors' = [leakedErrors EXCEPT ![p] = IF paused[p] = pause THEN @ ELSE 0]
  /\ UNCHANGED <<statusVars, runVars, poll, input, typed, output, bufferVars>>

(* The end of a pause flushes what was buffered, ...                       *)
MonitorTakes(p) ==
  /\ \/ /\ ready[p]
        /\ MonitorStep(p, "resumed", "flushing")
        /\ TakePending(p, monBatch)
     \/ /\ ~ready[p]
        /\ MonitorStep(p, "resumed", "mirrored")
        /\ UNCHANGED <<monBatch, pending>>
  /\ UNCHANGED <<statusVars, runVars, paused, poll, leakVars, input, typed, output,
                 ready, taken, outBatch, kept, flushed>>

(* ... and a write that fails ends the pipe.                               *)
MonitorFlushes(p) ==
  \/ /\ MonitorStep(p, "flushing", "flushing")
     /\ WritePending(p, monBatch)
     /\ UNCHANGED <<statusVars, runVars, paused, poll, leakVars, input, typed, output,
                    ready, pending, taken, outBatch, kept>>
  \/ /\ monBatch[p] = <<>>
     /\ MonitorStep(p, "flushing", "mirrored")
     /\ UNCHANGED <<statusVars, runVars, paused, poll, leakVars, input, typed, output,
                    bufferVars>>
  \/ /\ monBatch[p] # <<>>
     /\ MonitorStep(p, "flushing", "stopped")
     /\ CloseAll(p)
     /\ UNCHANGED <<statusVars, stage, unfinalized, paused, poll, leakVars, input,
                    typed, output, bufferVars>>

(* Faulty variant: the monitor of a closed row stops and closes nothing.   *)
MonitorForgetsClose(p) ==
  /\ \/ poll[p] # "CLOSED" /\ MonitorStep(p, "mirrored", "idle")
     \/ poll[p] = "CLOSED" /\ MonitorStep(p, "mirrored", "stopped")
     \/ closed[p] /\ MonitorStep(p, "idle", "stopped")
  /\ UNCHANGED <<statusVars, runVars, paused, poll, leakVars, input, typed, output,
                 bufferVars>>

(* A closed row ends the pipe, and the monitor; so does the closed channel *)
(* the monitor.                                                            *)
MonitorGoesOn(p) ==
  /\ \/ /\ poll[p] # "CLOSED"
        /\ MonitorStep(p, "mirrored", "idle")
        /\ UNCHANGED closed
     \/ /\ poll[p] = "CLOSED"
        /\ MonitorStep(p, "mirrored", "stopped")
        /\ CloseAll(p)
     \/ /\ closed[p]
        /\ MonitorStep(p, "idle", "stopped")
        /\ UNCHANGED closed
  /\ UNCHANGED <<statusVars, stage, unfinalized, paused, poll, leakVars, input, typed,
                 output, bufferVars>>

-----------------------------------------------------------------------------
Reading(p) ==
  \/ ReadMessage(p)
  \/ CheckPaused(p)
  \/ BufferInput(p)
  \/ WriteDirect(p)
  \/ TellInputFailed(p)
  \/ InputEnds(p)

(* What the handler of "ready" does once guacd has sent it.                *)
GettingReady(p) ==
  \/ MarkReady(p)
  \/ Announce(p)
  \/ CheckResumed(p)
  \/ OutputTakes(p)
  \/ OutputFlushes(p)

Sending(p) ==
  \/ NextInstruction(p)
  \/ GateBeforeRead(p)
  \/ GateBeforeSend(p)
  \/ SendInstruction(p)
  \/ RelayError(p)
  \/ CloseAfterError(p)
  \/ TellOutputFailed(p)
  \/ EndAfterTelling(p)

Monitoring(p) ==
  \/ QueryState(p)
  \/ Mirror(p)
  \/ MonitorTakes(p)
  \/ MonitorFlushes(p)
  \/ MonitorGoesOn(p)

Next ==
  \/ \E s \in Sessions : ControlPlane(s)
  \/ \E p \in Pipes :
       \/ Open(p)
       \/ Finalize(p)
       \/ Reading(p)
       \/ RecordReady(p)
       \/ GettingReady(p)
       \/ Sending(p)
       \/ ReadInstructions(p)
       \/ HandshakeError(p)
       \/ OutputFails(p)
       \/ EndOutput(p)
       \/ Monitoring(p)

(* A goroutine that has something to do does it, the monitor's ticker keeps*)
(* ticking, a write returns or fails, and a read or a write of closed      *)
(* sockets fails. What the browser, guacd and the control plane send is    *)
(* up to them.                                                             *)
Fairness ==
  \A p \in Pipes :
    /\ WF_vars(Finalize(p))
    /\ WF_vars(\/ GettingReady(p)
               \/ Sending(p)
               \/ closed[p] /\ (OutputFails(p) \/ EndOutput(p)))
    /\ WF_vars(Monitoring(p))

Spec == Init /\ [][Next]_vars /\ Fairness

-----------------------------------------------------------------------------
(* Properties.                                                             *)

(* Where the messages buffered before "ready" are, in the order in which   *)
(* they reach guacd.                                                       *)
Buffered(p) ==
  flushed[p] \o outBatch[p] \o monBatch[p] \o taken[p] \o pending[p]

(* Nothing typed before guacd was ready is lost, sent twice or reordered,  *)
(* whoever flushes it and however a pause meets the handler of "ready"     *)
(* (handleGuacdInstruction, flushPending, monitorSessionState).            *)
BufferIsKept == \A p \in Pipes : Buffered(p) = kept[p]

(* From the moment the pause is mirrored until it ends, at most one        *)
(* message already past the check still reaches guacd directly, and at     *)
(* most one instruction that a pause holds the browser, however many one   *)
(* read has brought; besides it, each direction may tell the browser of    *)
(* one error, with which it ends (readWebSocket, readGuacd,                *)
(* shouldPauseDesktopInstruction, sendErrorAndClose). What a flush that    *)
(* has begun still writes is not counted.                                  *)
PauseLeaksOneEachWay ==
  \A p \in Pipes :
    leakedIn[p] <= 1 /\ leakedOut[p] <= 1 /\ leakedErrors[p] <= 2

(* What was buffered is sent once guacd is ready and the session stays     *)
(* active: the handler of "ready" and the monitor that ends a pause never  *)
(* leave it to each other.                                                 *)
BufferReachesGuacd ==
  \A p \in Pipes :
    (ready[p] /\ phase[RowOf[p]] = "ACTIVE")
      ~> flushed[p] = kept[p] \/ closed[p] \/ phase[RowOf[p]] # "ACTIVE"

(* What is still buffered then has somebody who is going to send it: the   *)
(* handler of "ready", or the monitor, who has just ended a pause or will; *)
(* or the pipe is being given up.                                          *)
BufferHasFlusher ==
  \A p \in Pipes :
    ready[p] /\ flushed[p] # kept[p]
      => \/ output[p] \in {"announcing", "restored", "resumed", "flushing"}
         \/ monitor[p] \in {"resumed", "flushing"}
         \/ paused[p] /\ monitor[p] # "stopped"
         \/ output[p] \in {"failing", "told"}
         \/ closed[p]

(* A row closed by anyone ends every pipe that follows it, the owner's and *)
(* the observers', paused or not (monitorSessionState).                    *)
ClosedRowEndsPipes ==
  \A p \in Pipes :
    (stage[p] = "running" /\ phase[RowOf[p]] = "CLOSED") ~> stage[p] = "finalized"

(* A pipe that has ended closes the row of its token (finalize).           *)
EndedPipeClosesRow ==
  \A p \in Owners :
    closed[p] ~> phase[RowOf[p]] = "CLOSED" \/ unfinalized[p]

(* Until then a pipe that has been closed is ended by its reader of guacd  *)
(* and finalized after that, and one that has not been closed is watched   *)
(* by its monitor (run, closeAll).                                         *)
EndedPipeHasFinalizer ==
  \A p \in Pipes :
    /\ closed[p] => \/ stage[p] = "running" /\ output[p] # "ended"
                    \/ stage[p] = "ended"
                    \/ stage[p] = "finalized" /\
                         (p \in Owners => phase[RowOf[p]] = "CLOSED" \/ unfinalized[p])
    /\ ~closed[p] => stage[p] \in {"new", "running"} /\ monitor[p] # "stopped"
=============================================================================
