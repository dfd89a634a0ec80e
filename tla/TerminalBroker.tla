--------------------------- MODULE TerminalBroker ---------------------------
(***************************************************************************)
(* The terminal broker: control connections that each own the runtime of   *)
(* an SSH shell, observers that attach to a runtime, the registry that     *)
(* lets one runtime at a time control a session, and the monitor that      *)
(* mirrors the session row into the runtime.                               *)
(*                                                                         *)
(* The row itself is the one SessionStatus specifies: the broker polls it  *)
(* and finalizes it, while owners and administrators change it through     *)
(* the control plane.                                                      *)
(***************************************************************************)
EXTENDS SessionStatus

CONSTANTS
  Conns,          \* control WebSockets; each is also the name of its runtime
  Observers,      \* observer WebSockets
  Chatty,         \* runtimes whose shell prints something
  SessionOf,      \* session of the grant each of them presents
  None            \* no runtime

ASSUME BrokerAssumption ==
  /\ SessionOf \in [Conns \union Observers -> Sessions]
  /\ None \notin Conns
  /\ {"client_disconnect", "admin_terminated", "broker_close"} \subseteq Reasons

VARIABLES
  registry,       \* runtimeRegistry.runtimes: session to runtime
  stage,          \* progress of each control connection's handler
  closer,         \* progress of each runtime's close()
  external,       \* externalCloseSet: the monitor saw the row closed
  unfinalized,    \* runtimes whose FinalizeTerminalSession failed
  paused,         \* the runtime's paused flag
  frozen,         \* the latest open status the monitor mirrored was a pause
  poll,           \* what the monitor's query returned and is about to apply
  output,         \* position of the runtime's output stream in its loop
  watching,       \* observers map of each runtime
  seat            \* state of each observer's connection, with its runtime

connVars    == <<registry, stage>>
closeVars   == <<closer, external, unfinalized>>
pauseVars   == <<paused, frozen, poll>>
observeVars == <<watching, seat>>
vars == <<phase, reason, ends, registry, stage, closer, external, unfinalized,
          paused, frozen, poll, output, watching, seat>>

Stages    == {"new", "dialing", "built", "registered", "running", "refused"}
CloseSteps == {"open", "begun", "unregistered", "hungUp", "cleared",
               "finalized", "closed"}
Polls     == {"idle", "stopped", "leaving"} \union Phases
Positions == {"waiting", "reading", "held", "passed", "ended"}
Seats     == [at : Conns \union {None}, state : {"new", "found", "attached", "gone"}]

TypeOK ==
  /\ StatusTypeOK
  /\ registry    \in [Sessions -> Conns \union {None}]
  /\ stage       \in [Conns -> Stages]
  /\ closer      \in [Conns -> CloseSteps]
  /\ external    \in [Conns -> BOOLEAN]
  /\ unfinalized \in [Conns -> BOOLEAN]
  /\ paused      \in [Conns -> BOOLEAN]
  /\ frozen      \in [Conns -> BOOLEAN]
  /\ poll        \in [Conns -> Polls]
  /\ output      \in [Conns -> Positions]
  /\ watching    \in [Conns -> SUBSET Observers]
  /\ seat        \in [Observers -> Seats]

Init ==
  /\ StatusInit
  /\ registry    = [s \in Sessions |-> None]
  /\ stage       = [c \in Conns |-> "new"]
  /\ closer      = [c \in Conns |-> "open"]
  /\ external    = [c \in Conns |-> FALSE]
  /\ unfinalized = [c \in Conns |-> FALSE]
  /\ paused      = [c \in Conns |-> FALSE]
  /\ frozen      = [c \in Conns |-> FALSE]
  /\ poll        = [c \in Conns |-> "idle"]
  /\ output      = [c \in Conns |-> "waiting"]
  /\ watching    = [c \in Conns |-> {}]
  /\ seat        = [o \in Observers |-> [at |-> None, state |-> "new"]]

-----------------------------------------------------------------------------
(* The control plane changes the row; only its effect on the row matters   *)
(* here, SessionStore models how the handlers make it.                     *)
ControlPlane(s) ==
  /\ \/ Start(s)
     \/ Pause(s)
     \/ Resume(s)
     \/ Close(s, "client_disconnect")
     \/ Close(s, "admin_terminated")
  /\ UNCHANGED <<connVars, closeVars, pauseVars, output, observeVars>>

-----------------------------------------------------------------------------
(* The registry. get and add treat a runtime whose closed channel is       *)
(* closed as absent.                                                       *)
Occupied(s) == registry[s] # None /\ closer[registry[s]] # "closed"

(* get also forgets a closed runtime it comes across.                      *)
Pruned(s) == [registry EXCEPT ![s] = IF Occupied(s) THEN @ ELSE None]

(* handleControlWebSocket, first check. A grant outlives its row.          *)
ControlArrives(c) ==
  /\ stage[c] = "new"
  /\ phase[SessionOf[c]] # "NONE"
  /\ stage' = [stage EXCEPT ![c] =
                 IF Occupied(SessionOf[c]) THEN "refused" ELSE "dialing"]
  /\ registry' = Pruned(SessionOf[c])
  /\ UNCHANGED <<statusVars, closeVars, pauseVars, output, observeVars>>

(* connectSSH and newTerminalRuntime, seconds later, or their failure.     *)
Dial(c) ==
  /\ stage[c] = "dialing"
  /\ \E outcome \in {"built", "refused"} : stage' = [stage EXCEPT ![c] = outcome]
  /\ UNCHANGED <<statusVars, registry, closeVars, pauseVars, output, observeVars>>

(* Faulty variant: add without a second look at the registry.              *)
RegisterUnchecked(c) ==
  /\ stage[c] = "built"
  /\ stage'    = [stage    EXCEPT ![c] = "registered"]
  /\ registry' = [registry EXCEPT ![SessionOf[c]] = c]
  /\ UNCHANGED <<statusVars, closeVars, pauseVars, output, observeVars>>

(* runtimeRegistry.add: of the connections that dialled at the same time,  *)
(* one is registered and the others are refused.                           *)
Register(c) ==
  /\ stage[c] = "built"
  /\ \/ /\ Occupied(SessionOf[c])
        /\ stage' = [stage EXCEPT ![c] = "refused"]
        /\ UNCHANGED registry
     \/ /\ ~Occupied(SessionOf[c])
        /\ stage'    = [stage    EXCEPT ![c] = "registered"]
        /\ registry' = [registry EXCEPT ![SessionOf[c]] = c]
  /\ UNCHANGED <<statusVars, closeVars, pauseVars, output, observeVars>>

(* The owner is attached, told it is ready, and the goroutines start.      *)
Run(c) ==
  /\ stage[c] = "registered"
  /\ closer[c] = "open"
  /\ stage' = [stage EXCEPT ![c] = "running"]
  /\ UNCHANGED <<statusVars, registry, closeVars, pauseVars, output, observeVars>>

-----------------------------------------------------------------------------
(* terminalRuntime.close, under closeOnce.                                 *)
CloseStep(c, from, to) ==
  /\ closer[c] = from
  /\ closer' = [closer EXCEPT ![c] = to]

(* The owner sends close, breaks the protocol or is gone, a write to it or *)
(* to the shell fails, or the shell exits: whoever comes first closes      *)
(* stdin and the SSH session.                                              *)
BeginClose(c) ==
  /\ stage[c] \in {"registered", "running"}
  /\ CloseStep(c, "open", "begun")
  /\ UNCHANGED <<statusVars, connVars, external, unfinalized, pauseVars, output,
                 observeVars>>

(* onClose: runtimeRegistry.remove, only if the entry is still its own.    *)
Unregister(c) ==
  /\ CloseStep(c, "begun", "unregistered")
  /\ registry' = [registry EXCEPT ![SessionOf[c]] = IF @ = c THEN None ELSE @]
  /\ UNCHANGED <<statusVars, stage, external, unfinalized, pauseVars, output,
                 observeVars>>

(* closeSubscribers: hang up on a snapshot of the subscribers, ...         *)
HangUp(c) ==
  /\ CloseStep(c, "unregistered", "hungUp")
  /\ seat' = [o \in Observers |->
                IF o \in watching[c] THEN [seat[o] EXCEPT !.state = "gone"]
                                     ELSE seat[o]]
  /\ UNCHANGED <<statusVars, connVars, external, unfinalized, pauseVars, output,
                 watching>>

(* ... then, under the lock again, forget whoever is in the map by now.    *)
ClearSubscribers(c) ==
  /\ CloseStep(c, "hungUp", "cleared")
  /\ watching' = [watching EXCEPT ![c] = {}]
  /\ UNCHANGED <<statusVars, connVars, external, unfinalized, pauseVars, output,
                 seat>>

(* Faulty variant: the row is closed and audited although it is closed.    *)
FinalizeAgain(c) ==
  /\ CloseStep(c, "cleared", "finalized")
  /\ phase'  = [phase  EXCEPT ![SessionOf[c]] = "CLOSED"]
  /\ reason' = [reason EXCEPT ![SessionOf[c]] = "broker_close"]
  /\ ends'   = [ends   EXCEPT ![SessionOf[c]] = @ + 1]
  /\ UNCHANGED <<connVars, external, unfinalized, pauseVars, output, observeVars>>

(* Unless the monitor found the row closed, FinalizeTerminalSession closes *)
(* it if it is still open; a failure is logged and forgotten.              *)
Finalize(c) ==
  /\ CloseStep(c, "cleared", "finalized")
  /\ LET s == SessionOf[c] IN
       \/ /\ ~external[c]
          /\ Close(s, "broker_close")
          /\ UNCHANGED unfinalized
       \/ /\ external[c] \/ phase[s] = "CLOSED"
          /\ UNCHANGED <<statusVars, unfinalized>>
       \/ /\ ~external[c]
          /\ unfinalized' = [unfinalized EXCEPT ![c] = TRUE]
          /\ UNCHANGED statusVars
  /\ UNCHANGED <<connVars, external, pauseVars, output, observeVars>>

(* close(r.closed) releases the handler, the monitor and waiting streams.  *)
EndClose(c) ==
  /\ CloseStep(c, "finalized", "closed")
  /\ UNCHANGED <<statusVars, connVars, external, unfinalized, pauseVars, output,
                 observeVars>>

-----------------------------------------------------------------------------
(* monitorSessionState: GetTerminalSessionState on every tick, ...         *)
MonitorRead(c) ==
  /\ stage[c] = "running"
  /\ closer[c] # "closed"
  /\ poll[c] = "idle"
  /\ poll' = [poll EXCEPT ![c] = phase[SessionOf[c]]]
  /\ UNCHANGED <<statusVars, connVars, closeVars, paused, frozen, output,
                 observeVars>>

(* Faulty variants: a pause is not mirrored; a resume is not; the runtime  *)
(* is marked closed externally whatever the row says.                      *)
MirrorOnlyResume(c) ==
  /\ poll[c] \in {"ACTIVE", "PAUSED"}
  /\ frozen' = [frozen EXCEPT ![c] = poll[c] = "PAUSED"]
  /\ paused' = [paused EXCEPT ![c] = FALSE]
  /\ poll'   = [poll   EXCEPT ![c] = "idle"]
  /\ UNCHANGED <<statusVars, connVars, closeVars, output, observeVars>>

MirrorOnlyPause(c) ==
  /\ poll[c] \in {"ACTIVE", "PAUSED"}
  /\ frozen' = [frozen EXCEPT ![c] = poll[c] = "PAUSED"]
  /\ paused' = [paused EXCEPT ![c] = @ \/ poll[c] = "PAUSED"]
  /\ poll'   = [poll   EXCEPT ![c] = "idle"]
  /\ UNCHANGED <<statusVars, connVars, closeVars, output, observeVars>>

MirrorMarksExternal(c) ==
  /\ poll[c] \in {"ACTIVE", "PAUSED"}
  /\ frozen'   = [frozen   EXCEPT ![c] = poll[c] = "PAUSED"]
  /\ paused'   = [paused   EXCEPT ![c] = poll[c] = "PAUSED"]
  /\ poll'     = [poll     EXCEPT ![c] = "idle"]
  /\ external' = [external EXCEPT ![c] = TRUE]
  /\ UNCHANGED <<statusVars, connVars, closer, unfinalized, output, observeVars>>

(* ... whose answer is applied later: an open row sets or clears the pause.*)
Mirror(c) ==
  /\ poll[c] \in {"ACTIVE", "PAUSED"}
  /\ frozen' = [frozen EXCEPT ![c] = poll[c] = "PAUSED"]
  /\ paused' = [paused EXCEPT ![c] = poll[c] = "PAUSED"]
  /\ poll'   = [poll   EXCEPT ![c] = "idle"]
  /\ UNCHANGED <<statusVars, connVars, closeVars, output, observeVars>>

(* A closed row also clears the pause; the close is marked external and    *)
(* the subscribers are told the reason, ...                                *)
MirrorClosed(c) ==
  /\ poll[c] = "CLOSED"
  /\ paused'   = [paused   EXCEPT ![c] = FALSE]
  /\ external' = [external EXCEPT ![c] = TRUE]
  /\ poll'     = [poll     EXCEPT ![c] = "leaving"]
  /\ UNCHANGED <<statusVars, connVars, closer, unfinalized, frozen, output,
                 observeVars>>

(* Faulty variant: the monitor ends without closing the runtime.           *)
MonitorForgetsClose(c) ==
  /\ poll[c] = "leaving"
  /\ poll' = [poll EXCEPT ![c] = "stopped"]
  /\ UNCHANGED <<statusVars, connVars, closeVars, paused, frozen, output,
                 observeVars>>

(* ... and the runtime is closed, if nobody has begun to.                  *)
MonitorCloses(c) ==
  /\ poll[c] = "leaving"
  /\ poll'   = [poll   EXCEPT ![c] = "stopped"]
  /\ closer' = [closer EXCEPT ![c] = IF @ = "open" THEN "begun" ELSE @]
  /\ UNCHANGED <<statusVars, connVars, external, unfinalized, paused, frozen,
                 output, observeVars>>

-----------------------------------------------------------------------------
(* streamOutput: wait until resumed, read a chunk, wait until resumed      *)
(* again, then record the chunk and send it to the subscribers.            *)
Advance(c, from, to) ==
  /\ stage[c] = "running"
  /\ output[c] = from
  /\ output' = [output EXCEPT ![c] = to]
  /\ UNCHANGED <<statusVars, connVars, closeVars, pauseVars, observeVars>>

GateBeforeRead(c) == ~paused[c] /\ Advance(c, "waiting", "reading")

(* A chunk arrives; what the shell had already sent still does after its   *)
(* session was closed.                                                     *)
ReadChunk(c) == c \in Chatty /\ Advance(c, "reading", "held")

(* Faulty variant: the chunk read before a pause is sent all the same.     *)
GateForgotten(c) == Advance(c, "held", "passed")

GateBeforeSend(c) == ~paused[c] /\ Advance(c, "held", "passed")

SendChunk(c) == Advance(c, "passed", "waiting")

(* The read fails once the session is closed, and a stream that waits for  *)
(* a resume gives up when the runtime is closed.                           *)
EndStream(c) ==
  \/ closer[c] # "open" /\ Advance(c, "reading", "ended")
  \/ /\ closer[c] = "closed" /\ paused[c]
     /\ \E from \in {"waiting", "held"} : Advance(c, from, "ended")

-----------------------------------------------------------------------------
(* handleObserveWebSocket: find the runtime of the session, ...            *)
ObserverArrives(o) ==
  LET s == SessionOf[o] IN
  /\ seat[o].state = "new"
  /\ phase[s] # "NONE"
  /\ seat' = [seat EXCEPT ![o] =
                IF Occupied(s) THEN [at |-> registry[s], state |-> "found"]
                               ELSE [at |-> None, state |-> "gone"]]
  /\ registry' = Pruned(s)
  /\ UNCHANGED <<statusVars, stage, closeVars, pauseVars, output, watching>>

(* ... and attach to it unless it is closed by now.                        *)
ObserverAttaches(o) ==
  LET c == seat[o].at IN
  /\ seat[o].state = "found"
  /\ \/ /\ closer[c] = "closed"
        /\ seat' = [seat EXCEPT ![o].state = "gone"]
        /\ UNCHANGED watching
     \/ /\ closer[c] # "closed"
        /\ seat'     = [seat EXCEPT ![o].state = "attached"]
        /\ watching' = [watching EXCEPT ![c] = @ \union {o}]
  /\ UNCHANGED <<statusVars, connVars, closeVars, pauseVars, output>>

(* The observer disconnects, or a send to it fails.                        *)
ObserverLeaves(o) ==
  /\ seat[o].state = "attached"
  /\ seat'     = [seat EXCEPT ![o].state = "gone"]
  /\ watching' = [watching EXCEPT ![seat[o].at] = @ \ {o}]
  /\ UNCHANGED <<statusVars, connVars, closeVars, pauseVars, output>>

-----------------------------------------------------------------------------
Handshake(c) ==
  \/ ControlArrives(c)
  \/ Dial(c)
  \/ Register(c)
  \/ Run(c)
  \/ BeginClose(c)

Closing(c) ==
  \/ Unregister(c)
  \/ HangUp(c)
  \/ ClearSubscribers(c)
  \/ Finalize(c)
  \/ EndClose(c)

Monitoring(c) ==
  \/ MonitorRead(c)
  \/ Mirror(c)
  \/ MirrorClosed(c)
  \/ MonitorCloses(c)

Streaming(c) ==
  \/ GateBeforeRead(c)
  \/ ReadChunk(c)
  \/ GateBeforeSend(c)
  \/ SendChunk(c)
  \/ EndStream(c)

Observing(o) ==
  \/ ObserverArrives(o)
  \/ ObserverAttaches(o)
  \/ ObserverLeaves(o)

Next ==
  \/ \E s \in Sessions : ControlPlane(s)
  \/ \E c \in Conns : Handshake(c) \/ Closing(c) \/ Monitoring(c) \/ Streaming(c)
  \/ \E o \in Observers : Observing(o)

(* A close that has begun runs to its end, the monitor's ticker keeps      *)
(* ticking, and a stream that may pass a gate does; a write to a client    *)
(* returns or fails. What clients, shells and the control plane do is up   *)
(* to them.                                                                *)
Fairness ==
  \A c \in Conns :
    /\ WF_vars(Closing(c))
    /\ WF_vars(Monitoring(c))
    /\ WF_vars(GateBeforeSend(c))

Spec == Init /\ [][Next]_vars /\ Fairness

-----------------------------------------------------------------------------
(* Properties.                                                             *)

(* A runtime between its registration and its removal from the registry.   *)
Controlling(c) ==
  /\ stage[c] \in {"registered", "running"}
  /\ closer[c] \in {"open", "begun"}

(* However many connections pass the first check and dial at the same      *)
(* time, one runtime at most controls a session, and the registry names it *)
(* (handleControlWebSocket answers the others SESSION_ACTIVE).             *)
ExclusiveControl ==
  \A c \in Conns : Controlling(c) <=> registry[SessionOf[c]] = c

(* When a runtime has closed, its row is closed, whoever began the close   *)
(* and whatever the monitor had read, unless the finalization failed.      *)
ClosedRuntimeClosesRow ==
  \A c \in Conns :
    closer[c] = "closed" => phase[SessionOf[c]] = "CLOSED" \/ unfinalized[c]

(* A chunk read before the monitor mirrored a pause is held back until the *)
(* pause ends (streamOutput waits again after its read).                   *)
PauseHoldsOutput ==
  [][\A c \in Conns :
       output[c] = "held" /\ output'[c] = "passed"
         => ~frozen[c] \/ external[c]]_vars

(* No observer stays attached to a runtime that has closed: each has been  *)
(* sent closed, as the controlling client has.                             *)
ObserversHearClosed ==
  \A o \in Observers :
    seat[o].state = "attached" => closer[seat[o].at] # "closed"

(* A row closed through the control plane ends the runtime that serves it. *)
ClosedRowEndsRuntime ==
  \A c \in Conns :
    (stage[c] = "running" /\ phase[SessionOf[c]] = "CLOSED")
      ~> closer[c] = "closed"

(* What its liveness rests on: the monitor of a runtime nobody has closed  *)
(* has not stopped, and can apply whatever its query returned; a row that  *)
(* is not there, which it could not, is never served.                      *)
RuntimeHasMonitor ==
  \A c \in Conns :
    stage[c] = "running" /\ closer[c] = "open"
      => poll[c] \in {"idle", "ACTIVE", "PAUSED", "CLOSED", "leaving"}

(* A pause that lasts reaches the runtime.                                 *)
PauseReachesRuntime ==
  \A c \in Conns :
    (stage[c] = "running" /\ phase[SessionOf[c]] = "PAUSED")
      ~> \/ paused[c]
         \/ phase[SessionOf[c]] # "PAUSED"
         \/ closer[c] # "open"

(* Output held back by a pause is sent once the session is resumed.        *)
ResumeReleasesOutput ==
  \A c \in Conns :
    (output[c] = "held" /\ phase[SessionOf[c]] = "ACTIVE")
      ~> \/ output[c] # "held"
         \/ phase[SessionOf[c]] # "ACTIVE"
         \/ closer[c] # "open"

-----------------------------------------------------------------------------
(* Strengthenings of the invariants above that a step preserves.           *)

(* A row is audited when it is closed, and not before.                     *)
RowInv == \A s \in Sessions : ends[s] = (IF phase[s] = "CLOSED" THEN 1 ELSE 0)

(* The registry files a runtime under its own session; only a runtime that *)
(* was registered is ever closed, and only a running one is monitored.     *)
RegistryInv ==
  /\ ExclusiveControl
  /\ \A s \in Sessions : registry[s] # None => SessionOf[registry[s]] = s
  /\ \A c \in Conns :
       /\ closer[c] # "open" => stage[c] \in {"registered", "running"}
       /\ poll[c] # "idle" => stage[c] = "running"

(* What the monitor and the close know of the row.                         *)
CloseInv ==
  \A c \in Conns :
    /\ external[c] \/ poll[c] \in {"CLOSED", "leaving"}
         => phase[SessionOf[c]] = "CLOSED"
    /\ closer[c] \in {"finalized", "closed"}
         => phase[SessionOf[c]] = "CLOSED" \/ unfinalized[c]

(* The paused flag follows the mirrored pause until the row is seen closed.*)
PauseInv == \A c \in Conns : frozen[c] => paused[c] \/ external[c]

(* A connection is let in after its row was inserted, so its monitor finds *)
(* one, and stops when it has seen to the close.                           *)
MonitorInv ==
  \A c \in Conns :
    /\ stage[c] # "new" => phase[SessionOf[c]] # "NONE"
    /\ poll[c] # "NONE"
    /\ poll[c] = "stopped" => closer[c] # "open"

(* An observer that has found a runtime keeps a reference to it.           *)
SeatInv ==
  \A o \in Observers :
    seat[o].state \in {"found", "attached"} => seat[o].at \in Conns
=============================================================================
