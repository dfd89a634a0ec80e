---------------------------- MODULE SessionStore ----------------------------
(***************************************************************************)
(* The rows of "ActiveSession" and everything that changes their status    *)
(* column: the request handlers of the control plane (package sessions),   *)
(* the finalizers and heartbeats of the brokers (packages terminalbroker,  *)
(* desktopbroker and sshproxyapi), the recording each row is linked to and *)
(* the managed file sandbox of the row's scope.                            *)
(*                                                                         *)
(* A statement or a transaction that holds the row lock from its SELECT    *)
(* ... FOR UPDATE to its COMMIT is one action; a handler that makes        *)
(* several of them is one action per statement, and other handlers may run *)
(* between any two.                                                        *)
(***************************************************************************)
EXTENDS Naturals, FiniteSets

CONSTANTS
  Sessions,     \* ids of rows
  Owned,        \* rows whose client calls HeartbeatOwnedSession (RDP, VNC,
                \* DATABASE and database-tunnel sessions)
  Ssh,          \* rows of protocol SSH: the store completes their recording
  Brokered,     \* rows a terminal or desktop broker finalizes
  Finalizers,   \* broker runtimes that may be finalizing at the same time
  Scopes,       \* (user, connection, protocol) triples
  ScopeOf,      \* scope of each row
  MaxEnds       \* bound: closures of one row after which no heartbeat starts

ASSUME StoreAssumption ==
  /\ Owned \subseteq Sessions
  /\ Ssh \subseteq Sessions
  /\ Brokered \subseteq Sessions
  /\ Owned \intersect Ssh = {}
  /\ Finalizers \intersect {"end", "terminate"} = {}
  /\ ScopeOf \in [Sessions -> Scopes]
  /\ MaxEnds \in Nat

VARIABLES
  status,       \* status column; "NONE" before the row is inserted
  endedAt,      \* whether the endedAt column is set
  reason,       \* reason of the latest SESSION_END audit row of the session
  ends,         \* number of SESSION_END audit rows of the session
  control,      \* status the latest SESSION_PAUSE or SESSION_RESUME audit row
                \* of the session names, ACTIVE when there is none
  beat,         \* status the owner's heartbeat has read and will write back
  recording,    \* status column of the linked "SessionRecording" row
  notices,      \* number of RECORDING_READY notifications sent for it
  pc,           \* next statement of each handler that works on a row
  staged,       \* whether the scope's sandbox workspace holds files
  aborted,      \* rows whose closing request gave up before its last statement
  overlapped    \* history: recordings that two handlers have found RECORDING
                \* before either had marked it

rowVars   == <<status, endedAt, reason, ends, control>>
auxVars   == <<recording, notices, staged, aborted, overlapped>>
vars      == <<status, endedAt, reason, ends, control, beat, recording, notices,
               pc, staged, aborted, overlapped>>

Idle == "idle"

OpenStatuses == {"ACTIVE", "IDLE", "PAUSED"}
Reasons      == {"client_disconnect", "admin_terminated", "broker_close"}

(* EndOwnedSession, TerminateTenantSession and the brokers' finalizers: a  *)
(* runtime leaves the registry before it finalizes, so that another of the *)
(* same session may be finalizing too.                                     *)
Workers == {"end", "terminate"} \union Finalizers

Stages == {Idle, "load", "store", "notify", "count", "wipe"}

Opened(s) == status[s] \in OpenStatuses

TypeOK ==
  /\ status    \in [Sessions -> OpenStatuses \union {"NONE", "CLOSED"}]
  /\ endedAt   \in [Sessions -> BOOLEAN]
  /\ reason    \in [Sessions -> Reasons \union {"none"}]
  /\ ends      \in [Sessions -> Nat]
  /\ control   \in [Sessions -> {"ACTIVE", "PAUSED"}]
  /\ beat      \in [Sessions -> {Idle, "ACTIVE", "PAUSED"}]
  /\ recording \in [Sessions -> {"none", "RECORDING", "COMPLETE", "ERROR"}]
  /\ notices   \in [Sessions -> Nat]
  /\ pc        \in [Workers -> [Sessions -> Stages]]
  /\ staged    \in [Scopes -> BOOLEAN]
  /\ aborted    \in [Sessions -> BOOLEAN]
  /\ overlapped \in [Sessions -> BOOLEAN]

Init ==
  /\ status    = [s \in Sessions |-> "NONE"]
  /\ endedAt   = [s \in Sessions |-> FALSE]
  /\ reason    = [s \in Sessions |-> "none"]
  /\ ends      = [s \in Sessions |-> 0]
  /\ control   = [s \in Sessions |-> "ACTIVE"]
  /\ beat      = [s \in Sessions |-> Idle]
  /\ recording = [s \in Sessions |-> "none"]
  /\ notices   = [s \in Sessions |-> 0]
  /\ pc        = [w \in Workers |-> [s \in Sessions |-> Idle]]
  /\ staged    = [sc \in Scopes |-> FALSE]
  /\ aborted    = [s \in Sessions |-> FALSE]
  /\ overlapped = [s \in Sessions |-> FALSE]

Goto(w, s, stage) == pc' = [pc EXCEPT ![w][s] = stage]

-----------------------------------------------------------------------------
(* Pure helpers of session_status.go.                                      *)

(* Faulty variants, which no action uses: a heartbeat that marks the row   *)
(* IDLE, and one that ignores a pause.                                     *)
HeartbeatMarksIdle(current) == IF current = "PAUSED" THEN "PAUSED" ELSE "IDLE"
HeartbeatForgetsPause(current) == "ACTIVE"

(* heartbeatSessionStatus: a heartbeat keeps a pause, else marks ACTIVE.   *)
HeartbeatStatus(current) == IF current = "PAUSED" THEN "PAUSED" ELSE "ACTIVE"

(* nextAdminSessionStatus on an open row.                                  *)
NextAdminStatus(current, target) ==
  IF current = target \/ target = "PAUSED" THEN target ELSE "ACTIVE"

-----------------------------------------------------------------------------
(* StartSession: one transaction inserts the row, links the recording the  *)
(* protocol service has started, and writes SESSION_START.                 *)
StartSession(s) ==
  /\ status[s] = "NONE"
  /\ status' = [status EXCEPT ![s] = "ACTIVE"]
  /\ \E linked \in {"none", "RECORDING"} :
        recording' = [recording EXCEPT ![s] = linked]
  /\ UNCHANGED <<endedAt, reason, ends, control, beat, notices, pc, staged, aborted,
                 overlapped>>

(* HeartbeatOwnedSession, first statement: a plain SELECT, no row lock.    *)
HeartbeatRead(s) ==
  /\ s \in Owned
  /\ beat[s] = Idle
  /\ Opened(s)
  /\ ends[s] < MaxEnds
  /\ beat' = [beat EXCEPT ![s] = HeartbeatStatus(status[s])]
  /\ UNCHANGED <<rowVars, auxVars, pc>>

(* HeartbeatOwnedSession, second statement: an UPDATE by id alone writes   *)
(* the status computed from the earlier read.                              *)
HeartbeatWrite(s) ==
  /\ beat[s] # Idle
  /\ status' = [status EXCEPT ![s] = beat[s]]
  /\ beat'   = [beat   EXCEPT ![s] = Idle]
  /\ UNCHANGED <<endedAt, reason, ends, control, auxVars, pc>>

(* The request is cancelled, or the UPDATE fails, between the statements.  *)
HeartbeatAbandon(s) ==
  /\ beat[s] # Idle
  /\ beat' = [beat EXCEPT ![s] = Idle]
  /\ UNCHANGED <<rowVars, auxVars, pc>>

(* HeartbeatTerminalSession and the SSH proxy's heartbeats: one UPDATE     *)
(* that decides from the row it updates and skips closed rows.             *)
BrokerHeartbeat(s) ==
  /\ s \notin Owned
  /\ Opened(s)
  /\ status' = [status EXCEPT ![s] = HeartbeatStatus(@)]
  /\ UNCHANGED <<endedAt, reason, ends, control, beat, auxVars, pc>>

(* Faulty variant: the closed row is not refused.                          *)
UpdateReopens(s, target) ==
  /\ status[s] # "NONE"
  /\ status'  = [status  EXCEPT ![s] = NextAdminStatus(@, target)]
  /\ control' = [control EXCEPT ![s] = NextAdminStatus(status[s], target)]
  /\ UNCHANGED <<endedAt, reason, ends, beat, auxVars, pc>>

(* PauseTenantSession and ResumeTenantSession: one transaction that holds  *)
(* the row lock and writes the audit row; a closed row is refused with     *)
(* ErrSessionClosed.                                                       *)
UpdateTenantSessionStatus(s, target) ==
  /\ Opened(s)
  /\ status'  = [status  EXCEPT ![s] = NextAdminStatus(@, target)]
  /\ control' = [control EXCEPT ![s] = NextAdminStatus(status[s], target)]
  /\ UNCHANGED <<endedAt, reason, ends, beat, auxVars, pc>>

-----------------------------------------------------------------------------
(* Faulty variant: the UPDATE forgets the endedAt column.                  *)
CloseRowWithoutEnd(s, why) ==
  /\ status'  = [status  EXCEPT ![s] = "CLOSED"]
  /\ reason'  = [reason  EXCEPT ![s] = why]
  /\ ends'    = [ends    EXCEPT ![s] = @ + 1]
  /\ UNCHANGED <<endedAt, control>>

(* Closing a row, the statements the three closing transactions share.     *)
CloseRow(s, why) ==
  /\ status'  = [status  EXCEPT ![s] = "CLOSED"]
  /\ endedAt' = [endedAt EXCEPT ![s] = TRUE]
  /\ reason'  = [reason  EXCEPT ![s] = why]
  /\ ends'    = [ends    EXCEPT ![s] = @ + 1]
  /\ UNCHANGED control

HasRecording(s) == recording[s] # "none"

(* Faulty variant: the recording is not completed after the commit.        *)
EndTxKeepsRecording(s) ==
  /\ pc["end"][s] = Idle
  /\ Opened(s)
  /\ CloseRow(s, "client_disconnect")
  /\ Goto("end", s, "count")
  /\ UNCHANGED <<beat, auxVars>>

(* EndOwnedSession's transaction; on a closed row it commits a no-op and   *)
(* returns before the recording and the sandbox are looked at.             *)
EndTx(s) ==
  /\ pc["end"][s] = Idle
  /\ Opened(s)
  /\ CloseRow(s, "client_disconnect")
  /\ Goto("end", s, IF s \in Ssh /\ HasRecording(s) THEN "load" ELSE "count")
  /\ UNCHANGED <<beat, auxVars>>

(* TerminateTenantSession's transaction. On a closed row it still writes   *)
(* SESSION_TERMINATE, with no recording to complete. No sandbox clean-up   *)
(* follows in either case.                                                 *)
TerminateTx(s) ==
  /\ pc["terminate"][s] = Idle
  /\ Opened(s)
  /\ CloseRow(s, "admin_terminated")
  /\ Goto("terminate", s, IF s \in Ssh /\ HasRecording(s) THEN "load" ELSE Idle)
  /\ UNCHANGED <<beat, auxVars>>

(* Faulty variant: loads the row whatever its status.                      *)
FinalizeTxClosesAgain(w, s) ==
  /\ s \in Brokered
  /\ pc[w][s] = Idle
  /\ status[s] # "NONE"
  /\ ends[s] < 2
  /\ CloseRow(s, "broker_close")
  /\ Goto(w, s, IF HasRecording(s) THEN "load" ELSE Idle)
  /\ UNCHANGED <<beat, auxVars>>

(* FinalizeTerminalSession and FinalizeDesktopSession: the row is loaded   *)
(* FOR UPDATE only if it is not closed; the recording the broker knows is  *)
(* completed whether or not this call closed the row.                      *)
FinalizeTx(w, s) ==
  /\ s \in Brokered
  /\ pc[w][s] = Idle
  /\ status[s] # "NONE"
  /\ \/ /\ Opened(s)
        /\ CloseRow(s, "broker_close")
     \/ /\ ~Opened(s)
        /\ UNCHANGED rowVars
  /\ Goto(w, s, IF HasRecording(s) THEN "load" ELSE Idle)
  /\ UNCHANGED <<beat, auxVars>>

-----------------------------------------------------------------------------
(* CompleteRecording runs after the commit, outside any transaction, for   *)
(* whichever handler called it; EndOwnedSession goes on to the sandbox.    *)
AfterRecording(w) == IF w = "end" THEN "count" ELSE Idle

(* Another handler has found the recording RECORDING and not marked it yet.*)
CompletedToo(w, s) == \E v \in Workers \ {w} : pc[v][s] = "store"

(* Faulty variants: one processes a recording in any status, one notifies  *)
(* before it has marked the recording.                                     *)
RecordingLoadUnchecked(w, s) ==
  /\ pc[w][s] = "load"
  /\ notices[s] < 3
  /\ Goto(w, s, "store")
  /\ overlapped' = [overlapped EXCEPT ![s] = @ \/ CompletedToo(w, s)]
  /\ UNCHANGED <<rowVars, beat, recording, notices, staged, aborted>>

RecordingLoadNotifiesFirst(w, s) ==
  /\ pc[w][s] = "load"
  /\ Goto(w, s, IF recording[s] = "RECORDING" THEN "notify" ELSE AfterRecording(w))
  /\ UNCHANGED <<rowVars, beat, auxVars>>

(* SELECT of the recording row: only a RECORDING one is processed.         *)
RecordingLoad(w, s) ==
  /\ pc[w][s] = "load"
  /\ Goto(w, s, IF recording[s] = "RECORDING" THEN "store" ELSE AfterRecording(w))
  /\ overlapped' = [overlapped EXCEPT ![s] =
                      @ \/ (recording[s] = "RECORDING" /\ CompletedToo(w, s))]
  /\ UNCHANGED <<rowVars, beat, recording, notices, staged, aborted>>

(* UPDATE by id, whatever the status has become: COMPLETE, or ERROR when   *)
(* this call, in its own process, does not find the file, or cannot make   *)
(* it readable. The latter is also returned as an error, which ends the    *)
(* handler.                                                                *)
RecordingStore(w, s) ==
  /\ pc[w][s] = "store"
  /\ \/ /\ recording' = [recording EXCEPT ![s] = "COMPLETE"]
        /\ Goto(w, s, "notify")
        /\ UNCHANGED aborted
     \/ /\ recording' = [recording EXCEPT ![s] = "ERROR"]
        /\ Goto(w, s, AfterRecording(w))
        /\ UNCHANGED aborted
     \/ /\ recording' = [recording EXCEPT ![s] = "ERROR"]
        /\ Goto(w, s, Idle)
        /\ aborted' = [aborted EXCEPT ![s] = TRUE]
  /\ UNCHANGED <<rowVars, beat, notices, staged, overlapped>>

(* INSERT of the RECORDING_READY notification.                             *)
RecordingNotify(w, s) ==
  /\ pc[w][s] = "notify"
  /\ notices' = [notices EXCEPT ![s] = @ + 1]
  /\ Goto(w, s, AfterRecording(w))
  /\ UNCHANGED <<rowVars, beat, recording, staged, aborted, overlapped>>

(* A statement after the commit fails, or the client has gone and its      *)
(* request context is cancelled: the handler returns the error and nothing *)
(* resumes its work.                                                       *)
Abandon(w, s) ==
  /\ pc[w][s] # Idle
  /\ Goto(w, s, Idle)
  /\ aborted' = [aborted EXCEPT ![s] = TRUE]
  /\ UNCHANGED <<rowVars, beat, recording, notices, staged, overlapped>>

-----------------------------------------------------------------------------
(* cleanupManagedSandboxes: count the open rows of the scope, then, in a   *)
(* later statement, run the hook that empties the workspace.               *)
ScopeBusy(sc) == \E s \in Sessions : ScopeOf[s] = sc /\ Opened(s)

(* Faulty variant: the count includes the row just closed.                 *)
CountClosedToo(s) ==
  /\ pc["end"][s] = "count"
  /\ Goto("end", s, IF status[s] # "NONE" THEN Idle ELSE "wipe")
  /\ UNCHANGED <<rowVars, beat, auxVars>>

CountOpen(s) ==
  /\ pc["end"][s] = "count"
  /\ Goto("end", s, IF ScopeBusy(ScopeOf[s]) THEN Idle ELSE "wipe")
  /\ UNCHANGED <<rowVars, beat, auxVars>>

WipeSandbox(s) ==
  /\ pc["end"][s] = "wipe"
  /\ staged' = [staged EXCEPT ![ScopeOf[s]] = FALSE]
  /\ Goto("end", s, Idle)
  /\ UNCHANGED <<rowVars, beat, recording, notices, aborted, overlapped>>

(* The user uploads a file to the sandbox of a connection; the upload does *)
(* not ask whether a session of it is open.                                *)
StageFile(sc) ==
  /\ staged' = [staged EXCEPT ![sc] = TRUE]
  /\ UNCHANGED <<rowVars, beat, recording, notices, pc, aborted, overlapped>>

-----------------------------------------------------------------------------
(* Statements a running handler still has to make.                         *)
WorkerStep(w, s) ==
  \/ RecordingLoad(w, s)
  \/ RecordingStore(w, s)
  \/ RecordingNotify(w, s)

CleanupStep(s) ==
  \/ CountOpen(s)
  \/ WipeSandbox(s)

OwnerStep(s) ==
  \/ StartSession(s)
  \/ HeartbeatRead(s)
  \/ HeartbeatWrite(s)
  \/ HeartbeatAbandon(s)
  \/ EndTx(s)

AdminStep(s) ==
  \/ \E target \in {"PAUSED", "ACTIVE"} : UpdateTenantSessionStatus(s, target)
  \/ TerminateTx(s)

BrokerStep(s) ==
  \/ BrokerHeartbeat(s)
  \/ \E w \in Finalizers : FinalizeTx(w, s)

Next ==
  \/ \E s \in Sessions : OwnerStep(s) \/ AdminStep(s) \/ BrokerStep(s) \/ CleanupStep(s)
  \/ \E s \in Sessions, w \in Workers : WorkerStep(w, s) \/ Abandon(w, s)
  \/ \E sc \in Scopes : StageFile(sc)

(* A handler that has started runs on: it is a goroutine whose statements  *)
(* return or fail. Users, administrators and brokers owe nothing.          *)
Fairness ==
  /\ \A s \in Sessions, w \in Workers : WF_vars(WorkerStep(w, s))
  /\ \A s \in Sessions : WF_vars(CleanupStep(s))

Spec == Init /\ [][Next]_vars /\ Fairness

-----------------------------------------------------------------------------
(* Properties.                                                             *)

BrokerKept == Sessions \ Owned

(* Every row that no owner heartbeat touches has exactly one SESSION_END   *)
(* audit row once it is closed and none before, and carries its endedAt:   *)
(* the three closing transactions race, and only the first closes and      *)
(* audits (EndOwnedSession, TerminateTenantSession, Finalize*Session).     *)
OneEndAudit ==
  \A s \in BrokerKept :
    /\ ends[s] = (IF status[s] = "CLOSED" THEN 1 ELSE 0)
    /\ endedAt[s] <=> status[s] = "CLOSED"
    /\ reason[s] = "none" <=> status[s] # "CLOSED"

(* While a row no owner heartbeat touches is open, it is PAUSED exactly    *)
(* when the latest audited control is a pause: no heartbeat of a broker    *)
(* ends a pause an administrator has set, or starts one.                   *)
PauseFollowsAudit ==
  \A s \in BrokerKept :
    Opened(s) => (status[s] = "PAUSED" <=> control[s] = "PAUSED")

(* A closed row of any kind has its endedAt and a SESSION_END audit row,   *)
(* also when a heartbeat has reopened it in between.                       *)
ClosedIsAudited ==
  \A s \in Sessions : status[s] = "CLOSED" => endedAt[s] /\ ends[s] > 0

(* CompleteRecording re-reads the recording and skips one that is no       *)
(* longer RECORDING, so however many runtimes finalize a session, and      *)
(* however late, the user is notified again only by handlers that had all  *)
(* found it RECORDING before one of them marked it.                        *)
FinalizeRetriesAreQuiet ==
  \A s \in Sessions : notices[s] > 1 => overlapped[s]

(* The user is told a recording is ready only after it has been marked     *)
(* COMPLETE, and it stays so, unless another handler was completing it at  *)
(* the same time: that one may still mark it ERROR, for its UPDATE does    *)
(* not look at the status. A recording is only ever completed for a row    *)
(* that has been closed.                                                   *)
ReadyMeansComplete ==
  \A s \in Sessions :
    /\ notices[s] > 0 => \/ recording[s] = "COMPLETE"
                         \/ recording[s] = "ERROR" /\ overlapped[s]
    /\ recording[s] \in {"COMPLETE", "ERROR"} => endedAt[s]

(* No write of an owner's heartbeat changes a status it did not read: a    *)
(* pause stays until it is resumed, a closed row stays closed.             *)
HeartbeatKeepsAdminStatus ==
  [][\A s \in Sessions :
       beat[s] # Idle /\ beat'[s] = Idle /\ status[s] \in {"PAUSED", "CLOSED"}
         => status'[s] = status[s]]_vars

(* Once the row of an SSH session is closed, by its owner, by an           *)
(* administrator or by a broker, its recording leaves RECORDING, unless a  *)
(* closing handler failed after its commit.                                *)
RecordingSettles ==
  \A s \in Ssh :
    (status[s] = "CLOSED" /\ recording[s] = "RECORDING")
      ~> (recording[s] # "RECORDING" \/ aborted[s])

(* At any time until then somebody is about to complete it: each handler   *)
(* that may close an SSH row goes on to its recording, and what finds it   *)
(* RECORDING completes it (CompleteRecording after the commit).            *)
SettlingHasWorker ==
  \A s \in Ssh :
    status[s] = "CLOSED" /\ recording[s] = "RECORDING"
      => \/ \E w \in Workers : pc[w][s] \in {"load", "store"}
         \/ aborted[s]

(* When the owner closes the last open session of a scope, the sandbox is  *)
(* emptied, unless a session of the scope is opened meanwhile or the       *)
(* request gives up. (No such promise holds when an administrator or a     *)
(* broker closes the last one: neither runs cleanupManagedSandboxes.)      *)
LastOwnerCloseCleansSandbox ==
  \A s \in Sessions :
    (pc["end"][s] # Idle /\ ~ScopeBusy(ScopeOf[s]))
      ~> (~staged[ScopeOf[s]] \/ ScopeBusy(ScopeOf[s]) \/ aborted[s])

(* The rows no owner heartbeat touches implement SessionStatus: this is    *)
(* what the brokers' monitors rely on when they poll the row.              *)
Promise == INSTANCE SessionStatus WITH
  Sessions <- BrokerKept,
  Reasons  <- Reasons,
  phase    <- [s \in BrokerKept |-> status[s]],
  reason   <- [s \in BrokerKept |-> reason[s]],
  ends     <- [s \in BrokerKept |-> ends[s]]

KeepsStatusPromise == Promise!StatusSpec

-----------------------------------------------------------------------------
(* Strengthenings of the invariants above that a step preserves.           *)

(* The columns of any row, however it is heartbeaten; no statement writes  *)
(* IDLE, which the schema still allows.                                    *)
RowInv ==
  \A s \in Sessions :
    /\ status[s] = "NONE" => /\ ~endedAt[s]
                             /\ beat[s] = Idle
                             /\ reason[s] = "none"
                             /\ control[s] = "ACTIVE"
    /\ status[s] # "IDLE"
    /\ status[s] = "CLOSED" => endedAt[s]
    /\ endedAt[s] <=> ends[s] > 0

(* The columns of a row no owner heartbeat touches.                        *)
KeptInv ==
  /\ OneEndAudit
  /\ PauseFollowsAudit
  /\ \A s \in BrokerKept : beat[s] = Idle

(* What a handler that is still working knows of the recording: one that   *)
(* has found it RECORDING is alone with it until it has notified, unless   *)
(* they overlap.                                                           *)
Completing(w, s) == pc[w][s] \in {"store", "notify"}

WorkInv ==
  /\ ReadyMeansComplete
  /\ \A s \in Sessions :
       /\ status[s] = "NONE" => recording[s] = "none" /\ notices[s] = 0
       /\ \A w \in Workers :
            /\ pc[w][s] # Idle => endedAt[s]
            /\ pc[w][s] = "notify" => recording[s] \in {"COMPLETE", "ERROR"}

AloneInv ==
  /\ FinalizeRetriesAreQuiet
  /\ \A s \in Sessions : ~overlapped[s] =>
       \A w \in Workers : Completing(w, s) =>
         /\ notices[s] = 0
         /\ recording[s] = (IF pc[w][s] = "store" THEN "RECORDING" ELSE "COMPLETE")
         /\ \A v \in Workers : Completing(v, s) => v = w
=============================================================================
