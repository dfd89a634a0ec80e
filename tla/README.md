# Arsenale: sessions, brokers, tunnels and login tokens, specified and checked

Arsenale is a self-hosted remote-access platform: users open SSH, RDP, VNC and
database sessions in a browser, through services written in Go; administrators
watch, pause, resume and terminate those sessions; targets in private networks are
reached through tunnels that an agent opens from the inside. This directory
specifies the part of it where several actors change shared state at once: the
session row and everybody who writes it, the brokers that serve SSH and desktop
sessions and mirror that row, the tunnels with the registry that names them and the
streams they carry, and the refresh tokens that keep a user logged in. Paths are
given from the root of the repository; "internal/" is short for
`src/backend/internal/`.

## 1. Inventory

### Components, their state and their operations

| Component | State | Operations | Modelled by |
|---|---|---|---|
| Session rows (`internal/sessions`, the `store.go` of each broker) | `ActiveSession.status`, `endedAt`; `SESSION_*` audit rows | start, owner heartbeat, end; pause, resume, terminate by an administrator; heartbeat, finalize by a broker | `SessionStatus`, `SessionStore` |
| Recording completion (`internal/sessionrecording`) | `SessionRecording.status`, notifications | `CompleteRecording`, run by every closing handler after its commit | `SessionStore` |
| Managed file sandbox (`internal/files`) | files staged for a (user, connection, protocol) scope | upload, cleanup hook of the owner's close | `SessionStore` (what the session store asks of it) |
| Terminal broker (`internal/terminalbroker`) | runtime registry; per runtime: subscribers, pause flag, close progress | control and observe handshakes, output stream, state monitor, `close` | `TerminalBroker` |
| Tunnel broker (`internal/tunnelbroker`) | per connection: `pendingOpens`, `streams`, next id; per stream: `closeOnce` | `openStream`, `handleOpenAck`, `handleData`, `handleClose`, TCP proxies, `closeTransport` | `TunnelStreams` |
| Tunnel agent (`src/gateways/tunnel-agent`) | `Forwarder.sockets`, one copier goroutine per socket | `HandleOpen`, `HandleData`, `HandleClose`, `DestroyAll`, `copyLocalToTunnel` | `TunnelStreams` |
| Tunnel registry (`internal/tunnelbroker`, `internal/gateways/tunnels_service.go`, `Gateway` row) | the connection registered for a gateway, each connection's transport; connected/disconnected columns, token | register, evict, deregister over WebSocket and QUIC; generate and revoke a token, force a disconnection | `TunnelLives`, `TunnelRegistry` |
| Desktop broker (`internal/desktopbroker`) | guacd pipe: ready, paused, pending input; closed | read, write, announce, flush, mirror the row, close, finalize | `DesktopPipe`; the statements of its finalization: `SessionStore` |
| SSH proxy (`internal/sshproxyapi`) | in-process runtimes, observer hub, last applied control | serve a channel, poll, direct notifications | its heartbeat: `SessionStore`; the rest is planned |
| Login tokens (`internal/authservice`) | `RefreshToken` rows in families, `User.enabled`, the browser's cookie | login, refresh, logout; password change, disabling a user | `TokenRotation` |
| Gateways (`internal/gateways`), checkouts, rotation | rows and container instances | reconcile, scale; request, approve, check in | planned |
| Everything else | rows | CRUD, pure policy decisions, I/O, user interface | not modelled; `PROJECT.json` lists each with its reason |

### How they interact

- The control plane and the brokers never call one another about a session's status:
  they meet in the **row**. The control plane writes it; a broker polls it
  (`monitorSessionState`), mirrors a pause into its runtime, closes the runtime
  when the row is closed, and finalizes the row when the runtime closes first.
- A closing handler commits the row and only then, in separate statements,
  completes the recording, notifies the user and cleans the sandbox.
- The desktop broker meets the row in the same way: each pipe's monitor polls it, and the
  owner's pipe finalizes it. Its two directions and its monitor share the ready and
  pause flags and the buffer of what was typed before guacd was ready.
- In the terminal broker, goroutines share a runtime under its mutex: the handler of the
  control WebSocket, one per observer, the output stream, the monitor; whoever calls
  `close` first runs it.
- The tunnel broker's read loop, the goroutine of each proxied socket, the open
  timers and `closeTransport` share maps under `Broker.mu`, which is released
  between related changes. The agent's read loop shares its socket map with one
  copier per socket. The two sides exchange frames over one ordered connection
  that may go down at any time.
- Above the streams, the broker's registry names one connection per gateway. A
  reconnecting agent replaces it; the loop of a lost connection and the DELETE
  handler, which the control plane calls after it has committed a revocation, take it
  out; each of them writes the `Gateway` row in statements of its own.
- A refresh of login tokens reads a row, revokes it and inserts the next one in three
  statements without a transaction, while logouts, password changes and administrators
  delete rows of the same family or user.

### What is hard

Transactions and plain statements on one row interleave (owner, administrator,
broker); a handler stops after its commit because the client hung up; a monitor
applies a status that has changed since it was read; a chunk is read before a
pause and sent after it; observers attach to a runtime that is closing; an open
timer races its ack, a `CLOSE` and the end of the connection; ids are reused
while frames, timers and copiers of their previous users are still about; a tunnel is
replaced, lost and disconnected at the same moment; input is taken out of a buffer,
put back and flushed by whichever of two goroutines finds the pipe unpaused; a
rotation is overtaken between its check and its insert.
`PROJECT.json` lists each hazard at its line, with the property that covers it or
the reason why none does yet.

### What makes each component correct

- *Session rows*: whoever closes a row, it is closed and audited once, keeps one
  reason, and never opens again; a pause lasts until a resume.
- *Recordings*: a user is told of a recording only once it is complete, and once only,
  but for completions that overlap; a closed SSH session's recording is completed.
- *Sandbox*: emptied when the last session of its scope is closed, not under an open one.
- *Terminal broker*: one runtime controls a session; the row and the runtime end
  together; a pause reaches the stream and holds it, a resume releases it; every
  subscriber learns of the end.
- *Tunnel*: every open returns; the read loop never blocks on one; a stream ends when
  its socket, its client or the tunnel ends, and for no other reason.
- *Registry*: it never names a closed tunnel, a tunnel it no longer names is closed, each
  leaves it once, a lost or revoked one leaves it; the row is cleared after it was set.
- *Desktop pipe*: what is typed before guacd is ready reaches it whole and in order; a pause
  holds all but what is past the check and the errors that end it; pipe and row end
  together.
- *Tokens*: one usable token per family, but for overlapping refreshes; a login that was
  ended stays ended; no false alarm of reuse; a disabled user gets nothing new.

## 2. The modules

| Module | What it is | Checked through | Proved in |
|---|---|---|---|
| `SessionStatus` | what the row promises its readers: the abstract specification | as a property of `SessionStore`; as the environment of `TerminalBroker` | |
| `SessionStore` | rows, recordings and sandboxes, statement by statement; implements `SessionStatus` | `MCSessionStore` | `SessionStore_proofs` |
| `TerminalBroker` | handshakes, registry, close, monitor, gates, observers; EXTENDS `SessionStatus` | `MCTerminalBroker` | `TerminalBroker_proofs` |
| `TunnelStreams` | one tunnel connection: broker, frames, agent | `MCTunnelStreams` | `TunnelStreams_proofs`, `TunnelEnds_proofs` |
| `TunnelLives` | what the registry promises to whoever opens streams through it: the abstract specification | as a property of `TunnelRegistry` | |
| `TunnelRegistry` | the connections of one gateway, their registry, the row, administrators; implements `TunnelLives` | `MCTunnelRegistry` | `TunnelRegistry_proofs` |
| `DesktopPipe` | both directions of a guacd pipe, its monitor and its end; EXTENDS `SessionStatus` | `MCDesktopPipe` | `DesktopPipe_proofs` |
| `TokenRotation` | refresh-token families, requests, browsers' cookies, administrators | `MCTokenRotation` | `TokenRotation_proofs` |

**Composition.** `SessionStatus` joins the session modules. `SessionStore`
shows that the handlers of the control plane and of the brokers, statement by
statement, only ever make the steps of `SessionStatus` on the rows it covers;
`TerminalBroker` and `DesktopPipe` are built over the variables and actions of
`SessionStatus`, so that they are checked against every behaviour of the row the store
may show. `TunnelRegistry` and `TunnelStreams` are two levels of one program: the
registry's `closeTransport` is the end of a connection in `TunnelStreams`.
`TunnelLives` is what the upper one owes the lower: of the tunnels of a gateway at most
one is in use, a newer one takes the place of an older one in a single step, a tunnel is
closed by the broker only after it has left its place, and does not come back. Those
who look a tunnel up by its gateway (`openStream`, the TCP proxies) rely on nothing else
of the registry.

Operators introduced as "Faulty variant" are plausible bugs of the definition that
follows them. No action uses them: they are there to show that each property
fails when the code is wrong.

### SessionStore and the code

State is the columns the handlers read and write. One action is one
statement, or one transaction that holds the row lock from its `SELECT ... FOR
UPDATE` to its commit.

| Code | Actions |
|---|---|
| `StartSession` (`internal/sessions/store_lifecycle.go`) | `StartSession` |
| `HeartbeatOwnedSession` (`store_state.go`): a plain read, then an update by id | `HeartbeatRead`, `HeartbeatWrite`, `HeartbeatAbandon` |
| `HeartbeatTerminalSession`, the SSH proxy's heartbeat: one UPDATE | `BrokerHeartbeat` |
| `PauseTenantSession`, `ResumeTenantSession` (`admin.go`) | `UpdateTenantSessionStatus` |
| `EndOwnedSession`, `TerminateTenantSession`, `Finalize*Session` | `EndTx`, `TerminateTx`, `FinalizeTx` over `CloseRow` |
| `CompleteRecording` (`internal/sessionrecording/service_complete.go`) | `RecordingLoad`, `RecordingStore`, `RecordingNotify` |
| `cleanupManagedSandboxes` | `CountOpen`, `WipeSandbox` |
| an upload | `StageFile` |
| a statement after the commit fails, or the request's context is cancelled | `Abandon` |

`control` is not a column but a reading of the audit log: the status its latest
pause or resume names. `Owned` are the rows whose client calls the owner's
heartbeat (RDP, VNC, databases); the others are kept alive by brokers. The
difference matters: the owner's heartbeat reads and writes in two statements
without a lock, so the properties about pauses and single ends are stated for the
rows it does not touch, and a finding for those it does.

Several handlers may be completing one recording: the owner's end or the administrator's
termination after its commit, and the finalizers of any number of broker runtimes
(`Finalizers`), each of which has left its registry before it finalizes and so may run
beside that of a newer runtime of the same session. Each looks for the file on its own
(`RecordingStore` chooses anew for each call between COMPLETE, a missing file and an
unreadable one), and none looks at the status again when it writes. `overlapped` is
a history variable: two of them had found the recording RECORDING before either marked it.

### TerminalBroker and the code

A control WebSocket and its runtime share a name. `stage` follows
`handleControlWebSocket` (first check, SSH dial, `runtimeRegistry.add`, goroutines);
`closer` follows `terminalRuntime.close` step by step (removal from the registry,
`closeSubscribers` as a snapshot and a clearing, finalization, the closing of the
`closed` channel); `poll` is what `GetTerminalSessionState` returned and the monitor
has yet to apply; `output` is the place of `streamOutput` in its loop of gate, read,
gate, send. An observer looks the runtime up and attaches to it in two actions, with
the mutex released in between. `frozen` is a history variable: the last open status
mirrored was a pause. `paused` alone could not state `PauseHoldsOutput`, being what
the gate itself tests.

### TunnelStreams and the code

One connection of one gateway, broker and agent, up to its end. A critical section
under `Broker.mu` is one action, and what the code does in two sections
(`handleOpenAck`, `streamConn.Close`, `closeTransport`) is two or more. Where the code
removes an entry under the lock and sends on its channel after unlocking (the timer,
`handleClose`, the swap), both are one action: once it has removed the entry, that
goroutine is the only one to resolve it, and nothing reads the channel's
emptiness. `AckNeverBlocks` is what justifies this, and it is proved. Frames carry
their kind, their id and, for the agent's connection to its service, the open they
stand for; payloads are left out. Two frame queues are the ordered directions of
the WebSocket; a frame written to a side that has gone is lost.

### TunnelRegistry and the code

The tunnels of one gateway. `handler` follows the goroutine that registers a
connection, `end` follows `deregister`, which is the same code for a tunnel's own loop and
for an administrator's DELETE; `target` is the connection it is called with.

| Code (`internal/tunnelbroker`, `internal/gateways`) | Actions |
|---|---|
| `authenticateTunnel` and the upgrade or the QUIC hello | `Accept`, `Reject` |
| `registerConnection`, `registerQUIC`: a critical section, then the old transport's close | `Swap`, `Evict` |
| the QUIC ack, `MarkTunnelConnected`, the connect audit | `Ack`, `MarkConnected`, `AuditConnect` |
| `readLoop`, `runQUICControl` return | `Lose` (the agent), `LoopEnds` |
| `deregister`: critical section, `closeTransport`, `MarkTunnelDisconnected`, audit | `Delete`, `CloseTransport`, `MarkDisconnected`, `AuditDisconnect` |
| `GenerateTunnelToken`, `RevokeTunnelToken`, `ForceDisconnectTunnel` | `GenerateToken`, `Revoke`, `CheckForced`, `CommitForced` |
| the DELETE to the broker, `disconnectTunnel` | `FindTunnel`, `CallFails` |

A WebSocket's read loop is a goroutine beside the handler that still writes the row; a
QUIC connection has one goroutine for both. That is the only difference the guards of
`Ack`, `MarkConnected` and `LoopEnds` make, and it is what `QuicRowIsCleared` rests on.

### DesktopPipe and the code

One `guacSession` per WebSocket, of the session's owner or of an observer. `input` is
the position of `readWebSocket`, `output` that of `readGuacd` with the handler of
"ready" inlined, `monitor` that of `monitorSessionState`. Critical sections under
`bufferMu` and `pausedMu` are one action each: `flushPending` is a take
(`TakePending`) and a write per message (`WritePending`), for either goroutine that
calls it; the handler of "ready" takes the buffer over, puts it back in front, looks at
the pause flag and only then flushes. One read of guacd brings any number of
instructions (`NextInstruction`): those a pause holds wait at the second gate, one by
one, and an error passes it (`shouldPauseDesktopInstruction`), reaches the browser
(`RelayError`) and closes the pipe. A failure of either direction tells the browser of an
error before it closes the pipe (`TellInputFailed`, `TellOutputFailed`), paused or not.
Messages are numbered in the order they are typed. `kept` and `flushed` are history variables, what was buffered and what of it has
been written to guacd; `leakedIn` and `leakedOut` count the messages and the
instructions a pause holds that were sent since it was mirrored, `leakedErrors` the errors. A pipe begins once guacd has been dialled.

### TokenRotation and the code

A token is a row and the family it was issued in. `at` is the next statement of each
request: `Present` is the read of the row with its user and the checks
(`Refresh`, `internal/authservice/login_sessions.go`), whose verdict a later statement
carries out; `Revoke` and `Issue` are the UPDATE and the INSERT, `Answer` the cookie.
Between any two of them come other requests, `Logout`, `ChangePassword`, the two
statements of `ToggleUserEnabled` (`Disable`, `DisableDeletes`), or the end of the
request (`CutShort`). `held` is the token the browser of a family holds; a token may
also be presented by anybody else. Three history variables say what a property
excuses: `overlapped` (two refreshes read one token), `disturbed` (a refresh that was not
the browser's own, or not answered), `overtaken` (a refresh past its checks when the
user's tokens were deleted).

## 3. Runs

All state spaces are explored to the end. `CHECK_DEADLOCK FALSE` appears in every
cfg because these systems do stop: rows stay closed, connections stay refused, a
tunnel that has gone is not used again, and the instance runs out of tokens.

| Run | Instance | Question | Distinct states |
|---|---|---|---|
| `session_store` | an SSH row that two runtimes finalize, and a database row with an owner heartbeat, a scope each | Do the rows keep the promise of `SessionStatus`, is each end audited once, do pauses survive broker heartbeats, when is a recording announced and how often? | 1,306,676 |
| `session_close` | two SSH rows sharing a scope | Does a close complete the recording and, for the last owner, empty the sandbox? | 71,934 |
| `terminal_race` | one session, two control connections | Is control exclusive, and do the row and the runtime end together? | 273,661 |
| `terminal_runtime` | one session, one talking runtime, one observer | Do pauses reach the stream, hold a chunk already read, and release it? | 9,145 |
| `tunnel_streams` | two opens, one of them talking, one id | Does the read loop ever block; does every open return; does a stream end with its service or its tunnel, and for no other's sake? | 131,230 |
| `tunnel_registry` | a WebSocket and a QUIC connection, one administrator | Does the registry keep the promise of `TunnelLives`, or leave a tunnel open that it does not name; who ends a tunnel, how often, and what does the row say? | 28,377 |
| `desktop_pipe` | one session, its owner's pipe, three messages | Is what was buffered kept and sent in order, what passes a pause, do the pipe and the row end together? | 208,302 |
| `tokens` | one user, two logins, three tokens, two requests | When can a family have two usable tokens, when is an alarm false, does an ended login stay ended? | 656,093 |
| `heartbeat_race`, `observer_orphan`, `half_open`, `tunnel_drop` | small | Violations of what the documents or tests say: section 6 | |

**Why the bounds are enough.** Rows interact only through a shared scope, which
`session_close` has; otherwise two rows of different kinds cover each branch of each
handler. A second end or termination finds the row closed and does nothing, so one of each
is at work on a row the brokers keep. Finalizers come in any number, at the same
time and again; two of them and the close that committed are three
completions that may overlap, and for any number of them the properties are proved.
Finalizers differ in nothing, so `session_store`, all of it safety, uses them as a symmetry set;
`heartbeat_race` is the run in which a row has an owner heartbeat and a broker. Two control connections are the least that race, and a third meets the
same registry. Two opens and one id make the second open reuse the first one's
id, which the program does after 65,535 opens; the first open is the case without reuse.
A second talking open would only repeat what the first does, at a large cost.
A connection is registered once, so that two of them, one per transport, show a
replacement in each direction; a third would replace the second as the second the
first. One administrator meets both tunnels' loops; that deregistrations exclude one another for
any number of administrators is proved. Three messages let a buffer of two be taken,
put back and followed by one that is written directly. An observer's pipe is the owner's
without the finalization, and pipes share nothing but the row. Three tokens are
two rotations of one login, or one rotation and another login; two requests
are the least that overlap. Tokens, and requests, are interchangeable in every
action and every property of the run, all of them safety, so the run uses them as
symmetry sets.

**Bounds in the guards.** `MaxEnds`: an owner's heartbeat starts only on a row closed
fewer times than this (one reopened row is enough to show what follows). One DATA
frame in flight per direction (`ClientData`, `CopierReads`): payloads are not told
apart, and one is enough to meet a closed socket. `Talking` and `Chatty` name who sends
bytes. `MaxTyped`: messages each browser sends.
There is no other bound: queues and counters stay finite because an open
opens once, a row starts once, a connection registers once, and a token is issued once.

**Conditions in the properties** are part of what they say, and each is a thing
the code does. `aborted`: a request that is cancelled after its commit leaves its
recording or its sandbox to nobody. `overlapped` of `SessionStore`: two completions
found the recording RECORDING, which happens whenever a client ends a session and its
runtime closes at the same moment; each may notify, and the later one may mark ERROR what the
other has announced. `unfinalized`: a failed finalization is logged
and forgotten. `gaveUp`: `HandleData` met the closed socket first, a finding. `Reused`:
the id was used before, and a late copier, a socket left over from a timed-out open, or
the clean-up of a failed write then acts on the wrong stream. `unheard`: both services ignore a request to the broker
that fails, so the tunnel stays. The history variables of `TokenRotation` are explained
above. The disjunct
`streams[idOf[o]] = o` of `TunnelEndEndsStreams` is the stream left in a dead
connection, a finding.

### Fairness

| Module | Weak fairness | Why the code gives it |
|---|---|---|
| `SessionStore` | each handler's next statement (`WorkerStep`, `CleanupStep`) | a handler is a goroutine; its statements return or fail (`Abandon` competes, and is not fair) |
| `TerminalBroker` | a close that has begun, the monitor's ticker, a stream at an open gate | `close` has no wait in it, the ticker ticks until `closed`, `waitUntilResumed` is woken by every change. A subscriber that never reads could block a send (the code sets no write deadline): listed as a hazard, not modelled |
| `TunnelStreams` | each proxy goroutine, the open timer, copiers, both read loops, `closeTransport` once begun, and each side's noticing that the other has closed the connection | goroutines run on, timers fire, a read from a closed connection fails |
| `TunnelRegistry` (`FairSpec`) | the goroutine of each connection, each deregistration, each administrator's request once it has committed | goroutines and statements run on; a read of a lost or closed transport fails; agents and administrators owe nothing |
| `DesktopPipe` | the finalization, the reader of guacd when it has something to do and when the pipe is closed, the monitor | the same; a write to a browser that never reads is not modelled, as in `TerminalBroker` |
| `TokenRotation` | none: its properties are safety | |

Users, administrators, shells and local services owe no event: no liveness property
relies on what they might do, and each is stated from the event that starts the
obligation. What is assumed of browsers, peers and networks is that a write to them
returns, with success or failure: fairness of a step that writes says so. The code sets no
write deadline on WebSockets and pipes, so a peer that stops reading without closing can hold up
such a step for as long as it likes; the liveness properties do not speak of that case.

## 4. Proofs

Proved with TLAPS for every value of the constants that satisfies the named
assumption, and from nothing else:

| Module | Assumption | Theorems |
|---|---|---|
| `SessionStore_proofs` | `StoreAssumption`: which rows are of which kind, that no row an owner heartbeats is SSH, that each has a scope, that a runtime's finalizer is neither the owner's end nor a termination | `TypeCorrect`, `OneEndAuditHolds`, `ClosedIsAuditedHolds`, `PauseFollowsAuditHolds`, `ReadyMeansCompleteHolds`, `FinalizeRetriesAreQuietHolds`, `KeepsStatusPromiseHolds`, `SettlingHasWorkerHolds` |
| `TerminalBroker_proofs` | `BrokerAssumption`: each connection's grant names a session, `None` is no connection, the reasons the code uses are reasons | `TypeCorrect`, `ExclusiveControlHolds`, `ClosedRuntimeClosesRowHolds`, `PauseHoldsOutputHolds`, `RuntimeHasMonitorHolds` |
| `TunnelStreams_proofs` | `StreamsAssumption`: at least one id, `None` is no open | `TypeCorrect`, `AckNeverBlocksHolds` |
| `TunnelEnds_proofs` | the same | `OnlyItsSocketEndsStreamHolds`, `OpenHasResolverHolds`, `LiveStreamIsFiledHolds`, `SocketEndIsReportedHolds` |
| `TunnelRegistry_proofs` | `RegistryAssumption`: the QUIC connections are connections, administrators' requests are not, `None` is no connection | `TypeCorrect`, `RegisteredIsNotClosedHolds`, `NoOrphanHolds`, `LeavesOnceHolds`, `QuicRowIsClearedHolds`, `KeepsTunnelPromiseHolds`, `DeregisteredStaysOffHolds` |
| `DesktopPipe_proofs` | `PipeAssumption`: owners have pipes, each pipe follows a row, a number of messages each, the reasons the code uses are reasons | `TypeCorrect`, `BufferIsKeptHolds`, `PauseLeaksOneEachWayHolds`, `BufferHasFlusherHolds`, `EndedPipeHasFinalizerHolds` |
| `TokenRotation_proofs` | `TokenAssumption`: each family has a user, `None` is neither a token nor a family | `TypeCorrect`, `OneUsableTokenHolds`, `ReuseIsNoFalseAlarmHolds`, `OnlyOvertakenRefreshesIssueHolds`, `OverIsForGoodHolds` |

In each, `Inv` (`EndsInv` in `TunnelEnds_proofs`) is inductive: it holds initially and
every step preserves it, with one lemma step per action (the lemma `Invariance`, the
theorem `EndsInvariance`). The properties are not inductive
alone. What is added, and why:

- **SessionStore**, `TypeOK /\ RowInv /\ KeptInv /\ WorkInv /\ SettlingHasWorker /\
  AloneInv`. That a recording is announced only once complete, and spoilt only by an
  overlap, needs to know that a handler about to notify has marked it, that a
  completion past its load is alone with the recording unless it overlaps another,
  and that only a closed row has a handler at work (`WorkInv`, `AloneInv`). That a second
  notification is sent only after an overlap follows from the same: a handler that is alone with
  a recording it found RECORDING meets no earlier notification, and those who load it later
  find it marked. Single ends and kept pauses need that no
  owner heartbeat is ever under way on the rows they speak of (`KeptInv`). That somebody is
about to complete the recording of a closed SSH row (`SettlingHasWorker`) is inductive
with these: whoever closes the row is that somebody. The refinement to
  `SessionStatus` then follows action by action: each step is a step of the promise or
  leaves its variables alone. `SessionStatus` has no fairness, so safety is all of it.
- **TerminalBroker**, `TypeOK /\ RowInv /\ RegistryInv /\ CloseInv /\ PauseInv /\
  MonitorInv /\ SeatInv`. `ExclusiveControl` is an equivalence between being in control and being
  the registry's entry; it needs that entries are filed under their own session and
  that only registered runtimes are ever closed (`RegistryInv`). That a closed
  runtime leaves a closed row needs that what the monitor saw closed stays closed
  (`CloseInv`). The action property `PauseHoldsOutput` follows from `PauseInv`: a mirrored
  pause keeps the flag set until the row was seen closed. `RuntimeHasMonitor` needs that a
  runtime's row exists before it is served and that a monitor stops only for a runtime
  somebody is closing (`MonitorInv`).
- **TunnelStreams**, `TypeOK /\ IdInv /\ PendingInv`. Types are where 0 would show: the
  id 0 is the control channel's, `nextStreamID` overflows to it, and an id in a
  map or a frame is that of an open that has passed its allocation (`IdInv`). That the read
  loop's send never blocks needs that a pending open is filed once, under its own id, and is
  not the one already taken out for acknowledgement (`PendingInv`).
- **TunnelStreams**, how streams end (`TunnelEnds_proofs`), `EndsInv`: the above with
  `OriginInv /\ DialInv /\ EndInv /\ ClosedInv /\ OpenHasResolver /\ LiveStreamIsFiled /\
  ReportInv`. `OnlyItsSocketEndsStream` speaks of the broker's read loop and a socket at
  the other end of the connection, and what joins them is the frames in flight. Every
  frame carries the id of its open (`OriginInv`); an open is dialled once, and what the
  agent has answered tells what became of the dial (`DialInv`); so a stream the broker
  holds has had a socket, and one the read loop is about to close has lost it, unless
  its id was used before (`EndInv`). Conversely a socket that was lost has its `CLOSE` on the
  way, behind the ack if that is still to be read (`ReportInv`), and a stream is never filed
  again once it was closed (`ClosedInv`). The steps are proved from a few lemmas that say
  how the opens, the streams, the read loop and the two queues may evolve at all
  (`OpensEvolve`, `StreamsEvolve`, `LoopEvolves`, `BrokerQueue`, `AgentQueue`): each
  action is expanded once, in those.
- **TunnelRegistry**, `TypeOK /\ Placed /\ LeavesOnce /\ Opened /\ NoOrphan /\
  QuicOrder`. That a tunnel leaves once needs that a goroutine which has replaced or
  removed a connection no longer finds it registered (`Placed`, of which
  `DeregisteredStaysOff` is a part: a second `deregister` that finds nothing to remove, a
  loop's after an administrator's or the reverse, leaves the tunnel off too). That none is left open needs that a
  transport exists by the time it is registered (`Opened`); that the row of a QUIC tunnel
  is cleared needs that its loop ends after its handler's writes (`QuicOrder`). In the refinement to `TunnelLives` a
  tunnel is down when its transport is closed, up when it is the registered one, leaving
  when it has been and is not; each action is a step of the promise or leaves it alone. A
  transport is closed only for a tunnel that has left: that is `Placed` again.
- **DesktopPipe**, `TypeOK /\ RowInv /\ Positions /\ Holder /\ LeakInv /\
  ErrorInv /\ Ended /\ Watched`. The buffered
  messages are in five places, and `BufferIsKept` says that their concatenation is what was
  buffered. It is kept because one place at a time holds anything (`Holder`),
  which follows from where each goroutine is (`Positions`). The bound on leaks counts what
  has passed the check and has not been sent yet (`LeakInv`), and for errors which direction
  has told its own: each then ends, or the pipe is closed (`ErrorInv`). That what is buffered still
  has a flusher needs to know, for the buffer alone, on whom it waits: the handler of
  "ready", or a monitor that has not ended (`Watched`); the latter because a monitor only
  stops with its pipe (`Ended`).
- **TokenRotation**, `TypeOK /\ Owners /\ OneInv /\ AlarmInv /\ ReuseIsNoFalseAlarm /\
  OnlyOvertakenRefreshesIssue`. A request past its checks vouches for its family: while it
  is the only one, the tokens that could be refreshed are at most the one it was given, and after
  its UPDATE none (`OneInv`). The browser's token is revoked only while an answer is on its
  way (`AlarmInv`). `OverIsForGood` is an action property proved from `TypeOK` and `Owners`.

**What liveness rests on.** Eight of these invariants say at every state who is going
to take the step that a liveness property waits for: `SettlingHasWorker` for
`RecordingSettles`, `RuntimeHasMonitor` for `ClosedRowEndsRuntime` and
`PauseReachesRuntime`, `OpenHasResolver` for `OpenReturns`, `SocketEndIsReported` for
`ServiceEndEndsStream`, `LiveStreamIsFiled` for it and for `TunnelEndEndsStreams`,
`DeregisteredStaysOff` for `LostTunnelLeaves`, `BufferHasFlusher` for
`BufferReachesGuacd`, `EndedPipeHasFinalizer` for `EndedPipeClosesRow` and
`ClosedRowEndsPipes`. They are the safety halves of those properties: no state is reached
in which the obligation stands and nobody is left to meet it. That half is proved for
every value of the constants; that the one named does take the step is the fairness of
section 3, and is checked by TLC. They are stated in the modules beside the liveness
properties they belong to, and the runs list only the latter.

**Only model-checked.** All liveness (`RecordingSettles`,
`LastOwnerCloseCleansSandbox`, `ClosedRowEndsRuntime`, `PauseReachesRuntime`,
`ResumeReleasesOutput`, `OpenReturns`, `ServiceEndEndsStream`,
`TunnelEndEndsStreams`, `LostTunnelLeaves`, `CommittedDisconnectCloses`,
`BufferReachesGuacd`, `ClosedRowEndsPipes`, `EndedPipeClosesRow`): liveness under fairness needs ENABLED, which the prover does
not handle. Also out of its reach, and not used here: induction over data with the
library's induction theorems, and RECURSIVE operators. Every invariant, action property
and refinement that a passing run checks is proved.

## 5. Not modelled, and why

- *Data*: bytes, recordings' contents, resize and keyboard events, audit details, wording.
- *Writes that never return*: WebSocket sends without a deadline and the `io.Pipe` of
  a stream block their goroutine; every write in the models returns or fails.
- *Session metadata* (`UpdateOwnedSessionMetadata`), gauges (`activeStreams`), pings
  and health probes: no modelled behaviour depends on them.
- *A tunnel's reconnection at the agent*: the agent comes back with a new connection while
  copiers of the old one are still running and share its socket map: planned below. The
  broker's side of a reconnection is in `TunnelRegistry`.
- *Failing statements on the `Gateway` row, heartbeats and the gateway monitor*: a failed
  write is logged and the row stays as it was; nothing in the registry depends on it.
- *guacd instructions*: their decoding, the handshake's arguments, display and audio; an
  instruction is one that a pause holds or an error. "args" and "ready", which it lets
  through as well, are the handshake. A desktop WebSocket whose guacd cannot be
  dialled never has a pipe, and its row is left to its client.
- *Factors, access tokens, browser sessions*: password checks, MFA and WebAuthn ceremonies,
  the access token's lifetime, and the sessions kept in Redis. Token binding is its verdict.
- *The rest of the repository*: most of its code is request handlers that read and write
  rows in one transaction, drivers for external services, the command line and the user
  interface. The modules cover its concurrent core, a small share of its lines.
- Components listed as `not_modelled` in `PROJECT.json`: transactional CRUD, pure
  I/O, user interface and deployment.

## 6. Disagreements between the code and what is said of it

Each is a run that must find its property violated.

1. `heartbeat_race`: an owner's heartbeat that read ACTIVE before a pause or a close
   writes ACTIVE after it (`internal/sessions/store_state.go:26`); the unit tests
   of the helper say a pause is preserved and "closed stays closed".
2. `observer_orphan`: an observer that attaches after `closeSubscribers` and before
   the `closed` channel is closed is never told (`internal/terminalbroker/broker_runtime.go:125`);
   the API reference promises observers the same `closed` event as the controlling client.
3. `half_open`: a failed write to the local service drops the agent's socket
   without a CLOSE frame (`src/gateways/tunnel-agent/forwarder.go:76`).
4. `tunnel_drop`: an ack half-way through `handleOpenAck` leaves its stream in a
   connection whose streams have all been destroyed
   (`internal/tunnelbroker/broker_connections.go:105`).

Further ones met while modelling, which no run of their own shows:

- `src/docs/security/authentication.md:66` says of refresh tokens that "A 30-second grace
  period allows concurrent requests during rotation". `Refresh` has none: of two
  concurrent requests the second finds the token revoked and deletes the family
  (`login_sessions.go:112`), or both pass the check and the family has two tokens. Hence
  `disturbed` and `overlapped` in the properties of `TokenRotation`.
- `src/docs/api/admin.md:205` says that revoking a tunnel token "Disconnects any active
  tunnel". A tunnel authenticated before the revocation and registered after the
  broker was asked stays connected. `CommittedDisconnectCloses` is stated for the tunnel
  registered when the revocation commits.
- Completions of one recording that overlap notify the user each, and the later UPDATE wins,
  by id alone (`internal/sessionrecording/service_complete.go:34`, `:48`, `:67`): a recording announced as
  ready may end as ERROR. `src/docs` promises nothing here; `FinalizeRetriesAreQuiet` and
  `ReadyMeansComplete` say that nothing but an overlap does it.
- A pause lets errors through by design (`internal/desktopbroker/broker_pause.go:41`), on top
  of what was past the check; `PauseLeaksOneEachWay` counts them apart.
- A session opened between the count of open sessions of its scope and the cleanup hook
  loses the files it has staged (`internal/sessions/store_lifecycle.go:226`), whereas
  `src/backend/internal/files/managed_sandbox_state_test.go:123` says the scope of an active
  session is skipped. `CountOpen`, `StartSession`, `StageFile`, `WipeSandbox` are the steps.

## 7. Plan

The order is by how much of the system's own logic is at stake. Each module gets
its `MC` module, a run or two, and proofs where its safety is not finite-state by
nature.

| Next | Models | Properties aimed at |
|---|---|---|
| `ProxyRuntime` | the SSH proxy's runtimes, with direct notifications and polls of the same row | a stale poll does not undo a newer control for ever; no channel outlives a termination. Composes with `SessionStatus` as `TerminalBroker` does |
| reconnection in `TunnelStreams` | a second connection over the same forwarder, copiers of the first still running | an old copier ends no stream of the new connection |
| `Checkouts`, gateway scaling, password rotation | workflows over rows with workers and expiry | at most one outcome per request; desired and running instances converge |
| tunnel egress policy | pure decision, against a reference definition over bounded inputs | first match and default agree with the reference |

Proofs to come: with `ProxyRuntime`, the refinement of `SessionStatus` by the proxy's view
of the row; with reconnection, `EndsInv` for two connections over one forwarder.

## 8. Running

Each `*.cfg` is checked with its `MC` module, e.g.
`tlc -config terminal_race.cfg MCTerminalBroker.tla`; the proofs with
`tlapm SessionStore_proofs.tla` and its six siblings. The longest run takes about two
minutes, the longest proof about three.
