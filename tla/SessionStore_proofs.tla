------------------------ MODULE SessionStore_proofs ------------------------
(***************************************************************************)
(* Theorems about SessionStore, for any number of sessions and scopes.     *)
(*                                                                         *)
(* Each invariant is proved by induction on the steps: one proof step per  *)
(* statement of a handler. They build on one another: the types first,     *)
(* then what the columns of a row say about one another (RowInv), then     *)
(* what the stages of the handlers say about the recording (WorkInv).      *)
(***************************************************************************)
EXTENDS SessionStore, TLAPS

-----------------------------------------------------------------------------
(* A handler that goes on to one of the stages leaves pc well typed.       *)
LEMMA GotoType ==
  ASSUME pc \in [Workers -> [Sessions -> Stages]],
         NEW w \in Workers, NEW s \in Sessions, NEW stage \in Stages,
         Goto(w, s, stage)
  PROVE  pc' \in [Workers -> [Sessions -> Stages]]
BY DEF Goto

(* The closing statements leave the columns of the row well typed.         *)
LEMMA CloseType ==
  ASSUME TypeOK, NEW s \in Sessions, NEW why \in Reasons, CloseRow(s, why)
  PROVE  /\ status'  \in [Sessions -> OpenStatuses \union {"NONE", "CLOSED"}]
         /\ endedAt' \in [Sessions -> BOOLEAN]
         /\ reason'  \in [Sessions -> Reasons \union {"none"}]
         /\ ends'    \in [Sessions -> Nat]
         /\ control' \in [Sessions -> {"ACTIVE", "PAUSED"}]
BY DEF TypeOK, CloseRow

(* Every action keeps the columns, the handlers' stages and the sandboxes  *)
(* in their types: no handler invents a status the schema does not have.   *)
THEOREM TypeCorrect == Spec => []TypeOK
<1>1. Init => TypeOK
  BY DEF Init, TypeOK, Stages, Idle, Reasons, OpenStatuses
<1>2. TypeOK /\ [Next]_vars => TypeOK'
  <2> SUFFICES ASSUME TypeOK, [Next]_vars PROVE TypeOK'
    OBVIOUS
  <2> USE DEF TypeOK, rowVars, auxVars, Stages, Idle, Workers
  <2>1. ASSUME NEW s \in Sessions, StartSession(s) PROVE TypeOK'
    BY <2>1 DEF StartSession, OpenStatuses
  <2>2. ASSUME NEW s \in Sessions, HeartbeatRead(s) PROVE TypeOK'
    BY <2>2 DEF HeartbeatRead, HeartbeatStatus
  <2>3. ASSUME NEW s \in Sessions, HeartbeatWrite(s) PROVE TypeOK'
    BY <2>3 DEF HeartbeatWrite, OpenStatuses
  <2>4. ASSUME NEW s \in Sessions, HeartbeatAbandon(s) PROVE TypeOK'
    BY <2>4 DEF HeartbeatAbandon
  <2>5. ASSUME NEW s \in Sessions, BrokerHeartbeat(s) PROVE TypeOK'
    BY <2>5 DEF BrokerHeartbeat, HeartbeatStatus, OpenStatuses
  <2>6. ASSUME NEW s \in Sessions, NEW target \in {"PAUSED", "ACTIVE"},
               UpdateTenantSessionStatus(s, target)
        PROVE TypeOK'
    BY <2>6 DEF UpdateTenantSessionStatus, NextAdminStatus, OpenStatuses
  <2>7. ASSUME NEW s \in Sessions, EndTx(s) PROVE TypeOK'
    <3>1. CloseRow(s, "client_disconnect") /\ "client_disconnect" \in Reasons
      BY <2>7 DEF EndTx, Reasons
    <3>2. Goto("end", s, IF s \in Ssh /\ HasRecording(s) THEN "load" ELSE "count")
      BY <2>7 DEF EndTx
    <3>3. pc' \in [Workers -> [Sessions -> Stages]]
      BY <3>2, GotoType
    <3> QED
      BY <2>7, <3>1, <3>3, CloseType DEF EndTx
  <2>8. ASSUME NEW s \in Sessions, TerminateTx(s) PROVE TypeOK'
    <3>1. CloseRow(s, "admin_terminated") /\ "admin_terminated" \in Reasons
      BY <2>8 DEF TerminateTx, Reasons
    <3>2. Goto("terminate", s, IF s \in Ssh /\ HasRecording(s) THEN "load" ELSE Idle)
      BY <2>8 DEF TerminateTx
    <3>3. pc' \in [Workers -> [Sessions -> Stages]]
      BY <3>2, GotoType
    <3> QED
      BY <2>8, <3>1, <3>3, CloseType DEF TerminateTx
  <2>9. ASSUME NEW s \in Sessions, NEW w \in Finalizers, FinalizeTx(w, s) PROVE TypeOK'
    <3>1. pc' \in [Workers -> [Sessions -> Stages]]
      BY <2>9, GotoType DEF FinalizeTx
    <3>2. CASE CloseRow(s, "broker_close")
      BY <2>9, <3>1, <3>2, CloseType DEF FinalizeTx, Reasons
    <3>3. CASE UNCHANGED rowVars
      BY <2>9, <3>1, <3>3 DEF FinalizeTx
    <3> QED
      BY <2>9, <3>2, <3>3 DEF FinalizeTx
  <2>10. ASSUME NEW s \in Sessions, NEW w \in Workers, WorkerStep(w, s)
         PROVE TypeOK'
    <3>1. CASE RecordingLoad(w, s)
      BY <3>1 DEF RecordingLoad, AfterRecording, Goto
    <3>2. CASE RecordingStore(w, s)
      <4>1. pc' \in [Workers -> [Sessions -> Stages]]
        BY <3>2, GotoType DEF RecordingStore, AfterRecording
      <4> QED
        BY <3>2, <4>1 DEF RecordingStore
    <3>3. CASE RecordingNotify(w, s)
      BY <3>3 DEF RecordingNotify, AfterRecording, Goto
    <3> QED
      BY <2>10, <3>1, <3>2, <3>3 DEF WorkerStep
  <2>11. ASSUME NEW s \in Sessions, NEW w \in Workers, Abandon(w, s)
         PROVE TypeOK'
    BY <2>11 DEF Abandon, Goto
  <2>12. ASSUME NEW s \in Sessions, CleanupStep(s) PROVE TypeOK'
    <3>1. CASE CountOpen(s)
      BY <3>1 DEF CountOpen, Goto
    <3>2. CASE WipeSandbox(s)
      BY <3>2 DEF WipeSandbox, Goto
    <3> QED
      BY <2>12, <3>1, <3>2 DEF CleanupStep
  <2>13. ASSUME NEW sc \in Scopes, StageFile(sc) PROVE TypeOK'
    BY <2>13 DEF StageFile
  <2>14. CASE UNCHANGED vars
    BY <2>14 DEF vars
  <2> QED
    BY <2>1, <2>2, <2>3, <2>4, <2>5, <2>6, <2>7, <2>8, <2>9, <2>10, <2>11,
       <2>12, <2>13, <2>14, SMTT(60)
    DEF Next, OwnerStep, AdminStep, BrokerStep
<1> QED
  BY <1>1, <1>2, PTL DEF Spec

-----------------------------------------------------------------------------
(* The columns of a row stay consistent with one another in every step.    *)
LEMMA RowStep ==
  TypeOK /\ RowInv /\ [Next]_vars => RowInv'
<1> SUFFICES ASSUME TypeOK, RowInv, [Next]_vars PROVE RowInv'
  OBVIOUS
<1> USE DEF TypeOK, RowInv, rowVars, auxVars, Idle
<1>1. ASSUME NEW s \in Sessions, StartSession(s)
      PROVE  RowInv'
  BY <1>1 DEF StartSession
<1>2. ASSUME NEW s \in Sessions, HeartbeatRead(s)
      PROVE  RowInv'
  BY <1>2 DEF HeartbeatRead, HeartbeatStatus, Opened, OpenStatuses
<1>3. ASSUME NEW s \in Sessions, HeartbeatWrite(s)
      PROVE  RowInv'
  BY <1>3 DEF HeartbeatWrite
<1>4. ASSUME NEW s \in Sessions, HeartbeatAbandon(s)
      PROVE  RowInv'
  BY <1>4 DEF HeartbeatAbandon
<1>5. ASSUME NEW s \in Sessions, BrokerHeartbeat(s)
      PROVE  RowInv'
  BY <1>5 DEF BrokerHeartbeat, HeartbeatStatus, Opened, OpenStatuses
<1>6. ASSUME NEW s \in Sessions, NEW target \in {"PAUSED", "ACTIVE"}, UpdateTenantSessionStatus(s, target)
      PROVE  RowInv'
  BY <1>6 DEF UpdateTenantSessionStatus, NextAdminStatus, Opened, OpenStatuses
<1>7. ASSUME NEW s \in Sessions, EndTx(s)
      PROVE  RowInv'
  BY <1>7 DEF EndTx, CloseRow, Opened, OpenStatuses
<1>8. ASSUME NEW s \in Sessions, TerminateTx(s)
      PROVE  RowInv'
  BY <1>8 DEF TerminateTx, CloseRow, Opened, OpenStatuses
<1>9. ASSUME NEW s \in Sessions, NEW w \in Finalizers, FinalizeTx(w, s)
      PROVE  RowInv'
  BY <1>9 DEF FinalizeTx, CloseRow, Opened, OpenStatuses
<1>10. ASSUME NEW s \in Sessions, NEW w \in Workers, RecordingLoad(w, s)
      PROVE  RowInv'
  BY <1>10 DEF RecordingLoad
<1>11. ASSUME NEW s \in Sessions, NEW w \in Workers, RecordingStore(w, s)
      PROVE  RowInv'
  BY <1>11 DEF RecordingStore
<1>12. ASSUME NEW s \in Sessions, NEW w \in Workers, RecordingNotify(w, s)
      PROVE  RowInv'
  BY <1>12 DEF RecordingNotify
<1>13. ASSUME NEW s \in Sessions, NEW w \in Workers, Abandon(w, s)
      PROVE  RowInv'
  BY <1>13 DEF Abandon
<1>14. ASSUME NEW s \in Sessions, CountOpen(s)
      PROVE  RowInv'
  BY <1>14 DEF CountOpen
<1>15. ASSUME NEW s \in Sessions, WipeSandbox(s)
      PROVE  RowInv'
  BY <1>15 DEF WipeSandbox
<1>16. ASSUME NEW sc \in Scopes, StageFile(sc)
      PROVE  RowInv'
  BY <1>16 DEF StageFile
<1>17. CASE UNCHANGED vars
  BY <1>17 DEF vars
<1> QED
  BY <1>1, <1>2, <1>3, <1>4, <1>5, <1>6, <1>7, <1>8, <1>9, <1>10, <1>11,
     <1>12, <1>13, <1>14, <1>15, <1>16, <1>17
  DEF Next, OwnerStep, AdminStep, BrokerStep, WorkerStep, CleanupStep

(* Rows without owner heartbeats are closed and audited once, and stay as  *)
(* the administrators have left them.                                      *)
LEMMA KeptStep ==
  TypeOK /\ RowInv /\ KeptInv /\ [Next]_vars => KeptInv'
<1> SUFFICES ASSUME TypeOK, RowInv, KeptInv, [Next]_vars PROVE KeptInv'
  OBVIOUS
<1> USE DEF TypeOK, RowInv, KeptInv, OneEndAudit, PauseFollowsAudit, BrokerKept,
           rowVars, auxVars, Idle, Opened, OpenStatuses
<1>1. ASSUME NEW s \in Sessions, StartSession(s)
      PROVE  KeptInv'
  BY <1>1 DEF StartSession
<1>2. ASSUME NEW s \in Sessions, HeartbeatRead(s)
      PROVE  KeptInv'
  BY <1>2 DEF HeartbeatRead, HeartbeatStatus
<1>3. ASSUME NEW s \in Sessions, HeartbeatWrite(s)
      PROVE  KeptInv'
  BY <1>3 DEF HeartbeatWrite
<1>4. ASSUME NEW s \in Sessions, HeartbeatAbandon(s)
      PROVE  KeptInv'
  BY <1>4 DEF HeartbeatAbandon
<1>5. ASSUME NEW s \in Sessions, BrokerHeartbeat(s)
      PROVE  KeptInv'
  BY <1>5 DEF BrokerHeartbeat, HeartbeatStatus
<1>6. ASSUME NEW s \in Sessions, NEW target \in {"PAUSED", "ACTIVE"}, UpdateTenantSessionStatus(s, target)
      PROVE  KeptInv'
  BY <1>6 DEF UpdateTenantSessionStatus, NextAdminStatus
<1>7. ASSUME NEW s \in Sessions, EndTx(s)
      PROVE  KeptInv'
  BY <1>7 DEF EndTx, CloseRow
<1>8. ASSUME NEW s \in Sessions, TerminateTx(s)
      PROVE  KeptInv'
  BY <1>8 DEF TerminateTx, CloseRow
<1>9. ASSUME NEW s \in Sessions, NEW w \in Finalizers, FinalizeTx(w, s)
      PROVE  KeptInv'
  BY <1>9 DEF FinalizeTx, CloseRow
<1>10. ASSUME NEW s \in Sessions, NEW w \in Workers, RecordingLoad(w, s)
      PROVE  KeptInv'
  BY <1>10 DEF RecordingLoad
<1>11. ASSUME NEW s \in Sessions, NEW w \in Workers, RecordingStore(w, s)
      PROVE  KeptInv'
  BY <1>11 DEF RecordingStore
<1>12. ASSUME NEW s \in Sessions, NEW w \in Workers, RecordingNotify(w, s)
      PROVE  KeptInv'
  BY <1>12 DEF RecordingNotify
<1>13. ASSUME NEW s \in Sessions, NEW w \in Workers, Abandon(w, s)
      PROVE  KeptInv'
  BY <1>13 DEF Abandon
<1>14. ASSUME NEW s \in Sessions, CountOpen(s)
      PROVE  KeptInv'
  BY <1>14 DEF CountOpen
<1>15. ASSUME NEW s \in Sessions, WipeSandbox(s)
      PROVE  KeptInv'
  BY <1>15 DEF WipeSandbox
<1>16. ASSUME NEW sc \in Scopes, StageFile(sc)
      PROVE  KeptInv'
  BY <1>16 DEF StageFile
<1>17. CASE UNCHANGED vars
  BY <1>17 DEF vars
<1> QED
  BY <1>1, <1>2, <1>3, <1>4, <1>5, <1>6, <1>7, <1>8, <1>9, <1>10, <1>11,
     <1>12, <1>13, <1>14, <1>15, <1>16, <1>17
  DEF Next, OwnerStep, AdminStep, BrokerStep, WorkerStep, CleanupStep

(* What a working handler knows of its recording survives every step of    *)
(* the others.                                                             *)
LEMMA WorkStep ==
  TypeOK /\ RowInv /\ WorkInv /\ AloneInv /\ [Next]_vars => WorkInv'
<1> SUFFICES ASSUME TypeOK, RowInv, WorkInv, AloneInv, [Next]_vars PROVE WorkInv'
  OBVIOUS
<1> USE DEF TypeOK, RowInv, WorkInv, ReadyMeansComplete,
           rowVars, auxVars, Idle, Stages, Workers, Opened, OpenStatuses
<1>1. ASSUME NEW s \in Sessions, StartSession(s)
      PROVE  WorkInv'
  BY <1>1 DEF StartSession
<1>2. ASSUME NEW s \in Sessions, HeartbeatRead(s)
      PROVE  WorkInv'
  BY <1>2 DEF HeartbeatRead, HeartbeatStatus
<1>3. ASSUME NEW s \in Sessions, HeartbeatWrite(s)
      PROVE  WorkInv'
  BY <1>3 DEF HeartbeatWrite
<1>4. ASSUME NEW s \in Sessions, HeartbeatAbandon(s)
      PROVE  WorkInv'
  BY <1>4 DEF HeartbeatAbandon
<1>5. ASSUME NEW s \in Sessions, BrokerHeartbeat(s)
      PROVE  WorkInv'
  BY <1>5 DEF BrokerHeartbeat, HeartbeatStatus
<1>6. ASSUME NEW s \in Sessions, NEW target \in {"PAUSED", "ACTIVE"}, UpdateTenantSessionStatus(s, target)
      PROVE  WorkInv'
  BY <1>6 DEF UpdateTenantSessionStatus, NextAdminStatus
<1>7. ASSUME NEW s \in Sessions, EndTx(s)
      PROVE  WorkInv'
  BY <1>7 DEF EndTx, CloseRow, Goto
<1>8. ASSUME NEW s \in Sessions, TerminateTx(s)
      PROVE  WorkInv'
  BY <1>8 DEF TerminateTx, CloseRow, Goto
<1>9. ASSUME NEW s \in Sessions, NEW w \in Finalizers, FinalizeTx(w, s)
      PROVE  WorkInv'
  BY <1>9 DEF FinalizeTx, CloseRow, Goto
<1>10. ASSUME NEW s \in Sessions, NEW w \in Workers, RecordingLoad(w, s)
      PROVE  WorkInv'
  BY <1>10 DEF RecordingLoad, Goto, AfterRecording
<1>11. ASSUME NEW s \in Sessions, NEW w \in Workers, RecordingStore(w, s)
      PROVE  WorkInv'
  BY <1>11 DEF RecordingStore, Goto, AfterRecording, AloneInv, Completing
<1>12. ASSUME NEW s \in Sessions, NEW w \in Workers, RecordingNotify(w, s)
      PROVE  WorkInv'
  BY <1>12 DEF RecordingNotify, Goto, AfterRecording, AloneInv, Completing
<1>13. ASSUME NEW s \in Sessions, NEW w \in Workers, Abandon(w, s)
      PROVE  WorkInv'
  BY <1>13 DEF Abandon, Goto
<1>14. ASSUME NEW s \in Sessions, CountOpen(s)
      PROVE  WorkInv'
  BY <1>14 DEF CountOpen, Goto
<1>15. ASSUME NEW s \in Sessions, WipeSandbox(s)
      PROVE  WorkInv'
  BY <1>15 DEF WipeSandbox, Goto
<1>16. ASSUME NEW sc \in Scopes, StageFile(sc)
      PROVE  WorkInv'
  BY <1>16 DEF StageFile
<1>17. CASE UNCHANGED vars
  BY <1>17 DEF vars
<1> QED
  BY <1>1, <1>2, <1>3, <1>4, <1>5, <1>6, <1>7, <1>8, <1>9, <1>10, <1>11,
     <1>12, <1>13, <1>14, <1>15, <1>16, <1>17
  DEF Next, OwnerStep, AdminStep, BrokerStep, WorkerStep, CleanupStep

(* A recording that is not completed when its row is closed is the work of *)
(* a handler, which hands it to nobody else.                               *)
LEMMA SettlingStep ==
  TypeOK /\ KeptInv /\ WorkInv /\ SettlingHasWorker /\ [Next]_vars => SettlingHasWorker'
<1> SUFFICES ASSUME TypeOK, KeptInv, WorkInv, SettlingHasWorker, [Next]_vars
             PROVE  SettlingHasWorker'
  OBVIOUS
<1> USE StoreAssumption DEF TypeOK, KeptInv, BrokerKept, WorkInv, SettlingHasWorker,
           rowVars, auxVars, Idle, Stages, Workers, Opened, OpenStatuses
<1>1. ASSUME NEW s \in Sessions, StartSession(s)
      PROVE  SettlingHasWorker'
  BY <1>1 DEF StartSession
<1>2. ASSUME NEW s \in Sessions, HeartbeatRead(s)
      PROVE  SettlingHasWorker'
  BY <1>2 DEF HeartbeatRead, HeartbeatStatus
<1>3. ASSUME NEW s \in Sessions, HeartbeatWrite(s)
      PROVE  SettlingHasWorker'
  BY <1>3 DEF HeartbeatWrite
<1>4. ASSUME NEW s \in Sessions, HeartbeatAbandon(s)
      PROVE  SettlingHasWorker'
  BY <1>4 DEF HeartbeatAbandon
<1>5. ASSUME NEW s \in Sessions, BrokerHeartbeat(s)
      PROVE  SettlingHasWorker'
  BY <1>5 DEF BrokerHeartbeat, HeartbeatStatus
<1>6. ASSUME NEW s \in Sessions, NEW target \in {"PAUSED", "ACTIVE"}, UpdateTenantSessionStatus(s, target)
      PROVE  SettlingHasWorker'
  BY <1>6 DEF UpdateTenantSessionStatus, NextAdminStatus
<1>7. ASSUME NEW s \in Sessions, EndTx(s)
      PROVE  SettlingHasWorker'
  BY <1>7 DEF EndTx, CloseRow, Goto, HasRecording
<1>8. ASSUME NEW s \in Sessions, TerminateTx(s)
      PROVE  SettlingHasWorker'
  BY <1>8 DEF TerminateTx, CloseRow, Goto, HasRecording
<1>9. ASSUME NEW s \in Sessions, NEW w \in Finalizers, FinalizeTx(w, s)
      PROVE  SettlingHasWorker'
  <2>1. /\ recording' = recording /\ aborted' = aborted
        /\ \A q \in Sessions \ {s} : status'[q] = status[q]
        /\ \A q \in Sessions, v \in Workers :
             pc[v][q] \in {"load", "store"} => pc'[v][q] = pc[v][q]
    BY <1>9 DEF FinalizeTx, CloseRow, Goto
  <2>2. w \in Workers /\ (recording[s] = "RECORDING" => pc'[w][s] = "load")
    BY <1>9 DEF FinalizeTx, Goto, HasRecording
  <2>3. SUFFICES ASSUME NEW q \in Ssh, status'[q] = "CLOSED", recording'[q] = "RECORDING"
                 PROVE  \/ \E v \in Workers : pc'[v][q] \in {"load", "store"}
                        \/ aborted'[q]
    OBVIOUS
  <2>4. CASE q = s
    BY <2>1, <2>2, <2>3, <2>4
  <2>5. CASE q # s
    <3>1. status[q] = "CLOSED" /\ recording[q] = "RECORDING"
      BY <2>1, <2>3, <2>5
    <3> QED
      BY <2>1, <3>1
  <2> QED
    BY <2>4, <2>5
<1>10. ASSUME NEW s \in Sessions, NEW w \in Workers, RecordingLoad(w, s)
      PROVE  SettlingHasWorker'
  BY <1>10 DEF RecordingLoad, Goto, AfterRecording
<1>11. ASSUME NEW s \in Sessions, NEW w \in Workers, RecordingStore(w, s)
      PROVE  SettlingHasWorker'
  BY <1>11 DEF RecordingStore, Goto, AfterRecording
<1>12. ASSUME NEW s \in Sessions, NEW w \in Workers, RecordingNotify(w, s)
      PROVE  SettlingHasWorker'
  BY <1>12 DEF RecordingNotify, Goto, AfterRecording
<1>13. ASSUME NEW s \in Sessions, NEW w \in Workers, Abandon(w, s)
      PROVE  SettlingHasWorker'
  BY <1>13 DEF Abandon, Goto
<1>14. ASSUME NEW s \in Sessions, CountOpen(s)
      PROVE  SettlingHasWorker'
  BY <1>14 DEF CountOpen, Goto
<1>15. ASSUME NEW s \in Sessions, WipeSandbox(s)
      PROVE  SettlingHasWorker'
  BY <1>15 DEF WipeSandbox, Goto
<1>16. ASSUME NEW sc \in Scopes, StageFile(sc)
      PROVE  SettlingHasWorker'
  BY <1>16 DEF StageFile
<1>17. CASE UNCHANGED vars
  BY <1>17 DEF vars
<1> QED
  BY <1>1, <1>2, <1>3, <1>4, <1>5, <1>6, <1>7, <1>8, <1>9, <1>10, <1>11,
     <1>12, <1>13, <1>14, <1>15, <1>16, <1>17
  DEF Next, OwnerStep, AdminStep, BrokerStep, WorkerStep, CleanupStep

(* Whoever has found a recording RECORDING is alone with it until it has   *)
(* notified, or the overlap has been noted.                                *)
LEMMA AloneStep ==
  TypeOK /\ RowInv /\ WorkInv /\ AloneInv /\ [Next]_vars => AloneInv'
<1> SUFFICES ASSUME TypeOK, RowInv, WorkInv, AloneInv, [Next]_vars PROVE AloneInv'
  OBVIOUS
<1> USE DEF TypeOK, RowInv, WorkInv, ReadyMeansComplete, AloneInv,
           FinalizeRetriesAreQuiet, Completing, rowVars, auxVars, Idle, Stages,
           Workers, Opened, OpenStatuses
<1>1. ASSUME NEW s \in Sessions, StartSession(s)
      PROVE  AloneInv'
  BY <1>1 DEF StartSession
<1>2. ASSUME NEW s \in Sessions, HeartbeatRead(s)
      PROVE  AloneInv'
  BY <1>2 DEF HeartbeatRead, HeartbeatStatus
<1>3. ASSUME NEW s \in Sessions, HeartbeatWrite(s)
      PROVE  AloneInv'
  BY <1>3 DEF HeartbeatWrite
<1>4. ASSUME NEW s \in Sessions, HeartbeatAbandon(s)
      PROVE  AloneInv'
  BY <1>4 DEF HeartbeatAbandon
<1>5. ASSUME NEW s \in Sessions, BrokerHeartbeat(s)
      PROVE  AloneInv'
  BY <1>5 DEF BrokerHeartbeat, HeartbeatStatus
<1>6. ASSUME NEW s \in Sessions, NEW target \in {"PAUSED", "ACTIVE"}, UpdateTenantSessionStatus(s, target)
      PROVE  AloneInv'
  BY <1>6 DEF UpdateTenantSessionStatus, NextAdminStatus
<1>7. ASSUME NEW s \in Sessions, EndTx(s)
      PROVE  AloneInv'
  BY <1>7 DEF EndTx, CloseRow, Goto
<1>8. ASSUME NEW s \in Sessions, TerminateTx(s)
      PROVE  AloneInv'
  BY <1>8 DEF TerminateTx, CloseRow, Goto
<1>9. ASSUME NEW s \in Sessions, NEW w \in Finalizers, FinalizeTx(w, s)
      PROVE  AloneInv'
  BY <1>9 DEF FinalizeTx, CloseRow, Goto
<1>10. ASSUME NEW s \in Sessions, NEW w \in Workers, RecordingLoad(w, s)
      PROVE  AloneInv'
  BY <1>10 DEF RecordingLoad, Goto, AfterRecording, CompletedToo
<1>11. ASSUME NEW s \in Sessions, NEW w \in Workers, RecordingStore(w, s)
      PROVE  AloneInv'
  BY <1>11 DEF RecordingStore, Goto, AfterRecording
<1>12. ASSUME NEW s \in Sessions, NEW w \in Workers, RecordingNotify(w, s)
      PROVE  AloneInv'
  BY <1>12 DEF RecordingNotify, Goto, AfterRecording
<1>13. ASSUME NEW s \in Sessions, NEW w \in Workers, Abandon(w, s)
      PROVE  AloneInv'
  BY <1>13 DEF Abandon, Goto
<1>14. ASSUME NEW s \in Sessions, CountOpen(s)
      PROVE  AloneInv'
  BY <1>14 DEF CountOpen, Goto
<1>15. ASSUME NEW s \in Sessions, WipeSandbox(s)
      PROVE  AloneInv'
  BY <1>15 DEF WipeSandbox, Goto
<1>16. ASSUME NEW sc \in Scopes, StageFile(sc)
      PROVE  AloneInv'
  BY <1>16 DEF StageFile
<1>17. CASE UNCHANGED vars
  BY <1>17 DEF vars
<1> QED
  BY <1>1, <1>2, <1>3, <1>4, <1>5, <1>6, <1>7, <1>8, <1>9, <1>10, <1>11,
     <1>12, <1>13, <1>14, <1>15, <1>16, <1>17
  DEF Next, OwnerStep, AdminStep, BrokerStep, WorkerStep, CleanupStep

-----------------------------------------------------------------------------
(* The induction the theorems below share.                                 *)
Inv == TypeOK /\ RowInv /\ KeptInv /\ WorkInv /\ SettlingHasWorker /\ AloneInv

LEMMA Invariance == Spec => []Inv
<1>1. Init => RowInv /\ KeptInv /\ WorkInv /\ SettlingHasWorker /\ AloneInv
  <2>1. Init => RowInv /\ KeptInv
    BY DEF Init, RowInv, KeptInv, OneEndAudit, PauseFollowsAudit, BrokerKept, Idle,
           Opened, OpenStatuses
  <2>2. Init => WorkInv
    BY DEF Init, WorkInv, ReadyMeansComplete, Workers, Idle
  <2>3. Init => SettlingHasWorker
    BY StoreAssumption DEF Init, SettlingHasWorker
  <2>4. Init => AloneInv
    BY DEF Init, AloneInv, FinalizeRetriesAreQuiet, Completing, Workers, Idle
  <2> QED
    BY <2>1, <2>2, <2>3, <2>4
<1>2. Inv /\ [Next]_vars
        => RowInv' /\ KeptInv' /\ WorkInv' /\ SettlingHasWorker' /\ AloneInv'
  BY RowStep, KeptStep, WorkStep, SettlingStep, AloneStep DEF Inv
<1> QED
  BY <1>1, <1>2, TypeCorrect, PTL DEF Spec, Inv

(* However the owner, an administrator and the broker race to close a      *)
(* session, its row gets one SESSION_END audit row and one endedAt.        *)
THEOREM OneEndAuditHolds == Spec => []OneEndAudit
<1>1. Inv => OneEndAudit
  BY DEF Inv, KeptInv
<1> QED
  BY <1>1, Invariance, PTL

(* A CLOSED row has been audited and has its endedAt, also a row that an   *)
(* owner's heartbeat has reopened.                                         *)
THEOREM ClosedIsAuditedHolds == Spec => []ClosedIsAudited
<1>1. Inv => ClosedIsAudited
  BY DEF Inv, RowInv, ClosedIsAudited
<1> QED
  BY <1>1, Invariance, PTL

(* No broker heartbeat ends or starts a pause: an open row is PAUSED as    *)
(* long as the latest audited control is a pause.                          *)
THEOREM PauseFollowsAuditHolds == Spec => []PauseFollowsAudit
<1>1. Inv => PauseFollowsAudit
  BY DEF Inv, KeptInv
<1> QED
  BY <1>1, Invariance, PTL

(* A RECORDING_READY notification names a COMPLETE recording, or one that  *)
(* a handler completing it at the same time has marked ERROR; and only     *)
(* recordings of closed rows are completed.                                *)
THEOREM ReadyMeansCompleteHolds == Spec => []ReadyMeansComplete
<1>1. Inv => ReadyMeansComplete
  BY DEF Inv, WorkInv
<1> QED
  BY <1>1, Invariance, PTL

(* The recording of a closed SSH row that is still RECORDING has a handler *)
(* about to complete it, or one that failed: the safety half of            *)
(* RecordingSettles.                                                       *)
THEOREM SettlingHasWorkerHolds == Spec => []SettlingHasWorker
<1>1. Inv => SettlingHasWorker
  BY DEF Inv
<1> QED
  BY <1>1, Invariance, PTL

(* However many runtimes finalize a session, the user is notified a second *)
(* time only when handlers had all found its recording RECORDING before    *)
(* one of them marked it.                                                  *)
THEOREM FinalizeRetriesAreQuietHolds == Spec => []FinalizeRetriesAreQuiet
<1>1. Inv => FinalizeRetriesAreQuiet
  BY DEF Inv, AloneInv
<1> QED
  BY <1>1, Invariance, PTL

-----------------------------------------------------------------------------
(* Every step of a handler is, for the rows no owner heartbeat touches, a  *)
(* step SessionStatus allows, or leaves what it describes alone.           *)
LEMMA StatusSimulation ==
  Inv /\ [Next]_vars => [Promise!StatusNext]_(Promise!statusVars)
<1> SUFFICES ASSUME Inv, [Next]_vars
             PROVE  [Promise!StatusNext]_(Promise!statusVars)
  OBVIOUS
<1> DEFINE Same == UNCHANGED Promise!statusVars
<1> USE DEF Inv, TypeOK, RowInv, KeptInv, BrokerKept, Promise!statusVars,
            rowVars, auxVars, Opened, OpenStatuses
<1>a. ASSUME \A x \in BrokerKept : /\ status'[x] = status[x]
                                   /\ reason'[x] = reason[x]
                                   /\ ends'[x] = ends[x]
      PROVE  Same
  BY <1>a
<1>1. ASSUME NEW s \in Sessions, StartSession(s)
      PROVE  Same \/ (s \in BrokerKept /\ Promise!Start(s))
  <2>1. CASE s \notin BrokerKept
    BY <1>a, <1>1, <2>1 DEF StartSession
  <2>2. CASE s \in BrokerKept
    BY <1>1, <2>2 DEF StartSession, Promise!Start, Promise!Move
  <2> QED
    BY <2>1, <2>2
<1>2. ASSUME NEW s \in Sessions, \/ HeartbeatRead(s)
                                 \/ HeartbeatWrite(s)
                                 \/ HeartbeatAbandon(s)
                                 \/ BrokerHeartbeat(s)
      PROVE  Same
  BY <1>2 DEF HeartbeatRead, HeartbeatWrite, HeartbeatAbandon, BrokerHeartbeat,
              HeartbeatStatus
<1>3. ASSUME NEW s \in Sessions, NEW target \in {"PAUSED", "ACTIVE"},
             UpdateTenantSessionStatus(s, target)
      PROVE  Same \/ (s \in BrokerKept /\ (Promise!Pause(s) \/ Promise!Resume(s)))
  <2> USE <1>3 DEF UpdateTenantSessionStatus, NextAdminStatus
  <2>1. CASE s \notin BrokerKept
    BY <1>a, <2>1
  <2>2. CASE status[s] = target
    BY <1>a, <2>2
  <2>3. CASE s \in BrokerKept /\ status[s] = "ACTIVE" /\ target = "PAUSED"
    BY <2>3 DEF Promise!Pause, Promise!Move
  <2>4. CASE s \in BrokerKept /\ status[s] = "PAUSED" /\ target = "ACTIVE"
    BY <2>4 DEF Promise!Resume, Promise!Move
  <2> QED
    BY <2>1, <2>2, <2>3, <2>4
<1>4. ASSUME NEW s \in Sessions, NEW why \in Reasons,
             Opened(s), CloseRow(s, why)
      PROVE  Same \/ (s \in BrokerKept /\ Promise!Close(s, why))
  <2>1. CASE s \notin BrokerKept
    BY <1>a, <1>4, <2>1 DEF CloseRow
  <2>2. CASE s \in BrokerKept
    BY <1>4, <2>2 DEF CloseRow, Promise!Close, Promise!IsOpen
  <2> QED
    BY <2>1, <2>2
<1>5. ASSUME NEW s \in Sessions, \/ EndTx(s)
                                 \/ TerminateTx(s)
                                 \/ \E w \in Finalizers : FinalizeTx(w, s)
      PROVE  \/ Same
             \/ \E why \in Reasons : s \in BrokerKept /\ Promise!Close(s, why)
  BY <1>4, <1>5 DEF EndTx, TerminateTx, FinalizeTx, Reasons
<1>6. ASSUME NEW s \in Sessions, NEW w \in Workers,
             WorkerStep(w, s) \/ Abandon(w, s)
      PROVE  Same
  BY <1>6 DEF WorkerStep, RecordingLoad, RecordingStore, RecordingNotify, Abandon
<1>7. /\ \A s \in Sessions : CleanupStep(s) => Same
      /\ \A sc \in Scopes : StageFile(sc) => Same
  BY DEF CleanupStep, CountOpen, WipeSandbox, StageFile
<1>8. CASE UNCHANGED vars
  BY <1>8 DEF vars
<1> QED
  <2>1. CASE Next
    <3> HIDE DEF Inv, TypeOK, RowInv, KeptInv, Same, rowVars, auxVars
    <3>1. ASSUME NEW s \in Sessions, OwnerStep(s) \/ AdminStep(s) \/ BrokerStep(s)
          PROVE  Same \/ Promise!StatusNext
      BY <1>1, <1>2, <1>3, <1>5, <3>1
      DEF OwnerStep, AdminStep, BrokerStep, Promise!StatusNext
    <3>2. Same \/ Promise!StatusNext
      BY <1>6, <1>7, <2>1, <3>1 DEF Next
    <3> QED
      BY <3>2 DEF Same
  <2> QED
    BY <1>8, <2>1

(* The rows no owner heartbeat touches keep the promise of SessionStatus:  *)
(* started once, paused and resumed, closed once and for good.             *)
THEOREM KeepsStatusPromiseHolds == Spec => KeepsStatusPromise
<1>1. Init => Promise!StatusInit
  BY DEF Init, Promise!StatusInit, Promise!NoReason, BrokerKept
<1> QED
  BY <1>1, StatusSimulation, Invariance, PTL
  DEF Spec, KeepsStatusPromise, Promise!StatusSpec
=============================================================================
