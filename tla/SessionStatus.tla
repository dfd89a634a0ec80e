--------------------------- MODULE SessionStatus ---------------------------
(***************************************************************************)
(* What a session row promises to the brokers and to the console: it is    *)
(* started once, paused and resumed any number of times by administrators, *)
(* and closed once, for good, with one reason.                             *)
(*                                                                         *)
(* SessionStore implements this specification for the sessions whose       *)
(* heartbeats come from a broker; TerminalBroker is composed with it.      *)
(***************************************************************************)
EXTENDS Naturals

CONSTANTS
  Sessions,     \* ids of rows of "ActiveSession"
  Reasons       \* reasons a SESSION_END audit row can carry

VARIABLES
  phase,        \* status column, "NONE" before the row is inserted
  reason,       \* reason of the latest SESSION_END audit row of the session
  ends          \* number of SESSION_END audit rows of the session

statusVars == <<phase, reason, ends>>

NoReason == "none"
Phases   == {"NONE", "ACTIVE", "PAUSED", "CLOSED"}
IsOpen(p) == p \in {"ACTIVE", "PAUSED"}

StatusTypeOK ==
  /\ phase  \in [Sessions -> Phases]
  /\ reason \in [Sessions -> Reasons \union {NoReason}]
  /\ ends   \in [Sessions -> 0..1]

StatusInit ==
  /\ phase  = [s \in Sessions |-> "NONE"]
  /\ reason = [s \in Sessions |-> NoReason]
  /\ ends   = [s \in Sessions |-> 0]

(* The only moves of the status column short of closing the row.           *)
Move(s, from, to) ==
  /\ phase[s] = from
  /\ phase' = [phase EXCEPT ![s] = to]
  /\ UNCHANGED <<reason, ends>>

Start(s)  == Move(s, "NONE", "ACTIVE")
Pause(s)  == Move(s, "ACTIVE", "PAUSED")
Resume(s) == Move(s, "PAUSED", "ACTIVE")

(* Closing is final, and leaves exactly one SESSION_END audit row.         *)
Close(s, why) ==
  /\ IsOpen(phase[s])
  /\ phase'  = [phase  EXCEPT ![s] = "CLOSED"]
  /\ reason' = [reason EXCEPT ![s] = why]
  /\ ends'   = [ends   EXCEPT ![s] = @ + 1]

StatusNext ==
  \E s \in Sessions :
    \/ Start(s)
    \/ Pause(s)
    \/ Resume(s)
    \/ \E why \in Reasons : Close(s, why)

StatusSpec == StatusInit /\ [][StatusNext]_statusVars
=============================================================================
