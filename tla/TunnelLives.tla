----------------------------- MODULE TunnelLives -----------------------------
(***************************************************************************)
(* What the tunnel broker's registry promises to whoever opens streams     *)
(* through it: a gateway has at most one tunnel in use; a newer tunnel     *)
(* takes the place of an older one in a single step; a tunnel is closed by *)
(* the broker only after it has left its place, and never comes back.      *)
(*                                                                         *)
(* TunnelRegistry implements this specification.                           *)
(***************************************************************************)
CONSTANTS
  Tunnels       \* connections agents of the gateway make

VARIABLES
  life          \* of each tunnel: not in use yet, in use, replaced or
                \* removed, closed by the broker

LivesTypeOK == life \in [Tunnels -> {"new", "up", "leaving", "down"}]

LivesInit == life = [c \in Tunnels |-> "new"]

(* A tunnel comes into use, in place of the one that was.                  *)
Connect(c) ==
  /\ life[c] = "new"
  /\ life' = [d \in Tunnels |-> IF d = c THEN "up"
                                ELSE IF life[d] = "up" THEN "leaving" ELSE life[d]]

(* The tunnel in use is taken out of it.                                   *)
Leave(c) ==
  /\ life[c] = "up"
  /\ life' = [life EXCEPT ![c] = "leaving"]

(* One that has left is closed.                                            *)
Close(c) ==
  /\ life[c] = "leaving"
  /\ life' = [life EXCEPT ![c] = "down"]

LivesNext == \E c \in Tunnels : Connect(c) \/ Leave(c) \/ Close(c)

LivesSpec == LivesInit /\ [][LivesNext]_life
=============================================================================
