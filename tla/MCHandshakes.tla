---------------------------- MODULE MCHandshakes ----------------------------
(***************************************************************************)
(* Handshakes that run beside one another, for TLC: the two handshake        *)
(* workers of a device, and the connections of the control channel.  A       *)
(* behaviour exercises one of them, chosen in its initial state.             *)
(***************************************************************************)
EXTENDS MCHandshake, ControlChannel

VARIABLE part

MCInit == part \in {"workers", "channel"} /\ Init /\ ControlInit

MCNext ==
  \/ part = "workers" /\ Next /\ UNCHANGED <<part, controlVars>>
  \/ part = "channel" /\ ControlNext /\ UNCHANGED <<part, vars>>

MCSpec == MCInit /\ [][MCNext]_<<part, vars, controlVars>>
=============================================================================
