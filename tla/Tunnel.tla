------------------------------- MODULE Tunnel -------------------------------
(***************************************************************************)
(* What the dual-mode layer promises the host application: a tunnel that is *)
(* disconnected or connected in one mode, over a device of that mode that   *)
(* has completed a handshake, and that changes from cloaked to native       *)
(* without a disconnect, never the other way round.                         *)
(***************************************************************************)
CONSTANTS NativeDevices, CloakedDevices, NoDevice

VARIABLES mode,     \* none, native or cloaked: what Status and the events report
          carrier,  \* the device that carries the traffic
          proven    \* the open devices that completed a handshake

vars == <<mode, carrier, proven>>

DevicesOf(m) == IF m = "native" THEN NativeDevices ELSE CloakedDevices

Init == mode = "none" /\ carrier = NoDevice /\ proven = {}

Handshake ==
  /\ \E d \in NativeDevices \cup CloakedDevices : proven' = proven \cup {d}
  /\ UNCHANGED <<mode, carrier>>

\* Devices other than the one in use are closed.
Close ==
  /\ proven' \subseteq proven
  /\ mode # "none" => carrier \in proven'
  /\ UNCHANGED <<mode, carrier>>

\* A tunnel comes up, or moves from cloaked to native.
Connect ==
  /\ \/ mode = "none" /\ mode' \in {"native", "cloaked"}
     \/ mode = "cloaked" /\ mode' = "native"
  /\ proven' \subseteq proven
  /\ carrier' \in proven' \cap DevicesOf(mode')

Disconnect == mode # "none" /\ mode' = "none" /\ carrier' = NoDevice /\ proven' \subseteq proven

Next == Handshake \/ Close \/ Connect \/ Disconnect

Spec == Init /\ [][Next]_vars
=============================================================================
