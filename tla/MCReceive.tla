------------------------------ MODULE MCReceive ------------------------------
(***************************************************************************)
(* The receive path and the TUN interface that the devices of an             *)
(* orchestrator share, for TLC.  A behaviour exercises one of them, chosen   *)
(* in its initial state; in the initial state of either no fair step of it   *)
(* is enabled.                                                               *)
(***************************************************************************)
EXTENDS Inbound, SharedTun

VARIABLE part

MCInit ==
  /\ part \in {"receive", "tun"} /\ Init /\ TunInit
  /\ part = "tun" => pool = <<2, 0>>

MCNext ==
  \/ part = "receive" /\ Next /\ UNCHANGED <<part, tunVars>>
  \/ part = "tun" /\ TunNext /\ UNCHANGED <<part, vars>>

MCSpec == MCInit /\ [][MCNext]_<<part, vars, tunVars>> /\ Fairness /\ TunFairness

\* Batches of two with unbounded pools, as on Linux, and batches of one with a pool that is used up.
MCPools == {<<2, 0>>, <<1, 3>>}

\* Packets that repeat a counter, that do not decrypt, and that come in order.
MCBears == <<{1, Forged}, {1, 2}, {2}>>
==============================================================================
