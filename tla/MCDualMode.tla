----------------------------- MODULE MCDualMode -----------------------------
(***************************************************************************)
(* The orchestration of the dual mode and, below it, the UDP bind that its   *)
(* devices open, close and open again as they take turns, for TLC.  A        *)
(* behaviour exercises one of the two, chosen in its initial state; the       *)
(* receives of the bind, which touch none of its sockets, are apart from the  *)
(* rest of it.                                                               *)
(***************************************************************************)
EXTENDS Orchestrator, UdpBind

VARIABLE part

MCInit ==
  /\ part \in {"orchestrator", "sockets", "receive"} /\ Init /\ BindInit
  /\ host.used6 \in {{}, {1}, Port}
  /\ part # "sockets" => host = [supports |-> Family, used6 |-> {}]
  /\ part # "orchestrator" => ~background

MCNext ==
  \/ part = "orchestrator" /\ Next /\ UNCHANGED <<part, bindVars>>
  \/ part = "sockets" /\ BindStep /\ UNCHANGED <<part, vars>>
  \/ part = "receive" /\ ReceiveStep /\ UNCHANGED <<part, vars>>

MCSpec == MCInit /\ [][MCNext]_<<part, vars, bindVars>>

\* Datagrams of one size, with a shorter one last or between, and growing ones.
MCSizes == {<<2, 2, 1>>, <<2, 1, 1>>, <<1, 1, 1, 1>>, <<1, 2>>}
==============================================================================
