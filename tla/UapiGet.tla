------------------------------- MODULE UapiGet -------------------------------
(***************************************************************************)
(* The get operation of the configuration protocol (uapi.go), which prints *)
(* the configuration as lines that the set operation of module Uapi reads. *)
(***************************************************************************)
EXTENDS Uapi

Sq == INSTANCE SequencesExt

\* The lines for each member of a set, in some order.
Each(set, Printed(_)) == Sq!FoldLeft(LAMBDA acc, x : acc \o Printed(x), << >>, Sq!SetToSeq(set))

GetDevice(d) ==
  LET value(key, v, none) == IF v = none THEN << >> ELSE <<[key |-> key, value |-> v]>>
      each(key, k, v, none) == IF v = none THEN << >> ELSE <<[key |-> key, kind |-> k, value |-> v]>> IN
  value("private_key", d.identity, NoKey) \o value("setting", d.setting, 0)
  \o Each(Kind, LAMBDA k : each("padding", k, d.paddings[k], 0))
  \o Each(Kind, LAMBDA k : each("header", k, d.headers[k], Zero))
  \o value("protect", d.protect, 0)

GetPeers(d) ==
  LET interval(k) == IF d.interval[k] = 0 THEN << >> ELSE <<[key |-> "interval", value |-> d.interval[k]]>>
      ip(i) == <<[key |-> "allowed_ip", value |-> i, add |-> TRUE]>>
      peer(k) == <<[key |-> "public_key", value |-> k]>> \o interval(k) \o Each({i \in Ip : d.allowed[i] = k}, ip) IN
  Each(d.peers, peer)

\* Mutant: the peers are printed before the device.
IpcGet_PeersFirst(d) == GetPeers(d) \o GetDevice(d)

\* IpcGetOperation: what is zero is not printed.
IpcGet(d) == GetDevice(d) \o GetPeers(d)

-----------------------------------------------------------------------------
\* What get prints, set on a new device, gives the same configuration; unless a header is zero, which get
\* leaves out and a new device has its own value for.
RoundTrip ==
  LET d == s.dev
      again == Finish(Sq!FoldLeft(HandleLine, [dev |-> NewDevice, op |-> Begin(NewDevice)], IpcGet(d))) IN
  ~s.op.open /\ (\A k \in Kind : d.headers[k] # Zero) =>
    again.op.ok /\ again.dev = [d EXCEPT !.up = FALSE, !.running = {}]
==============================================================================
