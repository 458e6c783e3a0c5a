------------------------------- MODULE UdpBind -------------------------------
(***************************************************************************)
(* The UDP sockets of a device (conn/bind_std.go): Open and Close of the     *)
(* IPv4 and the IPv6 socket, Send with the datagrams coalesced for the        *)
(* kernel's segmentation offload and its retry without, and the receive      *)
(* that splits what the kernel has coalesced.  Sends run while the bind is   *)
(* closed and opened.                                                        *)
(*                                                                         *)
(* A datagram is the sequence of its bytes, and a byte is the number of its   *)
(* datagram; the sizes and limits are scaled down.                           *)
(***************************************************************************)
EXTENDS Integers, Sequences

CONSTANTS
  Sender,           \* the goroutines that send
  Port,             \* the ports of the host, without 0
  Sizes,            \* the sequences of datagram sizes a Send may be given
  BufferCap,        \* capacity of a buffer
  MaxPayload,       \* maxIPv4PayloadLen, maxIPv6PayloadLen
  MaxDatagrams,     \* udpSegmentMaxDatagrams
  ReadSlots,        \* messages that one ReadBatch fills: IdealBatchSize / udpSegmentMaxDatagrams
  MaxTry,           \* tries of Open: 100
  MaxOpen, MaxSend  \* bounds: sockets opened, sends started

ASSUME BindAssumption == MaxDatagrams \in Nat \ {0} /\ ReadSlots \in Nat \ {0} /\ 0 \notin Port

VARIABLES
  host,             \* what the host supports and which IPv6 ports others use
  sock,             \* the sockets made: family, port, whether open
  bind,             \* StdNetBind: per family its socket (0 is nil) and whether it sends with offload
  opened,           \* Open while it runs, and what it reported
  sender,           \* Send
  nsend,            \* sends started
  msgs,             \* the messages of the pool, as a receive finds them
  received          \* what the last receive was given and what it made of it

sendVars == <<sender, nsend>>

poolVars == <<msgs, received>>

bindVars == <<host, sock, bind, opened, sendVars, poolVars>>

Family == {4, 6}

NoSockets == [f \in Family |-> 0]

Batch == ReadSlots * MaxDatagrams  \* IdealBatchSize

\* The datagrams of a Send.
Datagrams(sizes) == [i \in DOMAIN sizes |-> [b \in 1..sizes[i] |-> i]]

-----------------------------------------------------------------------------
(* coalesceMessages                                                          *)

NoBatch == [msgs |-> <<>>, gsoSize |-> 0, dgramCnt |-> 0, endBatch |-> FALSE]

\* Mutant: a datagram shorter than the others does not end its batch.
EndBatch_Never(buf, gsoSize) == FALSE

\* A datagram shorter than the others may only be the last of its batch.
EndBatch(buf, gsoSize) == Len(buf) < gsoSize

\* Whether the next datagram joins the message under construction.
Fits(st, buf) ==
  LET base == st.msgs[Len(st.msgs)].data
  IN  /\ Len(buf) + Len(base) <= MaxPayload /\ Len(buf) <= st.gsoSize
      /\ Len(buf) <= BufferCap - Len(base)
      /\ st.dgramCnt < MaxDatagrams /\ ~st.endBatch

\* setGSO on the message under construction.
SetGSO(st) == [st.msgs EXCEPT ![Len(st.msgs)].gso = st.gsoSize]

CoalesceMessages(bufs) ==
  LET Join(st, i) ==
        LET ms == IF i = Len(bufs) THEN SetGSO(st) ELSE st.msgs
        IN  [st EXCEPT !.msgs = [ms EXCEPT ![Len(ms)].data = @ \o bufs[i]], !.dgramCnt = @ + 1,
                       !.endBatch = EndBatch(bufs[i], st.gsoSize)]
      Start(st, i) ==
        [msgs |-> Append(IF st.dgramCnt > 1 THEN SetGSO(st) ELSE st.msgs, [data |-> bufs[i], gso |-> 0]),
         gsoSize |-> Len(bufs[i]), dgramCnt |-> 1, endBatch |-> FALSE]
      upTo[i \in 0..Len(bufs)] ==
        IF i = 0 THEN NoBatch
        ELSE IF i > 1 /\ Fits(upTo[i - 1], bufs[i]) THEN Join(upTo[i - 1], i) ELSE Start(upTo[i - 1], i)
  IN  upTo[Len(bufs)].msgs

\* The messages of a Send without offload: one for each datagram.
Plain(bufs) == [i \in DOMAIN bufs |-> [data |-> bufs[i], gso |-> 0]]

\* The sequences in seqs, one after the other.
Flatten(seqs) ==
  LET upTo[i \in 0..Len(seqs)] == IF i = 0 THEN <<>> ELSE upTo[i - 1] \o seqs[i]
  IN  upTo[Len(seqs)]

\* The datagrams the kernel makes of a message.
KernelSegments(m) ==
  IF m.gso = 0 THEN <<m.data>>
  ELSE [k \in 1..((Len(m.data) + m.gso - 1) \div m.gso) |->
          SubSeq(m.data, (k - 1) * m.gso + 1, IF k * m.gso > Len(m.data) THEN Len(m.data) ELSE k * m.gso)]

Transmit(ms) == Flatten([i \in DOMAIN ms |-> KernelSegments(ms[i])])

-----------------------------------------------------------------------------
(* Send                                                                      *)

IdleSender == [pc |-> "idle", fam |-> 4, conn |-> 0, offload |-> FALSE, bufs |-> <<>>, msgs |-> <<>>,
               retried |-> FALSE, wire |-> <<>>]

\* Send reads the socket and the offload flag under the mutex, which it then lets go; without a
\* socket of the family it fails.
SendStarts(p, fam, sizes) ==
  /\ sender[p].pc = "idle" /\ opened.pc = "done" /\ nsend < MaxSend /\ nsend' = nsend + 1
  /\ LET bufs == Datagrams(sizes)  offload == bind.tx[fam]
     IN  sender' = [sender EXCEPT ![p] =
           [IdleSender EXCEPT !.pc = IF bind.sock[fam] = 0 THEN "failed" ELSE "write",
              !.fam = fam, !.conn = bind.sock[fam], !.offload = offload, !.bufs = bufs,
              !.msgs = IF offload THEN CoalesceMessages(bufs) ELSE Plain(bufs)]]
  /\ UNCHANGED <<host, sock, bind, opened, poolVars>>

\* One WriteBatch: the kernel takes some of the messages left, and send goes on with the rest.
WriteBatch(p) ==
  /\ sender[p].pc = "write" /\ sock[sender[p].conn].open
  /\ \E n \in DOMAIN sender[p].msgs :
       LET left == SubSeq(sender[p].msgs, n + 1, Len(sender[p].msgs))
       IN  sender' = [sender EXCEPT ![p].wire = @ \o Transmit(SubSeq(sender[p].msgs, 1, n)), ![p].msgs = left,
                                    ![p].pc = IF left = <<>> THEN "sent" ELSE "write"]
  /\ UNCHANGED <<host, sock, bind, opened, nsend, poolVars>>

\* WriteBatch fails.  The errors that offload may cause turn it off, for this Send and the bind, and
\* Send tries all datagrams again, one by one; any other, such as that of a socket closed meanwhile, Send returns.
WriteFails(p) ==
  /\ sender[p].pc = "write"
  /\ \/ /\ sender[p].offload /\ sock[sender[p].conn].open
        /\ sender' = [sender EXCEPT ![p].offload = FALSE, ![p].retried = TRUE, 
                                ![p].msgs = Plain(sender[p].bufs)]
        /\ bind' = [bind EXCEPT !.tx[sender[p].fam] = FALSE]
     \/ sender' = [sender EXCEPT ![p].pc = "failed"] /\ UNCHANGED bind
  /\ UNCHANGED <<host, sock, opened, nsend, poolVars>>

SendEnds(p) ==
  /\ sender[p].pc \in {"sent", "failed"} /\ sender' = [sender EXCEPT ![p] = IdleSender]
  /\ UNCHANGED <<host, sock, bind, opened, nsend, poolVars>>

-----------------------------------------------------------------------------
(* Open and Close, with the mutex held throughout                            *)

OpenStarts(uport) ==
  /\ opened.pc = "done" /\ bind.sock = NoSockets
  /\ opened' = [pc |-> "v4", uport |-> uport, port |-> uport, tries |-> 0, v4 |-> 0]
  /\ UNCHANGED <<host, sock, bind, sendVars, poolVars>>

\* The ports a socket of a family can be given when port is asked for.
Available(f, port) ==
  {q \in IF port = 0 THEN Port ELSE {port} :
     /\ f = 6 => q \notin host.used6
     /\ \A s \in DOMAIN sock : ~(sock[s].open /\ sock[s].fam = f /\ sock[s].port = q)}

\* listenNet succeeds on port q.
Listen(f, q) ==
  /\ Len(sock) < MaxOpen /\ f \in host.supports
  /\ sock' = Append(sock, [fam |-> f, port |-> q, open |-> TRUE])

OpenFails == opened' = [opened EXCEPT !.pc = "done"] /\ UNCHANGED bind

\* Without IPv4 the port becomes 0, as listenNet returns it.
OpenV4 ==
  /\ opened.pc = "v4"
  /\ \/ \E q \in Available(4, opened.port) :
          /\ Listen(4, q) /\ UNCHANGED bind
          /\ opened' = [opened EXCEPT !.pc = "v6", !.port = q, !.v4 = Len(sock) + 1]
     \/ /\ 4 \notin host.supports /\ UNCHANGED <<sock, bind>>
        /\ opened' = [opened EXCEPT !.pc = "v6", !.port = 0, !.v4 = 0]
     \/ 4 \in host.supports /\ OpenFails /\ UNCHANGED sock
  /\ UNCHANGED <<host, sendVars, poolVars>>

\* v4conn.Close, on a nil connection too.
CloseV4 == sock' = IF opened.v4 = 0 THEN sock ELSE [sock EXCEPT ![opened.v4].open = FALSE]

\* The sockets of the bind; whether they support offload the kernel says.
NewBind(v4, v6, tx) ==
  LET s == [f \in Family |-> IF f = 4 THEN v4 ELSE v6]
  IN  [sock |-> s, tx |-> [f \in Family |-> tx /\ s[f] # 0]]

\* The port that IPv6 asks for is the one IPv4 has.
Port6 == opened.port

\* Mutant: the IPv4 socket is left open when the IPv6 port is in use and the port cannot change.
OpenV6Fails_KeepsV4 == OpenFails /\ UNCHANGED sock

OpenV6Fails == OpenFails /\ CloseV4

\* IPv6 on the same port; if that is in use and any port would do, both are tried again.  Without
\* IPv6 the port reported is 0, as listenNet returns it.
OpenV6 ==
  /\ opened.pc = "v6"
  /\ \/ \E q \in Available(6, Port6), tx \in BOOLEAN :
          /\ Listen(6, q) /\ bind' = NewBind(opened.v4, Len(sock) + 1, tx)
          /\ opened' = [opened EXCEPT !.pc = "done", !.port = q]
     \/ \E tx \in BOOLEAN :
          /\ 6 \notin host.supports /\ opened.v4 # 0 /\ UNCHANGED sock
          /\ bind' = NewBind(opened.v4, 0, tx) /\ opened' = [opened EXCEPT !.pc = "done", !.port = 0]
     \/ /\ 6 \in host.supports /\ opened.port \in host.used6 /\ opened.uport = 0 /\ opened.tries < MaxTry
        /\ CloseV4 /\ UNCHANGED bind
        /\ opened' = [opened EXCEPT !.pc = "v4", !.port = 0, !.tries = @ + 1, !.v4 = 0]
     \/ /\ \/ 6 \notin host.supports /\ opened.v4 = 0
           \/ /\ 6 \in host.supports
              /\ ~(opened.port \in host.used6 /\ opened.uport = 0 /\ opened.tries < MaxTry)
        /\ OpenV6Fails
  /\ UNCHANGED <<host, sendVars, poolVars>>

\* Close closes both sockets; the sends under way find out when they write.
Close ==
  /\ opened.pc = "done" /\ bind.sock # NoSockets
  /\ sock' = [s \in DOMAIN sock |-> [sock[s] EXCEPT !.open = @ /\ s \notin {bind.sock[4], bind.sock[6]}]]
  /\ bind' = NewBind(0, 0, FALSE)
  /\ UNCHANGED <<host, opened, sendVars, poolVars>>

-----------------------------------------------------------------------------
(* receiveIP and splitCoalescedMessages                                      *)

NoMsgs == [i \in 1..Batch |-> [data |-> <<>>, gso |-> 0]]

\* What the kernel may have coalesced: datagrams of one size, the last one perhaps shorter.
Coalesced ==
  UNION {{[data |-> Flatten([i \in 1..k |-> [b \in 1..(IF i = k THEN last ELSE g) |-> i]]),
           gso |-> IF k = 1 THEN 0 ELSE g] : last \in 1..g} : k \in 1..MaxDatagrams, g \in 1..2}

\* The ith message is split into the places after the n that are taken, in place.
SplitAt(st, i) ==
  LET Put(s, seg) == IF s.err \/ s.n > i - 1 THEN [s EXCEPT !.err = TRUE]
                     ELSE [s EXCEPT !.ms[s.n + 1].data = seg, !.n = @ + 1]
      segs == KernelSegments(st.ms[i])
      upTo[k \in 0..Len(segs)] == IF k = 0 THEN st ELSE Put(upTo[k - 1], segs[k])
      split == upTo[Len(segs)]
  IN  IF st.end \/ st.err THEN st
      ELSE IF st.ms[i].data = <<>> THEN [st EXCEPT !.end = TRUE]
      ELSE IF split.err \/ i = split.n THEN split ELSE [split EXCEPT !.ms[i].data = <<>>]

SplitCoalesced(ms, readAt) ==
  LET upTo[i \in readAt..Batch] ==
        IF i = readAt THEN [ms |-> ms, n |-> 0, err |-> FALSE, end |-> FALSE] ELSE SplitAt(upTo[i - 1], i)
  IN  upTo[Batch]

PutMessages(ms) == NoMsgs

\* A receive with offload reads into the last places of the batch and splits; one without reads
\* datagrams as they are.
ReceiveIP(got, rxOffload) ==
  /\ Len(got) <= IF rxOffload THEN ReadSlots ELSE Batch
  /\ LET readAt == IF rxOffload THEN Batch - ReadSlots ELSE 0
         ms == [i \in 1..Batch |-> IF i > readAt /\ i - readAt <= Len(got) THEN got[i - readAt] ELSE msgs[i]]
         res == IF rxOffload THEN SplitCoalesced(ms, readAt) ELSE [ms |-> ms, n |-> Len(got), err |-> FALSE]
     IN  /\ msgs' = PutMessages(res.ms)
         /\ received' = [given |-> Transmit(got),
                         out |-> IF res.err THEN <<>> ELSE [i \in 1..res.n |-> res.ms[i].data]]
  /\ UNCHANGED <<host, sock, bind, opened, sendVars>>

-----------------------------------------------------------------------------
BindInit ==
  /\ host \in [supports : SUBSET Family, used6 : SUBSET Port]
  /\ sock = <<>> /\ bind = NewBind(0, 0, FALSE)
  /\ opened = [pc |-> "done", uport |-> 0, port |-> 0, tries |-> 0, v4 |-> 0]
  /\ sender = [p \in Sender |-> IdleSender] /\ nsend = 0
  /\ msgs = NoMsgs /\ received = [given |-> <<>>, out |-> <<>>]

SendStep(p) ==
  \/ \E fam \in Family, sizes \in Sizes : SendStarts(p, fam, sizes)
  \/ WriteBatch(p) \/ WriteFails(p) \/ SendEnds(p)

ReceiveStep ==
  \/ \E n \in 1..ReadSlots : \E got \in [1..n -> Coalesced] : ReceiveIP(got, TRUE)
  \/ \E n \in 1..Batch : \E got \in [1..n -> {m \in Coalesced : m.gso = 0}] : ReceiveIP(got, FALSE)

BindStep ==
  \/ \E uport \in Port \cup {0} : OpenStarts(uport)
  \/ OpenV4 \/ OpenV6 \/ Close
  \/ \E p \in Sender : SendStep(p)

BindNext == BindStep \/ ReceiveStep

BindSpec == BindInit /\ [][BindNext]_bindVars

-----------------------------------------------------------------------------
(* Properties *)

\* A Send that succeeds has given the kernel every datagram, whole and in order; before them there is
\* at most the part of them that was sent before offload was turned off.
SentWhole ==
  \A p \in Sender : sender[p].pc = "sent" =>
    LET s == sender[p]  extra == Len(s.wire) - Len(s.bufs)
    IN  /\ extra >= 0 /\ SubSeq(s.wire, extra + 1, Len(s.wire)) = s.bufs
        /\ extra > 0 => s.retried /\ SubSeq(s.wire, 1, extra) = SubSeq(s.bufs, 1, extra)

\* What is handed to the kernel it accepts: no message is longer than a payload or than its buffer, or
\* made of more datagrams than a segmentation may have.
MessagesLegal ==
  \A p \in Sender : \A i \in DOMAIN sender[p].msgs :
    LET m == sender[p].msgs[i]
    IN  Len(m.data) <= MaxPayload /\ Len(m.data) <= BufferCap /\ Len(KernelSegments(m)) <= MaxDatagrams

\* A receive returns the datagrams that came, whole and in order, whatever receives were made with the
\* same messages before: the places before the ones read into are just enough for the split.
ReceivedWhole == received.out = received.given

\* Offload changes nothing for the two ends: datagrams leave whole and in order, in messages the kernel
\* takes, and arrive whole and in order, though it coalesces, splits or refuses them on the way.
DatagramsWhole == SentWhole /\ MessagesLegal /\ ReceivedWhole

\* With both families the two sockets have one port, and Open reports it.
SamePort ==
  bind.sock[4] # 0 /\ bind.sock[6] # 0 =>
    opened.port = sock[bind.sock[4]].port /\ sock[bind.sock[4]].port = sock[bind.sock[6]].port

OpenSockets(socks) == {s \in DOMAIN socks : socks[s].open}

BindSockets == {bind.sock[f] : f \in Family} \ {0}

\* Between calls of Open and Close the sockets open are those of the bind, on one port: none is left
\* behind by an Open that failed or was tried again, or by a Close.
SocketsAccounted ==
  /\ opened.pc = "done" => OpenSockets(sock) = BindSockets
  /\ SamePort

-----------------------------------------------------------------------------
(* What the proofs add to SocketsAccounted to make it inductive.             *)

BindType ==
  /\ sock \in Seq([fam : Family, port : Port, open : BOOLEAN])
  /\ bind = [sock |-> bind.sock, tx |-> bind.tx] /\ bind.sock \in [Family -> Nat]
  /\ opened \in [pc : {"done", "v4", "v6"}, uport : Port \cup {0}, port : Port \cup {0}, tries : Nat, v4 : Nat]

\* While Open runs the bind has no sockets, and only the IPv4 one that Open has made is open, on the port
\* that it will ask for again.
OpenUnderWay ==
  /\ opened.pc # "done" => bind.sock = NoSockets
  /\ opened.pc = "v4" => OpenSockets(sock) = {}
  /\ opened.pc = "v6" => /\ OpenSockets(sock) = {opened.v4} \ {0}
                         /\ opened.v4 # 0 => opened.port = sock[opened.v4].port

BindInv == BindType /\ OpenUnderWay /\ SocketsAccounted
==============================================================================
