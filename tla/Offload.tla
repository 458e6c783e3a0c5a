------------------------------- MODULE Offload --------------------------------
(***************************************************************************)
(* Segmentation offload of the Linux TUN device (tun/offload_linux.go): Write  *)
(* coalesces the packets of a batch (GRO) and Read splits the large packets    *)
(* it gets (GSO).  The two are inverse: the kernel splits what Write made as   *)
(* Read splits what the kernel made.                                         *)
(*                                                                         *)
(* A packet is [proto, flow, seq, data, psh, class, valid]: class stands for    *)
(* the header fields that must be equal in packets that are merged, valid for   *)
(* the checksum.  A byte of a TCP flow is its sequence number, that of a UDP   *)
(* packet carries the number of the packet.                                   *)
(***************************************************************************)
EXTENDS Naturals, SequencesExt

CONSTANTS
  Flow, Seq0,          \* flows; the sequence numbers packets begin at
  Quality,             \* the classes of headers and validities of checksums that occur
  MaxSize, Cap,        \* the largest payload; the payload that a buffer has room for
  MaxPackets           \* bound: packets in a batch

VARIABLES
  batch,   \* the packets given to Write, so far
  gro      \* bufs; items: the tables, by protocol and flow; toWrite

offloadVars == <<batch, gro>>

\* tcpGROItem and udpGROItem: the packet's index in bufs, packets merged into it, size of a segment,
\* first sequence number, whether PSH is set and whether the checksum is known to be invalid.
Item(i, pkt, invalid) ==
  [index |-> i, numMerged |-> 0, gsoSize |-> Len(pkt.data), sentSeq |-> pkt.seq, pshSet |-> pkt.psh,
   invalid |-> invalid]

Key(pkt) == <<pkt.proto, pkt.flow>>

-----------------------------------------------------------------------------
(* Write: coalescing                                                         *)

\* Mutant: a longer packet is appended to a shorter one.
tcpCanCoalesce_Longer(pkt, item, target) ==
  LET size == Len(pkt.data)
      append == /\ pkt.seq = item.sentSeq + item.gsoSize + item.numMerged * item.gsoSize
                /\ ~item.pshSet /\ Len(target.data) % item.gsoSize = 0
      prepend == /\ pkt.seq + size = item.sentSeq
                 /\ ~pkt.psh /\ size >= item.gsoSize /\ (size > item.gsoSize => item.numMerged = 0)
  IN IF pkt.class # target.class THEN "unavailable"
     ELSE IF append THEN "append" ELSE IF prepend THEN "prepend" ELSE "unavailable"

\* tcpPacketsCanCoalesce
tcpCanCoalesce(pkt, item, target) ==
  LET size == Len(pkt.data)
      append == /\ pkt.seq = item.sentSeq + item.gsoSize + item.numMerged * item.gsoSize
                /\ ~item.pshSet /\ Len(target.data) % item.gsoSize = 0 /\ size <= item.gsoSize
      prepend == /\ pkt.seq + size = item.sentSeq
                 /\ ~pkt.psh /\ size >= item.gsoSize /\ (size > item.gsoSize => item.numMerged = 0)
  IN IF pkt.class # target.class THEN "unavailable"
     ELSE IF append THEN "append" ELSE IF prepend THEN "prepend" ELSE "unavailable"

\* udpPacketsCanCoalesce
udpCanCoalesce(pkt, item, target) ==
  IF pkt.class = target.class /\ Len(target.data) % item.gsoSize = 0 /\ Len(pkt.data) <= item.gsoSize
  THEN "append" ELSE "unavailable"

\* Why two packets are not merged after all; checksums are looked at last.
coalesceResult(pkt, item, target) ==
  IF Len(pkt.data) + Len(target.data) > Cap THEN "insufficientCap"
  ELSE IF item.numMerged = 0 /\ (item.invalid \/ ~target.valid) THEN "itemInvalidCSum"
  ELSE IF ~pkt.valid THEN "pktInvalidCSum" ELSE "success"

\* The packet at the front gives the headers; PSH of an appended packet is set on it.
Merged(mode, pkt, target) ==
  IF mode = "prepend" THEN [pkt EXCEPT !.data = @ \o target.data]
  ELSE [target EXCEPT !.data = @ \o pkt.data, !.psh = @ \/ pkt.psh]

MergedItem(mode, pkt, item) ==
  [item EXCEPT !.numMerged = @ + 1,
               !.sentSeq = IF mode = "prepend" THEN pkt.seq ELSE @,
               !.gsoSize = IF Len(pkt.data) > @ THEN Len(pkt.data) ELSE @,
               !.pshSet = @ \/ (mode = "append" /\ pkt.psh)]

\* coalesceTCPPackets and coalesceUDPPackets when they succeed, with the k-th item of the flow; a prepend
\* leaves the merged packet at the item's index.
Coalesce(g, pkt, k, mode) ==
  LET item == g.items[Key(pkt)][k] IN
  [g EXCEPT !.bufs[item.index] = Merged(mode, pkt, @), !.items[Key(pkt)][k] = MergedItem(mode, pkt, item)]

InsertItem(g, pkt, i, invalid) ==
  [g EXCEPT !.items = IF Key(pkt) \in DOMAIN @ THEN [@ EXCEPT ![Key(pkt)] = Append(@, Item(i, pkt, invalid))]
                      ELSE (Key(pkt) :> <<Item(i, pkt, invalid)>>) @@ @,
            !.toWrite = Append(@, i)]

Noop(g, i) == [g EXCEPT !.toWrite = Append(@, i)]

\* tcpGRO's loop, from the k-th item down: the first that can be merged with is; an item with an invalid
\* checksum is dropped from the table; a packet with one is left alone.
RECURSIVE tcpItems(_, _, _, _)
tcpItems(g, pkt, i, k) ==
  IF k = 0 THEN InsertItem(g, pkt, i, FALSE)
  ELSE LET item == g.items[Key(pkt)][k]
           mode == tcpCanCoalesce(pkt, item, g.bufs[item.index])
           result == IF mode = "unavailable" THEN mode ELSE coalesceResult(pkt, item, g.bufs[item.index])
       IN CASE result = "success" -> Coalesce(g, pkt, k, mode)
            [] result = "itemInvalidCSum" -> tcpItems([g EXCEPT !.items[Key(pkt)] = RemoveAt(@, k)], pkt, i, k - 1)
            [] result = "pktInvalidCSum" -> Noop(g, i)
            [] OTHER -> tcpItems(g, pkt, i, k - 1)

tcpGRO(g, pkt, i) ==
  IF pkt.data = << >> THEN Noop(g, i)
  ELSE IF Key(pkt) \notin DOMAIN g.items THEN InsertItem(g, pkt, i, FALSE)
  ELSE tcpItems(g, pkt, i, Len(g.items[Key(pkt)]))

\* Only the last item of the flow is considered, and the packet is merged with it or becomes the last.
udpGRO(g, pkt, i) ==
  IF pkt.data = << >> THEN Noop(g, i)
  ELSE IF Key(pkt) \notin DOMAIN g.items THEN InsertItem(g, pkt, i, FALSE)
  ELSE LET k == Len(g.items[Key(pkt)])
           item == g.items[Key(pkt)][k]
           mode == udpCanCoalesce(pkt, item, g.bufs[item.index])
           result == IF mode = "unavailable" THEN mode ELSE coalesceResult(pkt, item, g.bufs[item.index])
       IN IF result = "success" THEN Coalesce(g, pkt, k, mode)
          ELSE InsertItem(g, pkt, i, result = "pktInvalidCSum")

\* handleGRO, for one packet of the batch.
handleGRO(pkt) ==
  /\ Len(batch) < MaxPackets
  /\ batch' = Append(batch, pkt)
  /\ LET i == Len(batch) + 1
         g == [gro EXCEPT !.bufs = Append(@, pkt)] IN
     gro' = IF pkt.proto = "tcp" THEN tcpGRO(g, pkt, i) ELSE udpGRO(g, pkt, i)

-----------------------------------------------------------------------------
(* Read: splitting                                                           *)

\* gsoSplit: segments of gsoSize, the last as long as what remains; PSH only on the last.  One buffer too
\* few, and the last that was filled is not counted.
gsoSplit(pkt, gsoSize, bufs) ==
  LET n == (Len(pkt.data) + gsoSize - 1) \div gsoSize
      end(i) == IF i * gsoSize > Len(pkt.data) THEN Len(pkt.data) ELSE i * gsoSize
      segments == [i \in 1..n |->
        [pkt EXCEPT !.data = SubSeq(@, (i - 1) * gsoSize + 1, end(i)),
                    !.seq = IF pkt.proto = "tcp" THEN @ + gsoSize * (i - 1) ELSE @,
                    !.psh = @ /\ i = n]]
  IN IF n <= bufs THEN segments ELSE SubSeq(segments, 1, bufs - 1)

\* The virtio header that applyTCPCoalesceAccounting and applyUDPCoalesceAccounting put before the packet.
GsoSize(g, i) ==
  LET items == {k \in UNION {Range(g.items[f]) : f \in DOMAIN g.items} : k.index = i /\ k.numMerged > 0} IN
  IF items = {} THEN 0 ELSE (CHOOSE k \in items : TRUE).gsoSize

Split(g, i, bufs) == IF GsoSize(g, i) = 0 THEN <<g.bufs[i]>> ELSE gsoSplit(g.bufs[i], GsoSize(g, i), bufs)

\* The packets of toWrite, split.
Segments(g) == FoldLeft(LAMBDA acc, i : acc \o Split(g, i, MaxPackets), << >>, g.toWrite)

-----------------------------------------------------------------------------
OffloadInit == batch = << >> /\ gro = [bufs |-> << >>, items |-> << >>, toWrite |-> << >>]

Tcp(flow, seq, size, psh, q) ==
  [proto |-> "tcp", flow |-> flow, seq |-> seq, data |-> [j \in 1..size |-> seq + j - 1], psh |-> psh,
   class |-> q.class, valid |-> q.valid]

Udp(flow, size, q) ==
  [proto |-> "udp", flow |-> flow, seq |-> 0, data |-> [j \in 1..size |-> 100 * (Len(batch) + 1) + j], psh |-> FALSE,
   class |-> q.class, valid |-> q.valid]

\* The next packet of a batch; Write empties the tables after it.
OffloadNext ==
  \/ \E flow \in Flow, size \in 0..MaxSize, q \in Quality :
       \/ handleGRO(Udp(flow, size, q))
       \/ \E seq \in Seq0, psh \in BOOLEAN : handleGRO(Tcp(flow, seq, size, psh, q))
  \/ Len(batch) = MaxPackets /\ batch' = << >> /\ gro' = [bufs |-> << >>, items |-> << >>, toWrite |-> << >>]

OffloadSpec == OffloadInit /\ [][OffloadNext]_offloadVars

-----------------------------------------------------------------------------
NoPsh(pkt) == [pkt EXCEPT !.psh = FALSE]

\* What is written, split again, is what was given to Write: no payload is lost, repeated, moved to another
\* sequence number or under other headers.
SameSegments ==
  LET out == Segments(gro)
      Times(pkts, pkt) == Len(SelectSeq(pkts, LAMBDA p : NoPsh(p) = NoPsh(pkt))) IN
  \A pkt \in Range(out) \cup Range(batch) : Times(out, pkt) = Times(batch, pkt)

\* The datagrams of a flow keep their order; the empty ones, which are not in the table, may be overtaken.
UdpInOrder ==
  \A flow \in Flow :
    LET datagram(pkt) == pkt.proto = "udp" /\ pkt.flow = flow /\ pkt.data # << >> IN
    SelectSeq(Segments(gro), datagram) = SelectSeq(batch, datagram)

\* Whoever reads the interface cannot tell that packets were coalesced, whatever their order, sizes and
\* checksums: the same segments come out of it, and datagrams in the same order.
OffloadTransparent == SameSegments /\ UdpInOrder
==============================================================================
