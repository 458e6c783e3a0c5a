------------------------------- MODULE Inbound -------------------------------
(***************************************************************************)
(* The receive path for transport messages (receive.go, channels.go,        *)
(* pools.go).  A receive routine groups the packets of a batch by peer into  *)
(* a locked container, queues it to the peer and to the decryption workers,  *)
(* which unlock it; the peer's sequential receiver takes the containers in   *)
(* order and waits for each one's lock.  Meanwhile the peer is stopped and   *)
(* started, and the bind is closed.                                         *)
(*                                                                         *)
(* A packet is its place in the stream of its routine and the counter it     *)
(* bears, if it decrypts.  Message buffers and containers come from pools    *)
(* that may be bounded, and are reused.  Handshake messages share the        *)
(* routines and the buffers; what a handshake worker does with one is in     *)
(* Cookies and Handshake.                                                   *)
(***************************************************************************)
EXTENDS Integers, Sequences, FiniteSets, SequencesExt, FiniteSetsExt

CONSTANTS
  Receiver, Decryptor, Peer,    \* receive routines, decryption workers, peers
  Pools,                        \* pairs: maxBatchSize, packets a receive call returns at most, and
                                \* messageBuffers.max, where 0 is no limit
  InboundSize, DecryptionSize,  \* capacities of peer.queue.inbound and device.queue.decryption
  HandshakeSize,                \* capacity of device.queue.handshake
  Box,                          \* containers the pool ever makes
  Bears,                        \* the counters, or Forged, that the nth packet of a routine may bear
  MaxPacket, MaxStop            \* bounds: packets received, stops of a peer

ASSUME SizesAssumption ==
  /\ DecryptionSize \in Nat \ {0} /\ HandshakeSize \in Nat \ {0}
  /\ InboundSize \in Nat /\ InboundSize >= Cardinality(Receiver)
  /\ \A <<batch, max>> \in Pools :
       /\ batch \in Nat \ {0}
       /\ max = 0 \/ max >= (2 + Cardinality(Peer)) * Cardinality(Receiver) * batch

Nil == 0  \* the sentinel of Stop, and no container

Forged == 0  \* in place of the counter: the packet does not decrypt

VARIABLES
  pool,        \* the pair of Pools this device has
  receiver,    \* RoutineReceiveIncoming: where it is, packets left in the batch, elemsByPeer, packets so far
  bindOpen,    \* whether the bind is open
  box,         \* containers: the elements in them, whether locked
  free,        \* containers in the pool
  inbound,     \* peer.queue.inbound.c
  decryption,  \* device.queue.decryption.c
  handshake,   \* how many messages wait in device.queue.handshake.c
  decryptor,   \* RoutineDecryption: the container in work
  sequential,  \* RoutineSequentialReceiver: waiting, taken or ended, and the container it has taken
  running,     \* peer.isRunning
  control,     \* the progress of Peer.Stop and Peer.Start
  filter,      \* the counters the replay filter of the peer's keypair has accepted
  buffers,     \* messageBuffers.count: buffers taken from the pool and not put back
  delivered,   \* what was written to the TUN, per peer
  stops        \* how often a peer was stopped

vars == <<pool, receiver, bindOpen, box, free, inbound, decryption, handshake, decryptor, sequential, running,
          control, filter, buffers, delivered, stops>>

NoBoxes == [p \in {} |-> Nil]

MaxBatch == pool[1]

MaxBuffer == pool[2]

InitReceiver == [pc |-> "recv", left |-> 0, elemsByPeer |-> NoBoxes, peer |-> Nil, seen |-> 0]

EmptyBox == [elems |-> <<>>, locked |-> FALSE]

-----------------------------------------------------------------------------
(* Pools: WaitPool.Get waits while the pool is used up.  A container gets a  *)
(* new mutex with GetInboundElementsContainer, and is put back as it is.     *)

CanGetMessageBuffer == MaxBuffer = 0 \/ buffers < MaxBuffer

\* The buffers of a container's elements and the container itself go back.
PutAll(b) ==
  /\ buffers' = buffers - Len(box[b].elems)
  /\ free' = free \cup {b}
  /\ box' = [box EXCEPT ![b] = EmptyBox]

-----------------------------------------------------------------------------
(* RoutineReceiveIncoming                                                    *)

\* recv returns a batch.
Recv(r) ==
  /\ receiver[r].pc = "recv" /\ bindOpen
  /\ \E n \in 1..MaxBatch :
       /\ n + FoldFunction(LAMBDA q, m : q.left + q.seen + m, 0, receiver) <= MaxPacket
       /\ receiver' = [receiver EXCEPT ![r].pc = "batch", ![r].left = n]
  /\ UNCHANGED <<pool, bindOpen, box, free, inbound, decryption, handshake, decryptor, sequential, running,
                 control, filter, buffers, delivered, stops>>

\* The routine ends and returns its buffers: recv returns net.ErrClosed, or an error that is not
\* temporary, or a temporary one for the eleventh time in a row.
EndReceive(r) ==
  /\ receiver' = [receiver EXCEPT ![r].pc = "ended"]
  /\ buffers' = buffers - MaxBatch
  /\ UNCHANGED <<pool, bindOpen, box, free, inbound, decryption, handshake, decryptor, sequential, running,
                 control, filter, delivered, stops>>

\* One packet of the batch.  It is too short, of unknown type, without a live keypair, or a handshake
\* message that finds its queue full, and is skipped; or it is queued to the handshake workers; or it
\* joins its peer's container.  In the two latter cases its slot in the batch needs a new buffer.
HandlePacket(r) ==
  /\ receiver[r].pc = "batch" /\ receiver[r].left > 0
  /\ LET skip == [receiver[r] EXCEPT !.left = @ - 1, !.seen = @ + 1]
         next == [skip EXCEPT !.pc = "buffer"] IN
     \/ /\ receiver' = [receiver EXCEPT ![r] = skip]
        /\ UNCHANGED <<box, free, handshake>>
     \/ /\ handshake < HandshakeSize
        /\ receiver' = [receiver EXCEPT ![r] = next]
        /\ handshake' = handshake + 1
        /\ UNCHANGED <<box, free>>
     \/ \E p \in Peer, c \in Bears[skip.seen] :
          LET elem == [from |-> r, seq |-> next.seen, counter |-> c, open |-> FALSE] IN
          /\ UNCHANGED handshake
          /\ \/ /\ p \in DOMAIN receiver[r].elemsByPeer
                /\ receiver' = [receiver EXCEPT ![r] = next]
                /\ box' = [box EXCEPT ![receiver[r].elemsByPeer[p]].elems = Append(@, elem)]
                /\ UNCHANGED free
             \/ /\ p \notin DOMAIN receiver[r].elemsByPeer /\ free # {}
                /\ LET b == Min(free) IN
                   /\ receiver' = [receiver EXCEPT ![r] = [next EXCEPT !.elemsByPeer =
                        [q \in DOMAIN @ \cup {p} |-> IF q = p THEN b ELSE @[q]]]]
                   /\ box' = [box EXCEPT ![b] = [elems |-> <<elem>>, locked |-> TRUE]]
                   /\ free' = free \ {b}
  /\ UNCHANGED <<pool, bindOpen, inbound, decryption, decryptor, sequential, running, control, filter,
                 buffers, delivered, stops>>

GetMessageBuffer(r) ==
  /\ receiver[r].pc = "buffer" /\ CanGetMessageBuffer
  /\ buffers' = buffers + 1
  /\ receiver' = [receiver EXCEPT ![r].pc = "batch"]
  /\ UNCHANGED <<pool, bindOpen, box, free, inbound, decryption, handshake, decryptor, sequential, running,
                 control, filter, delivered, stops>>

Without(f, p) == [q \in DOMAIN f \ {p} |-> f[q]]

\* Mutant: the peer is not asked whether it runs.
Dispatch_NoCheck(r) ==
  /\ receiver[r].pc = "batch" /\ receiver[r].left = 0
  /\ \/ /\ DOMAIN receiver[r].elemsByPeer = {}
        /\ receiver' = [receiver EXCEPT ![r].pc = "recv"]
     \/ \E p \in DOMAIN receiver[r].elemsByPeer :
          receiver' = [receiver EXCEPT ![r].pc = "inbound", ![r].peer = p]
  /\ UNCHANGED <<pool, bindOpen, box, free, buffers, inbound, decryption, handshake, decryptor, sequential,
                 running, control, filter, delivered, stops>>

\* The batch is done: each peer's container is queued if the peer runs, else given back.
Dispatch(r) ==
  /\ receiver[r].pc = "batch" /\ receiver[r].left = 0
  /\ \/ /\ DOMAIN receiver[r].elemsByPeer = {}
        /\ receiver' = [receiver EXCEPT ![r].pc = "recv"]
        /\ UNCHANGED <<box, free, buffers>>
     \/ \E p \in DOMAIN receiver[r].elemsByPeer :
          \/ /\ running[p]
             /\ receiver' = [receiver EXCEPT ![r].pc = "inbound", ![r].peer = p]
             /\ UNCHANGED <<box, free, buffers>>
          \/ /\ ~running[p]
             /\ receiver' = [receiver EXCEPT ![r].elemsByPeer = Without(@, p)]
             /\ PutAll(receiver[r].elemsByPeer[p])
  /\ UNCHANGED <<pool, bindOpen, inbound, decryption, handshake, decryptor, sequential, running, control,
                 filter, delivered, stops>>

\* The two sends wait while the queue is full.
SendInbound(r) ==
  /\ receiver[r].pc = "inbound"
  /\ LET p == receiver[r].peer IN
     /\ Len(inbound[p]) < InboundSize
     /\ inbound' = [inbound EXCEPT ![p] = Append(@, receiver[r].elemsByPeer[p])]
  /\ receiver' = [receiver EXCEPT ![r].pc = "decryption"]
  /\ UNCHANGED <<pool, bindOpen, box, free, decryption, handshake, decryptor, sequential, running, control,
                 filter, buffers, delivered, stops>>

SendDecryption(r) ==
  /\ receiver[r].pc = "decryption"
  /\ Len(decryption) < DecryptionSize
  /\ LET p == receiver[r].peer IN
     /\ decryption' = Append(decryption, receiver[r].elemsByPeer[p])
     /\ receiver' = [receiver EXCEPT ![r].pc = "batch", ![r].peer = Nil,
                                     ![r].elemsByPeer = Without(@, p)]
  /\ UNCHANGED <<pool, bindOpen, box, free, inbound, handshake, decryptor, sequential, running, control,
                 filter, buffers, delivered, stops>>

RecvClosed(r) == receiver[r].pc = "recv" /\ ~bindOpen /\ EndReceive(r)

RecvFails(r) == receiver[r].pc = "recv" /\ bindOpen /\ EndReceive(r)

-----------------------------------------------------------------------------
(* RoutineDecryption                                                         *)

TakeToDecrypt(d) ==
  /\ decryptor[d] = Nil /\ decryption # <<>>
  /\ decryptor' = [decryptor EXCEPT ![d] = Head(decryption)]
  /\ decryption' = Tail(decryption)
  /\ UNCHANGED <<pool, receiver, bindOpen, box, free, inbound, handshake, sequential, running, control,
                 filter, buffers, delivered, stops>>

\* Every element is opened; one that does not decrypt loses its packet.  Then the lock is given up.
Opened(elems) == [i \in DOMAIN elems |-> [elems[i] EXCEPT !.open = elems[i].counter # Forged]]

Decrypt(d) ==
  /\ decryptor[d] # Nil
  /\ box' = [box EXCEPT ![decryptor[d]] = [elems |-> Opened(@.elems), locked |-> FALSE]]
  /\ decryptor' = [decryptor EXCEPT ![d] = Nil]
  /\ UNCHANGED <<pool, receiver, bindOpen, free, inbound, decryption, handshake, sequential, running,
                 control, filter, buffers, delivered, stops>>

\* A handshake worker takes a message and, done with it, puts the buffer back.
RoutineHandshake ==
  /\ handshake > 0
  /\ handshake' = handshake - 1 /\ buffers' = buffers - 1
  /\ UNCHANGED <<pool, receiver, bindOpen, box, free, inbound, decryption, decryptor, sequential, running,
                 control, filter, delivered, stops>>

-----------------------------------------------------------------------------
(* RoutineSequentialReceiver                                                 *)

TakeInbound(p) ==
  /\ sequential[p].pc = "waiting" /\ inbound[p] # <<>>
  /\ LET b == Head(inbound[p]) IN
     sequential' = [sequential EXCEPT ![p] = [pc |-> IF b = Nil THEN "ended" ELSE "taken", taken |-> b]]
  /\ inbound' = [inbound EXCEPT ![p] = Tail(@)]
  /\ UNCHANGED <<pool, receiver, bindOpen, box, free, decryption, handshake, decryptor, running, control,
                 filter, buffers, delivered, stops>>

\* Mutant: the replay filter is asked for the container once, before its elements.
Accepted_Batch(elems, f, refused) ==
  [filter |-> f \cup {e.counter : e \in {x \in Range(elems) : x.open}},
   out |-> SelectSeq(elems, LAMBDA e : e.open /\ e.counter \notin f /\ e \notin refused)]

\* ValidateCounter, on the elements in turn: one whose counter was accepted before is passed over.
\* Of the others, keepalives and those with a bad length or source address are not written.
Accepted(elems, f, refused) ==
  FoldLeft(LAMBDA acc, e :
             IF e.open /\ e.counter \notin acc.filter
             THEN [filter |-> acc.filter \cup {e.counter},
                   out |-> IF e \in refused THEN acc.out ELSE Append(acc.out, e)]
             ELSE acc,
           [filter |-> f, out |-> <<>>], elems)

\* The container's lock is free: its valid packets go to the TUN, its buffers and itself to the pools.
Deliver(p) ==
  /\ sequential[p].pc = "taken"
  /\ LET b == sequential[p].taken IN
     /\ ~box[b].locked
     /\ \E refused \in SUBSET Range(box[b].elems) :
          LET acc == Accepted(box[b].elems, filter[p], refused) IN
          /\ filter' = [filter EXCEPT ![p] = acc.filter]
          /\ delivered' = [delivered EXCEPT ![p] = @ \o acc.out]
     /\ PutAll(b)
  /\ sequential' = [sequential EXCEPT ![p] = [pc |-> "waiting", taken |-> Nil]]
  /\ UNCHANGED <<pool, receiver, bindOpen, inbound, decryption, handshake, decryptor, running, control, stops>>

-----------------------------------------------------------------------------
(* Stop and Start of a peer; the bind.                                       *)

Stop(p) ==
  /\ running[p] /\ control[p] = "none" /\ stops < MaxStop
  /\ running' = [running EXCEPT ![p] = FALSE]
  /\ control' = [control EXCEPT ![p] = "signal"]
  /\ stops' = stops + 1
  /\ UNCHANGED <<pool, receiver, bindOpen, box, free, inbound, decryption, handshake, decryptor, sequential,
                 filter, buffers, delivered>>

StopSignal(p) ==
  /\ control[p] = "signal" /\ Len(inbound[p]) < InboundSize
  /\ inbound' = [inbound EXCEPT ![p] = Append(@, Nil)]
  /\ control' = [control EXCEPT ![p] = "wait"]
  /\ UNCHANGED <<pool, receiver, bindOpen, box, free, decryption, handshake, decryptor, sequential, running,
                 filter, buffers, delivered, stops>>

StopWait(p) ==
  /\ control[p] = "wait" /\ sequential[p].pc = "ended"
  /\ control' = [control EXCEPT ![p] = "stopped"]
  /\ UNCHANGED <<pool, receiver, bindOpen, box, free, inbound, decryption, handshake, decryptor, sequential,
                 running, filter, buffers, delivered, stops>>

\* Mutant: the buffers of what is in the queue are not put back.
StartFlush_Forgets(p) ==
  /\ control[p] = "stopped" /\ inbound[p] # <<>>
  /\ inbound' = [inbound EXCEPT ![p] = Tail(@)]
  /\ UNCHANGED <<pool, receiver, bindOpen, box, free, decryption, handshake, decryptor, sequential, running,
                 control, filter, buffers, delivered, stops>>

\* Mutant: the flush does not wait for the container's lock.
StartFlush_NoLock(p) ==
  /\ control[p] = "stopped" /\ inbound[p] # <<>>
  /\ PutAll(Head(inbound[p]))
  /\ inbound' = [inbound EXCEPT ![p] = Tail(@)]
  /\ UNCHANGED <<pool, receiver, bindOpen, decryption, handshake, decryptor, sequential, running, control,
                 filter, delivered, stops>>

\* Start takes what a late receive routine left in the queue, waiting for its lock, one by one.
StartFlush(p) ==
  /\ control[p] = "stopped" /\ inbound[p] # <<>>
  /\ LET b == Head(inbound[p]) IN ~box[b].locked /\ PutAll(b)
  /\ inbound' = [inbound EXCEPT ![p] = Tail(@)]
  /\ UNCHANGED <<pool, receiver, bindOpen, decryption, handshake, decryptor, sequential, running, control,
                 filter, delivered, stops>>

\* The queue is found empty: the routines start, and the peer runs.
StartRuns(p) ==
  /\ control[p] = "stopped" /\ inbound[p] = <<>>
  /\ sequential' = [sequential EXCEPT ![p].pc = "waiting"]
  /\ running' = [running EXCEPT ![p] = TRUE]
  /\ control' = [control EXCEPT ![p] = "none"]
  /\ UNCHANGED <<pool, receiver, bindOpen, box, free, inbound, decryption, handshake, decryptor, filter,
                 buffers, delivered, stops>>

\* closeBindLocked closes the bind and waits for the routines; BindUpdate then opens it anew.
BindClose ==
  /\ bindOpen
  /\ bindOpen' = FALSE
  /\ UNCHANGED <<pool, receiver, box, free, inbound, decryption, handshake, decryptor, sequential, running,
                 control, filter, buffers, delivered, stops>>

BindUpdate ==
  /\ ~bindOpen /\ \A r \in Receiver : receiver[r].pc = "ended"
  /\ MaxBuffer = 0 \/ buffers + Cardinality(Receiver) * MaxBatch <= MaxBuffer
  /\ bindOpen' = TRUE
  /\ buffers' = buffers + Cardinality(Receiver) * MaxBatch
  /\ receiver' = [r \in Receiver |-> [InitReceiver EXCEPT !.seen = receiver[r].seen]]
  /\ UNCHANGED <<pool, box, free, inbound, decryption, handshake, decryptor, sequential, running, control,
                 filter, delivered, stops>>

-----------------------------------------------------------------------------
Init ==
  /\ pool \in Pools
  /\ receiver = [r \in Receiver |-> InitReceiver] /\ bindOpen = TRUE
  /\ box = [b \in Box |-> EmptyBox] /\ free = Box
  /\ inbound = [p \in Peer |-> <<>>] /\ decryption = <<>> /\ handshake = 0
  /\ decryptor = [d \in Decryptor |-> Nil]
  /\ sequential = [p \in Peer |-> [pc |-> "waiting", taken |-> Nil]]
  /\ running = [p \in Peer |-> TRUE] /\ control = [p \in Peer |-> "none"]
  /\ filter = [p \in Peer |-> {}] /\ delivered = [p \in Peer |-> <<>>]
  /\ buffers = Cardinality(Receiver) * MaxBatch /\ stops = 0

Routine(r) == HandlePacket(r) \/ GetMessageBuffer(r) \/ Dispatch(r) \/ SendInbound(r) \/ SendDecryption(r) \/ RecvClosed(r)

Worker(d) == TakeToDecrypt(d) \/ Decrypt(d)

Next ==
  \/ \E r \in Receiver : Recv(r) \/ RecvFails(r) \/ Routine(r)
  \/ \E d \in Decryptor : Worker(d)
  \/ \E p \in Peer : \/ TakeInbound(p) \/ Deliver(p)
                     \/ Stop(p) \/ StopSignal(p) \/ StopWait(p) \/ StartFlush(p) \/ StartRuns(p)
  \/ RoutineHandshake \/ BindClose \/ BindUpdate

\* Goroutines that can run do run; nothing obliges packets to come, peers to stop or start.
Fairness ==
  /\ \A r \in Receiver : WF_vars(Routine(r))
  /\ \A d \in Decryptor : WF_vars(Worker(d))
  /\ WF_vars(RoutineHandshake)
  /\ \A p \in Peer : WF_vars(TakeInbound(p) \/ Deliver(p)) /\ WF_vars(StopSignal(p) \/ StopWait(p))

Spec == Init /\ [][Next]_vars /\ Fairness

-----------------------------------------------------------------------------
\* What reaches the TUN was decrypted, no counter twice, and in the order its routine received it:
\* the container's lock holds the sequential receiver back until its decryption worker is done, and
\* workers that finish out of order do not reorder packets.
DeliveredSound ==
  \A p \in Peer : \A i, j \in DOMAIN delivered[p] :
    /\ delivered[p][i].counter # Forged
    /\ i < j => /\ delivered[p][i].counter # delivered[p][j].counter
                /\ delivered[p][i].from = delivered[p][j].from => delivered[p][i].seq < delivered[p][j].seq

\* Where a container is: held by a receive routine, in a queue, taken.
Holders(b) ==
    Cardinality({r \in Receiver : \E p \in DOMAIN receiver[r].elemsByPeer :
                    receiver[r].elemsByPeer[p] = b /\ ~(receiver[r].pc = "decryption" /\ receiver[r].peer = p)})
  + Cardinality({<<p, i>> \in Peer \X (1..InboundSize) : i <= Len(inbound[p]) /\ inbound[p][i] = b})
  + Cardinality({p \in Peer : sequential[p].taken = b})
  = IF b \in free THEN 0 ELSE 1

\* Buffers are neither lost nor returned twice, however Stop, Start and the receive routines
\* interleave: the pool's count is that of the routines' batch slots and of the elements in flight,
\* and each container out of the pool is in one place.
BuffersAccounted ==
  /\ buffers = MaxBatch * Cardinality({r \in Receiver : receiver[r].pc # "ended"})
               - Cardinality({r \in Receiver : receiver[r].pc = "buffer"})
               + FoldFunction(LAMBDA e, n : Len(e.elems) + n, 0, box) + handshake
  /\ \A b \in Box : Holders(b)

\* No decryption worker has, or will get, a container that was put back: it would open the packets of
\* the container's next user and unlock it under them.
PutBackDone == free \cap (Range(decryption) \cup Range(decryptor)) = {}

\* The close of the bind ends every receive routine, though it may be waiting for room in the queues of
\* a stopping peer or for a buffer of the pool.
ReceiversEnd == \A r \in Receiver : ~bindOpen ~> (receiver[r].pc = "ended" \/ bindOpen)
==============================================================================
