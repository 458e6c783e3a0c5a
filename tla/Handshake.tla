------------------------------ MODULE Handshake ------------------------------
(***************************************************************************)
(* The Noise_IKpsk2 handshake of the device package, the index table it    *)
(* shares with the transport path, and the rotation of the three keypair   *)
(* slots (previous, current, next) of a peer.                              *)
(*                                                                         *)
(* An element of Peer is one Peer object: it lives on DeviceOf[q] and      *)
(* stands for a remote device, whose own Peer object for us is Mirror[q].  *)
(* An element of Worker is one RoutineHandshake goroutine of HostOf[w].    *)
(*                                                                         *)
(* Messages stay in their set once sent, so every message may be lost,     *)
(* delayed, reordered or delivered again.  Elapsed time is not kept: a     *)
(* test on it (rate limit, flood, key age, expiry) may go either way, so   *)
(* the step behind it is simply possible or not taken.  A DH transcript is *)
(* its two ephemeral keys; a message opens exactly when both ends hold the *)
(* same transcript.                                                        *)
(***************************************************************************)
EXTENDS Naturals

CONSTANTS Device, Peer, DeviceOf, Mirror, Worker, HostOf,
          Index,        \* receiver indices (uint32), ZeroIndex among them
          ZeroIndex,
          Nil,          \* a nil pointer
          MaxEphemeral, \* bound on the ephemeral keys ever generated
          MaxTimestamp, \* bound on the TAI64N timestamps
          MaxReset      \* bound on stops, key expirations and key zeroings

ASSUME TopologyAssumption ==
  /\ DeviceOf \in [Peer -> Device]
  /\ Mirror \in [Peer -> Peer]
  /\ \A q \in Peer : Mirror[q] # q /\ Mirror[Mirror[q]] = q
  /\ HostOf \in [Worker -> Device]

ASSUME BoundAssumption ==
  /\ ZeroIndex \in Index
  /\ MaxEphemeral \in Nat
  /\ MaxTimestamp \in Nat
  /\ MaxReset \in Nat

Ephemeral == 0..MaxEphemeral          \* 0 is the zeroed key
Timestamp == 0..MaxTimestamp          \* 0 is the timestamp never received

\* The transcript both ends mix: the ephemerals of initiator and responder.
Transcript == [ie : Ephemeral, re : Ephemeral]
ZeroTranscript == [ie |-> 0, re |-> 0]

Keypair == [key : Transcript, isInitiator : BOOLEAN,
            localIndex : Index, remoteIndex : Index]

ASSUME NilAssumption == Nil \notin Keypair /\ Nil \notin Peer

\* IndexTableEntry: the handshake pointer is set exactly when keypair is nil.
IndexTableEntry == [peer : Peer, keypair : Keypair \cup {Nil}]

ASSUME NilEntryAssumption == Nil \notin IndexTableEntry

HandshakeState == {"Zeroed", "InitiationCreated", "InitiationConsumed",
                   "ResponseCreated", "ResponseConsumed"}

HandshakeRecord == [state : HandshakeState, transcript : Transcript,
                    localEphemeral : Ephemeral,
                    localIndex : Index, remoteIndex : Index,
                    lastTimestamp : Timestamp]

Keypairs == [previous : Keypair \cup {Nil}, current : Keypair \cup {Nil},
             next : Keypair \cup {Nil}]

MessageInitiation == [peer : Peer, sender : Index, ephemeral : Ephemeral,
                      timestamp : Timestamp]
MessageResponse == [peer : Peer, sender : Index, receiver : Index,
                    key : Transcript]
MessageTransport == [peer : Peer, receiver : Index, key : Transcript,
                     isInitiator : BOOLEAN]

Message == MessageInitiation \cup MessageResponse

\* Where a handshake worker is between two critical sections.
WorkerStep == {"idle", "initiationChecked", "initiationConsumed",
               "responseCreated", "responseChecked", "responseConsumed"}

VARIABLES
  handshake,    \* peer.handshake
  keypairs,     \* peer.keypairs
  spent,        \* keypairs whose sendNonce was set to RejectAfterMessages
  table,        \* device.indexTable
  worker,       \* the RoutineHandshake goroutines
  inbound,      \* keypairs of decrypted packets in peer.queue.inbound
  running,      \* "running", "stopping" or "stopped"
  zeroing,      \* who is inside ZeroAndFlushAll: "none", "timer", "stop"
  expiring,     \* peers inside ExpireCurrentKeypairs
  initiations, responses, transports,   \* messages ever sent
  ephemerals,   \* ephemeral keys generated so far
  resets        \* stops, expirations and zeroings so far

local == <<spent, inbound, running, zeroing, expiring, resets>>
net == <<initiations, responses, transports>>
vars == <<handshake, keypairs, table, worker, ephemerals, local, net>>

ZeroHandshake == [state |-> "Zeroed", transcript |-> ZeroTranscript,
                  localEphemeral |-> 0, localIndex |-> ZeroIndex,
                  remoteIndex |-> ZeroIndex, lastTimestamp |-> 0]
NoKeypairs == [previous |-> Nil, current |-> Nil, next |-> Nil]
Idle == [pc |-> "idle", peer |-> Nil, msg |-> Nil]

Init ==
  /\ handshake = [q \in Peer |-> ZeroHandshake]
  /\ keypairs = [q \in Peer |-> NoKeypairs]
  /\ table = [d \in Device |-> [i \in Index |-> Nil]]
  /\ worker = [w \in Worker |-> Idle]
  /\ spent = [q \in Peer |-> {}]
  /\ inbound = [q \in Peer |-> {}]
  /\ running = [q \in Peer |-> "running"]
  /\ zeroing = [q \in Peer |-> "none"]
  /\ expiring = {}
  /\ initiations = {} /\ responses = {} /\ transports = {}
  /\ ephemerals = 0
  /\ resets = 0

-----------------------------------------------------------------------------
(* The index table of one device, and the keypair slots. *)

Delete(t, i) == [t EXCEPT ![i] = Nil]

DeleteKeypair(t, k) == IF k = Nil THEN t ELSE Delete(t, k.localIndex)

SwapIndexForKeypair(t, i, k) ==
  IF t[i] = Nil THEN t ELSE [t EXCEPT ![i] = [peer |-> t[i].peer, keypair |-> k]]

\* NewIndexForHandshake draws indices until one is not in the table.
FreeIndex(t, i) == t[i] = Nil
NewIndexForHandshake(t, i, q) == [t EXCEPT ![i] = [peer |-> q, keypair |-> Nil]]

\* The keypairs a peer holds.
Slots(q) == {keypairs[q].previous, keypairs[q].current, keypairs[q].next} \ {Nil}

Clear(h) == [h EXCEPT !.state = "Zeroed", !.transcript = ZeroTranscript,
                      !.localEphemeral = 0, !.localIndex = ZeroIndex]

\* A message of ours was created with a new ephemeral and a new index.
Created(h, state, key, e, i) ==
  [h EXCEPT !.state = state, !.transcript = key,
            !.localEphemeral = e, !.localIndex = i]

-----------------------------------------------------------------------------
(* SendHandshakeInitiation: called by timers and by the sending path. *)

CreateMessageInitiation(q, i, ts) ==
  LET freed == Delete(table[DeviceOf[q]], handshake[q].localIndex)
      e == ephemerals + 1
  IN /\ ephemerals < MaxEphemeral
     /\ FreeIndex(freed, i)
     /\ ephemerals' = e
     /\ table' = [table EXCEPT ![DeviceOf[q]] = NewIndexForHandshake(freed, i, q)]
     /\ handshake' = [handshake EXCEPT ![q] =
                        Created(@, "InitiationCreated", [ie |-> e, re |-> 0], e, i)]
     /\ initiations' = initiations \cup
          {[peer |-> q, sender |-> i, ephemeral |-> e, timestamp |-> ts]}
     /\ UNCHANGED <<keypairs, worker, local, responses, transports>>

-----------------------------------------------------------------------------
(* RoutineHandshake on an initiation: ConsumeMessageInitiation checks under *)
(* the read lock and updates under the write lock; CreateMessageResponse    *)
(* and BeginSymmetricSession each take the lock again.                      *)

Replayed_Never(h, m) == FALSE
Replayed(h, m) == m.timestamp <= h.lastTimestamp

CheckInitiation(w, m) ==
  LET q == Mirror[m.peer]
  IN /\ worker[w].pc = "idle"
     /\ DeviceOf[q] = HostOf[w]
     /\ running[q] = "running"
     /\ ~Replayed(handshake[q], m)
     /\ worker' = [worker EXCEPT ![w] =
                     [pc |-> "initiationChecked", peer |-> q, msg |-> m]]
     /\ UNCHANGED <<handshake, keypairs, table, ephemerals, local, net>>

ConsumedInitiation(h, m) ==
  [h EXCEPT !.state = "InitiationConsumed",
            !.transcript = [ie |-> m.ephemeral, re |-> 0],
            !.remoteIndex = m.sender,
            !.lastTimestamp = IF m.timestamp > @ THEN m.timestamp ELSE @]

ConsumeMessageInitiation(w) ==
  LET q == worker[w].peer
      m == worker[w].msg
  IN /\ worker[w].pc = "initiationChecked"
     /\ handshake' = [handshake EXCEPT ![q] = ConsumedInitiation(@, m)]
     /\ worker' = [worker EXCEPT ![w] =
                     [pc |-> "initiationConsumed", peer |-> q, msg |-> Nil]]
     /\ UNCHANGED <<keypairs, table, ephemerals, local, net>>

CreateMessageResponse(w, i) ==
  LET q == worker[w].peer
      freed == Delete(table[DeviceOf[q]], handshake[q].localIndex)
      e == ephemerals + 1
      key == [ie |-> handshake[q].transcript.ie, re |-> e]
  IN /\ worker[w].pc = "initiationConsumed"
     /\ handshake[q].state = "InitiationConsumed"
     /\ ephemerals < MaxEphemeral
     /\ FreeIndex(freed, i)
     /\ ephemerals' = e
     /\ table' = [table EXCEPT ![DeviceOf[q]] = NewIndexForHandshake(freed, i, q)]
     /\ handshake' = [handshake EXCEPT ![q] =
                        Created(@, "ResponseCreated", key, e, i)]
     /\ worker' = [worker EXCEPT ![w] =
          [pc |-> "responseCreated", peer |-> q,
           msg |-> [peer |-> q, sender |-> i,
                    receiver |-> handshake[q].remoteIndex, key |-> key]]]
     /\ UNCHANGED <<keypairs, local, net>>

\* The handshake moved on since the initiation was consumed.
CreateMessageResponseFails(w) ==
  /\ worker[w].pc = "initiationConsumed"
  /\ handshake[worker[w].peer].state # "InitiationConsumed"
  /\ worker' = [worker EXCEPT ![w] = Idle]
  /\ UNCHANGED <<handshake, keypairs, table, ephemerals, local, net>>

-----------------------------------------------------------------------------
(* RoutineHandshake on a response. *)

CheckResponse(w, m) ==
  LET d == DeviceOf[Mirror[m.peer]]
      e == table[d][m.receiver]
  IN /\ worker[w].pc = "idle"
     /\ HostOf[w] = d
     /\ e # Nil /\ e.keypair = Nil
     /\ handshake[e.peer].state = "InitiationCreated"
     /\ e.peer = Mirror[m.peer] /\ m.key.ie = handshake[e.peer].localEphemeral
     /\ worker' = [worker EXCEPT ![w] =
                     [pc |-> "responseChecked", peer |-> e.peer, msg |-> m]]
     /\ UNCHANGED <<handshake, keypairs, table, ephemerals, local, net>>

\* Written without looking at the state again.
ConsumedResponse_KeepsRemoteIndex(h, m) ==
  [h EXCEPT !.state = "ResponseConsumed", !.transcript = m.key]
ConsumedResponse(h, m) ==
  [h EXCEPT !.state = "ResponseConsumed", !.transcript = m.key,
            !.remoteIndex = m.sender]

ConsumeMessageResponse(w) ==
  LET q == worker[w].peer
      m == worker[w].msg
  IN /\ worker[w].pc = "responseChecked"
     /\ handshake' = [handshake EXCEPT ![q] = ConsumedResponse(@, m)]
     /\ worker' = [worker EXCEPT ![w] =
                     [pc |-> "responseConsumed", peer |-> q, msg |-> Nil]]
     /\ UNCHANGED <<keypairs, table, ephemerals, local, net>>

-----------------------------------------------------------------------------
(* BeginSymmetricSession: the keypair comes from whatever the handshake     *)
(* holds when its lock is taken, and the slots rotate.                      *)

DerivableState == {"ResponseConsumed", "ResponseCreated"}

NewKeypair(q) == [key |-> handshake[q].transcript,
                  isInitiator |-> handshake[q].state = "ResponseConsumed",
                  localIndex |-> handshake[q].localIndex,
                  remoteIndex |-> handshake[q].remoteIndex]

RotatedKeypairs_Unconfirmed(s, k) ==
  [previous |-> s.current, current |-> k, next |-> Nil]
RotatedKeypairs(s, k) ==
  IF k.isInitiator
  THEN [previous |-> IF s.next # Nil THEN s.next ELSE s.current,
        current |-> k, next |-> Nil]
  ELSE [previous |-> Nil, current |-> s.current, next |-> k]

\* The keypair that is dropped beside previous.
DroppedKeypair_ForgetsCurrent(s, k) == IF k.isInitiator THEN Nil ELSE s.next
DroppedKeypair(s, k) ==
  IF k.isInitiator THEN IF s.next # Nil THEN s.current ELSE Nil ELSE s.next

RotatedTable(t, s, k) ==
  DeleteKeypair(DeleteKeypair(t, DroppedKeypair(s, k)), s.previous)

BeginSymmetricSession(q) ==
  LET d == DeviceOf[q]
      k == NewKeypair(q)
      swapped == SwapIndexForKeypair(table[d], k.localIndex, k)
  IN /\ handshake[q].state \in DerivableState
     /\ handshake' = [handshake EXCEPT ![q] = Clear(@)]
     /\ keypairs' = [keypairs EXCEPT ![q] = RotatedKeypairs(@, k)]
     /\ table' = [table EXCEPT ![d] = RotatedTable(swapped, keypairs[q], k)]

\* The initiator derives the keypair of the response it consumed.
DeriveAfterResponse(w) ==
  /\ worker[w].pc = "responseConsumed"
  /\ BeginSymmetricSession(worker[w].peer)
  /\ worker' = [worker EXCEPT ![w] = Idle]
  /\ UNCHANGED <<ephemerals, local, net>>

\* SendHandshakeResponse: the responder derives first, then sends.
SendHandshakeResponse(w) ==
  /\ worker[w].pc = "responseCreated"
  /\ BeginSymmetricSession(worker[w].peer)
  /\ responses' = responses \cup {worker[w].msg}
  /\ worker' = [worker EXCEPT ![w] = Idle]
  /\ UNCHANGED <<ephemerals, local, initiations, transports>>

\* "invalid state for keypair derivation": nothing is derived, nothing sent.
BeginSymmetricSessionFails(w) ==
  /\ worker[w].pc \in {"responseCreated", "responseConsumed"}
  /\ handshake[worker[w].peer].state \notin DerivableState
  /\ worker' = [worker EXCEPT ![w] = Idle]
  /\ UNCHANGED <<handshake, keypairs, table, ephemerals, local, net>>

-----------------------------------------------------------------------------
(* The transport path, as far as it turns keypairs over. *)

SendTransport(q) ==
  LET k == keypairs[q].current
  IN /\ k # Nil /\ k \notin spent[q]
     /\ transports' = transports \cup
          {[peer |-> q, receiver |-> k.remoteIndex, key |-> k.key,
            isInitiator |-> k.isInitiator]}
     /\ UNCHANGED <<handshake, keypairs, table, worker, ephemerals, local,
                    initiations, responses>>

\* RoutineReceiveIncoming finds the keypair by index, RoutineDecryption opens
\* the packet with it, and it waits in the queue of the entry's peer.
ReceiveTransport(m) ==
  LET e == table[DeviceOf[Mirror[m.peer]]][m.receiver]
  IN /\ e # Nil /\ e.keypair # Nil
     /\ e.keypair.key = m.key /\ e.keypair.isInitiator # m.isInitiator
     /\ running[e.peer] = "running"
     /\ inbound' = [inbound EXCEPT ![e.peer] = @ \cup {e.keypair}]
     /\ UNCHANGED <<handshake, keypairs, table, worker, ephemerals, spent,
                    running, zeroing, expiring, resets, net>>

PromotedKeypairs_KeepsNext(s) ==
  [previous |-> s.current, current |-> s.next, next |-> s.next]
PromotedKeypairs(s) == [previous |-> s.current, current |-> s.next, next |-> Nil]

\* RoutineSequentialReceiver: the first packet under the next keypair makes
\* it current.
ReceivedWithKeypair(q, k) ==
  /\ running[q] # "stopped"
  /\ inbound' = [inbound EXCEPT ![q] = @ \ {k}]
  /\ IF keypairs[q].next = k
     THEN /\ table' = [table EXCEPT ![DeviceOf[q]] =
                         DeleteKeypair(@, keypairs[q].previous)]
          /\ keypairs' = [keypairs EXCEPT ![q] = PromotedKeypairs(@)]
     ELSE UNCHANGED <<table, keypairs>>
  /\ UNCHANGED <<handshake, worker, ephemerals, spent, running, zeroing,
                 expiring, resets, net>>

-----------------------------------------------------------------------------
(* Stopping and starting a peer, zeroing and expiring its keys. *)

\* Stop: new packets are refused; the sequential receiver drains its queue.
Stop(q) ==
  /\ resets < MaxReset
  /\ running[q] = "running"
  /\ running' = [running EXCEPT ![q] = "stopping"]
  /\ resets' = resets + 1
  /\ UNCHANGED <<handshake, keypairs, table, worker, ephemerals, spent,
                 inbound, zeroing, expiring, net>>

ZeroedTable(t, s) ==
  DeleteKeypair(DeleteKeypair(DeleteKeypair(t, s.previous), s.current), s.next)

\* ZeroAndFlushAll, called by Stop and by the zero-key-material timer, first
\* drops the keypairs and then, under the other lock, the handshake.
ZeroKeypairs(q, who) ==
  /\ zeroing[q] = "none"
  /\ \/ who = "timer" /\ running[q] = "running" /\ resets < MaxReset
        /\ resets' = resets + 1
     \/ who = "stop" /\ running[q] = "stopping" /\ inbound[q] = {}
        /\ UNCHANGED resets
  /\ zeroing' = [zeroing EXCEPT ![q] = who]
  /\ table' = [table EXCEPT ![DeviceOf[q]] = ZeroedTable(@, keypairs[q])]
  /\ keypairs' = [keypairs EXCEPT ![q] = NoKeypairs]
  /\ UNCHANGED <<handshake, worker, ephemerals, spent, inbound, running,
                 expiring, net>>

ZeroHandshakeState(q) ==
  /\ zeroing[q] # "none"
  /\ table' = [table EXCEPT ![DeviceOf[q]] = Delete(@, handshake[q].localIndex)]
  /\ handshake' = [handshake EXCEPT ![q] = Clear(@)]
  /\ running' = [running EXCEPT ![q] = IF zeroing[q] = "stop" THEN "stopped" ELSE @]
  /\ zeroing' = [zeroing EXCEPT ![q] = "none"]
  /\ UNCHANGED <<keypairs, worker, ephemerals, spent, inbound, expiring,
                 resets, net>>

\* Start flushes what reached the queue after the receiver had gone.
Start(q) ==
  /\ running[q] = "stopped"
  /\ running' = [running EXCEPT ![q] = "running"]
  /\ inbound' = [inbound EXCEPT ![q] = {}]
  /\ UNCHANGED <<handshake, keypairs, table, worker, ephemerals, spent,
                 zeroing, expiring, resets, net>>

\* ExpireCurrentKeypairs, for every peer left by SetPrivateKey: the handshake
\* under its lock, then the nonces under the keypairs lock.
ExpireHandshake(q) ==
  /\ resets < MaxReset
  /\ q \notin expiring
  /\ resets' = resets + 1
  /\ expiring' = expiring \cup {q}
  /\ table' = [table EXCEPT ![DeviceOf[q]] = Delete(@, handshake[q].localIndex)]
  /\ handshake' = [handshake EXCEPT ![q] = Clear(@)]
  /\ UNCHANGED <<keypairs, worker, ephemerals, spent, inbound, running,
                 zeroing, net>>

ExpireNonces(q) ==
  /\ q \in expiring
  /\ expiring' = expiring \ {q}
  /\ spent' = [spent EXCEPT ![q] =
                 @ \cup ({keypairs[q].current, keypairs[q].next} \ {Nil})]
  /\ UNCHANGED <<handshake, keypairs, table, worker, ephemerals, inbound,
                 running, zeroing, resets, net>>

-----------------------------------------------------------------------------
WorkerNext(w) ==
  \/ \E m \in initiations : CheckInitiation(w, m)
  \/ ConsumeMessageInitiation(w)
  \/ \E i \in Index : CreateMessageResponse(w, i)
  \/ CreateMessageResponseFails(w)
  \/ \E m \in responses : CheckResponse(w, m)
  \/ ConsumeMessageResponse(w)
  \/ DeriveAfterResponse(w)
  \/ SendHandshakeResponse(w)
  \/ BeginSymmetricSessionFails(w)

PeerNext(q) ==
  \/ \E i \in Index, ts \in Timestamp \ {0} : CreateMessageInitiation(q, i, ts)
  \/ SendTransport(q)
  \/ \E k \in inbound[q] : ReceivedWithKeypair(q, k)
  \/ Stop(q)
  \/ \E who \in {"timer", "stop"} : ZeroKeypairs(q, who)
  \/ ZeroHandshakeState(q)
  \/ Start(q)
  \/ ExpireHandshake(q)
  \/ ExpireNonces(q)

Next ==
  \/ \E w \in Worker : WorkerNext(w)
  \/ \E q \in Peer : PeerNext(q)
  \/ \E m \in transports : ReceiveTransport(m)

Spec == Init /\ [][Next]_vars

-----------------------------------------------------------------------------
(* Properties. *)

\* Every variable keeps its type.
TypeOK ==
  /\ handshake \in [Peer -> HandshakeRecord]
  /\ keypairs \in [Peer -> Keypairs]
  /\ table \in [Device -> [Index -> IndexTableEntry \cup {Nil}]]
  /\ worker \in [Worker -> [pc : WorkerStep, peer : Peer \cup {Nil},
                            msg : Message \cup {Nil}]]
  /\ spent \in [Peer -> SUBSET Keypair]
  /\ inbound \in [Peer -> SUBSET Keypair]
  /\ running \in [Peer -> {"running", "stopping", "stopped"}]
  /\ zeroing \in [Peer -> {"none", "timer", "stop"}]
  /\ expiring \subseteq Peer
  /\ initiations \subseteq MessageInitiation
  /\ responses \subseteq MessageResponse
  /\ transports \subseteq MessageTransport
  /\ ephemerals \in Ephemeral
  /\ resets \in 0..MaxReset

\* Entry e, found at index i of device d, belongs to something of its peer.
InUse(d, i, e) ==
  /\ DeviceOf[e.peer] = d
  /\ e.keypair = Nil => handshake[e.peer].localIndex = i
  /\ e.keypair # Nil => e.keypair \in Slots(e.peer) /\ e.keypair.localIndex = i

\* Index i of the device of q leads to keypair k of q, or to its handshake.
LeadsTo(i, q, k) ==
  LET e == table[DeviceOf[q]][i] IN e # Nil /\ e.peer = q /\ e.keypair = k

\* An index in the table is in use: a handshake entry is the local index of
\* that peer's handshake, a keypair entry a keypair still in a slot of that
\* peer.  No rotation, zeroing or expiry leaves an entry behind.  Index 0 is
\* left out: the code also uses it for "no index".
IndexTableSound ==
  \A d \in Device : \A i \in Index \ {ZeroIndex} :
    table[d][i] # Nil => InUse(d, i, table[d][i])

\* What a peer holds can be found: the local index of its handshake leads to
\* the handshake, and the local index of each keypair it keeps leads to that
\* keypair, so a packet for it is never dropped for want of an index.
IndexTableComplete ==
  \A q \in Peer :
    /\ handshake[q].localIndex # ZeroIndex => LeadsTo(handshake[q].localIndex, q, Nil)
    /\ \A k \in Slots(q) : k.localIndex # ZeroIndex => LeadsTo(k.localIndex, q, k)

\* A responder never sends under a keypair before the initiator has shown,
\* by a transport message under it, that it derived the same one.
KeyConfirmed ==
  \A q \in Peer :
    LET k == keypairs[q].current
    IN k # Nil /\ ~k.isInitiator =>
         \E t \in transports : t.key = k.key /\ t.isInitiator

\* Every keypair a peer holds comes from a message of that very peer, and
\* sends to the index that message named, whatever the workers interleave.
SessionFromPeer ==
  \A q \in Peer : \A k \in Slots(q) :
    IF k.isInitiator
    THEN \E m \in responses :
           m.peer = Mirror[q] /\ m.key = k.key /\ m.sender = k.remoteIndex
    ELSE \E m \in initiations :
           m.peer = Mirror[q] /\ m.ephemeral = k.key.ie /\ m.sender = k.remoteIndex

\* With one handshake worker, no session key is ever held in two slots: a
\* response delivered twice is not used for a second keypair.
DistinctSessionKeys ==
  \A q \in Peer :
    LET s == keypairs[q]
    IN /\ s.current # Nil /\ s.previous # Nil => s.current.key # s.previous.key
       /\ s.current # Nil /\ s.next # Nil => s.current.key # s.next.key
       /\ s.previous # Nil /\ s.next # Nil => s.previous.key # s.next.key

\* The timestamp of the last initiation never goes back, although it is
\* compared under the read lock and stored under the write lock.
LastTimestampMonotonic ==
  [][\A q \in Peer :
       handshake'[q].lastTimestamp >= handshake[q].lastTimestamp]_vars

\* With one handshake worker, an initiation that changes the handshake is
\* newer than every one consumed before: none is consumed twice.
InitiationConsumedOnce ==
  [][\A q \in Peer :
       handshake'[q].state = "InitiationConsumed" /\ handshake'[q] # handshake[q]
         => handshake'[q].lastTimestamp > handshake[q].lastTimestamp]_vars

-----------------------------------------------------------------------------
(* What the proofs add to the properties to make them inductive. *)

\* A worker between two critical sections knows its peer and its message.
WorkerOK ==
  \A w \in Worker :
    LET v == worker[w]
    IN /\ v.pc # "idle" => v.peer \in Peer
       /\ v.pc = "initiationChecked" =>
            v.msg \in initiations /\ Mirror[v.msg.peer] = v.peer
       /\ v.pc = "responseCreated" => v.msg \in MessageResponse
       /\ v.pc = "responseChecked" =>
            v.msg \in responses /\ Mirror[v.msg.peer] = v.peer

\* No two slots share a local index, so dropping one keypair cannot free the
\* index of another.
SlotIndicesDistinct ==
  \A q \in Peer :
    LET s == keypairs[q]
        Apart(k, l) == k # Nil /\ l # Nil /\ k.localIndex # ZeroIndex
                         => k.localIndex # l.localIndex
    IN Apart(s.previous, s.current) /\ Apart(s.previous, s.next)
         /\ Apart(s.current, s.next)

\* The index table inductive invariant.
IndexTableInv ==
  TypeOK /\ WorkerOK /\ IndexTableSound /\ IndexTableComplete
    /\ SlotIndicesDistinct

\* The handshake state remembers where its transcript and index came from.
HandshakeFromPeer ==
  \A q \in Peer :
    LET h == handshake[q]
    IN /\ h.state = "ResponseConsumed" =>
            \E m \in responses : m.peer = Mirror[q] /\ m.key = h.transcript
                                   /\ m.sender = h.remoteIndex
       /\ h.state \in {"InitiationConsumed", "ResponseCreated"} =>
            \E m \in initiations : m.peer = Mirror[q]
                                     /\ m.ephemeral = h.transcript.ie
                                     /\ m.sender = h.remoteIndex

\* A queued packet was sent under its keypair by the other end; the keypair
\* waiting in next is always one the peer derived as responder.
InboundSent ==
  /\ \A q \in Peer : \A k \in inbound[q] :
       ~k.isInitiator => \E t \in transports : t.key = k.key /\ t.isInitiator
  /\ \A q \in Peer : keypairs[q].next # Nil => ~keypairs[q].next.isInitiator

SessionInv ==
  TypeOK /\ WorkerOK /\ HandshakeFromPeer /\ SessionFromPeer
    /\ InboundSent /\ KeyConfirmed

\* One handshake worker for each device.
OneWorker == \A v, w \in Worker : HostOf[v] = HostOf[w] => v = w

\* A worker works for a peer of its own device, and an initiation it has
\* checked is newer than the last one stored.
WorkerAtHome ==
  \A w \in Worker :
    LET v == worker[w]
    IN /\ v.pc # "idle" => DeviceOf[v.peer] = HostOf[w]
       /\ v.pc = "initiationChecked" => ~Replayed(handshake[v.peer], v.msg)

InitiationInv == TypeOK /\ WorkerOK /\ WorkerAtHome

\* Transcript t has ephemerals among the first n generated.
Drawn(t, n) == t.ie \in 0..n /\ t.re \in 0..n

\* The responses sent, or created and waiting to be sent.
CreatedResponses ==
  responses \cup {worker[w].msg : w \in {v \in Worker : worker[v].pc = "responseCreated"}}

\* No transcript names an ephemeral that is yet to be generated.
KeysDrawn ==
  /\ \A q \in Peer : Drawn(handshake[q].transcript, ephemerals)
  /\ \A q \in Peer : \A k \in Slots(q) : Drawn(k.key, ephemerals)
  /\ \A m \in initiations : m.ephemeral \in 0..ephemerals
  /\ \A m \in CreatedResponses : Drawn(m.key, ephemerals)

\* A keypair of S was derived as initiator, or as responder, with ephemeral e.
InitiatedWith(S, e) == \E k \in S : k.isInitiator /\ k.key.ie = e
RespondedWith(S, e) == \E k \in S : ~k.isInitiator /\ k.key.re = e

\* A handshake, or a worker, that may still lead to a keypair holds an
\* ephemeral of its own that no keypair of the peer was made with.
EphemeralUnused ==
  /\ \A q \in Peer :
       LET h == handshake[q]
       IN /\ h.state = "InitiationCreated" => ~InitiatedWith(Slots(q), h.localEphemeral)
          /\ h.state = "ResponseConsumed" => ~InitiatedWith(Slots(q), h.transcript.ie)
          /\ h.state = "ResponseCreated" => ~RespondedWith(Slots(q), h.transcript.re)
  /\ \A w \in Worker :
       worker[w].pc = "responseChecked" =>
         ~InitiatedWith(Slots(worker[w].peer), worker[w].msg.key.ie)

\* An ephemeral a peer answered with is in the responses of that peer alone.
ResponderOwns ==
  \A m \in CreatedResponses, q \in Peer :
    LET h == handshake[q]
    IN /\ RespondedWith(Slots(q), m.key.re) => m.peer = q
       /\ h.state = "ResponseCreated" /\ h.transcript.re = m.key.re => m.peer = q

SessionKeysInv ==
  SessionInv /\ WorkerAtHome /\ KeysDrawn /\ EphemeralUnused /\ ResponderOwns
    /\ DistinctSessionKeys
=============================================================================
