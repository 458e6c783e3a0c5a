------------------------------ MODULE Outbound ------------------------------
(***************************************************************************)
(* The outbound flow of one peer (device/send.go): packets are staged, take *)
(* a nonce of the current keypair, are encrypted in parallel and sent in    *)
(* the order of the peer's outbound queue.  Several goroutines run          *)
(* SendStagedPackets at once: the TUN reader, the handshake workers, the    *)
(* sequential receiver and the timers.  A container of packets is in both   *)
(* queues and locked until it is encrypted.                                 *)
(*                                                                          *)
(* A packet is its place in the order of reading, a keepalive a negative    *)
(* number; the clock is the action Age.                                     *)
(***************************************************************************)
EXTENDS Integers, Sequences

CONSTANTS
  Caller,               \* goroutines that call SendStagedPackets
  Reader,               \* RoutineReadFromTUN, one of them
  Encryptor,            \* RoutineEncryption, one for each core
  StagedSize, OutboundSize, EncryptionSize,   \* the capacities of the channels
  RejectAfterMessages,
  MaxBatch,             \* bound on the packets of one read
  MaxPacket, MaxKeepalive, MaxKeypair, MaxStop \* bounds on what happens

ASSUME ReaderAssumption == Reader \in Caller
ASSUME BoundAssumption ==
  /\ RejectAfterMessages \in Nat /\ MaxKeypair \in Nat
  /\ MaxPacket \in Nat /\ MaxKeepalive \in Nat /\ MaxStop \in Nat

Keypair == 1..MaxKeypair
Packet == (-MaxKeepalive)..MaxPacket
NoKeypair == 0
Signal == <<>>          \* the nil that ends RoutineSequentialSender

VARIABLES
  staged,      \* peer.queue.staged: sequences of packets
  current,     \* peer.keypairs.current
  derived,     \* number of keypairs derived
  sendNonce,   \* of each keypair
  aged,        \* keypairs older than keychainExpireTime
  caller,      \* the calls of SendStagedPackets in progress
  outbound,    \* peer.queue.outbound
  encryption,  \* device.queue.encryption
  encryptor,   \* what each RoutineEncryption works on
  unlocked,    \* encrypted containers that the sequential sender has not taken
  sequential,  \* what RoutineSequentialSender works on
  running, stop, up,    \* peer.isRunning, the progress of Stop and Start, device.isUp
  assigned,    \* the elements that ever took a nonce
  wire,        \* the elements sent, in order
  counts       \* packets and keepalives made, and stops, for the bounds

vars == <<staged, current, derived, sendNonce, aged, caller, outbound, encryption,
          encryptor, unlocked, sequential, running, stop, up, assigned, wire, counts>>

\* A call of SendStagedPackets: the keypair it uses, the packets of its
\* container still to take a nonce, those that have one and those set aside.
CallAt(pc, keypair, todo, kept, ooo) ==
  [pc |-> pc, keypair |-> keypair, todo |-> todo, kept |-> kept, ooo |-> ooo]
Fresh(pc) == CallAt(pc, NoKeypair, <<>>, <<>>, <<>>)
Idle == Fresh("idle")
Free == [pc |-> "idle", elems |-> <<>>]

Init ==
  /\ staged = <<>> /\ current = NoKeypair /\ derived = 0
  /\ sendNonce = [k \in Keypair |-> 0] /\ aged = {}
  /\ caller = [c \in Caller |-> Idle]
  /\ outbound = <<>> /\ encryption = <<>>
  /\ encryptor = [w \in Encryptor |-> Free] /\ unlocked = {}
  /\ sequential = Free
  /\ running = TRUE /\ stop = "none" /\ up = TRUE
  /\ assigned = {} /\ wire = <<>>
  /\ counts = [packets |-> 0, keepalives |-> 0, stops |-> 0]

At(c, pc) == caller[c].pc = pc
Becomes(c, call) == caller' = [caller EXCEPT ![c] = call]
Goto(c, pc) == Becomes(c, [caller[c] EXCEPT !.pc = pc])
Return(c) == Becomes(c, Idle)

keys == <<current, derived, sendNonce, aged>>
sending == <<outbound, encryption, encryptor, unlocked, sequential, wire>>
control == <<running, stop, up>>

-----------------------------------------------------------------------------
(* Staging. *)

\* RoutineReadFromTUN: the packets of one read for this peer.
ReadFromTUN(n) ==
  /\ At(Reader, "idle") /\ counts.packets + n <= MaxPacket
  /\ counts' = [counts EXCEPT !.packets = @ + n]
  /\ IF running
     THEN Becomes(Reader, CallAt("stage", NoKeypair, [i \in 1..n |-> counts.packets + i],
                                 <<>>, <<>>))
     ELSE UNCHANGED caller
  /\ UNCHANGED <<staged, keys, sending, control, assigned>>

\* StagePackets: put them in, or make room by dropping the oldest.
StagePackets(elems) ==
  \/ /\ Len(staged) < StagedSize
     /\ staged' = Append(staged, elems)
  \/ /\ Len(staged) = StagedSize
     /\ staged' = Tail(staged)

Stage ==
  /\ At(Reader, "stage")
  /\ StagePackets(caller[Reader].todo)
  /\ IF Len(staged) < StagedSize
     THEN Becomes(Reader, Fresh("top"))
     ELSE UNCHANGED caller
  /\ UNCHANGED <<keys, sending, control, assigned, counts>>

\* A session is derived (BeginSymmetricSession, ReceivedWithKeypair) and its
\* keypair made current; what was staged meanwhile is sent next.
Derive_Silent(c) ==
  /\ At(c, "idle") /\ c # Reader /\ derived < MaxKeypair
  /\ current' = derived + 1 /\ derived' = derived + 1
  /\ UNCHANGED <<caller, staged, sendNonce, aged, sending, control, assigned, counts>>
Derive(c) ==
  /\ At(c, "idle") /\ c # Reader /\ derived < MaxKeypair
  /\ current' = derived + 1 /\ derived' = derived + 1
  /\ Goto(c, "derived")
  /\ UNCHANGED <<staged, sendNonce, aged, sending, control, assigned, counts>>

Calls(c) == c # Reader /\ caller[c].pc \in {"idle", "derived"}

\* SendKeepalive: a keepalive is staged only when nothing is.
SendKeepalive(c) ==
  /\ Calls(c) /\ counts.keepalives < MaxKeepalive
  /\ IF staged = <<>> /\ running
     THEN /\ Becomes(c, CallAt("keepalive", NoKeypair, <<-(counts.keepalives + 1)>>,
                               <<>>, <<>>))
          /\ counts' = [counts EXCEPT !.keepalives = @ + 1]
     ELSE Goto(c, "top") /\ UNCHANGED counts
  /\ UNCHANGED <<staged, keys, sending, control, assigned>>

StageKeepalive(c) ==
  /\ At(c, "keepalive")
  /\ staged' = IF Len(staged) < StagedSize THEN Append(staged, caller[c].todo) ELSE staged
  /\ Goto(c, "top")
  /\ UNCHANGED <<keys, sending, control, assigned, counts>>

CallSendStagedPackets(c) ==
  /\ Calls(c)
  /\ Goto(c, "top")
  /\ UNCHANGED <<staged, keys, sending, control, assigned, counts>>

\* expiredRetransmitHandshake after too many attempts: the staged packets are
\* flushed, whether or not a session was derived meanwhile.
GiveUp(c) ==
  /\ At(c, "idle") /\ c # Reader
  /\ Goto(c, "flush")
  /\ UNCHANGED <<staged, keys, sending, control, assigned, counts>>

\* expiredZeroKeyMaterial: ZeroAndFlushAll.
ZeroKeyMaterial(c) ==
  /\ At(c, "idle") /\ c # Reader /\ current # NoKeypair
  /\ current' = NoKeypair
  /\ Goto(c, "flush")
  /\ UNCHANGED <<staged, derived, sendNonce, aged, sending, control, assigned, counts>>

FlushStagedPackets(c) ==
  /\ At(c, "flush")
  /\ IF staged = <<>> THEN Return(c) /\ UNCHANGED staged
     ELSE staged' = Tail(staged) /\ UNCHANGED caller
  /\ UNCHANGED <<keys, sending, control, assigned, counts>>

-----------------------------------------------------------------------------
(* SendStagedPackets. *)

Usable(k) == k # NoKeypair /\ sendNonce[k] < RejectAfterMessages /\ k \notin aged

\* label top: without a usable keypair a handshake is initiated instead.
Top(c) ==
  /\ At(c, "top")
  /\ IF staged # <<>> /\ up /\ Usable(current)
     THEN Becomes(c, CallAt("loop", current, <<>>, <<>>, <<>>))
     ELSE Return(c)
  /\ UNCHANGED <<staged, keys, sending, control, assigned, counts>>

Take(c) ==
  /\ At(c, "loop")
  /\ IF staged = <<>>
     THEN Return(c) /\ UNCHANGED staged
     ELSE /\ Becomes(c, CallAt("assign", caller[c].keypair, Head(staged), <<>>, <<>>))
          /\ staged' = Tail(staged)
  /\ UNCHANGED <<keys, sending, control, assigned, counts>>

\* One element takes a nonce; at the limit it is set aside.
AddNonce(c) ==
  LET call == caller[c]
      k == call.keypair
      packet == Head(call.todo)
      elem == [packet |-> packet, keypair |-> k, nonce |-> sendNonce[k]]
  IN /\ At(c, "assign") /\ call.todo # <<>>
     /\ sendNonce' = [sendNonce EXCEPT ![k] = @ + 1]
     /\ IF sendNonce[k] >= RejectAfterMessages
        THEN /\ Becomes(c, CallAt("limit", k, Tail(call.todo), call.kept,
                                  Append(call.ooo, packet)))
             /\ UNCHANGED assigned
        ELSE /\ Becomes(c, CallAt("assign", k, Tail(call.todo), Append(call.kept, elem),
                                  call.ooo))
             /\ assigned' = assigned \cup {elem}
     /\ UNCHANGED <<staged, current, derived, aged, sending, control, counts>>

\* The nonce of an exhausted keypair stays at the limit.
StoreLimit_OffByOne(c) ==
  /\ At(c, "limit")
  /\ sendNonce' = [sendNonce EXCEPT ![caller[c].keypair] = RejectAfterMessages - 1]
  /\ Goto(c, "assign")
  /\ UNCHANGED <<staged, current, derived, aged, sending, control, assigned, counts>>
StoreLimit(c) ==
  /\ At(c, "limit")
  /\ sendNonce' = [sendNonce EXCEPT ![caller[c].keypair] = RejectAfterMessages]
  /\ Goto(c, "assign")
  /\ UNCHANGED <<staged, current, derived, aged, sending, control, assigned, counts>>

Restage(c) ==
  /\ At(c, "assign") /\ caller[c].todo = <<>> /\ caller[c].ooo # <<>>
  /\ StagePackets(caller[c].ooo)
  /\ IF Len(staged) < StagedSize
     THEN IF caller[c].kept = <<>> THEN Becomes(c, Fresh("top"))
                                   ELSE Goto(c, "restaged")
     ELSE UNCHANGED caller
  /\ UNCHANGED <<keys, sending, control, assigned, counts>>

Continue(c) ==
  IF caller[c].ooo = <<>>
  THEN Becomes(c, CallAt("loop", caller[c].keypair, <<>>, <<>>, <<>>))
  ELSE Becomes(c, Fresh("top"))

\* A stopped peer's packets are dropped.
CheckRunning(c) ==
  /\ At(c, "restaged") \/ (At(c, "assign") /\ caller[c].todo = <<>> /\ caller[c].ooo = <<>>)
  /\ IF running THEN Goto(c, "outbound") ELSE Continue(c)
  /\ UNCHANGED <<staged, keys, sending, control, assigned, counts>>

EnqueueOutbound(c) ==
  /\ At(c, "outbound") /\ Len(outbound) < OutboundSize
  /\ outbound' = Append(outbound, caller[c].kept)
  /\ Goto(c, "encryption")
  /\ UNCHANGED <<staged, keys, encryption, encryptor, unlocked, sequential, wire,
                 control, assigned, counts>>

EnqueueEncryption_ChecksAgain(c) ==
  /\ At(c, "encryption") /\ Len(encryption) < EncryptionSize
  /\ encryption' = IF running THEN Append(encryption, caller[c].kept) ELSE encryption
  /\ Continue(c)
  /\ UNCHANGED <<staged, keys, outbound, encryptor, unlocked, sequential, wire,
                 control, assigned, counts>>
EnqueueEncryption(c) ==
  /\ At(c, "encryption") /\ Len(encryption) < EncryptionSize
  /\ encryption' = Append(encryption, caller[c].kept)
  /\ Continue(c)
  /\ UNCHANGED <<staged, keys, outbound, encryptor, unlocked, sequential, wire,
                 control, assigned, counts>>

-----------------------------------------------------------------------------
(* RoutineEncryption and RoutineSequentialSender. *)

TakeEncryption(w) ==
  /\ encryptor[w].pc = "idle" /\ encryption # <<>>
  /\ encryptor' = [encryptor EXCEPT ![w] = [pc |-> "encrypt", elems |-> Head(encryption)]]
  /\ encryption' = Tail(encryption)
  /\ UNCHANGED <<staged, keys, caller, outbound, unlocked, sequential, wire, control,
                 assigned, counts>>

Encrypt(w) ==
  /\ encryptor[w].pc = "encrypt"
  /\ unlocked' = unlocked \cup {encryptor[w].elems}
  /\ encryptor' = [encryptor EXCEPT ![w] = Free]
  /\ UNCHANGED <<staged, keys, caller, outbound, encryption, sequential, wire, control,
                 assigned, counts>>

\* The sequential sender takes a container and decides whether to send it.
TakeOutbound ==
  /\ sequential.pc = "idle" /\ outbound # <<>>
  /\ sequential' = [pc |-> IF Head(outbound) = Signal THEN "stopped"
                           ELSE IF running THEN "send" ELSE "drop",
                    elems |-> Head(outbound)]
  /\ outbound' = Tail(outbound)
  /\ UNCHANGED <<staged, keys, caller, encryption, encryptor, unlocked, wire, control,
                 assigned, counts>>

\* Lock of the container.
Unlocked(elems) == elems \in unlocked

\* SendBuffers, then keepKeyFreshSending, which may initiate a handshake.
Transmit ==
  /\ sequential.pc \in {"send", "drop"} /\ Unlocked(sequential.elems)
  /\ wire' = IF sequential.pc = "send" THEN wire \o sequential.elems ELSE wire
  /\ unlocked' = unlocked \ {sequential.elems}
  /\ sequential' = Free
  /\ UNCHANGED <<staged, keys, caller, outbound, encryption, encryptor, control,
                 assigned, counts>>

-----------------------------------------------------------------------------
(* The keypair's end, and Stop and Start of the peer. *)

Age ==
  /\ current # NoKeypair /\ current \notin aged
  /\ aged' = aged \cup {current}
  /\ UNCHANGED <<staged, current, derived, sendNonce, caller, sending, control, assigned, counts>>

\* ExpireCurrentKeypairs, after a change of the private key.
ExpireCurrentKeypairs ==
  /\ current # NoKeypair
  /\ sendNonce' = [sendNonce EXCEPT ![current] = RejectAfterMessages]
  /\ UNCHANGED <<staged, current, derived, aged, caller, sending, control, assigned, counts>>

\* The device's state changes before its peers are stopped or started.
Down ==
  /\ up /\ stop = "none"
  /\ up' = FALSE
  /\ UNCHANGED <<staged, keys, caller, sending, running, stop, assigned, counts>>

Up ==
  /\ ~up /\ stop = "stopped"
  /\ up' = TRUE
  /\ UNCHANGED <<staged, keys, caller, sending, running, stop, assigned, counts>>

Stop ==
  /\ running /\ stop = "none" /\ counts.stops < MaxStop
  /\ running' = FALSE /\ stop' = "signal"
  /\ counts' = [counts EXCEPT !.stops = @ + 1]
  /\ UNCHANGED <<staged, keys, caller, sending, up, assigned>>

StopSignal ==
  /\ stop = "signal" /\ Len(outbound) < OutboundSize
  /\ outbound' = Append(outbound, Signal) /\ stop' = "wait"
  /\ UNCHANGED <<staged, keys, caller, encryption, encryptor, unlocked, sequential, wire,
                 running, up, assigned, counts>>

\* peer.stopping.Wait, and the keypairs in ZeroAndFlushAll.
StopWait ==
  /\ stop = "wait" /\ sequential.pc = "stopped"
  /\ current' = NoKeypair /\ stop' = "flush"
  /\ UNCHANGED <<staged, derived, sendNonce, aged, caller, sending, running, up, assigned,
                 counts>>

\* FlushStagedPackets, in ZeroAndFlushAll.
StopFlush ==
  /\ stop = "flush"
  /\ IF staged = <<>> THEN stop' = "stopped" /\ UNCHANGED staged
     ELSE staged' = Tail(staged) /\ UNCHANGED stop
  /\ UNCHANGED <<keys, caller, sending, running, up, assigned, counts>>

\* Start: flushOutboundQueue takes what late callers left, then the routines
\* are started.
Start ==
  /\ stop = "stopped" /\ up
  /\ IF outbound = <<>>
     THEN /\ stop' = "none" /\ running' = TRUE /\ sequential' = Free
          /\ UNCHANGED <<outbound, unlocked>>
     ELSE /\ Unlocked(Head(outbound))
          /\ outbound' = Tail(outbound) /\ unlocked' = unlocked \ {Head(outbound)}
          /\ UNCHANGED <<stop, running, sequential>>
  /\ UNCHANGED <<staged, keys, caller, encryption, encryptor, wire, up, assigned, counts>>

CallerNext(c) ==
  \/ Top(c) \/ Take(c) \/ AddNonce(c) \/ StoreLimit(c) \/ Restage(c) \/ CheckRunning(c)
  \/ EnqueueOutbound(c) \/ EnqueueEncryption(c) \/ StageKeepalive(c)
  \/ FlushStagedPackets(c)

EncryptorNext(w) == TakeEncryption(w) \/ Encrypt(w)

SequentialNext == TakeOutbound \/ Transmit

StopNext == StopSignal \/ StopWait \/ StopFlush

Next ==
  \/ \E n \in 1..MaxBatch : ReadFromTUN(n)
  \/ Stage
  \/ \E c \in Caller : \/ Derive(c) \/ SendKeepalive(c) \/ CallSendStagedPackets(c)
                       \/ GiveUp(c) \/ ZeroKeyMaterial(c) \/ CallerNext(c)
  \/ Age \/ ExpireCurrentKeypairs
  \/ \E w \in Encryptor : EncryptorNext(w)
  \/ SequentialNext
  \/ Down \/ Up \/ Stop \/ StopNext \/ Start

Spec == Init /\ [][Next]_vars

\* The goroutines run: a call in progress, the workers, the sequential sender
\* and a Stop in progress go on.
Fairness ==
  /\ WF_vars(Stage) /\ WF_vars(SequentialNext) /\ WF_vars(StopNext)
  /\ \A c \in Caller : WF_vars(CallerNext(c) \/ (At(c, "derived") /\ CallSendStagedPackets(c)))
  /\ \A w \in Encryptor : WF_vars(EncryptorNext(w))

FairSpec == Spec /\ Fairness

-----------------------------------------------------------------------------
(* Properties. *)

\* No keypair encrypts two packets under one nonce, whichever goroutines
\* assign nonces at once and however often the limit is stored.
NoncesUnique ==
  \A a, b \in assigned : a.keypair = b.keypair /\ a.nonce = b.nonce => a = b

\* "The order of packets (per peer) must be maintained": data packets leave in
\* the order they were read.
InOrder ==
  \A i, j \in DOMAIN wire :
    i < j /\ wire[i].packet > 0 /\ wire[j].packet > 0 => wire[i].packet < wire[j].packet

\* No packet of a peer that was never stopped is left behind: when a usable
\* keypair is there and no call is in progress, nothing is staged.  (A packet
\* staged by a call that saw the peer run, after Stop has flushed, waits for the
\* first call after the next Start.)
NothingStranded ==
  counts.stops = 0 /\ up /\ Usable(current) /\ (\A c \in Caller : At(c, "idle")) => staged = <<>>

\* Stop comes to its end: the sequential sender takes every container before
\* the signal, each of which gets encrypted.
StopEnds == stop = "signal" ~> stop = "stopped"

=============================================================================
