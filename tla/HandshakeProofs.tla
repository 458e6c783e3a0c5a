-------------------------- MODULE HandshakeProofs --------------------------
(***************************************************************************)
(* Every variable of Handshake keeps its type, for any devices, peers,     *)
(* workers, indices and bounds; the lemmas on its operators; the session   *)
(* origins, the key confirmation and the timestamps: SessionInv is         *)
(* inductive; the index table: IndexTableInv is inductive; and, with one   *)
(* worker per device, that an initiation is consumed once and a key is in  *)
(* one slot: InitiationInv and SessionKeysInv are inductive.               *)
(***************************************************************************)
EXTENDS Handshake, TLAPS

\* The initial state is well typed and no worker is at work.
LEMMA InitType == Init => TypeOK /\ WorkerOK
<1> SUFFICES ASSUME Init PROVE TypeOK /\ WorkerOK
  BY Zenon
<1> USE TopologyAssumption, BoundAssumption
<1>1. /\ 0 \in Ephemeral /\ 0 \in Timestamp /\ 0 \in 0..MaxReset
      /\ ZeroTranscript \in Transcript
  BY DEF Ephemeral, Timestamp, Transcript, ZeroTranscript
<1>2. ZeroHandshake \in HandshakeRecord
  BY <1>1, Zenon DEF ZeroHandshake, HandshakeRecord, HandshakeState
<1>3. NoKeypairs \in Keypairs
  BY Zenon DEF NoKeypairs, Keypairs
<1>4. Idle \in [pc : WorkerStep, peer : Peer \cup {Nil}, msg : Message \cup {Nil}]
  BY Zenon DEF Idle, WorkerStep
<1>5. TypeOK
  BY <1>1, <1>2, <1>3, <1>4, Zenon DEF Init, TypeOK
<1>6. WorkerOK
  BY Zenon DEF Init, WorkerOK, Idle
<1> QED
  BY <1>5, <1>6, Zenon

\* Operations on one table keep it a table; what each index holds after them.
LEMMA DeleteOp ==
  ASSUME NEW t \in [Index -> IndexTableEntry \cup {Nil}], NEW i \in Index
  PROVE  /\ Delete(t, i) \in [Index -> IndexTableEntry \cup {Nil}]
         /\ \A j \in Index : Delete(t, i)[j] = IF j = i THEN Nil ELSE t[j]
BY Zenon DEF Delete

LEMMA DeleteKeypairOp ==
  ASSUME NEW t \in [Index -> IndexTableEntry \cup {Nil}], NEW k \in Keypair \cup {Nil}
  PROVE  /\ DeleteKeypair(t, k) \in [Index -> IndexTableEntry \cup {Nil}]
         /\ \A j \in Index : DeleteKeypair(t, k)[j] =
              IF k # Nil /\ j = k.localIndex THEN Nil ELSE t[j]
<1>1. k # Nil => k.localIndex \in Index
  BY Zenon DEF Keypair
<1> QED
  BY <1>1, DeleteOp DEF DeleteKeypair

LEMMA NewIndexOp ==
  ASSUME NEW t \in [Index -> IndexTableEntry \cup {Nil}], NEW i \in Index, NEW q \in Peer
  PROVE  /\ NewIndexForHandshake(t, i, q) \in [Index -> IndexTableEntry \cup {Nil}]
         /\ \A j \in Index : NewIndexForHandshake(t, i, q)[j] =
              IF j = i THEN [peer |-> q, keypair |-> Nil] ELSE t[j]
BY Zenon DEF NewIndexForHandshake, IndexTableEntry

LEMMA SwapIndexOp ==
  ASSUME NEW t \in [Index -> IndexTableEntry \cup {Nil}], NEW i \in Index, NEW k \in Keypair
  PROVE  /\ SwapIndexForKeypair(t, i, k) \in [Index -> IndexTableEntry \cup {Nil}]
         /\ \A j \in Index : SwapIndexForKeypair(t, i, k)[j] =
              IF j = i /\ t[i] # Nil
              THEN [peer |-> t[i].peer, keypair |-> k] ELSE t[j]
BY Zenon DEF SwapIndexForKeypair, IndexTableEntry

\* A derived keypair is a keypair, and rotation keeps slots and table typed.
LEMMA RotationType ==
  ASSUME TypeOK, NEW q \in Peer,
         NEW t \in [Index -> IndexTableEntry \cup {Nil}]
  PROVE  /\ NewKeypair(q) \in Keypair
         /\ \A s \in Keypairs, k \in Keypair :
              /\ RotatedKeypairs(s, k) \in Keypairs
              /\ RotatedTable(t, s, k) \in [Index -> IndexTableEntry \cup {Nil}]
<1>1. NewKeypair(q) \in Keypair
  BY Zenon DEF NewKeypair, Keypair, TypeOK, HandshakeRecord
<1>2. ASSUME NEW s \in Keypairs, NEW k \in Keypair
      PROVE  RotatedKeypairs(s, k) \in Keypairs
  BY <1>2, Zenon DEF RotatedKeypairs, Keypairs
<1>3. ASSUME NEW s \in Keypairs, NEW k \in Keypair
      PROVE  RotatedTable(t, s, k) \in [Index -> IndexTableEntry \cup {Nil}]
  <2>1. DroppedKeypair(s, k) \in Keypair \cup {Nil} /\ s.previous \in Keypair \cup {Nil}
    BY Zenon DEF Keypairs, Keypair, DroppedKeypair
  <2>2. DeleteKeypair(t, DroppedKeypair(s, k)) \in [Index -> IndexTableEntry \cup {Nil}]
    BY <2>1, DeleteKeypairOp, Zenon
  <2> QED
    BY <2>1, <2>2, DeleteKeypairOp, Zenon DEF RotatedTable
<1> QED
  BY <1>1, <1>2, <1>3, Zenon

\* The updates the handshake operations make keep the handshake a handshake.
LEMMA HandshakeUpdates ==
  ASSUME NEW h \in HandshakeRecord
  PROVE  /\ h.localIndex \in Index /\ h.remoteIndex \in Index
         /\ h.transcript \in Transcript
         /\ Clear(h) \in HandshakeRecord
         /\ \A st \in HandshakeState, key \in Transcript, e \in Ephemeral, i \in Index :
              Created(h, st, key, e, i) \in HandshakeRecord
         /\ \A m \in MessageInitiation : ConsumedInitiation(h, m) \in HandshakeRecord
         /\ \A m \in MessageResponse : ConsumedResponse(h, m) \in HandshakeRecord
<1>1. 0 \in Ephemeral /\ ZeroTranscript \in Transcript /\ ZeroIndex \in Index
  BY BoundAssumption DEF ZeroTranscript, Transcript, Ephemeral
<1>2. Clear(h) \in HandshakeRecord
  BY <1>1, Zenon DEF Clear, HandshakeRecord, HandshakeState
<1>3. ASSUME NEW m \in MessageInitiation
      PROVE  ConsumedInitiation(h, m) \in HandshakeRecord
  <2>1. /\ [ie |-> m.ephemeral, re |-> 0] \in Transcript
        /\ m.sender \in Index /\ m.timestamp \in Timestamp
    BY <1>1, Zenon DEF MessageInitiation, Transcript
  <2> QED
    BY <2>1, Zenon DEF ConsumedInitiation, HandshakeRecord, HandshakeState
<1>4. ASSUME NEW m \in MessageResponse
      PROVE  ConsumedResponse(h, m) \in HandshakeRecord
  BY Zenon DEF ConsumedResponse, MessageResponse, HandshakeRecord, HandshakeState
<1>5. ASSUME NEW st \in HandshakeState, NEW key \in Transcript,
             NEW e \in Ephemeral, NEW i \in Index
      PROVE  Created(h, st, key, e, i) \in HandshakeRecord
  BY Zenon DEF Created, HandshakeRecord
<1>6. h.localIndex \in Index /\ h.remoteIndex \in Index /\ h.transcript \in Transcript
  BY Zenon DEF HandshakeRecord
<1> QED
  BY <1>2, <1>3, <1>4, <1>5, <1>6, Zenon

\* What creating a response does to the handshake of its peer.
LEMMA ResponseHandshake ==
  ASSUME NEW w, NEW i, CreateMessageResponse(w, i)
  PROVE  handshake' = [handshake EXCEPT ![worker[w].peer] =
           Created(handshake[worker[w].peer], "ResponseCreated",
                   [ie |-> handshake[worker[w].peer].transcript.ie, re |-> ephemerals + 1],
                   ephemerals + 1, i)]
BY Zenon DEF CreateMessageResponse

\* Every step keeps the types and what the workers know.
LEMMA StepType == TypeOK /\ WorkerOK /\ [Next]_vars => TypeOK' /\ WorkerOK'
<1> SUFFICES ASSUME TypeOK, WorkerOK, [Next]_vars PROVE TypeOK' /\ WorkerOK'
  BY Zenon
<1> USE TopologyAssumption, BoundAssumption, NilAssumption
<1> DEFINE Table == [Index -> IndexTableEntry \cup {Nil}]
           Step == [pc : WorkerStep, peer : Peer \cup {Nil}, msg : Message \cup {Nil}]
<1>t. \A d \in Device : table[d] \in Table
  BY Zenon DEF TypeOK
<1>h. \A q \in Peer : handshake[q] \in HandshakeRecord
  BY Zenon DEF TypeOK
<1>k. \A q \in Peer : /\ keypairs[q] \in Keypairs
                      /\ keypairs[q].previous \in Keypair \cup {Nil}
                      /\ keypairs[q].current \in Keypair \cup {Nil}
                      /\ keypairs[q].next \in Keypair \cup {Nil}
  BY Zenon DEF TypeOK, Keypairs
<1>i. Idle \in Step /\ Idle.pc = "idle"
  BY Zenon DEF Idle, WorkerStep
<1>b. ASSUME NEW q \in Peer, BeginSymmetricSession(q)
      PROVE  /\ handshake' \in [Peer -> HandshakeRecord]
             /\ keypairs' \in [Peer -> Keypairs]
             /\ table' \in [Device -> Table]
  <2> DEFINE k == NewKeypair(q)
             swapped == SwapIndexForKeypair(table[DeviceOf[q]], k.localIndex, k)
  <2>1. k \in Keypair /\ k.localIndex \in Index
    BY <1>t, RotationType, Zenon DEF Keypair
  <2>2. swapped \in Table
    BY <1>t, <2>1, SwapIndexOp, Zenon
  <2>3. RotatedTable(swapped, keypairs[q], k) \in Table
    BY <2>1, <2>2, <1>k, RotationType, Zenon
  <2>4. RotatedKeypairs(keypairs[q], k) \in Keypairs
    BY <2>1, <1>k, <1>t, RotationType, Zenon
  <2>5. Clear(handshake[q]) \in HandshakeRecord
    BY <1>h, HandshakeUpdates, Zenon
  <2> QED
    BY <1>b, <2>3, <2>4, <2>5, Zenon DEF BeginSymmetricSession, TypeOK
<1>1. ASSUME NEW w \in Worker, NEW m \in initiations, CheckInitiation(w, m)
      PROVE  TypeOK' /\ WorkerOK'
  BY <1>1, SMTT(90) DEF CheckInitiation, TypeOK, WorkerOK, WorkerStep, Message, MessageInitiation, local, net
<1>2. ASSUME NEW w \in Worker, ConsumeMessageInitiation(w)
      PROVE  TypeOK' /\ WorkerOK'
  <2>1. worker[w].peer \in Peer /\ worker[w].msg \in MessageInitiation
    BY <1>2, Zenon DEF ConsumeMessageInitiation, TypeOK, WorkerOK
  <2>2. handshake' \in [Peer -> HandshakeRecord]
    BY <1>2, <1>h, <2>1, HandshakeUpdates, Zenon DEF ConsumeMessageInitiation, TypeOK
  <2>3. worker' \in [Worker -> Step] /\ WorkerOK'
    BY <1>2, <2>1, ZenonT(60) DEF ConsumeMessageInitiation, TypeOK, WorkerOK, WorkerStep, net
  <2> QED
    BY <1>2, <2>2, <2>3, Zenon DEF ConsumeMessageInitiation, TypeOK, local, net
<1>3. ASSUME NEW w \in Worker, NEW i \in Index, CreateMessageResponse(w, i)
      PROVE  TypeOK' /\ WorkerOK'
  <2> DEFINE q == worker[w].peer
             e == ephemerals + 1
             key == [ie |-> handshake[q].transcript.ie, re |-> e]
             msg == [peer |-> q, sender |-> i, receiver |-> handshake[q].remoteIndex, key |-> key]
  <2>1. q \in Peer /\ e \in Ephemeral
    <3>1. q \in Peer /\ ephemerals < MaxEphemeral
      BY <1>3, Zenon DEF CreateMessageResponse, WorkerOK
    <3> QED
      BY <3>1 DEF TypeOK, Ephemeral
  <2>2. key \in Transcript
    BY <2>1, <1>h, HandshakeUpdates, Zenon DEF Transcript
  <2>3. msg \in MessageResponse
    BY <2>1, <2>2, <1>h, HandshakeUpdates, Zenon DEF MessageResponse
  <2>4. handshake' \in [Peer -> HandshakeRecord]
    <3>1. "ResponseCreated" \in HandshakeState
      BY Zenon DEF HandshakeState
    <3>2. Created(handshake[q], "ResponseCreated", key, e, i) \in HandshakeRecord
      BY <1>h, <2>1, <2>2, <3>1, HandshakeUpdates, Zenon
    <3>3. handshake' = [handshake EXCEPT ![q] =
                          Created(handshake[q], "ResponseCreated", key, e, i)]
      BY <1>3, ResponseHandshake, Zenon
    <3> HIDE DEF q, key, e
    <3> QED
      BY <1>h, <2>1, <2>2, <3>1, <3>2, <3>3, Zenon DEF TypeOK
  <2>5. table' \in [Device -> Table]
    <3>1. Delete(table[DeviceOf[q]], handshake[q].localIndex) \in Table
      BY <1>h, <1>t, <2>1, HandshakeUpdates, DeleteOp, Zenon
    <3>2. NewIndexForHandshake(Delete(table[DeviceOf[q]], handshake[q].localIndex), i, q) \in Table
      BY <2>1, <3>1, NewIndexOp, Zenon
    <3> QED
      BY <1>3, <3>2, Zenon DEF CreateMessageResponse, TypeOK
  <2>6. worker' = [worker EXCEPT ![w] = [pc |-> "responseCreated", peer |-> q, msg |-> msg]]
    BY <1>3, Zenon DEF CreateMessageResponse
  <2>7. worker' \in [Worker -> Step]
    BY <2>1, <2>3, <2>6, Zenon DEF TypeOK, WorkerStep, Message
  <2>8. WorkerOK'
    <3>1. initiations' = initiations /\ responses' = responses
      BY <1>3, Zenon DEF CreateMessageResponse, net
    <3> HIDE DEF q, msg
    <3> QED
      BY <2>1, <2>3, <2>6, <3>1, ZenonT(60) DEF TypeOK, WorkerOK
  <2> QED
    BY <1>3, <2>1, <2>4, <2>5, <2>7, <2>8, Zenon DEF CreateMessageResponse, TypeOK, local, net
<1>4. ASSUME NEW w \in Worker, CreateMessageResponseFails(w) \/ BeginSymmetricSessionFails(w)
      PROVE  TypeOK' /\ WorkerOK'
  <2>0. worker' = [worker EXCEPT ![w] = Idle] /\ UNCHANGED <<initiations, responses>>
    BY <1>4, Zenon DEF CreateMessageResponseFails, BeginSymmetricSessionFails, net
  <2>1. worker' \in [Worker -> Step] /\ WorkerOK'
    BY <1>i, <2>0 DEF TypeOK, WorkerOK
  <2> QED
    BY <1>4, <2>1, Zenon DEF CreateMessageResponseFails, BeginSymmetricSessionFails, TypeOK, local, net
<1>5. ASSUME NEW w \in Worker, NEW m \in responses, CheckResponse(w, m)
      PROVE  TypeOK' /\ WorkerOK'
  <2>1. m \in MessageResponse /\ Mirror[m.peer] \in Peer
    BY Zenon DEF TypeOK, MessageResponse
  <2>2. worker' = [worker EXCEPT ![w] =
                     [pc |-> "responseChecked", peer |-> Mirror[m.peer], msg |-> m]]
    BY <1>5, Zenon DEF CheckResponse
  <2>s. UNCHANGED <<handshake, keypairs, table, ephemerals, local, net>>
    BY <1>5, Zenon DEF CheckResponse
  <2>3. worker' \in [Worker -> Step] /\ WorkerOK'
    BY <2>1, <2>2, <2>s, Zenon DEF TypeOK, WorkerOK, WorkerStep, Message, net
  <2> QED
    BY <2>3, <2>s, Zenon DEF TypeOK, local, net
<1>6. ASSUME NEW w \in Worker, ConsumeMessageResponse(w)
      PROVE  TypeOK' /\ WorkerOK'
  <2>1. worker[w].peer \in Peer /\ worker[w].msg \in MessageResponse
    BY <1>6, Zenon DEF ConsumeMessageResponse, TypeOK, WorkerOK
  <2>2. handshake' \in [Peer -> HandshakeRecord]
    BY <1>6, <1>h, <2>1, HandshakeUpdates, Zenon DEF ConsumeMessageResponse, TypeOK
  <2>3. worker' \in [Worker -> Step] /\ WorkerOK'
    BY <1>6, <2>1, Zenon DEF ConsumeMessageResponse, TypeOK, WorkerOK, WorkerStep, net
  <2> QED
    BY <1>6, <2>2, <2>3, Zenon DEF ConsumeMessageResponse, TypeOK, local, net
<1>7. ASSUME NEW w \in Worker, DeriveAfterResponse(w)
      PROVE  TypeOK' /\ WorkerOK'
  <2>1. worker[w].peer \in Peer
    BY <1>7, Zenon DEF DeriveAfterResponse, WorkerOK
  <2>2. worker' \in [Worker -> Step] /\ WorkerOK'
    BY <1>7, <1>i DEF DeriveAfterResponse, TypeOK, WorkerOK, net
  <2> QED
    BY <1>7, <1>b, <2>1, <2>2, Zenon DEF DeriveAfterResponse, TypeOK, local, net
<1>8. ASSUME NEW w \in Worker, SendHandshakeResponse(w)
      PROVE  TypeOK' /\ WorkerOK'
  <2>1. worker[w].peer \in Peer /\ worker[w].msg \in MessageResponse
    BY <1>8, Zenon DEF SendHandshakeResponse, WorkerOK
  <2>2. worker' \in [Worker -> Step] /\ WorkerOK'
    BY <1>8, <1>i, SMTT(30) DEF SendHandshakeResponse, TypeOK, WorkerOK
  <2> QED
    BY <1>8, <1>b, <2>1, <2>2, Zenon DEF SendHandshakeResponse, TypeOK, local
<1>9. ASSUME NEW q \in Peer, NEW i \in Index, NEW ts \in Timestamp,
             CreateMessageInitiation(q, i, ts)
      PROVE  TypeOK' /\ WorkerOK'
  <2> DEFINE e == ephemerals + 1
  <2>1. e \in Ephemeral /\ [ie |-> e, re |-> 0] \in Transcript
    BY <1>9 DEF CreateMessageInitiation, TypeOK, Ephemeral, Transcript
  <2>2. handshake' \in [Peer -> HandshakeRecord]
    <3>1. "InitiationCreated" \in HandshakeState
      BY Zenon DEF HandshakeState
    <3> QED
      BY <1>9, <1>h, <2>1, <3>1, HandshakeUpdates, Zenon DEF CreateMessageInitiation, TypeOK
  <2>3. table' \in [Device -> Table]
    <3>1. Delete(table[DeviceOf[q]], handshake[q].localIndex) \in Table
      BY <1>h, <1>t, HandshakeUpdates, DeleteOp, Zenon
    <3>2. NewIndexForHandshake(Delete(table[DeviceOf[q]], handshake[q].localIndex), i, q) \in Table
      BY <3>1, NewIndexOp, Zenon
    <3> QED
      BY <1>9, <3>2, Zenon DEF CreateMessageInitiation, TypeOK
  <2>4. initiations' \subseteq MessageInitiation /\ initiations \subseteq initiations'
    BY <1>9, <2>1 DEF CreateMessageInitiation, TypeOK, MessageInitiation
  <2>5. WorkerOK'
    BY <1>9, <2>4, SMTT(30) DEF CreateMessageInitiation, WorkerOK
  <2> QED
    BY <1>9, <2>1, <2>2, <2>3, <2>4, <2>5, Zenon DEF CreateMessageInitiation, TypeOK, local
<1>10. ASSUME NEW q \in Peer, SendTransport(q)
       PROVE  TypeOK' /\ WorkerOK'
  <2>1. keypairs[q].current \in Keypair
    BY <1>10, <1>k, Zenon DEF SendTransport
  <2>2. transports' \subseteq MessageTransport
    BY <1>10, <2>1 DEF SendTransport, TypeOK, MessageTransport, Keypair
  <2>3. WorkerOK'
    BY <1>10, Zenon DEF SendTransport, WorkerOK
  <2> QED
    BY <1>10, <2>2, <2>3, Zenon DEF SendTransport, TypeOK, local
<1>11. ASSUME NEW q \in Peer, NEW k \in inbound[q], ReceivedWithKeypair(q, k)
       PROVE  TypeOK' /\ WorkerOK'
  <2>1. k \in Keypair /\ inbound' \in [Peer -> SUBSET Keypair]
    BY <1>11, Zenon DEF ReceivedWithKeypair, TypeOK
  <2>2. keypairs' \in [Peer -> Keypairs]
    <3>1. PromotedKeypairs(keypairs[q]) \in Keypairs
      BY <1>k, Zenon DEF Keypairs, PromotedKeypairs
    <3> QED
      BY <1>11, <3>1, Zenon DEF ReceivedWithKeypair, TypeOK
  <2>3. table' \in [Device -> Table]
    <3>1. DeleteKeypair(table[DeviceOf[q]], keypairs[q].previous) \in Table
      BY <1>k, <1>t, DeleteKeypairOp, Zenon
    <3> QED
      BY <1>11, <3>1, Zenon DEF ReceivedWithKeypair, TypeOK
  <2>4. WorkerOK'
    BY <1>11, Zenon DEF ReceivedWithKeypair, WorkerOK, net
  <2> QED
    BY <1>11, <2>1, <2>2, <2>3, <2>4, Zenon DEF ReceivedWithKeypair, TypeOK, net
<1>12. ASSUME NEW q \in Peer, Stop(q) \/ Start(q) \/ ExpireNonces(q)
       PROVE  TypeOK' /\ WorkerOK'
  <2>1. WorkerOK'
    BY <1>12, Zenon DEF Stop, Start, ExpireNonces, WorkerOK, net
  <2>2. CASE Stop(q)
    BY <2>1, <2>2 DEF Stop, TypeOK, net
  <2>3. CASE Start(q)
    BY <2>1, <2>3, Zenon DEF Start, TypeOK, net
  <2>4. CASE ExpireNonces(q)
    <3>1. spent' \in [Peer -> SUBSET Keypair]
      BY <2>4, <1>k DEF ExpireNonces, TypeOK
    <3> QED
      BY <2>1, <2>4, <3>1, Zenon DEF ExpireNonces, TypeOK, net
  <2> QED
    BY <1>12, <2>2, <2>3, <2>4, Zenon
<1>13. ASSUME NEW q \in Peer, NEW who \in {"timer", "stop"}, ZeroKeypairs(q, who)
       PROVE  TypeOK' /\ WorkerOK'
  <2>1. table' \in [Device -> Table]
    <3> DEFINE t1 == DeleteKeypair(table[DeviceOf[q]], keypairs[q].previous)
               t2 == DeleteKeypair(t1, keypairs[q].current)
               t3 == DeleteKeypair(t2, keypairs[q].next)
    <3>1. t1 \in Table
      BY <1>k, <1>t, DeleteKeypairOp, Zenon
    <3>2. t2 \in Table
      BY <1>k, <3>1, DeleteKeypairOp, Zenon
    <3>3. t3 \in Table
      BY <1>k, <3>2, DeleteKeypairOp, Zenon
    <3> QED
      BY <1>13, <3>3, Zenon DEF ZeroKeypairs, ZeroedTable, TypeOK
  <2>2. keypairs' \in [Peer -> Keypairs]
    BY <1>13, Zenon DEF ZeroKeypairs, TypeOK, Keypairs, NoKeypairs
  <2>3. resets' \in 0..MaxReset /\ zeroing' \in [Peer -> {"none", "timer", "stop"}]
    BY <1>13 DEF ZeroKeypairs, TypeOK
  <2>4. WorkerOK'
    BY <1>13, Zenon DEF ZeroKeypairs, WorkerOK, net
  <2> QED
    BY <1>13, <2>1, <2>2, <2>3, <2>4, Zenon DEF ZeroKeypairs, TypeOK, net
<1>14. ASSUME NEW q \in Peer, ZeroHandshakeState(q) \/ ExpireHandshake(q)
       PROVE  TypeOK' /\ WorkerOK'
  <2>1. table' \in [Device -> Table]
    <3>1. Delete(table[DeviceOf[q]], handshake[q].localIndex) \in Table
      BY <1>h, <1>t, HandshakeUpdates, DeleteOp, Zenon
    <3>2. table' = [table EXCEPT ![DeviceOf[q]] =
                      Delete(table[DeviceOf[q]], handshake[q].localIndex)]
      BY <1>14, Zenon DEF ZeroHandshakeState, ExpireHandshake
    <3> QED
      BY <3>1, <3>2, Zenon DEF TypeOK
  <2>2. handshake' \in [Peer -> HandshakeRecord]
    <3>1. Clear(handshake[q]) \in HandshakeRecord
      BY <1>h, HandshakeUpdates, Zenon
    <3>2. handshake' = [handshake EXCEPT ![q] = Clear(handshake[q])]
      BY <1>14, Zenon DEF ZeroHandshakeState, ExpireHandshake
    <3> QED
      BY <3>1, <3>2, Zenon DEF TypeOK
  <2>3. WorkerOK'
    BY <1>14, Zenon DEF ZeroHandshakeState, ExpireHandshake, WorkerOK, net
  <2>4. CASE ZeroHandshakeState(q)
    BY <2>1, <2>2, <2>3, <2>4, Zenon DEF ZeroHandshakeState, TypeOK, net
  <2>5. CASE ExpireHandshake(q)
    BY <2>1, <2>2, <2>3, <2>5 DEF ExpireHandshake, TypeOK, net
  <2> QED
    BY <1>14, <2>4, <2>5, Zenon
<1>15. ASSUME NEW m \in transports, ReceiveTransport(m)
       PROVE  TypeOK' /\ WorkerOK'
  <2> DEFINE e == table[DeviceOf[Mirror[m.peer]]][m.receiver]
  <2>1. DeviceOf[Mirror[m.peer]] \in Device /\ m.receiver \in Index
    BY Zenon DEF TypeOK, MessageTransport
  <2>2. e \in IndexTableEntry /\ e.keypair \in Keypair
    <3>1. e # Nil /\ e.keypair # Nil
      BY <1>15, Zenon DEF ReceiveTransport
    <3>2. table[DeviceOf[Mirror[m.peer]]] \in Table
      BY <2>1, Zenon DEF TypeOK
    <3>3. e \in IndexTableEntry
      BY <2>1, <3>1, <3>2, Zenon
    <3> HIDE DEF e
    <3> QED
      BY <3>1, <3>3, Zenon DEF IndexTableEntry
  <2>3. inbound' \in [Peer -> SUBSET Keypair]
    BY <1>15, <2>2, Zenon DEF ReceiveTransport, TypeOK, IndexTableEntry
  <2>4. WorkerOK'
    BY <1>15, Zenon DEF ReceiveTransport, WorkerOK, net
  <2> QED
    BY <1>15, <2>3, <2>4, Zenon DEF ReceiveTransport, TypeOK, net
<1>16. CASE UNCHANGED vars
  BY <1>16, Zenon DEF vars, local, net, TypeOK, WorkerOK
<1> QED
  BY Zenon, <1>1, <1>2, <1>3, <1>4, <1>5, <1>6, <1>7, <1>8, <1>9, <1>10, <1>11, <1>12,
     <1>13, <1>14, <1>15, <1>16 DEF Next, WorkerNext, PeerNext

\* Type correctness, for any devices, peers, workers, indices and bounds.
THEOREM TypeCorrect == Spec => []TypeOK
<1>1. Spec => [](TypeOK /\ WorkerOK)
  BY InitType, StepType, PTL DEF Spec
<1> QED
  BY <1>1, PTL

\* What TypeOK says of the parts the index table invariant speaks of.
LEMMA Parts ==
  ASSUME TypeOK
  PROVE  /\ \A d \in Device : table[d] \in [Index -> IndexTableEntry \cup {Nil}]
         /\ \A d \in Device, i \in Index : table[d][i] # Nil =>
              /\ table[d][i] \in IndexTableEntry
              /\ table[d][i].peer \in Peer
              /\ table[d][i].keypair \in Keypair \cup {Nil}
         /\ \A q \in Peer : handshake[q].localIndex \in Index
         /\ \A q \in Peer : /\ keypairs[q] \in Keypairs
                            /\ keypairs[q].previous \in Keypair \cup {Nil}
                            /\ keypairs[q].current \in Keypair \cup {Nil}
                            /\ keypairs[q].next \in Keypair \cup {Nil}
         /\ \A k \in Keypair : k # Nil /\ k.localIndex \in Index
         /\ \A q \in Peer : DeviceOf[q] \in Device
<1>1. \A d \in Device : table[d] \in [Index -> IndexTableEntry \cup {Nil}]
  BY Zenon DEF TypeOK
<1>2. \A d \in Device, i \in Index : table[d][i] # Nil =>
              /\ table[d][i] \in IndexTableEntry
              /\ table[d][i].peer \in Peer
              /\ table[d][i].keypair \in Keypair \cup {Nil}
  BY <1>1, Zenon DEF IndexTableEntry
<1>3. \A q \in Peer : handshake[q].localIndex \in Index
  BY Zenon DEF TypeOK, HandshakeRecord
<1>4. \A q \in Peer : /\ keypairs[q] \in Keypairs
                     /\ keypairs[q].previous \in Keypair \cup {Nil}
                     /\ keypairs[q].current \in Keypair \cup {Nil}
                     /\ keypairs[q].next \in Keypair \cup {Nil}
  BY Zenon DEF TypeOK, Keypairs
<1>5. \A k \in Keypair : k # Nil /\ k.localIndex \in Index
  BY NilAssumption, Zenon DEF Keypair
<1> QED
  BY <1>1, <1>2, <1>3, <1>4, <1>5, TopologyAssumption, Zenon

-----------------------------------------------------------------------------
(* Where sessions come from, and the confirmation of their keys. *)

\* No message is ever taken back.
LEMMA MessagesGrow ==
  ASSUME [Next]_vars
  PROVE  initiations \subseteq initiations' /\ responses \subseteq responses'
           /\ transports \subseteq transports'
BY ZenonT(60) DEF Next, WorkerNext, PeerNext, CheckInitiation, ConsumeMessageInitiation,
       CreateMessageResponse, CreateMessageResponseFails, CheckResponse,
       ConsumeMessageResponse, DeriveAfterResponse, SendHandshakeResponse,
       BeginSymmetricSessionFails, CreateMessageInitiation, SendTransport,
       ReceiveTransport, ReceivedWithKeypair, Stop, ZeroKeypairs,
       ZeroHandshakeState, Start, ExpireHandshake, ExpireNonces, vars, net

\* Steps that leave the handshakes alone keep HandshakeFromPeer.
LEMMA HandshakeFromPeerFrame ==
  ASSUME SessionInv, [Next]_vars, handshake' = handshake
  PROVE  HandshakeFromPeer'
BY MessagesGrow, Zenon DEF SessionInv, HandshakeFromPeer

\* So do steps that clear one.
LEMMA HandshakeFromPeerCleared ==
  ASSUME SessionInv, [Next]_vars, NEW q \in Peer,
         handshake' = [handshake EXCEPT ![q] = Clear(@)]
  PROVE  HandshakeFromPeer'
<1>1. \A p \in Peer : p # q => handshake'[p] = handshake[p]
  BY Zenon DEF SessionInv, TypeOK
<1>2. handshake'[q].state = "Zeroed"
  BY DEF SessionInv, TypeOK, HandshakeRecord, Clear
<1> QED
  BY <1>1, <1>2, MessagesGrow DEF SessionInv, HandshakeFromPeer

\* Steps that leave the slots and the queues alone keep the rest.
LEMMA SessionFrame ==
  ASSUME SessionInv, [Next]_vars, keypairs' = keypairs, inbound' = inbound
  PROVE  SessionFromPeer' /\ InboundSent' /\ KeyConfirmed'
<1>1. SessionFromPeer'
  BY MessagesGrow DEF SessionInv, SessionFromPeer, Slots
<1>2. InboundSent'
  BY MessagesGrow, Zenon DEF SessionInv, InboundSent
<1>3. KeyConfirmed'
  BY MessagesGrow, Zenon DEF SessionInv, KeyConfirmed
<1> QED
  BY <1>1, <1>2, <1>3, Zenon

\* A derived keypair is of the peer's message; a responder's waits in next.
LEMMA SessionDerived ==
  ASSUME SessionInv, [Next]_vars, NEW q \in Peer, BeginSymmetricSession(q),
         inbound' = inbound
  PROVE  SessionFromPeer' /\ InboundSent' /\ KeyConfirmed'
<1> DEFINE k == NewKeypair(q)
           s == keypairs[q]
<1>1. keypairs' = [keypairs EXCEPT ![q] = RotatedKeypairs(s, k)]
  BY Zenon DEF BeginSymmetricSession
<1>2. /\ k \in Keypair
      /\ k.isInitiator => \E m \in responses :
           m.peer = Mirror[q] /\ m.key = k.key /\ m.sender = k.remoteIndex
      /\ ~k.isInitiator => \E m \in initiations :
           m.peer = Mirror[q] /\ m.ephemeral = k.key.ie /\ m.sender = k.remoteIndex
  <2>1. k \in Keypair
    BY Zenon DEF SessionInv, TypeOK, NewKeypair, Keypair, HandshakeRecord
  <2>2. handshake[q].state \in {"ResponseConsumed", "ResponseCreated"}
    BY Zenon DEF BeginSymmetricSession, DerivableState
  <2>3. CASE handshake[q].state = "ResponseConsumed"
    BY <2>1, <2>3, Zenon DEF SessionInv, HandshakeFromPeer, NewKeypair
  <2>4. CASE handshake[q].state = "ResponseCreated"
    BY <2>1, <2>4, Zenon DEF SessionInv, HandshakeFromPeer, NewKeypair
  <2> QED
    BY <2>2, <2>3, <2>4, Zenon
<1> HIDE DEF k
<1>3. \A p \in Peer : keypairs'[p] = IF p = q THEN RotatedKeypairs(s, k) ELSE keypairs[p]
  BY <1>1, Zenon DEF SessionInv, TypeOK
<1>4. Slots(q)' \subseteq Slots(q) \cup {k}
  BY <1>2, <1>3, SMTT(30) DEF Slots, RotatedKeypairs
<1>5. \A p \in Peer : p # q => Slots(p)' = Slots(p)
  BY <1>3, Zenon DEF Slots
<1>6. SessionFromPeer'
  <2> SUFFICES ASSUME NEW p \in Peer, NEW x \in Slots(p)'
               PROVE  IF x.isInitiator
                      THEN \E m \in responses' : m.peer = Mirror[p] /\ m.key = x.key
                                                  /\ m.sender = x.remoteIndex
                      ELSE \E m \in initiations' : m.peer = Mirror[p] /\ m.ephemeral = x.key.ie
                                                    /\ m.sender = x.remoteIndex
    BY Zenon DEF SessionFromPeer
  <2>1. CASE x \in Slots(p)
    BY <2>1, MessagesGrow, Zenon DEF SessionInv, SessionFromPeer
  <2>2. CASE p = q /\ x = k
    BY <1>2, <2>2, MessagesGrow, Zenon
  <2> QED
    BY <1>4, <1>5, <2>1, <2>2, Zenon
<1>7. InboundSent'
  BY <1>3, MessagesGrow DEF SessionInv, InboundSent, RotatedKeypairs
<1>8. KeyConfirmed'
  BY <1>3, MessagesGrow DEF SessionInv, KeyConfirmed, RotatedKeypairs
<1> QED
  BY <1>6, <1>7, <1>8, Zenon

\* Every step keeps the session invariant.
LEMMA StepSession == SessionInv /\ [Next]_vars => SessionInv'
<1> SUFFICES ASSUME SessionInv, [Next]_vars PROVE SessionInv'
  BY Zenon
<1> DEFINE Sessions == SessionFromPeer' /\ InboundSent' /\ KeyConfirmed'
<1>t. TypeOK /\ WorkerOK /\ TypeOK' /\ WorkerOK'
  BY StepType, Zenon DEF SessionInv
<1>h. \A q \in Peer : handshake[q] \in HandshakeRecord
  BY <1>t, Zenon DEF TypeOK
<1>m. \A q \in Peer : Mirror[q] \in Peer /\ Mirror[Mirror[q]] = q
  BY TopologyAssumption, Zenon
<1>1. ASSUME NEW w \in Worker, ConsumeMessageInitiation(w)
      PROVE  HandshakeFromPeer' /\ Sessions
  <2> DEFINE q == worker[w].peer
             m == worker[w].msg
  <2>1. q \in Peer /\ m \in initiations /\ m.peer = Mirror[q]
    <3>1. worker[w].pc = "initiationChecked"
      BY <1>1, Zenon DEF ConsumeMessageInitiation
    <3>2. q \in Peer /\ m \in initiations /\ Mirror[m.peer] = q
      BY <1>t, <3>1, Zenon DEF WorkerOK
    <3>3. m.peer \in Peer
      BY <1>t, <3>2, Zenon DEF TypeOK, MessageInitiation
    <3> QED
      BY <1>m, <3>2, <3>3, Zenon
  <2>2. \A p \in Peer : handshake'[p] =
          IF p = q THEN ConsumedInitiation(handshake[q], m) ELSE handshake[p]
    BY <1>1, <1>t, Zenon DEF ConsumeMessageInitiation, TypeOK
  <2>3. LET h == ConsumedInitiation(handshake[q], m)
        IN h.state = "InitiationConsumed" /\ h.transcript.ie = m.ephemeral
             /\ h.remoteIndex = m.sender
    BY <1>h, <2>1, Zenon DEF ConsumedInitiation, HandshakeRecord
  <2>4. HandshakeFromPeer'
    <3> HIDE DEF q, m
    <3> QED BY <2>1, <2>2, <2>3, MessagesGrow, SMTT(30) DEF SessionInv, HandshakeFromPeer
  <2> QED
    BY <1>1, <2>4, SessionFrame, Zenon DEF ConsumeMessageInitiation, local
<1>2. ASSUME NEW w \in Worker, ConsumeMessageResponse(w)
      PROVE  HandshakeFromPeer' /\ Sessions
  <2> DEFINE q == worker[w].peer
             m == worker[w].msg
  <2>1. q \in Peer /\ m \in responses /\ m.peer = Mirror[q]
    <3>1. worker[w].pc = "responseChecked"
      BY <1>2, Zenon DEF ConsumeMessageResponse
    <3>2. q \in Peer /\ m \in responses /\ Mirror[m.peer] = q
      BY <1>t, <3>1, Zenon DEF WorkerOK
    <3>3. m.peer \in Peer
      BY <1>t, <3>2, Zenon DEF TypeOK, MessageResponse
    <3> QED
      BY <1>m, <3>2, <3>3, Zenon
  <2>2. \A p \in Peer : handshake'[p] =
          IF p = q THEN ConsumedResponse(handshake[q], m) ELSE handshake[p]
    BY <1>2, <1>t, Zenon DEF ConsumeMessageResponse, TypeOK
  <2>3. LET h == ConsumedResponse(handshake[q], m)
        IN h.state = "ResponseConsumed" /\ h.transcript = m.key /\ h.remoteIndex = m.sender
    BY <1>h, <2>1, Zenon DEF ConsumedResponse, HandshakeRecord
  <2>4. HandshakeFromPeer'
    <3> HIDE DEF q, m
    <3> QED BY <2>1, <2>2, <2>3, MessagesGrow, SMTT(30) DEF SessionInv, HandshakeFromPeer
  <2> QED
    BY <1>2, <2>4, SessionFrame, Zenon DEF ConsumeMessageResponse, local
<1>3. ASSUME NEW w \in Worker, NEW i \in Index, CreateMessageResponse(w, i)
      PROVE  HandshakeFromPeer' /\ Sessions
  <2> DEFINE q == worker[w].peer
             e == ephemerals + 1
             key == [ie |-> handshake[q].transcript.ie, re |-> e]
  <2>1. q \in Peer /\ handshake[q].state = "InitiationConsumed"
    BY <1>3, <1>t, Zenon DEF CreateMessageResponse, WorkerOK
  <2>2. \A p \in Peer : handshake'[p] =
          IF p = q THEN Created(handshake[q], "ResponseCreated", key, e, i) ELSE handshake[p]
    <3>1. handshake' = [handshake EXCEPT ![q] =
                          Created(handshake[q], "ResponseCreated", key, e, i)]
      BY <1>3, ResponseHandshake, Zenon
    <3> HIDE DEF q, key, e
    <3> QED
      BY <1>t, <2>1, <3>1, Zenon DEF TypeOK
  <2>3. LET h == Created(handshake[q], "ResponseCreated", key, e, i)
        IN h.state = "ResponseCreated" /\ h.transcript.ie = handshake[q].transcript.ie
             /\ h.remoteIndex = handshake[q].remoteIndex
    BY <1>h, <2>1, Zenon DEF Created, HandshakeRecord
  <2>4. HandshakeFromPeer'
    <3> HIDE DEF q, e, key
    <3> QED BY <2>1, <2>2, <2>3, MessagesGrow, SMTT(30) DEF SessionInv, HandshakeFromPeer
  <2> QED
    BY <1>3, <2>4, SessionFrame, Zenon DEF CreateMessageResponse, local
<1>4. ASSUME NEW q \in Peer, NEW i \in Index, NEW ts, CreateMessageInitiation(q, i, ts)
      PROVE  HandshakeFromPeer' /\ Sessions
  <2> DEFINE e == ephemerals + 1
             h == Created(handshake[q], "InitiationCreated", [ie |-> e, re |-> 0], e, i)
  <2>1. \A p \in Peer : handshake'[p] = IF p = q THEN h ELSE handshake[p]
    BY <1>4, <1>t, Zenon DEF CreateMessageInitiation, TypeOK
  <2>2. h.state = "InitiationCreated"
    BY <1>h, Zenon DEF Created, HandshakeRecord
  <2>3. HandshakeFromPeer'
    <3> HIDE DEF h
    <3> QED BY <2>1, <2>2, MessagesGrow, SMTT(90) DEF SessionInv, HandshakeFromPeer
  <2> QED
    BY <1>4, <2>3, SessionFrame, Zenon DEF CreateMessageInitiation, local
<1>5. ASSUME NEW w \in Worker, DeriveAfterResponse(w) \/ SendHandshakeResponse(w)
      PROVE  HandshakeFromPeer' /\ Sessions
  <2> DEFINE q == worker[w].peer
  <2>1. q \in Peer /\ BeginSymmetricSession(q) /\ inbound' = inbound
    BY <1>5, <1>t, Zenon DEF DeriveAfterResponse, SendHandshakeResponse, WorkerOK, local
  <2>2. handshake' = [handshake EXCEPT ![q] = Clear(@)]
    BY <2>1, Zenon DEF BeginSymmetricSession
  <2> QED
    BY <2>1, <2>2, HandshakeFromPeerCleared, SessionDerived, Zenon
<1>6. ASSUME NEW q \in Peer, NEW k \in inbound[q], ReceivedWithKeypair(q, k)
      PROVE  HandshakeFromPeer' /\ Sessions
  <2> DEFINE s == keypairs[q]
             r == PromotedKeypairs(s)
  <2>1. HandshakeFromPeer'
    BY <1>6, HandshakeFromPeerFrame, Zenon DEF ReceivedWithKeypair
  <2>2. \A p \in Peer : inbound'[p] \subseteq inbound[p]
    BY <1>6, <1>t, Zenon DEF ReceivedWithKeypair, TypeOK
  <2>3. \A p \in Peer :
          \/ keypairs'[p] = keypairs[p]
          \/ p = q /\ s.next = k /\ keypairs'[p] = r
    <3>1. \/ keypairs' = keypairs
          \/ s.next = k /\ keypairs' = [keypairs EXCEPT ![q] = r]
      BY <1>6, Zenon DEF ReceivedWithKeypair
    <3> HIDE DEF r
    <3> QED
      BY <1>t, <3>1, Zenon DEF TypeOK
  <2>4. \A p \in Peer : Slots(p)' \subseteq Slots(p)
    BY <2>3 DEF Slots, PromotedKeypairs
  <2>5. SessionFromPeer'
    BY <2>4, MessagesGrow DEF SessionInv, SessionFromPeer
  <2>6. InboundSent'
    BY <2>2, <2>3, MessagesGrow DEF SessionInv, InboundSent, PromotedKeypairs
  <2>7. KeyConfirmed'
    BY <2>3, MessagesGrow DEF SessionInv, KeyConfirmed, InboundSent, PromotedKeypairs
  <2> QED
    BY <2>1, <2>5, <2>6, <2>7, Zenon
<1>7. ASSUME NEW q \in Peer, NEW who, ZeroKeypairs(q, who)
      PROVE  HandshakeFromPeer' /\ Sessions
  <2>1. HandshakeFromPeer'
    BY <1>7, HandshakeFromPeerFrame, Zenon DEF ZeroKeypairs
  <2>2. keypairs' = [keypairs EXCEPT ![q] = NoKeypairs] /\ inbound' = inbound
    BY <1>7, Zenon DEF ZeroKeypairs
  <2>3. \A p \in Peer : keypairs'[p] = IF p = q THEN NoKeypairs ELSE keypairs[p]
    BY <1>t, <2>2, Zenon DEF TypeOK
  <2>4. \A p \in Peer : Slots(p)' \subseteq Slots(p)
    BY <2>3 DEF Slots, NoKeypairs
  <2>5. SessionFromPeer'
    BY <2>4, MessagesGrow DEF SessionInv, SessionFromPeer
  <2>6. InboundSent' /\ KeyConfirmed'
    BY <2>2, <2>3, MessagesGrow DEF SessionInv, InboundSent, KeyConfirmed, NoKeypairs
  <2> QED
    BY <2>1, <2>5, <2>6, Zenon
<1>8. ASSUME NEW q \in Peer, ZeroHandshakeState(q) \/ ExpireHandshake(q)
      PROVE  HandshakeFromPeer' /\ Sessions
  <2>1. handshake' = [handshake EXCEPT ![q] = Clear(@)] /\ UNCHANGED <<keypairs, inbound>>
    BY <1>8 DEF ZeroHandshakeState, ExpireHandshake
  <2> QED
    BY <2>1, HandshakeFromPeerCleared, SessionFrame, Zenon
<1>9. ASSUME NEW m \in transports, ReceiveTransport(m)
      PROVE  HandshakeFromPeer' /\ Sessions
  <2> DEFINE e == table[DeviceOf[Mirror[m.peer]]][m.receiver]
  <2>1. HandshakeFromPeer'
    BY <1>9, HandshakeFromPeerFrame, Zenon DEF ReceiveTransport
  <2>2. keypairs' = keypairs /\ transports' = transports
        /\ \A p \in Peer : inbound'[p] \subseteq inbound[p] \cup {e.keypair}
    BY <1>9, <1>t, Zenon DEF ReceiveTransport, TypeOK, net
  <2>3. m.key = e.keypair.key /\ (~e.keypair.isInitiator => m.isInitiator)
    <3>1. e.keypair.key = m.key /\ e.keypair.isInitiator # m.isInitiator
      BY <1>9, Zenon DEF ReceiveTransport
    <3>2. m \in MessageTransport /\ m.receiver \in Index /\ m.peer \in Peer
      BY <1>t, Zenon DEF TypeOK, MessageTransport
    <3>3. e # Nil /\ e.keypair # Nil
      BY <1>9, Zenon DEF ReceiveTransport
    <3>4. e.keypair \in Keypair
      BY <1>m, <1>t, <3>2, <3>3, Parts, Zenon
    <3>5. m.isInitiator \in BOOLEAN /\ e.keypair.isInitiator \in BOOLEAN
      BY <3>2, <3>4, Zenon DEF MessageTransport, Keypair
    <3> HIDE DEF e
    <3> QED
      BY <3>1, <3>5, Zenon
  <2>4. SessionFromPeer' /\ KeyConfirmed'
    BY <2>2, MessagesGrow, SMTT(90) DEF SessionInv, SessionFromPeer, Slots, KeyConfirmed
  <2>5. InboundSent'
    BY <2>2, <2>3, Zenon DEF SessionInv, InboundSent
  <2> QED
    BY <2>1, <2>4, <2>5, Zenon
<1>10. ASSUME NEW q \in Peer, Start(q)
       PROVE  HandshakeFromPeer' /\ Sessions
  <2>1. HandshakeFromPeer'
    BY <1>10, HandshakeFromPeerFrame, Zenon DEF Start
  <2>2. keypairs' = keypairs /\ \A p \in Peer : inbound'[p] \subseteq inbound[p]
    BY <1>10, <1>t, Zenon DEF Start, TypeOK
  <2>3. SessionFromPeer' /\ KeyConfirmed'
    BY <2>2, MessagesGrow DEF SessionInv, SessionFromPeer, Slots, KeyConfirmed
  <2>4. InboundSent'
    BY <2>2, MessagesGrow, Zenon DEF SessionInv, InboundSent
  <2> QED
    BY <2>1, <2>3, <2>4, Zenon
<1>11. ASSUME UNCHANGED <<handshake, keypairs, inbound>>
       PROVE  HandshakeFromPeer' /\ Sessions
  BY <1>11, HandshakeFromPeerFrame, SessionFrame, Zenon
<1>12. HandshakeFromPeer' /\ Sessions
  BY Zenon, <1>1, <1>2, <1>3, <1>4, <1>5, <1>6, <1>7, <1>8, <1>9, <1>10, <1>11
  DEF Next, WorkerNext, PeerNext, CheckInitiation, CreateMessageResponseFails,
      CheckResponse, BeginSymmetricSessionFails, SendTransport, Stop,
      ExpireNonces, vars, local
<1> QED
  BY <1>t, <1>12, Zenon DEF SessionInv

\* It holds at first.
LEMMA InitSession == Init => SessionInv
<1>1. Init => HandshakeFromPeer /\ SessionFromPeer /\ InboundSent /\ KeyConfirmed
  BY SMTT(90) DEF Init, HandshakeFromPeer, SessionFromPeer, InboundSent, KeyConfirmed, Slots,
         NoKeypairs, ZeroHandshake
<1> QED
  BY <1>1, InitType, Zenon DEF SessionInv

\* The inductive invariant holds in every reachable state.
LEMMA SessionInvariant == Spec => []SessionInv
BY InitSession, StepSession, PTL DEF Spec

\* A keypair is always made from a message of the peer it is for, and sends to
\* the index in that message, however many workers handle its handshakes.
THEOREM SessionOrigin == Spec => []SessionFromPeer
<1>1. SessionInv => SessionFromPeer
  BY Zenon DEF SessionInv
<1> QED
  BY <1>1, SessionInvariant, PTL

\* A responder has a keypair as current only after the initiator sent a
\* transport message under it.
THEOREM KeyConfirmation == Spec => []KeyConfirmed
<1>1. SessionInv => KeyConfirmed
  BY Zenon DEF SessionInv
<1> QED
  BY <1>1, SessionInvariant, PTL

\* The last initiation timestamp of a peer never goes back.
THEOREM TimestampMonotonic == Spec => LastTimestampMonotonic
<1> DEFINE Later == \A q \in Peer : handshake'[q].lastTimestamp >= handshake[q].lastTimestamp
<1>1. TypeOK /\ WorkerOK /\ [Next]_vars => [Later]_vars
  <2> SUFFICES ASSUME TypeOK, WorkerOK, Next PROVE Later
    BY Zenon DEF vars
  <2>h. \A q \in Peer : /\ handshake[q] \in HandshakeRecord
                       /\ handshake[q].lastTimestamp \in Nat
    BY BoundAssumption DEF TypeOK, HandshakeRecord, Timestamp
  <2>u. \A h \in HandshakeRecord :
          /\ Clear(h).lastTimestamp = h.lastTimestamp
          /\ \A m : ConsumedResponse(h, m).lastTimestamp = h.lastTimestamp
          /\ \A st, key, e, i : Created(h, st, key, e, i).lastTimestamp = h.lastTimestamp
    BY Zenon DEF HandshakeRecord, Clear, ConsumedResponse, Created
  <2>v. \A h \in HandshakeRecord, m \in MessageInitiation :
          ConsumedInitiation(h, m).lastTimestamp >= h.lastTimestamp
    <3> SUFFICES ASSUME NEW h \in HandshakeRecord, NEW m \in MessageInitiation
                 PROVE  ConsumedInitiation(h, m).lastTimestamp >= h.lastTimestamp
      BY Zenon
    <3>1. h.lastTimestamp \in Nat /\ m.timestamp \in Nat
      BY BoundAssumption DEF HandshakeRecord, MessageInitiation, Timestamp
    <3>2. ConsumedInitiation(h, m).lastTimestamp =
            IF m.timestamp > h.lastTimestamp THEN m.timestamp ELSE h.lastTimestamp
      BY Zenon DEF ConsumedInitiation, HandshakeRecord
    <3> QED
      BY <3>1, <3>2
  <2>1. ASSUME handshake' = handshake PROVE Later
    BY <2>1, <2>h
  <2>2. ASSUME NEW q \in Peer, NEW h, handshake' = [handshake EXCEPT ![q] = h],
               h.lastTimestamp >= handshake[q].lastTimestamp
        PROVE  Later
    BY <2>2, <2>h DEF TypeOK
  <2>3. ASSUME NEW w \in Worker, ConsumeMessageInitiation(w) PROVE Later
    <3>1. worker[w].peer \in Peer /\ worker[w].msg \in MessageInitiation
      BY <2>3, Zenon DEF ConsumeMessageInitiation, WorkerOK, TypeOK
    <3> QED
      BY <2>2, <2>3, <2>h, <2>v, <3>1, Zenon DEF ConsumeMessageInitiation
  <2>4. ASSUME NEW w \in Worker, ConsumeMessageResponse(w) PROVE Later
    <3>1. worker[w].peer \in Peer
      BY <2>4, Zenon DEF ConsumeMessageResponse, WorkerOK
    <3> QED
      BY <2>2, <2>4, <2>h, <2>u, <3>1, SMTT(30) DEF ConsumeMessageResponse
  <2>5. ASSUME NEW w \in Worker, NEW i \in Index, CreateMessageResponse(w, i) PROVE Later
    <3>1. worker[w].peer \in Peer
      BY <2>5, Zenon DEF CreateMessageResponse, WorkerOK
    <3> DEFINE p == worker[w].peer
               e == ephemerals + 1
               h == Created(handshake[p], "ResponseCreated",
                            [ie |-> handshake[p].transcript.ie, re |-> e], e, i)
    <3>2. handshake' = [handshake EXCEPT ![p] = h]
      BY <2>5, ResponseHandshake, Zenon
    <3>3. h.lastTimestamp >= handshake[p].lastTimestamp
      BY <2>h, <2>u, <3>1
    <3> HIDE DEF p, e, h
    <3> QED
      BY <2>h, <3>1, <3>2, <3>3 DEF TypeOK
  <2>6. ASSUME NEW q \in Peer, NEW i, NEW ts, CreateMessageInitiation(q, i, ts) PROVE Later
    <3>1. handshake' = [handshake EXCEPT ![q] =
            Created(handshake[q], "InitiationCreated", [ie |-> ephemerals + 1, re |-> 0],
                    ephemerals + 1, i)]
      BY <2>6, Zenon DEF CreateMessageInitiation
    <3> QED
      BY <2>2, <2>h, <2>u, <3>1
  <2>7. ASSUME NEW q \in Peer, handshake' = [handshake EXCEPT ![q] = Clear(@)] PROVE Later
    BY <2>2, <2>7, <2>h, <2>u
  <2>8. ASSUME NEW w \in Worker, DeriveAfterResponse(w) \/ SendHandshakeResponse(w) PROVE Later
    <3>1. worker[w].peer \in Peer
      BY <2>8, Zenon DEF DeriveAfterResponse, SendHandshakeResponse, WorkerOK
    <3>2. BeginSymmetricSession(worker[w].peer)
      BY <2>8, Zenon DEF DeriveAfterResponse, SendHandshakeResponse
    <3> QED
      BY <2>7, <3>1, <3>2, Zenon DEF BeginSymmetricSession
  <2> QED
    BY Zenon, <2>1, <2>3, <2>4, <2>5, <2>6, <2>7, <2>8
    DEF Next, WorkerNext, PeerNext, CheckInitiation, CreateMessageResponseFails,
        CheckResponse, BeginSymmetricSessionFails, SendTransport, ReceiveTransport,
        ReceivedWithKeypair, Stop, ZeroKeypairs, ZeroHandshakeState, Start,
        ExpireHandshake, ExpireNonces
<1>2. Spec => [](TypeOK /\ WorkerOK)
  BY InitType, StepType, PTL DEF Spec
<1> QED
  BY <1>1, <1>2, PTL DEF Spec, LastTimestampMonotonic

-----------------------------------------------------------------------------
(* The index table: every entry is in use, and what is in use is found.     *)

\* Steps that touch neither the table, the slots nor a local index.
LEMMA IndexFrame ==
  ASSUME IndexTableInv, UNCHANGED <<table, keypairs>>,
         \A q \in Peer : handshake'[q].localIndex = handshake[q].localIndex
  PROVE  IndexTableSound' /\ IndexTableComplete' /\ SlotIndicesDistinct'
<1>1. IndexTableSound'
  <2> SUFFICES ASSUME NEW d \in Device, NEW i \in Index \ {ZeroIndex}, table'[d][i] # Nil
               PROVE  InUse(d, i, table[d][i])'
    BY Zenon DEF IndexTableSound
  <2>1. InUse(d, i, table[d][i]) /\ table[d][i].peer \in Peer
    BY Parts, Zenon DEF IndexTableInv, IndexTableSound
  <2> QED
    BY <2>1, Zenon DEF InUse, Slots
<1>2. IndexTableComplete'
  <2>1. \A q \in Peer : Slots(q)' = Slots(q)
    BY Zenon DEF Slots
  <2>2. \A i, k : \A q \in Peer : LeadsTo(i, q, k)' = LeadsTo(i, q, k)
    BY Zenon DEF LeadsTo
  <2> QED
    BY <2>1, <2>2, SMTT(30) DEF IndexTableInv, IndexTableComplete
<1>3. SlotIndicesDistinct'
  BY Zenon DEF IndexTableInv, SlotIndicesDistinct
<1> QED
  BY <1>1, <1>2, <1>3, Zenon

\* A handshake gives its index back (ZeroHandshakeState, ExpireHandshake).
LEMMA IndexDropped ==
  ASSUME IndexTableInv, NEW q \in Peer, keypairs' = keypairs,
         table' = [table EXCEPT ![DeviceOf[q]] = Delete(@, handshake[q].localIndex)],
         handshake' = [handshake EXCEPT ![q] = Clear(@)]
  PROVE  IndexTableSound' /\ IndexTableComplete' /\ SlotIndicesDistinct'
<1> DEFINE L(p) == handshake[p].localIndex
<1>1. \A d \in Device, i \in Index :
        table'[d][i] = IF d = DeviceOf[q] /\ i = L(q) THEN Nil ELSE table[d][i]
  <2>1. /\ DeviceOf[q] \in Device /\ L(q) \in Index
        /\ table[DeviceOf[q]] \in [Index -> IndexTableEntry \cup {Nil}]
    BY Parts, Zenon DEF IndexTableInv
  <2>2. \A i \in Index : Delete(table[DeviceOf[q]], L(q))[i] =
                           IF i = L(q) THEN Nil ELSE table[DeviceOf[q]][i]
    BY <2>1, DeleteOp, Zenon
  <2> QED
    BY <2>1, <2>2, Zenon DEF IndexTableInv, TypeOK
<1>2. \A p \in Peer : handshake'[p].localIndex = IF p = q THEN ZeroIndex ELSE L(p)
  BY DEF IndexTableInv, TypeOK, HandshakeRecord, Clear
<1>3. IndexTableSound'
  <2> SUFFICES ASSUME NEW d \in Device, NEW i \in Index \ {ZeroIndex}, table'[d][i] # Nil
               PROVE  InUse(d, i, table[d][i])'
    BY Zenon DEF IndexTableSound
  <2>1. table'[d][i] = table[d][i] /\ ~(d = DeviceOf[q] /\ i = L(q))
    BY <1>1, SMTT(90)
  <2>2. InUse(d, i, table[d][i]) /\ table[d][i].peer \in Peer
    BY <2>1, Parts, Zenon DEF IndexTableInv, IndexTableSound
  <2> QED
    BY <1>2, <2>1, <2>2, Zenon DEF InUse, Slots
<1>4. IndexTableComplete'
  <2>1. ASSUME NEW p \in Peer, handshake'[p].localIndex # ZeroIndex
        PROVE  LeadsTo(handshake[p].localIndex, p, Nil)'
    <3>1. p # q /\ handshake'[p].localIndex = L(p)
      BY <1>2, <2>1, Zenon
    <3>2. /\ LeadsTo(L(p), p, Nil) /\ L(p) \in Index /\ DeviceOf[p] \in Device
          /\ L(q) # ZeroIndex => LeadsTo(L(q), q, Nil)
      BY <2>1, <3>1, Parts, Zenon DEF IndexTableInv, IndexTableComplete
    <3>3. table'[DeviceOf[p]][L(p)] = table[DeviceOf[p]][L(p)]
      <4>1. DeviceOf[p] = DeviceOf[q] => L(p) # L(q)
        BY <2>1, <3>1, <3>2, Zenon DEF LeadsTo
      <4> QED
        BY <1>1, <3>2, <4>1, SMTT(30)
    <3> QED
      BY <3>1, <3>2, <3>3, Zenon DEF LeadsTo
  <2>2. ASSUME NEW p \in Peer, NEW k \in Slots(p), k.localIndex # ZeroIndex
        PROVE  LeadsTo(k.localIndex, p, k)'
    <3>1. k \in Keypair /\ k # Nil /\ k.localIndex \in Index
      BY Parts, Zenon DEF IndexTableInv, Slots
    <3> QED
      <4>1. /\ LeadsTo(k.localIndex, p, k) /\ DeviceOf[p] \in Device
            /\ L(q) # ZeroIndex => LeadsTo(L(q), q, Nil)
        BY <2>2, Parts, Zenon DEF IndexTableInv, IndexTableComplete
      <4>2. table'[DeviceOf[p]][k.localIndex] = table[DeviceOf[p]][k.localIndex]
        <5>1. DeviceOf[p] = DeviceOf[q] => k.localIndex # L(q)
          BY <2>2, <3>1, <4>1, Zenon DEF LeadsTo
        <5> QED
          BY <1>1, <3>1, <4>1, <5>1, SMTT(30)
      <4> QED
        BY <4>1, <4>2, Zenon DEF LeadsTo
  <2> QED
    BY <2>1, <2>2, Zenon DEF IndexTableComplete, Slots
<1>5. SlotIndicesDistinct'
  BY Zenon DEF IndexTableInv, SlotIndicesDistinct
<1> QED
  BY <1>3, <1>4, <1>5, Zenon

\* A handshake exchanges its index for a free one (CreateMessageInitiation,
\* CreateMessageResponse).
LEMMA IndexAllocated ==
  ASSUME IndexTableInv, NEW q \in Peer, NEW i \in Index, keypairs' = keypairs,
         FreeIndex(Delete(table[DeviceOf[q]], handshake[q].localIndex), i),
         table' = [table EXCEPT ![DeviceOf[q]] =
           NewIndexForHandshake(Delete(table[DeviceOf[q]], handshake[q].localIndex), i, q)],
         \A p \in Peer : handshake'[p].localIndex =
                          IF p = q THEN i ELSE handshake[p].localIndex
  PROVE  IndexTableSound' /\ IndexTableComplete' /\ SlotIndicesDistinct'
<1> DEFINE L(p) == handshake[p].localIndex
           freed == Delete(table[DeviceOf[q]], L(q))
<1>0. /\ DeviceOf[q] \in Device /\ L(q) \in Index
      /\ freed \in [Index -> IndexTableEntry \cup {Nil}]
      /\ \A j \in Index : freed[j] = IF j = L(q) THEN Nil ELSE table[DeviceOf[q]][j]
  <2>1. /\ DeviceOf[q] \in Device /\ L(q) \in Index
        /\ table[DeviceOf[q]] \in [Index -> IndexTableEntry \cup {Nil}]
    BY Parts, Zenon DEF IndexTableInv
  <2> QED
    BY <2>1, DeleteOp, Zenon
<1>1. \A d \in Device, j \in Index :
        table'[d][j] = IF d # DeviceOf[q] THEN table[d][j]
                       ELSE IF j = i THEN [peer |-> q, keypair |-> Nil]
                       ELSE IF j = L(q) THEN Nil ELSE table[d][j]
  <2>1. \A j \in Index : NewIndexForHandshake(freed, i, q)[j] =
                           IF j = i THEN [peer |-> q, keypair |-> Nil] ELSE freed[j]
    BY <1>0, NewIndexOp, SMTT(90)
  <2> QED
    BY <1>0, <2>1, Zenon DEF IndexTableInv, TypeOK
<1>2. i = L(q) \/ table[DeviceOf[q]][i] = Nil
  BY <1>0, Zenon DEF FreeIndex
<1>3. IndexTableSound'
  <2> SUFFICES ASSUME NEW d \in Device, NEW j \in Index \ {ZeroIndex}, table'[d][j] # Nil
               PROVE  InUse(d, j, table[d][j])'
    BY Zenon DEF IndexTableSound
  <2>1. CASE d = DeviceOf[q] /\ j = i
    <3>1. table'[d][j] = [peer |-> q, keypair |-> Nil] /\ handshake'[q].localIndex = j
      BY <1>0, <1>1, <2>1, Zenon
    <3> QED
      <4>1. PICK e : e = table'[d][j]
        BY Zenon
      <4>2. e.peer = q /\ e.keypair = Nil
        BY <3>1, <4>1
      <4> QED
        BY <2>1, <3>1, <4>1, <4>2, Zenon DEF InUse
  <2>2. CASE ~(d = DeviceOf[q] /\ j = i)
    <3>1. table'[d][j] = table[d][j] /\ ~(d = DeviceOf[q] /\ j = L(q))
      BY <1>1, <2>2
    <3>2. InUse(d, j, table[d][j]) /\ table[d][j].peer \in Peer
      BY <3>1, Parts, Zenon DEF IndexTableInv, IndexTableSound
    <3> QED
      BY <3>1, <3>2, Zenon DEF InUse, Slots
  <2> QED
    BY <2>1, <2>2, Zenon
<1>4. IndexTableComplete'
  <2>0. [peer |-> q, keypair |-> Nil] # Nil
    BY NilAssumption, NilEntryAssumption DEF IndexTableEntry
  <2>1. ASSUME NEW p \in Peer, handshake'[p].localIndex # ZeroIndex
        PROVE  LeadsTo(handshake[p].localIndex, p, Nil)'
    <3>1. CASE p = q
      <4>1. handshake'[p].localIndex = i /\ table'[DeviceOf[p]][i] = [peer |-> q, keypair |-> Nil]
        BY <1>0, <1>1, <3>1, ZenonT(60)
      <4> QED
        <5>1. PICK e : e = [peer |-> q, keypair |-> Nil]
          BY Zenon
        <5>2. e # Nil /\ e.peer = q /\ e.keypair = Nil
          BY <2>0, <5>1
        <5> QED
          BY <3>1, <4>1, <5>1, <5>2, Zenon DEF LeadsTo
    <3>2. CASE p # q
      <4>1. /\ L(p) \in Index /\ L(p) # ZeroIndex /\ LeadsTo(L(p), p, Nil)
            /\ L(q) # ZeroIndex => LeadsTo(L(q), q, Nil)
        BY <2>1, <3>2, Parts, Zenon DEF IndexTableInv, IndexTableComplete
      <4>2. handshake'[p].localIndex = L(p) /\ DeviceOf[p] \in Device
        BY <3>2, TopologyAssumption, Zenon
      <4>3. table'[DeviceOf[p]][L(p)] = table[DeviceOf[p]][L(p)]
        <5>1. DeviceOf[p] = DeviceOf[q] => L(p) # L(q)
          BY <3>2, <4>1, Zenon DEF LeadsTo
        <5>2. DeviceOf[p] = DeviceOf[q] => L(p) # i
          BY <1>2, <4>1, <5>1, Zenon DEF LeadsTo
        <5> QED
          BY <1>1, <4>1, <4>2, <5>1, <5>2, SMTT(30)
      <4> QED
        BY <4>1, <4>2, <4>3, Zenon DEF LeadsTo
    <3> QED
      BY <3>1, <3>2, Zenon
  <2>2. ASSUME NEW p \in Peer, NEW k \in Slots(p), k.localIndex # ZeroIndex
        PROVE  LeadsTo(k.localIndex, p, k)'
    <3>1. k \in Keypair /\ k # Nil /\ k.localIndex \in Index
      BY Parts, Zenon DEF IndexTableInv, Slots
    <3>2. LeadsTo(k.localIndex, p, k) /\ (L(q) # ZeroIndex => LeadsTo(L(q), q, Nil))
      BY <2>2, Zenon DEF IndexTableInv, IndexTableComplete
    <3> QED
      <4>1. DeviceOf[p] \in Device
        BY TopologyAssumption, Zenon
      <4>2. table'[DeviceOf[p]][k.localIndex] = table[DeviceOf[p]][k.localIndex]
        <5>1. DeviceOf[p] = DeviceOf[q] => k.localIndex # L(q)
          BY <2>2, <3>1, <3>2, Zenon DEF LeadsTo
        <5>2. DeviceOf[p] = DeviceOf[q] => k.localIndex # i
          BY <1>2, <3>2, <5>1, Zenon DEF LeadsTo
        <5> QED
          BY <1>1, <3>1, <4>1, <5>1, <5>2, SMTT(30)
      <4> QED
        BY <3>2, <4>2, Zenon DEF LeadsTo
  <2> QED
    BY <2>1, <2>2, Zenon DEF IndexTableComplete, Slots
<1>5. SlotIndicesDistinct'
  BY Zenon DEF IndexTableInv, SlotIndicesDistinct
<1> QED
  BY <1>3, <1>4, <1>5, Zenon

\* Slots lose keypairs together with their indices (ReceivedWithKeypair,
\* ZeroKeypairs).
LEMMA IndexSlotsDropped ==
  ASSUME IndexTableInv, NEW q \in Peer, handshake' = handshake,
         \A p \in Peer : p # q => keypairs'[p] = keypairs[p],
         Slots(q)' \subseteq Slots(q), SlotIndicesDistinct',
         \A d \in Device, j \in Index \ {ZeroIndex} :
           table'[d][j] = IF d = DeviceOf[q] /\ \E x \in Slots(q) \ Slots(q)' : x.localIndex = j
                          THEN Nil ELSE table[d][j],
         \A x, y \in Slots(q) : x # y /\ x.localIndex # ZeroIndex => x.localIndex # y.localIndex
  PROVE  IndexTableSound' /\ IndexTableComplete'
<1>1. IndexTableSound'
  <2> SUFFICES ASSUME NEW d \in Device, NEW j \in Index \ {ZeroIndex}, table'[d][j] # Nil
               PROVE  InUse(d, j, table[d][j])'
    BY Zenon DEF IndexTableSound
  <2>1. /\ table'[d][j] = table[d][j]
        /\ d = DeviceOf[q] => \A x \in Slots(q) \ Slots(q)' : x.localIndex # j
    BY Zenon
  <2>2. InUse(d, j, table[d][j]) /\ table[d][j].peer \in Peer
    BY <2>1, Parts, Zenon DEF IndexTableInv, IndexTableSound
  <2>3. CASE table[d][j].peer = q
    BY <2>1, <2>2, <2>3, Zenon DEF InUse
  <2>4. CASE table[d][j].peer # q
    BY <2>1, <2>2, <2>4, Zenon DEF InUse, Slots
  <2> QED
    BY <2>3, <2>4, Zenon
<1>2. IndexTableComplete'
  <2>0. \A x \in Slots(q) : x \in Keypair /\ x # Nil /\
                             (x.localIndex # ZeroIndex => LeadsTo(x.localIndex, q, x))
    BY Parts, SMTT(90) DEF IndexTableInv, IndexTableComplete, Slots
  <2>1. ASSUME NEW p \in Peer, handshake[p].localIndex # ZeroIndex
        PROVE  LeadsTo(handshake[p].localIndex, p, Nil)'
    <3>1. LeadsTo(handshake[p].localIndex, p, Nil) /\ handshake[p].localIndex \in Index
      BY <2>1, Parts, Zenon DEF IndexTableInv, IndexTableComplete
    <3> QED
      <4>1. DeviceOf[p] \in Device
        BY TopologyAssumption, Zenon
      <4>2. table'[DeviceOf[p]][handshake[p].localIndex] = table[DeviceOf[p]][handshake[p].localIndex]
        <5>1. DeviceOf[p] = DeviceOf[q]
              => ~\E x \in Slots(q) : x.localIndex = handshake[p].localIndex
          BY <2>0, <2>1, <3>1, SMTT(30) DEF LeadsTo
        <5> QED
          BY <2>1, <3>1, <4>1, <5>1, SMTT(30)
      <4> QED
        BY <3>1, <4>2, Zenon DEF LeadsTo
  <2>2. ASSUME NEW p \in Peer, NEW k \in Slots(p)', k.localIndex # ZeroIndex
        PROVE  LeadsTo(k.localIndex, p, k)'
    <3>1. k \in Slots(p)
      BY Zenon DEF Slots
    <3>2. LeadsTo(k.localIndex, p, k) /\ k.localIndex \in Index
      <4>1. k \in Keypair
        BY <3>1, Parts, SMTT(30) DEF IndexTableInv, Slots
      <4> QED
        BY <2>2, <3>1, <4>1, Parts, Zenon DEF IndexTableInv, IndexTableComplete
    <3>3. DeviceOf[p] \in Device
      BY TopologyAssumption, Zenon
    <3>4. DeviceOf[p] = DeviceOf[q]
          => ~\E x \in Slots(q) \ Slots(q)' : x.localIndex = k.localIndex
      <4> SUFFICES ASSUME NEW x \in Slots(q), x \notin Slots(q)', DeviceOf[p] = DeviceOf[q],
                          x.localIndex = k.localIndex
                   PROVE  FALSE
        BY Zenon
      <4>1. LeadsTo(k.localIndex, q, x)
        BY <2>0, <2>2, Zenon
      <4>2. p = q /\ x = k
        BY <3>2, <4>1, Zenon DEF LeadsTo
      <4> QED
        BY <2>2, <4>2, Zenon
    <3>5. table'[DeviceOf[p]][k.localIndex] = table[DeviceOf[p]][k.localIndex]
      BY <2>2, <3>2, <3>3, <3>4, Zenon
    <3> QED
      BY <3>2, <3>5, Zenon DEF LeadsTo
  <2> QED
    BY <2>1, <2>2, Zenon DEF IndexTableComplete
<1> QED
  BY <1>1, <1>2, Zenon

\* SlotIndicesDistinct, as a fact about the set of keypairs of a peer.
LEMMA SlotsApart ==
  ASSUME IndexTableInv, NEW q \in Peer
  PROVE  \A x, y \in Slots(q) :
           x # y /\ x.localIndex # ZeroIndex => x.localIndex # y.localIndex
BY Zenon DEF IndexTableInv, SlotIndicesDistinct, Slots

\* Two slots, and the three of a peer, that share no index in use.
Apart(x, y) ==
  x # Nil /\ y # Nil /\ x.localIndex # ZeroIndex => x.localIndex # y.localIndex
DistinctIn(r) ==
  Apart(r.previous, r.current) /\ Apart(r.previous, r.next) /\ Apart(r.current, r.next)

\* A handshake that is replaced is the only one that changes.
LEMMA HandshakeAt ==
  ASSUME TypeOK, NEW p, NEW h, handshake' = [handshake EXCEPT ![p] = h]
  PROVE  \A q \in Peer : handshake'[q] = IF q = p THEN h ELSE handshake[q]
BY Zenon DEF TypeOK

\* The slots after BeginSymmetricSession: an initiator makes the new keypair
\* current, a responder leaves it in next.
LEMMA RotatedFields ==
  ASSUME NEW s, NEW k, NEW r, r = RotatedKeypairs(s, k)
  PROVE  /\ k.isInitiator => /\ r.previous \in {s.current, s.next}
                             /\ r.current = k /\ r.next = Nil
         /\ ~k.isInitiator => r.previous = Nil /\ r.current = s.current /\ r.next = k
<1>1. CASE k.isInitiator
  <2>1. r = [previous |-> IF s.next # Nil THEN s.next ELSE s.current,
             current |-> k, next |-> Nil]
    BY <1>1, Zenon DEF RotatedKeypairs
  <2>2. /\ r.previous = IF s.next # Nil THEN s.next ELSE s.current
        /\ r.current = k /\ r.next = Nil
    BY <2>1
  <2> QED
    BY <1>1, <2>2, Zenon
<1>2. CASE ~k.isInitiator
  <2>1. r = [previous |-> Nil, current |-> s.current, next |-> k]
    BY <1>2, Zenon DEF RotatedKeypairs
  <2> QED
    BY <1>2, <2>1
<1> QED
  BY <1>1, <1>2, Zenon

\* BeginSymmetricSession turns the handshake's index into the keypair's, and
\* every keypair it drops loses its own.
LEMMA IndexDerived ==
  ASSUME IndexTableInv, NEW q \in Peer, BeginSymmetricSession(q)
  PROVE  IndexTableSound' /\ IndexTableComplete' /\ SlotIndicesDistinct'
<1> DEFINE L(p) == handshake[p].localIndex
           k == NewKeypair(q)
           s == keypairs[q]
           D == DroppedKeypair(s, k)
           swapped == SwapIndexForKeypair(table[DeviceOf[q]], L(q), k)
           Dropped(j) == \/ D # Nil /\ j = D.localIndex
                         \/ s.previous # Nil /\ j = s.previous.localIndex
<1>1. /\ DeviceOf[q] \in Device /\ L(q) \in Index
      /\ table[DeviceOf[q]] \in [Index -> IndexTableEntry \cup {Nil}]
      /\ s \in Keypairs
      /\ s.previous \in Keypair \cup {Nil} /\ s.current \in Keypair \cup {Nil}
      /\ s.next \in Keypair \cup {Nil}
  BY Parts, Zenon DEF IndexTableInv
<1>2. k \in Keypair /\ k # Nil /\ k.localIndex = L(q)
  <2>1. k \in Keypair
    BY <1>1, RotationType, Zenon DEF IndexTableInv
  <2> QED
    BY <2>1, NilAssumption, Zenon DEF NewKeypair
<1>3. D \in Keypair \cup {Nil}
  BY <1>1, Zenon DEF DroppedKeypair
<1>4. /\ swapped \in [Index -> IndexTableEntry \cup {Nil}]
      /\ \A j \in Index : swapped[j] =
           IF j = L(q) /\ table[DeviceOf[q]][L(q)] # Nil
           THEN [peer |-> table[DeviceOf[q]][L(q)].peer, keypair |-> k]
           ELSE table[DeviceOf[q]][j]
  BY <1>1, <1>2, SwapIndexOp, Zenon
<1>5. \A j \in Index : RotatedTable(swapped, s, k)[j] = IF Dropped(j) THEN Nil ELSE swapped[j]
  <2> HIDE DEF swapped, D, s, k
  <2>1. /\ DeleteKeypair(swapped, D) \in [Index -> IndexTableEntry \cup {Nil}]
        /\ \A j \in Index : DeleteKeypair(swapped, D)[j] =
             IF D # Nil /\ j = D.localIndex THEN Nil ELSE swapped[j]
    BY <1>3, <1>4, DeleteKeypairOp, Zenon
  <2>2. \A j \in Index : DeleteKeypair(DeleteKeypair(swapped, D), s.previous)[j] =
          IF s.previous # Nil /\ j = s.previous.localIndex THEN Nil
          ELSE DeleteKeypair(swapped, D)[j]
    BY <1>1, <2>1, DeleteKeypairOp, Zenon
  <2> QED
    BY <2>1, <2>2, Zenon DEF RotatedTable, D
<1>6. \A d \in Device, j \in Index :
        table'[d][j] = IF d # DeviceOf[q] THEN table[d][j]
                       ELSE IF Dropped(j) THEN Nil ELSE swapped[j]
  <2>1. table' = [table EXCEPT ![DeviceOf[q]] = RotatedTable(swapped, s, k)]
    BY <1>2, Zenon DEF BeginSymmetricSession
  <2> HIDE DEF swapped, Dropped, s, k
  <2> QED
    BY <1>5, <2>1, Zenon DEF IndexTableInv, TypeOK
<1>7. \A p \in Peer : handshake'[p].localIndex = IF p = q THEN ZeroIndex ELSE L(p)
  <2>1. handshake' = [handshake EXCEPT ![q] = Clear(@)]
    BY Zenon DEF BeginSymmetricSession
  <2> QED
    BY <2>1 DEF IndexTableInv, TypeOK, HandshakeRecord, Clear
<1>8. \A p \in Peer : keypairs'[p] = IF p = q THEN RotatedKeypairs(s, k) ELSE keypairs[p]
  <2>1. keypairs' = [keypairs EXCEPT ![q] = RotatedKeypairs(s, k)]
    BY Zenon DEF BeginSymmetricSession
  <2> HIDE DEF k
  <2> QED
    BY <2>1, Zenon DEF IndexTableInv, TypeOK
<1>9. /\ L(q) # ZeroIndex => LeadsTo(L(q), q, Nil)
      /\ \A x \in Slots(q) :
           /\ x \in Keypair /\ x # Nil /\ x.localIndex \in Index
           /\ x.localIndex # ZeroIndex =>
                LeadsTo(x.localIndex, q, x) /\ x.localIndex # L(q)
  <2>1. \A x \in Slots(q) : x \in Keypair /\ x # Nil /\ x.localIndex \in Index
    BY Parts, Zenon DEF IndexTableInv, Slots
  <2>2. L(q) # ZeroIndex => LeadsTo(L(q), q, Nil)
    BY Zenon DEF IndexTableInv, IndexTableComplete
  <2>3. \A x \in Slots(q) : x.localIndex # ZeroIndex => LeadsTo(x.localIndex, q, x)
    BY Zenon DEF IndexTableInv, IndexTableComplete
  <2> QED
    BY <2>1, <2>2, <2>3, Zenon DEF LeadsTo
\* A slot holds the new keypair or one of the old that was not dropped.
<1>10. /\ Slots(q)' \subseteq Slots(q) \cup {k} /\ k \in Slots(q)'
       /\ \A x \in Slots(q) : x \in Slots(q)' \/ x = D \/ x = s.previous
       /\ \A x \in Slots(q)' : x # k /\ x.localIndex # ZeroIndex => ~Dropped(x.localIndex)
       /\ D # Nil => D \in Slots(q)
       /\ s.previous # Nil => s.previous \in Slots(q)
  <2> HIDE DEF k
  <2> QED
    BY <1>1, <1>2, <1>8, SMTT(200) DEF Slots, RotatedKeypairs, DroppedKeypair, IndexTableInv, SlotIndicesDistinct
<1> HIDE DEF k, D, s
<1>11. IndexTableSound'
  <2> SUFFICES ASSUME NEW d \in Device, NEW j \in Index \ {ZeroIndex}, table'[d][j] # Nil
               PROVE  InUse(d, j, table[d][j])'
    BY Zenon DEF IndexTableSound
  <2>1. CASE d = DeviceOf[q] /\ j = L(q)
    <3>1. table'[d][j] = [peer |-> q, keypair |-> k]
      <4>1. LeadsTo(L(q), q, Nil) /\ table'[d][j] = swapped[L(q)]
        BY <1>1, <1>6, <1>9, <2>1, Zenon
      <4> QED
        BY <1>1, <1>4, <4>1, Zenon DEF LeadsTo
    <3> QED
      BY <1>2, <1>10, <2>1, <3>1, SMTT(90) DEF InUse
  <2>2. CASE ~(d = DeviceOf[q] /\ j = L(q))
    <3>1. table'[d][j] = table[d][j] /\ (d = DeviceOf[q] => ~Dropped(j))
      BY <1>4, <1>6, <2>2, Zenon
    <3>2. InUse(d, j, table[d][j]) /\ table[d][j].peer \in Peer
      BY <3>1, Parts, Zenon DEF IndexTableInv, IndexTableSound
    <3>3. CASE table[d][j].peer = q
      BY <1>10, <2>2, <3>1, <3>2, <3>3, Zenon DEF InUse
    <3>4. CASE table[d][j].peer # q
      BY <1>7, <1>8, <3>1, <3>2, <3>4, Zenon DEF InUse, Slots
    <3> QED
      BY <3>3, <3>4, Zenon
  <2> QED
    BY <2>1, <2>2, Zenon
<1>12. IndexTableComplete'
  <2>0. ASSUME NEW p \in Peer, NEW j \in Index \ {ZeroIndex}, NEW x,
               p # q, LeadsTo(j, p, x)
        PROVE  LeadsTo(j, p, x)'
    <3>1. DeviceOf[p] = DeviceOf[q] => ~Dropped(j) /\ j # L(q)
      BY <1>9, <1>10, <2>0, ZenonT(60) DEF LeadsTo
    <3> QED
      <4>1. DeviceOf[p] \in Device
        BY TopologyAssumption, Zenon
      <4>2. table'[DeviceOf[p]][j] = table[DeviceOf[p]][j]
        BY <1>4, <1>6, <3>1, <4>1, Zenon
      <4> QED
        BY <2>0, <4>2, Zenon DEF LeadsTo
  <2>1. ASSUME NEW p \in Peer, handshake'[p].localIndex # ZeroIndex
        PROVE  LeadsTo(handshake[p].localIndex, p, Nil)'
    <3>1. p # q /\ handshake'[p].localIndex = L(p)
      BY <1>7, <2>1, Zenon
    <3>2. LeadsTo(L(p), p, Nil) /\ L(p) \in Index \ {ZeroIndex}
      BY <2>1, <3>1, Parts, Zenon DEF IndexTableInv, IndexTableComplete
    <3>3. LeadsTo(L(p), p, Nil)'
      BY <2>0, <3>1, <3>2, Zenon
    <3> QED
      BY <3>1, <3>3, Zenon
  <2>2. ASSUME NEW p \in Peer, NEW x \in Slots(p)', x.localIndex # ZeroIndex
        PROVE  LeadsTo(x.localIndex, p, x)'
    <3>1. CASE p # q
      <4>1. x \in Slots(p)
        BY <1>8, <3>1, Zenon DEF Slots
      <4>2. LeadsTo(x.localIndex, p, x) /\ x.localIndex \in Index \ {ZeroIndex}
        BY <2>2, <4>1, Parts, Zenon DEF IndexTableInv, IndexTableComplete, Slots
      <4> QED
        BY <2>0, <3>1, <4>2, Zenon
    <3>2. CASE p = q /\ x = k
      <4>1. ~Dropped(L(q)) /\ LeadsTo(L(q), q, Nil)
        BY <1>2, <1>9, <1>10, <2>2, <3>2, Zenon
      <4>2. table'[DeviceOf[q]][L(q)] = [peer |-> q, keypair |-> k]
        BY <1>1, <1>4, <1>6, <4>1, Zenon DEF LeadsTo
      <4>3. [peer |-> q, keypair |-> k] # Nil
        BY <1>2, NilEntryAssumption DEF IndexTableEntry
      <4> QED
        BY <1>2, <3>2, <4>2, <4>3, SMTT(30) DEF LeadsTo
    <3>3. CASE p = q /\ x # k
      <4>1. x \in Slots(q) /\ ~Dropped(x.localIndex)
        BY <1>10, <2>2, <3>3, Zenon
      <4>2. LeadsTo(x.localIndex, q, x) /\ x.localIndex # L(q) /\ x.localIndex \in Index
        BY <1>9, <2>2, <4>1, Zenon
      <4> QED
        <5>1. table'[DeviceOf[q]][x.localIndex] = table[DeviceOf[q]][x.localIndex]
          BY <1>1, <1>4, <1>6, <4>1, <4>2, Zenon
        <5> QED
          BY <3>3, <4>2, <5>1, Zenon DEF LeadsTo
    <3> QED
      BY <3>1, <3>2, <3>3, Zenon
  <2> QED
    BY <2>1, <2>2, Zenon DEF IndexTableComplete
<1>13. SlotIndicesDistinct'
  <2>1. ASSUME NEW p \in Peer, p # q
        PROVE  keypairs'[p] = keypairs[p]
    BY <1>8, <2>1, Zenon
  <2>2. keypairs'[q] = RotatedKeypairs(s, k)
    BY <1>8, Zenon
  <2>3. \A x \in {s.previous, s.current, s.next} : x # Nil /\ k.localIndex # ZeroIndex
           => x.localIndex # k.localIndex
    BY <1>2, <1>9, Zenon DEF Slots, s
  <2>4. \A x \in {s.previous, s.current, s.next} : x # Nil /\ x.localIndex # ZeroIndex
           => x.localIndex # k.localIndex
    BY <2>3, Zenon
  <2> HIDE DEF s, k
  <2>5. ASSUME NEW p \in Peer, p # q
        PROVE  DistinctIn(keypairs'[p])
    <3>1. DistinctIn(keypairs[p])
      BY Zenon DEF IndexTableInv, SlotIndicesDistinct, DistinctIn, Apart
    <3> QED
      BY <2>1, <2>5, <3>1, Zenon
  <2>6. DistinctIn(keypairs'[q])
    <3>1. PICK r : r = keypairs'[q]
      BY Zenon
    <3>4. r = RotatedKeypairs(s, k)
      BY <2>2, <3>1, Zenon
    <3>5. /\ k.isInitiator => /\ r.previous \in {s.current, s.next}
                              /\ r.current = k /\ r.next = Nil
          /\ ~k.isInitiator => r.previous = Nil /\ r.current = s.current /\ r.next = k
      BY <3>4, RotatedFields
    <3>2. CASE k.isInitiator
      <4>1. /\ r.previous \in {s.current, s.next}
            /\ r.current = k /\ r.next = Nil
        BY <3>2, <3>5, Zenon
      <4>2. Apart(r.previous, k)
        BY <2>4, <4>1, Zenon DEF Apart
      <4>3. Apart(r.previous, Nil) /\ Apart(k, Nil)
        BY Zenon DEF Apart
      <4> QED
        BY <3>1, <4>1, <4>2, <4>3, Zenon DEF DistinctIn
    <3>3. CASE ~k.isInitiator
      <4>1. r.previous = Nil /\ r.current = s.current /\ r.next = k
        BY <3>3, <3>5, Zenon
      <4>2. Apart(s.current, k)
        BY <2>4, Zenon DEF Apart
      <4> QED
        BY <3>1, <4>1, <4>2, Zenon DEF DistinctIn, Apart
    <3> QED
      BY <3>2, <3>3, Zenon
  <2>7. \A p \in Peer : DistinctIn(keypairs'[p])
    BY <2>5, <2>6, Zenon
  <2> QED
    BY <2>7, Zenon DEF SlotIndicesDistinct, DistinctIn, Apart
<1> QED
  BY <1>11, <1>12, <1>13, Zenon

\* Every step keeps the index table invariant.
LEMMA StepIndex == IndexTableInv /\ [Next]_vars => IndexTableInv'
<1> SUFFICES ASSUME IndexTableInv, [Next]_vars PROVE IndexTableInv'
  BY Zenon
<1> DEFINE Goal == IndexTableSound' /\ IndexTableComplete' /\ SlotIndicesDistinct'
<1>t. TypeOK /\ WorkerOK /\ TypeOK' /\ WorkerOK'
  BY StepType, Zenon DEF IndexTableInv
<1>h. \A q \in Peer : handshake[q] \in HandshakeRecord
  BY <1>t, Zenon DEF TypeOK
<1>u. \A h \in HandshakeRecord :
        /\ \A m : ConsumedInitiation(h, m).localIndex = h.localIndex
        /\ \A m : ConsumedResponse(h, m).localIndex = h.localIndex
        /\ \A st, key, e, i : Created(h, st, key, e, i).localIndex = i
  BY Zenon DEF HandshakeRecord, ConsumedInitiation, ConsumedResponse, Created
<1>1. ASSUME NEW w \in Worker, ConsumeMessageInitiation(w) PROVE Goal
  <2>1. \A q \in Peer : handshake'[q].localIndex = handshake[q].localIndex
    <3>1. handshake' = [handshake EXCEPT ![worker[w].peer] =
                          ConsumedInitiation(handshake[worker[w].peer], worker[w].msg)]
      BY <1>1, Zenon DEF ConsumeMessageInitiation
    <3>2. \A q \in Peer : handshake'[q] = handshake[q]
             \/ handshake'[q] = ConsumedInitiation(handshake[q], worker[w].msg)
      BY <1>t, <3>1, HandshakeAt, SMTT(30)
    <3> QED
      BY <1>h, <1>u, <3>2, SMTT(30)
  <2> QED
    BY <1>1, <2>1, IndexFrame, Zenon DEF ConsumeMessageInitiation
<1>2. ASSUME NEW w \in Worker, ConsumeMessageResponse(w) PROVE Goal
  <2>1. \A q \in Peer : handshake'[q].localIndex = handshake[q].localIndex
    <3>1. handshake' = [handshake EXCEPT ![worker[w].peer] =
                          ConsumedResponse(handshake[worker[w].peer], worker[w].msg)]
      BY <1>2, Zenon DEF ConsumeMessageResponse
    <3>2. \A q \in Peer : handshake'[q] = handshake[q]
             \/ handshake'[q] = ConsumedResponse(handshake[q], worker[w].msg)
      BY <1>t, <3>1, HandshakeAt, SMTT(30)
    <3> QED
      BY <1>h, <1>u, <3>2, SMTT(30)
  <2> QED
    BY <1>2, <2>1, IndexFrame, Zenon DEF ConsumeMessageResponse
<1>3. ASSUME NEW w \in Worker, NEW i \in Index, CreateMessageResponse(w, i) PROVE Goal
  <2> DEFINE q == worker[w].peer
  <2>1. q \in Peer
    BY <1>3, <1>t, Zenon DEF CreateMessageResponse, WorkerOK
  <2>2. \A p \in Peer : handshake'[p].localIndex = IF p = q THEN i ELSE handshake[p].localIndex
    <3>1. PICK key, e : handshake' =
            [handshake EXCEPT ![q] = Created(handshake[q], "ResponseCreated", key, e, i)]
      BY <1>3, Zenon DEF CreateMessageResponse
    <3>2. PICK h : h = Created(handshake[q], "ResponseCreated", key, e, i)
      BY Zenon
    <3>3. \A p \in Peer : handshake'[p] = IF p = q THEN h ELSE handshake[p]
      <4>1. handshake' = [handshake EXCEPT ![q] = h]
        BY <3>1, <3>2, Zenon
      <4> QED
        BY <1>t, <4>1, Zenon DEF TypeOK
    <3>4. h.localIndex = i
      BY <1>h, <1>u, <2>1, <3>2, SMTT(30)
    <3> QED
      BY <3>3, <3>4, Zenon
  <2>3. /\ keypairs' = keypairs
        /\ FreeIndex(Delete(table[DeviceOf[q]], handshake[q].localIndex), i)
        /\ table' = [table EXCEPT ![DeviceOf[q]] =
             NewIndexForHandshake(Delete(table[DeviceOf[q]], handshake[q].localIndex), i, q)]
    BY <1>3, Zenon DEF CreateMessageResponse
  <2> QED
    BY <2>1, <2>2, <2>3, IndexAllocated, Zenon
<1>4. ASSUME NEW q \in Peer, NEW i \in Index, NEW ts, CreateMessageInitiation(q, i, ts) PROVE Goal
  <2>1. \A p \in Peer : handshake'[p].localIndex = IF p = q THEN i ELSE handshake[p].localIndex
    <3>1. PICK key, e : handshake' =
            [handshake EXCEPT ![q] = Created(handshake[q], "InitiationCreated", key, e, i)]
      BY <1>4, Zenon DEF CreateMessageInitiation
    <3>2. PICK h : h = Created(handshake[q], "InitiationCreated", key, e, i)
      BY Zenon
    <3>3. \A p \in Peer : handshake'[p] = IF p = q THEN h ELSE handshake[p]
      <4>1. handshake' = [handshake EXCEPT ![q] = h]
        BY <3>1, <3>2, Zenon
      <4> QED
        BY <1>t, <4>1, Zenon DEF TypeOK
    <3>4. h.localIndex = i
      BY <1>h, <1>u, <3>2, SMTT(30)
    <3> QED
      BY <3>3, <3>4, Zenon
  <2> QED
    BY <1>4, <2>1, IndexAllocated, Zenon DEF CreateMessageInitiation
<1>5. ASSUME NEW w \in Worker, DeriveAfterResponse(w) \/ SendHandshakeResponse(w) PROVE Goal
  BY <1>5, <1>t, IndexDerived, Zenon DEF DeriveAfterResponse, SendHandshakeResponse, WorkerOK
<1>6. ASSUME NEW q \in Peer, NEW k \in inbound[q], ReceivedWithKeypair(q, k) PROVE Goal
  <2>1. CASE keypairs[q].next # k
    BY <1>6, <2>1, IndexFrame, Zenon DEF ReceivedWithKeypair
  <2>2. CASE keypairs[q].next = k
    <3> DEFINE s == keypairs[q]
    <3>1. /\ s.previous \in Keypair \cup {Nil} /\ DeviceOf[q] \in Device
          /\ table[DeviceOf[q]] \in [Index -> IndexTableEntry \cup {Nil}]
      BY <1>t, Parts, Zenon
    <3>2. \A d \in Device, j \in Index : table'[d][j] =
            IF d = DeviceOf[q] /\ s.previous # Nil /\ j = s.previous.localIndex
            THEN Nil ELSE table[d][j]
      <4>1. table' = [table EXCEPT ![DeviceOf[q]] =
                        DeleteKeypair(table[DeviceOf[q]], s.previous)]
        BY <1>6, <2>2, Zenon DEF ReceivedWithKeypair
      <4> HIDE DEF s
      <4> QED
        <5>1. \A j \in Index : DeleteKeypair(table[DeviceOf[q]], s.previous)[j] =
                IF s.previous # Nil /\ j = s.previous.localIndex
                THEN Nil ELSE table[DeviceOf[q]][j]
          BY <3>1, DeleteKeypairOp, Zenon
        <5>2. \A d \in Device : table'[d] =
                IF d = DeviceOf[q] THEN DeleteKeypair(table[DeviceOf[q]], s.previous)
                ELSE table[d]
          BY <1>t, <3>1, <4>1, Zenon DEF TypeOK
        <5> QED
          BY <5>1, <5>2, Zenon
    <3>3. \A p \in Peer : keypairs'[p] =
            IF p = q THEN PromotedKeypairs(s) ELSE keypairs[p]
      BY <1>6, <1>t, <2>2, Zenon DEF ReceivedWithKeypair, TypeOK
    <3>4. Slots(q)' = {s.current, s.next} \ {Nil}
      BY <3>3, SMTT(30) DEF Slots, PromotedKeypairs
    <3>5. SlotIndicesDistinct'
      <4>1. PICK r : r = keypairs'[q]
        BY Zenon
      <4>2. r.previous = s.current /\ r.current = s.next /\ r.next = Nil
        BY <3>3, <4>1, SMTT(30) DEF PromotedKeypairs
      <4>3. DistinctIn(r)
        BY <4>2, Zenon DEF IndexTableInv, SlotIndicesDistinct, DistinctIn, Apart
      <4>4. \A p \in Peer : DistinctIn(keypairs'[p])
        BY <3>3, <4>1, <4>3, Zenon DEF IndexTableInv, SlotIndicesDistinct, DistinctIn, Apart
      <4> QED
        BY <4>4, Zenon DEF SlotIndicesDistinct, DistinctIn, Apart
    <3>6. \A j \in Index \ {ZeroIndex} :
            (s.previous # Nil /\ j = s.previous.localIndex)
              <=> \E x \in Slots(q) \ Slots(q)' : x.localIndex = j
      BY <3>4, Zenon DEF IndexTableInv, SlotIndicesDistinct, Slots
    <3>7. Slots(q)' \subseteq Slots(q)
      BY <3>4, Zenon DEF Slots
    <3>8. \A d \in Device, j \in Index \ {ZeroIndex} : table'[d][j] =
            IF d = DeviceOf[q] /\ \E x \in Slots(q) \ Slots(q)' : x.localIndex = j
            THEN Nil ELSE table[d][j]
      BY <3>2, <3>6, Zenon
    <3> QED
      BY <1>6, <3>3, <3>5, <3>7, <3>8, SlotsApart, IndexSlotsDropped, Zenon DEF ReceivedWithKeypair
  <2> QED
    BY <2>1, <2>2, Zenon
<1>7. ASSUME NEW q \in Peer, NEW who, ZeroKeypairs(q, who) PROVE Goal
  <2> DEFINE s == keypairs[q]
             t1 == DeleteKeypair(table[DeviceOf[q]], s.previous)
             t2 == DeleteKeypair(t1, s.current)
             t3 == DeleteKeypair(t2, s.next)
             Gone(k, j) == k # Nil /\ j = k.localIndex
  <2>1. /\ s.previous \in Keypair \cup {Nil} /\ s.current \in Keypair \cup {Nil}
        /\ s.next \in Keypair \cup {Nil} /\ DeviceOf[q] \in Device
        /\ table[DeviceOf[q]] \in [Index -> IndexTableEntry \cup {Nil}]
    BY <1>t, Parts, Zenon
  <2>2. /\ t1 \in [Index -> IndexTableEntry \cup {Nil}]
        /\ \A j \in Index : t1[j] = IF Gone(s.previous, j) THEN Nil ELSE table[DeviceOf[q]][j]
    BY <2>1, DeleteKeypairOp, Zenon
  <2>3. /\ t2 \in [Index -> IndexTableEntry \cup {Nil}]
        /\ \A j \in Index : t2[j] = IF Gone(s.current, j) THEN Nil ELSE t1[j]
    <3> HIDE DEF t1
    <3> QED BY <2>1, <2>2, DeleteKeypairOp, Zenon
  <2>4. \A j \in Index : t3[j] = IF Gone(s.next, j) THEN Nil ELSE t2[j]
    <3> HIDE DEF t2
    <3> QED BY <2>1, <2>3, DeleteKeypairOp, Zenon
  <2>5. table' = [table EXCEPT ![DeviceOf[q]] = t3]
    BY <1>7, Zenon DEF ZeroKeypairs, ZeroedTable
  <2>6. \A p \in Peer : keypairs'[p] = IF p = q THEN NoKeypairs ELSE keypairs[p]
    <3>1. keypairs' = [keypairs EXCEPT ![q] = NoKeypairs]
      BY <1>7, Zenon DEF ZeroKeypairs
    <3> QED
      BY <1>t, <3>1, Zenon DEF TypeOK
  <2>7. Slots(q)' = {}
    BY <2>6 DEF Slots, NoKeypairs
  <2>8. SlotIndicesDistinct'
    <3>1. NoKeypairs.previous = Nil /\ NoKeypairs.current = Nil /\ NoKeypairs.next = Nil
      BY DEF NoKeypairs
    <3>2. \A p \in Peer : DistinctIn(keypairs'[p])
      BY <2>6, <3>1, Zenon DEF IndexTableInv, SlotIndicesDistinct, DistinctIn, Apart
    <3> QED
      BY <3>2, Zenon DEF SlotIndicesDistinct, DistinctIn, Apart
  <2>9. \A j \in Index : (\E x \in Slots(q) \ Slots(q)' : x.localIndex = j)
           <=> Gone(s.previous, j) \/ Gone(s.current, j) \/ Gone(s.next, j)
    BY <2>7, Zenon DEF Slots
  <2>X. \A d \in Device, j \in Index \ {ZeroIndex} : table'[d][j] =
           IF d = DeviceOf[q] /\ \E x \in Slots(q) \ Slots(q)' : x.localIndex = j
           THEN Nil ELSE table[d][j]
    <3> HIDE DEF t1, t2, t3, Gone
    <3>1. \A d \in Device : table'[d] = IF d = DeviceOf[q] THEN t3 ELSE table[d]
      BY <1>t, <2>5, Zenon DEF TypeOK
    <3>2. \A j \in Index : t3[j] =
            IF Gone(s.previous, j) \/ Gone(s.current, j) \/ Gone(s.next, j)
            THEN Nil ELSE table[DeviceOf[q]][j]
      BY <2>2, <2>3, <2>4, Zenon
    <3> QED
      BY <2>9, <3>1, <3>2, Zenon
  <2> QED
    <3>1. /\ handshake' = handshake
          /\ \A p \in Peer : p # q => keypairs'[p] = keypairs[p]
          /\ Slots(q)' \subseteq Slots(q)
      BY <1>7, <2>6, <2>7, Zenon DEF ZeroKeypairs
    <3>2. \A x, y \in Slots(q) :
            x # y /\ x.localIndex # ZeroIndex => x.localIndex # y.localIndex
      BY SlotsApart, Zenon
    <3>3. IndexTableSound' /\ IndexTableComplete'
      BY <2>8, <2>X, <3>1, <3>2, IndexSlotsDropped, Zenon
    <3> QED
      BY <2>8, <3>3, Zenon
<1>8. ASSUME NEW q \in Peer, ZeroHandshakeState(q) \/ ExpireHandshake(q) PROVE Goal
  BY <1>8, IndexDropped, Zenon DEF ZeroHandshakeState, ExpireHandshake
<1>9. ASSUME UNCHANGED <<handshake, keypairs, table>> PROVE Goal
  BY <1>9, IndexFrame, Zenon
<1>10. Goal
  BY Zenon, <1>1, <1>2, <1>3, <1>4, <1>5, <1>6, <1>7, <1>8, <1>9
  DEF Next, WorkerNext, PeerNext, CheckInitiation, CreateMessageResponseFails,
      CheckResponse, BeginSymmetricSessionFails, SendTransport, ReceiveTransport,
      Stop, Start, ExpireNonces, vars
<1> QED
  BY <1>t, <1>10, Zenon DEF IndexTableInv

\* The inductive invariant holds in every reachable state.
LEMMA IndexInvariant == Spec => []IndexTableInv
<1>1. Init => IndexTableInv
  <2>1. Init => IndexTableSound /\ IndexTableComplete /\ SlotIndicesDistinct
    <3> SUFFICES ASSUME Init
                 PROVE  IndexTableSound /\ IndexTableComplete /\ SlotIndicesDistinct
      BY Zenon
    <3>1. \A d \in Device, i \in Index : table[d][i] = Nil
      BY Zenon DEF Init
    <3>2. NoKeypairs.previous = Nil /\ NoKeypairs.current = Nil /\ NoKeypairs.next = Nil
      BY DEF NoKeypairs
    <3>3. ZeroHandshake.localIndex = ZeroIndex
      BY DEF ZeroHandshake
    <3>4. \A q \in Peer : handshake[q] = ZeroHandshake /\ keypairs[q] = NoKeypairs
      BY Zenon DEF Init
    <3>5. \A q \in Peer : Slots(q) = {}
      BY <3>2, <3>4, Zenon DEF Slots
    <3>6. IndexTableSound
      BY <3>1, Zenon DEF IndexTableSound
    <3>7. IndexTableComplete
      BY <3>3, <3>4, <3>5, Zenon DEF IndexTableComplete
    <3>8. SlotIndicesDistinct
      BY <3>2, <3>4, Zenon DEF SlotIndicesDistinct
    <3> QED
      BY <3>6, <3>7, <3>8, Zenon
  <2> QED
    BY <2>1, InitType, Zenon DEF IndexTableInv
<1> QED
  BY <1>1, StepIndex, PTL DEF Spec

\* Whatever the workers, the timers and the administrator interleave, a
\* non-zero index in a device's table belongs to a handshake or keypair its
\* peer still holds.
THEOREM IndexTableSoundness == Spec => []IndexTableSound
<1>1. IndexTableInv => IndexTableSound
  BY Zenon DEF IndexTableInv
<1> QED
  BY <1>1, IndexInvariant, PTL

\* And every handshake and keypair with a non-zero index is found by it.
THEOREM IndexTableCompleteness == Spec => []IndexTableComplete
<1>1. IndexTableInv => IndexTableComplete
  BY Zenon DEF IndexTableInv
<1> QED
  BY <1>1, IndexInvariant, PTL

-----------------------------------------------------------------------------
(* With one handshake worker for each device (runtime.NumCPU() = 1) an       *)
(* initiation is consumed once, because InitiationInv is inductive, and a    *)
(* session key is in one slot, because SessionKeysInv is.                    *)

(* What each step does to the handshakes, the messages and the worker.       *)

\* Only worker w moves; only the handshake of peer q changes.
OnlyWorker(w) == \A u \in Worker : u # w => worker'[u] = worker[u]
OnlyPeer(q) == \A p \in Peer : p # q => handshake'[p] = handshake[p]

\* The read-locked half of ConsumeMessageInitiation: nothing changes, but the
\* initiation is newer than the timestamp stored.
LEMMA CheckInitiationDoes ==
  ASSUME TypeOK, NEW w \in Worker, NEW m, CheckInitiation(w, m)
  PROVE  /\ UNCHANGED <<handshake, keypairs, ephemerals, initiations, responses>>
         /\ OnlyWorker(w)
         /\ worker'[w].pc = "initiationChecked"
         /\ worker'[w].peer = Mirror[m.peer]
         /\ worker'[w].msg = m
         /\ ~Replayed(handshake[Mirror[m.peer]], m)
         /\ DeviceOf[Mirror[m.peer]] = HostOf[w]
BY Zenon DEF CheckInitiation, net, TypeOK, OnlyWorker

\* ConsumeMessageInitiation under the write lock: the transcript and timestamp of
\* the initiation are stored.
LEMMA ConsumeInitiationDoes ==
  ASSUME TypeOK, WorkerOK, NEW w \in Worker, NEW q, q = worker[w].peer,
         NEW m, m = worker[w].msg, ConsumeMessageInitiation(w)
  PROVE  /\ UNCHANGED <<keypairs, ephemerals, initiations, responses>>
         /\ OnlyWorker(w) /\ OnlyPeer(q)
         /\ worker[w].pc = "initiationChecked"
         /\ q \in Peer /\ m \in initiations
         /\ worker'[w].pc = "initiationConsumed"
         /\ worker'[w].peer = q
         /\ handshake'[q].state = "InitiationConsumed"
         /\ handshake'[q].transcript = [ie |-> m.ephemeral, re |-> 0]
         /\ handshake'[q].lastTimestamp =
              IF m.timestamp > handshake[q].lastTimestamp
              THEN m.timestamp ELSE handshake[q].lastTimestamp
<1>1. /\ UNCHANGED <<keypairs, ephemerals, initiations, responses>>
      /\ worker[w].pc = "initiationChecked"
      /\ q \in Peer /\ m \in initiations
      /\ handshake' = [handshake EXCEPT ![q] = ConsumedInitiation(handshake[q], m)]
  BY Zenon DEF ConsumeMessageInitiation, net, WorkerOK
<1>2. OnlyWorker(w) /\ worker'[w].pc = "initiationConsumed" /\ worker'[w].peer = q
  BY Zenon DEF ConsumeMessageInitiation, TypeOK, OnlyWorker
<1>3. OnlyPeer(q) /\ handshake'[q] = ConsumedInitiation(handshake[q], m)
  BY <1>1, Zenon DEF TypeOK, OnlyPeer
<1>4. handshake[q] \in HandshakeRecord
  BY <1>1, Zenon DEF TypeOK
<1>5. /\ handshake'[q].state = "InitiationConsumed"
      /\ handshake'[q].transcript = [ie |-> m.ephemeral, re |-> 0]
      /\ handshake'[q].lastTimestamp =
           IF m.timestamp > handshake[q].lastTimestamp
           THEN m.timestamp ELSE handshake[q].lastTimestamp
  BY <1>3, <1>4, Zenon DEF ConsumedInitiation, HandshakeRecord
<1> QED
  BY <1>1, <1>2, <1>3, <1>5, Zenon

\* The read-locked half of ConsumeMessageResponse: nothing changes, but the
\* response answers the ephemeral of the initiation outstanding.
LEMMA CheckResponseDoes ==
  ASSUME TypeOK, NEW w \in Worker, NEW m, CheckResponse(w, m)
  PROVE  /\ UNCHANGED <<handshake, keypairs, ephemerals, initiations, responses>>
         /\ OnlyWorker(w)
         /\ worker'[w].pc = "responseChecked"
         /\ worker'[w].peer = Mirror[m.peer]
         /\ worker'[w].msg = m
         /\ DeviceOf[Mirror[m.peer]] = HostOf[w]
         /\ handshake[Mirror[m.peer]].state = "InitiationCreated"
         /\ handshake[Mirror[m.peer]].localEphemeral = m.key.ie
BY Zenon DEF CheckResponse, net, TypeOK, OnlyWorker

\* Its write-locked half: the handshake takes the transcript of the response.
LEMMA ConsumeResponseDoes ==
  ASSUME TypeOK, WorkerOK, NEW w \in Worker, NEW q, q = worker[w].peer,
         NEW m, m = worker[w].msg, ConsumeMessageResponse(w)
  PROVE  /\ UNCHANGED <<keypairs, ephemerals, initiations, responses>>
         /\ OnlyWorker(w) /\ OnlyPeer(q)
         /\ worker[w].pc = "responseChecked"
         /\ q \in Peer /\ m \in responses
         /\ worker'[w].pc = "responseConsumed"
         /\ worker'[w].peer = q
         /\ handshake'[q].state = "ResponseConsumed"
         /\ handshake'[q].transcript = m.key
<1>1. /\ UNCHANGED <<keypairs, ephemerals, initiations, responses>>
      /\ worker[w].pc = "responseChecked"
      /\ q \in Peer /\ m \in responses
      /\ handshake' = [handshake EXCEPT ![q] = ConsumedResponse(handshake[q], m)]
  BY Zenon DEF ConsumeMessageResponse, net, WorkerOK
<1>2. OnlyWorker(w) /\ worker'[w].pc = "responseConsumed" /\ worker'[w].peer = q
  BY Zenon DEF ConsumeMessageResponse, TypeOK, OnlyWorker
<1>3. OnlyPeer(q) /\ handshake'[q] = ConsumedResponse(handshake[q], m)
  BY <1>1, Zenon DEF TypeOK, OnlyPeer
<1>4. handshake[q] \in HandshakeRecord
  BY <1>1, Zenon DEF TypeOK
<1>5. handshake'[q].state = "ResponseConsumed" /\ handshake'[q].transcript = m.key
  BY <1>3, <1>4, Zenon DEF ConsumedResponse, HandshakeRecord
<1> QED
  BY <1>1, <1>2, <1>3, <1>5, Zenon

\* CreateMessageResponse: a response with a newly generated ephemeral.
LEMMA CreateResponseDoes ==
  ASSUME TypeOK, WorkerOK, NEW w \in Worker, NEW i, NEW q, q = worker[w].peer,
         CreateMessageResponse(w, i)
  PROVE  /\ UNCHANGED <<keypairs, initiations, responses>>
         /\ OnlyWorker(w) /\ OnlyPeer(q)
         /\ worker[w].pc = "initiationConsumed"
         /\ q \in Peer
         /\ ephemerals' = ephemerals + 1
         /\ worker'[w].pc = "responseCreated"
         /\ worker'[w].peer = q
         /\ worker'[w].msg.peer = q
         /\ worker'[w].msg.key = handshake'[q].transcript
         /\ handshake'[q].state = "ResponseCreated"
         /\ handshake'[q].transcript.ie = handshake[q].transcript.ie
         /\ handshake'[q].transcript.re = ephemerals'
<1>1. PICK e, key : e = ephemerals + 1 /\ key = [ie |-> handshake[q].transcript.ie, re |-> e]
  BY Zenon
<1>2. key.ie = handshake[q].transcript.ie /\ key.re = e
  BY <1>1, Zenon
<1>3. /\ UNCHANGED <<keypairs, initiations, responses>>
      /\ worker[w].pc = "initiationConsumed"
      /\ q \in Peer
      /\ ephemerals' = e
      /\ handshake' = [handshake EXCEPT ![q] =
                         Created(handshake[q], "ResponseCreated", key, e, i)]
  BY <1>1, Zenon DEF CreateMessageResponse, net, WorkerOK
<1>4. /\ OnlyWorker(w)
      /\ worker'[w].pc = "responseCreated" /\ worker'[w].peer = q
      /\ worker'[w].msg.peer = q /\ worker'[w].msg.key = key
  BY <1>1, Zenon DEF CreateMessageResponse, TypeOK, OnlyWorker
<1>5. OnlyPeer(q) /\ handshake'[q] = Created(handshake[q], "ResponseCreated", key, e, i)
  BY <1>3, Zenon DEF TypeOK, OnlyPeer
<1>6. handshake[q] \in HandshakeRecord
  BY <1>3, Zenon DEF TypeOK
<1>7. handshake'[q].state = "ResponseCreated" /\ handshake'[q].transcript = key
  BY <1>5, <1>6, Zenon DEF Created, HandshakeRecord
<1> QED
  BY <1>1, <1>2, <1>3, <1>4, <1>5, <1>7, Zenon

\* A worker whose handshake moved on gives up.
LEMMA FailingDoes ==
  ASSUME TypeOK, NEW w \in Worker, CreateMessageResponseFails(w) \/ BeginSymmetricSessionFails(w)
  PROVE  /\ UNCHANGED <<handshake, keypairs, ephemerals, initiations, responses>>
         /\ OnlyWorker(w) /\ worker'[w].pc = "idle"
<1>1. /\ UNCHANGED <<handshake, keypairs, ephemerals, initiations, responses>>
      /\ worker' = [worker EXCEPT ![w] = Idle]
  BY Zenon DEF CreateMessageResponseFails, BeginSymmetricSessionFails, net
<1>2. OnlyWorker(w) /\ worker'[w].pc = "idle"
  BY <1>1, Zenon DEF TypeOK, OnlyWorker, Idle
<1> QED
  BY <1>1, <1>2, Zenon

\* BeginSymmetricSession clears the handshake; the responder then sends.
LEMMA DerivingDoes ==
  ASSUME TypeOK, WorkerOK, NEW w \in Worker, NEW q, q = worker[w].peer,
         DeriveAfterResponse(w) \/ SendHandshakeResponse(w)
  PROVE  /\ UNCHANGED <<ephemerals, initiations>>
         /\ OnlyWorker(w) /\ OnlyPeer(q)
         /\ worker[w].pc \in {"responseCreated", "responseConsumed"}
         /\ q \in Peer /\ BeginSymmetricSession(q)
         /\ worker'[w].pc = "idle"
         /\ handshake'[q].state = "Zeroed"
         /\ handshake'[q].transcript = ZeroTranscript
         /\ \/ responses' = responses
            \/ worker[w].pc = "responseCreated" /\ responses' = responses \cup {worker[w].msg}
<1>1. /\ UNCHANGED <<ephemerals, initiations>>
      /\ worker[w].pc \in {"responseCreated", "responseConsumed"}
      /\ q \in Peer /\ BeginSymmetricSession(q)
      /\ worker' = [worker EXCEPT ![w] = Idle]
      /\ \/ responses' = responses
         \/ worker[w].pc = "responseCreated" /\ responses' = responses \cup {worker[w].msg}
  BY Zenon DEF DeriveAfterResponse, SendHandshakeResponse, net, WorkerOK
<1>2. handshake'[q] = Clear(handshake[q]) /\ OnlyPeer(q)
  BY <1>1, Zenon DEF BeginSymmetricSession, TypeOK, OnlyPeer
<1>3. worker'[w].pc = "idle" /\ OnlyWorker(w)
  BY <1>1, Zenon DEF TypeOK, OnlyWorker, Idle
<1>4. handshake[q] \in HandshakeRecord
  BY <1>1, Zenon DEF TypeOK
<1>5. /\ handshake'[q].state = "Zeroed"
      /\ handshake'[q].transcript = ZeroTranscript
      /\ handshake'[q].lastTimestamp = handshake[q].lastTimestamp
  BY <1>2, <1>4, Zenon DEF Clear, HandshakeRecord
<1> QED
  BY <1>1, <1>2, <1>3, <1>5, Zenon

\* CreateMessageInitiation: an initiation with a newly generated ephemeral.
LEMMA CreateInitiationDoes ==
  ASSUME TypeOK, NEW q \in Peer, NEW i, NEW ts, CreateMessageInitiation(q, i, ts)
  PROVE  /\ UNCHANGED <<keypairs, worker, responses>>
         /\ OnlyPeer(q)
         /\ ephemerals' = ephemerals + 1
         /\ handshake'[q].state = "InitiationCreated"
         /\ handshake'[q].transcript = [ie |-> ephemerals', re |-> 0]
         /\ handshake'[q].localEphemeral = ephemerals'
         /\ handshake'[q].lastTimestamp = handshake[q].lastTimestamp
         /\ \A m \in initiations' : m \in initiations \/ m.ephemeral = ephemerals'
<1>1. PICK e : e = ephemerals + 1
  BY Zenon
<1>2. /\ UNCHANGED <<keypairs, worker, responses>>
      /\ ephemerals' = e
      /\ handshake' = [handshake EXCEPT ![q] =
                         Created(handshake[q], "InitiationCreated", [ie |-> e, re |-> 0], e, i)]
  BY <1>1, Zenon DEF CreateMessageInitiation
<1>3. \A m \in initiations' : m \in initiations \/ m.ephemeral = e
  BY <1>1 DEF CreateMessageInitiation
<1>4. OnlyPeer(q) /\ handshake'[q] =
        Created(handshake[q], "InitiationCreated", [ie |-> e, re |-> 0], e, i)
  BY <1>2, Zenon DEF TypeOK, OnlyPeer
<1>5. handshake[q] \in HandshakeRecord
  BY Zenon DEF TypeOK
<1>6. /\ handshake'[q].state = "InitiationCreated"
      /\ handshake'[q].transcript = [ie |-> e, re |-> 0]
      /\ handshake'[q].localEphemeral = e
      /\ handshake'[q].lastTimestamp = handshake[q].lastTimestamp
  BY <1>4, <1>5, Zenon DEF Created, HandshakeRecord
<1> QED
  BY <1>1, <1>2, <1>3, <1>4, <1>6, Zenon

\* ZeroAndFlushAll and ExpireCurrentKeypairs clear the handshake.
LEMMA ClearingDoes ==
  ASSUME TypeOK, NEW q \in Peer, ZeroHandshakeState(q) \/ ExpireHandshake(q)
  PROVE  /\ UNCHANGED <<keypairs, worker, ephemerals, initiations, responses>>
         /\ OnlyPeer(q)
         /\ handshake'[q].state = "Zeroed"
         /\ handshake'[q].transcript = ZeroTranscript
         /\ handshake'[q].lastTimestamp = handshake[q].lastTimestamp
<1>1. /\ UNCHANGED <<keypairs, worker, ephemerals, initiations, responses>>
      /\ handshake' = [handshake EXCEPT ![q] = Clear(handshake[q])]
  BY Zenon DEF ZeroHandshakeState, ExpireHandshake, net
<1>2. OnlyPeer(q) /\ handshake'[q] = Clear(handshake[q])
  BY <1>1, Zenon DEF TypeOK, OnlyPeer
<1>3. handshake[q] \in HandshakeRecord
  BY Zenon DEF TypeOK
<1>4. /\ handshake'[q].state = "Zeroed"
      /\ handshake'[q].transcript = ZeroTranscript
      /\ handshake'[q].lastTimestamp = handshake[q].lastTimestamp
  BY <1>2, <1>3, Zenon DEF Clear, HandshakeRecord
<1> QED
  BY <1>1, <1>2, <1>4, Zenon

\* The step of a worker keeps WorkerAtHome when what it goes on with is right
\* and it touches no timestamp but its own peer's: with one worker for each
\* device no other worker is at that peer.
LEMMA WorkerAtHomeMoves ==
  ASSUME OneWorker, InitiationInv, NEW w \in Worker, OnlyWorker(w),
         worker'[w].pc # "idle" => DeviceOf[worker'[w].peer] = HostOf[w],
         worker'[w].pc = "initiationChecked" =>
           ~Replayed(handshake'[worker'[w].peer], worker'[w].msg),
         \A q \in Peer : \/ handshake'[q].lastTimestamp = handshake[q].lastTimestamp
                         \/ q = worker[w].peer /\ worker[w].pc # "idle"
  PROVE  WorkerAtHome'
<1> SUFFICES ASSUME NEW u \in Worker
             PROVE  /\ worker'[u].pc # "idle" => DeviceOf[worker'[u].peer] = HostOf[u]
                    /\ worker'[u].pc = "initiationChecked" =>
                         ~Replayed(handshake'[worker'[u].peer], worker'[u].msg)
  BY Zenon DEF WorkerAtHome
<1>1. CASE u = w
  BY <1>1, Zenon
<1>2. CASE u # w
  <2>1. worker[u].pc # "idle" => DeviceOf[worker[u].peer] = HostOf[u] /\ worker[u].peer \in Peer
    BY Zenon DEF InitiationInv, WorkerAtHome, WorkerOK
  <2>2. worker[u].pc # "idle" => handshake'[worker[u].peer].lastTimestamp =
                                  handshake[worker[u].peer].lastTimestamp
    <3>1. worker[w].pc # "idle" => DeviceOf[worker[w].peer] = HostOf[w]
      BY Zenon DEF InitiationInv, WorkerAtHome
    <3> QED
      BY <1>2, <2>1, <3>1, Zenon DEF OneWorker
  <2>3. worker[u].pc = "initiationChecked" => ~Replayed(handshake[worker[u].peer], worker[u].msg)
    BY Zenon DEF InitiationInv, WorkerAtHome
  <2>4. "initiationChecked" # "idle"
    OBVIOUS
  <2> QED
    BY <1>2, <2>1, <2>2, <2>3, <2>4, Zenon DEF Replayed, OnlyWorker
<1> QED
  BY <1>1, <1>2, Zenon

\* So does a step of another routine that touches no timestamp.
LEMMA WorkerAtHomeStays ==
  ASSUME InitiationInv, worker' = worker,
         \A q \in Peer : handshake'[q].lastTimestamp = handshake[q].lastTimestamp
  PROVE  WorkerAtHome'
BY Zenon DEF InitiationInv, WorkerAtHome, WorkerOK, Replayed

\* Every step keeps it.
LEMMA StepAtHome ==
  ASSUME OneWorker, InitiationInv, [Next]_vars
  PROVE  WorkerAtHome'
<1> DEFINE Kept == \A p \in Peer : handshake'[p].lastTimestamp = handshake[p].lastTimestamp
<1>t. TypeOK /\ WorkerOK /\ WorkerAtHome
  BY Zenon DEF InitiationInv
<1>w. \A w \in Worker : worker[w].pc # "idle" => DeviceOf[worker[w].peer] = HostOf[w]
  BY <1>t, Zenon DEF WorkerAtHome
<1>c. ASSUME NEW q \in Peer, OnlyPeer(q), handshake'[q].lastTimestamp = handshake[q].lastTimestamp
      PROVE  Kept
  BY <1>c, Zenon DEF OnlyPeer
<1>1. ASSUME NEW w \in Worker, NEW m \in initiations, CheckInitiation(w, m) PROVE WorkerAtHome'
  BY <1>1, <1>t, CheckInitiationDoes, WorkerAtHomeMoves, ZenonT(60)
<1>2. ASSUME NEW w \in Worker, ConsumeMessageInitiation(w) PROVE WorkerAtHome'
  <2>1. PICK q, m : q = worker[w].peer /\ m = worker[w].msg
    BY Zenon
  <2>2. OnlyWorker(w) /\ OnlyPeer(q) /\ worker[w].pc = "initiationChecked"
        /\ worker'[w].pc = "initiationConsumed" /\ worker'[w].peer = q
    BY <1>2, <1>t, <2>1, ConsumeInitiationDoes, Zenon
  <2> QED
    BY <1>w, <2>1, <2>2, WorkerAtHomeMoves, Zenon DEF OnlyPeer
<1>3. ASSUME NEW w \in Worker, NEW i, CreateMessageResponse(w, i) PROVE WorkerAtHome'
  <2>1. PICK q : q = worker[w].peer
    BY Zenon
  <2>2. OnlyWorker(w) /\ OnlyPeer(q) /\ worker[w].pc = "initiationConsumed"
        /\ worker'[w].pc = "responseCreated" /\ worker'[w].peer = q
    BY <1>3, <1>t, <2>1, CreateResponseDoes
  <2> QED
    BY <1>w, <2>1, <2>2, WorkerAtHomeMoves, Zenon DEF OnlyPeer
<1>4. ASSUME NEW w \in Worker, NEW m \in responses, CheckResponse(w, m) PROVE WorkerAtHome'
  <2>1. OnlyWorker(w) /\ handshake' = handshake /\ worker'[w].pc = "responseChecked"
        /\ DeviceOf[worker'[w].peer] = HostOf[w]
    BY <1>4, <1>t, CheckResponseDoes, ZenonT(60)
  <2> QED
    BY <2>1, WorkerAtHomeMoves, Zenon
<1>5. ASSUME NEW w \in Worker, ConsumeMessageResponse(w) PROVE WorkerAtHome'
  <2>1. PICK q, m : q = worker[w].peer /\ m = worker[w].msg
    BY Zenon
  <2>2. OnlyWorker(w) /\ OnlyPeer(q) /\ worker[w].pc = "responseChecked"
        /\ worker'[w].pc = "responseConsumed" /\ worker'[w].peer = q
    BY <1>5, <1>t, <2>1, ConsumeResponseDoes, Zenon
  <2> QED
    BY <1>w, <2>1, <2>2, WorkerAtHomeMoves, Zenon DEF OnlyPeer
<1>6. ASSUME NEW w \in Worker, CreateMessageResponseFails(w) \/ BeginSymmetricSessionFails(w)
      PROVE  WorkerAtHome'
  BY <1>6, <1>t, FailingDoes, WorkerAtHomeMoves, Zenon
<1>7. ASSUME NEW w \in Worker, DeriveAfterResponse(w) \/ SendHandshakeResponse(w)
      PROVE  WorkerAtHome'
  <2>1. PICK q : q = worker[w].peer
    BY Zenon
  <2>2. /\ OnlyWorker(w) /\ OnlyPeer(q) /\ worker'[w].pc = "idle"
        /\ worker[w].pc \in {"responseCreated", "responseConsumed"}
    BY <1>7, <1>t, <2>1, DerivingDoes, Zenon
  <2> QED
    BY <2>1, <2>2, WorkerAtHomeMoves, Zenon DEF OnlyPeer
<1>8. ASSUME NEW q \in Peer, NEW i, NEW ts, CreateMessageInitiation(q, i, ts)
      PROVE  WorkerAtHome'
  <2>1. worker' = worker /\ OnlyPeer(q) /\ handshake'[q].lastTimestamp = handshake[q].lastTimestamp
    BY <1>8, <1>t, CreateInitiationDoes, Zenon
  <2> QED
    BY <1>c, <2>1, WorkerAtHomeStays, Zenon
<1>9. ASSUME NEW q \in Peer, ZeroHandshakeState(q) \/ ExpireHandshake(q)
      PROVE  WorkerAtHome'
  <2>1. worker' = worker /\ OnlyPeer(q) /\ handshake'[q].lastTimestamp = handshake[q].lastTimestamp
    BY <1>9, <1>t, ClearingDoes, Zenon
  <2> QED
    BY <1>c, <2>1, WorkerAtHomeStays, Zenon
<1>10. ASSUME UNCHANGED <<handshake, worker>> PROVE WorkerAtHome'
  BY <1>10, WorkerAtHomeStays, Zenon
<1> QED
  BY Zenon, <1>1, <1>2, <1>3, <1>4, <1>5, <1>6, <1>7, <1>8, <1>9, <1>10
  DEF Next, WorkerNext, PeerNext, SendTransport, ReceiveTransport, ReceivedWithKeypair,
      Stop, ZeroKeypairs, Start, ExpireNonces, vars

\* An initiation that changes a handshake has a later timestamp.
LEMMA ConsumedIsNewer ==
  ASSUME InitiationInv, Next, NEW q \in Peer,
         handshake'[q].state = "InitiationConsumed", handshake'[q] # handshake[q]
  PROVE  handshake'[q].lastTimestamp > handshake[q].lastTimestamp
<1> DEFINE Goal == handshake'[q].lastTimestamp > handshake[q].lastTimestamp
<1>t. TypeOK /\ WorkerOK /\ WorkerAtHome
  BY Zenon DEF InitiationInv
<1>1. ASSUME NEW w \in Worker, ConsumeMessageInitiation(w) PROVE Goal
  <2>1. PICK p, m : p = worker[w].peer /\ m = worker[w].msg
    BY Zenon
  <2>2. /\ OnlyPeer(p) /\ worker[w].pc = "initiationChecked" /\ m \in initiations
        /\ handshake'[p].lastTimestamp =
             IF m.timestamp > handshake[p].lastTimestamp
             THEN m.timestamp ELSE handshake[p].lastTimestamp
    BY <1>1, <1>t, <2>1, ConsumeInitiationDoes, ZenonT(60)
  <2>3. p = q
    BY <2>2, Zenon DEF OnlyPeer
  <2>4. ~(m.timestamp <= handshake[q].lastTimestamp)
    BY <1>t, <2>1, <2>2, <2>3, Zenon DEF WorkerAtHome, Replayed
  <2>5. m.timestamp \in Nat /\ handshake[q].lastTimestamp \in Nat
    <3>1. m.timestamp \in Timestamp /\ handshake[q].lastTimestamp \in Timestamp
      BY <1>t, <2>2, Zenon DEF TypeOK, MessageInitiation, HandshakeRecord
    <3> QED
      BY <3>1, BoundAssumption DEF Timestamp
  <2> QED
    BY <2>2, <2>3, <2>4, <2>5
<1>2. ASSUME NEW w \in Worker, NEW i, CreateMessageResponse(w, i) PROVE Goal
  <2>1. PICK p : p = worker[w].peer
    BY Zenon
  <2>2. OnlyPeer(p) /\ handshake'[p].state = "ResponseCreated"
    BY <1>2, <1>t, <2>1, CreateResponseDoes
  <2> QED
    BY <2>2 DEF OnlyPeer
<1>3. ASSUME NEW w \in Worker, ConsumeMessageResponse(w) PROVE Goal
  <2>1. PICK p, m : p = worker[w].peer /\ m = worker[w].msg
    BY Zenon
  <2>2. OnlyPeer(p) /\ handshake'[p].state = "ResponseConsumed"
    BY <1>3, <1>t, <2>1, ConsumeResponseDoes, Zenon
  <2> QED
    BY <2>2 DEF OnlyPeer
<1>4. ASSUME NEW w \in Worker, DeriveAfterResponse(w) \/ SendHandshakeResponse(w) PROVE Goal
  <2>1. PICK p : p = worker[w].peer
    BY Zenon
  <2>2. OnlyPeer(p) /\ handshake'[p].state = "Zeroed"
    BY <1>4, <1>t, <2>1, DerivingDoes, Zenon
  <2> QED
    BY <2>2 DEF OnlyPeer
<1>5. ASSUME NEW p \in Peer, NEW i, NEW ts, CreateMessageInitiation(p, i, ts) PROVE Goal
  <2>1. OnlyPeer(p) /\ handshake'[p].state = "InitiationCreated"
    BY <1>5, <1>t, CreateInitiationDoes, Zenon
  <2> QED
    BY <2>1 DEF OnlyPeer
<1>6. ASSUME NEW p \in Peer, ZeroHandshakeState(p) \/ ExpireHandshake(p) PROVE Goal
  <2>1. OnlyPeer(p) /\ handshake'[p].state = "Zeroed"
    BY <1>6, <1>t, ClearingDoes, Zenon
  <2> QED
    BY <2>1 DEF OnlyPeer
<1>7. ASSUME handshake' = handshake PROVE Goal
  BY <1>7, Zenon
<1> QED
  BY Zenon, <1>1, <1>2, <1>3, <1>4, <1>5, <1>6, <1>7
  DEF Next, WorkerNext, PeerNext, CheckInitiation, CreateMessageResponseFails, CheckResponse,
      BeginSymmetricSessionFails, SendTransport, ReceiveTransport, ReceivedWithKeypair,
      Stop, ZeroKeypairs, Start, ExpireNonces

\* No worker is at work at first.
LEMMA InitAtHome == Init => WorkerAtHome
<1>1. Idle.pc = "idle"
  BY Zenon DEF Idle
<1>2. Init => \A w \in Worker : worker[w].pc = "idle"
  BY <1>1, Zenon DEF Init
<1> QED
  BY <1>2 DEF WorkerAtHome

\* With one handshake worker for each device, an initiation that is consumed
\* is newer than every one consumed before: the comparison made under the
\* read lock still holds when the write lock is taken.
THEOREM InitiationOnce == OneWorker => (Spec => InitiationConsumedOnce)
<1> SUFFICES ASSUME OneWorker PROVE Spec => InitiationConsumedOnce
  BY Zenon
<1> DEFINE Newer == \A q \in Peer :
             handshake'[q].state = "InitiationConsumed" /\ handshake'[q] # handshake[q]
               => handshake'[q].lastTimestamp > handshake[q].lastTimestamp
<1>1. Init => InitiationInv
  BY InitType, InitAtHome, Zenon DEF InitiationInv
<1>2. InitiationInv /\ [Next]_vars => InitiationInv'
  BY StepType, StepAtHome, Zenon DEF InitiationInv
<1>3. InitiationInv /\ [Next]_vars => [Newer]_vars
  BY ConsumedIsNewer, Zenon DEF vars
<1> QED
  BY <1>1, <1>2, <1>3, PTL DEF Spec, InitiationConsumedOnce

\* The keys of a peer's slots are of another exchange than the one its
\* handshake has reached: the keypair it derives is a new one.
LEMMA DerivedKeyNew ==
  ASSUME SessionKeysInv, NEW q \in Peer, handshake[q].state \in DerivableState,
         NEW l \in Slots(q)
  PROVE  l.key # handshake[q].transcript
<1> SUFFICES ASSUME l.key = handshake[q].transcript PROVE FALSE
  BY Zenon
<1> DEFINE h == handshake[q]
<1>m. Mirror[q] # q
  BY TopologyAssumption, Zenon
<1>1. CASE h.state = "ResponseConsumed"
  <2>1. ~InitiatedWith(Slots(q), h.transcript.ie)
    BY <1>1, Zenon DEF SessionKeysInv, EphemeralUnused
  <2>2. ~l.isInitiator
    BY <2>1, Zenon DEF InitiatedWith
  <2>3. RespondedWith(Slots(q), h.transcript.re)
    BY <2>2, Zenon DEF RespondedWith
  <2>4. PICK m \in responses : m.peer = Mirror[q] /\ m.key = h.transcript
    BY <1>1, Zenon DEF SessionKeysInv, SessionInv, HandshakeFromPeer
  <2>5. m \in CreatedResponses
    BY <2>4, Zenon DEF CreatedResponses
  <2>6. m.peer = q
    BY <2>3, <2>4, <2>5, Zenon DEF SessionKeysInv, ResponderOwns
  <2> QED
    BY <1>m, <2>4, <2>6, Zenon
<1>2. CASE h.state = "ResponseCreated"
  <2>1. ~RespondedWith(Slots(q), h.transcript.re)
    BY <1>2, Zenon DEF SessionKeysInv, EphemeralUnused
  <2>2. l.isInitiator
    BY <2>1, Zenon DEF RespondedWith
  <2>3. PICK m \in responses : m.peer = Mirror[q] /\ m.key = l.key
    BY <2>2, Zenon DEF SessionKeysInv, SessionInv, SessionFromPeer
  <2>4. m \in CreatedResponses
    BY <2>3, Zenon DEF CreatedResponses
  <2>5. m.peer = q
    BY <1>2, <2>3, <2>4, Zenon DEF SessionKeysInv, ResponderOwns
  <2> QED
    BY <1>m, <2>3, <2>5, Zenon
<1> QED
  BY <1>1, <1>2, Zenon DEF DerivableState

\* The slots after a derivation: the new keypair and some of the old.
LEMMA DerivedSlots ==
  ASSUME TypeOK, NEW q \in Peer, BeginSymmetricSession(q)
  PROVE  /\ Slots(q)' \subseteq Slots(q) \cup {NewKeypair(q)}
         /\ \A p \in Peer : p # q => Slots(p)' = Slots(p)
<1>1. PICK k : k = NewKeypair(q)
  BY Zenon
<1>2. \A p \in Peer : keypairs'[p] = IF p = q THEN RotatedKeypairs(keypairs[q], k) ELSE keypairs[p]
  BY <1>1, Zenon DEF BeginSymmetricSession, TypeOK
<1>3. Slots(q)' \subseteq Slots(q) \cup {k}
  BY <1>2, SMTT(30) DEF Slots, RotatedKeypairs
<1>4. \A p \in Peer : p # q => Slots(p)' = Slots(p)
  BY <1>2, Zenon DEF Slots
<1> QED
  BY <1>1, <1>3, <1>4, Zenon

\* Derivation keeps the keys in the slots apart.
LEMMA DistinctDerived ==
  ASSUME SessionKeysInv, NEW q \in Peer, BeginSymmetricSession(q)
  PROVE  DistinctSessionKeys'
<1>1. PICK k : k = NewKeypair(q)
  BY Zenon
<1>2. \A p \in Peer : keypairs'[p] = IF p = q THEN RotatedKeypairs(keypairs[q], k) ELSE keypairs[p]
  BY <1>1, Zenon DEF BeginSymmetricSession, SessionKeysInv, SessionInv, TypeOK
<1>3. k.key = handshake[q].transcript /\ handshake[q].state \in DerivableState
  BY <1>1, Zenon DEF NewKeypair, BeginSymmetricSession
<1>4. \A l \in Slots(q) : l.key # k.key
  BY <1>3, DerivedKeyNew, Zenon
<1>5. DistinctSessionKeys
  BY Zenon DEF SessionKeysInv
<1> QED
  BY <1>2, <1>4, <1>5, SMTT(90) DEF DistinctSessionKeys, Slots, RotatedKeypairs

\* A response that was created is among those sent or with a worker.
LEMMA CreatedMeans ==
  /\ \A m \in responses : m \in CreatedResponses
  /\ \A u \in Worker : worker[u].pc = "responseCreated" => worker[u].msg \in CreatedResponses
BY DEF CreatedResponses

\* The same of the state after a step.
LEMMA CreatedMeansNext ==
  ASSUME NEW m
  PROVE  m \in CreatedResponses' =>
           m \in responses' \/ \E u \in Worker : worker'[u].pc = "responseCreated" /\ m = worker'[u].msg
BY DEF CreatedResponses

\* Every response after the step of one worker was there before, or is the
\* one that worker created.
LEMMA CreatedResponsesMove ==
  ASSUME NEW w \in Worker, OnlyWorker(w),
         \/ responses' = responses
         \/ worker[w].pc = "responseCreated" /\ responses' = responses \cup {worker[w].msg}
  PROVE  \A m \in CreatedResponses' :
           m \in CreatedResponses \/ (worker'[w].pc = "responseCreated" /\ m = worker'[w].msg)
<1> SUFFICES ASSUME NEW m \in CreatedResponses'
             PROVE  m \in CreatedResponses \/ (worker'[w].pc = "responseCreated" /\ m = worker'[w].msg)
  BY Zenon
<1>1. CASE m \in responses'
  BY <1>1, CreatedMeans
<1>2. CASE \E u \in Worker : worker'[u].pc = "responseCreated" /\ m = worker'[u].msg
  BY <1>2, CreatedMeans, Zenon DEF OnlyWorker
<1> QED
  BY <1>1, <1>2, CreatedMeansNext, Zenon

\* No ephemeral but the last is new.
LEMMA EphemeralGenerated ==
  ASSUME ephemerals \in Nat, ephemerals' = ephemerals + 1
  PROVE  /\ \A n \in 0..ephemerals : n \in 0..ephemerals'
         /\ ephemerals' \in 0..ephemerals' /\ ephemerals' \notin 0..ephemerals
         /\ 0 \in 0..ephemerals'
OBVIOUS

\* The cleared transcript names no ephemeral that is yet to be generated.
LEMMA ZeroDrawn ==
  ASSUME NEW n \in Nat
  PROVE  Drawn(ZeroTranscript, n)
<1>1. 0 \in 0..n
  OBVIOUS
<1> QED
  BY <1>1, Zenon DEF Drawn, ZeroTranscript

\* KeysDrawn is kept by a step that generates what it newly names.
LEMMA DrawnKept ==
  ASSUME SessionKeysInv, \A n \in 0..ephemerals : n \in 0..ephemerals',
         \A q \in Peer : handshake'[q] = handshake[q] \/ Drawn(handshake'[q].transcript, ephemerals'),
         \A q \in Peer : \A k \in Slots(q)' : k \in Slots(q) \/ Drawn(k.key, ephemerals'),
         \A m \in initiations' : m \in initiations \/ m.ephemeral \in 0..ephemerals',
         \A m \in CreatedResponses' : m \in CreatedResponses \/ Drawn(m.key, ephemerals')
  PROVE  KeysDrawn'
<1>1. \A t : Drawn(t, ephemerals) => Drawn(t, ephemerals')
  BY Zenon DEF Drawn
<1> QED
  BY <1>1, Zenon DEF SessionKeysInv, KeysDrawn

\* An ephemeral yet to be generated is in no slot.
LEMMA UngeneratedUnused ==
  ASSUME SessionKeysInv, NEW q \in Peer, NEW e, e \notin 0..ephemerals
  PROVE  ~InitiatedWith(Slots(q), e) /\ ~RespondedWith(Slots(q), e)
BY Zenon DEF SessionKeysInv, KeysDrawn, Drawn, InitiatedWith, RespondedWith

\* With fewer keypairs, no more ephemerals were used.
LEMMA FewerUsed ==
  ASSUME NEW S, NEW T, S \subseteq T, NEW e
  PROVE  /\ ~InitiatedWith(T, e) => ~InitiatedWith(S, e)
         /\ ~RespondedWith(T, e) => ~RespondedWith(S, e)
BY Zenon DEF InitiatedWith, RespondedWith

\* EphemeralUnused is kept by a step that adds no keypair and brings only
\* unused ephemerals to handshakes and workers.
LEMMA UnusedKept ==
  ASSUME SessionKeysInv, WorkerOK',
         \A p \in Peer : Slots(p)' \subseteq Slots(p),
         \A p \in Peer :
           \/ handshake'[p] = handshake[p]
           \/ /\ handshake'[p].state = "InitiationCreated" =>
                   ~InitiatedWith(Slots(p), handshake'[p].localEphemeral)
              /\ handshake'[p].state = "ResponseConsumed" =>
                   ~InitiatedWith(Slots(p), handshake'[p].transcript.ie)
              /\ handshake'[p].state = "ResponseCreated" =>
                   ~RespondedWith(Slots(p), handshake'[p].transcript.re),
         \A u \in Worker :
           \/ worker'[u] = worker[u]
           \/ worker'[u].pc = "responseChecked" =>
                ~InitiatedWith(Slots(worker'[u].peer), worker'[u].msg.key.ie)
  PROVE  EphemeralUnused'
<1>1. ASSUME NEW p \in Peer
      PROVE  /\ handshake'[p].state = "InitiationCreated" =>
                   ~InitiatedWith(Slots(p)', handshake'[p].localEphemeral)
             /\ handshake'[p].state = "ResponseConsumed" =>
                   ~InitiatedWith(Slots(p)', handshake'[p].transcript.ie)
             /\ handshake'[p].state = "ResponseCreated" =>
                   ~RespondedWith(Slots(p)', handshake'[p].transcript.re)
  <2>1. /\ handshake[p].state = "InitiationCreated" =>
             ~InitiatedWith(Slots(p), handshake[p].localEphemeral)
        /\ handshake[p].state = "ResponseConsumed" =>
             ~InitiatedWith(Slots(p), handshake[p].transcript.ie)
        /\ handshake[p].state = "ResponseCreated" =>
             ~RespondedWith(Slots(p), handshake[p].transcript.re)
    BY Zenon DEF SessionKeysInv, EphemeralUnused
  <2> QED
    BY <2>1, FewerUsed, Zenon
<1>2. ASSUME NEW u \in Worker, worker'[u].pc = "responseChecked"
      PROVE  ~InitiatedWith(Slots(worker[u].peer)', worker'[u].msg.key.ie)
  <2>1. PICK p : p = worker'[u].peer
    BY Zenon
  <2>2. p \in Peer
    BY <1>2, <2>1 DEF WorkerOK
  <2>3. ~InitiatedWith(Slots(p), worker'[u].msg.key.ie)
    BY <1>2, <2>1, Zenon DEF SessionKeysInv, EphemeralUnused
  <2>4. ~InitiatedWith(Slots(p)', worker'[u].msg.key.ie)
    BY <2>2, <2>3, FewerUsed, Zenon
  <2>5. Slots(worker[u].peer)' = Slots(p)'
    BY <2>1 DEF Slots
  <2> QED
    BY <2>4, <2>5, Zenon
<1> QED
  BY <1>1, <1>2, Zenon DEF EphemeralUnused

\* ResponderOwns is kept by a step that adds no keypair and, if it creates a
\* response, creates it for one peer q with an ephemeral just generated.
LEMMA OwnsKept ==
  ASSUME SessionKeysInv, NEW q,
         \A p \in Peer : Slots(p)' \subseteq Slots(p),
         \A p \in Peer : handshake'[p].state = "ResponseCreated" =>
           \/ handshake'[p] = handshake[p]
           \/ p = q /\ handshake'[p].transcript.re \notin 0..ephemerals,
         \A m \in CreatedResponses' :
           \/ m \in CreatedResponses
           \/ m.peer = q /\ m.key.re \notin 0..ephemerals
  PROVE  ResponderOwns'
<1> SUFFICES ASSUME NEW m \in CreatedResponses', NEW p \in Peer,
                    \/ RespondedWith(Slots(p)', m.key.re)
                    \/ /\ handshake'[p].state = "ResponseCreated"
                       /\ handshake'[p].transcript.re = m.key.re
             PROVE  m.peer = p
  BY Zenon DEF ResponderOwns
<1>1. CASE m \in CreatedResponses
  <2>1. m.key.re \in 0..ephemerals
    BY <1>1, Zenon DEF SessionKeysInv, KeysDrawn, Drawn
  <2>2. CASE RespondedWith(Slots(p)', m.key.re)
    BY <1>1, <2>2, FewerUsed, Zenon DEF SessionKeysInv, ResponderOwns
  <2>3. CASE handshake'[p].state = "ResponseCreated" /\ handshake'[p].transcript.re = m.key.re
    BY <1>1, <2>1, <2>3, Zenon DEF SessionKeysInv, ResponderOwns
  <2> QED
    BY <2>2, <2>3, Zenon
<1>2. CASE m.peer = q /\ m.key.re \notin 0..ephemerals
  <2>1. ~RespondedWith(Slots(p)', m.key.re)
    BY <1>2, UngeneratedUnused, FewerUsed, Zenon
  <2>2. handshake[p].transcript.re \in 0..ephemerals
    BY Zenon DEF SessionKeysInv, KeysDrawn, Drawn
  <2> QED
    BY <1>2, <2>1, <2>2, Zenon
<1> QED
  BY <1>1, <1>2, Zenon

\* A derivation: the ephemeral of the new keypair was in no slot, and is now
\* in no handshake and, with one worker for each device, with no worker.
LEMMA DerivingKeeps ==
  ASSUME OneWorker, SessionKeysInv, WorkerOK', NEW w \in Worker,
         DeriveAfterResponse(w) \/ SendHandshakeResponse(w)
  PROVE  KeysDrawn' /\ EphemeralUnused' /\ ResponderOwns' /\ DistinctSessionKeys'
<1>t. TypeOK /\ WorkerOK /\ WorkerAtHome
  BY Zenon DEF SessionKeysInv, SessionInv
<1>1. PICK q, k : q = worker[w].peer /\ k = NewKeypair(q)
  BY Zenon
<1>2. /\ UNCHANGED <<ephemerals, initiations>>
      /\ OnlyWorker(w) /\ OnlyPeer(q)
      /\ q \in Peer /\ BeginSymmetricSession(q)
      /\ worker[w].pc \in {"responseCreated", "responseConsumed"}
      /\ worker'[w].pc = "idle"
      /\ handshake'[q].state = "Zeroed"
      /\ handshake'[q].transcript = ZeroTranscript
      /\ \/ responses' = responses
         \/ worker[w].pc = "responseCreated" /\ responses' = responses \cup {worker[w].msg}
  BY <1>1, <1>t, DerivingDoes, Zenon
<1>3. /\ Slots(q)' \subseteq Slots(q) \cup {k}
      /\ \A p \in Peer : p # q => Slots(p)' = Slots(p)
  BY <1>1, <1>2, <1>t, DerivedSlots, Zenon
<1>4. \A m \in CreatedResponses' : m \in CreatedResponses
  BY <1>2, CreatedResponsesMove
<1>5. /\ k.key = handshake[q].transcript
      /\ ~k.isInitiator => handshake[q].state = "ResponseCreated"
  <2>1. handshake[q].state \in DerivableState
    BY <1>2, Zenon DEF BeginSymmetricSession
  <2>2. k.key = handshake[q].transcript
        /\ (k.isInitiator <=> handshake[q].state = "ResponseConsumed")
    BY <1>1, Zenon DEF NewKeypair
  <2> QED
    BY <2>1, <2>2, Zenon DEF DerivableState
<1>6. KeysDrawn'
  <2>1. Drawn(k.key, ephemerals')
    BY <1>2, <1>5, Zenon DEF SessionKeysInv, KeysDrawn
  <2>2. Drawn(ZeroTranscript, ephemerals')
    <3>1. ephemerals \in Nat
      BY <1>t, BoundAssumption DEF TypeOK, Ephemeral
    <3> QED
      BY <1>2, <3>1, ZeroDrawn, Zenon
  <2>3. \A n \in 0..ephemerals : n \in 0..ephemerals'
    BY <1>2, Zenon
  <2>4. \A p \in Peer : handshake'[p] = handshake[p] \/ Drawn(handshake'[p].transcript, ephemerals')
    BY <1>2, <2>2, Zenon DEF OnlyPeer
  <2>5. \A p \in Peer : \A x \in Slots(p)' : x \in Slots(p) \/ Drawn(x.key, ephemerals')
    BY <1>3, <2>1, Zenon
  <2>6. \A m \in initiations' : m \in initiations \/ m.ephemeral \in 0..ephemerals'
    BY <1>2, Zenon
  <2> QED
    BY <1>4, <2>3, <2>4, <2>5, <2>6, DrawnKept, Zenon
<1>7. EphemeralUnused'
  <2>1. ASSUME NEW p \in Peer
        PROVE  /\ handshake'[p].state = "InitiationCreated" =>
                    ~InitiatedWith(Slots(p)', handshake'[p].localEphemeral)
               /\ handshake'[p].state = "ResponseConsumed" =>
                    ~InitiatedWith(Slots(p)', handshake'[p].transcript.ie)
               /\ handshake'[p].state = "ResponseCreated" =>
                    ~RespondedWith(Slots(p)', handshake'[p].transcript.re)
    <3>1. CASE p = q
      BY <1>2, <3>1
    <3>2. CASE p # q
      BY <1>2, <1>3, <3>2, Zenon DEF OnlyPeer, SessionKeysInv, EphemeralUnused
    <3> QED
      BY <3>1, <3>2, Zenon
  <2>2. ASSUME NEW u \in Worker, worker'[u].pc = "responseChecked"
        PROVE  ~InitiatedWith(Slots(worker[u].peer)', worker'[u].msg.key.ie)
    <3>1. u # w /\ worker'[u] = worker[u]
      BY <1>2, <2>2 DEF OnlyWorker
    <3>2. PICK p : p = worker[u].peer
      BY Zenon
    <3>3. p \in Peer /\ p # q
      <4>1. worker[u].pc # "idle" /\ worker[w].pc # "idle"
        BY <1>2, <2>2, <3>1, Zenon
      <4>2. p \in Peer
        BY <1>t, <3>2, <4>1, Zenon DEF WorkerOK
      <4>3. DeviceOf[p] = HostOf[u] /\ DeviceOf[q] = HostOf[w]
        BY <1>1, <1>t, <3>2, <4>1, Zenon DEF WorkerAtHome
      <4>4. HostOf[u] # HostOf[w]
        BY <3>1, Zenon DEF OneWorker
      <4> QED
        BY <4>2, <4>3, <4>4, Zenon
    <3>4. ~InitiatedWith(Slots(p), worker'[u].msg.key.ie)
      BY <2>2, <3>1, <3>2, Zenon DEF SessionKeysInv, EphemeralUnused
    <3>5. Slots(worker[u].peer)' = Slots(p)'
      BY <3>1, <3>2 DEF Slots
    <3> QED
      BY <1>3, <3>3, <3>4, <3>5, Zenon
  <2> QED
    BY <2>1, <2>2, Zenon DEF EphemeralUnused
<1>8. ResponderOwns'
  <2> SUFFICES ASSUME NEW m \in CreatedResponses', NEW p \in Peer,
                      \/ RespondedWith(Slots(p)', m.key.re)
                      \/ /\ handshake'[p].state = "ResponseCreated"
                         /\ handshake'[p].transcript.re = m.key.re
               PROVE  m.peer = p
    BY Zenon DEF ResponderOwns
  <2>1. m \in CreatedResponses
    BY <1>4, Zenon
  <2>2. CASE p # q
    BY <1>2, <1>3, <2>1, <2>2, Zenon DEF OnlyPeer, SessionKeysInv, ResponderOwns
  <2>3. CASE p = q
    <3>1. RespondedWith(Slots(q)', m.key.re)
      BY <1>2, <2>3
    <3>2. PICK x \in Slots(q)' : ~x.isInitiator /\ x.key.re = m.key.re
      BY <3>1, Zenon DEF RespondedWith
    <3>3. CASE x \in Slots(q)
      BY <1>2, <2>1, <2>3, <3>2, <3>3, ZenonT(60) DEF RespondedWith, SessionKeysInv, ResponderOwns
    <3>4. CASE x = k
      BY <1>2, <1>5, <2>1, <2>3, <3>2, <3>4, Zenon DEF SessionKeysInv, ResponderOwns
    <3> QED
      BY <1>3, <3>2, <3>3, <3>4, Zenon
  <2> QED
    BY <2>2, <2>3, Zenon
<1> QED
  BY <1>2, <1>6, <1>7, <1>8, DistinctDerived, Zenon

\* A step that leaves the slots alone leaves their keys apart.
LEMMA SlotsKept ==
  ASSUME SessionKeysInv, keypairs' = keypairs
  PROVE  DistinctSessionKeys' /\ \A p \in Peer : Slots(p)' = Slots(p)
BY Zenon DEF SessionKeysInv, DistinctSessionKeys, Slots

\* A step that generates no ephemeral, derives nothing and creates no
\* response: what it brings to handshakes and workers is unused.
LEMMA NothingDerived ==
  ASSUME SessionKeysInv, WorkerOK', ephemerals' = ephemerals, initiations' = initiations,
         \A p \in Peer : Slots(p)' \subseteq Slots(p),
         \A m \in CreatedResponses' : m \in CreatedResponses,
         \A p \in Peer :
           \/ handshake'[p] = handshake[p]
           \/ /\ handshake'[p].state \notin {"InitiationCreated", "ResponseCreated"}
              /\ handshake'[p].state = "ResponseConsumed" =>
                   ~InitiatedWith(Slots(p), handshake'[p].transcript.ie)
              /\ Drawn(handshake'[p].transcript, ephemerals),
         \A u \in Worker :
           \/ worker'[u] = worker[u]
           \/ worker'[u].pc = "responseChecked" =>
                ~InitiatedWith(Slots(worker'[u].peer), worker'[u].msg.key.ie)
  PROVE  KeysDrawn' /\ EphemeralUnused' /\ ResponderOwns'
<1>1. KeysDrawn'
  <2>1. \A n \in 0..ephemerals : n \in 0..ephemerals'
    BY Zenon
  <2>2. \A p \in Peer : handshake'[p] = handshake[p] \/ Drawn(handshake'[p].transcript, ephemerals')
    BY Zenon
  <2>3. \A p \in Peer : \A x \in Slots(p)' : x \in Slots(p) \/ Drawn(x.key, ephemerals')
    BY Zenon
  <2>4. \A m \in initiations' : m \in initiations \/ m.ephemeral \in 0..ephemerals'
    BY Zenon
  <2> QED
    BY <2>1, <2>2, <2>3, <2>4, DrawnKept, Zenon
<1>2. EphemeralUnused'
  BY UnusedKept, Zenon
<1>3. ResponderOwns'
  BY OwnsKept, Zenon
<1> QED
  BY <1>1, <1>2, <1>3, Zenon

\* A step that clears the handshake of a peer, or touches none.
LEMMA ClearedKeeps ==
  ASSUME SessionKeysInv, WorkerOK',
         UNCHANGED <<worker, ephemerals, initiations, responses>>,
         \A p \in Peer : Slots(p)' \subseteq Slots(p),
         \A p \in Peer : \/ handshake'[p] = handshake[p]
                         \/ /\ handshake'[p].state = "Zeroed"
                            /\ handshake'[p].transcript = ZeroTranscript
  PROVE  KeysDrawn' /\ EphemeralUnused' /\ ResponderOwns'
<1>1. Drawn(ZeroTranscript, ephemerals)
  <2>1. ephemerals \in Nat
    BY BoundAssumption DEF SessionKeysInv, SessionInv, TypeOK, Ephemeral
  <2> QED
    BY <2>1, ZeroDrawn, Zenon
<1>2. \A p \in Peer :
        \/ handshake'[p] = handshake[p]
        \/ /\ handshake'[p].state \notin {"InitiationCreated", "ResponseCreated"}
           /\ handshake'[p].state = "ResponseConsumed" =>
                ~InitiatedWith(Slots(p), handshake'[p].transcript.ie)
           /\ Drawn(handshake'[p].transcript, ephemerals)
  BY <1>1
<1>3. \A m \in CreatedResponses' : m \in CreatedResponses
  BY Zenon DEF CreatedResponses
<1> QED
  BY <1>2, <1>3, NothingDerived, Zenon

\* Every step keeps the keys apart, with one worker for each device.
LEMMA StepKeys ==
  ASSUME OneWorker, SessionKeysInv, [Next]_vars
  PROVE  KeysDrawn' /\ EphemeralUnused' /\ ResponderOwns' /\ DistinctSessionKeys'
<1> DEFINE Kept == KeysDrawn' /\ EphemeralUnused' /\ ResponderOwns'
<1>t. TypeOK /\ WorkerOK /\ WorkerAtHome /\ WorkerOK' /\ ephemerals \in Nat
  <2>1. TypeOK /\ WorkerOK /\ WorkerAtHome
    BY Zenon DEF SessionKeysInv, SessionInv
  <2>2. ephemerals \in Nat
    BY <2>1, BoundAssumption DEF TypeOK, Ephemeral
  <2> QED
    BY <2>1, <2>2, StepType, Zenon
<1>m. \A q \in Peer : Mirror[q] \in Peer
  BY TopologyAssumption, Zenon
<1>1. ASSUME NEW w \in Worker,
             (\E m \in initiations : CheckInitiation(w, m))
               \/ CreateMessageResponseFails(w) \/ BeginSymmetricSessionFails(w)
      PROVE  Kept /\ DistinctSessionKeys'
  <2>1. /\ UNCHANGED <<handshake, keypairs, ephemerals, initiations, responses>>
        /\ OnlyWorker(w) /\ worker'[w].pc \in {"initiationChecked", "idle"}
    BY <1>1, <1>t, CheckInitiationDoes, FailingDoes, Zenon
  <2>2. \A m \in CreatedResponses' : m \in CreatedResponses
    BY <2>1, CreatedResponsesMove
  <2>3. \A u \in Worker : worker'[u] = worker[u] \/ worker'[u].pc # "responseChecked"
    BY <2>1 DEF OnlyWorker
  <2>4. DistinctSessionKeys' /\ \A p \in Peer : Slots(p)' = Slots(p)
    BY <2>1, SlotsKept, Zenon
  <2>5. Kept
    BY <1>t, <2>1, <2>2, <2>3, <2>4, NothingDerived, Zenon
  <2> QED
    BY <2>4, <2>5, Zenon
<1>2. ASSUME NEW w \in Worker, ConsumeMessageInitiation(w)
      PROVE  Kept /\ DistinctSessionKeys'
  <2>1. PICK q, m : q = worker[w].peer /\ m = worker[w].msg
    BY Zenon
  <2>2. /\ UNCHANGED <<keypairs, ephemerals, initiations, responses>>
        /\ OnlyWorker(w) /\ OnlyPeer(q) /\ m \in initiations
        /\ worker'[w].pc = "initiationConsumed"
        /\ handshake'[q].state = "InitiationConsumed"
        /\ handshake'[q].transcript = [ie |-> m.ephemeral, re |-> 0]
    BY <1>2, <1>t, <2>1, ConsumeInitiationDoes
  <2>3. \A x \in CreatedResponses' : x \in CreatedResponses
    BY <2>2, CreatedResponsesMove
  <2>4. \A u \in Worker : worker'[u] = worker[u] \/ worker'[u].pc # "responseChecked"
    BY <2>2 DEF OnlyWorker
  <2>5. DistinctSessionKeys' /\ \A p \in Peer : Slots(p)' = Slots(p)
    BY <2>2, SlotsKept, Zenon
  <2>6. Drawn(handshake'[q].transcript, ephemerals)
    <3>1. m.ephemeral \in 0..ephemerals
      BY <2>2, Zenon DEF SessionKeysInv, KeysDrawn
    <3> QED
      BY <1>t, <2>2, <3>1 DEF Drawn
  <2>7. \A p \in Peer :
          \/ handshake'[p] = handshake[p]
          \/ /\ handshake'[p].state \notin {"InitiationCreated", "ResponseCreated"}
             /\ handshake'[p].state = "ResponseConsumed" =>
                  ~InitiatedWith(Slots(p), handshake'[p].transcript.ie)
             /\ Drawn(handshake'[p].transcript, ephemerals)
    BY <2>2, <2>6 DEF OnlyPeer
  <2>8. Kept
    BY <1>t, <2>2, <2>3, <2>4, <2>5, <2>7, NothingDerived, Zenon
  <2> QED
    BY <2>5, <2>8, Zenon
<1>3. ASSUME NEW w \in Worker, NEW i, CreateMessageResponse(w, i)
      PROVE  Kept /\ DistinctSessionKeys'
  <2>1. PICK q, e : q = worker[w].peer /\ e = ephemerals'
    BY Zenon
  <2>2. /\ UNCHANGED <<keypairs, initiations, responses>>
        /\ OnlyWorker(w) /\ OnlyPeer(q) /\ q \in Peer
        /\ ephemerals' = ephemerals + 1
        /\ worker'[w].pc = "responseCreated"
        /\ worker'[w].msg.peer = q
        /\ worker'[w].msg.key = handshake'[q].transcript
        /\ handshake'[q].state = "ResponseCreated"
        /\ handshake'[q].transcript.ie = handshake[q].transcript.ie
        /\ handshake'[q].transcript.re = e
    BY <1>3, <1>t, <2>1, CreateResponseDoes, SMTT(30)
  <2>3. /\ \A n \in 0..ephemerals : n \in 0..ephemerals'
        /\ e \in 0..ephemerals' /\ e \notin 0..ephemerals
    BY <1>t, <2>1, <2>2, EphemeralGenerated, Zenon
  <2>4. DistinctSessionKeys' /\ \A p \in Peer : Slots(p)' = Slots(p)
    BY <2>2, SlotsKept, Zenon
  <2>5. \A m \in CreatedResponses' :
          m \in CreatedResponses \/ (m.peer = q /\ m.key = handshake'[q].transcript)
    <3>1. \A m \in CreatedResponses' : m \in CreatedResponses \/ m = worker'[w].msg
      BY <2>2, CreatedResponsesMove, Zenon
    <3> QED
      BY <2>2, <3>1, Zenon
  <2>6. Drawn(handshake'[q].transcript, ephemerals')
    BY <2>2, <2>3, Zenon DEF SessionKeysInv, KeysDrawn, Drawn
  <2>7. KeysDrawn'
    <3>1. \A p \in Peer : handshake'[p] = handshake[p] \/ Drawn(handshake'[p].transcript, ephemerals')
      BY <2>2, <2>6, Zenon DEF OnlyPeer
    <3>2. \A m \in CreatedResponses' : m \in CreatedResponses \/ Drawn(m.key, ephemerals')
      BY <2>5, <2>6, Zenon
    <3>3. \A p \in Peer : \A x \in Slots(p)' : x \in Slots(p) \/ Drawn(x.key, ephemerals')
      BY <2>4, Zenon
    <3>4. \A m \in initiations' : m \in initiations \/ m.ephemeral \in 0..ephemerals'
      BY <2>2, Zenon
    <3> QED
      BY <2>3, <3>1, <3>2, <3>3, <3>4, DrawnKept, Zenon
  <2>8. EphemeralUnused'
    <3>1. ~RespondedWith(Slots(q), handshake'[q].transcript.re)
      BY <2>2, <2>3, UngeneratedUnused, Zenon
    <3>2. \A p \in Peer :
            \/ handshake'[p] = handshake[p]
            \/ /\ handshake'[p].state = "InitiationCreated" =>
                    ~InitiatedWith(Slots(p), handshake'[p].localEphemeral)
               /\ handshake'[p].state = "ResponseConsumed" =>
                    ~InitiatedWith(Slots(p), handshake'[p].transcript.ie)
               /\ handshake'[p].state = "ResponseCreated" =>
                    ~RespondedWith(Slots(p), handshake'[p].transcript.re)
      BY <2>2, <3>1 DEF OnlyPeer
    <3>3. \A u \in Worker : worker'[u] = worker[u] \/ worker'[u].pc # "responseChecked"
      BY <2>2 DEF OnlyWorker
    <3> QED
      BY <1>t, <2>4, <3>2, <3>3, UnusedKept, Zenon
  <2>9. ResponderOwns'
    <3>1. \A p \in Peer : handshake'[p].state = "ResponseCreated" =>
            \/ handshake'[p] = handshake[p]
            \/ p = q /\ handshake'[p].transcript.re \notin 0..ephemerals
      BY <2>2, <2>3, Zenon DEF OnlyPeer
    <3>2. \A m \in CreatedResponses' :
            \/ m \in CreatedResponses
            \/ m.peer = q /\ m.key.re \notin 0..ephemerals
      BY <2>2, <2>3, <2>5, Zenon
    <3> QED
      BY <2>4, <3>1, <3>2, OwnsKept, Zenon
  <2> QED
    BY <2>4, <2>7, <2>8, <2>9, Zenon
<1>4. ASSUME NEW w \in Worker, NEW m \in responses, CheckResponse(w, m)
      PROVE  Kept /\ DistinctSessionKeys'
  <2>1. PICK q : q = Mirror[m.peer]
    BY Zenon
  <2>2. /\ UNCHANGED <<handshake, keypairs, ephemerals, initiations, responses>>
        /\ OnlyWorker(w)
        /\ worker'[w].pc = "responseChecked" /\ worker'[w].peer = q /\ worker'[w].msg = m
        /\ handshake[q].state = "InitiationCreated"
        /\ handshake[q].localEphemeral = m.key.ie
    BY <1>4, <1>t, <2>1, CheckResponseDoes, SMTT(30)
  <2>3. q \in Peer
    BY <1>m, <1>t, <2>1, Zenon DEF TypeOK, MessageResponse
  <2>4. ~InitiatedWith(Slots(q), m.key.ie)
    BY <2>2, <2>3, Zenon DEF SessionKeysInv, EphemeralUnused
  <2>5. \A u \in Worker :
          \/ worker'[u] = worker[u]
          \/ worker'[u].pc = "responseChecked" =>
               ~InitiatedWith(Slots(worker'[u].peer), worker'[u].msg.key.ie)
    BY <2>2, <2>4, Zenon DEF OnlyWorker
  <2>6. \A x \in CreatedResponses' : x \in CreatedResponses
    BY <2>2, CreatedResponsesMove
  <2>7. DistinctSessionKeys' /\ \A p \in Peer : Slots(p)' = Slots(p)
    BY <2>2, SlotsKept, Zenon
  <2>8. Kept
    BY <1>t, <2>2, <2>5, <2>6, <2>7, NothingDerived, Zenon
  <2> QED
    BY <2>7, <2>8, Zenon
<1>5. ASSUME NEW w \in Worker, ConsumeMessageResponse(w)
      PROVE  Kept /\ DistinctSessionKeys'
  <2>1. PICK q, m : q = worker[w].peer /\ m = worker[w].msg
    BY Zenon
  <2>2. /\ UNCHANGED <<keypairs, ephemerals, initiations, responses>>
        /\ OnlyWorker(w) /\ OnlyPeer(q) /\ m \in responses
        /\ worker[w].pc = "responseChecked"
        /\ worker'[w].pc = "responseConsumed"
        /\ handshake'[q].state = "ResponseConsumed"
        /\ handshake'[q].transcript = m.key
    BY <1>5, <1>t, <2>1, ConsumeResponseDoes, ZenonT(60)
  <2>3. ~InitiatedWith(Slots(q), m.key.ie)
    BY <2>1, <2>2, Zenon DEF SessionKeysInv, EphemeralUnused
  <2>4. Drawn(m.key, ephemerals)
    BY <2>2, CreatedMeans, Zenon DEF SessionKeysInv, KeysDrawn
  <2>5. \A p \in Peer :
          \/ handshake'[p] = handshake[p]
          \/ /\ handshake'[p].state \notin {"InitiationCreated", "ResponseCreated"}
             /\ handshake'[p].state = "ResponseConsumed" =>
                  ~InitiatedWith(Slots(p), handshake'[p].transcript.ie)
             /\ Drawn(handshake'[p].transcript, ephemerals)
    BY <2>2, <2>3, <2>4 DEF OnlyPeer
  <2>6. \A u \in Worker : worker'[u] = worker[u] \/ worker'[u].pc # "responseChecked"
    BY <2>2 DEF OnlyWorker
  <2>7. \A x \in CreatedResponses' : x \in CreatedResponses
    BY <2>2, CreatedResponsesMove
  <2>8. DistinctSessionKeys' /\ \A p \in Peer : Slots(p)' = Slots(p)
    BY <2>2, SlotsKept, Zenon
  <2>9. Kept
    BY <1>t, <2>2, <2>5, <2>6, <2>7, <2>8, NothingDerived, Zenon
  <2> QED
    BY <2>8, <2>9, Zenon
<1>6. ASSUME NEW q \in Peer, NEW i, NEW ts, CreateMessageInitiation(q, i, ts)
      PROVE  Kept /\ DistinctSessionKeys'
  <2>1. PICK e : e = ephemerals'
    BY Zenon
  <2>2. /\ UNCHANGED <<keypairs, worker, responses>>
        /\ OnlyPeer(q)
        /\ ephemerals' = ephemerals + 1
        /\ handshake'[q].state = "InitiationCreated"
        /\ handshake'[q].transcript = [ie |-> e, re |-> 0]
        /\ handshake'[q].localEphemeral = e
        /\ \A m \in initiations' : m \in initiations \/ m.ephemeral = e
    BY <1>6, <1>t, <2>1, CreateInitiationDoes, Zenon
  <2>3. /\ \A n \in 0..ephemerals : n \in 0..ephemerals'
        /\ e \in 0..ephemerals' /\ e \notin 0..ephemerals /\ 0 \in 0..ephemerals'
    BY <1>t, <2>1, <2>2, EphemeralGenerated, Zenon
  <2>4. DistinctSessionKeys' /\ \A p \in Peer : Slots(p)' = Slots(p)
    BY <2>2, SlotsKept, Zenon
  <2>5. \A m \in CreatedResponses' : m \in CreatedResponses
    BY <2>2, Zenon DEF CreatedResponses
  <2>6. KeysDrawn'
    <3>1. Drawn(handshake'[q].transcript, ephemerals')
      BY <2>2, <2>3 DEF Drawn
    <3>2. \A p \in Peer : handshake'[p] = handshake[p] \/ Drawn(handshake'[p].transcript, ephemerals')
      BY <2>2, <3>1, Zenon DEF OnlyPeer
    <3>3. \A p \in Peer : \A x \in Slots(p)' : x \in Slots(p) \/ Drawn(x.key, ephemerals')
      BY <2>4, Zenon
    <3>4. \A m \in initiations' : m \in initiations \/ m.ephemeral \in 0..ephemerals'
      BY <2>2, <2>3, Zenon
    <3> QED
      BY <2>3, <2>5, <3>2, <3>3, <3>4, DrawnKept, Zenon
  <2>7. EphemeralUnused'
    <3>1. ~InitiatedWith(Slots(q), handshake'[q].localEphemeral)
      BY <2>2, <2>3, UngeneratedUnused, Zenon
    <3>2. \A p \in Peer :
            \/ handshake'[p] = handshake[p]
            \/ /\ handshake'[p].state = "InitiationCreated" =>
                    ~InitiatedWith(Slots(p), handshake'[p].localEphemeral)
               /\ handshake'[p].state = "ResponseConsumed" =>
                    ~InitiatedWith(Slots(p), handshake'[p].transcript.ie)
               /\ handshake'[p].state = "ResponseCreated" =>
                    ~RespondedWith(Slots(p), handshake'[p].transcript.re)
      BY <2>2, <3>1 DEF OnlyPeer
    <3> QED
      BY <1>t, <2>2, <2>4, <3>2, UnusedKept, Zenon
  <2>8. ResponderOwns'
    <3>1. \A p \in Peer : handshake'[p].state = "ResponseCreated" => handshake'[p] = handshake[p]
      BY <2>2 DEF OnlyPeer
    <3> QED
      BY <2>4, <2>5, <3>1, OwnsKept, Zenon
  <2> QED
    BY <2>4, <2>6, <2>7, <2>8, Zenon
<1>7. ASSUME NEW q \in Peer, ZeroHandshakeState(q) \/ ExpireHandshake(q)
      PROVE  Kept /\ DistinctSessionKeys'
  <2>1. /\ UNCHANGED <<keypairs, worker, ephemerals, initiations, responses>>
        /\ OnlyPeer(q)
        /\ handshake'[q].state = "Zeroed" /\ handshake'[q].transcript = ZeroTranscript
    BY <1>7, <1>t, ClearingDoes, Zenon
  <2>2. DistinctSessionKeys' /\ \A p \in Peer : Slots(p)' = Slots(p)
    BY <2>1, SlotsKept, Zenon
  <2> QED
    BY <1>t, <2>1, <2>2, ClearedKeeps, Zenon DEF OnlyPeer
<1>8. ASSUME NEW q \in Peer, NEW k, ReceivedWithKeypair(q, k)
      PROVE  Kept /\ DistinctSessionKeys'
  <2>1. UNCHANGED <<handshake, worker, ephemerals, initiations, responses>>
    BY <1>8, Zenon DEF ReceivedWithKeypair, net
  <2>2. \A p \in Peer :
          \/ keypairs'[p] = keypairs[p]
          \/ /\ keypairs'[p].previous = keypairs[p].current
             /\ keypairs'[p].current = keypairs[p].next
             /\ keypairs'[p].next = Nil
    <3>1. \/ keypairs' = keypairs
          \/ keypairs' = [keypairs EXCEPT ![q] = PromotedKeypairs(keypairs[q])]
      BY <1>8, Zenon DEF ReceivedWithKeypair
    <3>2. \A p \in Peer : keypairs'[p] = keypairs[p] \/ keypairs'[p] = PromotedKeypairs(keypairs[p])
      BY <1>t, <3>1, Zenon DEF TypeOK
    <3>3. \A s : /\ PromotedKeypairs(s).previous = s.current
                /\ PromotedKeypairs(s).current = s.next
                /\ PromotedKeypairs(s).next = Nil
      BY Zenon DEF PromotedKeypairs
    <3> QED
      BY <3>2, <3>3, Zenon
  <2>3. \A p \in Peer : Slots(p)' \subseteq Slots(p)
    BY <2>2 DEF Slots
  <2>4. DistinctSessionKeys'
    <3>1. DistinctSessionKeys
      BY Zenon DEF SessionKeysInv
    <3> QED
      BY <2>2, <3>1 DEF DistinctSessionKeys
  <2>5. Kept
    BY <1>t, <2>1, <2>3, ClearedKeeps, Zenon
  <2> QED
    BY <2>4, <2>5, Zenon
<1>9. ASSUME NEW q \in Peer, NEW who, ZeroKeypairs(q, who)
      PROVE  Kept /\ DistinctSessionKeys'
  <2>1. /\ UNCHANGED <<handshake, worker, ephemerals, initiations, responses>>
        /\ keypairs' = [keypairs EXCEPT ![q] = NoKeypairs]
    BY <1>9, Zenon DEF ZeroKeypairs, net
  <2>2. \A p \in Peer : keypairs'[p] = keypairs[p] \/ keypairs'[p] = NoKeypairs
    BY <1>t, <2>1, Zenon DEF TypeOK
  <2>3. \A p \in Peer : Slots(p)' \subseteq Slots(p)
    BY <2>2 DEF Slots, NoKeypairs
  <2>4. DistinctSessionKeys'
    <3>1. DistinctSessionKeys
      BY Zenon DEF SessionKeysInv
    <3> QED
      BY <2>2, <3>1, SMTT(30) DEF DistinctSessionKeys, NoKeypairs
  <2>5. Kept
    BY <1>t, <2>1, <2>3, ClearedKeeps, Zenon
  <2> QED
    BY <2>4, <2>5, Zenon
<1>10. ASSUME UNCHANGED <<handshake, keypairs, worker, ephemerals, initiations, responses>>
       PROVE  Kept /\ DistinctSessionKeys'
  <2>1. DistinctSessionKeys' /\ \A p \in Peer : Slots(p)' = Slots(p)
    BY <1>10, SlotsKept, Zenon
  <2> QED
    BY <1>10, <1>t, <2>1, ClearedKeeps, Zenon
<1>11. ASSUME NEW w \in Worker, DeriveAfterResponse(w) \/ SendHandshakeResponse(w)
       PROVE  Kept /\ DistinctSessionKeys'
  BY <1>11, <1>t, DerivingKeeps, Zenon
<1> QED
  BY Zenon, <1>1, <1>2, <1>3, <1>4, <1>5, <1>6, <1>7, <1>8, <1>9, <1>10, <1>11
  DEF Next, WorkerNext, PeerNext, SendTransport, ReceiveTransport, Stop, Start,
      ExpireNonces, vars, net

\* With one handshake worker for each device, a session key is in one slot of
\* a peer only: a response, or an initiation, delivered again makes no second
\* keypair of the exchange it belongs to.
THEOREM KeyInOneSlot == OneWorker => (Spec => []DistinctSessionKeys)
<1> SUFFICES ASSUME OneWorker PROVE Spec => []DistinctSessionKeys
  BY Zenon
<1>1. Init => SessionKeysInv
  <2> SUFFICES ASSUME Init PROVE SessionKeysInv
    BY Zenon
  <2>1. \A p \in Peer : keypairs[p] = NoKeypairs /\ handshake[p] = ZeroHandshake
    BY Zenon DEF Init
  <2>2. \A p \in Peer : Slots(p) = {}
    BY <2>1 DEF Slots, NoKeypairs
  <2>3. initiations = {} /\ responses = {} /\ ephemerals = 0 /\ \A w \in Worker : worker[w] = Idle
    BY Zenon DEF Init
  <2>4. ZeroHandshake.state = "Zeroed" /\ Idle.pc = "idle"
    BY Zenon DEF ZeroHandshake, Idle
  <2>5. CreatedResponses = {}
    BY <2>3, <2>4 DEF CreatedResponses
  <2>6. Drawn(ZeroHandshake.transcript, 0)
    BY DEF Drawn, ZeroHandshake, ZeroTranscript
  <2>7. KeysDrawn
    BY <2>1, <2>2, <2>3, <2>6, <2>5, Zenon DEF KeysDrawn
  <2>8. EphemeralUnused
    BY <2>1, <2>3, <2>4, <2>5, Zenon DEF EphemeralUnused
  <2>9. ResponderOwns
    BY <2>3, <2>5, Zenon DEF ResponderOwns
  <2>10. DistinctSessionKeys
    BY <2>1, SMTT(30) DEF DistinctSessionKeys, NoKeypairs
  <2> QED
    BY <2>7, <2>8, <2>9, <2>10, InitSession, InitAtHome, Zenon DEF SessionKeysInv
<1>2. SessionKeysInv /\ [Next]_vars => SessionKeysInv'
  <2> SUFFICES ASSUME SessionKeysInv, [Next]_vars PROVE SessionKeysInv'
    BY Zenon
  <2>1. SessionInv'
    BY StepSession, Zenon DEF SessionKeysInv
  <2>2. WorkerAtHome'
    BY StepAtHome, Zenon DEF SessionKeysInv, SessionInv, InitiationInv
  <2> QED
    BY <2>1, <2>2, StepKeys, Zenon DEF SessionKeysInv
<1>3. SessionKeysInv => DistinctSessionKeys
  BY Zenon DEF SessionKeysInv
<1> QED
  BY <1>1, <1>2, <1>3, PTL DEF Spec
=============================================================================
