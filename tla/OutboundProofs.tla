--------------------------- MODULE OutboundProofs ---------------------------
(***************************************************************************)
(* No keypair encrypts two packets under one nonce, and no packet is left   *)
(* staged, for any number of goroutines, packets and keypairs, any           *)
(* capacities and any limit.                                                *)
(***************************************************************************)
EXTENDS Outbound, TLAPS

AnyCall(r) ==
  r = [pc |-> r.pc, keypair |-> r.keypair, todo |-> r.todo, kept |-> r.kept, ooo |-> r.ooo]

\* A call that assigns nonces holds a keypair.
HoldsKeypair(r) ==
  r.pc \in {"loop", "assign", "limit", "restaged", "outbound", "encryption"}
    => r.keypair \in Keypair

\* Every assigned nonce is under the limit and under the keypair's counter:
\* storing the limit never takes the counter back to an assigned nonce.
NonceInv ==
  /\ current \in Keypair \cup {NoKeypair} /\ derived \in 0..MaxKeypair
  /\ sendNonce \in [Keypair -> Nat]
  /\ DOMAIN caller = Caller /\ caller = [c \in Caller |-> caller[c]]
  /\ \A c \in Caller : AnyCall(caller[c]) /\ HoldsKeypair(caller[c])
  /\ \A a \in assigned : /\ a.keypair \in Keypair /\ a.nonce \in Nat
                         /\ a.nonce < RejectAfterMessages /\ a.nonce < sendNonce[a.keypair]
  /\ NoncesUnique

\* The initial state.
LEMMA InitNonces == Init => NonceInv
BY BoundAssumption
   DEF Init, NonceInv, NoncesUnique, AnyCall, HoldsKeypair, Idle, Fresh, CallAt, Keypair, NoKeypair

\* Steps that touch no call and no nonce.
LEMMA NonceFrame ==
  ASSUME NonceInv, UNCHANGED <<current, derived, sendNonce, caller, assigned>>
  PROVE  NonceInv'
BY Zenon DEF NonceInv, NoncesUnique, AnyCall, HoldsKeypair

\* Steps of one call that assign no nonce.
LEMMA CallStep ==
  ASSUME NonceInv, NEW c \in Caller, NEW r, Becomes(c, r), AnyCall(r), HoldsKeypair(r),
         UNCHANGED <<current, derived, sendNonce, assigned>>
  PROVE  NonceInv'
<1>1. caller' = [caller EXCEPT ![c] = r]
  BY Zenon DEF Becomes
<1>2. \A d \in Caller : caller'[d] = IF d = c THEN r ELSE caller[d]
  BY <1>1, Zenon DEF NonceInv
<1>3. DOMAIN caller' = Caller /\ caller' = [d \in Caller |-> caller'[d]]
  BY <1>1, Zenon DEF NonceInv
<1>4. \A d \in Caller : AnyCall(caller'[d]) /\ HoldsKeypair(caller'[d])
  BY <1>2, Zenon DEF NonceInv
<1> QED
  BY <1>3, <1>4, Zenon DEF NonceInv, NoncesUnique, AnyCall, HoldsKeypair

\* A change of program counter alone keeps the shape of the call.
LEMMA GotoShape ==
  ASSUME NEW r, AnyCall(r), NEW pc
  PROVE  LET s == [r EXCEPT !.pc = pc]
         IN AnyCall(s) /\ s.pc = pc /\ s.keypair = r.keypair
BY DEF AnyCall

\* A step that changes the program counter of a call alone.
LEMMA GotoStep ==
  ASSUME NonceInv, NEW c \in Caller, NEW pc, Goto(c, pc),
         pc \in {"loop", "assign", "limit", "restaged", "outbound", "encryption"}
           => caller[c].keypair \in Keypair,
         UNCHANGED <<current, derived, sendNonce, assigned>>
  PROVE  NonceInv'
<1> DEFINE s == [caller[c] EXCEPT !.pc = pc]
<1>1. AnyCall(s) /\ s.pc = pc /\ s.keypair = caller[c].keypair
  BY GotoShape, Zenon DEF NonceInv
<1>2. Becomes(c, s)
  BY Zenon DEF Goto
<1> HIDE DEF s
<1>3. HoldsKeypair(s)
  BY <1>1, Zenon DEF HoldsKeypair
<1> QED
  BY <1>1, <1>2, <1>3, CallStep, Zenon

\* The shape of the calls the steps make.
LEMMA CallShape ==
  ASSUME NEW pc, NEW k, NEW t, NEW u, NEW v,
         pc \in {"loop", "assign", "limit", "restaged", "outbound", "encryption"}
           => k \in Keypair
  PROVE  AnyCall(CallAt(pc, k, t, u, v)) /\ HoldsKeypair(CallAt(pc, k, t, u, v))
BY Zenon DEF AnyCall, HoldsKeypair, CallAt

\* A call that begins or is over holds no keypair.
LEMMA FreshShape ==
  \A pc \in {"idle", "top"} : AnyCall(Fresh(pc)) /\ HoldsKeypair(Fresh(pc))
BY CallShape, Zenon DEF Fresh

\* Staging.
LEMMA StagingSteps ==
  ASSUME NonceInv
  PROVE  /\ \A n : ReadFromTUN(n) => NonceInv'
         /\ Stage => NonceInv'
         /\ \A c \in Caller :
              SendKeepalive(c) \/ StageKeepalive(c) \/ CallSendStagedPackets(c) => NonceInv'
<1>1. ASSUME NEW n, ReadFromTUN(n) PROVE NonceInv'
  <2>1. CASE running
    <3>1. \E t : Becomes(Reader, CallAt("stage", NoKeypair, t, <<>>, <<>>))
      BY <1>1, <2>1, Zenon DEF ReadFromTUN
    <3>2. UNCHANGED <<current, derived, sendNonce, assigned>>
      BY <1>1, Zenon DEF ReadFromTUN, keys
    <3> QED
      BY <3>1, <3>2, ReaderAssumption, CallShape, CallStep, Zenon
  <2>2. CASE ~running
    BY <1>1, <2>2, NonceFrame, Zenon DEF ReadFromTUN, keys
  <2> QED
    BY <2>1, <2>2, Zenon
<1>2. ASSUME Stage PROVE NonceInv'
  <2>1. UNCHANGED <<current, derived, sendNonce, assigned>>
    BY <1>2, Zenon DEF Stage, keys
  <2>2. Becomes(Reader, Fresh("top")) \/ UNCHANGED caller
    BY <1>2, Zenon DEF Stage
  <2> QED
    BY <2>1, <2>2, ReaderAssumption, FreshShape, CallStep, NonceFrame, Zenon
<1>3. ASSUME NEW c \in Caller, SendKeepalive(c) PROVE NonceInv'
  <2>1. UNCHANGED <<current, derived, sendNonce, assigned>>
    BY <1>3, Zenon DEF SendKeepalive, keys
  <2>2. \/ \E t : Becomes(c, CallAt("keepalive", NoKeypair, t, <<>>, <<>>))
        \/ Goto(c, "top")
    BY <1>3, Zenon DEF SendKeepalive
  <2> QED
    BY <2>1, <2>2, CallShape, CallStep, GotoStep, Zenon
<1>4. ASSUME NEW c \in Caller, StageKeepalive(c) \/ CallSendStagedPackets(c) PROVE NonceInv'
  <2>1. UNCHANGED <<current, derived, sendNonce, assigned>> /\ Goto(c, "top")
    BY <1>4, Zenon DEF StageKeepalive, CallSendStagedPackets, keys
  <2> QED
    BY <2>1, GotoStep, Zenon
<1> QED
  BY <1>1, <1>2, <1>3, <1>4, Zenon

\* Flushing.
LEMMA FlushSteps ==
  ASSUME NonceInv, NEW c \in Caller, GiveUp(c) \/ FlushStagedPackets(c)
  PROVE  NonceInv'
<1>1. UNCHANGED <<current, derived, sendNonce, assigned>>
  BY Zenon DEF GiveUp, FlushStagedPackets, keys
<1>2. Goto(c, "flush") \/ Becomes(c, Fresh("idle")) \/ UNCHANGED caller
  BY Zenon DEF GiveUp, FlushStagedPackets, Return, Idle
<1> QED
  BY <1>1, <1>2, FreshShape, CallStep, GotoStep, NonceFrame, Zenon

\* A new keypair, or none.
LEMMA DeriveStep ==
  ASSUME NonceInv, NEW c \in Caller, NEW pc \in {"derived", "flush"}, Goto(c, pc),
         UNCHANGED <<sendNonce, assigned>>,
         current' \in Keypair \cup {NoKeypair}, derived' \in 0..MaxKeypair
  PROVE  NonceInv'
<1> DEFINE s == [caller[c] EXCEPT !.pc = pc]
<1>1. AnyCall(s) /\ s.pc = pc
  BY GotoShape, Zenon DEF NonceInv
<1>2. caller' = [caller EXCEPT ![c] = s]
  BY Zenon DEF Goto, Becomes
<1> HIDE DEF s
<1>4. \A d \in Caller : caller'[d] = IF d = c THEN s ELSE caller[d]
  BY <1>2, Zenon DEF NonceInv
<1>5. DOMAIN caller' = Caller /\ caller' = [d \in Caller |-> caller'[d]]
  BY <1>2, Zenon DEF NonceInv
<1>6. \A d \in Caller : AnyCall(caller'[d]) /\ HoldsKeypair(caller'[d])
  BY <1>1, <1>4, Zenon DEF NonceInv, HoldsKeypair
<1> QED
  BY <1>2, <1>5, <1>6, Zenon DEF NonceInv, NoncesUnique, AnyCall, HoldsKeypair

\* A keypair derived, or all zeroed.
LEMMA KeypairSteps ==
  ASSUME NonceInv, NEW c \in Caller, Derive(c) \/ ZeroKeyMaterial(c)
  PROVE  NonceInv'
<1>1. UNCHANGED <<sendNonce, assigned>> /\ (Goto(c, "derived") \/ Goto(c, "flush"))
  BY Zenon DEF Derive, ZeroKeyMaterial
<1>2. current' \in Keypair \cup {NoKeypair} /\ derived' \in 0..MaxKeypair
  BY BoundAssumption DEF Derive, ZeroKeyMaterial, NonceInv, Keypair
<1> QED
  BY <1>1, <1>2, DeriveStep, Zenon

\* SendStagedPackets up to the nonces.
LEMMA TakeSteps ==
  ASSUME NonceInv, NEW c \in Caller, Top(c) \/ Take(c)
  PROVE  NonceInv'
<1>1. CASE Top(c)
  <2>1. UNCHANGED <<current, derived, sendNonce, assigned>>
    BY <1>1, Zenon DEF Top, keys
  <2>2. \/ /\ Usable(current)
           /\ Becomes(c, CallAt("loop", current, <<>>, <<>>, <<>>))
        \/ Becomes(c, Fresh("idle"))
    BY <1>1, Zenon DEF Top, Return, Idle
  <2>3. Usable(current) => current \in Keypair
    BY Zenon DEF NonceInv, Usable
  <2> QED
    BY <2>1, <2>2, <2>3, CallShape, FreshShape, CallStep, Zenon
<1>2. CASE Take(c)
  <2>1. UNCHANGED <<current, derived, sendNonce, assigned>>
    BY <1>2, Zenon DEF Take, keys
  <2>2. \/ Becomes(c, CallAt("assign", caller[c].keypair, Head(staged), <<>>, <<>>))
        \/ Becomes(c, Fresh("idle"))
    BY <1>2, Zenon DEF Take, Return, Idle
  <2>3. caller[c].keypair \in Keypair
    BY <1>2, Zenon DEF Take, At, NonceInv, HoldsKeypair
  <2> QED
    BY <2>1, <2>2, <2>3, CallShape, FreshShape, CallStep, Zenon
<1> QED
  BY <1>1, <1>2, Zenon

\* The counter of a keypair grows, or is set to the limit.
LEMMA CounterStep ==
  ASSUME NonceInv, NEW k \in Keypair, NEW n \in Nat, NEW new,
         sendNonce' = [sendNonce EXCEPT ![k] = n],
         n > sendNonce[k] \/ n >= RejectAfterMessages,
         assigned' = assigned \cup new,
         new = {} \/ \E e : /\ new = {e} /\ e.keypair = k /\ e.nonce = sendNonce[k]
                           /\ e.nonce < RejectAfterMessages /\ n > sendNonce[k]
  PROVE  /\ sendNonce' \in [Keypair -> Nat]
         /\ \A a \in assigned' :
              /\ a.keypair \in Keypair /\ a.nonce \in Nat
              /\ a.nonce < RejectAfterMessages /\ a.nonce < sendNonce'[a.keypair]
         /\ NoncesUnique'
<1>0. RejectAfterMessages \in Nat /\ sendNonce \in [Keypair -> Nat]
  BY BoundAssumption, Zenon DEF NonceInv
<1>1. /\ sendNonce' \in [Keypair -> Nat] /\ sendNonce'[k] = n
      /\ \A j \in Keypair : j # k => sendNonce'[j] = sendNonce[j]
  BY <1>0, Zenon
<1>2. ASSUME NEW a \in assigned
      PROVE  /\ a.keypair \in Keypair /\ a.nonce \in Nat /\ a.nonce < RejectAfterMessages
             /\ a.nonce < sendNonce[a.keypair] /\ a.nonce < sendNonce'[a.keypair]
  <2>1. /\ a.keypair \in Keypair /\ a.nonce \in Nat /\ a.nonce < RejectAfterMessages
        /\ a.nonce < sendNonce[a.keypair]
    BY Zenon DEF NonceInv
  <2> QED
    BY <1>0, <1>1, <2>1
<1>3. ASSUME NEW e \in new
      PROVE  /\ e.keypair = k /\ e.nonce = sendNonce[k] /\ e.nonce \in Nat
             /\ e.nonce < RejectAfterMessages /\ e.nonce < sendNonce'[k] /\ new = {e}
  BY <1>0, <1>1
<1>4. \A a \in assigned' :
        /\ a.keypair \in Keypair /\ a.nonce \in Nat
        /\ a.nonce < RejectAfterMessages /\ a.nonce < sendNonce'[a.keypair]
  BY <1>2, <1>3, Zenon
<1>5. NoncesUnique'
  <2> SUFFICES ASSUME NEW a \in assigned', NEW b \in assigned',
                      a.keypair = b.keypair, a.nonce = b.nonce
               PROVE  a = b
    BY Zenon DEF NoncesUnique
  <2>1. CASE a \in assigned /\ b \in assigned
    BY <2>1, Zenon DEF NonceInv, NoncesUnique
  <2>2. CASE a \in new /\ b \in new
    BY <2>2, <1>3, Zenon
  <2>3. CASE a \in assigned /\ b \in new
    BY <1>0, <1>2, <1>3, <2>3
  <2>4. CASE a \in new /\ b \in assigned
    BY <1>0, <1>2, <1>3, <2>4
  <2> QED
    BY <2>1, <2>2, <2>3, <2>4, Zenon
<1> QED
  BY <1>1, <1>4, <1>5, Zenon

\* A step of one call that also moves the counter of a keypair.
LEMMA CounterCallStep ==
  ASSUME NonceInv, NEW c \in Caller, NEW r, Becomes(c, r), AnyCall(r), HoldsKeypair(r),
         UNCHANGED <<current, derived>>,
         sendNonce' \in [Keypair -> Nat],
         \A a \in assigned' :
           /\ a.keypair \in Keypair /\ a.nonce \in Nat
           /\ a.nonce < RejectAfterMessages /\ a.nonce < sendNonce'[a.keypair],
         NoncesUnique'
  PROVE  NonceInv'
<1>1. caller' = [caller EXCEPT ![c] = r]
  BY Zenon DEF Becomes
<1>2. \A d \in Caller : caller'[d] = IF d = c THEN r ELSE caller[d]
  BY <1>1, Zenon DEF NonceInv
<1>3. DOMAIN caller' = Caller /\ caller' = [d \in Caller |-> caller'[d]]
  BY <1>1, Zenon DEF NonceInv
<1>4. \A d \in Caller : AnyCall(caller'[d]) /\ HoldsKeypair(caller'[d])
  BY <1>2, Zenon DEF NonceInv
<1> QED
  BY <1>3, <1>4, Zenon DEF NonceInv, AnyCall, HoldsKeypair

\* An element takes a nonce.
LEMMA AddNonceStep ==
  ASSUME NonceInv, NEW c \in Caller, AddNonce(c)
  PROVE  NonceInv'
<1> DEFINE call == caller[c]
           k == call.keypair
           packet == Head(call.todo)
           elem == [packet |-> packet, keypair |-> k, nonce |-> sendNonce[k]]
           n == sendNonce[k] + 1
<1>1. k \in Keypair
  BY Zenon DEF AddNonce, At, NonceInv, HoldsKeypair
<1>2. sendNonce[k] \in Nat /\ n \in Nat /\ n > sendNonce[k] /\ RejectAfterMessages \in Nat
  BY <1>1, BoundAssumption DEF NonceInv
<1>3. UNCHANGED <<current, derived>> /\ sendNonce' = [sendNonce EXCEPT ![k] = n]
  BY Zenon DEF AddNonce
<1>4. CASE sendNonce[k] >= RejectAfterMessages
  <2>1. /\ Becomes(c, CallAt("limit", k, Tail(call.todo), call.kept, Append(call.ooo, packet)))
        /\ assigned' = assigned
    BY <1>4, Zenon DEF AddNonce
  <2>2. assigned' = assigned \cup {}
    BY <2>1, Zenon
  <2> HIDE DEF call, k, packet, elem, n
  <2>3. /\ sendNonce' \in [Keypair -> Nat]
        /\ \A a \in assigned' :
             /\ a.keypair \in Keypair /\ a.nonce \in Nat
             /\ a.nonce < RejectAfterMessages /\ a.nonce < sendNonce'[a.keypair]
        /\ NoncesUnique'
    BY <1>1, <1>2, <1>3, <2>2, CounterStep, Zenon
  <2> QED
    BY <1>1, <1>3, <2>1, <2>3, CallShape, CounterCallStep, Zenon
<1>5. CASE ~(sendNonce[k] >= RejectAfterMessages)
  <2>1. /\ Becomes(c, CallAt("assign", k, Tail(call.todo), Append(call.kept, elem), call.ooo))
        /\ assigned' = assigned \cup {elem}
    BY <1>5, Zenon DEF AddNonce
  <2>2. elem.keypair = k /\ elem.nonce = sendNonce[k] /\ elem.nonce < RejectAfterMessages
    BY <1>2, <1>5
  <2> HIDE DEF call, k, packet, elem, n
  <2>3. /\ sendNonce' \in [Keypair -> Nat]
        /\ \A a \in assigned' :
             /\ a.keypair \in Keypair /\ a.nonce \in Nat
             /\ a.nonce < RejectAfterMessages /\ a.nonce < sendNonce'[a.keypair]
        /\ NoncesUnique'
    BY <1>1, <1>2, <1>3, <2>1, <2>2, CounterStep, Zenon
  <2> QED
    BY <1>1, <1>3, <2>1, <2>3, CallShape, CounterCallStep, Zenon
<1> QED
  BY <1>4, <1>5, Zenon

\* The limit is stored, by a call or by ExpireCurrentKeypairs.
LEMMA LimitSteps ==
  ASSUME NonceInv
  PROVE  /\ \A c \in Caller : StoreLimit(c) => NonceInv'
         /\ ExpireCurrentKeypairs => NonceInv'
<1>0. ASSUME NEW k \in Keypair, UNCHANGED assigned,
             sendNonce' = [sendNonce EXCEPT ![k] = RejectAfterMessages]
      PROVE  /\ sendNonce' \in [Keypair -> Nat]
             /\ \A a \in assigned' :
                  /\ a.keypair \in Keypair /\ a.nonce \in Nat
                  /\ a.nonce < RejectAfterMessages /\ a.nonce < sendNonce'[a.keypair]
             /\ NoncesUnique'
  <2>1. assigned' = assigned \cup {} /\ RejectAfterMessages \in Nat
    BY <1>0, BoundAssumption, Zenon
  <2>2. RejectAfterMessages >= RejectAfterMessages
    BY <2>1
  <2> QED
    BY <1>0, <2>1, <2>2, CounterStep, Zenon
<1>1. ASSUME NEW c \in Caller, StoreLimit(c) PROVE NonceInv'
  <2> DEFINE s == [caller[c] EXCEPT !.pc = "assign"]
  <2>1. AnyCall(s) /\ s.pc = "assign" /\ s.keypair = caller[c].keypair
    BY GotoShape, Zenon DEF NonceInv
  <2>2. caller[c].keypair \in Keypair
    BY <1>1, Zenon DEF StoreLimit, At, NonceInv, HoldsKeypair
  <2>3. Becomes(c, s) /\ UNCHANGED <<current, derived, assigned>>
    BY <1>1, Zenon DEF StoreLimit, Goto
  <2>4. sendNonce' = [sendNonce EXCEPT ![caller[c].keypair] = RejectAfterMessages]
    BY <1>1, Zenon DEF StoreLimit
  <2> HIDE DEF s
  <2>5. HoldsKeypair(s)
    BY <2>1, <2>2, Zenon DEF HoldsKeypair
  <2> QED
    BY <1>0, <2>1, <2>2, <2>3, <2>4, <2>5, CounterCallStep, Zenon
<1>2. ASSUME ExpireCurrentKeypairs PROVE NonceInv'
  <2>1. /\ current \in Keypair /\ UNCHANGED <<current, derived, caller, assigned>>
        /\ sendNonce' = [sendNonce EXCEPT ![current] = RejectAfterMessages]
    BY <1>2, Zenon DEF ExpireCurrentKeypairs, NonceInv
  <2> QED
    BY <1>0, <2>1, Zenon DEF NonceInv, AnyCall, HoldsKeypair
<1> QED
  BY <1>1, <1>2, Zenon

\* SendStagedPackets after the nonces.
LEMMA EnqueueSteps ==
  ASSUME NonceInv, NEW c \in Caller,
         Restage(c) \/ CheckRunning(c) \/ EnqueueOutbound(c) \/ EnqueueEncryption(c)
  PROVE  NonceInv'
<1>1. UNCHANGED <<current, derived, sendNonce, assigned>>
  BY Zenon DEF Restage, CheckRunning, EnqueueOutbound, EnqueueEncryption, keys
<1>2. caller[c].keypair \in Keypair
  BY Zenon DEF Restage, CheckRunning, EnqueueOutbound, EnqueueEncryption, At, NonceInv, HoldsKeypair
<1>3. ASSUME Continue(c) PROVE NonceInv'
  <2>1. \/ Becomes(c, CallAt("loop", caller[c].keypair, <<>>, <<>>, <<>>))
        \/ Becomes(c, Fresh("top"))
    BY <1>3, Zenon DEF Continue
  <2> QED
    BY <1>1, <1>2, <2>1, CallShape, FreshShape, CallStep, Zenon
<1>4. \/ Becomes(c, Fresh("top")) \/ Goto(c, "restaged") \/ UNCHANGED caller
      \/ Goto(c, "outbound") \/ Continue(c) \/ Goto(c, "encryption")
  BY Zenon DEF Restage, CheckRunning, EnqueueOutbound, EnqueueEncryption
<1> QED
  BY <1>1, <1>2, <1>3, <1>4, FreshShape, CallStep, GotoStep, NonceFrame, Zenon

\* Every step.
LEMMA StepNonces == NonceInv /\ [Next]_vars => NonceInv'
<1> SUFFICES ASSUME NonceInv, [Next]_vars PROVE NonceInv'
  BY Zenon
<1>1. CASE \E n \in 1..MaxBatch : ReadFromTUN(n)
  BY <1>1, StagingSteps, Zenon
<1>2. CASE Stage
  BY <1>2, StagingSteps, Zenon
<1>3. ASSUME NEW c \in Caller,
             \/ Derive(c) \/ SendKeepalive(c) \/ CallSendStagedPackets(c)
             \/ GiveUp(c) \/ ZeroKeyMaterial(c) \/ CallerNext(c)
      PROVE  NonceInv'
  BY <1>3, KeypairSteps, FlushSteps, StagingSteps, TakeSteps, AddNonceStep, LimitSteps,
     EnqueueSteps, Zenon DEF CallerNext
<1>4. CASE ExpireCurrentKeypairs
  BY <1>4, LimitSteps, Zenon
<1>5. CASE Age \/ SequentialNext \/ Down \/ Up \/ Stop \/ Start
  <2>1. UNCHANGED <<current, derived, sendNonce, caller, assigned>>
    BY <1>5, Zenon DEF Age, SequentialNext, TakeOutbound, Transmit, Down, Up, Stop, Start, keys
  <2> QED
    BY <2>1, NonceFrame, Zenon
<1>6. CASE \E w \in Encryptor : EncryptorNext(w)
  <2>1. UNCHANGED <<current, derived, sendNonce, caller, assigned>>
    BY <1>6, Zenon DEF EncryptorNext, TakeEncryption, Encrypt, keys
  <2> QED
    BY <2>1, NonceFrame, Zenon
<1>7. CASE StopNext
  <2>1. UNCHANGED <<derived, sendNonce, caller, assigned>> /\ current' \in {current, NoKeypair}
    BY <1>7, Zenon DEF StopNext, StopSignal, StopWait, StopFlush, keys
  <2> QED
    BY <2>1, Zenon DEF NonceInv, NoncesUnique, AnyCall, HoldsKeypair
<1>8. CASE UNCHANGED vars
  <2>1. UNCHANGED <<current, derived, sendNonce, caller, assigned>>
    BY <1>8, Zenon DEF vars
  <2> QED
    BY <2>1, NonceFrame, Zenon
<1> QED
  BY <1>1, <1>2, <1>3, <1>4, <1>5, <1>6, <1>7, <1>8, Zenon DEF Next

\* No keypair ever encrypts two packets under one nonce.
THEOREM NonceUniqueness == Spec => []NoncesUnique
<1>1. NonceInv => NoncesUnique
  BY Zenon DEF NonceInv
<1> QED
  BY <1>1, InitNonces, StepNonces, PTL DEF Spec
-----------------------------------------------------------------------------
(* Nothing is left staged.                                                  *)

\* Packets are staged that could be sent, and some call of SendStagedPackets or of a flush is in progress.
Wanted == counts.stops = 0 /\ up /\ Usable(current) /\ staged # <<>>
Busy == \E c \in Caller : ~At(c, "idle")

\* A peer whose Stop is in progress, or is over, was stopped: Up and Start come after a Stop.
StagedInv ==
  /\ NonceInv /\ counts \in [packets : Int, keepalives : Int, stops : Nat]
  /\ stop # "none" => counts.stops # 0
  /\ NothingStranded

\* The property, said of calls in progress.
LEMMA StrandedMeans == (NothingStranded <=> (Wanted => Busy)) /\ (NothingStranded' <=> (Wanted' => Busy'))
BY Zenon DEF NothingStranded, Wanted, Busy, At

\* The initial state.
LEMMA InitStaged == Init => StagedInv
BY InitNonces DEF Init, StagedInv, NothingStranded

\* A call that goes on is in progress.
LEMMA CallGoesOn ==
  ASSUME NonceInv, NEW c \in Caller, NEW r, Becomes(c, r), r.pc # "idle"
  PROVE  Busy'
<1>1. caller' = [caller EXCEPT ![c] = r] /\ DOMAIN caller = Caller
  BY Zenon DEF Becomes, NonceInv
<1>2. caller'[c] = r
  BY <1>1, Zenon
<1> QED BY <1>2, Zenon DEF Busy, At

\* So is one that goes to another point.
LEMMA CallMovesOn ==
  ASSUME NonceInv, NEW c \in Caller, NEW pc, Goto(c, pc), pc # "idle"
  PROVE  Busy'
<1>1. [caller[c] EXCEPT !.pc = pc].pc = pc
  BY GotoShape, Zenon DEF NonceInv
<1> QED BY <1>1, CallGoesOn, Zenon DEF Goto

\* So is a call at a point that is not the end.
LEMMA CallIsAt ==
  ASSUME NonceInv, NEW c \in Caller, NEW pc, pc # "idle", NEW k, NEW t, NEW u, NEW v,
         Becomes(c, CallAt(pc, k, t, u, v))
  PROVE  Busy'
<1>1. CallAt(pc, k, t, u, v).pc = pc
  BY Zenon DEF CallAt
<1> QED BY <1>1, CallGoesOn, Zenon

\* And one that begins anew.
LEMMA CallIsFresh ==
  ASSUME NonceInv, NEW c \in Caller, Becomes(c, Fresh("top"))
  PROVE  Busy'
BY CallIsAt, Zenon DEF Fresh

\* Calls that change nothing.
LEMMA CallStays ==
  ASSUME NEW c \in Caller, ~At(c, "idle"), UNCHANGED caller
  PROVE  Busy'
BY Zenon DEF Busy, At

\* What StagePackets and SendStagedPackets put back is seen by a call that began after, or by their own.
LEMMA StagingLeavesNone ==
  ASSUME StagedInv
  PROVE  /\ \A n : ReadFromTUN(n) => NothingStranded'
         /\ Stage => NothingStranded'
         /\ \A c \in Caller :
              \/ Derive(c) \/ SendKeepalive(c) \/ StageKeepalive(c) \/ CallSendStagedPackets(c)
              \/ GiveUp(c) \/ ZeroKeyMaterial(c)
              => NothingStranded'
<1>1. ASSUME NEW n, ReadFromTUN(n) PROVE NothingStranded'
  <2>1. CASE running
    <3>1. \E t : Becomes(Reader, CallAt("stage", NoKeypair, t, <<>>, <<>>))
      BY <1>1, <2>1, Zenon DEF ReadFromTUN
    <3>2. Busy'
      BY <3>1, ReaderAssumption, CallIsAt, Zenon DEF StagedInv
    <3> QED BY <3>2, StrandedMeans, Zenon
  <2>2. CASE ~running
    <3>1. UNCHANGED <<caller, staged, current, sendNonce, aged, up>>
      BY <1>1, <2>2, Zenon DEF ReadFromTUN, keys, control
    <3>2. counts'.stops = counts.stops
      BY <1>1 DEF ReadFromTUN, StagedInv
    <3> QED BY <3>1, <3>2, Zenon DEF StagedInv, NothingStranded, At, Usable
  <2> QED BY <2>1, <2>2, Zenon
<1>2. ASSUME Stage PROVE NothingStranded'
  <2>1. Becomes(Reader, Fresh("top")) \/ (~At(Reader, "idle") /\ UNCHANGED caller)
    BY <1>2, Zenon DEF Stage, At
  <2>2. Busy'
    BY <2>1, ReaderAssumption, CallIsFresh, CallStays, Zenon DEF StagedInv
  <2> QED BY <2>2, StrandedMeans, Zenon
<1>3. ASSUME NEW c \in Caller,
             \/ Derive(c) \/ SendKeepalive(c) \/ StageKeepalive(c) \/ CallSendStagedPackets(c)
             \/ GiveUp(c) \/ ZeroKeyMaterial(c)
      PROVE  NothingStranded'
  <2>1. \/ \E pc \in {"derived", "top", "flush"} : Goto(c, pc)
        \/ \E t : Becomes(c, CallAt("keepalive", NoKeypair, t, <<>>, <<>>))
    BY <1>3, Zenon DEF Derive, SendKeepalive, StageKeepalive, CallSendStagedPackets, GiveUp, ZeroKeyMaterial
  <2>2. Busy'
    BY <2>1, CallIsAt, CallMovesOn, Zenon DEF StagedInv
  <2> QED BY <2>2, StrandedMeans, Zenon
<1> QED BY <1>1, <1>2, <1>3, Zenon

\* A call ends when nothing is staged, or when it saw that nothing can be sent.
LEMMA CallsLeaveNone ==
  ASSUME StagedInv, NEW c \in Caller, CallerNext(c)
  PROVE  NothingStranded'
<1>1. CASE Top(c)
  <2>1. Becomes(c, CallAt("loop", current, <<>>, <<>>, <<>>)) \/ ~(staged # <<>> /\ up /\ Usable(current))
    BY <1>1, Zenon DEF Top
  <2>2. UNCHANGED <<staged, current, sendNonce, aged, up>>
    BY <1>1, Zenon DEF Top, keys, control
  <2>3. Busy' \/ ~Wanted'
    BY <2>1, <2>2, CallIsAt, Zenon DEF StagedInv, Wanted, Usable
  <2> QED BY <2>3, StrandedMeans, Zenon
<1>2. CASE Take(c)
  <2>1. \/ Becomes(c, CallAt("assign", caller[c].keypair, Head(staged), <<>>, <<>>))
        \/ staged = <<>> /\ UNCHANGED staged
    BY <1>2, Zenon DEF Take
  <2>2. Busy' \/ ~Wanted'
    BY <2>1, CallIsAt, Zenon DEF StagedInv, Wanted
  <2> QED BY <2>2, StrandedMeans, Zenon
<1>3. CASE FlushStagedPackets(c)
  <2>1. (staged = <<>> /\ UNCHANGED staged) \/ (~At(c, "idle") /\ UNCHANGED caller)
    BY <1>3, Zenon DEF FlushStagedPackets, At
  <2>2. Busy' \/ ~Wanted'
    BY <2>1, CallStays, Zenon DEF Wanted
  <2> QED BY <2>2, StrandedMeans, Zenon
<1>4. CASE AddNonce(c) \/ StoreLimit(c) \/ StageKeepalive(c) \/ EnqueueOutbound(c)
  <2>1. \/ \E k, t, u, v : \E pc \in {"limit", "assign"} : Becomes(c, CallAt(pc, k, t, u, v))
        \/ \E pc \in {"assign", "top", "encryption"} : Goto(c, pc)
    BY <1>4, Zenon DEF AddNonce, StoreLimit, StageKeepalive, EnqueueOutbound
  <2>2. Busy'
    BY <2>1, CallIsAt, CallMovesOn, Zenon DEF StagedInv
  <2> QED BY <2>2, StrandedMeans, Zenon
<1>5. CASE Restage(c) \/ CheckRunning(c) \/ EnqueueEncryption(c)
  <2>1. \/ \E pc \in {"restaged", "outbound"} : Goto(c, pc)
        \/ Becomes(c, Fresh("top")) \/ Continue(c)
        \/ ~At(c, "idle") /\ UNCHANGED caller
    BY <1>5, Zenon DEF Restage, CheckRunning, EnqueueEncryption, At
  <2>2. Continue(c) => Becomes(c, CallAt("loop", caller[c].keypair, <<>>, <<>>, <<>>)) \/ Becomes(c, Fresh("top"))
    BY Zenon DEF Continue
  <2>3. Busy'
    BY <2>1, <2>2, CallIsAt, CallIsFresh, CallMovesOn, CallStays, Zenon DEF StagedInv
  <2> QED BY <2>3, StrandedMeans, Zenon
<1> QED BY <1>1, <1>2, <1>3, <1>4, <1>5, Zenon DEF CallerNext

\* The other steps stage nothing, and bring up neither a keypair nor the device of a peer never stopped.
LEMMA OthersLeaveNone ==
  ASSUME StagedInv, Age \/ ExpireCurrentKeypairs \/ SequentialNext \/ Down \/ Up \/ Stop \/ StopNext \/ Start
  PROVE  NothingStranded'
<1>0. UNCHANGED caller
  BY Zenon DEF Age, ExpireCurrentKeypairs, SequentialNext, TakeOutbound, Transmit, Down, Up, Stop, StopNext,
     StopSignal, StopWait, StopFlush, Start
<1>1. CASE Age
  <2>1. UNCHANGED <<staged, current, sendNonce, up, counts>> /\ aged \subseteq aged'
    BY <1>1, Zenon DEF Age, control
  <2> QED BY <1>0, <2>1, Zenon DEF StagedInv, NothingStranded, At, Usable
<1>2. CASE ExpireCurrentKeypairs
  <2>1. current \in Keypair /\ UNCHANGED current /\ sendNonce'[current] = RejectAfterMessages
    BY <1>2, Zenon DEF ExpireCurrentKeypairs, StagedInv, NonceInv
  <2>2. ~Usable(current)'
    BY <2>1, BoundAssumption DEF Usable
  <2> QED BY <2>2, Zenon DEF NothingStranded
<1>3. CASE Down \/ StopWait
  <2>1. ~up' \/ ~Usable(current)'
    BY <1>3, Zenon DEF Down, StopWait, Usable
  <2> QED BY <2>1, Zenon DEF NothingStranded
<1>4. CASE Up \/ StopFlush
  <2>1. stop # "none" /\ UNCHANGED counts
    BY <1>4, Zenon DEF Up, StopFlush
  <2> QED BY <2>1, Zenon DEF StagedInv, NothingStranded
<1>5. CASE Stop
  <2>1. counts'.stops # 0
    BY <1>5 DEF Stop, StagedInv
  <2> QED BY <2>1, Zenon DEF NothingStranded
<1>6. CASE SequentialNext \/ StopSignal \/ Start
  <2>1. UNCHANGED <<staged, current, sendNonce, aged, up, counts>>
    BY <1>6, Zenon DEF SequentialNext, TakeOutbound, Transmit, StopSignal, Start, keys, control
  <2> QED BY <1>0, <2>1, Zenon DEF StagedInv, NothingStranded, At, Usable
<1> QED BY <1>1, <1>2, <1>3, <1>4, <1>5, <1>6, Zenon DEF StopNext

\* Only Stop counts stops, and a stop in progress was counted.
LEMMA StopsCounted ==
  ASSUME StagedInv, [Next]_vars
  PROVE  counts' \in [packets : Int, keepalives : Int, stops : Nat] /\ (stop' # "none" => counts'.stops # 0)
<1>1. CASE \E n \in 1..MaxBatch : ReadFromTUN(n)
  BY <1>1 DEF ReadFromTUN, StagedInv, control
<1>2. CASE Stop
  BY <1>2 DEF Stop, StagedInv
<1>3. CASE \E c \in Caller : SendKeepalive(c)
  BY <1>3 DEF SendKeepalive, StagedInv, control
<1>4. CASE StopNext
  BY <1>4, Zenon DEF StopNext, StopSignal, StopWait, StopFlush, StagedInv, control
<1>5. CASE Start
  BY <1>5, Zenon DEF Start, StagedInv
<1>6. CASE UNCHANGED <<stop, counts>>
  BY <1>6, Zenon DEF StagedInv
<1>7. ASSUME NEW c \in Caller, Derive(c) \/ CallSendStagedPackets(c) \/ GiveUp(c) \/ ZeroKeyMaterial(c) \/ CallerNext(c)
      PROVE  UNCHANGED <<stop, counts>>
  BY <1>7, Zenon DEF Derive, CallSendStagedPackets, GiveUp, ZeroKeyMaterial, CallerNext, Top, Take, AddNonce,
     StoreLimit, Restage, CheckRunning, EnqueueOutbound, EnqueueEncryption, StageKeepalive, FlushStagedPackets, control
<1>8. ASSUME Stage \/ Age \/ ExpireCurrentKeypairs \/ SequentialNext \/ Down \/ Up \/ UNCHANGED vars
      PROVE  UNCHANGED <<stop, counts>>
  BY <1>8, Zenon DEF Stage, Age, ExpireCurrentKeypairs, SequentialNext, TakeOutbound, Transmit, Down, Up, control, vars
<1>9. ASSUME NEW w \in Encryptor, EncryptorNext(w)
      PROVE  UNCHANGED <<stop, counts>>
  BY <1>9, Zenon DEF EncryptorNext, TakeEncryption, Encrypt, control
<1> QED BY <1>1, <1>2, <1>3, <1>4, <1>5, <1>6, <1>7, <1>8, <1>9, Zenon DEF Next

\* Every step.
LEMMA StepStaged == StagedInv /\ [Next]_vars => StagedInv'
<1> SUFFICES ASSUME StagedInv, [Next]_vars PROVE StagedInv'
  BY Zenon
<1>1. NonceInv'
  BY StepNonces, Zenon DEF StagedInv
<1>2. CASE \E n \in 1..MaxBatch : ReadFromTUN(n)
  BY <1>1, <1>2, StagingLeavesNone, StopsCounted, Zenon DEF StagedInv
<1>3. CASE Stage
  BY <1>1, <1>3, StagingLeavesNone, StopsCounted, Zenon DEF StagedInv
<1>4. ASSUME NEW c \in Caller,
             \/ Derive(c) \/ SendKeepalive(c) \/ CallSendStagedPackets(c)
             \/ GiveUp(c) \/ ZeroKeyMaterial(c) \/ CallerNext(c)
      PROVE  StagedInv'
  BY <1>1, <1>4, StagingLeavesNone, CallsLeaveNone, StopsCounted, Zenon DEF StagedInv
<1>5. CASE Age \/ ExpireCurrentKeypairs \/ SequentialNext \/ Down \/ Up \/ Stop \/ StopNext \/ Start
  BY <1>1, <1>5, OthersLeaveNone, StopsCounted, Zenon DEF StagedInv
<1>6. CASE \E w \in Encryptor : EncryptorNext(w)
  <2>1. UNCHANGED <<caller, staged, current, sendNonce, aged, up, counts>>
    BY <1>6, Zenon DEF EncryptorNext, TakeEncryption, Encrypt, keys, control
  <2>2. NothingStranded'
    BY <2>1, Zenon DEF StagedInv, NothingStranded, At, Usable
  <2> QED BY <1>1, <2>2, StopsCounted, Zenon DEF StagedInv
<1>7. CASE UNCHANGED vars
  <2>1. UNCHANGED <<caller, staged, current, sendNonce, aged, up, counts>>
    BY <1>7, Zenon DEF vars
  <2>2. NothingStranded'
    BY <2>1, Zenon DEF StagedInv, NothingStranded, At, Usable
  <2> QED BY <1>1, <2>2, StopsCounted, Zenon DEF StagedInv
<1> QED BY <1>2, <1>3, <1>4, <1>5, <1>6, <1>7, Zenon DEF Next

\* When a peer that was never stopped has a usable keypair and no call is in progress, nothing is staged
\* (SendStagedPackets, and the calls of it after a handshake).
THEOREM NothingIsStranded == Spec => []NothingStranded
<1>1. StagedInv => NothingStranded
  BY Zenon DEF StagedInv
<1> QED BY <1>1, InitStaged, StepStaged, PTL DEF Spec
=============================================================================
