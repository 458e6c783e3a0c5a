---------------------------- MODULE TimersProofs ----------------------------
(***************************************************************************)
(* That the timers of a peer keep it answering, noticing, trying and         *)
(* forgetting, for every choice of the ranges of the timeouts.               *)
(***************************************************************************)
EXTENDS Timers, TLAPS

Ticks == Nat \cup {Off}

PeerRecord ==
  [running : BOOLEAN, persistent : BOOLEAN, left : [Timer -> Ticks], handshakeAttempts : Nat,
   needAnotherKeepalive : BOOLEAN, sentLastMinuteHandshake : BOOLEAN, sinceHandshake : 0 .. rekeyMinTimeout,
   current : {"none", "live", "spent"}, next : {"none", "live", "spent"}, initiated : BOOLEAN,
   staged : {"none", "data", "keepalive"}, owed : Ticks, unheard : Ticks]

\* The greatest time newHandshake and retransmitHandshake are set to.
NewHandshakeBound == Max(Keepalive) + Max(Rekey) + Max(Jitter)
RetransmitBound == Max(Rekey) + Max(Jitter)

-----------------------------------------------------------------------------
(* The inductive invariant                                                   *)

\* Timer t is pending, and an initiation is not held back when it runs out.
Due(s, t) == IsPending(s, t) /\ s.sinceHandshake + s.left[t] >= rekeyMinTimeout

\* Data that awaits an answer has the keepalive timer pending, for what is left of the timeout.
Answering(s) ==
  KeepaliveOutlastsRekey /\ s.running =>
    /\ IsPending(s, "sendKeepalive") => Due(s, "sendKeepalive") /\ s.left["sendKeepalive"] <= Max(Keepalive)
    /\ s.owed # Off => IsPending(s, "sendKeepalive") /\ s.owed + s.left["sendKeepalive"] <= Max(Keepalive)

\* The persistent keepalive is always pending.
Persisting(s) == IntervalOutlastsRekey /\ s.running /\ s.persistent => Due(s, "persistentKeepalive")

\* The timers that begin a handshake are within their bounds.
Bounded(s) ==
  s.running => s.left["newHandshake"] <= NewHandshakeBound /\ s.left["retransmitHandshake"] <= RetransmitBound

\* A new handshake that would be held back runs out before a retransmission that is not; silence is
\* noticed by the one or by the other, which was not given up or begins anew when the first runs out.
Noticing(s) ==
  s.running =>
    /\ IsPending(s, "newHandshake") => Due(s, "newHandshake") \/ Due(s, "retransmitHandshake")
    /\ s.unheard # Off =>
         \/ Due(s, "newHandshake") /\ s.unheard + s.left["newHandshake"] <= NewHandshakeBound
         \/ /\ Due(s, "retransmitHandshake") /\ s.unheard + s.left["retransmitHandshake"] <= NewHandshakeBound
            /\ \/ s.handshakeAttempts <= MaxAttempts
               \/ IsPending(s, "newHandshake") /\ s.left["newHandshake"] < s.left["retransmitHandshake"]

\* Keys have their removal pending.
Keyed(s) == s.running /\ (s.current # "none" \/ s.next # "none") => IsPending(s, "zeroKeyMaterial")

\* So has a handshake begun, or a retransmission that is not held back; n initiations were stray.
Forgetting(s, n) ==
  s.running /\ s.initiated /\ n = 0 => IsPending(s, "zeroKeyMaterial") \/ Due(s, "retransmitHandshake")

\* A peer that is stopped has only what late handlers and stray callbacks left behind.
Resting(s, n) ==
  ~s.running =>
    /\ s.owed = Off /\ s.unheard = Off /\ s.current = "none" /\ s.next = "none"
    /\ s.initiated => n > 0
    /\ \A t \in Timer : s.left[t] <= rekeyMinTimeout

\* All but the notice of silence, and all.
Rest(s, n) ==
  Answering(s) /\ Persisting(s) /\ Bounded(s) /\ Keyed(s) /\ Forgetting(s, n) /\ Resting(s, n)
Sound(s, n) == Rest(s, n) /\ Noticing(s)

TimersInv == peer \in PeerRecord /\ stray \in Nat /\ Sound(peer, stray)

-----------------------------------------------------------------------------
(* The ranges                                                                *)

\* The least and the greatest member of a range are what Min and Max return.
LEMMA RangeBounds ==
  ASSUME NEW range \in SUBSET Nat, NEW lo \in range, NEW hi \in range,
         \A n \in range : lo <= n /\ n <= hi
  PROVE  Min(range) = lo /\ Max(range) = hi
<1>1. \A m \in range : (\A n \in range : m <= n) => m = lo
  OBVIOUS
<1>2. \A m \in range : (\A n \in range : m >= n) => m = hi
  OBVIOUS
<1>3. Min(range) \in range /\ \A n \in range : Min(range) <= n
  BY Zenon DEF Min
<1>4. Max(range) \in range /\ \A n \in range : Max(range) >= n
  BY Zenon DEF Max
<1> QED BY <1>1, <1>2, <1>3, <1>4, Zenon

\* What a step picks lies between the bounds of the ranges (the timings of the configuration).
LEMMA PickedInRange ==
  /\ rekeyMinTimeout \in Nat \ {0}
  /\ Max(Rekey) \in Nat /\ Max(Keepalive) \in Nat /\ Max(Jitter) \in Nat
  /\ rekeyMinTimeout <= Max(Rekey) /\ (KeepaliveOutlastsRekey => rekeyMinTimeout <= Max(Keepalive))
  /\ \A e \in Choice :
       /\ e.rekey \in Nat /\ rekeyMinTimeout <= e.rekey /\ e.rekey <= Max(Rekey)
       /\ e.keepalive \in Nat /\ (KeepaliveOutlastsRekey => rekeyMinTimeout <= e.keepalive) /\ e.keepalive <= Max(Keepalive)
       /\ e.interval \in Nat /\ (IntervalOutlastsRekey => rekeyMinTimeout <= e.interval)
       /\ e.jitter \in Nat /\ e.jitter <= Max(Jitter)
<1>1. PICK rl \in Rekey, rh \in Rekey : \A n \in Rekey : rl <= n /\ n <= rh
  BY TimesAssumption, Zenon
<1>2. PICK kl \in Keepalive, kh \in Keepalive : \A n \in Keepalive : kl <= n /\ n <= kh
  BY TimesAssumption, Zenon
<1>3. PICK jl \in Jitter, jh \in Jitter : \A n \in Jitter : jl <= n /\ n <= jh
  BY TimesAssumption, Zenon
<1>4. Min(Rekey) = rl /\ Max(Rekey) = rh
  BY <1>1, RangeBounds, TimesAssumption
<1>5. Max(Keepalive) = kh
  BY <1>2, RangeBounds, TimesAssumption
<1>6. Max(Jitter) = jh
  BY <1>3, RangeBounds, TimesAssumption, Zenon
<1> QED BY <1>1, <1>2, <1>3, <1>4, <1>5, <1>6, TimesAssumption, Zenon
    DEF rekeyMinTimeout, Choice, KeepaliveOutlastsRekey, IntervalOutlastsRekey

-----------------------------------------------------------------------------
(* The peer's record                                                         *)

Key == {"none", "live", "spent"}

\* A record stays a peer's if a field takes another value of its type.
LEMMA FieldTypes ==
  ASSUME NEW s \in PeerRecord
  PROVE  /\ \A v \in BOOLEAN : /\ [s EXCEPT !.running = v] \in PeerRecord
                               /\ [s EXCEPT !.initiated = v] \in PeerRecord
                               /\ [s EXCEPT !.needAnotherKeepalive = v] \in PeerRecord
                               /\ [s EXCEPT !.sentLastMinuteHandshake = v] \in PeerRecord
         /\ \A v \in Key : [s EXCEPT !.current = v] \in PeerRecord /\ [s EXCEPT !.next = v] \in PeerRecord
         /\ \A v \in Ticks : [s EXCEPT !.owed = v] \in PeerRecord /\ [s EXCEPT !.unheard = v] \in PeerRecord
         /\ \A v \in Nat : [s EXCEPT !.handshakeAttempts = v] \in PeerRecord
         /\ \A v \in 0 .. rekeyMinTimeout : [s EXCEPT !.sinceHandshake = v] \in PeerRecord
         /\ \A v \in {"none", "data", "keepalive"} : [s EXCEPT !.staged = v] \in PeerRecord
         /\ \A v \in [Timer -> Ticks] : [s EXCEPT !.left = v] \in PeerRecord
<1>1. \A v \in BOOLEAN : /\ [s EXCEPT !.running = v] \in PeerRecord
                         /\ [s EXCEPT !.initiated = v] \in PeerRecord
  BY Zenon DEF PeerRecord
<1>2. \A v \in BOOLEAN : /\ [s EXCEPT !.needAnotherKeepalive = v] \in PeerRecord
                         /\ [s EXCEPT !.sentLastMinuteHandshake = v] \in PeerRecord
  BY Zenon DEF PeerRecord
<1>3. \A v \in Key : [s EXCEPT !.current = v] \in PeerRecord /\ [s EXCEPT !.next = v] \in PeerRecord
  BY Zenon DEF PeerRecord, Key
<1>4. \A v \in Ticks : [s EXCEPT !.owed = v] \in PeerRecord /\ [s EXCEPT !.unheard = v] \in PeerRecord
  BY Zenon DEF PeerRecord
<1>5. /\ \A v \in Nat : [s EXCEPT !.handshakeAttempts = v] \in PeerRecord
      /\ \A v \in 0 .. rekeyMinTimeout : [s EXCEPT !.sinceHandshake = v] \in PeerRecord
  BY Zenon DEF PeerRecord
<1>6. /\ \A v \in {"none", "data", "keepalive"} : [s EXCEPT !.staged = v] \in PeerRecord
      /\ \A v \in [Timer -> Ticks] : [s EXCEPT !.left = v] \in PeerRecord
  BY Zenon DEF PeerRecord
<1> QED BY <1>1, <1>2, <1>3, <1>4, <1>5, <1>6, Zenon

\* The field values that the handlers write.
LEMMA Values ==
  /\ Off \in Ticks /\ 0 \in Ticks /\ 0 \in 0 .. rekeyMinTimeout /\ rekeyMinTimeout \in 0 .. rekeyMinTimeout
  /\ "none" \in Key /\ "live" \in Key /\ "spent" \in Key
BY PickedInRange DEF Ticks, Key

-----------------------------------------------------------------------------
(* The functions that say what happened                                      *)

\* s with other timers and other histories.
Timed(s, left, owed, unheard) ==
  [running |-> s.running, persistent |-> s.persistent, left |-> left,
   handshakeAttempts |-> s.handshakeAttempts, needAnotherKeepalive |-> s.needAnotherKeepalive,
   sentLastMinuteHandshake |-> s.sentLastMinuteHandshake, sinceHandshake |-> s.sinceHandshake,
   current |-> s.current, next |-> s.next, initiated |-> s.initiated, staged |-> s.staged,
   owed |-> owed, unheard |-> unheard]

\* Such a record is a peer's.
LEMMA TimedIsPeer ==
  ASSUME NEW s \in PeerRecord, NEW left \in [Timer -> Ticks], NEW owed \in Ticks, NEW unheard \in Ticks
  PROVE  Timed(s, left, owed, unheard) \in PeerRecord
BY DEF Timed, PeerRecord

\* Mod and Del write one timer (timers.go).
LEMMA ModIs ==
  ASSUME NEW s \in PeerRecord, NEW t \in Timer, NEW d \in Ticks
  PROVE  /\ [s.left EXCEPT ![t] = d] \in [Timer -> Ticks]
         /\ Mod(s, t, d) = Timed(s, [s.left EXCEPT ![t] = d], s.owed, s.unheard)
         /\ Del(s, t) = Timed(s, [s.left EXCEPT ![t] = Off], s.owed, s.unheard)
<1>1. s.left \in [Timer -> Ticks]
  BY Zenon DEF PeerRecord
<1> QED BY <1>1 DEF Mod, Del, Timed, PeerRecord

\* A timer that is written: the record, and the other timers.
LEMMA ModFields ==
  ASSUME NEW s \in PeerRecord, NEW t \in Timer, NEW v \in Ticks, NEW d, d = Mod(s, t, v)
  PROVE  /\ d \in PeerRecord
         /\ d.left[t] = v
         /\ \A r \in Timer \ {t} : d.left[r] = s.left[r]
         /\ d.running <=> s.running
         /\ d.persistent <=> s.persistent
         /\ d.initiated <=> s.initiated
         /\ d.sinceHandshake = s.sinceHandshake /\ d.owed = s.owed /\ d.unheard = s.unheard
         /\ d.current = s.current /\ d.next = s.next /\ d.handshakeAttempts = s.handshakeAttempts
<1>1. d = Timed(s, [s.left EXCEPT ![t] = v], s.owed, s.unheard)
      /\ [s.left EXCEPT ![t] = v] \in [Timer -> Ticks]
  BY ModIs, Zenon
<1>2. s.owed \in Ticks /\ s.unheard \in Ticks /\ s.left \in [Timer -> Ticks]
  BY Zenon DEF PeerRecord
<1>3. d \in PeerRecord
  BY <1>1, <1>2, TimedIsPeer
<1>4. /\ d.left = [s.left EXCEPT ![t] = v]
      /\ d.running = s.running /\ d.persistent = s.persistent /\ d.initiated = s.initiated
      /\ d.sinceHandshake = s.sinceHandshake /\ d.owed = s.owed /\ d.unheard = s.unheard
      /\ d.current = s.current /\ d.next = s.next /\ d.handshakeAttempts = s.handshakeAttempts
  BY <1>1 DEF Timed
<1>5. d.left[t] = v /\ \A r \in Timer \ {t} : d.left[r] = s.left[r]
  BY <1>2, <1>4, Zenon
<1> QED BY <1>3, <1>4, <1>5, Zenon

\* Del writes Off.
LEMMA DelIs ==
  ASSUME NEW s \in PeerRecord, NEW t \in Timer, NEW d, d = Del(s, t)
  PROVE  /\ d \in PeerRecord
         /\ d.left[t] = Off
         /\ \A r \in Timer \ {t} : d.left[r] = s.left[r]
         /\ d.running <=> s.running
         /\ d.persistent <=> s.persistent
         /\ d.initiated <=> s.initiated
         /\ d.sinceHandshake = s.sinceHandshake /\ d.owed = s.owed /\ d.unheard = s.unheard
         /\ d.current = s.current /\ d.next = s.next /\ d.handshakeAttempts = s.handshakeAttempts
<1>1. d = Mod(s, t, Off)
  BY Zenon DEF Mod, Del
<1> QED BY <1>1, ModFields, Values

\* The timers after timersAnyAuthenticatedPacketTraversal and after timersDataSent.
TraversalLeft(s, e) == IF s.persistent THEN [s.left EXCEPT !["persistentKeepalive"] = e.interval] ELSE s.left
DataSentLeft(s, e) ==
  IF IsPending(s, "newHandshake") THEN s.left
  ELSE [s.left EXCEPT !["newHandshake"] = Max(Keepalive) + e.rekey + e.jitter]

\* timersAnyAuthenticatedPacketTraversal puts off the persistent keepalive.
LEMMA TraversalIs ==
  ASSUME NEW s \in PeerRecord, NEW e \in Choice, s.running
  PROVE  /\ timersAnyAuthenticatedPacketTraversal(s, e) = Timed(s, TraversalLeft(s, e), s.owed, s.unheard)
         /\ timersAnyAuthenticatedPacketTraversal(s, e) \in PeerRecord
<1>1. e.interval \in Ticks
  BY PickedInRange, Zenon DEF Ticks
<1>2. s = Timed(s, s.left, s.owed, s.unheard) /\ s.left \in [Timer -> Ticks] /\ s.owed \in Ticks /\ s.unheard \in Ticks
  BY Zenon DEF PeerRecord, Timed
<1>3. TraversalLeft(s, e) \in [Timer -> Ticks]
  BY <1>1, <1>2, ModIs, Zenon DEF Timer, TraversalLeft
<1>4. timersAnyAuthenticatedPacketTraversal(s, e) = Timed(s, TraversalLeft(s, e), s.owed, s.unheard)
  BY <1>1, <1>2, ModIs, Zenon DEF TraversalLeft, timersAnyAuthenticatedPacketTraversal, Timer
<1> QED BY <1>2, <1>3, <1>4, TimedIsPeer, Zenon

\* timersAnyAuthenticatedPacketSent puts off the keepalive.
LEMMA PacketSentIs ==
  ASSUME NEW s \in PeerRecord, s.running
  PROVE  /\ timersAnyAuthenticatedPacketSent(s) = Timed(s, [s.left EXCEPT !["sendKeepalive"] = Off], Off, s.unheard)
         /\ timersAnyAuthenticatedPacketSent(s) \in PeerRecord
<1>1. [s.left EXCEPT !["sendKeepalive"] = Off] \in [Timer -> Ticks] /\ Off \in Ticks /\ s.unheard \in Ticks
  BY ModIs, Zenon DEF Timer, Ticks, PeerRecord
<1>2. timersAnyAuthenticatedPacketSent(s) = Timed(s, [s.left EXCEPT !["sendKeepalive"] = Off], Off, s.unheard)
  BY Zenon DEF timersAnyAuthenticatedPacketSent, Del, Timed, PeerRecord
<1> QED BY <1>1, <1>2, TimedIsPeer, Zenon

\* timersAnyAuthenticatedPacketReceived puts off the new handshake.
LEMMA PacketReceivedIs ==
  ASSUME NEW s \in PeerRecord, s.running
  PROVE  /\ timersAnyAuthenticatedPacketReceived(s) = Timed(s, [s.left EXCEPT !["newHandshake"] = Off], s.owed, Off)
         /\ timersAnyAuthenticatedPacketReceived(s) \in PeerRecord
<1>1. [s.left EXCEPT !["newHandshake"] = Off] \in [Timer -> Ticks] /\ Off \in Ticks /\ s.owed \in Ticks
  BY ModIs, Zenon DEF Timer, Ticks, PeerRecord
<1>2. timersAnyAuthenticatedPacketReceived(s) = Timed(s, [s.left EXCEPT !["newHandshake"] = Off], s.owed, Off)
  BY Zenon DEF timersAnyAuthenticatedPacketReceived, Del, Timed, PeerRecord
<1> QED BY <1>1, <1>2, TimedIsPeer, Zenon

\* timersHandshakeInitiated sets the retransmission.
LEMMA HandshakeInitiatedIs ==
  ASSUME NEW s \in PeerRecord, NEW e \in Choice, s.running
  PROVE  /\ timersHandshakeInitiated(s, e) =
              Timed(s, [s.left EXCEPT !["retransmitHandshake"] = e.rekey + e.jitter], s.owed, s.unheard)
         /\ timersHandshakeInitiated(s, e) \in PeerRecord
<1> DEFINE l == [s.left EXCEPT !["retransmitHandshake"] = e.rekey + e.jitter]
<1>1. e.rekey + e.jitter \in Ticks
  BY PickedInRange DEF Ticks
<1>2. l \in [Timer -> Ticks] /\ s.owed \in Ticks /\ s.unheard \in Ticks
  BY <1>1, ModIs, Zenon DEF Timer, PeerRecord
<1>3. timersHandshakeInitiated(s, e) = Timed(s, l, s.owed, s.unheard)
  BY <1>1, ModIs, Zenon DEF timersHandshakeInitiated, retransmitHandshakeTimeout, Timer
<1> QED BY <1>2, <1>3, TimedIsPeer, Zenon

\* timersSessionDerived sets the removal of the keys.
LEMMA SessionDerivedIs ==
  ASSUME NEW s \in PeerRecord, s.running
  PROVE  /\ timersSessionDerived(s) =
              Timed(s, [s.left EXCEPT !["zeroKeyMaterial"] = 3 * ExpireTime], s.owed, s.unheard)
         /\ timersSessionDerived(s) \in PeerRecord
<1> DEFINE l == [s.left EXCEPT !["zeroKeyMaterial"] = 3 * ExpireTime]
<1>1. 3 * ExpireTime \in Ticks
  BY TimesAssumption DEF Ticks
<1>2. l \in [Timer -> Ticks] /\ s.owed \in Ticks /\ s.unheard \in Ticks
  BY <1>1, ModIs, Zenon DEF Timer, PeerRecord
<1>3. timersSessionDerived(s) = Timed(s, l, s.owed, s.unheard)
  BY <1>1, ModIs, Zenon DEF timersSessionDerived, keychainExpireTime, Timer
<1> QED BY <1>2, <1>3, TimedIsPeer, Zenon

\* timersDataSent sets the new handshake, unless it is pending.
LEMMA DataSentIs ==
  ASSUME NEW s \in PeerRecord, NEW e \in Choice, s.running
  PROVE  /\ timersDataSent(s, e) =
              Timed(s, DataSentLeft(s, e), s.owed, IF s.unheard = Off THEN 0 ELSE s.unheard)
         /\ timersDataSent(s, e) \in PeerRecord
<1> DEFINE l == DataSentLeft(s, e)
           h == IF s.unheard = Off THEN 0 ELSE s.unheard
<1>1. Max(Keepalive) + e.rekey + e.jitter \in Ticks /\ h \in Ticks
  BY PickedInRange DEF Ticks, PeerRecord
<1>2. l \in [Timer -> Ticks] /\ s.owed \in Ticks
  BY <1>1, ModIs, Zenon DEF Timer, PeerRecord, DataSentLeft
<1>3. timersDataSent(s, e) = Timed(s, l, s.owed, h)
  BY Zenon DEF DataSentLeft, timersDataSent, newHandshakeTimeout, Mod, Timed, PeerRecord
<1> QED BY <1>1, <1>2, <1>3, TimedIsPeer, Zenon

-----------------------------------------------------------------------------
(* Sending                                                                   *)

\* An initiation that is sent: no timer but three is written (send.go, SendHandshakeInitiation).
LEMMA InitiationSent ==
  ASSUME NEW s \in PeerRecord, NEW e \in Choice, NEW isRetry \in BOOLEAN,
         s.running, s.sinceHandshake >= rekeyMinTimeout,
         NEW u, u = SendHandshakeInitiation(s, e, isRetry)
  PROVE  /\ u \in PeerRecord
         /\ u.running /\ (u.persistent <=> s.persistent)
         /\ u.sinceHandshake = 0 /\ u.owed = Off /\ u.unheard = Off
         /\ u.current = s.current /\ u.next = s.next
         /\ u.left["retransmitHandshake"] = e.rekey + e.jitter
         /\ u.left["sendKeepalive"] = Off
         /\ s.persistent => u.left["persistentKeepalive"] = e.interval
         /\ u.left["newHandshake"] = s.left["newHandshake"]
         /\ u.left["zeroKeyMaterial"] = s.left["zeroKeyMaterial"]
<1> DEFINE r == IF isRetry THEN s ELSE [s EXCEPT !.handshakeAttempts = 0]
           sent == [r EXCEPT !.sinceHandshake = 0, !.initiated = TRUE, !.unheard = Off]
           a == timersAnyAuthenticatedPacketTraversal(sent, e)
           b == timersAnyAuthenticatedPacketSent(a)
<1>1. r \in PeerRecord /\ r.left = s.left /\ (r.running <=> s.running) /\ (r.persistent <=> s.persistent)
      /\ r.current = s.current /\ r.next = s.next /\ r.sinceHandshake = s.sinceHandshake
  BY ZenonT(60) DEF PeerRecord
<1> HIDE DEF r
<1>2. sent \in PeerRecord
  <2>1. PICK x : x = [r EXCEPT !.sinceHandshake = 0]
    BY Zenon
  <2>2. PICK y : y = [x EXCEPT !.initiated = TRUE]
    BY Zenon
  <2>3. x \in PeerRecord
    BY <1>1, <2>1, FieldTypes, Values, Zenon
  <2>4. y \in PeerRecord
    BY <2>2, <2>3, FieldTypes, Zenon
  <2>5. sent = [y EXCEPT !.unheard = Off]
    BY <2>1, <2>2, Zenon
  <2> QED BY <2>4, <2>5, FieldTypes, Values, Zenon
<1>3. u = timersHandshakeInitiated(b, e)
  BY <1>1, PickedInRange DEF SendHandshakeInitiation, r, PeerRecord
<1>4. /\ sent.running /\ (sent.persistent <=> s.persistent) /\ sent.sinceHandshake = 0
      /\ sent.left = s.left /\ sent.current = s.current /\ sent.next = s.next /\ sent.unheard = Off
  BY <1>1, Zenon DEF PeerRecord
<1> HIDE DEF sent
<1>5. a \in PeerRecord /\ a = Timed(sent, TraversalLeft(sent, e), sent.owed, sent.unheard)
  BY <1>2, <1>4, TraversalIs, Zenon
<1> HIDE DEF a
<1>6. /\ a.running /\ (a.persistent <=> s.persistent) /\ a.sinceHandshake = 0 /\ a.left = TraversalLeft(sent, e)
      /\ a.current = s.current /\ a.next = s.next /\ a.unheard = Off
  BY <1>4, <1>5, Zenon DEF Timed
<1>7. b \in PeerRecord /\ b = Timed(a, [a.left EXCEPT !["sendKeepalive"] = Off], Off, a.unheard)
  BY <1>5, <1>6, PacketSentIs, Zenon
<1> HIDE DEF b
<1>8. /\ b.running /\ (b.persistent <=> s.persistent) /\ b.sinceHandshake = 0 /\ b.owed = Off
      /\ b.left = [a.left EXCEPT !["sendKeepalive"] = Off]
      /\ b.current = s.current /\ b.next = s.next /\ b.unheard = Off
  BY <1>6, <1>7, Zenon DEF Timed
<1>9. u \in PeerRecord
      /\ u = Timed(b, [b.left EXCEPT !["retransmitHandshake"] = e.rekey + e.jitter], b.owed, b.unheard)
  BY <1>3, <1>7, <1>8, HandshakeInitiatedIs, Zenon
<1>10. /\ u.running /\ (u.persistent <=> s.persistent) /\ u.sinceHandshake = 0 /\ u.owed = Off /\ u.unheard = Off
       /\ u.left = [b.left EXCEPT !["retransmitHandshake"] = e.rekey + e.jitter]
       /\ u.current = s.current /\ u.next = s.next
  BY <1>8, <1>9 DEF Timed
<1>11. s.left \in [Timer -> Ticks] /\ a.left \in [Timer -> Ticks] /\ b.left \in [Timer -> Ticks]
  BY <1>5, <1>7, Zenon DEF PeerRecord
<1>12. a.left = IF s.persistent THEN [s.left EXCEPT !["persistentKeepalive"] = e.interval] ELSE s.left
  BY <1>4, <1>6, Zenon DEF TraversalLeft
<1> QED BY <1>8, <1>9, <1>10, <1>11, <1>12 DEF Timer

\* An initiation that is sent leaves a timer for all that is due, whatever was pending before.
LEMMA InitiationSound ==
  ASSUME NEW s \in PeerRecord, NEW e \in Choice, NEW isRetry \in BOOLEAN, NEW n \in Nat,
         s.running, s.sinceHandshake >= rekeyMinTimeout, Bounded(s), Keyed(s),
         NEW u, u = SendHandshakeInitiation(s, e, isRetry)
  PROVE  u \in PeerRecord /\ u.running /\ u.owed = Off /\ Sound(u, n)
<1>1. /\ u \in PeerRecord
      /\ u.running /\ (u.persistent <=> s.persistent)
      /\ u.sinceHandshake = 0 /\ u.owed = Off /\ u.unheard = Off
      /\ u.current = s.current /\ u.next = s.next
      /\ u.left["retransmitHandshake"] = e.rekey + e.jitter
      /\ u.left["sendKeepalive"] = Off
      /\ s.persistent => u.left["persistentKeepalive"] = e.interval
      /\ u.left["newHandshake"] = s.left["newHandshake"]
      /\ u.left["zeroKeyMaterial"] = s.left["zeroKeyMaterial"]
  BY InitiationSent
<1>2. Due(u, "retransmitHandshake") /\ u.left["retransmitHandshake"] <= RetransmitBound
  BY <1>1, PickedInRange DEF Due, IsPending, Off, RetransmitBound
<1>3. Persisting(u)
  BY <1>1, PickedInRange DEF Persisting, Due, IsPending, Off
<1>4. Answering(u) /\ Resting(u, n)
  BY <1>1, Zenon DEF Answering, IsPending, Resting
<1>5. Bounded(u) /\ Keyed(u)
  BY <1>1, <1>2, Zenon DEF Bounded, Keyed, IsPending
<1>6. Noticing(u) /\ Forgetting(u, n)
  BY <1>1, <1>2, Zenon DEF Noticing, Forgetting
<1> QED BY <1>1, <1>3, <1>4, <1>5, <1>6, Zenon DEF Sound, Rest

\* u agrees with s in all that the invariant is about, or its attempts begin anew.
Alike(s, u) ==
  /\ u.left = s.left
  /\ u.running <=> s.running
  /\ u.persistent <=> s.persistent
  /\ u.initiated <=> s.initiated
  /\ u.sinceHandshake = s.sinceHandshake /\ u.owed = s.owed /\ u.unheard = s.unheard
  /\ u.current = s.current /\ u.next = s.next
  /\ u.handshakeAttempts = s.handshakeAttempts \/ u.handshakeAttempts = 0

\* What the invariant says does not depend on what is staged, and holds if the attempts begin anew.
LEMMA SoundFrame ==
  ASSUME NEW s \in PeerRecord, NEW u \in PeerRecord, NEW n \in Nat, Alike(s, u)
  PROVE  /\ Answering(s) => Answering(u)
         /\ Persisting(s) => Persisting(u)
         /\ Bounded(s) => Bounded(u)
         /\ Noticing(s) => Noticing(u)
         /\ Keyed(s) => Keyed(u)
         /\ Forgetting(s, n) => Forgetting(u, n)
         /\ Resting(s, n) => Resting(u, n)
<1>1. Answering(s) => Answering(u)
  BY Zenon DEF Alike, Answering, Due, IsPending
<1>2. (Persisting(s) => Persisting(u)) /\ (Bounded(s) => Bounded(u)) /\ (Keyed(s) => Keyed(u))
  BY Zenon DEF Alike, Persisting, Bounded, Keyed, Due, IsPending
<1>3. (Forgetting(s, n) => Forgetting(u, n)) /\ (Resting(s, n) => Resting(u, n))
  BY Zenon DEF Alike, Forgetting, Resting, Due, IsPending
<1>4. s.handshakeAttempts <= MaxAttempts => u.handshakeAttempts <= MaxAttempts
  BY TimesAssumption DEF Alike, PeerRecord
<1>5. Noticing(s) => Noticing(u)
  BY <1>4, Zenon DEF Alike, Noticing, Due, IsPending
<1> QED BY <1>1, <1>2, <1>3, <1>5, Zenon

\* An initiation that is held back makes the attempts begin anew, unless it is a retry.
LEMMA InitiationHeld ==
  ASSUME NEW s \in PeerRecord, NEW e \in Choice, s.sinceHandshake < rekeyMinTimeout
  PROVE  /\ SendHandshakeInitiation(s, e, FALSE) \in PeerRecord
         /\ Alike(s, SendHandshakeInitiation(s, e, FALSE))
         /\ SendHandshakeInitiation(s, e, FALSE).handshakeAttempts = 0
<1> DEFINE u == [s EXCEPT !.handshakeAttempts = 0]
<1>1. u \in PeerRecord
  BY FieldTypes, Zenon
<1>2. Alike(s, u) /\ u.sinceHandshake = s.sinceHandshake /\ u.handshakeAttempts = 0
  BY Zenon DEF PeerRecord, Alike
<1>3. SendHandshakeInitiation(s, e, FALSE) = u
  BY <1>2, Zenon DEF SendHandshakeInitiation
<1> HIDE DEF u
<1> QED BY <1>1, <1>2, <1>3, Zenon

\* A retry that is held back does nothing.
LEMMA RetryHeld ==
  ASSUME NEW s \in PeerRecord, NEW e \in Choice, s.sinceHandshake < rekeyMinTimeout
  PROVE  SendHandshakeInitiation(s, e, TRUE) = s
BY Zenon DEF SendHandshakeInitiation

\* Packets sent with a live keypair (send.go, SendStagedPackets and RoutineSequentialSender).
LEMMA SentIs ==
  ASSUME NEW s \in PeerRecord, NEW e \in Choice, s.running,
         NEW c, c = LET b == timersAnyAuthenticatedPacketSent(
                               timersAnyAuthenticatedPacketTraversal([s EXCEPT !.staged = "none"], e)) IN
                    IF s.staged = "data" THEN timersDataSent(b, e) ELSE b
  PROVE  /\ c \in PeerRecord /\ c.running
         /\ c.persistent <=> s.persistent
         /\ c.initiated <=> s.initiated
         /\ c.sinceHandshake = s.sinceHandshake /\ c.handshakeAttempts = s.handshakeAttempts
         /\ c.current = s.current /\ c.next = s.next /\ c.owed = Off
         /\ c.left["sendKeepalive"] = Off
         /\ c.left["retransmitHandshake"] = s.left["retransmitHandshake"]
         /\ c.left["zeroKeyMaterial"] = s.left["zeroKeyMaterial"]
         /\ s.persistent => c.left["persistentKeepalive"] = e.interval
         /\ \/ c.unheard = s.unheard /\ c.left["newHandshake"] = s.left["newHandshake"]
            \/ /\ c.unheard = IF s.unheard = Off THEN 0 ELSE s.unheard
               /\ c.left["newHandshake"] = IF IsPending(s, "newHandshake") THEN s.left["newHandshake"]
                                           ELSE Max(Keepalive) + e.rekey + e.jitter
<1> DEFINE z == [s EXCEPT !.staged = "none"]
           a == timersAnyAuthenticatedPacketTraversal(z, e)
           b == timersAnyAuthenticatedPacketSent(a)
<1>1. z \in PeerRecord
  BY FieldTypes, Zenon
<1>2. /\ z.running /\ (z.persistent <=> s.persistent) /\ (z.initiated <=> s.initiated) /\ z.left = s.left
      /\ z.sinceHandshake = s.sinceHandshake /\ z.handshakeAttempts = s.handshakeAttempts
      /\ z.current = s.current /\ z.next = s.next /\ z.unheard = s.unheard
  BY Zenon DEF PeerRecord
<1>3. c = IF s.staged = "data" THEN timersDataSent(b, e) ELSE b
  BY Zenon
<1> HIDE DEF z
<1>4. a \in PeerRecord /\ a = Timed(z, TraversalLeft(z, e), z.owed, z.unheard)
  BY <1>1, <1>2, TraversalIs, Zenon
<1> HIDE DEF a
<1>5. /\ a.running /\ (a.persistent <=> s.persistent) /\ (a.initiated <=> s.initiated) /\ a.left = TraversalLeft(z, e)
      /\ a.sinceHandshake = s.sinceHandshake /\ a.handshakeAttempts = s.handshakeAttempts
      /\ a.current = s.current /\ a.next = s.next /\ a.unheard = s.unheard
  BY <1>2, <1>4, Zenon DEF Timed
<1>6. b \in PeerRecord /\ b = Timed(a, [a.left EXCEPT !["sendKeepalive"] = Off], Off, a.unheard)
  BY <1>4, <1>5, PacketSentIs, Zenon
<1> HIDE DEF b
<1>7. /\ b.running /\ (b.persistent <=> s.persistent) /\ (b.initiated <=> s.initiated) /\ b.owed = Off
      /\ b.sinceHandshake = s.sinceHandshake /\ b.handshakeAttempts = s.handshakeAttempts
      /\ b.current = s.current /\ b.next = s.next /\ b.unheard = s.unheard
      /\ b.left = [a.left EXCEPT !["sendKeepalive"] = Off]
  BY <1>5, <1>6, Zenon DEF Timed
<1>8. s.left \in [Timer -> Ticks] /\ a.left \in [Timer -> Ticks] /\ b.left \in [Timer -> Ticks]
  BY <1>4, <1>6, Zenon DEF PeerRecord
<1>9. /\ b.left["sendKeepalive"] = Off
      /\ b.left["retransmitHandshake"] = s.left["retransmitHandshake"]
      /\ b.left["zeroKeyMaterial"] = s.left["zeroKeyMaterial"]
      /\ b.left["newHandshake"] = s.left["newHandshake"]
      /\ s.persistent => b.left["persistentKeepalive"] = e.interval
  BY <1>2, <1>5, <1>7, <1>8 DEF TraversalLeft, Timer
<1>10. CASE s.staged # "data"
  BY <1>3, <1>6, <1>7, <1>9, <1>10, Zenon
<1>11. CASE s.staged = "data"
  <2>1. c \in PeerRecord
        /\ c = Timed(b, DataSentLeft(b, e), b.owed, IF b.unheard = Off THEN 0 ELSE b.unheard)
    BY <1>3, <1>6, <1>7, <1>11, DataSentIs
  <2>2. /\ c.running /\ (c.persistent <=> s.persistent) /\ (c.initiated <=> s.initiated) /\ c.owed = Off
        /\ c.sinceHandshake = s.sinceHandshake /\ c.handshakeAttempts = s.handshakeAttempts
        /\ c.current = s.current /\ c.next = s.next
        /\ c.unheard = IF s.unheard = Off THEN 0 ELSE s.unheard
        /\ c.left = DataSentLeft(b, e)
    BY <1>7, <2>1 DEF Timed
  <2>3. /\ c.left["newHandshake"] = IF IsPending(s, "newHandshake") THEN s.left["newHandshake"]
                                    ELSE Max(Keepalive) + e.rekey + e.jitter
        /\ \A t \in Timer \ {"newHandshake"} : c.left[t] = b.left[t]
    BY <1>8, <1>9, <2>2, Zenon DEF DataSentLeft, IsPending, Timer
  <2> QED BY <1>9, <2>1, <2>2, <2>3, Zenon DEF Timer
<1> QED BY <1>10, <1>11, Zenon

\* Packets sent put every timer right, provided that a live keypair or an initiation carries them; only
\* the notice of silence rests on the timers before.
LEMMA StagedSound ==
  ASSUME NEW s \in PeerRecord, NEW e \in Choice, NEW n \in Nat, s.running, s.staged # "none",
         s.current = "live" \/ s.sinceHandshake >= rekeyMinTimeout,
         Bounded(s), Keyed(s), Forgetting(s, n),
         NEW u, u = SendStagedPackets(s, e)
  PROVE  /\ u \in PeerRecord /\ u.running /\ u.owed = Off
         /\ Answering(u) /\ Persisting(u) /\ Bounded(u) /\ Keyed(u) /\ Forgetting(u, n) /\ Resting(u, n)
         /\ Noticing(s) => Noticing(u)
<1>1. CASE s.current # "live"
  <2>1. u = SendHandshakeInitiation(s, e, FALSE)
    BY <1>1, Zenon DEF SendStagedPackets
  <2> QED BY <1>1, <2>1, InitiationSound, Zenon DEF Sound, Rest
<1>2. CASE s.current = "live"
  <2>1. PICK c : c = LET b == timersAnyAuthenticatedPacketSent(
                                timersAnyAuthenticatedPacketTraversal([s EXCEPT !.staged = "none"], e)) IN
                     IF s.staged = "data" THEN timersDataSent(b, e) ELSE b
    BY Zenon
  <2>2. u = IF e.old THEN SendHandshakeInitiation(c, e, FALSE) ELSE c
    BY <1>2, <2>1, Zenon DEF SendStagedPackets
  <2>3. /\ c \in PeerRecord /\ c.running
        /\ c.persistent <=> s.persistent
        /\ c.initiated <=> s.initiated
        /\ c.sinceHandshake = s.sinceHandshake /\ c.handshakeAttempts = s.handshakeAttempts
        /\ c.current = s.current /\ c.next = s.next /\ c.owed = Off
        /\ c.left["sendKeepalive"] = Off
        /\ c.left["retransmitHandshake"] = s.left["retransmitHandshake"]
        /\ c.left["zeroKeyMaterial"] = s.left["zeroKeyMaterial"]
        /\ s.persistent => c.left["persistentKeepalive"] = e.interval
        /\ \/ c.unheard = s.unheard /\ c.left["newHandshake"] = s.left["newHandshake"]
           \/ /\ c.unheard = IF s.unheard = Off THEN 0 ELSE s.unheard
              /\ c.left["newHandshake"] = IF IsPending(s, "newHandshake") THEN s.left["newHandshake"]
                                          ELSE Max(Keepalive) + e.rekey + e.jitter
    BY <2>1, SentIs
  <2>4. Answering(c) /\ Resting(c, n)
    BY <2>3, Zenon DEF Answering, IsPending, Resting
  <2>5. Persisting(c)
    BY <2>3, PickedInRange DEF Persisting, Due, IsPending, Off, PeerRecord
  <2>6. Bounded(c)
    BY <2>3, PickedInRange DEF Bounded, NewHandshakeBound
  <2>7. Keyed(c) /\ Forgetting(c, n)
    BY <2>3, Zenon DEF Keyed, Forgetting, Due, IsPending
  <2>8. Noticing(s) => Noticing(c)
    <3> SUFFICES ASSUME Noticing(s) PROVE Noticing(c)
      BY Zenon
    <3>1. CASE c.unheard = s.unheard /\ c.left["newHandshake"] = s.left["newHandshake"]
      BY <2>3, <3>1, Zenon DEF Noticing, Due, IsPending
    <3>2. CASE /\ c.unheard = IF s.unheard = Off THEN 0 ELSE s.unheard
               /\ c.left["newHandshake"] = IF IsPending(s, "newHandshake") THEN s.left["newHandshake"]
                                           ELSE Max(Keepalive) + e.rekey + e.jitter
      <4>1. CASE ~IsPending(s, "newHandshake") /\ s.unheard = Off
        BY <2>3, <3>2, <4>1, PickedInRange DEF Noticing, Due, IsPending, Off, NewHandshakeBound, PeerRecord
      <4>2. CASE ~IsPending(s, "newHandshake") /\ s.unheard # Off
        <5>1. /\ Due(c, "newHandshake")
              /\ Due(c, "retransmitHandshake") /\ c.unheard + c.left["retransmitHandshake"] <= NewHandshakeBound
              /\ c.handshakeAttempts <= MaxAttempts
          BY <2>3, <3>2, <4>2, PickedInRange DEF Noticing, Due, IsPending, Off, PeerRecord
        <5> QED BY <5>1, Zenon DEF Noticing
      <4>3. CASE IsPending(s, "newHandshake") /\ s.unheard = Off
        <5>1. c.unheard = 0 /\ c.left["newHandshake"] = s.left["newHandshake"]
          BY <3>2, <4>3, Zenon
        <5>2. s.left["newHandshake"] <= NewHandshakeBound /\ s.left["retransmitHandshake"] <= NewHandshakeBound
          BY PickedInRange DEF Bounded, NewHandshakeBound, RetransmitBound, PeerRecord, Ticks, Off, Timer
        <5>3. CASE Due(s, "newHandshake")
          BY <2>3, <5>1, <5>2, <5>3, PickedInRange DEF Noticing, Due, IsPending, NewHandshakeBound, PeerRecord, Ticks, Off, Timer
        <5>4. CASE ~Due(s, "newHandshake")
          <6>1. Due(s, "retransmitHandshake") /\ s.left["newHandshake"] < s.left["retransmitHandshake"]
            BY <4>3, <5>4, PickedInRange DEF Noticing, Due, IsPending, PeerRecord, Ticks, Off, Timer
          <6> QED BY <2>3, <4>3, <5>1, <5>2, <6>1, PickedInRange
                  DEF Noticing, Due, IsPending, NewHandshakeBound, PeerRecord, Ticks, Off, Timer
        <5> QED BY <5>3, <5>4, Zenon
      <4>4. CASE IsPending(s, "newHandshake") /\ s.unheard # Off
        BY <2>3, <3>2, <4>4, Zenon DEF Noticing, Due, IsPending
      <4> QED BY <4>1, <4>2, <4>3, <4>4, Zenon
    <3> QED BY <2>3, <3>1, <3>2, Zenon
  <2>9. CASE e.old /\ s.sinceHandshake >= rekeyMinTimeout
    BY <2>2, <2>3, <2>6, <2>7, <2>9, InitiationSound, Zenon DEF Sound, Rest
  <2>10. CASE e.old /\ s.sinceHandshake < rekeyMinTimeout
    <3>1. u = SendHandshakeInitiation(c, e, FALSE) /\ c.sinceHandshake < rekeyMinTimeout
      BY <2>2, <2>3, <2>10, Zenon
    <3>2. u \in PeerRecord /\ Alike(c, u)
      BY <2>3, <3>1, InitiationHeld, Zenon
    <3>3. u.running /\ u.owed = Off
      BY <2>3, <3>2, Zenon DEF Alike
    <3> QED BY <2>3, <2>4, <2>5, <2>6, <2>7, <2>8, <3>2, <3>3, SoundFrame, Zenon
  <2>11. CASE ~e.old
    BY <2>2, <2>3, <2>4, <2>5, <2>6, <2>7, <2>8, <2>11, Zenon
  <2>12. s.sinceHandshake \in Nat /\ e.old \in BOOLEAN /\ rekeyMinTimeout \in Nat
    BY PickedInRange DEF PeerRecord, Choice
  <2> QED BY <2>9, <2>10, <2>11, <2>12
<1> QED BY <1>1, <1>2, Zenon

\* SendStagedPackets keeps the invariant.
LEMMA StagedKeeps ==
  ASSUME NEW s \in PeerRecord, NEW e \in Choice, NEW n \in Nat, s.running, Rest(s, n),
         NEW u, u = SendStagedPackets(s, e)
  PROVE  u \in PeerRecord /\ u.running /\ Rest(u, n) /\ (Noticing(s) => Noticing(u))
<1>1. CASE s.staged = "none"
  BY <1>1, Zenon DEF SendStagedPackets
<1>2. CASE s.staged # "none" /\ (s.current = "live" \/ s.sinceHandshake >= rekeyMinTimeout)
  BY <1>2, StagedSound, Zenon DEF Rest
<1>3. CASE s.staged # "none" /\ ~(s.current = "live" \/ s.sinceHandshake >= rekeyMinTimeout)
  <2>1. s.sinceHandshake < rekeyMinTimeout
    BY <1>3, PickedInRange DEF PeerRecord
  <2>2. u = SendHandshakeInitiation(s, e, FALSE)
    BY <1>3, Zenon DEF SendStagedPackets
  <2>3. u \in PeerRecord /\ Alike(s, u)
    BY <2>1, <2>2, InitiationHeld, Zenon
  <2>4. u.running
    BY <2>3, Zenon DEF Alike
  <2> QED BY <2>3, <2>4, SoundFrame, Zenon DEF Rest
<1> QED BY <1>1, <1>2, <1>3, Zenon

\* A keepalive, or the packets staged before it, put every timer right on the same terms.
LEMMA KeepaliveSound ==
  ASSUME NEW s \in PeerRecord, NEW e \in Choice, NEW n \in Nat, s.running,
         s.current = "live" \/ s.sinceHandshake >= rekeyMinTimeout,
         Bounded(s), Keyed(s), Forgetting(s, n), Noticing(s),
         NEW u, u = SendKeepalive(s, e)
  PROVE  u \in PeerRecord /\ u.running /\ u.owed = Off /\ Sound(u, n)
<1>1. PICK z : z = IF s.staged = "none" /\ s.running THEN [s EXCEPT !.staged = "keepalive"] ELSE s
  BY Zenon
<1>2. z \in PeerRecord
  BY <1>1, FieldTypes, Zenon
<1>3. Alike(s, z) /\ z.staged # "none"
  BY <1>1, Zenon DEF PeerRecord, Alike
<1>4. z.running /\ (z.current = "live" \/ z.sinceHandshake >= rekeyMinTimeout)
  BY <1>3, Zenon DEF Alike
<1>5. Bounded(z) /\ Keyed(z) /\ Forgetting(z, n) /\ Noticing(z)
  BY <1>2, <1>3, SoundFrame, Zenon
<1>6. u = SendStagedPackets(z, e)
  BY <1>1, Zenon DEF SendKeepalive
<1> QED BY <1>2, <1>3, <1>4, <1>5, <1>6, StagedSound, Zenon DEF Sound, Rest

\* A keepalive keeps the invariant, even if the initiation it needs is held back.
LEMMA KeepaliveKeeps ==
  ASSUME NEW s \in PeerRecord, NEW e \in Choice, NEW n \in Nat, s.running, Sound(s, n),
         NEW u, u = SendKeepalive(s, e)
  PROVE  u \in PeerRecord /\ u.running /\ Sound(u, n)
<1>1. PICK z : z = IF s.staged = "none" /\ s.running THEN [s EXCEPT !.staged = "keepalive"] ELSE s
  BY Zenon
<1>2. z \in PeerRecord
  BY <1>1, FieldTypes, Zenon
<1>3. Alike(s, z)
  BY <1>1, Zenon DEF PeerRecord, Alike
<1>4. z.running
  BY <1>3, Zenon DEF Alike
<1>5. Sound(z, n)
  BY <1>2, <1>3, SoundFrame, Zenon DEF Sound, Rest
<1>6. u = SendStagedPackets(z, e)
  BY <1>1, Zenon DEF SendKeepalive
<1> QED BY <1>2, <1>4, <1>5, <1>6, StagedKeeps, Zenon DEF Sound

\* A packet read from the TUN device.
LEMMA ReadSound ==
  ASSUME NEW s \in PeerRecord, NEW e \in Choice, NEW n \in Nat, s.running, Sound(s, n),
         NEW u, u = SendStagedPackets([s EXCEPT !.staged = "data"], e)
  PROVE  u \in PeerRecord /\ Sound(u, n)
<1>1. PICK z : z = [s EXCEPT !.staged = "data"]
  BY Zenon
<1>2. z \in PeerRecord
  BY <1>1, FieldTypes, Zenon
<1>3. Alike(s, z)
  BY <1>1, Zenon DEF PeerRecord, Alike
<1>4. z.running
  BY <1>3, Zenon DEF Alike
<1>5. Sound(z, n)
  BY <1>2, <1>3, SoundFrame, Zenon DEF Sound, Rest
<1>6. u = SendStagedPackets(z, e)
  BY <1>1, Zenon
<1> QED BY <1>2, <1>4, <1>5, <1>6, StagedKeeps, Zenon DEF Sound

-----------------------------------------------------------------------------
(* Receiving                                                                 *)

\* An initiation consumed (receive.go, RoutineHandshake): what was pending is deleted or set anew.
LEMMA ConsumeInitiationSound ==
  ASSUME NEW s \in PeerRecord, NEW e \in Choice, NEW n \in Nat, s.running, Sound(s, n),
         NEW t, t = [timersAnyAuthenticatedPacketReceived(timersAnyAuthenticatedPacketTraversal(s, e))
                       EXCEPT !.sinceHandshake = 0, !.initiated = FALSE, !.next = "live"],
         NEW u, u = timersAnyAuthenticatedPacketSent(
                      timersAnyAuthenticatedPacketTraversal(timersSessionDerived(t), e))
  PROVE  u \in PeerRecord /\ Sound(u, n)
<1>1. PICK a : a = timersAnyAuthenticatedPacketTraversal(s, e)
  BY Zenon
<1>2. PICK b : b = timersAnyAuthenticatedPacketReceived(a)
  BY Zenon
<1>3. a \in PeerRecord /\ a = Timed(s, TraversalLeft(s, e), s.owed, s.unheard)
  BY <1>1, TraversalIs, Zenon
<1>4. a.running /\ (a.persistent <=> s.persistent) /\ a.left = TraversalLeft(s, e)
  BY <1>3, Zenon DEF Timed
<1>5. b \in PeerRecord /\ b = Timed(a, [a.left EXCEPT !["newHandshake"] = Off], a.owed, Off)
  BY <1>2, <1>3, <1>4, PacketReceivedIs, Zenon
<1>6. b.running /\ (b.persistent <=> s.persistent) /\ b.unheard = Off
      /\ b.left = [a.left EXCEPT !["newHandshake"] = Off]
  BY <1>4, <1>5, Zenon DEF Timed
<1>7. t \in PeerRecord
  <2>1. PICK x : x = [b EXCEPT !.sinceHandshake = 0]
    BY Zenon
  <2>2. PICK y : y = [x EXCEPT !.initiated = FALSE]
    BY Zenon
  <2>3. x \in PeerRecord
    BY <1>5, <2>1, FieldTypes, Values, Zenon
  <2>4. y \in PeerRecord
    BY <2>2, <2>3, FieldTypes, Zenon
  <2>5. t = [y EXCEPT !.next = "live"]
    BY <1>1, <1>2, <2>1, <2>2, Zenon
  <2>6. [y EXCEPT !.next = "live"] \in PeerRecord
    BY <2>4, FieldTypes, Values, Zenon
  <2> QED BY <2>5, <2>6, Zenon
<1>8. t.running /\ (t.persistent <=> s.persistent) /\ t.unheard = Off /\ t.left = b.left
      /\ t.sinceHandshake = 0 /\ ~t.initiated
  BY <1>1, <1>2, <1>5, <1>6, Zenon DEF PeerRecord
<1>9. PICK d : d = timersSessionDerived(t)
  BY Zenon
<1>10. PICK f : f = timersAnyAuthenticatedPacketTraversal(d, e)
  BY Zenon
<1>11. d \in PeerRecord /\ d = Timed(t, [t.left EXCEPT !["zeroKeyMaterial"] = 3 * ExpireTime], t.owed, t.unheard)
  BY <1>7, <1>8, <1>9, SessionDerivedIs, Zenon
<1>12. d.running /\ (d.persistent <=> s.persistent) /\ d.unheard = Off /\ d.sinceHandshake = 0 /\ ~d.initiated
       /\ d.left = [t.left EXCEPT !["zeroKeyMaterial"] = 3 * ExpireTime]
  BY <1>8, <1>11, Zenon DEF Timed
<1>13. f \in PeerRecord /\ f = Timed(d, TraversalLeft(d, e), d.owed, d.unheard)
  BY <1>10, <1>11, <1>12, TraversalIs, Zenon
<1>14. f.running /\ (f.persistent <=> s.persistent) /\ f.unheard = Off /\ f.sinceHandshake = 0 /\ ~f.initiated
       /\ f.left = TraversalLeft(d, e)
  BY <1>12, <1>13, Zenon DEF Timed
<1>15. u \in PeerRecord /\ u = Timed(f, [f.left EXCEPT !["sendKeepalive"] = Off], Off, f.unheard)
  BY <1>9, <1>10, <1>13, <1>14, PacketSentIs
<1>16. u.running /\ (u.persistent <=> s.persistent) /\ u.unheard = Off /\ u.owed = Off /\ u.sinceHandshake = 0
       /\ ~u.initiated /\ u.left = [f.left EXCEPT !["sendKeepalive"] = Off]
  <2>1. PICK l, h : l = [f.left EXCEPT !["sendKeepalive"] = Off] /\ h = f.unheard
    BY Zenon
  <2>2. u = Timed(f, l, Off, h)
    BY <1>15, <2>1, Zenon
  <2>3. u.unheard = h /\ u.owed = Off /\ u.sinceHandshake = f.sinceHandshake /\ u.left = l
    BY <2>2 DEF Timed
  <2>4. u.running = f.running /\ u.persistent = f.persistent /\ u.initiated = f.initiated
    BY <2>2 DEF Timed
  <2> QED BY <1>14, <2>1, <2>3, <2>4, Zenon
<1>17. \A p \in {s, a, b, t, d, f} : p.left \in [Timer -> Ticks]
  BY <1>3, <1>5, <1>7, <1>11, <1>13, ZenonT(60) DEF PeerRecord
<1>18. d.left["newHandshake"] = Off /\ d.left["zeroKeyMaterial"] = 3 * ExpireTime
       /\ d.left["retransmitHandshake"] = s.left["retransmitHandshake"]
  BY <1>4, <1>6, <1>8, <1>12, <1>17 DEF TraversalLeft, Timer
<1>19. /\ u.left["newHandshake"] = Off /\ u.left["zeroKeyMaterial"] = 3 * ExpireTime /\ u.left["sendKeepalive"] = Off
       /\ u.left["retransmitHandshake"] = s.left["retransmitHandshake"]
       /\ u.persistent => u.left["persistentKeepalive"] = e.interval
  BY <1>12, <1>14, <1>16, <1>17, <1>18 DEF TraversalLeft, Timer
<1>20. Answering(u) /\ Noticing(u) /\ Resting(u, n) /\ Forgetting(u, n)
  BY <1>16, <1>19, Zenon DEF Answering, Noticing, Resting, Forgetting, IsPending
<1>21. Persisting(u)
  BY <1>16, <1>19, PickedInRange DEF Persisting, Due, IsPending, Off
<1>22. Keyed(u)
  BY <1>19, TimesAssumption DEF Keyed, IsPending, Off
<1>23. Bounded(u)
  BY <1>19, PickedInRange DEF Sound, Rest, Bounded, NewHandshakeBound, Off
<1> QED BY <1>15, <1>20, <1>21, <1>22, <1>23, Zenon DEF Sound, Rest

\* timersHandshakeComplete deletes the retransmission and makes the attempts begin anew.
LEMMA HandshakeCompleteIs ==
  ASSUME NEW s \in PeerRecord, s.running, NEW u, u = timersHandshakeComplete(s)
  PROVE  /\ u \in PeerRecord /\ u.running
         /\ u.left = [s.left EXCEPT !["retransmitHandshake"] = Off]
         /\ u.persistent <=> s.persistent
         /\ u.initiated <=> s.initiated
         /\ u.sinceHandshake = s.sinceHandshake /\ u.owed = s.owed /\ u.unheard = s.unheard
         /\ u.current = s.current /\ u.next = s.next
<1>1. PICK t : t = Del(s, "retransmitHandshake")
  BY Zenon
<1>2. PICK a : a = [t EXCEPT !.handshakeAttempts = 0]
  BY Zenon
<1>3. t = Timed(s, [s.left EXCEPT !["retransmitHandshake"] = Off], s.owed, s.unheard) /\ t \in PeerRecord
  <2>1. t = Timed(s, [s.left EXCEPT !["retransmitHandshake"] = Off], s.owed, s.unheard)
        /\ [s.left EXCEPT !["retransmitHandshake"] = Off] \in [Timer -> Ticks]
    BY <1>1, ModIs, Values, Zenon DEF Timer
  <2>2. s.owed \in Ticks /\ s.unheard \in Ticks
    BY Zenon DEF PeerRecord
  <2> QED BY <2>1, <2>2, TimedIsPeer, Zenon
<1>4. u = [a EXCEPT !.sentLastMinuteHandshake = FALSE]
  BY <1>1, <1>2, Zenon DEF timersHandshakeComplete
<1>5. a \in PeerRecord
  BY <1>2, <1>3, FieldTypes, Zenon
<1>6. u \in PeerRecord
  BY <1>4, <1>5, FieldTypes, Zenon
<1>7. /\ u.left = a.left /\ u.running = a.running /\ u.persistent = a.persistent /\ u.initiated = a.initiated
      /\ u.sinceHandshake = a.sinceHandshake /\ u.owed = a.owed /\ u.unheard = a.unheard
      /\ u.current = a.current /\ u.next = a.next
  BY <1>4, <1>5, Zenon DEF PeerRecord
<1>8. /\ a.left = t.left /\ a.running = t.running /\ a.persistent = t.persistent /\ a.initiated = t.initiated
      /\ a.sinceHandshake = t.sinceHandshake /\ a.owed = t.owed /\ a.unheard = t.unheard
      /\ a.current = t.current /\ a.next = t.next
  BY <1>2, <1>3, Zenon DEF PeerRecord
<1>9. /\ t.left = [s.left EXCEPT !["retransmitHandshake"] = Off]
      /\ t.running = s.running /\ t.persistent = s.persistent /\ t.initiated = s.initiated
      /\ t.sinceHandshake = s.sinceHandshake /\ t.owed = s.owed /\ t.unheard = s.unheard
      /\ t.current = s.current /\ t.next = s.next
  BY <1>3, Zenon DEF Timed
<1> QED BY <1>6, <1>7, <1>8, <1>9, Zenon

\* A response consumed (receive.go, RoutineHandshake): the keepalive that follows has a live keypair.
LEMMA ConsumeResponseSound ==
  ASSUME NEW s \in PeerRecord, NEW e \in Choice, NEW n \in Nat, s.running,
         NEW t, t = [timersAnyAuthenticatedPacketReceived(timersAnyAuthenticatedPacketTraversal(s, e))
                       EXCEPT !.initiated = FALSE, !.current = "live", !.next = "none"],
         NEW u, u = SendKeepalive(timersHandshakeComplete(timersSessionDerived(t)), e)
  PROVE  u \in PeerRecord /\ Sound(u, n)
<1>1. PICK a : a = timersAnyAuthenticatedPacketTraversal(s, e)
  BY Zenon
<1>2. PICK b : b = timersAnyAuthenticatedPacketReceived(a)
  BY Zenon
<1>3. a \in PeerRecord /\ a = Timed(s, TraversalLeft(s, e), s.owed, s.unheard)
  BY <1>1, TraversalIs, Zenon
<1>4. a.running
  BY <1>3, Zenon DEF Timed
<1>5. b \in PeerRecord /\ b = Timed(a, [a.left EXCEPT !["newHandshake"] = Off], a.owed, Off)
  BY <1>2, <1>3, <1>4, PacketReceivedIs, Zenon
<1>6. b.running /\ b.unheard = Off /\ b.left = [a.left EXCEPT !["newHandshake"] = Off]
  BY <1>4, <1>5, Zenon DEF Timed
<1>7. PICK x : x = [b EXCEPT !.initiated = FALSE]
  BY Zenon
<1>8. PICK y : y = [x EXCEPT !.current = "live"]
  BY Zenon
<1>9. x \in PeerRecord
  BY <1>5, <1>7, FieldTypes, Zenon
<1>10. y \in PeerRecord
  BY <1>8, <1>9, FieldTypes, Values, Zenon
<1>11. t = [y EXCEPT !.next = "none"]
  BY <1>1, <1>2, <1>7, <1>8, Zenon
<1>12. t \in PeerRecord
  <2>1. [y EXCEPT !.next = "none"] \in PeerRecord
    BY <1>10, FieldTypes, Values, Zenon
  <2> QED BY <1>11, <2>1, Zenon
<1>13. t.running /\ t.unheard = Off /\ t.left = b.left /\ ~t.initiated /\ t.current = "live"
  <2>1. x.running = b.running /\ x.unheard = b.unheard /\ x.left = b.left /\ ~x.initiated
    BY <1>5, <1>7, Zenon DEF PeerRecord
  <2>2. y.running = x.running /\ y.unheard = x.unheard /\ y.left = x.left /\ y.initiated = x.initiated
        /\ y.current = "live"
    BY <1>8, <1>9, Zenon DEF PeerRecord
  <2>3. t.running = y.running /\ t.unheard = y.unheard /\ t.left = y.left /\ t.initiated = y.initiated
        /\ t.current = y.current
    BY <1>10, <1>11, Zenon DEF PeerRecord
  <2> QED BY <1>6, <2>1, <2>2, <2>3, Zenon
<1>14. PICK d : d = timersSessionDerived(t)
  BY Zenon
<1>15. PICK c : c = timersHandshakeComplete(d)
  BY Zenon
<1>16. d \in PeerRecord /\ d = Timed(t, [t.left EXCEPT !["zeroKeyMaterial"] = 3 * ExpireTime], t.owed, t.unheard)
  BY <1>12, <1>13, <1>14, SessionDerivedIs, Zenon
<1>17. d.running /\ d.unheard = Off /\ ~d.initiated /\ d.current = "live"
       /\ d.left = [t.left EXCEPT !["zeroKeyMaterial"] = 3 * ExpireTime]
  BY <1>13, <1>16, Zenon DEF Timed
<1>18. c \in PeerRecord /\ c.running /\ c.unheard = Off /\ ~c.initiated /\ c.current = "live"
       /\ c.left = [d.left EXCEPT !["retransmitHandshake"] = Off]
  BY <1>15, <1>16, <1>17, HandshakeCompleteIs
<1>19. a.left \in [Timer -> Ticks] /\ b.left \in [Timer -> Ticks] /\ d.left \in [Timer -> Ticks]
  BY <1>3, <1>5, <1>16, Zenon DEF PeerRecord
<1>20. /\ c.left["newHandshake"] = Off /\ c.left["zeroKeyMaterial"] = 3 * ExpireTime
       /\ c.left["retransmitHandshake"] = Off
  BY <1>6, <1>13, <1>17, <1>18, <1>19 DEF Timer
<1>21. Bounded(c)
  BY <1>20, PickedInRange DEF Bounded, NewHandshakeBound, RetransmitBound, Off
<1>22. Keyed(c)
  BY <1>20, TimesAssumption DEF Keyed, IsPending, Off
<1>23. Noticing(c) /\ Forgetting(c, n)
  BY <1>18, <1>20, Zenon DEF Noticing, Forgetting, IsPending
<1>24. u = SendKeepalive(c, e)
  BY <1>14, <1>15, Zenon
<1> QED BY <1>18, <1>21, <1>22, <1>23, <1>24, KeepaliveSound, Zenon

\* A packet under a keypair near its end begins a handshake, once (receive.go, keepKeyFreshReceiving).
LEMMA KeepKeyFreshKeeps ==
  ASSUME NEW s \in PeerRecord, NEW e \in Choice, NEW n \in Nat, s.running, Rest(s, n),
         NEW u, u = keepKeyFreshReceiving(s, e)
  PROVE  u \in PeerRecord /\ u.running /\ Rest(u, n)
<1>1. PICK z : z = [s EXCEPT !.sentLastMinuteHandshake = TRUE]
  BY Zenon
<1>2. z \in PeerRecord
  BY <1>1, FieldTypes, Zenon
<1>3. Alike(s, z)
  BY <1>1, Zenon DEF PeerRecord, Alike
<1>4. z.running /\ Rest(z, n)
  BY <1>2, <1>3, SoundFrame, Zenon DEF Alike, Rest
<1>5. u = s \/ u = SendHandshakeInitiation(z, e, FALSE)
  BY <1>1, Zenon DEF keepKeyFreshReceiving
<1>6. CASE u = SendHandshakeInitiation(z, e, FALSE) /\ z.sinceHandshake >= rekeyMinTimeout
  BY <1>2, <1>4, <1>6, InitiationSound, Zenon DEF Sound, Rest
<1>7. CASE u = SendHandshakeInitiation(z, e, FALSE) /\ z.sinceHandshake < rekeyMinTimeout
  <2>1. u \in PeerRecord /\ Alike(z, u)
    BY <1>2, <1>7, InitiationHeld, Zenon
  <2> QED BY <1>2, <1>4, <2>1, SoundFrame, Zenon DEF Alike, Rest
<1>8. CASE u = s
  BY <1>8, Zenon
<1>9. z.sinceHandshake >= rekeyMinTimeout \/ z.sinceHandshake < rekeyMinTimeout
  BY <1>2, PickedInRange DEF PeerRecord
<1> QED BY <1>5, <1>6, <1>7, <1>8, <1>9, Zenon

\* The first packet under the next keypair makes it the current one and completes the handshake.
LEMMA ConfirmKeeps ==
  ASSUME NEW s \in PeerRecord, NEW n \in Nat, s.running, Rest(s, n), s.next # "none",
         NEW u, u = timersHandshakeComplete([s EXCEPT !.current = s.next, !.next = "none"])
  PROVE  u \in PeerRecord /\ u.running /\ Rest(u, n)
<1>1. PICK x : x = [s EXCEPT !.current = s.next]
  BY Zenon
<1>2. PICK z : z = [x EXCEPT !.next = "none"]
  BY Zenon
<1>3. x \in PeerRecord
  <2>1. s.next \in Key
    BY Zenon DEF PeerRecord, Key
  <2> QED BY <1>1, <2>1, FieldTypes, Zenon
<1>4. z \in PeerRecord
  BY <1>2, <1>3, FieldTypes, Values, Zenon
<1>5. /\ x.left = s.left /\ x.running = s.running /\ x.persistent = s.persistent
      /\ x.sinceHandshake = s.sinceHandshake /\ x.owed = s.owed
  BY <1>1, Zenon DEF PeerRecord
<1>6. /\ z.left = x.left /\ z.running = x.running /\ z.persistent = x.persistent
      /\ z.sinceHandshake = x.sinceHandshake /\ z.owed = x.owed
  BY <1>2, <1>3, Zenon DEF PeerRecord
<1>7. z.running
  BY <1>5, <1>6, Zenon
<1>8. u = timersHandshakeComplete(z)
  BY <1>1, <1>2, Zenon
<1>9. /\ u \in PeerRecord /\ u.running /\ u.left = [z.left EXCEPT !["retransmitHandshake"] = Off]
      /\ u.persistent <=> z.persistent
      /\ u.sinceHandshake = z.sinceHandshake /\ u.owed = z.owed
  BY <1>4, <1>7, <1>8, HandshakeCompleteIs
<1>10. s.left \in [Timer -> Ticks]
  BY Zenon DEF PeerRecord
<1>11. /\ u.left["retransmitHandshake"] = Off
       /\ \A t \in Timer \ {"retransmitHandshake"} : u.left[t] = s.left[t]
       /\ u.sinceHandshake = s.sinceHandshake /\ u.owed = s.owed
       /\ u.persistent <=> s.persistent
  BY <1>5, <1>6, <1>9, <1>10 DEF Timer
<1>12. Answering(u) /\ Resting(u, n)
  BY <1>9, <1>11, Zenon DEF Rest, Answering, Resting, Due, IsPending, Timer
<1>13. Persisting(u)
  BY <1>9, <1>11, Zenon DEF Rest, Persisting, Due, IsPending, Timer
<1>14. Bounded(u)
  BY <1>9, <1>11, PickedInRange DEF Rest, Bounded, RetransmitBound, Timer, Off
<1>15. IsPending(u, "zeroKeyMaterial")
  BY <1>11, Zenon DEF Rest, Keyed, IsPending, Timer
<1>16. Keyed(u) /\ Forgetting(u, n)
  BY <1>15, Zenon DEF Keyed, Forgetting
<1> QED BY <1>9, <1>12, <1>13, <1>14, <1>16, Zenon DEF Rest

\* An authenticated packet received leaves no silence to notice.
LEMMA ReceivedSound ==
  ASSUME NEW s \in PeerRecord, NEW e \in Choice, NEW n \in Nat, s.running, Rest(s, n),
         NEW u, u = timersAnyAuthenticatedPacketReceived(timersAnyAuthenticatedPacketTraversal(s, e))
  PROVE  u \in PeerRecord /\ u.running /\ Sound(u, n)
<1>1. PICK a : a = timersAnyAuthenticatedPacketTraversal(s, e)
  BY Zenon
<1>2. a \in PeerRecord /\ a = Timed(s, TraversalLeft(s, e), s.owed, s.unheard)
  BY <1>1, TraversalIs, Zenon
<1>3. /\ a.left = TraversalLeft(s, e) /\ a.running = s.running /\ a.persistent = s.persistent
      /\ a.initiated = s.initiated /\ a.sinceHandshake = s.sinceHandshake /\ a.owed = s.owed
      /\ a.current = s.current /\ a.next = s.next
  BY <1>2, Zenon DEF Timed
<1>4. a.running
  BY <1>3, Zenon
<1>5. u \in PeerRecord /\ u = Timed(a, [a.left EXCEPT !["newHandshake"] = Off], a.owed, Off)
  BY <1>1, <1>2, <1>4, PacketReceivedIs, Zenon
<1>6. /\ u.left = [a.left EXCEPT !["newHandshake"] = Off] /\ u.running = a.running /\ u.persistent = a.persistent
      /\ u.initiated = a.initiated /\ u.sinceHandshake = a.sinceHandshake /\ u.owed = a.owed
      /\ u.current = a.current /\ u.next = a.next /\ u.unheard = Off
  BY <1>5 DEF Timed
<1>7. u.running /\ (u.persistent <=> s.persistent) /\ (u.initiated <=> s.initiated)
  BY <1>3, <1>4, <1>6, Zenon
<1>8. u.sinceHandshake = s.sinceHandshake /\ u.owed = s.owed /\ u.current = s.current /\ u.next = s.next
  BY <1>3, <1>6, Zenon
<1>9. s.left \in [Timer -> Ticks] /\ a.left \in [Timer -> Ticks]
  BY <1>2, Zenon DEF PeerRecord
<1>10. /\ u.left["newHandshake"] = Off
       /\ u.left["sendKeepalive"] = s.left["sendKeepalive"]
       /\ u.left["retransmitHandshake"] = s.left["retransmitHandshake"]
       /\ u.left["zeroKeyMaterial"] = s.left["zeroKeyMaterial"]
       /\ s.persistent => u.left["persistentKeepalive"] = e.interval
  BY <1>3, <1>6, <1>9 DEF TraversalLeft, Timer
<1>11. Answering(u) /\ Resting(u, n)
  BY <1>7, <1>8, <1>10, Zenon DEF Rest, Answering, Resting, Due, IsPending
<1>12. Persisting(u)
  BY <1>7, <1>10, PickedInRange, <1>5 DEF Persisting, Due, IsPending, Off, PeerRecord
<1>13. Bounded(u)
  BY <1>10, PickedInRange DEF Rest, Bounded, NewHandshakeBound, Off
<1>14. Keyed(u) /\ Forgetting(u, n)
  BY <1>7, <1>8, <1>10, Zenon DEF Rest, Keyed, Forgetting, Due, IsPending
<1>15. Noticing(u)
  BY <1>6, <1>10, Zenon DEF Noticing, IsPending
<1> QED BY <1>5, <1>7, <1>11, <1>12, <1>13, <1>14, <1>15, Zenon DEF Sound, Rest

\* The keepalive timer set: it runs out when an initiation would not be held back.
LEMMA KeepaliveSet ==
  ASSUME NEW s \in PeerRecord, NEW e \in Choice, NEW n \in Nat, s.running,
         KeepaliveOutlastsRekey => s.owed = Off \/ s.owed = 0,
         Persisting(s), Bounded(s), Noticing(s), Keyed(s), Forgetting(s, n), Resting(s, n),
         NEW u, u = Mod(s, "sendKeepalive", e.keepalive)
  PROVE  u \in PeerRecord /\ Sound(u, n)
<1>1. e.keepalive \in Ticks
  BY PickedInRange, Zenon DEF Ticks
<1>2. "sendKeepalive" \in Timer
  BY Zenon DEF Timer
<1>3. /\ u \in PeerRecord
      /\ u.left["sendKeepalive"] = e.keepalive
      /\ \A r \in Timer \ {"sendKeepalive"} : u.left[r] = s.left[r]
      /\ u.running <=> s.running
      /\ u.persistent <=> s.persistent
      /\ u.initiated <=> s.initiated
      /\ u.sinceHandshake = s.sinceHandshake /\ u.owed = s.owed /\ u.unheard = s.unheard
      /\ u.current = s.current /\ u.next = s.next /\ u.handshakeAttempts = s.handshakeAttempts
  BY <1>1, <1>2, ModFields
<1>4. \A t \in {"retransmitHandshake", "newHandshake", "zeroKeyMaterial", "persistentKeepalive"} : u.left[t] = s.left[t]
  BY <1>3, Zenon DEF Timer
<1>7. Answering(u)
  BY <1>3, PickedInRange DEF Answering, Due, IsPending, Off, PeerRecord
<1>8. Persisting(u) /\ Bounded(u) /\ Keyed(u) /\ Forgetting(u, n) /\ Resting(u, n)
  BY <1>3, <1>4, Zenon DEF Persisting, Bounded, Keyed, Forgetting, Resting, Due, IsPending
<1>9. Noticing(u)
  BY <1>3, <1>4, Zenon DEF Noticing, Due, IsPending
<1> QED BY <1>3, <1>7, <1>8, <1>9, Zenon DEF Sound, Rest

\* Data received sets the keepalive, unless it is pending (timersDataReceived).
LEMMA DataReceivedSound ==
  ASSUME NEW s \in PeerRecord, NEW e \in Choice, NEW n \in Nat, s.running, Sound(s, n),
         NEW u, u = timersDataReceived(s, e)
  PROVE  u \in PeerRecord /\ Sound(u, n)
<1>1. PICK h : h = IF s.owed = Off THEN [s EXCEPT !.owed = 0] ELSE s
  BY Zenon
<1>2. h \in PeerRecord
  BY <1>1, FieldTypes, Values, Zenon
<1>3. /\ h.left = s.left /\ h.running = s.running /\ h.persistent = s.persistent /\ h.initiated = s.initiated
      /\ h.sinceHandshake = s.sinceHandshake /\ h.unheard = s.unheard /\ h.current = s.current /\ h.next = s.next
      /\ h.handshakeAttempts = s.handshakeAttempts /\ h.owed = IF s.owed = Off THEN 0 ELSE s.owed
  BY <1>1, Zenon DEF PeerRecord
<1>4. Persisting(h) /\ Bounded(h) /\ Noticing(h) /\ Keyed(h) /\ Forgetting(h, n) /\ Resting(h, n)
  BY <1>3, Zenon DEF Sound, Rest, Noticing, Persisting, Bounded, Keyed, Forgetting, Resting, Due, IsPending
<1>5. CASE IsPending(s, "sendKeepalive")
  <2>1. u = [h EXCEPT !.needAnotherKeepalive = TRUE]
    BY <1>1, <1>5, Zenon DEF timersDataReceived
  <2>2. u \in PeerRecord
    BY <1>2, <2>1, FieldTypes, Zenon
  <2>3. Alike(h, u)
    BY <1>2, <2>1, Zenon DEF PeerRecord, Alike
  <2>4. Answering(h)
    <3>1. s.left["sendKeepalive"] \in Nat
      BY <1>5, Zenon DEF IsPending, PeerRecord, Ticks, Timer
    <3> QED BY <1>3, <1>5, <3>1 DEF Sound, Rest, Answering, Due, IsPending, Off
  <2> QED BY <1>2, <1>4, <2>2, <2>3, <2>4, SoundFrame, Zenon DEF Sound, Rest
<1>6. CASE ~IsPending(s, "sendKeepalive")
  <2>1. u = Mod(h, "sendKeepalive", e.keepalive)
    BY <1>1, <1>6, Zenon DEF timersDataReceived, sendKeepaliveTimeout
  <2>2. (KeepaliveOutlastsRekey => h.owed = 0) /\ h.running
    BY <1>3, <1>6, Zenon DEF Sound, Rest, Answering
  <2> QED BY <1>2, <1>4, <2>1, <2>2, KeepaliveSet, Zenon
<1> QED BY <1>5, <1>6, Zenon

-----------------------------------------------------------------------------
(* The timers' callbacks                                                     *)

\* The keepalive timer of a running peer: what is owed is sent, unless an initiation is held back.
LEMMA FireSendKeepalive ==
  ASSUME NEW s \in PeerRecord, NEW e \in Choice, NEW n \in Nat, s.running, Sound(s, n),
         s.left["sendKeepalive"] = 0,
         NEW u, u = expiredSendKeepalive(Del(s, "sendKeepalive"), e)
  PROVE  u \in PeerRecord /\ Sound(u, n)
<1>1. PICK d : d = Del(s, "sendKeepalive")
  BY Zenon
<1>2. "sendKeepalive" \in Timer
  BY Zenon DEF Timer
<1>3. /\ d \in PeerRecord /\ d.running
      /\ \A r \in Timer \ {"sendKeepalive"} : d.left[r] = s.left[r]
      /\ d.persistent <=> s.persistent
      /\ d.initiated <=> s.initiated
      /\ d.sinceHandshake = s.sinceHandshake /\ d.unheard = s.unheard
      /\ d.current = s.current /\ d.next = s.next /\ d.handshakeAttempts = s.handshakeAttempts
  BY <1>1, <1>2, DelIs
<1>4. \A r \in {"retransmitHandshake", "newHandshake", "zeroKeyMaterial", "persistentKeepalive"} : d.left[r] = s.left[r]
  BY <1>3, Zenon DEF Timer
<1>5. Bounded(d) /\ Keyed(d) /\ Forgetting(d, n) /\ Noticing(d)
  BY <1>3, <1>4, Zenon DEF Sound, Rest, Bounded, Keyed, Forgetting, Noticing, Due, IsPending
<1>6. PICK t : t = SendKeepalive(d, e)
  BY Zenon
<1>7. t \in PeerRecord /\ t.running /\ (KeepaliveOutlastsRekey => t.owed = Off) /\ Sound(t, n)
  <2>1. CASE KeepaliveOutlastsRekey
    <3>1. d.sinceHandshake >= rekeyMinTimeout
      BY <1>3, <2>1, PickedInRange DEF Sound, Rest, Answering, Due, IsPending, Off, PeerRecord
    <3> QED BY <1>3, <1>5, <1>6, <3>1, KeepaliveSound, Zenon
  <2>2. CASE ~KeepaliveOutlastsRekey
    <3>1. Answering(d) /\ Persisting(d) /\ Resting(d, n)
      BY <1>3, <1>4, <2>2, Zenon DEF Sound, Rest, Answering, Persisting, Resting, Due, IsPending
    <3> QED BY <1>3, <1>5, <1>6, <2>2, <3>1, KeepaliveKeeps, Zenon DEF Sound, Rest
  <2> QED BY <2>1, <2>2, Zenon
<1>8. PICK v : v = [t EXCEPT !.needAnotherKeepalive = FALSE]
  BY Zenon
<1>9. v \in PeerRecord
  BY <1>7, <1>8, FieldTypes, Zenon
<1>10. Alike(t, v)
  BY <1>7, <1>8, Zenon DEF PeerRecord, Alike
<1>11. v.running /\ (KeepaliveOutlastsRekey => v.owed = Off) /\ Sound(v, n)
  BY <1>7, <1>9, <1>10, SoundFrame, Zenon DEF Alike, Sound, Rest
<1>12. u = v \/ u = Mod(v, "sendKeepalive", e.keepalive)
  BY <1>1, <1>6, <1>8, Zenon DEF expiredSendKeepalive, sendKeepaliveTimeout
<1>13. CASE u = Mod(v, "sendKeepalive", e.keepalive)
  BY <1>9, <1>11, <1>13, KeepaliveSet, Zenon DEF Sound, Rest
<1> QED BY <1>9, <1>11, <1>12, <1>13, Zenon

\* The persistent keepalive of a running peer.
LEMMA FirePersistentKeepalive ==
  ASSUME NEW s \in PeerRecord, NEW e \in Choice, NEW n \in Nat, s.running, Sound(s, n),
         s.left["persistentKeepalive"] = 0,
         NEW u, u = expiredPersistentKeepalive(Del(s, "persistentKeepalive"), e)
  PROVE  u \in PeerRecord /\ Sound(u, n)
<1>1. PICK d : d = Del(s, "persistentKeepalive")
  BY Zenon
<1>2. "persistentKeepalive" \in Timer
  BY Zenon DEF Timer
<1>3. /\ d \in PeerRecord /\ d.running
      /\ \A r \in Timer \ {"persistentKeepalive"} : d.left[r] = s.left[r]
      /\ d.persistent <=> s.persistent
      /\ d.initiated <=> s.initiated
      /\ d.sinceHandshake = s.sinceHandshake /\ d.owed = s.owed /\ d.unheard = s.unheard
      /\ d.current = s.current /\ d.next = s.next /\ d.handshakeAttempts = s.handshakeAttempts
  BY <1>1, <1>2, DelIs
<1>4. \A r \in {"retransmitHandshake", "newHandshake", "zeroKeyMaterial", "sendKeepalive"} : d.left[r] = s.left[r]
  BY <1>3, Zenon DEF Timer
<1>5. Bounded(d) /\ Keyed(d) /\ Forgetting(d, n) /\ Noticing(d)
  BY <1>3, <1>4, Zenon DEF Sound, Rest, Bounded, Keyed, Forgetting, Noticing, Due, IsPending
<1>6. CASE s.persistent
  <2>1. u = SendKeepalive(d, e)
    BY <1>1, <1>3, <1>6, Zenon DEF expiredPersistentKeepalive
  <2>2. CASE IntervalOutlastsRekey
    <3>1. d.sinceHandshake >= rekeyMinTimeout
      BY <1>3, <1>6, <2>2, PickedInRange DEF Sound, Rest, Persisting, Due, IsPending, Off, PeerRecord
    <3> QED BY <1>3, <1>5, <2>1, <3>1, KeepaliveSound, Zenon
  <2>3. CASE ~IntervalOutlastsRekey
    <3>1. Answering(d) /\ Persisting(d) /\ Resting(d, n)
      BY <1>3, <1>4, <2>3, Zenon DEF Sound, Rest, Answering, Persisting, Resting, Due, IsPending
    <3> QED BY <1>3, <1>5, <2>1, <3>1, KeepaliveKeeps, Zenon DEF Sound, Rest
  <2> QED BY <2>2, <2>3, Zenon
<1>7. CASE ~s.persistent
  <2>1. u = d
    BY <1>1, <1>3, <1>7, Zenon DEF expiredPersistentKeepalive
  <2>2. Answering(d) /\ Persisting(d) /\ Resting(d, n)
    BY <1>3, <1>4, <1>7, Zenon DEF Sound, Rest, Answering, Persisting, Resting, Due, IsPending
  <2> QED BY <1>3, <1>5, <2>1, <2>2, Zenon DEF Sound, Rest
<1> QED BY <1>6, <1>7, Zenon

\* The new handshake of a running peer: if it is held back, a retransmission is not, and begins anew.
LEMMA FireNewHandshake ==
  ASSUME NEW s \in PeerRecord, NEW e \in Choice, NEW n \in Nat, s.running, Sound(s, n),
         s.left["newHandshake"] = 0,
         NEW u, u = expiredNewHandshake(Del(s, "newHandshake"), e)
  PROVE  u \in PeerRecord /\ Sound(u, n)
<1>1. PICK d : d = Del(s, "newHandshake")
  BY Zenon
<1>2. "newHandshake" \in Timer
  BY Zenon DEF Timer
<1>3. /\ d \in PeerRecord /\ d.running /\ d.left["newHandshake"] = Off
      /\ \A r \in Timer \ {"newHandshake"} : d.left[r] = s.left[r]
      /\ d.persistent <=> s.persistent
      /\ d.initiated <=> s.initiated
      /\ d.sinceHandshake = s.sinceHandshake /\ d.owed = s.owed /\ d.unheard = s.unheard
      /\ d.current = s.current /\ d.next = s.next
  BY <1>1, <1>2, DelIs
<1>4. \A r \in {"retransmitHandshake", "persistentKeepalive", "zeroKeyMaterial", "sendKeepalive"} : d.left[r] = s.left[r]
  BY <1>3, Zenon DEF Timer
<1>5. Keyed(d) /\ Forgetting(d, n)
  BY <1>3, <1>4, Zenon DEF Sound, Rest, Keyed, Forgetting, Due, IsPending
<1>6. Bounded(d)
  BY <1>3, <1>4, PickedInRange DEF Sound, Rest, Bounded, NewHandshakeBound, Off
<1>7. u = SendHandshakeInitiation(d, e, FALSE)
  BY <1>1, Zenon DEF expiredNewHandshake
<1>8. CASE d.sinceHandshake >= rekeyMinTimeout
  BY <1>3, <1>5, <1>6, <1>7, <1>8, InitiationSound, Zenon
<1>9. CASE d.sinceHandshake < rekeyMinTimeout
  <2>1. u \in PeerRecord /\ Alike(d, u) /\ u.handshakeAttempts = 0
    BY <1>3, <1>7, <1>9, InitiationHeld, Zenon
  <2>2. Answering(d) /\ Persisting(d) /\ Resting(d, n)
    BY <1>3, <1>4, Zenon DEF Sound, Rest, Answering, Persisting, Resting, Due, IsPending
  <2>3. Rest(u, n)
    BY <1>3, <1>5, <1>6, <2>1, <2>2, SoundFrame, Zenon DEF Rest
  <2>4. s.sinceHandshake \in Nat /\ rekeyMinTimeout \in Nat
    BY PickedInRange DEF PeerRecord
  <2>5. ~Due(s, "newHandshake")
    BY <1>3, <1>9, <2>4 DEF Due
  <2>6. Due(s, "retransmitHandshake")
        /\ (s.unheard # Off => s.unheard + s.left["retransmitHandshake"] <= NewHandshakeBound)
    BY <2>5 DEF Sound, Noticing, IsPending, Off
  <2>7. u.unheard = s.unheard /\ u.left["retransmitHandshake"] = s.left["retransmitHandshake"]
        /\ u.sinceHandshake = s.sinceHandshake /\ u.left["newHandshake"] = Off
    BY <1>3, <1>4, <2>1, Zenon DEF Alike
  <2>8. Noticing(u)
    BY <2>1, <2>6, <2>7, TimesAssumption, SMTT(30) DEF Noticing, Due, IsPending
  <2> QED BY <2>1, <2>3, <2>8, Zenon DEF Sound
<1>10. d.sinceHandshake >= rekeyMinTimeout \/ d.sinceHandshake < rekeyMinTimeout
  BY <1>3, PickedInRange DEF PeerRecord
<1> QED BY <1>8, <1>9, <1>10, Zenon

\* The removal of the keys.
LEMMA ZeroIs ==
  ASSUME NEW s \in PeerRecord, NEW u, u = ZeroAndFlushAll(s)
  PROVE  /\ u \in PeerRecord /\ u.left = s.left
         /\ u.running <=> s.running
         /\ u.persistent <=> s.persistent
         /\ ~u.initiated
         /\ u.sinceHandshake = s.sinceHandshake /\ u.owed = s.owed /\ u.unheard = s.unheard
         /\ u.current = "none" /\ u.next = "none" /\ u.handshakeAttempts = s.handshakeAttempts
<1>1. PICK a : a = [s EXCEPT !.current = "none"]
  BY Zenon
<1>2. PICK b : b = [a EXCEPT !.next = "none"]
  BY Zenon
<1>3. PICK c : c = [b EXCEPT !.initiated = FALSE]
  BY Zenon
<1>4. u = [c EXCEPT !.staged = "none"]
  BY <1>1, <1>2, <1>3, Zenon DEF ZeroAndFlushAll, FlushStagedPackets
<1>5. a \in PeerRecord
  BY <1>1, FieldTypes, Values, Zenon
<1>6. b \in PeerRecord
  BY <1>2, <1>5, FieldTypes, Values, Zenon
<1>7. c \in PeerRecord
  BY <1>3, <1>6, FieldTypes, Zenon
<1>8. u \in PeerRecord
  BY <1>4, <1>7, FieldTypes, Zenon
<1>9. /\ a.left = s.left /\ a.running = s.running /\ a.persistent = s.persistent /\ a.current = "none"
      /\ a.sinceHandshake = s.sinceHandshake /\ a.owed = s.owed /\ a.unheard = s.unheard
      /\ a.handshakeAttempts = s.handshakeAttempts
  BY <1>1, Zenon DEF PeerRecord
<1>10. /\ b.left = a.left /\ b.running = a.running /\ b.persistent = a.persistent /\ b.current = a.current
       /\ b.sinceHandshake = a.sinceHandshake /\ b.owed = a.owed /\ b.unheard = a.unheard
       /\ b.handshakeAttempts = a.handshakeAttempts /\ b.next = "none"
  BY <1>2, <1>5, Zenon DEF PeerRecord
<1>11. /\ c.left = b.left /\ c.running = b.running /\ c.persistent = b.persistent /\ c.current = b.current
       /\ c.sinceHandshake = b.sinceHandshake /\ c.owed = b.owed /\ c.unheard = b.unheard
       /\ c.handshakeAttempts = b.handshakeAttempts /\ c.next = b.next /\ ~c.initiated
  BY <1>3, <1>6, Zenon DEF PeerRecord
<1>12. /\ u.left = c.left /\ u.running = c.running /\ u.persistent = c.persistent /\ u.current = c.current
       /\ u.sinceHandshake = c.sinceHandshake /\ u.owed = c.owed /\ u.unheard = c.unheard
       /\ u.handshakeAttempts = c.handshakeAttempts /\ u.next = c.next /\ u.initiated = c.initiated
  BY <1>4, <1>7, Zenon DEF PeerRecord
<1> QED BY <1>8, <1>9, <1>10, <1>11, <1>12, ZenonT(60)

\* The keys of a peer are removed when their time has come, running or not.
LEMMA FireZeroKeyMaterial ==
  ASSUME NEW s \in PeerRecord, NEW n \in Nat, Sound(s, n),
         NEW u, u = expiredZeroKeyMaterial(Del(s, "zeroKeyMaterial"))
  PROVE  u \in PeerRecord /\ Sound(u, n) /\ u.sinceHandshake = s.sinceHandshake
<1>1. PICK d : d = Del(s, "zeroKeyMaterial")
  BY Zenon
<1>2. "zeroKeyMaterial" \in Timer
  BY Zenon DEF Timer
<1>3. /\ d \in PeerRecord /\ d.left["zeroKeyMaterial"] = Off
      /\ \A r \in Timer \ {"zeroKeyMaterial"} : d.left[r] = s.left[r]
      /\ d.running <=> s.running
      /\ d.persistent <=> s.persistent
      /\ d.sinceHandshake = s.sinceHandshake /\ d.owed = s.owed /\ d.unheard = s.unheard
      /\ d.handshakeAttempts = s.handshakeAttempts
  BY <1>1, <1>2, DelIs
<1>4. u = ZeroAndFlushAll(d)
  BY <1>1, Zenon DEF expiredZeroKeyMaterial
<1>5. /\ u \in PeerRecord /\ u.left = d.left
      /\ u.running <=> d.running
      /\ u.persistent <=> d.persistent
      /\ ~u.initiated
      /\ u.sinceHandshake = d.sinceHandshake /\ u.owed = d.owed /\ u.unheard = d.unheard
      /\ u.current = "none" /\ u.next = "none" /\ u.handshakeAttempts = d.handshakeAttempts
  BY <1>3, <1>4, ZeroIs, Zenon
<1>6. /\ \A r \in {"retransmitHandshake", "persistentKeepalive", "newHandshake", "sendKeepalive"} : u.left[r] = s.left[r]
      /\ u.left["zeroKeyMaterial"] = Off
  BY <1>3, <1>5, Zenon DEF Timer
<1>7. /\ u.running <=> s.running
      /\ u.persistent <=> s.persistent
      /\ u.sinceHandshake = s.sinceHandshake /\ u.owed = s.owed /\ u.unheard = s.unheard
      /\ u.handshakeAttempts = s.handshakeAttempts
  BY <1>3, <1>5, Zenon
<1>8. Answering(u) /\ Persisting(u) /\ Bounded(u)
  BY <1>6, <1>7, Zenon DEF Sound, Rest, Answering, Persisting, Bounded, Due, IsPending
<1>9. Keyed(u) /\ Forgetting(u, n)
  BY <1>5, Zenon DEF Keyed, Forgetting
<1>10. Resting(u, n)
  BY <1>5, <1>6, <1>7, PickedInRange, SMTT(30) DEF Sound, Rest, Resting, Timer, Off
<1>11. Noticing(u)
  BY <1>6, <1>7, Zenon DEF Sound, Noticing, Due, IsPending
<1> QED BY <1>5, <1>7, <1>8, <1>9, <1>10, <1>11, Zenon DEF Sound, Rest

\* A handshake given up (expiredRetransmitHandshake): the residue is set to be removed.
LEMMA GiveUpSound ==
  ASSUME NEW s \in PeerRecord, NEW e \in Choice, NEW n \in Nat, s.running, Sound(s, n),
         s.left["retransmitHandshake"] = 0, s.handshakeAttempts > MaxAttempts,
         NEW u, u = expiredRetransmitHandshake(Del(s, "retransmitHandshake"), e)
  PROVE  u \in PeerRecord /\ Sound(u, n)
<1>a. "retransmitHandshake" \in Timer
  BY Zenon DEF Timer
<1>b. "sendKeepalive" \in Timer
  BY Zenon DEF Timer
<1>c. "zeroKeyMaterial" \in Timer
  BY Zenon DEF Timer
<1>1. PICK d : d = Del(s, "retransmitHandshake")
  BY Zenon
<1>2. /\ d \in PeerRecord /\ d.running /\ d.left["retransmitHandshake"] = Off
      /\ \A r \in Timer \ {"retransmitHandshake"} : d.left[r] = s.left[r]
      /\ d.persistent <=> s.persistent
      /\ d.sinceHandshake = s.sinceHandshake /\ d.unheard = s.unheard
      /\ d.current = s.current /\ d.next = s.next /\ d.handshakeAttempts = s.handshakeAttempts
  BY <1>a, <1>1, DelIs
<1>3. PICK o : o = [d EXCEPT !.owed = Off]
  BY Zenon
<1>4. o \in PeerRecord
  BY <1>2, <1>3, FieldTypes, Values, Zenon
<1>5. /\ o.left = d.left /\ o.running /\ o.owed = Off
      /\ o.persistent <=> d.persistent
      /\ o.sinceHandshake = d.sinceHandshake /\ o.unheard = d.unheard
  BY <1>2, <1>3, Zenon DEF PeerRecord
<1>6. PICK t : t = Del(o, "sendKeepalive")
  BY Zenon
<1>7. /\ t \in PeerRecord /\ t.running /\ t.left["sendKeepalive"] = Off /\ t.owed = Off
      /\ \A r \in Timer \ {"sendKeepalive"} : t.left[r] = o.left[r]
      /\ t.persistent <=> o.persistent
      /\ t.sinceHandshake = o.sinceHandshake /\ t.unheard = o.unheard
  BY <1>b, <1>4, <1>5, <1>6, DelIs, SMTT(30)
<1>8. PICK f : f = [t EXCEPT !.staged = "none"]
  BY Zenon
<1>9. f \in PeerRecord
  BY <1>7, <1>8, FieldTypes, Zenon
<1>10. Alike(t, f)
  BY <1>7, <1>8, Zenon DEF PeerRecord, Alike
<1>11. u = IF ~IsPending(f, "zeroKeyMaterial") THEN Mod(f, "zeroKeyMaterial", 3 * ExpireTime) ELSE f
  BY <1>1, <1>2, <1>3, <1>6, <1>8, Zenon DEF expiredRetransmitHandshake, FlushStagedPackets, keychainExpireTime
<1>12. /\ f.running /\ f.owed = Off /\ f.left["sendKeepalive"] = Off /\ f.left["retransmitHandshake"] = Off
       /\ f.left["newHandshake"] = s.left["newHandshake"]
       /\ f.left["persistentKeepalive"] = s.left["persistentKeepalive"]
       /\ f.persistent <=> s.persistent
       /\ f.sinceHandshake = s.sinceHandshake /\ f.unheard = s.unheard
  BY <1>2, <1>5, <1>7, <1>10 DEF Alike, Timer
<1>13. /\ u \in PeerRecord /\ u.running /\ u.owed = Off
       /\ u.left["sendKeepalive"] = Off /\ u.left["retransmitHandshake"] = Off
       /\ u.left["newHandshake"] = s.left["newHandshake"]
       /\ u.left["persistentKeepalive"] = s.left["persistentKeepalive"]
       /\ u.persistent <=> s.persistent
       /\ u.sinceHandshake = s.sinceHandshake /\ u.unheard = s.unheard
       /\ IsPending(u, "zeroKeyMaterial")
  <2>1. CASE IsPending(f, "zeroKeyMaterial")
    BY <1>9, <1>11, <1>12, <2>1, Zenon
  <2>2. CASE ~IsPending(f, "zeroKeyMaterial")
    <3>1. u = Mod(f, "zeroKeyMaterial", 3 * ExpireTime) /\ 3 * ExpireTime \in Ticks /\ 3 * ExpireTime # Off
      BY <1>11, <2>2, TimesAssumption DEF Ticks, Off
    <3>2. /\ u \in PeerRecord /\ u.left["zeroKeyMaterial"] = 3 * ExpireTime
          /\ \A r \in Timer \ {"zeroKeyMaterial"} : u.left[r] = f.left[r]
          /\ u.running <=> f.running
          /\ u.persistent <=> f.persistent
          /\ u.sinceHandshake = f.sinceHandshake /\ u.owed = f.owed /\ u.unheard = f.unheard
      BY <1>c, <1>9, <3>1, ModFields
    <3>3. IsPending(u, "zeroKeyMaterial")
      BY <3>1, <3>2, Zenon DEF IsPending
    <3> QED BY <1>12, <3>2, <3>3, Zenon DEF Timer
  <2> QED BY <2>1, <2>2, Zenon
<1>14. Answering(u) /\ Persisting(u) /\ Resting(u, n)
  BY <1>13, Zenon DEF Sound, Rest, Answering, Persisting, Resting, Due, IsPending
<1>15. Bounded(u)
  BY <1>13, PickedInRange DEF Sound, Rest, Bounded, RetransmitBound, Off
<1>16. Keyed(u) /\ Forgetting(u, n)
  BY <1>13, Zenon DEF Keyed, Forgetting
<1>17. s.sinceHandshake \in Nat /\ s.left["newHandshake"] \in Nat \cup {Off} /\ s.handshakeAttempts \in Nat
  BY PickedInRange DEF PeerRecord, Ticks, Timer
<1>18. IsPending(s, "newHandshake") => Due(s, "newHandshake")
  BY <1>17, PickedInRange DEF Sound, Noticing, Due, IsPending, Off
<1>19. s.unheard # Off => Due(s, "newHandshake") /\ s.unheard + s.left["newHandshake"] <= NewHandshakeBound
  BY <1>17, TimesAssumption DEF Sound, Noticing, Due, IsPending, Off
<1>20. Noticing(u)
  BY <1>13, <1>18, <1>19, Zenon DEF Noticing, Due, IsPending
<1> QED BY <1>13, <1>14, <1>15, <1>16, <1>20, Zenon DEF Sound, Rest

\* A retransmission (expiredRetransmitHandshake): one that is held back was not needed.
LEMMA RetransmitSound ==
  ASSUME NEW s \in PeerRecord, NEW e \in Choice, NEW n \in Nat, s.running, Sound(s, n),
         s.left["retransmitHandshake"] = 0, ~(s.handshakeAttempts > MaxAttempts),
         NEW u, u = expiredRetransmitHandshake(Del(s, "retransmitHandshake"), e)
  PROVE  u \in PeerRecord /\ Sound(u, n)
<1> "retransmitHandshake" \in Timer
  BY Zenon DEF Timer
<1>1. PICK d : d = Del(s, "retransmitHandshake")
  BY Zenon
<1>2. /\ d \in PeerRecord /\ d.running /\ d.left["retransmitHandshake"] = Off
      /\ \A r \in Timer \ {"retransmitHandshake"} : d.left[r] = s.left[r]
      /\ d.persistent <=> s.persistent
      /\ d.initiated <=> s.initiated
      /\ d.sinceHandshake = s.sinceHandshake /\ d.unheard = s.unheard /\ d.owed = s.owed
      /\ d.current = s.current /\ d.next = s.next /\ d.handshakeAttempts = s.handshakeAttempts
  BY <1>1, DelIs
<1>3. PICK v : v = [d EXCEPT !.handshakeAttempts = @ + 1]
  BY Zenon
<1>4. v \in PeerRecord
  <2>1. d.handshakeAttempts + 1 \in Nat
    BY <1>2 DEF PeerRecord
  <2> QED BY <1>2, <1>3, <2>1, FieldTypes, Zenon
<1>5. /\ v.left = d.left /\ v.running
      /\ v.persistent <=> d.persistent
      /\ v.initiated <=> d.initiated
      /\ v.sinceHandshake = d.sinceHandshake /\ v.unheard = d.unheard /\ v.owed = d.owed
      /\ v.current = d.current /\ v.next = d.next
  BY <1>2, <1>3, Zenon DEF PeerRecord
<1>6. u = SendHandshakeInitiation(v, e, TRUE)
  BY <1>1, <1>2, <1>3, Zenon DEF expiredRetransmitHandshake
<1>7. \A r \in {"newHandshake", "persistentKeepalive", "zeroKeyMaterial", "sendKeepalive"} : v.left[r] = s.left[r]
  BY <1>2, <1>5, Zenon DEF Timer
<1>8. v.left["retransmitHandshake"] = Off
  BY <1>2, <1>5, Zenon
<1>9. Bounded(v)
  BY <1>7, <1>8, PickedInRange DEF Sound, Rest, Bounded, RetransmitBound, Off
<1>10. Keyed(v)
  BY <1>2, <1>5, <1>7, Zenon DEF Sound, Rest, Keyed, IsPending
<1>11. CASE v.sinceHandshake >= rekeyMinTimeout
  BY <1>4, <1>5, <1>6, <1>9, <1>10, <1>11, InitiationSound, Zenon
<1>12. CASE v.sinceHandshake < rekeyMinTimeout
  <2>1. u = v
    BY <1>4, <1>6, <1>12, RetryHeld, Zenon
  <2>2. ~Due(s, "retransmitHandshake")
    <3>1. s.sinceHandshake \in Nat /\ rekeyMinTimeout \in Nat
      BY PickedInRange DEF PeerRecord
    <3> QED BY <1>2, <1>5, <1>12, <3>1 DEF Due
  <2>3. Answering(v) /\ Persisting(v) /\ Resting(v, n)
    BY <1>2, <1>5, <1>7, ZenonT(60) DEF Sound, Rest, Answering, Persisting, Resting, Due, IsPending
  <2>4. Forgetting(v, n)
    BY <1>2, <1>5, <1>7, <2>2, Zenon DEF Sound, Rest, Forgetting, IsPending
  <2>5. Noticing(v)
    BY <1>2, <1>5, <1>7, <2>2, ZenonT(60) DEF Sound, Noticing, Due, IsPending
  <2> QED BY <1>4, <1>9, <1>10, <2>1, <2>3, <2>4, <2>5, Zenon DEF Sound, Rest
<1>13. v.sinceHandshake >= rekeyMinTimeout \/ v.sinceHandshake < rekeyMinTimeout
  BY <1>4, PickedInRange DEF PeerRecord
<1> QED BY <1>11, <1>12, <1>13, Zenon

-----------------------------------------------------------------------------
(* A peer that is stopped: what late handlers set still runs out             *)

\* A stopped peer has only to rest.
LEMMA RestingSound ==
  ASSUME NEW s, NEW n, ~s.running, Resting(s, n)
  PROVE  Sound(s, n)
BY Zenon DEF Sound, Rest, Answering, Persisting, Bounded, Noticing, Keyed, Forgetting

\* A stopped peer that sends an initiation writes no timer: the functions that say what happened
\* find the timers inactive (timersActive).
LEMMA StoppedInitiation ==
  ASSUME NEW s \in PeerRecord, NEW e \in Choice, NEW isRetry \in BOOLEAN, NEW n \in Nat,
         ~s.running, Resting(s, n), s.sinceHandshake >= rekeyMinTimeout,
         NEW u, u = SendHandshakeInitiation(s, e, isRetry)
  PROVE  u \in PeerRecord /\ ~u.running /\ u.sinceHandshake < s.sinceHandshake /\ Resting(u, n + 1)
<1> DEFINE r == IF isRetry THEN s ELSE [s EXCEPT !.handshakeAttempts = 0]
           sent == [r EXCEPT !.sinceHandshake = 0, !.initiated = TRUE, !.unheard = Off]
<1>1. r \in PeerRecord /\ r.left = s.left /\ ~r.running /\ r.owed = s.owed
      /\ r.current = s.current /\ r.next = s.next /\ r.sinceHandshake = s.sinceHandshake
  BY ZenonT(60) DEF PeerRecord
<1> HIDE DEF r
<1>2. sent \in PeerRecord
  <2>1. PICK x : x = [r EXCEPT !.sinceHandshake = 0]
    BY Zenon
  <2>2. PICK y : y = [x EXCEPT !.initiated = TRUE]
    BY Zenon
  <2>3. x \in PeerRecord
    BY <1>1, <2>1, FieldTypes, Values, Zenon
  <2>4. y \in PeerRecord
    BY <2>2, <2>3, FieldTypes, Zenon
  <2>5. sent = [y EXCEPT !.unheard = Off]
    BY <2>1, <2>2, Zenon
  <2> QED BY <2>4, <2>5, FieldTypes, Values, Zenon
<1>3. u = timersHandshakeInitiated(
            timersAnyAuthenticatedPacketSent(timersAnyAuthenticatedPacketTraversal(sent, e)), e)
  BY <1>1, PickedInRange DEF SendHandshakeInitiation, r, PeerRecord
<1>4. /\ ~sent.running /\ sent.sinceHandshake = 0 /\ sent.left = s.left /\ sent.owed = s.owed
      /\ sent.current = s.current /\ sent.next = s.next /\ sent.unheard = Off
  BY <1>1, Zenon DEF PeerRecord
<1> HIDE DEF sent
<1>5. PICK o : o = [sent EXCEPT !.owed = Off]
  BY Zenon
<1>6. o \in PeerRecord
  BY <1>2, <1>5, FieldTypes, Values, Zenon
<1>7. /\ ~o.running /\ o.sinceHandshake = 0 /\ o.left = s.left /\ o.owed = Off
      /\ o.current = s.current /\ o.next = s.next /\ o.unheard = Off
  BY <1>2, <1>4, <1>5, Zenon DEF PeerRecord
<1>8. u = o
  BY <1>3, <1>4, <1>5, <1>7, Zenon DEF timersHandshakeInitiated, timersAnyAuthenticatedPacketSent,
     timersAnyAuthenticatedPacketTraversal
<1>9. Resting(o, n + 1)
  BY <1>7 DEF Resting
<1>10. 0 < s.sinceHandshake
  BY PickedInRange DEF PeerRecord
<1> QED BY <1>6, <1>7, <1>8, <1>9, <1>10, Zenon

\* What a callback of a stopped peer may do: nothing that the invariant is about, or send one
\* initiation, which is counted as stray.
StillStopped(s, u, n) ==
  /\ u \in PeerRecord /\ ~u.running
  /\ \/ u.sinceHandshake = s.sinceHandshake /\ Resting(u, n)
     \/ u.sinceHandshake < s.sinceHandshake /\ Resting(u, n + 1)

\* An initiation by a stopped peer (SendHandshakeInitiation does not ask whether the peer runs).
LEMMA StoppedInitiates ==
  ASSUME NEW s \in PeerRecord, NEW e \in Choice, NEW n \in Nat, ~s.running, Resting(s, n)
  PROVE  /\ StillStopped(s, SendHandshakeInitiation(s, e, FALSE), n)
         /\ StillStopped(s, SendHandshakeInitiation(s, e, TRUE), n)
<1>1. s.sinceHandshake >= rekeyMinTimeout \/ s.sinceHandshake < rekeyMinTimeout
  BY PickedInRange DEF PeerRecord
<1>2. CASE s.sinceHandshake >= rekeyMinTimeout
  BY <1>2, StoppedInitiation, Zenon DEF StillStopped
<1>3. CASE s.sinceHandshake < rekeyMinTimeout
  <2>1. PICK u : u = SendHandshakeInitiation(s, e, FALSE)
    BY Zenon
  <2>2. u \in PeerRecord /\ Alike(s, u)
    BY <1>3, <2>1, InitiationHeld, Zenon
  <2>3. Resting(u, n) /\ ~u.running /\ u.sinceHandshake = s.sinceHandshake
    BY <2>2, SoundFrame, Zenon DEF Alike
  <2>4. SendHandshakeInitiation(s, e, TRUE) = s
    BY <1>3, RetryHeld, Zenon
  <2> QED BY <2>1, <2>2, <2>3, <2>4, Zenon DEF StillStopped
<1> QED BY <1>1, <1>2, <1>3, Zenon

\* A timer that runs out on a stopped peer.
LEMMA StoppedTimer ==
  ASSUME NEW s \in PeerRecord, NEW t \in Timer, NEW n \in Nat, ~s.running, Resting(s, n),
         NEW d, d = Del(s, t)
  PROVE  d \in PeerRecord /\ ~d.running /\ d.sinceHandshake = s.sinceHandshake /\ Resting(d, n)
<1>1. /\ d \in PeerRecord
      /\ d.left[t] = Off
      /\ \A r \in Timer \ {t} : d.left[r] = s.left[r]
      /\ d.running <=> s.running
      /\ d.initiated <=> s.initiated
      /\ d.sinceHandshake = s.sinceHandshake /\ d.owed = s.owed /\ d.unheard = s.unheard
      /\ d.current = s.current /\ d.next = s.next
  BY DelIs
<1>2. \A r \in Timer : d.left[r] <= rekeyMinTimeout
  BY <1>1, PickedInRange DEF Resting, Off
<1> QED BY <1>1, <1>2, Zenon DEF Resting

\* The callbacks of a stopped peer (timers.go): sending stops at the check of isRunning, an initiation
\* does not.
LEMMA StoppedCallbacks ==
  ASSUME NEW d \in PeerRecord, NEW e \in Choice, NEW n \in Nat, ~d.running, Resting(d, n)
  PROVE  /\ StillStopped(d, expiredRetransmitHandshake(d, e), n)
         /\ StillStopped(d, expiredSendKeepalive(d, e), n)
         /\ StillStopped(d, expiredNewHandshake(d, e), n)
         /\ StillStopped(d, expiredPersistentKeepalive(d, e), n)
<1>1. StillStopped(d, expiredNewHandshake(d, e), n)
  BY StoppedInitiates, Zenon DEF expiredNewHandshake
<1>2. SendKeepalive(d, e) = d
  BY Zenon DEF SendKeepalive, SendStagedPackets
<1>3. StillStopped(d, expiredPersistentKeepalive(d, e), n)
  BY <1>2, Zenon DEF expiredPersistentKeepalive, StillStopped
<1>4. StillStopped(d, expiredSendKeepalive(d, e), n)
  <2>1. PICK u : u = [d EXCEPT !.needAnotherKeepalive = FALSE]
    BY Zenon
  <2>2. u \in PeerRecord
    BY <2>1, FieldTypes, Zenon
  <2>3. Alike(d, u)
    BY <2>1, Zenon DEF PeerRecord, Alike
  <2>4. StillStopped(d, u, n)
    BY <2>2, <2>3, SoundFrame, Zenon DEF StillStopped, Alike
  <2> QED BY <1>2, <2>1, <2>4, Zenon DEF expiredSendKeepalive
<1>5. CASE d.handshakeAttempts > MaxAttempts
  <2>1. PICK u : u = [d EXCEPT !.staged = "none"]
    BY Zenon
  <2>2. u \in PeerRecord
    BY <2>1, FieldTypes, Zenon
  <2>3. Alike(d, u)
    BY <2>1, Zenon DEF PeerRecord, Alike
  <2>4. StillStopped(d, u, n)
    BY <2>2, <2>3, SoundFrame, Zenon DEF StillStopped, Alike
  <2>5. expiredRetransmitHandshake(d, e) = u
    BY <1>5, <2>1, Zenon DEF expiredRetransmitHandshake, FlushStagedPackets
  <2> QED BY <1>1, <1>3, <1>4, <2>4, <2>5, Zenon
<1>6. CASE ~(d.handshakeAttempts > MaxAttempts)
  <2>1. PICK z : z = [d EXCEPT !.handshakeAttempts = @ + 1]
    BY Zenon
  <2>2. z \in PeerRecord
    <3>1. d.handshakeAttempts + 1 \in Nat
      BY DEF PeerRecord
    <3> QED BY <2>1, <3>1, FieldTypes, Zenon
  <2>3. /\ z.left = d.left /\ ~z.running /\ z.sinceHandshake = d.sinceHandshake
        /\ z.owed = d.owed /\ z.unheard = d.unheard /\ z.current = d.current /\ z.next = d.next
        /\ z.initiated <=> d.initiated
    BY <2>1, Zenon DEF PeerRecord
  <2>4. Resting(z, n)
    BY <2>3, Zenon DEF Resting
  <2>5. StillStopped(z, SendHandshakeInitiation(z, e, TRUE), n)
    BY <2>2, <2>3, <2>4, StoppedInitiates, Zenon
  <2>6. expiredRetransmitHandshake(d, e) = SendHandshakeInitiation(z, e, TRUE)
    BY <1>6, <2>1, Zenon DEF expiredRetransmitHandshake
  <2>7. StillStopped(d, expiredRetransmitHandshake(d, e), n)
    BY <2>3, <2>5, <2>6, Zenon DEF StillStopped
  <2> QED BY <1>1, <1>3, <1>4, <2>7, Zenon
<1> QED BY <1>5, <1>6, Zenon

-----------------------------------------------------------------------------
(* Start, Stop and time                                                      *)

\* Time passes: a timer that runs down by a tick is met by a tick more since the last handshake
\* message, and by a tick more of what is owed.
LEMMA TickSound ==
  ASSUME NEW s \in PeerRecord, NEW n \in Nat, Sound(s, n), \A t \in Timer : s.left[t] # 0,
         NEW u, u = [s EXCEPT !.left = [t \in Timer |-> IF @[t] = Off THEN Off ELSE @[t] - 1],
                              !.sinceHandshake = IF @ < rekeyMinTimeout THEN @ + 1 ELSE @,
                              !.owed = Older(@), !.unheard = Older(@)]
  PROVE  u \in PeerRecord /\ Sound(u, n)
<1> DEFINE left == [t \in Timer |-> IF s.left[t] = Off THEN Off ELSE s.left[t] - 1]
           since == IF s.sinceHandshake < rekeyMinTimeout THEN s.sinceHandshake + 1 ELSE s.sinceHandshake
<1>1. s.left \in [Timer -> Ticks] /\ s.sinceHandshake \in 0 .. rekeyMinTimeout /\ s.owed \in Ticks /\ s.unheard \in Ticks
  BY Zenon DEF PeerRecord
<1>2. \A t \in Timer : s.left[t] \in Nat \cup {Off}
  BY <1>1, Zenon DEF Ticks
<1>3. left \in [Timer -> Ticks]
  <2>1. \A t \in Timer : (IF s.left[t] = Off THEN Off ELSE s.left[t] - 1) \in Ticks
    BY <1>2 DEF Ticks, Off
  <2> QED BY <2>1, Zenon
<1>4. since \in 0 .. rekeyMinTimeout
  BY <1>1, PickedInRange
<1>5. Older(s.owed) \in Ticks /\ Older(s.unheard) \in Ticks
  BY <1>1 DEF Ticks, Older
<1>6. \A t \in Timer : left[t] = IF s.left[t] = Off THEN Off ELSE s.left[t] - 1
  BY Zenon
<1>7. u = [s EXCEPT !.left = left, !.sinceHandshake = since, !.owed = Older(s.owed), !.unheard = Older(s.unheard)]
  BY Zenon DEF PeerRecord
<1> HIDE DEF left
<1>8. PICK a : a = [s EXCEPT !.left = left]
  BY Zenon
<1>9. PICK b : b = [a EXCEPT !.sinceHandshake = since]
  BY Zenon
<1>10. PICK c : c = [b EXCEPT !.owed = Older(s.owed)]
  BY Zenon
<1>11. u = [c EXCEPT !.unheard = Older(s.unheard)]
  BY <1>7, <1>8, <1>9, <1>10, Zenon
<1>12. a \in PeerRecord
  BY <1>3, <1>8, FieldTypes, Zenon
<1>13. b \in PeerRecord
  BY <1>4, <1>9, <1>12, FieldTypes, Zenon
<1>14. c \in PeerRecord
  BY <1>5, <1>10, <1>13, FieldTypes, Zenon
<1>15. u \in PeerRecord
  <2>1. \A v \in Ticks : [c EXCEPT !.unheard = v] \in PeerRecord
    BY <1>14, FieldTypes, Zenon
  <2> QED BY <1>5, <1>11, <2>1, ZenonT(60)
<1>16. /\ a.left = left /\ a.running = s.running /\ a.persistent = s.persistent /\ a.initiated = s.initiated
       /\ a.current = s.current /\ a.next = s.next /\ a.handshakeAttempts = s.handshakeAttempts
  BY <1>8, Zenon DEF PeerRecord
<1>17. /\ b.left = left /\ b.running = s.running /\ b.persistent = s.persistent /\ b.initiated = s.initiated
       /\ b.current = s.current /\ b.next = s.next /\ b.handshakeAttempts = s.handshakeAttempts
       /\ b.sinceHandshake = since
  BY <1>9, <1>12, <1>16, Zenon DEF PeerRecord
<1>18. /\ c.left = left /\ c.running = s.running /\ c.persistent = s.persistent /\ c.initiated = s.initiated
       /\ c.current = s.current /\ c.next = s.next /\ c.handshakeAttempts = s.handshakeAttempts
       /\ c.sinceHandshake = since /\ c.owed = Older(s.owed)
  BY <1>10, <1>13, <1>17, Zenon DEF PeerRecord
<1>19. /\ u.left = left /\ u.running = s.running /\ u.persistent = s.persistent /\ u.initiated = s.initiated
       /\ u.current = s.current /\ u.next = s.next /\ u.handshakeAttempts = s.handshakeAttempts
       /\ u.sinceHandshake = since /\ u.owed = Older(s.owed) /\ u.unheard = Older(s.unheard)
  BY <1>11, <1>14, <1>18, Zenon DEF PeerRecord
<1>20. \A t \in Timer : \/ s.left[t] = Off /\ u.left[t] = Off
                        \/ s.left[t] \in Nat \ {0} /\ u.left[t] \in Nat /\ u.left[t] = s.left[t] - 1
  BY <1>2, <1>6, <1>19 DEF Off
<1>21. \A t \in Timer : Due(s, t) => Due(u, t)
  BY <1>1, <1>19, <1>20, PickedInRange DEF Due, IsPending, Off
<1> DEFINE RunsDown(t) == /\ \/ s.left[t] = Off /\ u.left[t] = Off
                             \/ s.left[t] \in Nat \ {0} /\ u.left[t] \in Nat /\ u.left[t] = s.left[t] - 1
                          /\ Due(s, t) => Due(u, t)
<1>22. \A t \in Timer : RunsDown(t)
  BY <1>20, <1>21, Zenon
<1> HIDE DEF RunsDown
<1>a. RunsDown("sendKeepalive")
  BY <1>22, Zenon DEF Timer
<1>b. RunsDown("newHandshake")
  BY <1>22, Zenon DEF Timer
<1>c. RunsDown("retransmitHandshake")
  BY <1>22, Zenon DEF Timer
<1>d. RunsDown("persistentKeepalive")
  BY <1>22, Zenon DEF Timer
<1>e. RunsDown("zeroKeyMaterial")
  BY <1>22, Zenon DEF Timer
<1>23. /\ s.owed # Off => u.owed = s.owed + 1
       /\ s.owed = Off => u.owed = Off
       /\ s.unheard # Off => u.unheard = s.unheard + 1
       /\ s.unheard = Off => u.unheard = Off
  BY <1>19, Zenon DEF Older
<1>24. s.owed \in Nat \cup {Off} /\ s.unheard \in Nat \cup {Off} /\ s.handshakeAttempts \in Nat
  BY <1>1, Zenon DEF Ticks, PeerRecord
<1>25. Answering(u)
  BY <1>a, <1>19, <1>23, <1>24, PickedInRange DEF Sound, Rest, Answering, IsPending, Off, RunsDown
<1>26. Persisting(u)
  BY <1>d, <1>19, Zenon DEF Sound, Rest, Persisting, RunsDown
<1>27. \A t \in Timer : u.left[t] <= s.left[t]
  BY <1>20 DEF Off
<1>28. u.left["newHandshake"] \in Int /\ u.left["retransmitHandshake"] \in Int
  BY <1>b, <1>c DEF Off, RunsDown
<1>29. Bounded(u)
  BY <1>b, <1>c, <1>19, <1>28, PickedInRange DEF RunsDown, Sound, Rest, Bounded, NewHandshakeBound, RetransmitBound, Off
<1>30. Noticing(u)
  <2> SUFFICES ASSUME u.running  PROVE Noticing(u)
    BY Zenon DEF Noticing
  <2>1. /\ IsPending(s, "newHandshake") => Due(s, "newHandshake") \/ Due(s, "retransmitHandshake")
        /\ s.unheard # Off =>
             \/ Due(s, "newHandshake") /\ s.unheard + s.left["newHandshake"] <= NewHandshakeBound
             \/ /\ Due(s, "retransmitHandshake") /\ s.unheard + s.left["retransmitHandshake"] <= NewHandshakeBound
                /\ \/ s.handshakeAttempts <= MaxAttempts
                   \/ IsPending(s, "newHandshake") /\ s.left["newHandshake"] < s.left["retransmitHandshake"]
    BY <1>19, Zenon DEF Sound, Noticing
  <2>2. IsPending(u, "newHandshake") => Due(u, "newHandshake") \/ Due(u, "retransmitHandshake")
    BY <1>b, <1>c, <2>1 DEF IsPending, Off, RunsDown
  <2>3. Due(s, "newHandshake") /\ s.unheard # Off /\ s.unheard + s.left["newHandshake"] <= NewHandshakeBound =>
          Due(u, "newHandshake") /\ u.unheard + u.left["newHandshake"] <= NewHandshakeBound
    BY <1>b, <1>23, <1>24, PickedInRange DEF Due, IsPending, NewHandshakeBound, Off, RunsDown
  <2>4. Due(s, "retransmitHandshake") /\ s.unheard # Off /\ s.unheard + s.left["retransmitHandshake"] <= NewHandshakeBound =>
          Due(u, "retransmitHandshake") /\ u.unheard + u.left["retransmitHandshake"] <= NewHandshakeBound
    BY <1>c, <1>23, <1>24, PickedInRange DEF Due, IsPending, NewHandshakeBound, Off, RunsDown
  <2>5. Due(s, "retransmitHandshake") /\ IsPending(s, "newHandshake") /\ s.left["newHandshake"] < s.left["retransmitHandshake"] =>
          IsPending(u, "newHandshake") /\ u.left["newHandshake"] < u.left["retransmitHandshake"]
    BY <1>b, <1>c DEF Due, IsPending, Off, RunsDown
  <2>6. u.unheard # Off => s.unheard # Off
    BY <1>23, Zenon
  <2> QED BY <1>19, <2>1, <2>2, <2>3, <2>4, <2>5, <2>6, Zenon DEF Noticing
<1>31. Keyed(u) /\ Forgetting(u, n)
  BY <1>c, <1>e, <1>19 DEF Sound, Rest, Keyed, Forgetting, IsPending, Off, RunsDown
<1>32. Resting(u, n)
  <2>1. \A t \in Timer : u.left[t] \in Int /\ s.left[t] \in Int
    BY <1>20 DEF Off
  <2>2. ~u.running => \A t \in Timer : s.left[t] <= rekeyMinTimeout
    BY <1>19, Zenon DEF Sound, Rest, Resting
  <2>3. ~u.running => \A t \in Timer : u.left[t] <= rekeyMinTimeout
    BY <1>27, <2>1, <2>2, PickedInRange
  <2> QED BY <1>19, <1>23, <2>3, Zenon DEF Sound, Rest, Resting
<1> QED BY <1>15, <1>25, <1>26, <1>29, <1>30, <1>31, <1>32, Zenon DEF Sound, Rest

\* A peer that starts (Start, then the keepalive of upLocked): whatever stragglers left pending lies
\* within the timeouts, and a handshake may begin at once.
LEMMA StartedSound ==
  ASSUME NEW s \in PeerRecord, NEW e \in Choice, NEW n \in Nat, ~s.running, Resting(s, n),
         NEW u, u = Started(s, e)
  PROVE  u \in PeerRecord /\ Sound(u, n)
<1>1. PICK a : a = [s EXCEPT !.running = TRUE]
  BY Zenon
<1>2. PICK b : b = [a EXCEPT !.sinceHandshake = rekeyMinTimeout]
  BY Zenon
<1>3. PICK c : c = [b EXCEPT !.handshakeAttempts = 0]
  BY Zenon
<1>4. PICK d : d = [c EXCEPT !.sentLastMinuteHandshake = FALSE]
  BY Zenon
<1>5. PICK t : t = [d EXCEPT !.needAnotherKeepalive = FALSE]
  BY Zenon
<1>6. t = timersStart([s EXCEPT !.running = TRUE, !.sinceHandshake = rekeyMinTimeout])
  <2>1. b = [s EXCEPT !.running = TRUE, !.sinceHandshake = rekeyMinTimeout]
    BY <1>1, <1>2, Zenon
  <2> QED BY <2>1, <1>3, <1>4, <1>5, Zenon DEF timersStart
<1>7. a \in PeerRecord
  BY <1>1, FieldTypes, Zenon
<1>8. b \in PeerRecord
  BY <1>2, <1>7, FieldTypes, Values, Zenon
<1>9. c \in PeerRecord
  BY <1>3, <1>8, FieldTypes, Zenon
<1>10. d \in PeerRecord
  BY <1>4, <1>9, FieldTypes, Zenon
<1>11. t \in PeerRecord
  BY <1>5, <1>10, FieldTypes, Zenon
<1>12. /\ a.running
       /\ a.left = s.left /\ a.owed = s.owed /\ a.unheard = s.unheard /\ a.current = s.current /\ a.next = s.next
       /\ a.initiated <=> s.initiated
  BY <1>1, Zenon DEF PeerRecord
<1>13. /\ b.running /\ b.sinceHandshake = rekeyMinTimeout
       /\ b.left = s.left /\ b.owed = s.owed /\ b.unheard = s.unheard /\ b.current = s.current /\ b.next = s.next
       /\ b.initiated <=> s.initiated
  BY <1>2, <1>7, <1>12, Zenon DEF PeerRecord
<1>14. Alike(b, c)
  BY <1>3, <1>8, Zenon DEF PeerRecord, Alike
<1>15. Alike(c, d)
  BY <1>4, <1>9, Zenon DEF PeerRecord, Alike
<1>16. Alike(d, t)
  BY <1>5, <1>10, Zenon DEF PeerRecord, Alike
<1>17. /\ t.running /\ t.sinceHandshake = rekeyMinTimeout /\ t.left = s.left
       /\ t.owed = Off /\ t.unheard = Off /\ t.current = "none" /\ t.next = "none"
       /\ t.initiated => n > 0
       /\ \A r \in Timer : t.left[r] <= rekeyMinTimeout
  BY <1>13, <1>14, <1>15, <1>16 DEF Alike, Resting
<1>18. t.left["newHandshake"] \in Nat \cup {Off} /\ t.left["newHandshake"] <= rekeyMinTimeout
  BY <1>11, <1>17, Zenon DEF PeerRecord, Timer, Ticks
<1>19. t.left["retransmitHandshake"] \in Nat \cup {Off} /\ t.left["retransmitHandshake"] <= rekeyMinTimeout
  BY <1>11, <1>17, Zenon DEF PeerRecord, Timer, Ticks
<1>20. t.left["sendKeepalive"] \in Nat \cup {Off} /\ t.left["sendKeepalive"] <= rekeyMinTimeout
  BY <1>11, <1>17, Zenon DEF PeerRecord, Timer, Ticks
<1>21. Bounded(t)
  BY <1>18, <1>19, PickedInRange DEF Bounded, NewHandshakeBound, RetransmitBound, Off
<1>22. Noticing(t)
  BY <1>17, <1>18, PickedInRange, SMTT(30) DEF Noticing, Due, IsPending
<1>23. Keyed(t) /\ Forgetting(t, n)
  BY <1>17 DEF Keyed, Forgetting
<1>24. CASE t.persistent
  <2>1. u = SendKeepalive(t, e)
    BY <1>6, <1>24, Zenon DEF Started
  <2>2. t.sinceHandshake >= rekeyMinTimeout
    BY <1>17, PickedInRange
  <2> QED BY <1>11, <1>17, <1>21, <1>22, <1>23, <2>1, <2>2, KeepaliveSound, Zenon
<1>25. CASE ~t.persistent
  <2>1. u = t
    BY <1>6, <1>25, Zenon DEF Started
  <2>2. Answering(t)
    BY <1>17, <1>20, PickedInRange DEF Answering, Due, IsPending
  <2>3. Persisting(t) /\ Resting(t, n)
    BY <1>17, <1>25, Zenon DEF Persisting, Resting
  <2> QED BY <1>11, <1>21, <1>22, <1>23, <2>1, <2>2, <2>3, Zenon DEF Sound, Rest
<1> QED BY <1>24, <1>25, Zenon

\* A peer that stops: timersStop deletes the timers, ZeroAndFlushAll the keys.
LEMMA StopSound ==
  ASSUME NEW s \in PeerRecord, NEW n \in Nat,
         NEW u, u = ZeroAndFlushAll([s EXCEPT !.running = FALSE, !.left = NoTimers, !.owed = Off, !.unheard = Off])
  PROVE  u \in PeerRecord /\ Sound(u, n)
<1>1. PICK a : a = [s EXCEPT !.running = FALSE]
  BY Zenon
<1>2. PICK b : b = [a EXCEPT !.left = NoTimers]
  BY Zenon
<1>3. PICK c : c = [b EXCEPT !.owed = Off]
  BY Zenon
<1>4. PICK d : d = [c EXCEPT !.unheard = Off]
  BY Zenon
<1>5. u = ZeroAndFlushAll(d)
  BY <1>1, <1>2, <1>3, <1>4, Zenon
<1>6. NoTimers \in [Timer -> Ticks] /\ \A t \in Timer : NoTimers[t] = Off
  BY Values, Zenon DEF NoTimers
<1>7. a \in PeerRecord
  BY <1>1, FieldTypes, Zenon
<1>8. b \in PeerRecord
  BY <1>2, <1>6, <1>7, FieldTypes, Zenon
<1>9. c \in PeerRecord
  BY <1>3, <1>8, FieldTypes, Values, Zenon
<1>10. d \in PeerRecord
  BY <1>4, <1>9, FieldTypes, Values, Zenon
<1>11. ~a.running
  BY <1>1, Zenon DEF PeerRecord
<1>12. ~b.running /\ b.left = NoTimers
  BY <1>2, <1>7, <1>11, Zenon DEF PeerRecord
<1>13. ~c.running /\ c.left = NoTimers /\ c.owed = Off
  BY <1>3, <1>8, <1>12, Zenon DEF PeerRecord
<1>14. ~d.running /\ d.left = NoTimers /\ d.owed = Off /\ d.unheard = Off
  BY <1>4, <1>9, <1>13, Zenon DEF PeerRecord
<1>15. /\ u \in PeerRecord /\ u.left = d.left /\ (u.running <=> d.running) /\ ~u.initiated
       /\ u.owed = d.owed /\ u.unheard = d.unheard /\ u.current = "none" /\ u.next = "none"
  BY <1>5, <1>10, ZeroIs, Zenon
<1>16. Resting(u, n)
  BY <1>6, <1>14, <1>15, PickedInRange DEF Resting, Off
<1> QED BY <1>14, <1>15, <1>16, RestingSound, Zenon

\* A handler that a Stop overtook sets a timer (Mod after timersStop).
LEMMA LateModSound ==
  ASSUME NEW s \in PeerRecord, NEW t \in Timer, NEW n \in Nat, ~s.running, Resting(s, n),
         NEW u, u = Mod(s, t, rekeyMinTimeout)
  PROVE  u \in PeerRecord /\ Sound(u, n)
<1>1. rekeyMinTimeout \in Ticks
  BY PickedInRange, Zenon DEF Ticks
<1>2. /\ u \in PeerRecord
      /\ u.left[t] = rekeyMinTimeout
      /\ \A r \in Timer \ {t} : u.left[r] = s.left[r]
      /\ u.running <=> s.running
      /\ u.initiated <=> s.initiated
      /\ u.owed = s.owed /\ u.unheard = s.unheard
      /\ u.current = s.current /\ u.next = s.next
  BY <1>1, ModFields
<1>3. Resting(u, n)
  BY <1>2, PickedInRange, SMTT(30) DEF Resting
<1> QED BY <1>2, <1>3, RestingSound, Zenon

\* A keypair that may no longer send is a keypair still (its age, or its message limit).
LEMMA ExpireSound ==
  ASSUME NEW s \in PeerRecord, NEW n \in Nat, Sound(s, n), s.current = "live",
         NEW u, u = [s EXCEPT !.current = "spent"]
  PROVE  u \in PeerRecord /\ Sound(u, n)
<1>1. u \in PeerRecord
  BY FieldTypes, Values, Zenon
<1>2. /\ u.left = s.left /\ u.running = s.running /\ u.persistent = s.persistent /\ u.initiated = s.initiated
      /\ u.sinceHandshake = s.sinceHandshake /\ u.owed = s.owed /\ u.unheard = s.unheard
      /\ u.current = "spent" /\ u.next = s.next /\ u.handshakeAttempts = s.handshakeAttempts
  BY Zenon DEF PeerRecord
<1>3. Answering(u) /\ Persisting(u) /\ Bounded(u)
  BY <1>2, Zenon DEF Sound, Rest, Answering, Persisting, Bounded, Due, IsPending
<1>4. Noticing(u)
  BY <1>2, Zenon DEF Sound, Noticing, Due, IsPending
<1>5. Keyed(u) /\ Forgetting(u, n)
  BY <1>2, Zenon DEF Sound, Rest, Keyed, Forgetting, Due, IsPending
<1>6. Resting(u, n)
  BY <1>2, Zenon DEF Sound, Rest, Resting
<1> QED BY <1>1, <1>3, <1>4, <1>5, <1>6, Zenon DEF Sound, Rest

\* Peers begin anew under another private key (ExpireCurrentKeypairs): what is pending is not held back.
LEMMA ExpireAllSound ==
  ASSUME NEW s \in PeerRecord, NEW n \in Nat, Sound(s, n), s.running,
         NEW u, u = [s EXCEPT !.initiated = FALSE, !.sinceHandshake = rekeyMinTimeout,
                              !.current = Spent(@), !.next = Spent(@)]
  PROVE  u \in PeerRecord /\ Sound(u, n)
<1>1. PICK a : a = [s EXCEPT !.initiated = FALSE]
  BY Zenon
<1>2. PICK b : b = [a EXCEPT !.sinceHandshake = rekeyMinTimeout]
  BY Zenon
<1>3. PICK c : c = [b EXCEPT !.current = Spent(s.current)]
  BY Zenon
<1>4. u = [c EXCEPT !.next = Spent(s.next)]
  <2>1. u = [s EXCEPT !.initiated = FALSE, !.sinceHandshake = rekeyMinTimeout,
                      !.current = Spent(s.current), !.next = Spent(s.next)]
    BY Zenon DEF PeerRecord
  <2> QED BY <1>1, <1>2, <1>3, <2>1, Zenon
<1>5. /\ Spent(s.current) \in Key /\ (Spent(s.current) = "none" <=> s.current = "none")
      /\ Spent(s.next) \in Key /\ (Spent(s.next) = "none" <=> s.next = "none")
  BY Zenon DEF PeerRecord, Key, Spent
<1>6. a \in PeerRecord
  BY <1>1, FieldTypes, Zenon
<1>7. b \in PeerRecord
  BY <1>2, <1>6, FieldTypes, Values, Zenon
<1>8. c \in PeerRecord
  BY <1>3, <1>5, <1>7, FieldTypes, Zenon
<1>9. u \in PeerRecord
  BY <1>4, <1>5, <1>8, FieldTypes, ZenonT(60)
<1>10. /\ a.left = s.left /\ a.running = s.running /\ a.persistent = s.persistent /\ ~a.initiated
       /\ a.owed = s.owed /\ a.unheard = s.unheard /\ a.handshakeAttempts = s.handshakeAttempts
  BY <1>1, Zenon DEF PeerRecord
<1>11. /\ b.left = s.left /\ b.running = s.running /\ b.persistent = s.persistent /\ ~b.initiated
       /\ b.owed = s.owed /\ b.unheard = s.unheard /\ b.handshakeAttempts = s.handshakeAttempts
       /\ b.sinceHandshake = rekeyMinTimeout
  BY <1>2, <1>6, <1>10, Zenon DEF PeerRecord
<1>12. /\ c.left = s.left /\ c.running = s.running /\ c.persistent = s.persistent /\ ~c.initiated
       /\ c.owed = s.owed /\ c.unheard = s.unheard /\ c.handshakeAttempts = s.handshakeAttempts
       /\ c.sinceHandshake = rekeyMinTimeout /\ c.current = Spent(s.current)
  BY <1>3, <1>7, <1>11, Zenon DEF PeerRecord
<1>13. /\ u.left = s.left /\ u.running = s.running /\ u.persistent = s.persistent /\ ~u.initiated
       /\ u.owed = s.owed /\ u.unheard = s.unheard /\ u.handshakeAttempts = s.handshakeAttempts
       /\ u.sinceHandshake = rekeyMinTimeout /\ u.current = Spent(s.current) /\ u.next = Spent(s.next)
  BY <1>4, <1>8, <1>12, ZenonT(60) DEF PeerRecord
<1>14. \A t \in Timer : s.left[t] \in Nat \cup {Off}
  BY Zenon DEF PeerRecord, Ticks
<1>15. \A t \in Timer : IsPending(s, t) => Due(u, t)
  BY <1>13, <1>14, PickedInRange DEF Due, IsPending, Off
<1>16. IsPending(s, "sendKeepalive") => Due(u, "sendKeepalive")
  BY <1>15, Zenon DEF Timer
<1>17. IsPending(s, "persistentKeepalive") => Due(u, "persistentKeepalive")
  BY <1>15, Zenon DEF Timer
<1>18. IsPending(s, "newHandshake") => Due(u, "newHandshake")
  BY <1>15, Zenon DEF Timer
<1>19. IsPending(s, "retransmitHandshake") => Due(u, "retransmitHandshake")
  BY <1>15, Zenon DEF Timer
<1>20. Answering(u)
  BY <1>13, <1>16, Zenon DEF Sound, Rest, Answering, IsPending
<1>21. Persisting(u) /\ Bounded(u)
  BY <1>13, <1>17, Zenon DEF Sound, Rest, Persisting, Bounded, Due
<1>22. Noticing(u)
  BY <1>13, <1>18, <1>19, Zenon DEF Sound, Noticing, Due, IsPending
<1>23. Keyed(u) /\ Forgetting(u, n) /\ Resting(u, n)
  BY <1>5, <1>13, Zenon DEF Sound, Rest, Keyed, Forgetting, Resting, IsPending
<1> QED BY <1>9, <1>20, <1>21, <1>22, <1>23, Zenon DEF Sound, Rest

-----------------------------------------------------------------------------
(* The invariant                                                             *)

\* A packet received (RoutineSequentialReceiver), be it the one that confirms the next keypair or not.
LEMMA ReceivePacketSound ==
  ASSUME NEW e \in Choice, NEW isData \in BOOLEAN, TimersInv, ReceivePacket(e, isData)
  PROVE  peer' \in PeerRecord /\ stray' \in Nat /\ Sound(peer', stray')
<1>1. peer \in PeerRecord /\ stray \in Nat /\ Sound(peer, stray) /\ peer.running /\ stray' = stray
  BY Zenon DEF TimersInv, ReceivePacket
<1>2. Rest(peer, stray)
  BY <1>1, Zenon DEF Sound
<1>3. PICK confirms \in BOOLEAN :
        /\ IF confirms THEN peer.next # "none" ELSE peer.current # "none"
        /\ LET s == IF confirms
                    THEN SendStagedPackets(timersHandshakeComplete([peer EXCEPT !.current = peer.next, !.next = "none"]), e)
                    ELSE peer
               t == timersAnyAuthenticatedPacketReceived(
                      timersAnyAuthenticatedPacketTraversal(keepKeyFreshReceiving(s, e), e)) IN
           peer' = IF isData THEN timersDataReceived(t, e) ELSE t
  BY Zenon DEF ReceivePacket
<1>4. PICK h : h = timersHandshakeComplete([peer EXCEPT !.current = peer.next, !.next = "none"])
  BY Zenon
<1>5. PICK s : s = IF confirms THEN SendStagedPackets(h, e) ELSE peer
  BY Zenon
<1>6. PICK k : k = keepKeyFreshReceiving(s, e)
  BY Zenon
<1>7. PICK t : t = timersAnyAuthenticatedPacketReceived(timersAnyAuthenticatedPacketTraversal(k, e))
  BY Zenon
<1>8. s \in PeerRecord /\ s.running /\ Rest(s, stray)
  <2>1. CASE confirms
    <3>1. h \in PeerRecord /\ h.running /\ Rest(h, stray)
      BY <1>1, <1>2, <1>3, <1>4, <2>1, ConfirmKeeps, Zenon
    <3> QED BY <1>1, <1>5, <2>1, <3>1, StagedKeeps, Zenon
  <2>2. CASE ~confirms
    BY <1>1, <1>2, <1>5, <2>2, Zenon
  <2> QED BY <2>1, <2>2, Zenon
<1>9. k \in PeerRecord /\ k.running /\ Rest(k, stray)
  BY <1>1, <1>6, <1>8, KeepKeyFreshKeeps, Zenon
<1>10. t \in PeerRecord /\ t.running /\ Sound(t, stray)
  BY <1>1, <1>7, <1>9, ReceivedSound, Zenon
<1>11. peer' = IF isData THEN timersDataReceived(t, e) ELSE t
  BY <1>3, <1>4, <1>5, <1>6, <1>7, Zenon
<1>12. peer' \in PeerRecord /\ Sound(peer', stray)
  BY <1>1, <1>10, <1>11, DataReceivedSound, Zenon
<1> QED BY <1>1, <1>12, Zenon

\* A timer that runs out (NewTimer's function), on a running peer and on one that is stopped.
LEMMA FireSound ==
  ASSUME NEW t \in Timer, NEW e \in Choice, TimersInv, Fire(t, e)
  PROVE  peer' \in PeerRecord /\ stray' \in Nat /\ Sound(peer', stray')
<1>1. peer \in PeerRecord /\ stray \in Nat /\ Sound(peer, stray) /\ peer.left[t] = 0
  BY Zenon DEF TimersInv, Fire
<1>2. /\ t = "retransmitHandshake" => peer' = expiredRetransmitHandshake(Del(peer, t), e)
      /\ t = "sendKeepalive" => peer' = expiredSendKeepalive(Del(peer, t), e)
      /\ t = "newHandshake" => peer' = expiredNewHandshake(Del(peer, t), e)
      /\ t = "zeroKeyMaterial" => peer' = expiredZeroKeyMaterial(Del(peer, t))
      /\ t = "persistentKeepalive" => peer' = expiredPersistentKeepalive(Del(peer, t), e)
  BY Zenon DEF Fire
<1>3. stray' = IF ~peer.running /\ peer'.sinceHandshake < peer.sinceHandshake THEN stray + 1 ELSE stray
  BY Zenon DEF Fire
<1>4. CASE t = "zeroKeyMaterial"
  <2>1. peer' = expiredZeroKeyMaterial(Del(peer, "zeroKeyMaterial"))
    BY <1>2, <1>4, Zenon
  <2>2. peer' \in PeerRecord /\ Sound(peer', stray) /\ peer'.sinceHandshake = peer.sinceHandshake
    BY <1>1, <2>1, FireZeroKeyMaterial, Zenon
  <2>3. ~(peer'.sinceHandshake < peer.sinceHandshake)
    BY <1>1, <2>2 DEF PeerRecord
  <2> QED BY <1>1, <1>3, <2>2, <2>3, Zenon
<1>5. CASE t # "zeroKeyMaterial" /\ peer.running
  <2>1. CASE t = "retransmitHandshake"
    <3>1. peer' = expiredRetransmitHandshake(Del(peer, "retransmitHandshake"), e) /\ peer.left["retransmitHandshake"] = 0
      BY <1>1, <1>2, <2>1, Zenon
    <3>2. CASE peer.handshakeAttempts > MaxAttempts
      BY <1>1, <1>3, <1>5, <3>1, <3>2, GiveUpSound, Zenon
    <3>3. CASE ~(peer.handshakeAttempts > MaxAttempts)
      BY <1>1, <1>3, <1>5, <3>1, <3>3, RetransmitSound, Zenon
    <3> QED BY <3>2, <3>3, Zenon
  <2>2. CASE t = "sendKeepalive"
    <3>1. peer' = expiredSendKeepalive(Del(peer, "sendKeepalive"), e) /\ peer.left["sendKeepalive"] = 0
      BY <1>1, <1>2, <2>2, Zenon
    <3> QED BY <1>1, <1>3, <1>5, <3>1, FireSendKeepalive, Zenon
  <2>3. CASE t = "newHandshake"
    <3>1. peer' = expiredNewHandshake(Del(peer, "newHandshake"), e) /\ peer.left["newHandshake"] = 0
      BY <1>1, <1>2, <2>3, Zenon
    <3> QED BY <1>1, <1>3, <1>5, <3>1, FireNewHandshake, Zenon
  <2>4. CASE t = "persistentKeepalive"
    <3>1. peer' = expiredPersistentKeepalive(Del(peer, "persistentKeepalive"), e) /\ peer.left["persistentKeepalive"] = 0
      BY <1>1, <1>2, <2>4, Zenon
    <3> QED BY <1>1, <1>3, <1>5, <3>1, FirePersistentKeepalive, Zenon
  <2> QED BY <1>5, <2>1, <2>2, <2>3, <2>4, Zenon DEF Timer
<1>6. CASE t # "zeroKeyMaterial" /\ ~peer.running
  <2>1. PICK d : d = Del(peer, t)
    BY Zenon
  <2>2. d \in PeerRecord /\ ~d.running /\ d.sinceHandshake = peer.sinceHandshake /\ Resting(d, stray)
    BY <1>1, <1>6, <2>1, StoppedTimer, Zenon DEF Sound, Rest
  <2>3. StillStopped(d, peer', stray)
    <3>1. /\ StillStopped(d, expiredRetransmitHandshake(d, e), stray)
          /\ StillStopped(d, expiredSendKeepalive(d, e), stray)
          /\ StillStopped(d, expiredNewHandshake(d, e), stray)
          /\ StillStopped(d, expiredPersistentKeepalive(d, e), stray)
      BY <1>1, <2>2, StoppedCallbacks, Zenon
    <3> QED BY <1>2, <1>6, <2>1, <3>1, Zenon DEF Timer
  <2>4. peer' \in PeerRecord /\ ~peer'.running /\ stray' \in Nat /\ Resting(peer', stray')
    BY <1>1, <1>3, <1>6, <2>2, <2>3 DEF StillStopped, PeerRecord
  <2> QED BY <2>4, RestingSound, Zenon
<1> QED BY <1>4, <1>5, <1>6, Zenon

\* The first state: a peer that starts with nothing.
LEMMA TimersInit == Init => TimersInv
<1> SUFFICES ASSUME Init  PROVE peer \in PeerRecord /\ stray \in Nat /\ Sound(peer, stray)
  BY Zenon DEF TimersInv
<1>1. PICK persistent \in BOOLEAN, e \in Choice : peer = Started(NewPeer(persistent), e)
  BY Zenon DEF Init
<1>2. PICK s : s = NewPeer(persistent)
  BY Zenon
<1>3. NoTimers \in [Timer -> Ticks] /\ \A t \in Timer : NoTimers[t] = Off
  BY Values, Zenon DEF NoTimers
<1>4. s \in PeerRecord
  BY <1>2, <1>3, Values, Zenon DEF NewPeer, PeerRecord
<1>5. /\ ~s.running /\ ~s.initiated /\ s.left = NoTimers /\ s.owed = Off /\ s.unheard = Off
      /\ s.current = "none" /\ s.next = "none"
  BY <1>2, Zenon DEF NewPeer
<1>6. Resting(s, 0)
  BY <1>3, <1>5, PickedInRange DEF Resting, Off
<1>7. stray = 0
  BY Zenon DEF Init
<1> QED BY <1>1, <1>2, <1>4, <1>5, <1>6, <1>7, StartedSound, Zenon

\* Every step keeps the invariant.
LEMMA TimersNext == TimersInv /\ [Next]_vars => TimersInv'
<1> SUFFICES ASSUME TimersInv, [Next]_vars
             PROVE  peer' \in PeerRecord /\ stray' \in Nat /\ Sound(peer', stray')
  BY Zenon DEF TimersInv, Sound, Rest, Answering, Persisting, Bounded, Noticing, Keyed, Forgetting, Resting, Due, IsPending
<1>1. peer \in PeerRecord /\ stray \in Nat /\ Sound(peer, stray)
  BY Zenon DEF TimersInv
<1>2. ~peer.running => Resting(peer, stray)
  BY <1>1, Zenon DEF Sound, Rest
<1>3. ASSUME NEW e \in Choice, ReadFromTUN(e)  PROVE peer' \in PeerRecord /\ stray' \in Nat /\ Sound(peer', stray')
  BY <1>1, <1>3, ReadSound, Zenon DEF ReadFromTUN
<1>4. ASSUME NEW e \in Choice, ConsumeInitiation(e)  PROVE peer' \in PeerRecord /\ stray' \in Nat /\ Sound(peer', stray')
  BY <1>1, <1>4, ConsumeInitiationSound, Zenon DEF ConsumeInitiation
<1>5. ASSUME NEW e \in Choice, ConsumeResponse(e)  PROVE peer' \in PeerRecord /\ stray' \in Nat /\ Sound(peer', stray')
  BY <1>1, <1>5, ConsumeResponseSound, Zenon DEF ConsumeResponse
<1>6. ASSUME NEW e \in Choice, Start(e)  PROVE peer' \in PeerRecord /\ stray' \in Nat /\ Sound(peer', stray')
  BY <1>1, <1>2, <1>6, StartedSound, Zenon DEF Start
<1>7. ASSUME NEW e \in Choice, NEW isData \in BOOLEAN, ReceivePacket(e, isData)
      PROVE  peer' \in PeerRecord /\ stray' \in Nat /\ Sound(peer', stray')
  BY <1>7, ReceivePacketSound, Zenon
<1>8. ASSUME NEW e \in Choice, NEW t \in Timer, Fire(t, e)
      PROVE  peer' \in PeerRecord /\ stray' \in Nat /\ Sound(peer', stray')
  BY <1>8, FireSound, Zenon
<1>9. CASE Expire
  BY <1>1, <1>9, ExpireSound, Zenon DEF Expire
<1>10. CASE ExpireCurrentKeypairs
  BY <1>1, <1>10, ExpireAllSound, Zenon DEF ExpireCurrentKeypairs
<1>11. CASE Stop
  BY <1>1, <1>11, StopSound, Zenon DEF Stop
<1>12. CASE Tick
  BY <1>1, <1>12, TickSound, Zenon DEF Tick
<1>13. ASSUME NEW t \in Timer, LateMod(t)  PROVE peer' \in PeerRecord /\ stray' \in Nat /\ Sound(peer', stray')
  BY <1>1, <1>2, <1>13, LateModSound, Zenon DEF LateMod
<1>14. CASE UNCHANGED vars
  BY <1>1, <1>14, Zenon DEF vars
<1> QED BY <1>3, <1>4, <1>5, <1>6, <1>7, <1>8, <1>9, <1>10, <1>11, <1>12, <1>13, <1>14, Zenon DEF Next

\* The invariant holds throughout.
LEMMA TimersInvariant == Spec => []TimersInv
BY TimersInit, TimersNext, PTL DEF Spec

-----------------------------------------------------------------------------
(* What the timers promise                                                   *)

\* Data received is answered within the keepalive timeout, for every range of the timeouts in which no keepalive
\* timeout is shorter than the time initiations are held back (expiredSendKeepalive, SendHandshakeInitiation).
THEOREM DataIsAnswered == Spec => []DataAnswered
<1>1. TimersInv => DataAnswered
  <2> SUFFICES ASSUME TimersInv, KeepaliveOutlastsRekey, peer.running  PROVE peer.owed <= Max(Keepalive)
    BY Zenon DEF DataAnswered
  <2>1. Answering(peer) /\ peer.owed \in Nat \cup {Off} /\ peer.left["sendKeepalive"] \in Nat \cup {Off}
    BY Zenon DEF TimersInv, Sound, Rest, PeerRecord, Ticks, Timer
  <2> QED BY <2>1, PickedInRange DEF Answering, IsPending, Off
<1> QED BY <1>1, TimersInvariant, PTL

\* Silence after data sent is noticed within the keepalive and rekey timeouts and the jitter.
THEOREM SilenceIsNoticed == Spec => []SilenceNoticed
<1>1. TimersInv => SilenceNoticed
  <2> SUFFICES ASSUME TimersInv, peer.running  PROVE peer.unheard <= NewHandshakeBound
    BY Zenon DEF SilenceNoticed, NewHandshakeBound
  <2>1. /\ Noticing(peer) /\ peer.unheard \in Nat \cup {Off}
        /\ peer.left["newHandshake"] \in Nat \cup {Off} /\ peer.left["retransmitHandshake"] \in Nat \cup {Off}
    BY Zenon DEF TimersInv, Sound, PeerRecord, Ticks, Timer
  <2> QED BY <2>1, PickedInRange DEF Noticing, Due, IsPending, NewHandshakeBound, Off
<1> QED BY <1>1, TimersInvariant, PTL

\* A running peer with a persistent keepalive not shorter than the time initiations are held back has a timer that
\* makes it send (timersAnyAuthenticatedPacketTraversal).
THEOREM PeerKeepsTrying == Spec => []KeepsTrying
<1>1. TimersInv => KeepsTrying
  BY Zenon DEF TimersInv, Sound, Rest, Persisting, Due, KeepsTrying
<1> QED BY <1>1, TimersInvariant, PTL

\* A running peer that holds keys, or the state of a handshake, has a timer that leads to their removal.
THEOREM KeysAreRemoved == Spec => []KeysWillGo
<1>1. TimersInv => KeysWillGo
  BY Zenon DEF TimersInv, Sound, Rest, Keyed, Forgetting, Due, KeysWillGo
<1> QED BY <1>1, TimersInvariant, PTL
=============================================================================
