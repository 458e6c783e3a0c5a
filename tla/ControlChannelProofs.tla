------------------------ MODULE ControlChannelProofs ------------------------
(***************************************************************************)
(* KeysAgree, OncePerInitiation and FramesOpen hold of the control channel *)
(* for any endpoints, keys, connections and bounds.                        *)
(*                                                                         *)
(* ChannelInv is inductive.  Each connection is sound by itself (LinkInv): *)
(* what was sent on it, what the acceptor derived from it and what the     *)
(* dialer derived in turn fit together, whatever was put in its place on   *)
(* the way. The connections share the timestamps an endpoint has seen,     *)
(* which only grow: so a first message is accepted on one of them only.    *)
(***************************************************************************)
EXTENDS ControlChannel, TLAPS

-----------------------------------------------------------------------------
(* What the symbols are made of                                              *)

\* Append puts one element behind those of a sequence ...
LEMMA AppendDoes ==
  ASSUME NEW S, NEW s \in Seq(S), NEW x \in S
  PROVE  Append(s, x) \in Seq(S) /\ Len(Append(s, x)) = Len(s) + 1 /\ Append(s, x)[Len(s) + 1] = x
OBVIOUS

\* ... and keeps those in their places.
LEMMA AppendKeeps ==
  ASSUME NEW S, NEW s \in Seq(S), NEW x \in S, NEW i, i \in 1..Len(s)
  PROVE  Append(s, x)[i] = s[i]
OBVIOUS

\* The first of two elements appended ...
LEMMA FirstPart ==
  ASSUME NEW a, NEW b
  PROVE  Append(Append(<<>>, a), b)[1] = a
<1>1. a \in {a, b} /\ b \in {a, b}
  OBVIOUS
<1> QED
  BY <1>1

\* ... and the third of four.
LEMMA ThirdPart ==
  ASSUME NEW a, NEW b, NEW c, NEW d
  PROVE  Append(Append(Append(Append(<<>>, a), b), c), d)[3] = c
<1>1. PICK S : S = {a, b, c, d}
  BY Zenon
<1>2. a \in S /\ b \in S /\ c \in S /\ d \in S /\ <<>> \in Seq(S) /\ Len(<<>>) = 0
  BY <1>1
<1>3. PICK p : p = Append(<<>>, a)
  BY Zenon
<1>4. p \in Seq(S) /\ Len(p) = 1 /\ p[1] = a
  BY <1>2, <1>3
<1>5. PICK q : q = Append(p, b)
  BY Zenon
<1>6. q \in Seq(S) /\ Len(q) = 2
  <2>1. q \in Seq(S) /\ Len(q) = Len(p) + 1
    BY <1>2, <1>4, <1>5, AppendDoes, Zenon
  <2> QED
    BY <2>1, <1>4
<1>7. PICK r : r = Append(q, c)
  BY Zenon
<1>8. r \in Seq(S) /\ Len(r) = 3 /\ r[3] = c
  <2>1. r \in Seq(S) /\ Len(r) = Len(q) + 1 /\ r[Len(q) + 1] = c
    BY <1>2, <1>6, <1>7, AppendDoes, Zenon
  <2>2. Len(q) + 1 = 3
    BY <1>6
  <2> QED
    BY <2>1, <2>2, Zenon
<1>9. Append(r, d)[3] = c
  <2>1. PICK n : n = 3
    BY Zenon
  <2>2. n \in 1..Len(r)
    BY <1>8, <2>1
  <2>3. r \in Seq(S) /\ d \in S
    BY <1>2, <1>8, Zenon
  <2>4. Append(r, d)[n] = r[n]
    BY <2>2, <2>3, AppendKeeps, Zenon
  <2> QED
    BY <2>1, <2>4, <1>8, Zenon
<1> QED
  BY <1>3, <1>5, <1>7, <1>9, Zenon

\* Both sides hash the responder's static key first.
LEMMA StaticHash ==
  ASSUME NEW a, NEW e
  PROVE  InitiatorStatic(e, a).h = Append(Append(<<>>, a), e)
BY DEF InitiatorStatic, MixKey, MixHash, Initial

\* The same of the responder.
LEMMA ResponderHash ==
  ASSUME NEW a, NEW m
  PROVE  ResponderStatic(a, m).h = Append(Append(<<>>, a), m.e)
BY DEF ResponderStatic, MixKey, MixHash, Initial

\* A message 1 opens only at the endpoint whose static key it was sealed for.
LEMMA Addressee ==
  ASSUME NEW a, NEW m, NEW e, NEW x, ResponderStatic(a, m).h = InitiatorStatic(e, x).h
  PROVE  a = x
<1>1. PICK k : k = m.e
  BY Zenon
<1>2. ResponderStatic(a, m).h = Append(Append(<<>>, a), k)
  BY <1>1, ResponderHash, Zenon
<1>3. InitiatorStatic(e, x).h = Append(Append(<<>>, x), e)
  BY StaticHash, Zenon
<1>4. Append(Append(<<>>, a), k)[1] = a
  BY FirstPart
<1>5. Append(Append(<<>>, x), e)[1] = x
  BY FirstPart
<1> QED
  BY <1>2, <1>3, <1>4, <1>5, Zenon

\* The responder's chain key mixes the four results of Noise_IK.
LEMMA EndKey ==
  ASSUME NEW a, NEW m, NEW re
  PROVE  ResponderEnd(a, m, re).ck
           = Append(Append(Append(Append(<<>>, DH(a, m.e)), DH(a, m.static.plain)), DH(re, m.e)), DH(re, m.static.plain))
BY DEF ResponderEnd, ResponderStamp, ResponderStatic, MixKey, MixHash, Initial

\* The third is that of the two ephemerals.
LEMMA EphemeralsMixed ==
  ASSUME NEW a, NEW m, NEW re
  PROVE  ResponderEnd(a, m, re).ck[3] = DH(re, m.e)
<1>1. PICK es, ss, ee, se : es = DH(a, m.e) /\ ss = DH(a, m.static.plain) /\ ee = DH(re, m.e) /\ se = DH(re, m.static.plain)
  BY Zenon
<1>2. ResponderEnd(a, m, re).ck = Append(Append(Append(Append(<<>>, es), ss), ee), se)
  BY <1>1, EndKey, Zenon
<1>3. Append(Append(Append(Append(<<>>, es), ss), ee), se)[3] = ee
  BY ThirdPart
<1> QED
  BY <1>1, <1>2, <1>3, Zenon

\* What message 1 carries.
LEMMA Message1Has ==
  ASSUME NEW y, NEW x, NEW e, NEW ts
  PROVE  /\ Message1(y, x, e, ts).e = e /\ Message1(y, x, e, ts).stamp.plain = ts
         /\ Message1(y, x, e, ts).static.plain = y /\ Message1(y, x, e, ts).static.ad = InitiatorStatic(e, x).h
BY DEF Message1, Seal

\* The responder draws an ephemeral per connection, so connections have keys of their own.
LEMMA KeysDiffer ==
  ASSUME NEW at, NEW m, NEW c, NEW at2, NEW m2, NEW d,
         IsMessage1(m), IsMessage1(m2), SessionKey(at, m, c) = SessionKey(at2, m2, d)
  PROVE  c = d
<1>1. PICK y \in Static, x \in Endpoint, k \in Connection : m = Message1(Key(y), Key(x), EphemeralKey("i", k), m.stamp.plain)
  BY DEF IsMessage1
<1>2. PICK y2 \in Static, x2 \in Endpoint, k2 \in Connection :
        m2 = Message1(Key(y2), Key(x2), EphemeralKey("i", k2), m2.stamp.plain)
  BY DEF IsMessage1
<1>3. m.e = EphemeralKey("i", k) /\ m2.e = EphemeralKey("i", k2)
  BY <1>1, <1>2, Message1Has
<1>4. DH(EphemeralKey("r", c), m.e) = DH(EphemeralKey("r", d), m2.e)
  <2>1. ResponderEnd(Key(at), m, EphemeralKey("r", c)).ck[3] = DH(EphemeralKey("r", c), m.e)
    BY EphemeralsMixed
  <2>2. ResponderEnd(Key(at2), m2, EphemeralKey("r", d)).ck[3] = DH(EphemeralKey("r", d), m2.e)
    BY EphemeralsMixed
  <2> QED
    BY <2>1, <2>2, Zenon DEF SessionKey
<1>5. {EphemeralKey("r", c), EphemeralKey("i", k)} = {EphemeralKey("r", d), EphemeralKey("i", k2)}
  BY <1>3, <1>4 DEF DH
<1>6. EphemeralKey("r", c) # EphemeralKey("i", k2)
  BY DEF EphemeralKey
<1>7. EphemeralKey("r", c) = EphemeralKey("r", d)
  BY <1>5, <1>6
<1> QED
  BY <1>7 DEF EphemeralKey

-----------------------------------------------------------------------------
(* The parts of a connection                                                 *)

\* No other connection changes.
OnlyLink(c) ==
  /\ DOMAIN tcp' = Connection /\ DOMAIN dialer' = Connection
  /\ DOMAIN acceptor' = Connection /\ DOMAIN frames' = Connection
  /\ \A d \in Connection : d # c =>
       tcp'[d] = tcp[d] /\ dialer'[d] = dialer[d] /\ acceptor'[d] = acceptor[d] /\ frames'[d] = frames[d]

\* A step that keeps one connection sound, and accepts no message there, keeps the invariant.
LEMMA LinkKeeps ==
  ASSUME ChannelInv, NEW c \in Connection, OnlyLink(c), clock' \in Nat, lastSeen' = lastSeen, ~badFrame',
         LinkInv(c, tcp'[c], dialer'[c], acceptor'[c], frames'[c], lastSeen),
         acceptor'[c].pc \in {"reply", "open"} => acceptor[c].pc \in {"reply", "open"} /\ tcp'[c].msg1 = tcp[c].msg1
  PROVE  ChannelInv'
<1>1. ChannelType'
  BY Zenon DEF ChannelInv, ChannelType, OnlyLink
<1>2. \A d \in Connection : LinkInv(d, tcp'[d], dialer'[d], acceptor'[d], frames'[d], lastSeen')
  <2>1. SUFFICES ASSUME NEW d \in Connection, d # c
                 PROVE  LinkInv(d, tcp'[d], dialer'[d], acceptor'[d], frames'[d], lastSeen')
    BY Zenon
  <2>2. LinkInv(d, tcp[d], dialer[d], acceptor[d], frames[d], lastSeen)
    BY Zenon DEF ChannelInv
  <2>3. tcp'[d] = tcp[d] /\ dialer'[d] = dialer[d] /\ acceptor'[d] = acceptor[d] /\ frames'[d] = frames[d]
    BY <2>1, Zenon DEF OnlyLink
  <2> QED
    BY <2>2, <2>3, Zenon
<1>3. \A d \in Connection : acceptor'[d].pc \in {"reply", "open"} =>
        acceptor[d].pc \in {"reply", "open"} /\ tcp'[d].msg1 = tcp[d].msg1
  BY Zenon DEF OnlyLink
<1>4. OncePerInitiation'
  <2>1. SUFFICES ASSUME NEW d \in Connection, NEW e \in Connection, d # e,
                        acceptor'[d].pc \in {"reply", "open"}, acceptor'[e].pc \in {"reply", "open"}
                 PROVE  tcp'[d].msg1 # tcp'[e].msg1
    BY Zenon DEF OncePerInitiation
  <2>2. acceptor[d].pc \in {"reply", "open"} /\ tcp'[d].msg1 = tcp[d].msg1
    BY <1>3, <2>1, Zenon
  <2>3. acceptor[e].pc \in {"reply", "open"} /\ tcp'[e].msg1 = tcp[e].msg1
    BY <1>3, <2>1, Zenon
  <2>4. tcp[d].msg1 # tcp[e].msg1
    BY <2>1, <2>2, <2>3 DEF ChannelInv, OncePerInitiation
  <2> QED
    BY <2>2, <2>3, <2>4, Zenon
<1> QED
  BY <1>1, <1>2, <1>4, Zenon DEF ChannelInv

\* The streams that nothing was sent on are alike.
LEMMA EmptyStream ==
  ASSUME NEW k, NEW l
  PROVE  Stream(k, 0) = Stream(l, 0)
BY DEF Stream

\* A frame more, under the next counter.
LEMMA StreamGrows ==
  ASSUME NEW k, NEW n \in Nat
  PROVE  /\ Append(Stream(k, n), [key |-> k, ctr |-> n]) = Stream(k, n + 1)
         /\ Len(Stream(k, n)) = n
<1>1. PICK S : S = {[key |-> k, ctr |-> j] : j \in Nat}
  BY Zenon
<1>2. Stream(k, n) \in Seq(S) /\ Len(Stream(k, n)) = n
  BY <1>1 DEF Stream
<1>3. [key |-> k, ctr |-> n] \in S
  BY <1>1
<1>4. PICK e : e = [key |-> k, ctr |-> n]
  BY Zenon
<1>5. PICK s : s = Stream(k, n)
  BY Zenon
<1>6. Append(s, e) \in Seq(S) /\ Len(Append(s, e)) = n + 1 /\ Append(s, e)[n + 1] = e
  BY <1>2, <1>3, <1>4, <1>5, AppendDoes
<1>7. \A i \in 1..n : Append(s, e)[i] = s[i]
  BY <1>2, <1>3, <1>4, <1>5, AppendKeeps
<1>8. \A i \in 1..(n + 1) : Append(s, e)[i] = Stream(k, n + 1)[i]
  BY <1>4, <1>5, <1>6, <1>7 DEF Stream
<1>9. Append(s, e) = Stream(k, n + 1)
  <2>1. PICK q : q = Append(s, e)
    BY Zenon
  <2>2. q \in [1..(n + 1) -> S]
    <3>1. q \in Seq(S) /\ Len(q) = n + 1
      BY <2>1, <1>6, Zenon
    <3>2. q \in [1..Len(q) -> S]
      BY <3>1
    <3> QED
      BY <3>1, <3>2, Zenon
  <2>3. Stream(k, n + 1) \in [1..(n + 1) -> S]
    BY <1>1 DEF Stream
  <2>4. \A i \in 1..(n + 1) : q[i] = Stream(k, n + 1)[i]
    BY <2>1, <1>8, Zenon
  <2> QED
    BY <2>1, <2>2, <2>3, <2>4
<1> QED
  BY <1>2, <1>4, <1>5, <1>9, Zenon

\* A connection that breaks changes in nothing else that the invariant is about.
LEMMA BreakKeeps ==
  ASSUME NEW c, NEW t, NEW dl, NEW ac, NEW fr, NEW seen, LinkInv(c, t, dl, ac, fr, seen), NEW u,
         u = [at |-> t.at, broken |-> TRUE, msg1 |-> t.msg1, msg2 |-> t.msg2]
  PROVE  LinkInv(c, u, dl, ac, fr, seen)
<1>1. /\ u = [at |-> u.at, broken |-> u.broken, msg1 |-> u.msg1, msg2 |-> u.msg2]
      /\ u.at = t.at /\ u.msg1 = t.msg1 /\ u.msg2 = t.msg2
  OBVIOUS
<1>2. LinkType(u, dl, ac, fr)
  BY <1>1, Zenon DEF LinkInv, LinkType
<1>3. \A end : KeyOf(end, u, c) = KeyOf(end, t, c)
  BY <1>1, Zenon DEF KeyOf
<1>4. EndOK(dl, "dialer", u, c, fr.dialer) /\ EndOK(ac, "acceptor", u, c, fr.acceptor)
  BY <1>3, Zenon DEF LinkInv, EndOK, ConnOK
<1>5. Passed(t, seen) => Passed(u, seen)
  BY <1>1, Zenon DEF Passed
<1>6. HandshakeSound(c, u, dl, ac, seen)
  BY <1>1, <1>5, Zenon DEF LinkInv, HandshakeSound
<1> QED
  BY <1>2, <1>4, <1>6, Zenon DEF LinkInv

\* An end that fails says no more of its connection.
LEMMA DialerFails ==
  ASSUME NEW c, NEW t, NEW dl, NEW ac, NEW fr, NEW seen, LinkInv(c, t, dl, ac, fr, seen), NEW e,
         e.pc = "failed", t.at # None
  PROVE  LinkInv(c, t, e, ac, fr, seen)
<1>1. "failed" \notin {"off", "reply"} /\ "failed" # "open" /\ "failed" # "reply"
  OBVIOUS
<1>2. EndOK(e, "dialer", t, c, fr.dialer)
  BY <1>1, Zenon DEF LinkInv, EndOK
<1>3. HandshakeSound(c, t, e, ac, seen)
  BY <1>1, Zenon DEF LinkInv, HandshakeSound
<1> QED
  BY <1>2, <1>3, Zenon DEF LinkInv, LinkType

\* The same of the other end.
LEMMA AcceptorFails ==
  ASSUME NEW c, NEW t, NEW dl, NEW ac, NEW fr, NEW seen, LinkInv(c, t, dl, ac, fr, seen), NEW e,
         e.pc = "failed", t.at # None
  PROVE  LinkInv(c, t, dl, e, fr, seen)
<1>1. "failed" \notin {"off", "reply"} /\ "failed" # "open" /\ "failed" \notin {"reply", "open"} /\ "failed" \in {"open", "failed"}
  OBVIOUS
<1>2. EndOK(e, "acceptor", t, c, fr.acceptor)
  BY <1>1, Zenon DEF LinkInv, EndOK
<1>3. HandshakeSound(c, t, dl, e, seen)
  BY <1>1, Zenon DEF LinkInv, HandshakeSound
<1> QED
  BY <1>2, <1>3, Zenon DEF LinkInv, LinkType

-----------------------------------------------------------------------------
(* The steps                                                                 *)

\* A connection that is opened, by Dial or with a message 1 of before, begins with that message and nothing sent.
LEMMA Opened ==
  ASSUME ChannelInv, NEW c \in Connection, tcp[c].at = None, NEW at \in Endpoint, NEW m, IsMessage1(m), NEW dl,
         \/ dl.pc = "off"
         \/ dl.pc = "reply" /\ m.static.ad = InitiatorStatic(EphemeralKey("i", c), Key(dl.to)).h
  PROVE  LinkInv(c, [at |-> at, broken |-> tcp[c].broken, msg1 |-> m, msg2 |-> tcp[c].msg2],
                 dl, acceptor[c], frames[c], lastSeen)
<1>1. PICK t : t = [at |-> at, broken |-> tcp[c].broken, msg1 |-> m, msg2 |-> tcp[c].msg2]
  BY Zenon
<1>2. /\ t = [at |-> t.at, broken |-> t.broken, msg1 |-> t.msg1, msg2 |-> t.msg2]
      /\ t.at = at /\ t.msg1 = m /\ t.msg2 = tcp[c].msg2
  BY <1>1
<1>3. LinkInv(c, tcp[c], dialer[c], acceptor[c], frames[c], lastSeen)
  BY Zenon DEF ChannelInv
<1>4. /\ acceptor[c].pc = "off" /\ dialer[c].pc = "off" /\ tcp[c].msg2 = None
      /\ frames[c] = [dialer |-> frames[c].dialer, acceptor |-> frames[c].acceptor]
  BY <1>3, Zenon DEF LinkInv, LinkType
<1>5. at # None
  BY ChannelAssumption, Zenon
<1>6. LinkType(t, dl, acceptor[c], frames[c])
  BY <1>2, <1>4, <1>5, Zenon DEF LinkType
<1>7. \A end \in {"dialer", "acceptor"} :
        Len(frames[c][end]) = 0 /\ frames[c][end] = Stream(KeyOf(end, t, c), Len(frames[c][end]))
  <2>1. Len(frames[c].dialer) = 0 /\ frames[c].dialer = Stream(KeyOf("dialer", tcp[c], c), 0)
    BY <1>3, <1>4 DEF LinkInv, EndOK
  <2>2. Len(frames[c].acceptor) = 0 /\ frames[c].acceptor = Stream(KeyOf("acceptor", tcp[c], c), 0)
    BY <1>3, <1>4 DEF LinkInv, EndOK
  <2>3. \A k, l : Stream(k, 0) = Stream(l, 0)
    BY EmptyStream, Zenon
  <2> QED
    BY <2>1, <2>2, <2>3, Zenon
<1>8. EndOK(dl, "dialer", t, c, frames[c].dialer) /\ EndOK(acceptor[c], "acceptor", t, c, frames[c].acceptor)
  BY <1>4, <1>7 DEF EndOK
<1>9. HandshakeSound(c, t, dl, acceptor[c], lastSeen)
  BY <1>2, <1>4 DEF HandshakeSound
<1> QED
  BY <1>1, <1>6, <1>8, <1>9, Zenon DEF LinkInv

\* y dials.
LEMMA DialKeeps ==
  ASSUME ChannelInv, NEW c \in Connection, NEW y \in Static, NEW x \in Endpoint, NEW at \in Endpoint, Dial(c, y, x, at)
  PROVE  ChannelInv'
<1>1. PICK m : m = Message1(Key(y), Key(x), EphemeralKey("i", c), clock)
  BY Zenon
<1>2. PICK dl : dl = [pc |-> "reply", from |-> y, to |-> x, ts |-> clock]
  BY Zenon
<1>3. LinkInv(c, tcp[c], dialer[c], acceptor[c], frames[c], lastSeen) /\ ChannelType /\ ~badFrame
  BY Zenon DEF ChannelInv
<1>4. tcp[c] = [at |-> tcp[c].at, broken |-> tcp[c].broken, msg1 |-> tcp[c].msg1, msg2 |-> tcp[c].msg2]
  BY <1>3, Zenon DEF LinkInv, LinkType
<1>5. /\ tcp[c].at = None /\ clock' = clock + 1
      /\ tcp' = [tcp EXCEPT ![c].at = at, ![c].msg1 = m] /\ dialer' = [dialer EXCEPT ![c] = dl]
      /\ UNCHANGED <<acceptor, lastSeen, frames, badFrame>>
  BY <1>1, <1>2, Zenon DEF Dial, Unused
<1>6. tcp'[c] = [at |-> at, broken |-> tcp[c].broken, msg1 |-> m, msg2 |-> tcp[c].msg2]
  BY <1>3, <1>4, <1>5, Zenon DEF ChannelType
<1>7. OnlyLink(c) /\ dialer'[c] = dl
  BY <1>3, <1>5 DEF ChannelType, OnlyLink
<1>8. m.static.ad = InitiatorStatic(EphemeralKey("i", c), Key(x)).h /\ m.stamp.plain = clock
  BY <1>1, Message1Has
<1>9. clock \in Nat /\ clock' \in Nat
  BY <1>3, <1>5 DEF ChannelType
<1>10. IsMessage1(m)
  BY <1>1, <1>8, <1>9, Zenon DEF IsMessage1
<1>11. dl.pc = "reply" /\ dl.to = x
  BY <1>2
<1>12. LinkInv(c, tcp'[c], dialer'[c], acceptor'[c], frames'[c], lastSeen)
  BY <1>5, <1>6, <1>7, <1>8, <1>10, <1>11, Opened, Zenon
<1>13. acceptor[c].pc = "off"
  BY <1>3, <1>5, Zenon DEF LinkInv, LinkType
<1> QED
  BY <1>3, <1>5, <1>7, <1>9, <1>12, <1>13, LinkKeeps, Zenon

\* A message 1 comes again.
LEMMA RepeatKeeps ==
  ASSUME ChannelInv, NEW c \in Connection, NEW d \in Connection, Repeat(c, d)
  PROVE  ChannelInv'
<1>1. \A l \in Connection : LinkInv(l, tcp[l], dialer[l], acceptor[l], frames[l], lastSeen)
  BY Zenon DEF ChannelInv
<1>2. ChannelType /\ ~badFrame
  BY Zenon DEF ChannelInv
<1>3. tcp[c] = [at |-> tcp[c].at, broken |-> tcp[c].broken, msg1 |-> tcp[c].msg1, msg2 |-> tcp[c].msg2]
  BY <1>1, Zenon DEF LinkInv, LinkType
<1>4. /\ tcp[c].at = None /\ tcp[d].msg1 # None
      /\ tcp' = [tcp EXCEPT ![c].at = tcp[d].at, ![c].msg1 = tcp[d].msg1]
      /\ UNCHANGED <<clock, dialer, acceptor, lastSeen, frames, badFrame>>
  BY Zenon DEF Repeat, Unused
<1>5. tcp[d].at \in Endpoint /\ IsMessage1(tcp[d].msg1)
  BY <1>1, <1>4, Zenon DEF LinkInv, LinkType
<1>6. tcp'[c] = [at |-> tcp[d].at, broken |-> tcp[c].broken, msg1 |-> tcp[d].msg1, msg2 |-> tcp[c].msg2]
  BY <1>2, <1>3, <1>4, Zenon DEF ChannelType
<1>7. OnlyLink(c)
  BY <1>2, <1>4 DEF ChannelType, OnlyLink
<1>8. acceptor[c].pc = "off" /\ dialer[c].pc = "off"
  BY <1>1, <1>4, Zenon DEF LinkInv, LinkType
<1>9. LinkInv(c, tcp'[c], dialer'[c], acceptor'[c], frames'[c], lastSeen)
  BY <1>4, <1>5, <1>6, <1>8, Opened, Zenon
<1> QED
  BY <1>2, <1>4, <1>7, <1>8, <1>9, LinkKeeps DEF ChannelType

\* The clock is set back.
LEMMA ClockBackKeeps ==
  ASSUME ChannelInv, ClockBack
  PROVE  ChannelInv'
<1>1. clock > 1 /\ clock' = clock - 1 /\ UNCHANGED <<tcp, dialer, acceptor, lastSeen, frames, badFrame>>
  BY Zenon DEF ClockBack
<1>2. clock' \in Nat
  BY <1>1 DEF ChannelInv, ChannelType
<1>3. ChannelType'
  BY <1>1, <1>2, Zenon DEF ChannelInv, ChannelType
<1>4. OncePerInitiation'
  BY <1>1, Zenon DEF ChannelInv, OncePerInitiation
<1> QED
  BY <1>1, <1>3, <1>4, Zenon DEF ChannelInv

\* A connection breaks.
LEMMA BreakTCPKeeps ==
  ASSUME ChannelInv, NEW c \in Connection, BreakTCP(c)
  PROVE  ChannelInv'
<1>1. LinkInv(c, tcp[c], dialer[c], acceptor[c], frames[c], lastSeen) /\ ChannelType /\ ~badFrame
  BY Zenon DEF ChannelInv
<1>2. tcp[c] = [at |-> tcp[c].at, broken |-> tcp[c].broken, msg1 |-> tcp[c].msg1, msg2 |-> tcp[c].msg2]
  BY <1>1, Zenon DEF LinkInv, LinkType
<1>3. tcp' = [tcp EXCEPT ![c].broken = TRUE] /\ UNCHANGED <<clock, dialer, acceptor, lastSeen, frames, badFrame>>
  BY Zenon DEF BreakTCP
<1>4. tcp'[c] = [at |-> tcp[c].at, broken |-> TRUE, msg1 |-> tcp[c].msg1, msg2 |-> tcp[c].msg2]
  BY <1>1, <1>2, <1>3, Zenon DEF ChannelType
<1>5. OnlyLink(c)
  BY <1>1, <1>3 DEF ChannelType, OnlyLink
<1>6. LinkInv(c, tcp'[c], dialer'[c], acceptor'[c], frames'[c], lastSeen)
  BY <1>1, <1>3, <1>4, BreakKeeps, Zenon
<1>7. tcp'[c].msg1 = tcp[c].msg1
  BY <1>4
<1> QED
  BY <1>1, <1>3, <1>5, <1>6, <1>7, LinkKeeps, Zenon DEF ChannelType

\* A message 1 names a Y.
LEMMA NamesY ==
  ASSUME NEW m, IsMessage1(m)
  PROVE  m.stamp.plain \in Nat /\ m.static.plain[2] \in Static /\ m.static.plain = Key(m.static.plain[2])
<1>1. PICK y \in Static, x \in Endpoint, k \in Connection : m = Message1(Key(y), Key(x), EphemeralKey("i", k), m.stamp.plain)
  BY Zenon DEF IsMessage1
<1>2. m.static.plain = Key(y)
  BY <1>1, Message1Has
<1>3. Key(y)[2] = y
  BY DEF Key
<1> QED
  BY <1>2, <1>3 DEF IsMessage1

\* It opens at one endpoint only.
LEMMA OneEndpoint ==
  ASSUME NEW m, IsMessage1(m), NEW a, NEW b,
         m.static.ad = ResponderStatic(Key(a), m).h, m.static.ad = ResponderStatic(Key(b), m).h
  PROVE  a = b
<1>1. PICK y \in Static, x \in Endpoint, k \in Connection : m = Message1(Key(y), Key(x), EphemeralKey("i", k), m.stamp.plain)
  BY Zenon DEF IsMessage1
<1>2. m.static.ad = InitiatorStatic(EphemeralKey("i", k), Key(x)).h
  BY <1>1, Message1Has
<1>3. Key(a) = Key(x) /\ Key(b) = Key(x)
  BY <1>2, Addressee, Zenon
<1> QED
  BY <1>3 DEF Key

\* The timestamps of one lastSeen are no later than those of another.
NoLater(seen, after) == \A x \in Endpoint, y \in Static : seen[x][y] <= after[x][y]

\* A timestamp is later than the one seen of that Y at that endpoint.
IsLater(ts, seen, x, y) == ts > seen[x][y]

\* lastSeen only grows, so what has passed has still passed.
LEMMA SeenGrows ==
  ASSUME NEW c, NEW t, NEW dl, NEW ac, NEW fr, NEW seen \in [Endpoint -> [Static -> Nat]],
         NEW after \in [Endpoint -> [Static -> Nat]], NoLater(seen, after),
         LinkInv(c, t, dl, ac, fr, seen)
  PROVE  LinkInv(c, t, dl, ac, fr, after)
<1>1. Passed(t, seen) => Passed(t, after)
  <2>1. SUFFICES ASSUME Passed(t, seen) PROVE Passed(t, after)
    OBVIOUS
  <2>2. t.msg1 # None /\ t.at \in Endpoint /\ IsMessage1(t.msg1)
    BY <2>1, Zenon DEF Passed, LinkInv, LinkType
  <2>3. PICK ts, x, y : ts = t.msg1.stamp.plain /\ x = t.at /\ y = t.msg1.static.plain[2]
    BY Zenon
  <2>4. ts \in Nat /\ x \in Endpoint /\ y \in Static
    BY <2>2, <2>3, NamesY, Zenon
  <2>5. ts <= seen[x][y]
    BY <2>1, <2>3, Zenon DEF Passed
  <2>6. ts <= after[x][y]
    BY <2>4, <2>5 DEF NoLater
  <2> QED
    BY <2>1, <2>3, <2>6, Zenon DEF Passed
<1> QED
  BY <1>1, Zenon DEF LinkInv, HandshakeSound

\* What storing a later timestamp does to lastSeen.
StampIs(seen, x, y, ts, after) ==
  after \in [Endpoint -> [Static -> Nat]] /\ NoLater(seen, after) /\ ts <= after[x][y] /\ ~(ts <= seen[x][y])

\* Storing a later timestamp in lastSeen.
LEMMA StampStored ==
  ASSUME NEW seen \in [Endpoint -> [Static -> Nat]], NEW x \in Endpoint, NEW y \in Static,
         NEW ts \in Nat, IsLater(ts, seen, x, y)
  PROVE  StampIs(seen, x, y, ts, [seen EXCEPT ![x][y] = ts])
BY DEF IsLater, NoLater, StampIs

\* Accept lets a message pass, and stores its timestamp.
LEMMA AcceptPasses ==
  ASSUME ChannelInv, NEW c \in Connection, NEW y, y = tcp[c].msg1.static.plain[2],
         acceptor[c].pc = "off", tcp[c].msg1 # None,
         tcp[c].msg1.static.ad = ResponderStatic(Key(tcp[c].at), tcp[c].msg1).h,
         IsLater(tcp[c].msg1.stamp.plain, lastSeen, tcp[c].at, y),
         lastSeen' = [lastSeen EXCEPT ![tcp[c].at][y] = tcp[c].msg1.stamp.plain],
         acceptor' = [acceptor EXCEPT ![c] = [pc |-> "reply", remote |-> y]],
         UNCHANGED <<clock, tcp, dialer, frames, badFrame>>
  PROVE  ChannelInv'
<1>1. PICK x, m, ts, ac : x = tcp[c].at /\ m = tcp[c].msg1 /\ ts = m.stamp.plain /\ ac = [pc |-> "reply", remote |-> y]
  BY Zenon
<1>2. ChannelType /\ OncePerInitiation /\ ~badFrame /\
      \A d \in Connection : LinkInv(d, tcp[d], dialer[d], acceptor[d], frames[d], lastSeen)
  BY Zenon DEF ChannelInv
<1>3. x \in Endpoint /\ IsMessage1(m)
  BY <1>1, <1>2, Zenon DEF LinkInv, LinkType
<1>4. ts \in Nat /\ y \in Static /\ m.static.plain = Key(y)
  BY <1>1, <1>3, NamesY, Zenon
<1>5. lastSeen \in [Endpoint -> [Static -> Nat]] /\ IsLater(ts, lastSeen, x, y)
  BY <1>1, <1>2, Zenon DEF ChannelType
<1>6. StampIs(lastSeen, x, y, ts, lastSeen')
  <2>1. StampIs(lastSeen, x, y, ts, [lastSeen EXCEPT ![x][y] = ts])
    BY <1>3, <1>4, <1>5, StampStored, Zenon
  <2>2. lastSeen' = [lastSeen EXCEPT ![x][y] = ts]
    BY <1>1, Zenon
  <2> QED
    BY <2>1, <2>2, Zenon
<1>7. /\ acceptor'[c] = ac /\ ac.pc = "reply" /\ ac.remote = y /\ DOMAIN acceptor' = Connection
      /\ \A d \in Connection : d # c => acceptor'[d] = acceptor[d]
  BY <1>1, <1>2, Zenon DEF ChannelType
<1>8. ChannelType'
  BY <1>2, <1>6, <1>7, Zenon DEF ChannelType, StampIs
<1>9. \A d \in Connection : LinkInv(d, tcp[d], dialer[d], acceptor[d], frames[d], lastSeen')
  BY <1>2, <1>5, <1>6, SeenGrows, ZenonT(60) DEF StampIs
<1>10. LinkInv(c, tcp[c], dialer[c], ac, frames[c], lastSeen')
  <2>1. LinkInv(c, tcp[c], dialer[c], acceptor[c], frames[c], lastSeen')
    BY <1>9, Zenon
  <2>2. tcp[c].at # None
    BY <1>1, <1>3, ChannelAssumption, Zenon
  <2>3. LinkType(tcp[c], dialer[c], ac, frames[c])
    BY <2>1, <2>2, Zenon DEF LinkInv, LinkType
  <2>4. EndOK(ac, "acceptor", tcp[c], c, frames[c].acceptor)
    BY <2>1, <1>7, Zenon DEF LinkInv, EndOK
  <2>5. Passed(tcp[c], lastSeen')
    BY <1>1, <1>6, Zenon DEF Passed, StampIs
  <2>6. HandshakeSound(c, tcp[c], dialer[c], ac, lastSeen')
    BY <2>1, <2>5, <1>1, <1>4, <1>7, Zenon DEF LinkInv, HandshakeSound
  <2> QED
    BY <2>1, <2>3, <2>4, <2>6, Zenon DEF LinkInv
<1>11. ASSUME NEW d \in Connection, d # c, acceptor[d].pc \in {"reply", "open"} PROVE tcp[d].msg1 # m
  <2>1. SUFFICES ASSUME tcp[d].msg1 = m PROVE FALSE
    BY Zenon
  <2>2. Passed(tcp[d], lastSeen)
    BY <1>2, <1>11, Zenon DEF LinkInv, HandshakeSound
  <2>3. m.static.ad = ResponderStatic(Key(tcp[d].at), m).h /\ ts <= lastSeen[tcp[d].at][y]
    BY <2>1, <2>2, <1>1, Zenon DEF Passed
  <2>4. m.static.ad = ResponderStatic(Key(x), m).h
    BY <1>1, Zenon
  <2>5. tcp[d].at = x
    BY <2>3, <2>4, <1>3, OneEndpoint, Zenon
  <2> QED
    BY <2>3, <2>5, <1>6, Zenon DEF StampIs
<1>12. OncePerInitiation'
  <2>1. SUFFICES ASSUME NEW d \in Connection, NEW e \in Connection, d # e,
                        acceptor'[d].pc \in {"reply", "open"}, acceptor'[e].pc \in {"reply", "open"}
                 PROVE  tcp[d].msg1 # tcp[e].msg1
    BY Zenon DEF OncePerInitiation
  <2>2. CASE d = c
    BY <2>1, <2>2, <1>1, <1>7, <1>11, Zenon
  <2>3. CASE e = c
    BY <2>1, <2>3, <1>1, <1>7, <1>11, Zenon
  <2>4. CASE d # c /\ e # c
    <3>1. acceptor[d].pc \in {"reply", "open"} /\ acceptor[e].pc \in {"reply", "open"}
      BY <2>1, <2>4, <1>7, Zenon
    <3> QED
      BY <2>1, <3>1, <1>2, Zenon DEF OncePerInitiation
  <2> QED
    BY <2>2, <2>3, <2>4, Zenon
<1>13. \A d \in Connection : LinkInv(d, tcp'[d], dialer'[d], acceptor'[d], frames'[d], lastSeen')
  BY <1>7, <1>9, <1>10, Zenon
<1> QED
  BY <1>2, <1>8, <1>12, <1>13, Zenon DEF ChannelInv

\* A step in which one end of one connection fails, and perhaps closes the connection.
LEMMA EndFails ==
  ASSUME ChannelInv, NEW c \in Connection, tcp[c].at # None,
         tcp' = tcp \/ tcp' = [tcp EXCEPT ![c].broken = TRUE],
         UNCHANGED <<clock, lastSeen, frames, badFrame>>,
         NEW e, e.pc = "failed",
         \/ dialer' = [dialer EXCEPT ![c] = e] /\ UNCHANGED acceptor
         \/ acceptor' = [acceptor EXCEPT ![c] = e] /\ UNCHANGED dialer
  PROVE  ChannelInv'
<1>1. LinkInv(c, tcp[c], dialer[c], acceptor[c], frames[c], lastSeen) /\ ChannelType /\ ~badFrame
  BY Zenon DEF ChannelInv
<1>2. tcp[c] = [at |-> tcp[c].at, broken |-> tcp[c].broken, msg1 |-> tcp[c].msg1, msg2 |-> tcp[c].msg2]
  BY <1>1, Zenon DEF LinkInv, LinkType
<1>3. /\ tcp'[c] = tcp[c] \/ tcp'[c] = [at |-> tcp[c].at, broken |-> TRUE, msg1 |-> tcp[c].msg1, msg2 |-> tcp[c].msg2]
      /\ DOMAIN tcp' = Connection /\ \A d \in Connection : d # c => tcp'[d] = tcp[d]
  BY <1>1, <1>2, Zenon DEF ChannelType
<1>4. \/ dialer'[c] = e /\ acceptor'[c] = acceptor[c]
      \/ acceptor'[c] = e /\ dialer'[c] = dialer[c]
  BY <1>1, Zenon DEF ChannelType
<1>5. OnlyLink(c)
  BY <1>1, <1>3 DEF ChannelType, OnlyLink
<1>6. LinkInv(c, tcp[c], dialer'[c], acceptor'[c], frames[c], lastSeen)
  <2>1. LinkInv(c, tcp[c], e, acceptor[c], frames[c], lastSeen)
    BY <1>1, DialerFails, Zenon
  <2>2. LinkInv(c, tcp[c], dialer[c], e, frames[c], lastSeen)
    BY <1>1, AcceptorFails, Zenon
  <2> QED
    BY <1>4, <2>1, <2>2, Zenon
<1>7. LinkInv(c, tcp'[c], dialer'[c], acceptor'[c], frames'[c], lastSeen)
  BY <1>3, <1>6, BreakKeeps, Zenon
<1>8. acceptor'[c].pc \in {"reply", "open"} => acceptor[c].pc \in {"reply", "open"}
  BY <1>4
<1>9. tcp'[c].msg1 = tcp[c].msg1
  BY <1>3
<1> QED
  BY <1>1, <1>5, <1>7, <1>8, <1>9, LinkKeeps, Zenon DEF ChannelType

\* The responder takes a message 1, or refuses it and fails.
LEMMA AcceptKeeps ==
  ASSUME ChannelInv, NEW c \in Connection, Accept(c)
  PROVE  ChannelInv'
<1>1. PICK m, x, y : m = tcp[c].msg1 /\ x = tcp[c].at /\ y = m.static.plain[2]
  BY Zenon
<1>2. /\ acceptor[c].pc = "off" /\ tcp[c].msg1 # None /\ UNCHANGED <<clock, dialer, frames, badFrame>>
      /\ \/ /\ Opens(ResponderStatic(Key(x), m), m.static) /\ CheckReplay(x, y, m.stamp.plain)
            /\ lastSeen' = [lastSeen EXCEPT ![x][y] = m.stamp.plain]
            /\ acceptor' = [acceptor EXCEPT ![c] = [pc |-> "reply", remote |-> y]]
            /\ UNCHANGED tcp
         \/ /\ acceptor' = [acceptor EXCEPT ![c] = [pc |-> "failed"]]
            /\ tcp' = [tcp EXCEPT ![c].broken = TRUE] /\ UNCHANGED lastSeen
  BY <1>1, Zenon DEF Accept
<1>3. tcp[c].at # None
  BY <1>2, Zenon DEF ChannelInv, LinkInv, LinkType
<1>4. CASE /\ Opens(ResponderStatic(Key(x), m), m.static) /\ CheckReplay(x, y, m.stamp.plain)
           /\ lastSeen' = [lastSeen EXCEPT ![x][y] = m.stamp.plain]
           /\ acceptor' = [acceptor EXCEPT ![c] = [pc |-> "reply", remote |-> y]]
           /\ UNCHANGED tcp
  <2>1. m.static.ad = ResponderStatic(Key(x), m).h /\ IsLater(m.stamp.plain, lastSeen, x, y)
    BY <1>4, Zenon DEF Opens, CheckReplay, IsLater
  <2> QED
    BY <2>1, <1>1, <1>2, <1>4, AcceptPasses, Zenon
<1>5. CASE /\ acceptor' = [acceptor EXCEPT ![c] = [pc |-> "failed"]]
           /\ tcp' = [tcp EXCEPT ![c].broken = TRUE] /\ UNCHANGED lastSeen
  <2>1. PICK e : e = [pc |-> "failed"]
    BY Zenon
  <2>2. e.pc = "failed"
    BY <2>1
  <2> QED
    BY <2>1, <2>2, <1>2, <1>3, <1>5, EndFails, Zenon
<1> QED
  BY <1>2, <1>4, <1>5, Zenon

\* The responder writes message 2 and has its keys.
LEMMA ReplyKeeps ==
  ASSUME ChannelInv, NEW c \in Connection, Reply(c)
  PROVE  ChannelInv'
<1>1. PICK s, re, old, t, ac : /\ re = EphemeralKey("r", c) /\ old = tcp[c]
                               /\ s = ResponderEnd(Key(tcp[c].at), tcp[c].msg1, re)
                               /\ t = [at |-> old.at, broken |-> old.broken, msg1 |-> old.msg1,
                                       msg2 |-> [e |-> re, empty |-> Seal(s, None)]]
                               /\ ac = ResponderKeys(c, s)
  BY Zenon
<1>2. LinkInv(c, old, dialer[c], acceptor[c], frames[c], lastSeen) /\ ChannelType /\ ~badFrame
  BY <1>1, Zenon DEF ChannelInv
<1>3. /\ acceptor[c].pc = "reply" /\ UNCHANGED <<clock, dialer, lastSeen, frames, badFrame>>
      /\ \/ /\ acceptor' = [acceptor EXCEPT ![c] = ac]
            /\ tcp' = [tcp EXCEPT ![c].msg2 = [e |-> re, empty |-> Seal(s, None)]]
         \/ acceptor' = [acceptor EXCEPT ![c] = [pc |-> "failed"]] /\ UNCHANGED tcp
  BY <1>1, Zenon DEF Reply
<1>4. old.at # None /\ Passed(old, lastSeen) /\ Key(acceptor[c].remote) = old.msg1.static.plain
  <2>1. "reply" \in {"reply", "open"} /\ "reply" # "off"
    OBVIOUS
  <2> QED
    BY <2>1, <1>2, <1>3, Zenon DEF LinkInv, LinkType, HandshakeSound
<1>5. CASE acceptor' = [acceptor EXCEPT ![c] = [pc |-> "failed"]] /\ UNCHANGED tcp
  <2>1. PICK e : e = [pc |-> "failed"]
    BY Zenon
  <2>2. e.pc = "failed"
    BY <2>1
  <2> QED
    BY <2>1, <2>2, <1>1, <1>3, <1>4, <1>5, EndFails, Zenon
<1>6. CASE /\ acceptor' = [acceptor EXCEPT ![c] = ac]
           /\ tcp' = [tcp EXCEPT ![c].msg2 = [e |-> re, empty |-> Seal(s, None)]]
  <2>1. old = [at |-> old.at, broken |-> old.broken, msg1 |-> old.msg1, msg2 |-> old.msg2]
    BY <1>2, Zenon DEF LinkInv, LinkType
  <2>2. tcp'[c] = t /\ acceptor'[c] = ac
    BY <1>1, <1>2, <1>6, <2>1, Zenon DEF ChannelType
  <2>3. OnlyLink(c)
    BY <1>2, <1>3, <1>6 DEF ChannelType, OnlyLink
  <2>4. /\ t = [at |-> t.at, broken |-> t.broken, msg1 |-> t.msg1, msg2 |-> t.msg2]
        /\ t.at = old.at /\ t.msg1 = old.msg1 /\ t.msg2.empty.key = s.ck
    BY <1>1 DEF Seal
  <2>5. s.ck = SessionKey(t.at, t.msg1, c)
    BY <1>1, <2>4, Zenon DEF SessionKey
  <2>6. \A end : KeyOf(end, t, c) = KeyOf(end, old, c)
    BY <2>4, Zenon DEF KeyOf
  <2>7. Passed(t, lastSeen)
    BY <1>4, <2>4, Zenon DEF Passed
  <2>8. /\ ac = [pc |-> "open", remote |-> acceptor[c].remote, send |-> <<s.ck, 2>>, recv |-> <<s.ck, 1>>,
                 sendCtr |-> 0, recvCtr |-> 0, read |-> 0]
    BY <1>1 DEF ResponderKeys, NewConn, Split
  <2>9. /\ ac = [pc |-> ac.pc, remote |-> ac.remote, send |-> ac.send, recv |-> ac.recv,
                 sendCtr |-> ac.sendCtr, recvCtr |-> ac.recvCtr, read |-> ac.read]
        /\ ac.pc = "open" /\ ac.remote = acceptor[c].remote /\ ac.send = <<s.ck, 2>> /\ ac.recv = <<s.ck, 1>>
        /\ ac.sendCtr = 0 /\ ac.recvCtr = ac.read /\ ac.read \in Nat
    BY <2>8
  <2>10. ac.send = KeyOf("acceptor", t, c) /\ ac.recv = KeyOf("dialer", t, c) /\ Other("acceptor") = "dialer"
    BY <2>5, <2>9 DEF KeyOf, Other
  <2>11. /\ Len(frames[c].acceptor) = 0
         /\ frames[c].acceptor = Stream(KeyOf("acceptor", old, c), Len(frames[c].acceptor))
    BY <1>2, <1>3 DEF LinkInv, EndOK
  <2>12. EndOK(ac, "acceptor", t, c, frames[c].acceptor)
    <3>1. ConnOK(ac, "acceptor", t, c, Len(frames[c].acceptor))
      BY <2>9, <2>10, <2>11, Zenon DEF ConnOK
    <3>2. 0 \in Nat
      OBVIOUS
    <3> QED
      BY <3>1, <3>2, <2>6, <2>11, Zenon DEF EndOK
  <2>13. EndOK(dialer[c], "dialer", t, c, frames[c].dialer)
    BY <1>2, <2>6, Zenon DEF LinkInv, EndOK, ConnOK
  <2>14. LinkType(t, dialer[c], ac, frames[c])
    BY <1>2, <1>4, <2>4, Zenon DEF LinkInv, LinkType
  <2>15. HandshakeSound(c, t, dialer[c], ac, lastSeen)
    <3>1. "open" \in {"open", "failed"} /\ "reply" \notin {"open", "failed"}
      OBVIOUS
    <3> QED
      BY <3>1, <1>2, <1>3, <1>4, <2>4, <2>5, <2>7, <2>9, Zenon DEF LinkInv, HandshakeSound
  <2>16. LinkInv(c, tcp'[c], dialer'[c], acceptor'[c], frames'[c], lastSeen)
    BY <1>3, <2>2, <2>12, <2>13, <2>14, <2>15, Zenon DEF LinkInv
  <2>17. acceptor[c].pc \in {"reply", "open"} /\ tcp'[c].msg1 = tcp[c].msg1
    BY <1>1, <1>3, <2>2, <2>4, Zenon
  <2> QED
    BY <1>2, <1>3, <2>3, <2>16, <2>17, LinkKeeps, Zenon DEF ChannelType
<1> QED
  BY <1>3, <1>5, <1>6, Zenon

\* An end that is open, or opens, in place of the one before, with what it sent.
LEMMA DialerOpen ==
  ASSUME NEW c, NEW t, NEW dl, NEW ac, NEW fr, NEW seen, LinkInv(c, t, dl, ac, fr, seen), t.at # None,
         NEW e, e.pc = "open", ac.pc \in {"open", "failed"}, t.at = e.remote,
         NEW sent, EndOK(e, "dialer", t, c, sent),
         NEW after, after = [dialer |-> sent, acceptor |-> fr.acceptor]
  PROVE  LinkInv(c, t, e, ac, after, seen)
<1>1. "open" # "reply" /\ "open" # "off"
  OBVIOUS
<1>2. after.dialer = sent /\ after.acceptor = fr.acceptor /\ after = [dialer |-> after.dialer, acceptor |-> after.acceptor]
  OBVIOUS
<1>3. LinkType(t, e, ac, after)
  BY <1>1, <1>2, Zenon DEF LinkInv, LinkType
<1>4. HandshakeSound(c, t, e, ac, seen)
  BY <1>1, Zenon DEF LinkInv, HandshakeSound
<1>5. EndOK(e, "dialer", t, c, after.dialer) /\ EndOK(ac, "acceptor", t, c, after.acceptor)
  BY <1>2, Zenon DEF LinkInv
<1> QED
  BY <1>3, <1>4, <1>5, Zenon DEF LinkInv

\* The same of the other end, when it was open before.
LEMMA AcceptorOpen ==
  ASSUME NEW c, NEW t, NEW dl, NEW ac, NEW fr, NEW seen, LinkInv(c, t, dl, ac, fr, seen), t.at # None,
         NEW e, e.pc = "open", ac.pc = "open", e.remote = ac.remote,
         NEW sent, EndOK(e, "acceptor", t, c, sent),
         NEW after, after = [dialer |-> fr.dialer, acceptor |-> sent]
  PROVE  LinkInv(c, t, dl, e, after, seen)
<1>1. "open" # "reply" /\ "open" # "off" /\ "open" \in {"open", "failed"} /\ "open" \in {"reply", "open"}
  OBVIOUS
<1>2. after.dialer = fr.dialer /\ after.acceptor = sent /\ after = [dialer |-> after.dialer, acceptor |-> after.acceptor]
  OBVIOUS
<1>3. LinkType(t, dl, e, after)
  BY <1>1, <1>2, Zenon DEF LinkInv, LinkType
<1>4. HandshakeSound(c, t, dl, e, seen)
  BY <1>1, Zenon DEF LinkInv, HandshakeSound
<1>5. EndOK(dl, "dialer", t, c, after.dialer) /\ EndOK(e, "acceptor", t, c, after.acceptor)
  BY <1>2, Zenon DEF LinkInv
<1> QED
  BY <1>3, <1>4, <1>5, Zenon DEF LinkInv

\* The initiator opens the reply and has its keys.
LEMMA HandshakeOverConnKeeps ==
  ASSUME ChannelInv, NEW c \in Connection, HandshakeOverConn(c)
  PROVE  ChannelInv'
<1>1. PICK s, t, to, dl : /\ t = tcp[c] /\ to = dialer[c].to
                          /\ s = InitiatorEnd(Key(dialer[c].from), Key(to), EphemeralKey("i", c), dialer[c].ts, tcp[c].msg2.e)
                          /\ dl = NewConn(to, Split(s).first, Split(s).second)
  BY Zenon
<1>2. LinkInv(c, t, dialer[c], acceptor[c], frames[c], lastSeen) /\ ChannelType /\ ~badFrame
  BY <1>1, Zenon DEF ChannelInv
<1>3. /\ dialer[c].pc = "reply" /\ UNCHANGED <<clock, acceptor, lastSeen, frames, badFrame>>
      /\ \/ t.msg2 # None /\ t.msg2.empty.key = s.ck /\ dialer' = [dialer EXCEPT ![c] = dl] /\ UNCHANGED tcp
         \/ dialer' = [dialer EXCEPT ![c] = [pc |-> "failed"]] /\ tcp' = [tcp EXCEPT ![c].broken = TRUE]
  BY <1>1, Zenon DEF HandshakeOverConn, Opens
<1>4. t.at # None
  <2>1. "reply" # "off"
    OBVIOUS
  <2> QED
    BY <2>1, <1>2, <1>3, Zenon DEF LinkInv, LinkType
<1>5. CASE dialer' = [dialer EXCEPT ![c] = [pc |-> "failed"]] /\ tcp' = [tcp EXCEPT ![c].broken = TRUE]
  <2>1. PICK e : e = [pc |-> "failed"]
    BY Zenon
  <2>2. e.pc = "failed"
    BY <2>1
  <2> QED
    BY <2>1, <2>2, <1>1, <1>3, <1>4, <1>5, EndFails, Zenon
<1>6. CASE t.msg2 # None /\ t.msg2.empty.key = s.ck /\ dialer' = [dialer EXCEPT ![c] = dl] /\ UNCHANGED tcp
  <2>1. /\ Passed(t, lastSeen) /\ acceptor[c].pc \in {"open", "failed"} /\ s.ck = SessionKey(t.at, t.msg1, c)
        /\ t.msg1.static.ad = InitiatorStatic(EphemeralKey("i", c), Key(to)).h
    BY <1>1, <1>2, <1>3, <1>6, Zenon DEF LinkInv, HandshakeSound
  <2>2. t.at = to
    <3>1. Key(t.at) = Key(to)
      BY <2>1, Addressee, Zenon DEF Passed
    <3> QED
      BY <3>1 DEF Key
  <2>3. dl = [pc |-> "open", remote |-> to, send |-> <<s.ck, 1>>, recv |-> <<s.ck, 2>>,
              sendCtr |-> 0, recvCtr |-> 0, read |-> 0]
    BY <1>1 DEF NewConn, Split
  <2>4. /\ dl = [pc |-> dl.pc, remote |-> dl.remote, send |-> dl.send, recv |-> dl.recv,
                 sendCtr |-> dl.sendCtr, recvCtr |-> dl.recvCtr, read |-> dl.read]
        /\ dl.pc = "open" /\ dl.remote = to /\ dl.send = <<s.ck, 1>> /\ dl.recv = <<s.ck, 2>>
        /\ dl.sendCtr = 0 /\ dl.recvCtr = dl.read /\ dl.read \in Nat
    BY <2>3
  <2>5. dl.send = KeyOf("dialer", t, c) /\ dl.recv = KeyOf("acceptor", t, c) /\ Other("dialer") = "acceptor"
    BY <2>1, <2>4 DEF KeyOf, Other
  <2>6. /\ Len(frames[c].dialer) = 0
        /\ frames[c].dialer = Stream(KeyOf("dialer", t, c), Len(frames[c].dialer))
    BY <1>2, <1>3 DEF LinkInv, EndOK
  <2>7. EndOK(dl, "dialer", t, c, frames[c].dialer)
    <3>1. ConnOK(dl, "dialer", t, c, Len(frames[c].dialer))
      BY <2>4, <2>5, <2>6, Zenon DEF ConnOK
    <3>2. 0 \in Nat
      OBVIOUS
    <3> QED
      BY <3>1, <3>2, <2>6, Zenon DEF EndOK
  <2>8. frames[c] = [dialer |-> frames[c].dialer, acceptor |-> frames[c].acceptor]
    BY <1>2, Zenon DEF LinkInv, LinkType
  <2>9. LinkInv(c, t, dl, acceptor[c], frames[c], lastSeen)
    BY <1>2, <1>4, <2>1, <2>2, <2>4, <2>7, <2>8, DialerOpen, Zenon
  <2>10. dialer'[c] = dl
    BY <1>2, <1>6, Zenon DEF ChannelType
  <2>11. OnlyLink(c)
    BY <1>2, <1>3, <1>6 DEF ChannelType, OnlyLink
  <2> QED
    BY <1>1, <1>2, <1>3, <1>6, <2>9, <2>10, <2>11, LinkKeeps, Zenon DEF ChannelType
<1> QED
  BY <1>3, <1>5, <1>6, Zenon

\* What end sent on connection c is sent, and no other end sent anything.
SentBy(end, c, sent) ==
  /\ DOMAIN frames' = Connection /\ \A d \in Connection : d # c => frames'[d] = frames[d]
  /\ end = "dialer" => frames'[c] = [dialer |-> sent, acceptor |-> frames[c].acceptor]
  /\ end = "acceptor" => frames'[c] = [dialer |-> frames[c].dialer, acceptor |-> sent]

\* A step of an open end that stays open.
LEMMA EndMoves ==
  ASSUME ChannelInv, NEW c \in Connection, NEW end \in {"dialer", "acceptor"}, End(end, c).pc = "open",
         NEW e, e.pc = "open", e.remote = End(end, c).remote, SetEnd(end, c, e),
         NEW sent, EndOK(e, end, tcp[c], c, sent), SentBy(end, c, sent), UNCHANGED <<clock, tcp, lastSeen, badFrame>>
  PROVE  ChannelInv'
<1>1. LinkInv(c, tcp[c], dialer[c], acceptor[c], frames[c], lastSeen) /\ ChannelType /\ ~badFrame
  BY Zenon DEF ChannelInv
<1>2. "open" # "off" /\ "dialer" # "acceptor"
  OBVIOUS
<1>3. CASE end = "dialer"
  <2>1. dialer[c].pc = "open" /\ e.remote = dialer[c].remote /\ dialer' = [dialer EXCEPT ![c] = e] /\ UNCHANGED acceptor
    BY <1>3, Zenon DEF End, SetEnd
  <2>2. tcp[c].at # None
    BY <1>1, <1>2, <2>1, Zenon DEF LinkInv, LinkType
  <2>3. acceptor[c].pc \in {"open", "failed"} /\ tcp[c].at = e.remote
    BY <1>1, <2>1, Zenon DEF LinkInv, HandshakeSound
  <2>4. LinkInv(c, tcp[c], e, acceptor[c], frames'[c], lastSeen)
    BY <1>1, <1>3, <2>2, <2>3, DialerOpen, Zenon DEF SentBy
  <2>5. dialer'[c] = e /\ OnlyLink(c)
    BY <1>1, <2>1 DEF ChannelType, SentBy, OnlyLink
  <2> QED
    BY <1>1, <2>1, <2>4, <2>5, LinkKeeps, Zenon DEF ChannelType
<1>4. CASE end = "acceptor"
  <2>1. acceptor[c].pc = "open" /\ e.remote = acceptor[c].remote /\ acceptor' = [acceptor EXCEPT ![c] = e] /\ UNCHANGED dialer
    BY <1>2, <1>4, Zenon DEF End, SetEnd
  <2>2. tcp[c].at # None
    BY <1>1, <1>2, <2>1, Zenon DEF LinkInv, LinkType
  <2>4. LinkInv(c, tcp[c], dialer[c], e, frames'[c], lastSeen)
    BY <1>1, <1>4, <2>1, <2>2, AcceptorOpen, ZenonT(60) DEF SentBy
  <2>5. acceptor'[c] = e /\ OnlyLink(c)
    BY <1>1, <2>1 DEF ChannelType, SentBy, OnlyLink
  <2>6. acceptor[c].pc \in {"reply", "open"}
    BY <2>1
  <2> QED
    BY <1>1, <2>1, <2>4, <2>5, <2>6, LinkKeeps, Zenon DEF ChannelType
<1> QED
  BY <1>3, <1>4, Zenon

\* The part of the invariant that is about one end.
LEMMA EndIsOK ==
  ASSUME ChannelInv, NEW c \in Connection, NEW end \in {"dialer", "acceptor"}
  PROVE  EndOK(End(end, c), end, tcp[c], c, frames[c][end])
<1>1. LinkInv(c, tcp[c], dialer[c], acceptor[c], frames[c], lastSeen)
  BY Zenon DEF ChannelInv
<1>2. "dialer" # "acceptor"
  OBVIOUS
<1> QED
  BY <1>1, <1>2, Zenon DEF LinkInv, End

\* An end seals a frame under its next counter.
LEMMA SealedOK ==
  ASSUME NEW e, NEW end, NEW t, NEW c, NEW sent, EndOK(e, end, t, c, sent), e.pc = "open"
  PROVE  /\ EndOK(Sealed(e), end, t, c, Append(sent, [key |-> e.send, ctr |-> e.sendCtr]))
         /\ Sealed(e).pc = "open" /\ Sealed(e).remote = e.remote
<1>1. PICK n, k, u, after : /\ n = Len(sent) /\ k = KeyOf(end, t, c) /\ u = Sealed(e)
                            /\ after = Append(sent, [key |-> e.send, ctr |-> e.sendCtr])
  BY Zenon
<1>2. n \in Nat /\ sent = Stream(k, n) /\ ConnOK(e, end, t, c, n)
  BY <1>1, Zenon DEF EndOK
<1>3. after = Append(Stream(k, n), [key |-> k, ctr |-> n])
  BY <1>1, <1>2, Zenon DEF ConnOK
<1>4. after = Stream(k, n + 1) /\ n + 1 \in Nat
  BY <1>2, <1>3, StreamGrows
<1>5. Len(after) = n + 1
  BY <1>4, StreamGrows, Zenon
<1>6. /\ u = [pc |-> u.pc, remote |-> u.remote, send |-> u.send, recv |-> u.recv,
              sendCtr |-> u.sendCtr, recvCtr |-> u.recvCtr, read |-> u.read]
      /\ u.pc = e.pc /\ u.remote = e.remote /\ u.send = e.send /\ u.recv = e.recv
      /\ u.sendCtr = e.sendCtr + 1 /\ u.recvCtr = e.recvCtr /\ u.read = e.read
  BY <1>1, <1>2 DEF ConnOK, Sealed
<1>7. ConnOK(u, end, t, c, n + 1)
  BY <1>2, <1>6, Zenon DEF ConnOK
<1>8. "open" \notin {"off", "reply"}
  OBVIOUS
<1>9. EndOK(u, end, t, c, after)
  BY <1>1, <1>4, <1>5, <1>6, <1>7, <1>8, Zenon DEF EndOK
<1> QED
  BY <1>1, <1>6, <1>9, Zenon

\* Send.
LEMMA SendKeeps ==
  ASSUME ChannelInv, NEW c \in Connection, NEW end \in {"dialer", "acceptor"}, Send(end, c)
  PROVE  ChannelInv'
<1>1. PICK e, sent : e = End(end, c) /\ sent = Append(frames[c][end], [key |-> e.send, ctr |-> e.sendCtr])
  BY Zenon
<1>2. /\ e.pc = "open" /\ SetEnd(end, c, Sealed(e)) /\ UNCHANGED <<clock, tcp, lastSeen, badFrame>>
      /\ frames' = [frames EXCEPT ![c][end] = sent]
  BY <1>1, Zenon DEF Send
<1>3. /\ EndOK(Sealed(e), end, tcp[c], c, sent) /\ Sealed(e).pc = "open" /\ Sealed(e).remote = e.remote
  BY <1>1, <1>2, EndIsOK, SealedOK, Zenon
<1>4. DOMAIN frames = Connection /\ frames[c] = [dialer |-> frames[c].dialer, acceptor |-> frames[c].acceptor]
  BY Zenon DEF ChannelInv, ChannelType, LinkInv, LinkType
<1>5. SentBy(end, c, sent)
  BY <1>2, <1>4, Zenon DEF SentBy
<1> QED
  BY <1>1, <1>2, <1>3, <1>5, EndMoves, Zenon

\* The frame that an open end takes next opens under its next counter.
LEMMA NextOpens ==
  ASSUME ChannelInv, NEW c \in Connection, NEW end \in {"dialer", "acceptor"}, End(end, c).pc = "open",
         NEW next, next = End(end, c).read + 1, next <= Len(frames[c][Other(end)])
  PROVE  frames[c][Other(end)][next] = [key |-> End(end, c).recv, ctr |-> End(end, c).recvCtr]
<1>1. PICK e, n, k, sent : e = End(end, c) /\ sent = frames[c][Other(end)] /\ n = Len(sent) /\ k = KeyOf(Other(end), tcp[c], c)
  BY Zenon
<1>2. Other(end) \in {"dialer", "acceptor"}
  BY DEF Other
<1>3. n \in Nat /\ sent = Stream(k, n)
  BY <1>1, <1>2, EndIsOK, Zenon DEF EndOK
<1>4. e.recv = k /\ e.recvCtr = e.read /\ e.read \in Nat
  BY <1>1, EndIsOK, Zenon DEF EndOK, ConnOK
<1>5. next \in 1..n /\ next - 1 = e.read
  BY <1>1, <1>3, <1>4
<1>6. Stream(k, n)[next] = [key |-> k, ctr |-> next - 1]
  BY <1>5, Zenon DEF Stream
<1> QED
  BY <1>1, <1>3, <1>4, <1>5, <1>6, Zenon

\* An end takes a frame.
LEMMA ReceivedOK ==
  ASSUME NEW e, NEW end, NEW t, NEW c, NEW sent, EndOK(e, end, t, c, sent), e.pc = "open"
  PROVE  /\ EndOK(Received([e EXCEPT !.read = e.read + 1]), end, t, c, sent)
         /\ Received([e EXCEPT !.read = e.read + 1]).pc = "open"
         /\ Received([e EXCEPT !.read = e.read + 1]).remote = e.remote
<1>1. PICK u : u = Received([e EXCEPT !.read = e.read + 1])
  BY Zenon
<1>2. ConnOK(e, end, t, c, Len(sent))
  BY Zenon DEF EndOK
<1>3. /\ u = [pc |-> u.pc, remote |-> u.remote, send |-> u.send, recv |-> u.recv,
              sendCtr |-> u.sendCtr, recvCtr |-> u.recvCtr, read |-> u.read]
      /\ u.pc = e.pc /\ u.remote = e.remote /\ u.send = e.send /\ u.recv = e.recv
      /\ u.sendCtr = e.sendCtr /\ u.recvCtr = e.recvCtr + 1 /\ u.read = e.read + 1
  BY <1>1, <1>2, Zenon DEF ConnOK, Received
<1>4. u.recvCtr = u.read /\ u.read \in Nat
  BY <1>2, <1>3 DEF ConnOK
<1>5. ConnOK(u, end, t, c, Len(sent))
  BY <1>2, <1>3, <1>4, Zenon DEF ConnOK
<1>6. "open" \notin {"off", "reply"}
  OBVIOUS
<1>7. EndOK(u, end, t, c, sent)
  BY <1>3, <1>5, <1>6, Zenon DEF EndOK
<1> QED
  BY <1>1, <1>3, <1>7, Zenon

\* Recv: the frame opens, or the connection is broken and the end fails.
LEMMA RecvKeeps ==
  ASSUME ChannelInv, NEW c \in Connection, NEW end \in {"dialer", "acceptor"}, Recv(end, c)
  PROVE  ChannelInv'
<1>1. PICK e, next, sent : e = End(end, c) /\ next = e.read + 1 /\ sent = frames[c][Other(end)]
  BY Zenon
<1>2. /\ e.pc = "open" /\ UNCHANGED <<clock, lastSeen, frames>>
      /\ \/ SetEnd(end, c, Received([e EXCEPT !.read = next])) /\ UNCHANGED <<tcp, badFrame>>
         \/ /\ SetEnd(end, c, [e EXCEPT !.pc = "failed"]) /\ tcp' = [tcp EXCEPT ![c].broken = TRUE]
            /\ badFrame' = (badFrame \/ (next <= Len(sent) /\ ~(sent[next] = [key |-> e.recv, ctr |-> e.recvCtr])))
  BY <1>1, Zenon DEF Recv
<1>3. EndOK(e, end, tcp[c], c, frames[c][end]) /\ ConnOK(e, end, tcp[c], c, Len(frames[c][end]))
  BY <1>1, <1>2, EndIsOK, Zenon DEF EndOK
<1>4. /\ DOMAIN frames = Connection /\ frames[c] = [dialer |-> frames[c].dialer, acceptor |-> frames[c].acceptor]
      /\ ~badFrame /\ LinkInv(c, tcp[c], dialer[c], acceptor[c], frames[c], lastSeen)
  BY Zenon DEF ChannelInv, ChannelType, LinkInv, LinkType
<1>5. CASE SetEnd(end, c, Received([e EXCEPT !.read = next])) /\ UNCHANGED <<tcp, badFrame>>
  <2>1. PICK u : u = Received([e EXCEPT !.read = next])
    BY Zenon
  <2>2. EndOK(u, end, tcp[c], c, frames[c][end]) /\ u.pc = "open" /\ u.remote = e.remote
    BY <1>1, <1>2, <1>3, <2>1, ReceivedOK, Zenon
  <2>3. SentBy(end, c, frames[c][end])
    BY <1>2, <1>4, Zenon DEF SentBy
  <2> QED
    BY <1>1, <1>2, <1>5, <2>1, <2>2, <2>3, EndMoves, Zenon
<1>6. CASE /\ SetEnd(end, c, [e EXCEPT !.pc = "failed"]) /\ tcp' = [tcp EXCEPT ![c].broken = TRUE]
           /\ badFrame' = (badFrame \/ (next <= Len(sent) /\ ~(sent[next] = [key |-> e.recv, ctr |-> e.recvCtr])))
  <2>1. ~badFrame'
    BY <1>1, <1>2, <1>4, <1>6, NextOpens, Zenon
  <2>2. badFrame' = FALSE /\ badFrame = FALSE
    <3>1. badFrame' \in BOOLEAN
      BY <1>6, Zenon
    <3> QED
      BY <3>1, <2>1, <1>4
  <2>3. PICK u : u = [e EXCEPT !.pc = "failed"]
    BY Zenon
  <2>4. u.pc = "failed"
    BY <1>3, <2>3 DEF ConnOK
  <2>5. "open" # "off"
    OBVIOUS
  <2>6. tcp[c].at # None
    BY <1>1, <1>2, <1>4, <2>5, Zenon DEF LinkInv, LinkType, End
  <2>7. \/ dialer' = [dialer EXCEPT ![c] = u] /\ UNCHANGED acceptor
        \/ acceptor' = [acceptor EXCEPT ![c] = u] /\ UNCHANGED dialer
    BY <1>6, <2>3, Zenon DEF SetEnd
  <2> QED
    BY <1>2, <1>6, <2>2, <2>4, <2>6, <2>7, EndFails, Zenon
<1> QED
  BY <1>2, <1>5, <1>6, Zenon

-----------------------------------------------------------------------------
(* The invariant, and what it says                                           *)

\* No connection is open at the start.
LEMMA ChannelStarts ==
  ASSUME ControlInit
  PROVE  ChannelInv
<1>1. ChannelType /\ ~badFrame
  BY DEF ControlInit, ChannelType
<1>2. ASSUME NEW c \in Connection
      PROVE  LinkInv(c, tcp[c], dialer[c], acceptor[c], frames[c], lastSeen) /\ acceptor[c].pc = "off"
  <2>1. PICK t, fr : t = tcp[c] /\ fr = frames[c]
    BY Zenon
  <2>2. /\ t = [at |-> None, broken |-> FALSE, msg1 |-> None, msg2 |-> None]
        /\ fr = [dialer |-> <<>>, acceptor |-> <<>>] /\ dialer[c] = [pc |-> "off"] /\ acceptor[c] = [pc |-> "off"]
    BY <2>1, Zenon DEF ControlInit
  <2>3. /\ t = [at |-> t.at, broken |-> t.broken, msg1 |-> t.msg1, msg2 |-> t.msg2]
        /\ t.at = None /\ t.msg1 = None /\ t.msg2 = None /\ fr.dialer = <<>> /\ fr.acceptor = <<>>
        /\ fr = [dialer |-> fr.dialer, acceptor |-> fr.acceptor] /\ dialer[c].pc = "off" /\ acceptor[c].pc = "off"
    BY <2>2
  <2>4. LinkType(t, dialer[c], acceptor[c], fr)
    BY <2>3, Zenon DEF LinkType
  <2>5. HandshakeSound(c, t, dialer[c], acceptor[c], lastSeen)
    BY <2>3 DEF HandshakeSound
  <2>6. \A k : Stream(k, 0) = <<>> /\ Len(<<>>) = 0
    BY DEF Stream
  <2>7. EndOK(dialer[c], "dialer", t, c, fr.dialer) /\ EndOK(acceptor[c], "acceptor", t, c, fr.acceptor)
    BY <2>3, <2>6 DEF EndOK
  <2> QED
    BY <2>1, <2>3, <2>4, <2>5, <2>7, Zenon DEF LinkInv
<1>3. OncePerInitiation
  BY <1>2 DEF OncePerInitiation
<1> QED
  BY <1>1, <1>2, <1>3, Zenon DEF ChannelInv

\* Every step keeps the invariant.
LEMMA ChannelStep ==
  ASSUME ChannelInv, [ControlNext]_controlVars
  PROVE  ChannelInv'
<1>1. CASE ClockBack
  BY <1>1, ClockBackKeeps, Zenon
<1>2. ASSUME NEW c \in Connection, NEW y \in Static, NEW x \in Endpoint, NEW at \in Endpoint, Dial(c, y, x, at)
      PROVE  ChannelInv'
  BY <1>2, DialKeeps, Zenon
<1>3. ASSUME NEW c \in Connection, NEW d \in 1..(c - 1), Repeat(c, d)
      PROVE  ChannelInv'
  <2>1. d \in Connection
    BY ChannelAssumption DEF Connection
  <2> QED
    BY <1>3, <2>1, RepeatKeeps, Zenon
<1>4. ASSUME NEW c \in Connection, BreakTCP(c) \/ Accept(c) \/ Reply(c) \/ HandshakeOverConn(c)
      PROVE  ChannelInv'
  BY <1>4, BreakTCPKeeps, AcceptKeeps, ReplyKeeps, HandshakeOverConnKeeps, Zenon
<1>5. ASSUME NEW c \in Connection, NEW end \in {"dialer", "acceptor"}, Send(end, c) \/ Recv(end, c)
      PROVE  ChannelInv'
  BY <1>5, SendKeeps, RecvKeeps, Zenon
<1>6. CASE UNCHANGED controlVars
  BY <1>6, Zenon DEF controlVars, ChannelInv, ChannelType, OncePerInitiation
<1> QED
  BY <1>1, <1>2, <1>3, <1>4, <1>5, <1>6, Zenon DEF ControlNext

\* Frames of different ends, connections or places differ.
LEMMA FramesDiffer ==
  ASSUME ChannelInv, NEW c \in Connection, NEW d \in Connection,
         NEW end \in {"dialer", "acceptor"}, NEW other \in {"dialer", "acceptor"},
         NEW i \in DOMAIN frames[c][end], NEW j \in DOMAIN frames[d][other],
         frames[c][end][i] = frames[d][other][j]
  PROVE  c = d /\ end = other /\ i = j
<1>1. PICK k, l, n, o : /\ k = KeyOf(end, tcp[c], c) /\ n = Len(frames[c][end])
                        /\ l = KeyOf(other, tcp[d], d) /\ o = Len(frames[d][other])
  BY Zenon
<1>2. n \in Nat /\ frames[c][end] = Stream(k, n) /\ o \in Nat /\ frames[d][other] = Stream(l, o)
  BY <1>1, EndIsOK, Zenon DEF EndOK
<1>3. /\ i \in 1..n /\ frames[c][end][i] = [key |-> k, ctr |-> i - 1]
      /\ j \in 1..o /\ frames[d][other][j] = [key |-> l, ctr |-> j - 1]
  BY <1>2, Zenon DEF Stream
<1>4. [key |-> k, ctr |-> i - 1] = [key |-> l, ctr |-> j - 1]
  BY <1>3, Zenon
<1>5. k = l /\ i - 1 = j - 1
  BY <1>4
<1>6. i = j /\ n # 0 /\ o # 0
  BY <1>2, <1>3, <1>5
<1>7. SessionKey(tcp[c].at, tcp[c].msg1, c) = SessionKey(tcp[d].at, tcp[d].msg1, d) /\ end = other
  BY <1>1, <1>5 DEF KeyOf
<1>8. IsMessage1(tcp[c].msg1) /\ IsMessage1(tcp[d].msg1)
  <2>1. End(end, c).pc \notin {"off", "reply"} /\ End(other, d).pc \notin {"off", "reply"}
    BY <1>1, <1>6, EndIsOK, Zenon DEF EndOK
  <2>2. \A b \in Connection : LinkInv(b, tcp[b], dialer[b], acceptor[b], frames[b], lastSeen)
    BY Zenon DEF ChannelInv
  <2> QED
    BY <2>1, <2>2, Zenon DEF LinkInv, LinkType, End
<1>9. c = d
  BY <1>7, <1>8, KeysDiffer, Zenon
<1> QED
  BY <1>6, <1>7, <1>9, Zenon

\* What the invariant says of the keys, of message 1 and of the frames.
LEMMA ChannelSafe ==
  ASSUME ChannelInv
  PROVE  KeysAgree /\ OncePerInitiation /\ FramesOpen
<1>1. KeysAgree
  <2>1. SUFFICES ASSUME NEW c \in Connection, dialer[c].pc = "open"
                 PROVE  /\ tcp[c].at = dialer[c].remote
                        /\ acceptor[c].pc \in {"open", "failed"}
                        /\ acceptor[c].pc = "open" =>
                             /\ acceptor[c].send = dialer[c].recv /\ acceptor[c].recv = dialer[c].send
                             /\ Key(acceptor[c].remote) = tcp[c].msg1.static.plain
    BY Zenon DEF KeysAgree
  <2>2. LinkInv(c, tcp[c], dialer[c], acceptor[c], frames[c], lastSeen)
    BY Zenon DEF ChannelInv
  <2>3. Other("dialer") = "acceptor" /\ Other("acceptor") = "dialer" /\ "open" \in {"reply", "open"}
    BY DEF Other
  <2>4. tcp[c].at = dialer[c].remote /\ acceptor[c].pc \in {"open", "failed"}
    BY <2>1, <2>2, Zenon DEF LinkInv, HandshakeSound
  <2>5. acceptor[c].pc = "open" =>
          acceptor[c].send = dialer[c].recv /\ acceptor[c].recv = dialer[c].send
    BY <2>1, <2>2, <2>3, Zenon DEF LinkInv, EndOK, ConnOK
  <2>6. acceptor[c].pc = "open" => Key(acceptor[c].remote) = tcp[c].msg1.static.plain
    BY <2>2, <2>3, Zenon DEF LinkInv, HandshakeSound
  <2> QED
    BY <2>4, <2>5, <2>6, Zenon
<1>2. FramesOpen
  <2>1. NonceOnce
    BY FramesDiffer, Zenon DEF NonceOnce
  <2> QED
    BY <2>1, Zenon DEF FramesOpen, ChannelInv
<1> QED
  BY <1>1, <1>2, Zenon DEF ChannelInv

\* The keys agree: a Y that completed the handshake of control.go shares its keys with the X it dialled, and
\* with nobody else.
THEOREM ChannelKeysAgree == ControlSpec => []KeysAgree
<1>1. ControlInit => ChannelInv
  BY ChannelStarts, Zenon
<1>2. ChannelInv /\ [ControlNext]_controlVars => ChannelInv'
  BY ChannelStep, Zenon
<1>3. ChannelInv => KeysAgree
  BY ChannelSafe, Zenon
<1> QED
  BY <1>1, <1>2, <1>3, PTL DEF ControlSpec

\* checkReplay lets a message 1 pass once, on however many connections at once it arrives.
THEOREM AcceptedOnce == ControlSpec => []OncePerInitiation
<1>1. ControlInit => ChannelInv
  BY ChannelStarts, Zenon
<1>2. ChannelInv /\ [ControlNext]_controlVars => ChannelInv'
  BY ChannelStep, Zenon
<1>3. ChannelInv => OncePerInitiation
  BY ChannelSafe, Zenon
<1> QED
  BY <1>1, <1>2, <1>3, PTL DEF ControlSpec

\* Frames open at the other end in the order they were sent, and no key and counter seal two of them.
THEOREM FramesAlwaysOpen == ControlSpec => []FramesOpen
<1>1. ControlInit => ChannelInv
  BY ChannelStarts, Zenon
<1>2. ChannelInv /\ [ControlNext]_controlVars => ChannelInv'
  BY ChannelStep, Zenon
<1>3. ChannelInv => FramesOpen
  BY ChannelSafe, Zenon
<1> QED
  BY <1>1, <1>2, <1>3, PTL DEF ControlSpec
=============================================================================
