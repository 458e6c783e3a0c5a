--------------------------- MODULE ControlChannel ---------------------------
(***************************************************************************)
(* The control channel between Y and X (orchestrate/control): a Noise_IK     *)
(* handshake over a TCP connection and, after it, encrypted frames.  Several *)
(* connections are accepted at once; any of them may break at any moment,    *)
(* reach another endpoint than the one meant, or bring a message 1 that was  *)
(* sent before.                                                             *)
(*                                                                         *)
(* Keys are symbols: a Diffie-Hellman result is the set of its two keys, a    *)
(* chain key the sequence of the results mixed into it, the hash the         *)
(* sequence of what was mixed into it, and a ciphertext opens under the key  *)
(* and the additional data it was sealed with.                               *)
(***************************************************************************)
EXTENDS Integers, Sequences

CONSTANTS
  Static,      \* the Y that dial
  Known,       \* those that are configured as peers of the endpoints
  Endpoint,    \* the X that listen
  NConn,       \* bounds: TCP connections,
  MaxFrame,    \* frames sent on a connection,
  MaxBack      \* steps of the clock backwards

VARIABLES
  clock,       \* the wall clock of the Y, in dials
  back,        \* how often it was set back
  tcp,         \* per connection: its endpoint, whether it is broken, and the two messages on it
  dialer,      \* per connection, the initiator's end
  acceptor,    \* per connection, the responder's end
  lastSeen,    \* Endpoint.lastSeen
  frames,      \* per connection and end, the frames that end sent
  badFrame     \* whether a frame of an unbroken connection failed to open

controlVars == <<clock, back, tcp, dialer, acceptor, lastSeen, frames, badFrame>>

Connection == 1..NConn

None == <<>>

ASSUME ChannelAssumption == NConn \in Nat /\ Known \subseteq Static /\ None \notin Endpoint

Key(owner) == <<"static", owner>>

EphemeralKey(end, c) == <<end, c>>

DH(a, b) == {a, b}

-----------------------------------------------------------------------------
(* The symmetric state: mixHash, kdf2 and the AEAD with the zero nonce.      *)

Initial == [h |-> <<>>, ck |-> <<>>]

MixHash(s, x) == [s EXCEPT !.h = Append(@, x)]

MixKey(s, secret) == [s EXCEPT !.ck = Append(@, secret)]

Seal(s, plain) == [key |-> s.ck, ad |-> s.h, plain |-> plain]

Opens(s, cipher) == cipher.key = s.ck /\ cipher.ad = s.h

\* The two transport keys of kdf2(ck, nil).
Split(s) == [first |-> <<s.ck, 1>>, second |-> <<s.ck, 2>>]

-----------------------------------------------------------------------------
(* The initiator: message 1 is e, es, s, ss and the timestamp; the reply      *)
(* brings ee and se.                                                         *)

InitiatorStatic(e, to) == MixKey(MixHash(MixHash(Initial, to), e), DH(e, to))

InitiatorStamp(from, to, e) ==
  LET s == InitiatorStatic(e, to)
  IN  MixKey(MixHash(s, Seal(s, from)), DH(from, to))

Message1(from, to, e, ts) ==
  [e |-> e, static |-> Seal(InitiatorStatic(e, to), from),
   stamp |-> Seal(InitiatorStamp(from, to, e), ts)]

InitiatorEnd(from, to, e, ts, re) ==
  LET s == InitiatorStamp(from, to, e)
      waiting == MixHash(s, Seal(s, ts))
  IN  MixKey(MixKey(MixHash(waiting, re), DH(e, re)), DH(from, re))

(* The responder: the same from its side.                                    *)

ResponderStatic(local, m) == MixKey(MixHash(MixHash(Initial, local), m.e), DH(local, m.e))

ResponderStamp(local, m) ==
  MixKey(MixHash(ResponderStatic(local, m), m.static), DH(local, m.static.plain))

ResponderEnd(local, m, re) ==
  LET stamped == MixHash(ResponderStamp(local, m), m.stamp)
  IN  MixKey(MixKey(MixHash(stamped, re), DH(re, m.e)), DH(re, m.static.plain))

-----------------------------------------------------------------------------
ControlInit ==
  /\ clock = 1 /\ back = 0 /\ badFrame = FALSE
  /\ tcp = [c \in Connection |-> [at |-> None, broken |-> FALSE, msg1 |-> None, msg2 |-> None]]
  /\ dialer = [c \in Connection |-> [pc |-> "off"]] /\ acceptor = [c \in Connection |-> [pc |-> "off"]]
  /\ lastSeen = [x \in Endpoint |-> [y \in Static |-> 0]]
  /\ frames = [c \in Connection |-> [dialer |-> <<>>, acceptor |-> <<>>]]

\* Connections are numbered in the order they are opened.
Unused(c) == tcp[c].at = None /\ \A d \in 1..(c - 1) : tcp[d].at # None

\* newConn: the counters start at zero; read counts the frames taken from the connection.
NewConn(peer, send, recv) ==
  [pc |-> "open", remote |-> peer, send |-> send, recv |-> recv, sendCtr |-> 0, recvCtr |-> 0, read |-> 0]

\* y dials x, at an address where "at" listens, and writes message 1.
Dial(c, y, x, at) ==
  /\ Unused(c) /\ clock' = clock + 1
  /\ tcp' = [tcp EXCEPT ![c].at = at, ![c].msg1 = Message1(Key(y), Key(x), EphemeralKey("i", c), clock)]
  /\ dialer' = [dialer EXCEPT ![c] = [pc |-> "reply", from |-> y, to |-> x, ts |-> clock]]
  /\ UNCHANGED <<back, acceptor, lastSeen, frames, badFrame>>

\* A connection is opened that brings the message 1 of another.
Repeat(c, d) ==
  /\ Unused(c) /\ tcp[d].msg1 # None
  /\ tcp' = [tcp EXCEPT ![c].at = tcp[d].at, ![c].msg1 = tcp[d].msg1]
  /\ UNCHANGED <<clock, back, dialer, acceptor, lastSeen, frames, badFrame>>

ClockBack ==
  /\ back < MaxBack /\ clock > 1 /\ back' = back + 1 /\ clock' = clock - 1
  /\ UNCHANGED <<tcp, dialer, acceptor, lastSeen, frames, badFrame>>

BreakTCP(c) ==
  /\ tcp[c].at # None /\ ~tcp[c].broken /\ tcp' = [tcp EXCEPT ![c].broken = TRUE]
  /\ UNCHANGED <<clock, back, dialer, acceptor, lastSeen, frames, badFrame>>

\* Mutant: a timestamp is refused only if it is older than the last.
CheckReplay_Same(x, y, ts) == ts >= lastSeen[x][y]

\* checkReplay, which also stores the timestamp it lets pass, under the mutex.
CheckReplay(x, y, ts) == ts > lastSeen[x][y]

\* The responder reads message 1, opens the static key, looks it up, opens the timestamp and
\* checks it.  It closes the connection when any of this fails.
Accept(c) ==
  /\ acceptor[c].pc = "off" /\ tcp[c].msg1 # None
  /\ LET m == tcp[c].msg1  x == tcp[c].at  y == m.static.plain[2]
         authentic == /\ Opens(ResponderStatic(Key(x), m), m.static)
                      /\ y \in Known
                      /\ Opens(ResponderStamp(Key(x), m), m.stamp)
     IN  \/ /\ authentic /\ CheckReplay(x, y, m.stamp.plain)
            /\ lastSeen' = [lastSeen EXCEPT ![x][y] = m.stamp.plain]
            /\ acceptor' = [acceptor EXCEPT ![c] = [pc |-> "reply", remote |-> y]]
            /\ UNCHANGED tcp
         \/ /\ tcp[c].broken \/ ~authentic \/ ~CheckReplay(x, y, m.stamp.plain)
            /\ acceptor' = [acceptor EXCEPT ![c] = [pc |-> "failed"]]
            /\ tcp' = [tcp EXCEPT ![c].broken = TRUE] /\ UNCHANGED lastSeen
  /\ UNCHANGED <<clock, back, dialer, frames, badFrame>>

\* Mutant: the responder takes the transport keys in the initiator's order.
ResponderKeys_NotSwapped(c, s) == NewConn(acceptor[c].remote, Split(s).first, Split(s).second)

\* The responder receives with the first key and sends with the second.
ResponderKeys(c, s) == NewConn(acceptor[c].remote, Split(s).second, Split(s).first)

\* The responder writes message 2, unless the connection is broken, and has its keys.
Reply(c) ==
  /\ acceptor[c].pc = "reply"
  /\ LET re == EphemeralKey("r", c)  s == ResponderEnd(Key(tcp[c].at), tcp[c].msg1, re)
     IN  \/ /\ acceptor' = [acceptor EXCEPT ![c] = ResponderKeys(c, s)]
            /\ tcp' = [tcp EXCEPT ![c].msg2 = [e |-> re, empty |-> Seal(s, None)]]
         \/ /\ tcp[c].broken /\ acceptor' = [acceptor EXCEPT ![c] = [pc |-> "failed"]]
            /\ UNCHANGED tcp
  /\ UNCHANGED <<clock, back, dialer, lastSeen, frames, badFrame>>

\* The initiator reads message 2 and has its keys, or fails and closes the connection.
HandshakeOverConn(c) ==
  /\ dialer[c].pc = "reply"
  /\ LET from == dialer[c].from  to == dialer[c].to  m == tcp[c].msg2
         s == InitiatorEnd(Key(from), Key(to), EphemeralKey("i", c), dialer[c].ts, m.e)
     IN  \/ /\ m # None /\ Opens(s, m.empty)
            /\ dialer' = [dialer EXCEPT ![c] = NewConn(to, Split(s).first, Split(s).second)]
            /\ UNCHANGED tcp
         \/ /\ tcp[c].broken \/ (m # None /\ ~Opens(s, m.empty))
            /\ dialer' = [dialer EXCEPT ![c] = [pc |-> "failed"]]
            /\ tcp' = [tcp EXCEPT ![c].broken = TRUE]
  /\ UNCHANGED <<clock, back, acceptor, lastSeen, frames, badFrame>>

End(end, c) == IF end = "dialer" THEN dialer[c] ELSE acceptor[c]

SetEnd(end, c, e) ==
  IF end = "dialer" THEN dialer' = [dialer EXCEPT ![c] = e] /\ UNCHANGED acceptor
                    ELSE acceptor' = [acceptor EXCEPT ![c] = e] /\ UNCHANGED dialer

Other(end) == IF end = "dialer" THEN "acceptor" ELSE "dialer"

Sealed(conn) == [conn EXCEPT !.sendCtr = @ + 1]

\* Send seals under the next counter and writes; what a broken connection swallows is never read.
Send(end, c) ==
  /\ End(end, c).pc = "open" /\ Len(frames[c].dialer) + Len(frames[c].acceptor) < MaxFrame
  /\ SetEnd(end, c, Sealed(End(end, c)))
  /\ frames' = [frames EXCEPT ![c][end] = Append(@, [key |-> End(end, c).send, ctr |-> End(end, c).sendCtr])]
  /\ UNCHANGED <<clock, back, tcp, lastSeen, badFrame>>

\* Mutant: the counter of received frames stays.
Received_SameCounter(conn) == conn

Received(conn) == [conn EXCEPT !.recvCtr = @ + 1]

\* Recv takes the next frame and opens it under the next counter; when the connection is broken or
\* the frame does not open it fails, and its caller closes the connection.
Recv(end, c) ==
  /\ End(end, c).pc = "open"
  /\ LET conn == End(end, c)  sent == frames[c][Other(end)]  next == conn.read + 1
         there == next <= Len(sent)
         opens == sent[next] = [key |-> conn.recv, ctr |-> conn.recvCtr]
     IN  \/ there /\ opens /\ SetEnd(end, c, Received([conn EXCEPT !.read = next])) /\ UNCHANGED <<tcp, badFrame>>
         \/ /\ tcp[c].broken \/ (there /\ ~opens)
            /\ SetEnd(end, c, [conn EXCEPT !.pc = "failed"])
            /\ tcp' = [tcp EXCEPT ![c].broken = TRUE]
            /\ badFrame' = (badFrame \/ (there /\ ~opens))
  /\ UNCHANGED <<clock, back, lastSeen, frames>>

ControlNext ==
  \/ ClockBack
  \/ \E c \in Connection :
       \/ \E y \in Static, x, at \in Endpoint : Dial(c, y, x, at)
       \/ \E d \in 1..(c - 1) : Repeat(c, d)
       \/ BreakTCP(c) \/ Accept(c) \/ Reply(c) \/ HandshakeOverConn(c)
       \/ \E end \in {"dialer", "acceptor"} : Send(end, c) \/ Recv(end, c)

ControlSpec == ControlInit /\ [][ControlNext]_controlVars

-----------------------------------------------------------------------------
(* Properties *)

\* A Y that completed its handshake shares the keys with the X it dialled and with nobody else: that X
\* holds the other end of the connection, knows it is this Y, and sends with the key Y receives with.
KeysAgree ==
  \A c \in Connection : dialer[c].pc = "open" =>
    /\ tcp[c].at = dialer[c].remote
    /\ acceptor[c].pc \in {"open", "failed"}
    /\ acceptor[c].pc = "open" => /\ acceptor[c].send = dialer[c].recv /\ acceptor[c].recv = dialer[c].send
                                  /\ Key(acceptor[c].remote) = tcp[c].msg1.static.plain

\* One message 1 opens one connection: however often and on however many connections at once it
\* arrives, and although the clock it was stamped with was set back, checkReplay lets it pass once.
OncePerInitiation ==
  \A c, d \in Connection : c # d /\ {acceptor[c].pc, acceptor[d].pc} \subseteq {"reply", "open"} =>
    tcp[c].msg1 # tcp[d].msg1

\* No two frames are sealed under the same key and counter, in either direction of any connection:
\* the counters of every Conn start at zero, so this rests on the keys.
NonceOnce ==
  \A c, d \in Connection : \A end, other \in {"dialer", "acceptor"} :
    \A i \in DOMAIN frames[c][end], j \in DOMAIN frames[d][other] :
      frames[c][end][i] = frames[d][other][j] => c = d /\ end = other /\ i = j

\* Frames open at the other end, in the order they were sent: only a broken connection ends a Recv.  And
\* the counters that make them open in their turn never seal two of them.
FramesOpen == ~badFrame /\ NonceOnce

-----------------------------------------------------------------------------
(* What the proofs add to the properties to make them inductive.             *)

\* A message 1 is one that a Y wrote for an endpoint, perhaps on another connection.
IsMessage1(m) ==
  /\ m.stamp.plain \in Nat
  /\ \E y \in Static, x \in Endpoint, k \in Connection :
       m = Message1(Key(y), Key(x), EphemeralKey("i", k), m.stamp.plain)

\* The chain key that message 1 at an endpoint and the ephemeral of connection c end in.
SessionKey(at, m, c) == ResponderEnd(Key(at), m, EphemeralKey("r", c)).ck

\* The key that an end of connection c sends with.
KeyOf(end, t, c) == <<SessionKey(t.at, t.msg1, c), IF end = "dialer" THEN 1 ELSE 2>>

\* n frames sealed under one key and the counters from 0.
Stream(key, n) == [i \in 1..n |-> [key |-> key, ctr |-> i - 1]]

\* A connection t has its messages once it is opened, and ends dl and ac after that.
LinkType(t, dl, ac, fr) ==
  /\ t = [at |-> t.at, broken |-> t.broken, msg1 |-> t.msg1, msg2 |-> t.msg2]
  /\ t.at = None => dl.pc = "off" /\ ac.pc = "off" /\ t.msg2 = None
  /\ t.at # None => t.at \in Endpoint /\ IsMessage1(t.msg1)
  /\ t.msg1 # None => t.at # None
  /\ fr = [dialer |-> fr.dialer, acceptor |-> fr.acceptor]

\* An end that is open has the keys of its connection, and its counters are the frames it sent and took.
ConnOK(e, end, t, c, n) ==
  /\ e = [pc |-> e.pc, remote |-> e.remote, send |-> e.send, recv |-> e.recv,
          sendCtr |-> e.sendCtr, recvCtr |-> e.recvCtr, read |-> e.read]
  /\ e.send = KeyOf(end, t, c) /\ e.recv = KeyOf(Other(end), t, c)
  /\ e.sendCtr = n /\ e.recvCtr = e.read /\ e.read \in Nat

\* What an end has sent is a stream under its key, begun once it was open.
EndOK(e, end, t, c, sent) ==
  /\ e.pc = "open" => ConnOK(e, end, t, c, Len(sent))
  /\ e.pc \in {"off", "reply"} => Len(sent) = 0
  /\ Len(sent) \in Nat /\ sent = Stream(KeyOf(end, t, c), Len(sent))

\* The message was opened by the endpoint it was written for, and is stamped no later than the last one seen.
Passed(t, seen) ==
  /\ t.msg1 # None /\ t.msg1.static.ad = ResponderStatic(Key(t.at), t.msg1).h
  /\ t.msg1.stamp.plain <= seen[t.at][t.msg1.static.plain[2]]

\* What each end knows of the other at its point of the handshake.
HandshakeSound(c, t, dl, ac, seen) ==
  /\ ac.pc \in {"reply", "open"} => Passed(t, seen) /\ Key(ac.remote) = t.msg1.static.plain
  /\ t.msg2 # None => Passed(t, seen) /\ ac.pc \in {"open", "failed"} /\ t.msg2.empty.key = SessionKey(t.at, t.msg1, c)
  /\ dl.pc = "reply" => t.msg1.static.ad = InitiatorStatic(EphemeralKey("i", c), Key(dl.to)).h
  /\ dl.pc = "open" => ac.pc \in {"open", "failed"} /\ t.at = dl.remote

LinkInv(c, t, dl, ac, fr, seen) ==
  /\ LinkType(t, dl, ac, fr) /\ HandshakeSound(c, t, dl, ac, seen)
  /\ EndOK(dl, "dialer", t, c, fr.dialer) /\ EndOK(ac, "acceptor", t, c, fr.acceptor)

ChannelType ==
  /\ clock \in Nat /\ lastSeen \in [Endpoint -> [Static -> Nat]]
  /\ DOMAIN tcp = Connection /\ DOMAIN dialer = Connection
  /\ DOMAIN acceptor = Connection /\ DOMAIN frames = Connection

ChannelInv ==
  /\ ChannelType /\ OncePerInitiation /\ ~badFrame
  /\ \A c \in Connection : LinkInv(c, tcp[c], dialer[c], acceptor[c], frames[c], lastSeen)
==============================================================================
