-------------------------------- MODULE Timers --------------------------------
(***************************************************************************)
(* The timers of a peer (timers.go) and the handlers that set and delete      *)
(* them: sending and receiving of data, keepalives and handshake messages     *)
(* (send.go, receive.go), Start and Stop (peer.go).                          *)
(*                                                                         *)
(* Time passes in ticks; a timer holds the ticks left, and its callback runs   *)
(* when none are.  A handler is a function from the peer's record to the       *)
(* next one, as it is a method in the code; e holds what a step picks: the    *)
(* jitter, the persistent interval, whether the keypair is due for a rekey.    *)
(***************************************************************************)
EXTENDS Integers, FiniteSetsExt

CONSTANTS
  Rekey, Keepalive,                \* the ranges of timings.rekeyTimeoutSec and keepaliveTimeoutSec
  ExpireTime,                      \* keychainExpireTime
  Jitter, Interval,                \* the jitters, the range of persistentKeepaliveInterval
  MaxAttempts,                     \* maxHandshakeAttempts
  MaxLate                          \* bound: timers set by handlers that a Stop overtook

\* A range has a least and a greatest member, and does not include zero.
ASSUME TimesAssumption ==
  /\ Rekey \subseteq Nat \ {0} /\ Keepalive \subseteq Nat \ {0} /\ Interval \subseteq Nat \ {0}
  /\ Jitter \subseteq Nat /\ ExpireTime \in Nat \ {0} /\ MaxAttempts \in Nat
  /\ \A range \in {Rekey, Keepalive, Jitter} :
       \E lo, hi \in range : \A n \in range : lo <= n /\ n <= hi

VARIABLES
  peer,   \* the peer: see Init
  late,   \* how many timers were set by handlers that a Stop overtook
  stray   \* history: how many initiations a stopped peer sent

vars == <<peer, late, stray>>

Timer == {"retransmitHandshake", "sendKeepalive", "newHandshake", "zeroKeyMaterial", "persistentKeepalive"}

Off == -1

Choice == [rekey : Rekey, keepalive : Keepalive, interval : Interval, jitter : Jitter, old : BOOLEAN]

retransmitHandshakeTimeout(e) == e.rekey

sendKeepaliveTimeout(e) == e.keepalive

newHandshakeTimeout(e) == Max(Keepalive) + e.rekey

rekeyMinTimeout == Min(Rekey)

keychainExpireTime == ExpireTime

-----------------------------------------------------------------------------
(* Timer, and the functions that say what happened                           *)

Mod(s, t, d) == [s EXCEPT !.left[t] = d]

Del(s, t) == [s EXCEPT !.left[t] = Off]

IsPending(s, t) == s.left[t] # Off

\* Mutant: data sent pushes the timer back even if it is pending.
timersDataSent_Restarts(s, e) ==
  LET h == IF s.unheard = Off THEN [s EXCEPT !.unheard = 0] ELSE s IN
  IF s.running THEN Mod(h, "newHandshake", newHandshakeTimeout(e) + e.jitter) ELSE h

timersDataSent(s, e) ==
  LET h == IF s.unheard = Off THEN [s EXCEPT !.unheard = 0] ELSE s IN
  IF s.running /\ ~IsPending(s, "newHandshake")
  THEN Mod(h, "newHandshake", newHandshakeTimeout(e) + e.jitter) ELSE h

\* Mutant: data received pushes the keepalive back even if it is pending.
timersDataReceived_Restarts(s, e) ==
  LET h == IF s.owed = Off THEN [s EXCEPT !.owed = 0] ELSE s IN
  IF s.running THEN Mod(h, "sendKeepalive", sendKeepaliveTimeout(e)) ELSE h

timersDataReceived(s, e) ==
  LET h == IF s.owed = Off THEN [s EXCEPT !.owed = 0] ELSE s IN
  IF ~s.running THEN h
  ELSE IF IsPending(s, "sendKeepalive") THEN [h EXCEPT !.needAnotherKeepalive = TRUE]
  ELSE Mod(h, "sendKeepalive", sendKeepaliveTimeout(e))

timersAnyAuthenticatedPacketSent(s) ==
  LET h == [s EXCEPT !.owed = Off] IN IF s.running THEN Del(h, "sendKeepalive") ELSE h

timersAnyAuthenticatedPacketReceived(s) ==
  LET h == [s EXCEPT !.unheard = Off] IN IF s.running THEN Del(h, "newHandshake") ELSE h

timersHandshakeInitiated(s, e) ==
  IF s.running THEN Mod(s, "retransmitHandshake", retransmitHandshakeTimeout(e) + e.jitter) ELSE s

timersHandshakeComplete(s) ==
  LET t == IF s.running THEN Del(s, "retransmitHandshake") ELSE s IN
  [t EXCEPT !.handshakeAttempts = 0, !.sentLastMinuteHandshake = FALSE]

timersSessionDerived(s) == IF s.running THEN Mod(s, "zeroKeyMaterial", 3 * keychainExpireTime) ELSE s

timersAnyAuthenticatedPacketTraversal(s, e) ==
  IF s.persistent /\ s.running THEN Mod(s, "persistentKeepalive", e.interval) ELSE s

-----------------------------------------------------------------------------
(* Sending                                                                   *)

\* Mutant: an initiation does not count as a packet that puts off the persistent keepalive.
SendHandshakeInitiation_NoTraversal(s, e, isRetry) ==
  LET r == IF isRetry THEN s ELSE [s EXCEPT !.handshakeAttempts = 0]
      sent == [r EXCEPT !.sinceHandshake = 0, !.initiated = TRUE, !.unheard = Off] IN
  IF r.sinceHandshake < rekeyMinTimeout THEN r
  ELSE timersHandshakeInitiated(timersAnyAuthenticatedPacketSent(sent), e)

\* Nothing is sent if a handshake message was within the last rekeyMinTimeout.
SendHandshakeInitiation(s, e, isRetry) ==
  LET r == IF isRetry THEN s ELSE [s EXCEPT !.handshakeAttempts = 0]
      sent == [r EXCEPT !.sinceHandshake = 0, !.initiated = TRUE, !.unheard = Off] IN
  IF r.sinceHandshake < rekeyMinTimeout THEN r
  ELSE timersHandshakeInitiated(
         timersAnyAuthenticatedPacketSent(timersAnyAuthenticatedPacketTraversal(sent, e)), e)

\* Staged packets are sent with the current keypair, by way of RoutineSequentialSender, which rekeys
\* one that is old; without a live keypair a handshake is initiated.
SendStagedPackets(s, e) ==
  IF s.staged = "none" \/ ~s.running THEN s
  ELSE IF s.current # "live" THEN SendHandshakeInitiation(s, e, FALSE)
  ELSE LET t == timersAnyAuthenticatedPacketSent(
                  timersAnyAuthenticatedPacketTraversal([s EXCEPT !.staged = "none"], e))
           u == IF s.staged = "data" THEN timersDataSent(t, e) ELSE t IN
       IF e.old THEN SendHandshakeInitiation(u, e, FALSE) ELSE u

SendKeepalive(s, e) ==
  SendStagedPackets(IF s.staged = "none" /\ s.running THEN [s EXCEPT !.staged = "keepalive"] ELSE s, e)

ReadFromTUN(e) ==
  /\ peer.running
  /\ peer' = SendStagedPackets([peer EXCEPT !.staged = "data"], e)
  /\ UNCHANGED <<late, stray>>

-----------------------------------------------------------------------------
(* Receiving                                                                 *)

\* RoutineHandshake, with an initiation: it is answered, and a keypair derived that is yet to be confirmed.
ConsumeInitiation(e) ==
  /\ peer.running
  /\ LET s == timersAnyAuthenticatedPacketReceived(timersAnyAuthenticatedPacketTraversal(peer, e))
         t == [s EXCEPT !.sinceHandshake = 0, !.initiated = FALSE, !.next = "live"] IN
     peer' = timersAnyAuthenticatedPacketSent(
               timersAnyAuthenticatedPacketTraversal(timersSessionDerived(t), e))
  /\ UNCHANGED <<late, stray>>

\* RoutineHandshake, with the response to the last initiation.
ConsumeResponse(e) ==
  /\ peer.running /\ peer.initiated
  /\ LET s == timersAnyAuthenticatedPacketReceived(timersAnyAuthenticatedPacketTraversal(peer, e))
         t == [s EXCEPT !.initiated = FALSE, !.current = "live", !.next = "none"] IN
     peer' = SendKeepalive(timersHandshakeComplete(timersSessionDerived(t)), e)
  /\ UNCHANGED <<late, stray>>

keepKeyFreshReceiving(s, e) ==
  IF e.old /\ ~s.sentLastMinuteHandshake
  THEN SendHandshakeInitiation([s EXCEPT !.sentLastMinuteHandshake = TRUE], e, FALSE) ELSE s

\* RoutineSequentialReceiver: the first packet under the next keypair confirms it.
ReceivePacket(e, isData) ==
  /\ peer.running /\ (peer.current # "none" \/ peer.next # "none")
  /\ \E confirms \in BOOLEAN :
       /\ IF confirms THEN peer.next # "none" ELSE peer.current # "none"
       /\ LET s == IF confirms
                   THEN SendStagedPackets(timersHandshakeComplete([peer EXCEPT !.current = peer.next, !.next = "none"]), e)
                   ELSE peer
              t == timersAnyAuthenticatedPacketReceived(
                     timersAnyAuthenticatedPacketTraversal(keepKeyFreshReceiving(s, e), e)) IN
          peer' = IF isData THEN timersDataReceived(t, e) ELSE t
  /\ UNCHANGED <<late, stray>>

\* The current keypair reaches its age or its message limit.
Expire ==
  /\ peer.current = "live"
  /\ peer' = [peer EXCEPT !.current = "spent"]
  /\ UNCHANGED <<late, stray>>

Spent(k) == IF k = "live" THEN "spent" ELSE k

\* SetPrivateKey makes the peers begin anew: no keypair may send, and a handshake may begin at once.
ExpireCurrentKeypairs ==
  /\ peer.running
  /\ peer' = [peer EXCEPT !.initiated = FALSE, !.sinceHandshake = rekeyMinTimeout,
                          !.current = Spent(@), !.next = Spent(@)]
  /\ UNCHANGED <<late, stray>>

-----------------------------------------------------------------------------
(* The timers' callbacks                                                     *)

FlushStagedPackets(s) == [s EXCEPT !.staged = "none"]

ZeroAndFlushAll(s) ==
  FlushStagedPackets([s EXCEPT !.current = "none", !.next = "none", !.initiated = FALSE])

\* Mutant: nothing is set to destroy the residue of a handshake given up.
expiredRetransmitHandshake_NoResidue(s, e) ==
  IF s.handshakeAttempts > MaxAttempts
  THEN FlushStagedPackets(IF s.running THEN Del([s EXCEPT !.owed = Off], "sendKeepalive") ELSE s)
  ELSE SendHandshakeInitiation([s EXCEPT !.handshakeAttempts = @ + 1], e, TRUE)

expiredRetransmitHandshake(s, e) ==
  IF s.handshakeAttempts > MaxAttempts
  THEN LET t == IF s.running THEN Del([s EXCEPT !.owed = Off], "sendKeepalive") ELSE s
           u == FlushStagedPackets(t) IN
       IF s.running /\ ~IsPending(u, "zeroKeyMaterial") THEN Mod(u, "zeroKeyMaterial", 3 * keychainExpireTime) ELSE u
  ELSE SendHandshakeInitiation([s EXCEPT !.handshakeAttempts = @ + 1], e, TRUE)

expiredSendKeepalive(s, e) ==
  LET t == SendKeepalive(s, e)
      u == [t EXCEPT !.needAnotherKeepalive = FALSE] IN
  IF t.needAnotherKeepalive /\ t.running THEN Mod(u, "sendKeepalive", sendKeepaliveTimeout(e)) ELSE u

expiredNewHandshake(s, e) == SendHandshakeInitiation(s, e, FALSE)

expiredZeroKeyMaterial(s) == ZeroAndFlushAll(s)

expiredPersistentKeepalive(s, e) == IF s.persistent THEN SendKeepalive(s, e) ELSE s

\* NewTimer's function: the timer is no longer pending when the callback runs.
Fire(t, e) ==
  /\ peer.left[t] = 0
  /\ LET s == Del(peer, t) IN
     peer' = CASE t = "retransmitHandshake" -> expiredRetransmitHandshake(s, e)
               [] t = "sendKeepalive" -> expiredSendKeepalive(s, e)
               [] t = "newHandshake" -> expiredNewHandshake(s, e)
               [] t = "zeroKeyMaterial" -> expiredZeroKeyMaterial(s)
               [] t = "persistentKeepalive" -> expiredPersistentKeepalive(s, e)
  /\ stray' = IF ~peer.running /\ peer'.sinceHandshake < peer.sinceHandshake THEN stray + 1 ELSE stray
  /\ UNCHANGED late

-----------------------------------------------------------------------------
(* Start, Stop, time                                                         *)

NoTimers == [t \in Timer |-> Off]

timersStart(s) ==
  [s EXCEPT !.handshakeAttempts = 0, !.sentLastMinuteHandshake = FALSE, !.needAnotherKeepalive = FALSE]

\* Start, then the keepalive that upLocked sends.
Started(s, e) ==
  LET t == timersStart([s EXCEPT !.running = TRUE, !.sinceHandshake = rekeyMinTimeout]) IN
  IF t.persistent THEN SendKeepalive(t, e) ELSE t

Start(e) ==
  /\ ~peer.running
  /\ peer' = Started(peer, e)
  /\ UNCHANGED <<late, stray>>

\* Stop: timersStop deletes the timers and waits for callbacks, ZeroAndFlushAll comes last.
Stop ==
  /\ peer.running
  /\ peer' = ZeroAndFlushAll([peer EXCEPT !.running = FALSE, !.left = NoTimers, !.owed = Off, !.unheard = Off])
  /\ UNCHANGED <<late, stray>>

\* A handler that found the timers active before a Stop sets a timer after it.
LateMod(t) ==
  /\ ~peer.running /\ late < MaxLate /\ ~IsPending(peer, t)
  /\ peer' = Mod(peer, t, rekeyMinTimeout)
  /\ late' = late + 1
  /\ UNCHANGED stray

Older(n) == IF n = Off THEN Off ELSE n + 1

Tick ==
  /\ \A t \in Timer : peer.left[t] # 0
  /\ peer' = [peer EXCEPT !.left = [t \in Timer |-> IF @[t] = Off THEN Off ELSE @[t] - 1],
                          !.sinceHandshake = IF @ < rekeyMinTimeout THEN @ + 1 ELSE @,
                          !.owed = Older(@), !.unheard = Older(@)]
  /\ UNCHANGED <<late, stray>>

NewPeer(persistent) ==
  [running |-> FALSE,                         \* isRunning, with the device up
   persistent |-> persistent,                 \* persistentKeepaliveInterval is set
   left |-> NoTimers, handshakeAttempts |-> 0,
   needAnotherKeepalive |-> FALSE, sentLastMinuteHandshake |-> FALSE,
   sinceHandshake |-> rekeyMinTimeout,        \* ticks since lastSentHandshake, up to rekeyMinTimeout
   current |-> "none", next |-> "none",       \* keypairs: none, live or spent
   initiated |-> FALSE, staged |-> "none",    \* a response is awaited; what is staged
   owed |-> Off,      \* history: ticks since data was received and nothing sent
   unheard |-> Off]   \* history: ticks since data was sent and neither answered nor followed by an initiation

Init ==
  /\ \E persistent \in BOOLEAN, e \in Choice : peer = Started(NewPeer(persistent), e)
  /\ late = 0 /\ stray = 0

Next ==
  \/ \E e \in Choice :
       \/ ReadFromTUN(e) \/ ConsumeInitiation(e) \/ ConsumeResponse(e) \/ Start(e)
       \/ \E isData \in BOOLEAN : ReceivePacket(e, isData)
       \/ \E t \in Timer : Fire(t, e)
  \/ Expire \/ ExpireCurrentKeypairs \/ Stop \/ Tick
  \/ \E t \in Timer : LateMod(t)

Spec == Init /\ [][Next]_vars

-----------------------------------------------------------------------------
\* No keepalive timeout is shorter than the time for which SendHandshakeInitiation holds initiations back.  So it
\* is by default, but keepalive_timeout and rekey_timeout are set independently and without a check.
KeepaliveOutlastsRekey == \A k \in Keepalive : k >= rekeyMinTimeout

\* The same of persistent_keepalive_interval, which is not checked either.
IntervalOutlastsRekey == \A k \in Interval : k >= rekeyMinTimeout

\* Data received is followed by an authenticated packet sent within the keepalive timeout, be it a keepalive
\* or, if no keypair may send any more, an initiation; unless the peer gave up a handshake meanwhile.  With a
\* shorter keepalive timeout the initiation may be held back, and nothing is sent.
DataAnswered == KeepaliveOutlastsRekey /\ peer.running => peer.owed <= Max(Keepalive)

\* Data sent is followed by a packet received, or by an initiation sent, within the keepalive and rekey
\* timeouts and the jitter: a peer that went silent is noticed.
SilenceNoticed == peer.running => peer.unheard <= Max(Keepalive) + Max(Rekey) + Max(Jitter)

\* A running peer with a persistent keepalive is never left without a timer that makes it send,
\* whatever was given up, held back by rekeyMinTimeout or expired.  With a shorter interval it may run out
\* while initiations are held back, and is not set again once the handshake is given up.
KeepsTrying ==
  IntervalOutlastsRekey /\ peer.running /\ peer.persistent =>
    IsPending(peer, "persistentKeepalive") \/ IsPending(peer, "retransmitHandshake")

\* A running peer that holds keys, or the state of a handshake begun, has a timer that leads to their
\* removal; save for the handshake that a straggler began while the peer was stopped.
KeysWillGo ==
  peer.running /\ (peer.current # "none" \/ peer.next # "none" \/ (peer.initiated /\ stray = 0)) =>
    IsPending(peer, "zeroKeyMaterial") \/ IsPending(peer, "retransmitHandshake")

==============================================================================
