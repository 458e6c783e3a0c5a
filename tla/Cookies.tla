------------------------------- MODULE Cookies -------------------------------
(***************************************************************************)
(* What a handshake message meets before it is consumed (RoutineHandshake,   *)
(* IsUnderLoad, cookie.go): under load the handshake workers ask for a       *)
(* cookie bound to the source address, and answer a message without one.     *)
(*                                                                         *)
(* Clients send initiations from any address; CookieGenerator adds the       *)
(* cookie it holds.  A cookie is the secret it was derived from and the       *)
(* address it was derived for; a secret is the number of its drawing, and 0   *)
(* the zero value before the first.  The rate limiter that a message with a  *)
(* good cookie goes on to is in Ratelimiter.                                *)
(***************************************************************************)
EXTENDS Integers, Sequences, FiniteSets

CONSTANTS
  Worker, Client, Addr,           \* handshake workers, sending peers, source addresses
  QueueSize, LoadMark,            \* QueueHandshakeSize, and the length that means load
  UnderLoadAfter, CookieRefresh,  \* UnderLoadAfterTime, CookieRefreshTime
  MaxTime, MaxMessage, MaxInit    \* bounds: the clock, messages sent, changes of the private key

ASSUME LoadAssumption == LoadMark \in 1..QueueSize /\ UnderLoadAfter \in Nat /\ CookieRefresh \in Nat

VARIABLES
  now,             \* the clock
  sent,            \* how many initiations were sent
  handshake,       \* device.queue.handshake.c
  underLoadUntil,  \* device.rate.underLoadUntil
  checker,         \* cookieChecker.mac2: the secret and when it was set
  worker,          \* RoutineHandshake: where it is, and the message in work
  generator,       \* per client, cookieGenerator.mac2
  replies,         \* cookie replies on their way
  inits,           \* how often the private key was changed
  issued,          \* history: the cookies derived, with the time
  admitted         \* history: what was let through under load, with the time

cookieVars == <<now, sent, handshake, underLoadUntil, checker, worker, generator, replies, inits, issued,
                admitted>>

Never == -(CookieRefresh + 1)  \* the zero time.Time: any time since is longer than CookieRefresh

NoCookie == [secret |-> 0, addr |-> 0]

Idle == [pc |-> "idle", msg |-> 0]

-----------------------------------------------------------------------------
(* CookieGenerator                                                           *)

\* AddMacs: the MAC1 of an initiation is its number; MAC2 is there if the cookie is fresh.
Macs(c, src) ==
  [client |-> c, src |-> src, mac1 |-> sent + 1,
   cookie |-> IF now - generator[c].cookieSet > CookieRefresh THEN NoCookie ELSE generator[c].cookie]

\* An initiation is sent and, at the other end, queued or lost to a full queue.
AddMacs(c, src) ==
  /\ sent < MaxMessage /\ sent' = sent + 1
  /\ generator' = [generator EXCEPT ![c].lastMAC1 = sent + 1]
  /\ \/ Len(handshake) < QueueSize /\ handshake' = Append(handshake, Macs(c, src))
     \/ Len(handshake) = QueueSize /\ UNCHANGED handshake
  /\ UNCHANGED <<now, underLoadUntil, checker, worker, replies, inits, issued, admitted>>

\* A reply arrives.  It opens only with the MAC1 of the last initiation.
ConsumeReply(reply) ==
  /\ replies' = replies \ {reply}
  /\ generator' = IF generator[reply.client].lastMAC1 = reply.mac1
                  THEN [generator EXCEPT ![reply.client] =
                          [cookie |-> reply.cookie, cookieSet |-> now,
                            lastMAC1 |-> generator[reply.client].lastMAC1]]
                  ELSE generator
  /\ UNCHANGED <<now, sent, handshake, underLoadUntil, checker, worker, inits, issued, admitted>>

-----------------------------------------------------------------------------
(* RoutineHandshake, up to the limiter                                       *)

\* IsUnderLoad, with the message taken from the queue.
Crowded == Len(handshake) - 1 >= LoadMark

IsUnderLoad == Crowded \/ underLoadUntil > now

Stale == now - checker.secretSet > CookieRefresh

\* Mutant: the cookie is derived without the source address.
CheckMAC2_AnySource(msg) == ~Stale /\ msg.cookie.secret = checker.secret

CheckMAC2(msg) == ~Stale /\ msg.cookie = [secret |-> checker.secret, addr |-> msg.src]

\* A worker takes a message, and drops it if its MAC1 is wrong.  Without load it is let through;
\* under load, with a good cookie.  Else the worker answers with one.
TakeHandshake(w) ==
  /\ worker[w].pc = "idle" /\ handshake # <<>>
  /\ handshake' = Tail(handshake)
  /\ LET msg == Head(handshake) IN
     \/ UNCHANGED <<underLoadUntil, worker, admitted>>
     \/ /\ underLoadUntil' = IF Crowded THEN now + UnderLoadAfter ELSE underLoadUntil
        /\ \/ ~IsUnderLoad /\ UNCHANGED <<worker, admitted>>
           \/ /\ IsUnderLoad /\ CheckMAC2(msg)
              /\ admitted' = admitted \cup {[src |-> msg.src, cookie |-> msg.cookie, at |-> now]}
              /\ UNCHANGED worker
           \/ /\ IsUnderLoad /\ ~CheckMAC2(msg)
              /\ worker' = [worker EXCEPT ![w] = [pc |-> "reply", msg |-> msg]]
              /\ UNCHANGED admitted
  /\ UNCHANGED <<now, sent, checker, generator, replies, inits, issued>>

\* CreateReply: the secret is found stale under the read lock, and drawn under the write lock, which
\* is taken afterwards; then the cookie is derived under the read lock again.
Derive(w) ==
  LET msg == worker[w].msg
      cookie == [secret |-> checker.secret, addr |-> msg.src] IN
  /\ replies' = replies \cup {[client |-> msg.client, mac1 |-> msg.mac1, cookie |-> cookie]}
  /\ issued' = issued \cup {[cookie |-> cookie, at |-> now]}
  /\ worker' = [worker EXCEPT ![w] = Idle]

CreateReply(w) ==
  /\ worker[w].pc = "reply"
  /\ \/ ~Stale /\ Derive(w)
     \/ Stale /\ worker' = [worker EXCEPT ![w].pc = "refresh"] /\ UNCHANGED <<replies, issued>>
  /\ UNCHANGED <<now, sent, handshake, underLoadUntil, checker, generator, inits, admitted>>

RefreshSecret(w) ==
  /\ worker[w].pc = "refresh"
  /\ checker' = [secret |-> checker.secret + 1, secretSet |-> now]
  /\ worker' = [worker EXCEPT ![w].pc = "derive"]
  /\ UNCHANGED <<now, sent, handshake, underLoadUntil, generator, replies, inits, issued, admitted>>

DeriveCookie(w) ==
  /\ worker[w].pc = "derive" /\ Derive(w)
  /\ UNCHANGED <<now, sent, handshake, underLoadUntil, checker, generator, inits, admitted>>

\* CookieChecker.Init, when the device gets another private key: the secret is to be drawn anew.
CheckerInit ==
  /\ inits < MaxInit /\ inits' = inits + 1
  /\ checker' = [checker EXCEPT !.secretSet = Never]
  /\ UNCHANGED <<now, sent, handshake, underLoadUntil, worker, generator, replies, issued, admitted>>

\* A worker is not held up across a tick in the middle of CreateReply.
CookieTick ==
  /\ now < MaxTime /\ \A w \in Worker : worker[w].pc \notin {"refresh", "derive"}
  /\ now' = now + 1
  /\ UNCHANGED <<sent, handshake, underLoadUntil, checker, worker, generator, replies, inits, issued,
                 admitted>>

CookieInit ==
  /\ now = 0 /\ sent = 0 /\ handshake = <<>> /\ underLoadUntil = 0
  /\ checker = [secret |-> 0, secretSet |-> Never]
  /\ worker = [w \in Worker |-> Idle]
  /\ generator = [c \in Client |-> [cookie |-> NoCookie, cookieSet |-> Never, lastMAC1 |-> 0]]
  /\ replies = {} /\ inits = 0 /\ issued = {} /\ admitted = {}

CookieNext ==
  \/ \E c \in Client, src \in Addr : AddMacs(c, src)
  \/ \E reply \in replies : ConsumeReply(reply)
  \/ \E w \in Worker : TakeHandshake(w) \/ CreateReply(w) \/ RefreshSecret(w) \/ DeriveCookie(w)
  \/ CheckerInit \/ CookieTick

CookieSpec == CookieInit /\ [][CookieNext]_cookieVars

-----------------------------------------------------------------------------
\* A message let through under load bears a cookie that was derived for its own source address, from a
\* secret that was drawn, and that is not older than CookieRefreshTime by the checker's own clock; so
\* the peer does receive at that address.
AdmittedHasCookie ==
  \A m \in admitted : \E k \in issued :
    /\ k.cookie = m.cookie /\ k.cookie.addr = m.src /\ k.cookie.secret # 0
    /\ k.at \in (m.at - CookieRefresh)..m.at

==============================================================================
