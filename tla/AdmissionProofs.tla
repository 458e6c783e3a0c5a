--------------------------- MODULE AdmissionProofs ---------------------------
(***************************************************************************)
(* AdmittedHasCookie holds of the cookie checker for any number of workers,   *)
(* clients, addresses and messages, and any refresh time; LimiterMoves holds  *)
(* of the rate limiter for any number of workers and addresses, and any cost, *)
(* burst and garbage-collection period.                                     *)
(***************************************************************************)
EXTENDS Cookies, Ratelimiter, FiniteSetTheorems, TLAPS

Cookie == [secret : Nat, addr : Addr \cup {0}]

Message == [client : Client, src : Addr, mac1 : Nat, cookie : Cookie]

CookieType ==
  /\ now \in Nat /\ sent \in Nat
  /\ handshake \in Seq(Message)
  /\ checker \in [secret : Nat, secretSet : Int]
  /\ worker \in [Worker -> [pc : {"idle", "reply", "refresh", "derive"}, msg : Message \cup {0}]]
  /\ \A w \in Worker : worker[w].pc # "idle" => worker[w].msg \in Message
  /\ generator \in [Client -> [cookie : Cookie, cookieSet : Int, lastMAC1 : Nat]]
  /\ replies \subseteq [client : Client, mac1 : Nat, cookie : Cookie]
  /\ issued \subseteq [cookie : Cookie, at : Nat]

\* The secret was drawn before now, if at all; and before a cookie is derived.
SecretDrawn ==
  /\ checker.secretSet <= now
  /\ checker.secret = 0 => checker.secretSet = Never
  /\ \A w \in Worker : worker[w].pc = "derive" => checker.secret # 0

\* A cookie bears a secret drawn so far, and one with the present secret was derived since it was set.
IssuedInTime ==
  \A k \in issued :
    /\ k.at <= now /\ k.cookie.secret # 0 /\ k.cookie.secret <= checker.secret
    /\ k.cookie.secret = checker.secret => checker.secretSet <= k.at

Known(cookie) == cookie = NoCookie \/ \E k \in issued : k.cookie = cookie

\* The cookies of messages, generators and replies are none other than those derived.
CookiesKnown ==
  /\ \A i \in 1..Len(handshake) : Known(handshake[i].cookie)
  /\ \A c \in Client : Known(generator[c].cookie)
  /\ \A r \in replies : Known(r.cookie)

\* The inductive invariant.
CookieInv == CookieType /\ SecretDrawn /\ IssuedInTime /\ CookiesKnown /\ AdmittedHasCookie

\* The invariant holds of a new device.
LEMMA CookieInitInv == CookieInit => CookieInv
BY LoadAssumption
   DEF CookieInit, CookieInv, CookieType, SecretDrawn, IssuedInTime, CookiesKnown, AdmittedHasCookie, Known,
       Never, NoCookie, Idle, Cookie, Message

\* A message that is sent bears no cookie or one its client got.
LEMMA AddMacsInv ==
  ASSUME CookieInv, NEW c \in Client, NEW src \in Addr, AddMacs(c, src) PROVE CookieInv'
<1> USE DEF CookieInv
<1>1. Macs(c, src) \in Message /\ Known(Macs(c, src).cookie)
  BY DEF Macs, Message, Cookie, CookieType, CookiesKnown, Known, NoCookie
<1>2. /\ generator' = [generator EXCEPT ![c].lastMAC1 = sent + 1] /\ sent' = sent + 1
      /\ handshake' = Append(handshake, Macs(c, src)) \/ handshake' = handshake
      /\ UNCHANGED <<now, checker, worker, replies, issued, admitted>>
  BY Zenon DEF AddMacs
<1>3. CookieType'
  <2>1. handshake' \in Seq(Message)
    <3>1. \A q \in Seq(Message), m \in Message : Append(q, m) \in Seq(Message)
      OBVIOUS
    <3>2. handshake \in Seq(Message)
      BY Zenon DEF CookieType
    <3> HIDE DEF CookieInv
    <3> QED BY <1>1, <1>2, <3>1, <3>2, Zenon
  <2>2. generator' \in [Client -> [cookie : Cookie, cookieSet : Int, lastMAC1 : Nat]] /\ sent' \in Nat
    <3>1. sent + 1 \in Nat /\ generator \in [Client -> [cookie : Cookie, cookieSet : Int, lastMAC1 : Nat]]
      BY DEF CookieType
    <3> HIDE DEF CookieInv
    <3> QED BY <1>2, <3>1, Zenon
  <2> QED BY <1>2, <2>1, <2>2, Zenon DEF CookieType
<1>4. SecretDrawn' /\ IssuedInTime' /\ AdmittedHasCookie'
  BY <1>2, Zenon DEF SecretDrawn, IssuedInTime, AdmittedHasCookie, Never
<1>5. CookiesKnown'
  <2>1. \A i \in 1..Len(handshake') : Known(handshake'[i].cookie)
    BY <1>1, <1>2 DEF CookieType, CookiesKnown
  <2>2. \A d \in Client : generator'[d].cookie = generator[d].cookie
    BY <1>2, Zenon DEF CookieType
  <2> QED BY <1>2, <2>1, <2>2 DEF CookiesKnown, Known
<1> QED BY <1>3, <1>4, <1>5, Zenon

\* A reply that arrives gives its client a cookie that was derived.
LEMMA ConsumeReplyInv ==
  ASSUME CookieInv, NEW reply \in replies, ConsumeReply(reply) PROVE CookieInv'
<1> USE DEF CookieInv
<1>1. /\ generator' = [generator EXCEPT ![reply.client] =
                         [cookie |-> reply.cookie, cookieSet |-> now, lastMAC1 |-> generator[reply.client].lastMAC1]]
           \/ generator' = generator
      /\ replies' \subseteq replies
      /\ UNCHANGED <<now, sent, handshake, checker, worker, issued, admitted>>
  BY Zenon DEF ConsumeReply
<1>2. reply.client \in Client /\ reply.cookie \in Cookie /\ reply.mac1 \in Nat /\ Known(reply.cookie)
  BY Zenon DEF CookieType, CookiesKnown
<1>3. CookieType'
  <2>1. generator' \in [Client -> [cookie : Cookie, cookieSet : Int, lastMAC1 : Nat]]
    <3> DEFINE G == [cookie : Cookie, cookieSet : Int, lastMAC1 : Nat]
    <3>1. /\ [cookie |-> reply.cookie, cookieSet |-> now, lastMAC1 |-> generator[reply.client].lastMAC1] \in G
          /\ generator \in [Client -> G]
      BY <1>2 DEF CookieType
    <3> HIDE DEF G
    <3>2. generator' \in [Client -> G]
      BY <1>1, <1>2, <3>1, Zenon
    <3> QED BY <3>2, Zenon DEF G
  <2> QED BY <1>1, <2>1, Zenon DEF CookieType
<1>4. SecretDrawn' /\ IssuedInTime' /\ AdmittedHasCookie'
  BY <1>1, Zenon DEF SecretDrawn, IssuedInTime, AdmittedHasCookie, Never
<1>5. CookiesKnown'
  <2>1. ASSUME NEW d \in Client PROVE generator'[d].cookie \in {generator[d].cookie, reply.cookie}
    BY <1>1, <1>2 DEF CookieType
  <2> QED BY <1>1, <1>2, <2>1, Zenon DEF CookiesKnown, Known
<1> QED BY <1>3, <1>4, <1>5, Zenon

\* A message is let through under load only if its cookie was derived since the secret was set.
LEMMA TakeHandshakeInv ==
  ASSUME CookieInv, NEW w \in Worker, TakeHandshake(w) PROVE CookieInv'
<1> USE DEF CookieInv
<1> DEFINE msg == Head(handshake)
           taken == [src |-> msg.src, cookie |-> msg.cookie, at |-> now]
<1>1. /\ handshake # <<>> /\ handshake' = Tail(handshake)
      /\ \/ worker' = worker
         \/ worker' = [worker EXCEPT ![w] = [pc |-> "reply", msg |-> msg]]
      /\ \/ admitted' = admitted
         \/ CheckMAC2(msg) /\ admitted' = admitted \cup {taken}
      /\ UNCHANGED <<now, sent, checker, generator, replies, issued>>
  BY Zenon DEF TakeHandshake
<1>2. /\ msg \in Message /\ Known(msg.cookie) /\ handshake' \in Seq(Message)
      /\ \A i \in 1..Len(handshake') : handshake'[i] = handshake[i + 1] /\ i + 1 \in 1..Len(handshake)
  BY <1>1 DEF CookieType, CookiesKnown
<1>3. CookieType'
  <2>1. worker' \in [Worker -> [pc : {"idle", "reply", "refresh", "derive"}, msg : Message \cup {0}]]
    BY <1>1, <1>2 DEF CookieType
  <2>2. \A v \in Worker : worker'[v].pc # "idle" => worker'[v].msg \in Message
    BY <1>1, <1>2 DEF CookieType
  <2> QED BY <1>1, <1>2, <2>1, <2>2, Zenon DEF CookieType
<1>4. SecretDrawn'
  <2>1. \A v \in Worker : worker'[v].pc = "derive" => worker[v].pc = "derive"
    <3>1. worker \in [Worker -> [pc : {"idle", "reply", "refresh", "derive"}, msg : Message \cup {0}]]
      BY Zenon DEF CookieType
    <3> HIDE DEF CookieInv
    <3>2. CASE worker' = worker
      BY <3>2, Zenon
    <3>3. CASE worker' = [worker EXCEPT ![w] = [pc |-> "reply", msg |-> msg]]
      BY <3>1, <3>3, Zenon
    <3> QED BY <1>1, <3>2, <3>3, Zenon
  <2> QED BY <1>1, <2>1, Zenon DEF SecretDrawn, Never
<1>7. IssuedInTime'
  BY <1>1, Zenon DEF IssuedInTime
<1>5. CookiesKnown'
  BY <1>1, <1>2 DEF CookiesKnown, Known
<1>6. AdmittedHasCookie'
  <2>1. CASE admitted' = admitted
    BY <1>1, <2>1, Zenon DEF AdmittedHasCookie
  <2>2. CASE CheckMAC2(msg) /\ admitted' = admitted \cup {taken}
    <3>1. now - checker.secretSet <= CookieRefresh /\ msg.cookie = [secret |-> checker.secret, addr |-> msg.src]
      BY <2>2, LoadAssumption DEF CheckMAC2, Stale, CookieType
    <3>2. checker.secret # 0
      BY <3>1, LoadAssumption DEF SecretDrawn, Never, CookieType
    <3>3. PICK k \in issued : k.cookie = msg.cookie
      BY <1>2, <3>1, <3>2 DEF Known, NoCookie
    <3>4. k.cookie.secret = checker.secret /\ k.cookie.addr = msg.src
      BY <3>1, <3>3
    <3>5. k.at \in (now - CookieRefresh)..now
      BY <3>1, <3>4, LoadAssumption DEF IssuedInTime, CookieType
    <3> QED BY <1>1, <2>2, <3>2, <3>3, <3>4, <3>5 DEF AdmittedHasCookie
  <2> QED BY <1>1, <2>1, <2>2, Zenon
<1> QED BY <1>3, <1>4, <1>5, <1>6, <1>7, Zenon

\* A cookie is derived from a secret that was drawn, and counts as derived now.
LEMMA DeriveInv ==
  ASSUME CookieInv, NEW w \in Worker, worker[w].pc # "idle", checker.secret # 0, Derive(w),
         UNCHANGED <<now, sent, handshake, checker, generator, admitted>>
  PROVE  CookieInv'
<1> USE DEF CookieInv
<1> DEFINE msg == worker[w].msg
           cookie == [secret |-> checker.secret, addr |-> msg.src]
<1>1. /\ replies' = replies \cup {[client |-> msg.client, mac1 |-> msg.mac1, cookie |-> cookie]}
      /\ issued' = issued \cup {[cookie |-> cookie, at |-> now]}
      /\ worker' = [worker EXCEPT ![w] = Idle]
  BY Zenon DEF Derive
<1>2. msg \in Message /\ cookie \in Cookie
  BY Zenon DEF CookieType, Message, Cookie
<1>3. CookieType'
  <2>1. replies' \subseteq [client : Client, mac1 : Nat, cookie : Cookie]
    BY <1>1, <1>2 DEF CookieType, Message
  <2>2. issued' \subseteq [cookie : Cookie, at : Nat]
    BY <1>1, <1>2 DEF CookieType
  <2>3. /\ worker' \in [Worker -> [pc : {"idle", "reply", "refresh", "derive"}, msg : Message \cup {0}]]
        /\ \A v \in Worker : worker'[v].pc # "idle" => worker'[v].msg \in Message
    BY <1>1, Zenon DEF CookieType, Idle
  <2> QED BY <2>1, <2>2, <2>3, Zenon DEF CookieType
<1>4. SecretDrawn'
  BY Zenon DEF SecretDrawn, Never
<1>5. IssuedInTime'
  BY <1>1 DEF IssuedInTime, CookieType, SecretDrawn
<1>6. CookiesKnown'
  <2>1. \E k \in issued' : k.cookie = cookie
    <3>1. [cookie |-> cookie, at |-> now].cookie = cookie
      BY Zenon
    <3> QED BY <1>1, <3>1, Zenon
  <2>2. \A d : Known(d) => Known(d)'
    BY <1>1, Zenon DEF Known
  <2>3. \A r \in replies' : r \in replies \/ r.cookie = cookie
    BY <1>1
  <2>4. CookiesKnown /\ UNCHANGED <<handshake, generator>>
    BY Zenon
  <2>5. \A r \in replies' : Known(r.cookie)'
    BY <2>1, <2>2, <2>3, <2>4, Zenon DEF CookiesKnown, Known
  <2> HIDE DEF CookieInv
  <2> QED BY <2>2, <2>4, <2>5, Zenon DEF CookiesKnown
<1>7. AdmittedHasCookie'
  BY <1>1, Zenon DEF AdmittedHasCookie
<1> QED BY <1>3, <1>4, <1>5, <1>6, <1>7, Zenon

\* The steps of a worker that answers.
LEMMA ReplyInv ==
  ASSUME CookieInv, NEW w \in Worker, CreateReply(w) \/ RefreshSecret(w) \/ DeriveCookie(w) PROVE CookieInv'
<1> USE DEF CookieInv
<1>1. CASE CreateReply(w)
  <2>1. CASE ~Stale /\ Derive(w)
    <3>1. checker.secret # 0
      BY <2>1, LoadAssumption DEF Stale, SecretDrawn, Never, CookieType
    <3> QED BY <1>1, <2>1, <3>1, DeriveInv, Zenon DEF CreateReply
  <2>2. CASE Stale /\ worker' = [worker EXCEPT ![w].pc = "refresh"] /\ UNCHANGED <<replies, issued>>
    BY <1>1, <2>2 DEF CreateReply, CookieType, SecretDrawn, IssuedInTime, CookiesKnown, Known, AdmittedHasCookie,
                      Never
  <2> QED BY <1>1, <2>1, <2>2, Zenon DEF CreateReply
<1>2. CASE RefreshSecret(w)
  <2>0. /\ checker' = [secret |-> checker.secret + 1, secretSet |-> now]
        /\ worker' = [worker EXCEPT ![w].pc = "derive"] /\ worker[w].pc = "refresh"
        /\ UNCHANGED <<now, sent, handshake, generator, replies, issued>>
    BY <1>2, Zenon DEF RefreshSecret
  <2>1. CookieType'
    <3>1. checker' \in [secret : Nat, secretSet : Int]
      BY <2>0 DEF CookieType
    <3>2. worker' \in [Worker -> [pc : {"idle", "reply", "refresh", "derive"}, msg : Message \cup {0}]]
      <4>1. worker \in [Worker -> [pc : {"idle", "reply", "refresh", "derive"}, msg : Message \cup {0}]]
        BY Zenon DEF CookieType
      <4> HIDE DEF CookieInv
      <4> QED BY <2>0, <4>1, Zenon
    <3>3. \A v \in Worker : worker'[v].pc # "idle" => worker'[v].msg \in Message
      BY <2>0, Zenon DEF CookieType
    <3> QED BY <2>0, <3>1, <3>2, <3>3, Zenon DEF CookieType
  <2>2. SecretDrawn'
    <3>1. checker'.secret = checker.secret + 1 /\ checker'.secretSet = now /\ checker.secret \in Nat /\ now \in Nat
      BY <2>0, Zenon DEF CookieType
    <3> QED BY <2>0, <3>1 DEF SecretDrawn
  <2>4. IssuedInTime'
    <3>1. checker'.secret = checker.secret + 1 /\ checker'.secretSet = now /\ checker.secret \in Nat /\ now \in Nat
      BY <2>0, Zenon DEF CookieType
    <3>2. \A k \in issued : k.cookie.secret \in Nat
      BY Zenon DEF CookieType, Cookie
    <3> QED BY <2>0, <3>1, <3>2 DEF IssuedInTime
  <2>3. CookiesKnown' /\ AdmittedHasCookie'
    BY <1>2 DEF RefreshSecret, CookiesKnown, Known, AdmittedHasCookie
  <2> QED BY <2>1, <2>2, <2>3, <2>4, Zenon
<1>3. CASE DeriveCookie(w)
  BY <1>3, DeriveInv, Zenon DEF DeriveCookie, SecretDrawn
<1> QED BY <1>1, <1>2, <1>3, Zenon

\* What is let through under load bears a fresh cookie derived for its own source address (CheckMAC2,
\* CreateReply and CookieGenerator), in every interleaving of any number of handshake workers.
THEOREM CookieAdmission == CookieSpec => []AdmittedHasCookie
<1>1. CookieInv /\ [CookieNext]_cookieVars => CookieInv'
  <2> SUFFICES ASSUME CookieInv, [CookieNext]_cookieVars PROVE CookieInv'
    BY Zenon
  <2>1. CASE CheckerInit
    <3>1. CookieType'
      <4>1. checker' = [checker EXCEPT !.secretSet = Never] /\ Never \in Int
        BY <2>1, LoadAssumption DEF CheckerInit, Never
      <4>2. checker' \in [secret : Nat, secretSet : Int]
        BY <4>1, Zenon DEF CookieInv, CookieType
      <4> QED BY <2>1, <4>2, Zenon DEF CheckerInit, CookieInv, CookieType
    <3>2. SecretDrawn'
      BY <2>1, LoadAssumption DEF CheckerInit, CookieInv, CookieType, SecretDrawn, Never
    <3>3. IssuedInTime'
      BY <2>1, LoadAssumption DEF CheckerInit, CookieInv, CookieType, IssuedInTime, Never
    <3>4. CookiesKnown' /\ AdmittedHasCookie'
      BY <2>1 DEF CheckerInit, CookieInv, CookiesKnown, Known, AdmittedHasCookie
    <3> QED BY <3>1, <3>2, <3>3, <3>4, Zenon DEF CookieInv
  <2>2. CASE CookieTick
    <3>1. CookieType'
      BY <2>2 DEF CookieTick, CookieInv, CookieType, Never
    <3>2. SecretDrawn'
      BY <2>2 DEF CookieTick, CookieInv, CookieType, SecretDrawn, Never
    <3>3. IssuedInTime'
      BY <2>2 DEF CookieTick, CookieInv, CookieType, IssuedInTime, Never
    <3>4. CookiesKnown' /\ AdmittedHasCookie'
      BY <2>2 DEF CookieTick, CookieInv, CookiesKnown, Known, AdmittedHasCookie
    <3> QED BY <3>1, <3>2, <3>3, <3>4, Zenon DEF CookieInv
  <2>3. CASE UNCHANGED cookieVars
    <3>1. CookieType'
      BY <2>3, Zenon DEF cookieVars, CookieInv, CookieType, Never
    <3>2. SecretDrawn'
      BY <2>3, Zenon DEF cookieVars, CookieInv, CookieType, SecretDrawn, Never
    <3>3. IssuedInTime'
      BY <2>3, Zenon DEF cookieVars, CookieInv, CookieType, IssuedInTime, Never
    <3>4. CookiesKnown' /\ AdmittedHasCookie'
      BY <2>3 DEF cookieVars, CookieInv, CookiesKnown, Known, AdmittedHasCookie
    <3> QED BY <3>1, <3>2, <3>3, <3>4, Zenon DEF CookieInv
  <2>4. CASE CookieNext /\ ~CheckerInit /\ ~CookieTick
    BY <2>4, AddMacsInv, ConsumeReplyInv, TakeHandshakeInv, ReplyInv, Zenon DEF CookieNext
  <2> QED BY <2>1, <2>2, <2>3, <2>4, Zenon
<1>2. CookieInv => AdmittedHasCookie
  BY Zenon DEF CookieInv
<1> QED BY CookieInitInv, <1>1, <1>2, PTL DEF CookieSpec

-----------------------------------------------------------------------------
(* The rate limiter                                                          *)

\* garbageCollectTime is a positive duration.
LEMMA Period == GarbageCollect \in Nat \ {0}
BY LimiterAssumption

-----------------------------------------------------------------------------
(* A new entry has a number of its own                                       *)

\* A nonempty set of naturals has a least element: the entry AllowInsert takes exists if one is free.
LEMMA LeastNatural ==
  ASSUME NEW S \in SUBSET Nat, S # {}
  PROVE  Min(S) \in S
<1>1. PICK x \in S : \A y \in S : ~(<<y, x>> \in OpToRel(<, Nat))
  BY WFMin, NatLessThanWellFounded, Zenon
<1>2. \A y \in S : ~(y < x)
  <2>1. SUFFICES ASSUME NEW y \in S, y < x PROVE FALSE
    OBVIOUS
  <2>2. <<y, x>> \in Nat \X Nat
    OBVIOUS
  <2>3. <<y, x>> \in OpToRel(<, Nat)
    BY <2>1, <2>2 DEF OpToRel
  <2> QED
    BY <1>1, <2>3, Zenon
<1>3. \A y \in S : x =< y
  BY <1>2
<1> QED
  BY <1>3, Zenon DEF Min

\* There are more entries than the table and the other workers can refer to, so a worker that has none finds
\* one: Allow's new(RatelimiterEntry) is never the entry of an address or of another call.
LEMMA EntryIsFree ==
  ASSUME LimiterType, NEW w \in Caller, caller[w].entry = None
  PROVE  Unused \in Nat \ {0}
<1> DEFINE N == Cardinality(Ip) + Cardinality(Caller)
           Other == Caller \ {w}
           held == [v \in Other |-> caller[v].entry]
           Free == DOMAIN entries \ (Range(table) \cup {caller[v].entry : v \in Caller})
<1>1. IsFiniteSet(Range(table)) /\ Cardinality(Range(table)) <= Cardinality(Ip)
  <2>1. table \in Surjection(Ip, Range(table))
    BY DEF LimiterType, Surjection, Range
  <2> QED
    BY <2>1, FS_Surjection, LimiterAssumption
<1>2. /\ IsFiniteSet(Other) /\ Cardinality(Other) = Cardinality(Caller) - 1
      /\ Cardinality(Caller) \in Nat /\ Cardinality(Ip) \in Nat
  BY FS_RemoveElement, FS_CardinalityType, LimiterAssumption
<1>3. IsFiniteSet(Range(held)) /\ Cardinality(Range(held)) <= Cardinality(Other)
  <2>1. held \in Surjection(Other, Range(held))
    BY DEF Surjection, Range
  <2> QED
    BY <2>1, <1>2, FS_Surjection
<1> DEFINE Used == Range(table) \cup Range(held)
<1>4. IsFiniteSet(Used) /\ Cardinality(Used) <= N - 1
  <2>1. Cardinality(Range(table) \cap Range(held)) \in Nat
    BY <1>1, FS_Subset, FS_CardinalityType, Zenon
  <2>2. Cardinality(Range(table)) \in Nat /\ Cardinality(Range(held)) \in Nat
    BY <1>1, <1>3, FS_CardinalityType
  <2>3. IsFiniteSet(Used) /\ Cardinality(Used)
          = Cardinality(Range(table)) + Cardinality(Range(held)) - Cardinality(Range(table) \cap Range(held))
    BY <1>1, <1>3, FS_Union, Zenon
  <2> HIDE DEF Used, held, Other
  <2> QED
    BY <2>1, <2>2, <2>3, <1>1, <1>2, <1>3
<1>5. N \in Nat /\ DOMAIN entries = 1..N
  BY <1>2 DEF LimiterType
<1>6. Cardinality(1..N) = N
  BY <1>2, <1>5, FS_Interval
<1>7. ~(1..N \subseteq Used)
  <2>1. 1..N \subseteq Used => Cardinality(1..N) <= Cardinality(Used)
    BY <1>4, FS_Subset, Zenon
  <2>2. Cardinality(Used) \in Nat
    BY <1>4, FS_CardinalityType
  <2> HIDE DEF Used, N
  <2> QED
    BY <2>1, <2>2, <1>4, <1>5, <1>6
<1>8. PICK e \in 1..N : e \notin Used
  BY <1>7, Zenon
<1>9. e \in Free
  <2>1. SUFFICES ASSUME NEW v \in Caller, e = caller[v].entry PROVE FALSE
    BY <1>5, <1>8
  <2>2. v # w
    BY <2>1, <1>5 DEF None
  <2>3. e \in Range(held)
    BY <2>1, <2>2, Zenon DEF Range
  <2> QED
    BY <2>3, <1>8
<1>10. Free \subseteq Nat \ {0}
  BY <1>5
<1> QED
  <2>1. Free \in SUBSET Nat /\ Free # {}
    BY <1>9, <1>10
  <2>2. Min(Free) \in Free
    BY <2>1, LeastNatural, Zenon
  <2> QED
    BY <2>2, <1>10, Zenon DEF Unused

\* len(rate.table) == 1 after an entry was stored means that no other address has one.
LEMMA FirstMeansAlone ==
  ASSUME NEW tab, NEW a \in Ip, tab[a] # None
  PROVE  IsFirst(tab) <=> Alone(tab, a)
<1> DEFINE S == {ip \in Ip : tab[ip] # None}
<1>1. IsFiniteSet(S)
  BY FS_Subset, LimiterAssumption
<1>2. a \in S
  OBVIOUS
<1>3. Cardinality(S) = 1 <=> \E x : S = {x}
  BY <1>1, FS_Singleton, Zenon
<1>4. (\E x : S = {x}) <=> S = {a}
  BY <1>2
<1>5. S = {a} <=> \A j \in Ip : j # a => tab[j] = None
  BY <1>2
<1> QED
  BY <1>3, <1>4, <1>5 DEF IsFirst, Alone

\* A table with no entry: what cleanup tells the goroutine to stop its ticker.
LEMMA EmptyMeans ==
  ASSUME NEW tab, tab \in [Ip -> Nat]
  PROVE  Range(tab) = {None} <=> \A ip \in Ip : tab[ip] = None
BY LimiterAssumption DEF Range

-----------------------------------------------------------------------------
(* The steps                                                                 *)

\* Allow's lookup only notes the address, and the time if it has to make the entry.
LEMMA LookupKeeps ==
  ASSUME LimiterInv, NEW w \in Caller, AllowLookup(w)
  PROVE  LimiterInv'
<1>1. PICK ip \in Ip : caller' = [caller EXCEPT ![w] =
         IF table[ip] = None THEN [pc |-> "insert", ip |-> ip, entry |-> None, at |-> time]
                             ELSE [pc |-> "spend", ip |-> ip, entry |-> table[ip], at |-> None]]
  BY Zenon DEF AllowLookup
<1>2. UNCHANGED <<time, table, entries, mu, gc>> /\ mu = None
  BY DEF AllowLookup
<1>3. LimiterType'
  BY <1>1, <1>2 DEF LimiterInv, LimiterType, None
<1>4. TickerRuns'
  BY <1>2 DEF LimiterInv, TickerRuns, Empty
<1>5. InsertPending'
  <2>1. SUFFICES ASSUME NEW v \in Caller, caller'[v].pc = "insert"
                 PROVE  /\ caller'[v].ip \in Ip /\ caller'[v].entry = None
                        /\ caller'[v].at <= time /\ time < caller'[v].at + GarbageCollect
                        /\ Alone(table, caller'[v].ip) /\ table[caller'[v].ip] # None /\ mu = None =>
                             gc.pc = "select" /\ gc.tick >= caller'[v].at + GarbageCollect
    BY <1>2 DEF InsertPending, Alone
  <2>2. CASE v = w
    <3>1. table[ip] = None /\ caller'[v] = [pc |-> "insert", ip |-> ip, entry |-> None, at |-> time]
      BY <2>1, <2>2, <1>1, Zenon DEF LimiterInv, LimiterType
    <3> QED
      BY <3>1, Period, SMTT(30) DEF LimiterInv, LimiterType
  <2>3. CASE v # w
    <3>1. caller'[v] = caller[v]
      BY <2>3, <1>1 DEF LimiterInv, LimiterType
    <3> QED
      BY <3>1, <2>1 DEF LimiterInv, InsertPending
  <2> QED
    BY <2>2, <2>3
<1>6. SignalLocked'
  BY <1>1, <1>2 DEF LimiterInv, LimiterType, SignalLocked
<1> QED
  BY <1>3, <1>4, <1>5, <1>6 DEF LimiterInv

\* Allow's insertion: if the entry is the only one, the goroutine is in its select and stays there.
LEMMA InsertKeeps ==
  ASSUME LimiterInv, NEW w \in Caller, AllowInsert(w)
  PROVE  LimiterInv'
<1> DEFINE a == caller[w].ip
<1>1. /\ caller[w].pc = "insert" /\ mu = None
      /\ DOMAIN entries' = DOMAIN entries
      /\ table' = [table EXCEPT ![a] = Unused]
      /\ mu' = IF IsFirst(table') THEN w ELSE None
      /\ caller' = [caller EXCEPT ![w] = IF IsFirst(table') THEN [@ EXCEPT !.pc = "signal"] ELSE NoCall]
      /\ UNCHANGED <<time, gc>>
  BY DEF AllowInsert
<1>2. a \in Ip /\ caller[w].entry = None /\ caller[w].at \in Nat
  BY <1>1 DEF LimiterInv, InsertPending, LimiterType
<1>3. Unused \in Nat \ {0}
  BY <1>2, EntryIsFree DEF LimiterInv
<1>4. /\ table' \in [Ip -> Nat] /\ table'[a] # None
      /\ \A j \in Ip : j # a => table'[j] = table[j]
  BY <1>1, <1>2, <1>3 DEF LimiterInv, LimiterType, None
<1>5. IsFirst(table') <=> Alone(table, a)
  <2>1. IsFirst(table') <=> Alone(table', a)
    BY <1>2, <1>4, FirstMeansAlone, Zenon
  <2> QED
    BY <2>1, <1>4, Zenon DEF Alone
<1>6. LimiterType'
  <2>1. caller' \in [Caller -> [pc : {"none", "insert", "signal", "spend"}, ip : Ip \cup {None}, entry : Nat, at : Nat]]
    BY <1>1, ZenonT(60) DEF LimiterInv, LimiterType, NoCall, None
  <2> QED
    BY <2>1, <1>1, <1>4 DEF LimiterInv, LimiterType
<1>7. ~Empty'
  BY <1>2, <1>4, Zenon DEF Empty
<1>8. Alone(table, a) => gc.pc = "select" /\ (gc.tick = None \/ time < gc.tick)
  <2>1. CASE Alone(table, a) /\ table[a] # None
    <3>1. /\ caller[w].at <= time /\ time < caller[w].at + GarbageCollect
          /\ gc.pc = "select" /\ gc.tick >= caller[w].at + GarbageCollect
      BY <2>1, <1>1, Zenon DEF LimiterInv, InsertPending
    <3>2. time \in Nat /\ caller[w].at \in Nat /\ gc.tick \in Nat
      BY <1>2 DEF LimiterInv, LimiterType
    <3> QED
      BY <3>1, <3>2, Period
  <2>2. CASE Alone(table, a) /\ table[a] = None
    <3>1. Empty
      BY <2>2, Zenon DEF Empty, Alone
    <3>2. gc.tick = None
      BY <3>1 DEF LimiterInv, TickerRuns
    <3>3. gc.pc # "cleanup"
      <4>1. gc.pc = "cleanup" => gc.tick >= time + GarbageCollect
        BY Zenon DEF LimiterInv, TickerRuns
      <4>2. time \in Nat
        BY DEF LimiterInv, LimiterType
      <4> QED
        BY <3>2, <4>1, <4>2, Period DEF None
    <3> QED
      BY <3>2, <3>3 DEF LimiterInv, LimiterType
  <2> QED
    BY <2>1, <2>2
<1>9. ~Alone(table, a) => ~Empty
  BY Zenon DEF Empty, Alone
<1>10. w # None
  BY LimiterAssumption
<1>11. (mu' # None <=> Alone(table, a)) /\ gc' = gc /\ time' = time
  BY <1>1, <1>5, <1>10, Zenon
<1>12. TickerRuns'
  <2>1. (gc.tick # None => ~Empty) /\ (~Empty => gc.tick # None) /\ (gc.pc = "select" /\ gc.tick # None => time <= gc.tick)
        /\ (gc.pc = "cleanup" => gc.tick >= time + GarbageCollect)
    BY <1>1 DEF LimiterInv, TickerRuns
  <2> QED
    BY <2>1, <1>7, <1>8, <1>9, <1>11 DEF TickerRuns
<1>13. InsertPending'
  <2>1. SUFFICES ASSUME NEW v \in Caller, caller'[v].pc = "insert"
                 PROVE  /\ caller'[v].ip \in Ip /\ caller'[v].entry = None
                        /\ caller'[v].at <= time /\ time < caller'[v].at + GarbageCollect
                        /\ ~(Alone(table', caller'[v].ip) /\ mu' = None)
    BY <1>11, Zenon DEF InsertPending, Alone
  <2>2. v # w
    BY <2>1, <1>1 DEF LimiterInv, LimiterType, NoCall
  <2>3. caller'[v] = caller[v]
    BY <2>2, <1>1 DEF LimiterInv, LimiterType
  <2>4. /\ caller[v].ip \in Ip /\ caller[v].entry = None
        /\ caller[v].at <= time /\ time < caller[v].at + GarbageCollect
    BY <2>1, <2>3 DEF LimiterInv, InsertPending
  <2>5. ASSUME Alone(table', caller'[v].ip), mu' = None PROVE FALSE
    <3>1. caller[v].ip = a
      BY <2>5, <2>3, <1>2, <1>4, Zenon DEF Alone
    <3>2. Alone(table, a)
      BY <3>1, <2>5, <2>3, <1>4, Zenon DEF Alone
    <3> QED
      BY <3>2, <2>5, <1>11, Zenon
  <2> QED
    BY <2>3, <2>4, <2>5
<1>14. SignalLocked'
  <2>1. SUFFICES ASSUME NEW v \in Caller, caller'[v].pc = "signal" PROVE mu' = v
    BY Zenon DEF SignalLocked
  <2>2. CASE v = w
    <3>1. caller'[w] = IF IsFirst(table') THEN [caller[w] EXCEPT !.pc = "signal"] ELSE NoCall
      BY <1>1 DEF LimiterInv, LimiterType
    <3>2. IsFirst(table')
      BY <3>1, <2>1, <2>2 DEF NoCall
    <3> QED
      BY <3>2, <2>2, <1>1, Zenon
  <2>3. CASE v # w
    <3>1. caller[v].pc = "signal"
      BY <2>1, <2>3, <1>1 DEF LimiterInv, LimiterType
    <3> QED
      BY <3>1, <1>1, LimiterAssumption, Zenon DEF LimiterInv, SignalLocked
  <2> QED
    BY <2>2, <2>3
<1> QED
  BY <1>6, <1>12, <1>13, <1>14 DEF LimiterInv

\* The goroutine takes the signal and starts a new ticker, a whole period ahead of every worker's wait.
LEMMA SignalKeeps ==
  ASSUME LimiterInv, NEW w \in Caller, AllowSignal(w)
  PROVE  LimiterInv'
<1>1. /\ caller[w].pc = "signal" /\ gc.pc = "select"
      /\ gc' = [gc EXCEPT !.tick = time + GarbageCollect] /\ mu' = None
      /\ caller' = [caller EXCEPT ![w] = NoCall]
      /\ UNCHANGED <<time, table, entries>>
  BY DEF AllowSignal
<1>2. mu = w /\ mu # None
  BY <1>1, LimiterAssumption DEF LimiterInv, SignalLocked
<1>3. time \in Nat /\ gc'.pc = "select" /\ gc'.tick = time + GarbageCollect
  BY <1>1 DEF LimiterInv, LimiterType
<1>4. LimiterType'
  BY <1>1, <1>3, Period DEF LimiterInv, LimiterType, NoCall, None
<1>5. TickerRuns'
  <2>1. ~Empty'
    BY <1>1, <1>2 DEF LimiterInv, TickerRuns, Empty
  <2>2. gc'.tick # None /\ time <= gc'.tick
    BY <1>3, Period DEF None
  <2> QED
    BY <2>1, <2>2, <1>1, <1>3, Zenon DEF TickerRuns
<1>6. caller'[w] = NoCall /\ \A v \in Caller : v # w => caller'[v] = caller[v]
  BY <1>1 DEF LimiterInv, LimiterType
<1>7. NoCall.pc = "none"
  BY DEF NoCall
<1>8. SignalLocked'
  BY <1>2, <1>6, <1>7, Zenon DEF LimiterInv, SignalLocked
<1>9. InsertPending'
  <2>1. SUFFICES ASSUME NEW v \in Caller, caller'[v].pc = "insert"
                 PROVE  /\ caller'[v].ip \in Ip /\ caller'[v].entry = None
                        /\ caller'[v].at <= time /\ time < caller'[v].at + GarbageCollect
                        /\ gc'.tick >= caller'[v].at + GarbageCollect
    BY <1>1, <1>3, Zenon DEF InsertPending
  <2>2. v # w /\ caller'[v] = caller[v]
    BY <2>1, <1>6, <1>7
  <2>3. /\ caller[v].ip \in Ip /\ caller[v].entry = None
        /\ caller[v].at <= time /\ time < caller[v].at + GarbageCollect
    BY <2>1, <2>2, Zenon DEF LimiterInv, InsertPending
  <2>4. caller[v].at \in Nat
    BY DEF LimiterInv, LimiterType
  <2> QED
    BY <2>2, <2>3, <2>4, <1>3, Period
<1> QED
  BY <1>4, <1>5, <1>8, <1>9 DEF LimiterInv

\* Spending from an entry touches neither the table nor the goroutine.
LEMMA SpendKeeps ==
  ASSUME LimiterInv, NEW w \in Caller, AllowSpend(w)
  PROVE  LimiterInv'
<1>1. /\ caller' = [caller EXCEPT ![w] = NoCall]
      /\ UNCHANGED <<time, table, mu, gc>>
  BY DEF AllowSpend
<1>2. DOMAIN entries' = DOMAIN entries
  BY DEF AllowSpend
<1>3. caller'[w] = NoCall /\ \A v \in Caller : v # w => caller'[v] = caller[v]
  BY <1>1 DEF LimiterInv, LimiterType
<1>4. NoCall.pc = "none"
  BY DEF NoCall
<1>5. LimiterType'
  BY <1>1, <1>2 DEF LimiterInv, LimiterType, NoCall, None
<1>6. TickerRuns'
  BY <1>1 DEF LimiterInv, TickerRuns, Empty
<1>7. SignalLocked'
  BY <1>1, <1>3, <1>4, Zenon DEF LimiterInv, SignalLocked
<1>8. InsertPending'
  <2>1. \A v \in Caller : caller'[v].pc = "insert" => caller'[v] = caller[v]
    BY <1>3, <1>4
  <2> QED
    BY <1>1, <2>1, Zenon DEF LimiterInv, InsertPending
<1> QED
  BY <1>5, <1>6, <1>7, <1>8 DEF LimiterInv

\* The ticker fires only once no worker announces an entry and none can still replace the only one.
LEMMA GcTickKeeps ==
  ASSUME LimiterInv, GcTick
  PROVE  LimiterInv'
<1>1. /\ gc.pc = "select" /\ gc.tick # None /\ time >= gc.tick
      /\ gc' = [pc |-> "cleanup", tick |-> gc.tick + GarbageCollect]
      /\ UNCHANGED <<time, caller, table, entries, mu>>
  BY DEF GcTick
<1>2. time \in Nat /\ gc.tick \in Nat /\ gc'.pc = "cleanup" /\ gc'.tick = gc.tick + GarbageCollect
  BY <1>1 DEF LimiterInv, LimiterType
<1>3. ~Empty /\ time <= gc.tick /\ (mu # None => time < gc.tick)
  BY <1>1, Zenon DEF LimiterInv, TickerRuns
<1>4. mu = None
  BY <1>1, <1>2, <1>3
<1>5. LimiterType'
  BY <1>1, <1>2, Period DEF LimiterInv, LimiterType
<1>6. TickerRuns'
  <2>1. gc'.tick >= time + GarbageCollect /\ gc'.tick # None
    BY <1>2, <1>3, <1>1, Period DEF None
  <2>2. ~Empty'
    BY <1>1, <1>3 DEF Empty
  <2> QED
    BY <2>1, <2>2, <1>1, <1>2, <1>4 DEF TickerRuns
<1>7. SignalLocked'
  BY <1>1 DEF LimiterInv, SignalLocked
<1>8. InsertPending'
  <2>1. SUFFICES ASSUME NEW v \in Caller, caller[v].pc = "insert"
                 PROVE  /\ caller[v].ip \in Ip /\ caller[v].entry = None
                        /\ caller[v].at <= time /\ time < caller[v].at + GarbageCollect
                        /\ ~(Alone(table, caller[v].ip) /\ table[caller[v].ip] # None)
    BY <1>1, Zenon DEF InsertPending
  <2>2. /\ caller[v].ip \in Ip /\ caller[v].entry = None
        /\ caller[v].at <= time /\ time < caller[v].at + GarbageCollect
        /\ Alone(table, caller[v].ip) /\ table[caller[v].ip] # None => gc.tick >= caller[v].at + GarbageCollect
    BY <2>1, <1>4, Zenon DEF LimiterInv, InsertPending
  <2>3. caller[v].at \in Nat
    BY DEF LimiterInv, LimiterType
  <2> QED
    BY <2>2, <2>3, <1>1, <1>2, Period, SMTT(30)
<1> QED
  BY <1>5, <1>6, <1>7, <1>8 DEF LimiterInv

\* The sweep leaves the ticker running exactly if it leaves an entry.
LEMMA CleanupKeeps ==
  ASSUME LimiterInv, Cleanup
  PROVE  LimiterInv'
<1>1. /\ gc.pc = "cleanup" /\ mu = None
      /\ table' = [ip \in Ip |-> IF Expired(ip) THEN None ELSE table[ip]]
      /\ gc' = [pc |-> "select", tick |-> IF Range(table') = {None} THEN None ELSE gc.tick]
      /\ UNCHANGED <<time, caller, entries, mu>>
  BY DEF Cleanup
<1>2. /\ time \in Nat /\ gc.tick \in Nat
      /\ gc'.pc = "select" /\ gc'.tick = IF Range(table') = {None} THEN None ELSE gc.tick
  BY <1>1, Zenon DEF LimiterInv, LimiterType
<1>3. table' \in [Ip -> Nat]
  BY <1>1 DEF LimiterInv, LimiterType, None
<1>4. Range(table') = {None} <=> Empty'
  BY <1>3, EmptyMeans, Zenon DEF Empty
<1>5. gc.tick >= time + GarbageCollect
  BY <1>1 DEF LimiterInv, TickerRuns
<1>6. gc.tick # None /\ time <= gc.tick
  BY <1>2, <1>5, Period DEF None
<1>7. (Empty' => gc'.tick = None) /\ (~Empty' => gc'.tick = gc.tick)
  BY <1>2, <1>4, Zenon
<1>8. LimiterType'
  BY <1>1, <1>2, <1>3 DEF LimiterInv, LimiterType, None
<1>9. TickerRuns'
  BY <1>1, <1>2, <1>6, <1>7 DEF TickerRuns
<1>10. SignalLocked'
  BY <1>1, Zenon DEF LimiterInv, SignalLocked
<1>11. InsertPending'
  <2>1. SUFFICES ASSUME NEW v \in Caller, caller[v].pc = "insert"
                 PROVE  /\ caller[v].ip \in Ip /\ caller[v].entry = None
                        /\ caller[v].at <= time /\ time < caller[v].at + GarbageCollect
                        /\ table'[caller[v].ip] # None => gc'.tick >= caller[v].at + GarbageCollect
    BY <1>1, <1>2, Zenon DEF InsertPending
  <2>2. /\ caller[v].ip \in Ip /\ caller[v].entry = None
        /\ caller[v].at <= time /\ time < caller[v].at + GarbageCollect
    BY <2>1, Zenon DEF LimiterInv, InsertPending
  <2>3. caller[v].at \in Nat
    BY DEF LimiterInv, LimiterType
  <2>4. table'[caller[v].ip] # None => gc'.tick = gc.tick
    BY <2>2, <1>7, Zenon DEF Empty
  <2>5. gc.tick >= caller[v].at + GarbageCollect
    BY <2>2, <2>3, <1>2, <1>5, Period
  <2> QED
    BY <2>2, <2>4, <2>5
<1> QED
  BY <1>8, <1>9, <1>10, <1>11 DEF LimiterInv

\* At the pace assumed, time passes neither a tick nor the wait of a worker.
LEMMA TimeKeeps ==
  ASSUME LimiterInv, LimiterTick
  PROVE  LimiterInv'
<1>1. /\ mu = None /\ gc.pc = "select" /\ (gc.tick = None \/ time < gc.tick)
      /\ \A w \in Caller : caller[w].pc = "insert" => time + 1 < caller[w].at + GarbageCollect
      /\ time' = time + 1
      /\ UNCHANGED <<caller, table, entries, mu, gc>>
  BY DEF LimiterTick, Prompt
<1>2. time \in Nat /\ gc.tick \in Nat
  BY DEF LimiterInv, LimiterType
<1>3. LimiterType'
  BY <1>1, <1>2 DEF LimiterInv, LimiterType
<1>4. TickerRuns'
  <2>1. (gc.tick # None => ~Empty) /\ (~Empty => gc.tick # None)
    BY <1>1 DEF LimiterInv, TickerRuns
  <2>2. gc.tick # None => time' <= gc.tick
    BY <1>1, <1>2
  <2>3. Empty' <=> Empty
    BY <1>1 DEF Empty
  <2> QED
    BY <2>1, <2>2, <2>3, <1>1, Zenon DEF TickerRuns
<1>5. SignalLocked'
  BY <1>1 DEF LimiterInv, SignalLocked
<1>6. InsertPending'
  <2>1. SUFFICES ASSUME NEW v \in Caller, caller[v].pc = "insert"
                 PROVE  /\ caller[v].ip \in Ip /\ caller[v].entry = None
                        /\ caller[v].at <= time' /\ time' < caller[v].at + GarbageCollect
                        /\ Alone(table, caller[v].ip) /\ table[caller[v].ip] # None =>
                             gc.tick >= caller[v].at + GarbageCollect
    BY <1>1, Zenon DEF InsertPending
  <2>2. /\ caller[v].ip \in Ip /\ caller[v].entry = None /\ caller[v].at <= time
        /\ Alone(table, caller[v].ip) /\ table[caller[v].ip] # None => gc.tick >= caller[v].at + GarbageCollect
    BY <2>1, <1>1, Zenon DEF LimiterInv, InsertPending
  <2>3. caller[v].at \in Nat
    BY DEF LimiterInv, LimiterType
  <2> QED
    BY <2>1, <2>2, <2>3, <1>1, <1>2, SMTT(30)
<1> QED
  BY <1>3, <1>4, <1>5, <1>6 DEF LimiterInv

-----------------------------------------------------------------------------

\* The table of a new limiter is empty, its ticker stopped, and no worker is in Allow.
LEMMA LimiterStarts == LimiterInit => LimiterInv
<1>1. SUFFICES ASSUME LimiterInit PROVE LimiterInv
  OBVIOUS
<1>2. /\ time = 1 /\ caller = [w \in Caller |-> NoCall] /\ table = [ip \in Ip |-> None]
      /\ mu = None /\ gc = [pc |-> "select", tick |-> None]
      /\ DOMAIN entries = 1..(Cardinality(Ip) + Cardinality(Caller))
  BY <1>1 DEF LimiterInit
<1>3. \A w \in Caller : caller[w].pc = "none"
  BY <1>2 DEF NoCall
<1>4. LimiterType
  BY <1>2 DEF LimiterType, NoCall, None
<1>5. Empty
  BY <1>2 DEF Empty
<1>6. TickerRuns
  BY <1>2, <1>5 DEF TickerRuns
<1> QED
  BY <1>3, <1>4, <1>6 DEF LimiterInv, SignalLocked, InsertPending

\* At the pace that Prompt assumes, for any number of workers and addresses and any cost, burst and period: the
\* worker that announces the first entry (ratelimiter.go:114) holds rate.mu only while the goroutine is in its
\* select, and the ticker runs while the table has an entry to sweep that no worker is announcing.
THEOREM LimiterKeepsMoving == LimiterSpec => []LimiterMoves
<1>1. LimiterInv /\ [LimiterNext]_limiterVars => LimiterInv'
  <2>1. SUFFICES ASSUME LimiterInv, [LimiterNext]_limiterVars PROVE LimiterInv'
    OBVIOUS
  <2>2. ASSUME NEW w \in Caller, AllowLookup(w) PROVE LimiterInv'
    BY <2>1, <2>2, LookupKeeps, Zenon
  <2>3. ASSUME NEW w \in Caller, AllowInsert(w) PROVE LimiterInv'
    BY <2>1, <2>3, InsertKeeps, Zenon
  <2>4. ASSUME NEW w \in Caller, AllowSignal(w) PROVE LimiterInv'
    BY <2>1, <2>4, SignalKeeps, Zenon
  <2>5. ASSUME NEW w \in Caller, AllowSpend(w) PROVE LimiterInv'
    BY <2>1, <2>5, SpendKeeps, Zenon
  <2>6. CASE GcTick
    BY <2>1, <2>6, GcTickKeeps, Zenon
  <2>7. CASE Cleanup
    BY <2>1, <2>7, CleanupKeeps, Zenon
  <2>8. CASE LimiterTick
    BY <2>1, <2>8, TimeKeeps, Zenon
  <2>9. CASE UNCHANGED limiterVars
    BY <2>1, <2>9, Zenon DEF limiterVars, LimiterInv, LimiterType, TickerRuns, Empty, SignalLocked, InsertPending
  <2> QED
    BY <2>1, <2>2, <2>3, <2>4, <2>5, <2>6, <2>7, <2>8, <2>9, Zenon DEF LimiterNext
<1>2. LimiterInv => LimiterMoves
  <2>1. SUFFICES ASSUME LimiterInv PROVE LimiterMoves
    OBVIOUS
  <2>2. Range(table) = {None} <=> Empty
    BY <2>1, EmptyMeans, Zenon DEF LimiterInv, LimiterType, Empty
  <2> QED
    BY <2>1, <2>2, Zenon DEF LimiterInv, TickerRuns, LimiterMoves
<1> QED
  BY LimiterStarts, <1>1, <1>2, PTL DEF LimiterSpec
==============================================================================
