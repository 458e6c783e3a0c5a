----------------------------- MODULE Ratelimiter -----------------------------
(***************************************************************************)
(* The limiter of handshake messages per source address (ratelimiter.go).    *)
(* Handshake workers call Allow; a goroutine of the limiter's own sweeps the  *)
(* table.  Times and tokens are in ticks, several to a packetCost.           *)
(***************************************************************************)
EXTENDS Integers, Sequences, FiniteSets, FiniteSetsExt, Functions

CONSTANTS
  Caller, Ip,          \* handshake workers, source addresses
  PacketCost, Burst,   \* packetCost, packetsBurstable
  GarbageCollect,      \* garbageCollectTime
  MaxLimiterTime, MaxCall  \* bounds: the clock, calls of Allow

None == 0

ASSUME LimiterAssumption ==
  /\ PacketCost \in Nat \ {0} /\ Burst \in Nat \ {0}
  /\ GarbageCollect \in Nat /\ GarbageCollect >= PacketCost * Burst
  /\ IsFiniteSet(Ip) /\ Ip # {} /\ IsFiniteSet(Caller) /\ None \notin Caller

MaxTokens == PacketCost * Burst

VARIABLES
  time,            \* timeNow
  caller,          \* per worker, its call of Allow: where it is, the address, the entry, when it looked
  table, entries,  \* the table, and the entries by number
  mu,              \* the worker that holds rate.mu, if one holds it across steps
  gc,              \* the goroutine: where it is, and when its ticker fires (None: stopped)
  allowed,         \* history: per address and time, how often Allow said yes
  calls            \* how often Allow was called

limiterVars == <<time, caller, table, entries, mu, gc, allowed, calls>>

NoCall == [pc |-> "none", ip |-> None, entry |-> None, at |-> None]

-----------------------------------------------------------------------------
(* Allow                                                                     *)

AllowLookup(w) ==
  /\ caller[w].pc = "none" /\ calls < MaxCall /\ mu = None
  /\ calls' = calls + 1
  /\ \E ip \in Ip :
       caller' = [caller EXCEPT ![w] =
         IF table[ip] = None THEN [pc |-> "insert", ip |-> ip, entry |-> None, at |-> time]
                             ELSE [pc |-> "spend", ip |-> ip, entry |-> table[ip], at |-> None]]
  /\ UNCHANGED <<time, table, entries, mu, gc, allowed>>

\* Allow says yes, with the time it took from the clock.
Yes(ip, at) == allowed' = [allowed EXCEPT ![ip][at] = @ + 1]

Unused == Min(DOMAIN entries \ (Range(table) \cup {caller[v].entry : v \in Caller}))

\* Mutant: every new entry is told.
IsFirst_Always(tab) == TRUE

IsFirst(tab) == Cardinality({ip \in Ip : tab[ip] # None}) = 1

\* A new entry, in place of one that another worker may have made meanwhile.  The first entry of the
\* table is told to the goroutine, with the lock held.
AllowInsert(w) ==
  /\ caller[w].pc = "insert" /\ mu = None
  /\ entries' = [entries EXCEPT ![Unused] = [tokens |-> MaxTokens - PacketCost, lastTime |-> caller[w].at]]
  /\ table' = [table EXCEPT ![caller[w].ip] = Unused]
  /\ Yes(caller[w].ip, caller[w].at)
  /\ mu' = IF IsFirst(table') THEN w ELSE None
  /\ caller' = [caller EXCEPT ![w] = IF IsFirst(table') THEN [@ EXCEPT !.pc = "signal"] ELSE NoCall]
  /\ UNCHANGED <<time, gc, calls>>

\* The rendezvous on stopReset: the goroutine, in its select, starts a new ticker.
AllowSignal(w) ==
  /\ caller[w].pc = "signal" /\ gc.pc = "select"
  /\ gc' = [gc EXCEPT !.tick = time + GarbageCollect]
  /\ mu' = None
  /\ caller' = [caller EXCEPT ![w] = NoCall]
  /\ UNCHANGED <<time, table, entries, allowed, calls>>

\* An entry is refilled for the time since, up to the maximum.
Refilled(e) == Min({MaxTokens, e.tokens + time - e.lastTime})

\* Mutant: the time of the last refill is not noted.
AllowSpend_Untimed(w) ==
  /\ caller[w].pc = "spend"
  /\ LET e == caller[w].entry
         tokens == Refilled(entries[e]) IN
     \/ /\ tokens > PacketCost
        /\ entries' = [entries EXCEPT ![e].tokens = tokens - PacketCost]
        /\ Yes(caller[w].ip, time)
     \/ tokens <= PacketCost /\ entries' = [entries EXCEPT ![e].tokens = tokens] /\ UNCHANGED allowed
  /\ caller' = [caller EXCEPT ![w] = NoCall]
  /\ UNCHANGED <<time, table, mu, gc, calls>>

\* The entry pays if it can.  The goroutine may have dropped it from the table in the meantime.
AllowSpend(w) ==
  /\ caller[w].pc = "spend"
  /\ LET e == caller[w].entry
         tokens == Refilled(entries[e]) IN
     \/ /\ tokens > PacketCost
        /\ entries' = [entries EXCEPT ![e] = [tokens |-> tokens - PacketCost, lastTime |-> time]]
        /\ Yes(caller[w].ip, time)
     \/ /\ tokens <= PacketCost
        /\ entries' = [entries EXCEPT ![e] = [tokens |-> tokens, lastTime |-> time]]
        /\ UNCHANGED allowed
  /\ caller' = [caller EXCEPT ![w] = NoCall]
  /\ UNCHANGED <<time, table, mu, gc, calls>>

-----------------------------------------------------------------------------
(* The goroutine: its ticker fires; cleanup sweeps the table, and the ticker  *)
(* is stopped if nothing is left.                                           *)

GcTick ==
  /\ gc.pc = "select" /\ gc.tick # None /\ time >= gc.tick
  /\ gc' = [pc |-> "cleanup", tick |-> gc.tick + GarbageCollect]
  /\ UNCHANGED <<time, caller, table, entries, mu, allowed, calls>>

Expired(ip) == table[ip] # None /\ time - entries[table[ip]].lastTime > GarbageCollect

Cleanup ==
  /\ gc.pc = "cleanup" /\ mu = None
  /\ table' = [ip \in Ip |-> IF Expired(ip) THEN None ELSE table[ip]]
  /\ gc' = [pc |-> "select", tick |-> IF Range(table') = {None} THEN None ELSE gc.tick]
  /\ UNCHANGED <<time, caller, entries, mu, allowed, calls>>

-----------------------------------------------------------------------------
\* The pace assumed of the scheduler: the goroutine takes a signal or a tick when it comes, and no
\* worker is held up for a garbage-collection period between missing an entry and making one.
Prompt ==
  /\ mu = None /\ gc.pc = "select" /\ (gc.tick = None \/ time < gc.tick)
  /\ \A w \in Caller : caller[w].pc = "insert" => time + 1 < caller[w].at + GarbageCollect

LimiterTick ==
  /\ time < MaxLimiterTime /\ Prompt
  /\ time' = time + 1
  /\ UNCHANGED <<caller, table, entries, mu, gc, allowed, calls>>

\* Ratelimiter.Init, of NewDevice.
LimiterInit ==
  /\ time = 1 /\ calls = 0
  /\ caller = [w \in Caller |-> NoCall]
  /\ table = [ip \in Ip |-> None]
  /\ entries = [e \in 1..(Cardinality(Ip) + Cardinality(Caller)) |-> [tokens |-> 0, lastTime |-> 0]]
  /\ mu = None /\ gc = [pc |-> "select", tick |-> None] /\ allowed = [ip \in Ip |-> [t \in 1..MaxLimiterTime |-> 0]]

LimiterNext ==
  \/ \E w \in Caller : AllowLookup(w) \/ AllowInsert(w) \/ AllowSignal(w) \/ AllowSpend(w)
  \/ GcTick \/ Cleanup \/ LimiterTick

LimiterSpec == LimiterInit /\ [][LimiterNext]_limiterVars

-----------------------------------------------------------------------------
\* Over every span of time up to now an address gets at worst what it would get if each worker had a limiter of
\* its own (a burst and one more per packetCost), though workers may make its entry twice and spend
\* from one that was replaced or swept.
RateBound ==
  \A ip \in Ip : \A since \in 1..time :
    SumFunctionOnSet(allowed[ip], since..time) * PacketCost <= Cardinality(Caller) * (MaxTokens + time - since)

\* Entries are swept: while the table has one that no worker is announcing the ticker runs, and the worker
\* that tells the goroutine of the first entry, holding the lock the sweep needs, never waits for the sweep.
LimiterMoves ==
  /\ ~(mu # None /\ gc.pc = "cleanup")
  /\ Range(table) # {None} /\ mu = None => gc.tick # None

-----------------------------------------------------------------------------
(* What the proofs add to LimiterMoves to make it inductive.                 *)

Empty == \A ip \in Ip : table[ip] = None
Alone(tab, ip) == \A j \in Ip : j # ip => tab[j] = None

\* The ticker runs exactly while there is something to sweep, or is about to; its next tick is ahead, and so is
\* the sweep while a worker announces an entry.
TickerRuns ==
  /\ gc.tick # None => ~Empty
  /\ ~Empty /\ mu = None => gc.tick # None
  /\ gc.pc = "select" /\ gc.tick # None => time <= gc.tick
  /\ gc.pc = "cleanup" => gc.tick >= time + GarbageCollect /\ mu = None
  /\ mu # None => ~Empty /\ (gc.tick = None \/ time < gc.tick)

\* Only the worker that holds the lock announces an entry.
SignalLocked == \A w \in Caller : caller[w].pc = "signal" => mu = w

\* A worker about to make an entry has not waited long.  If another worker made one for its address, the only
\* one in the table, the sweep is further off than this worker can wait.
InsertPending ==
  \A w \in Caller : caller[w].pc = "insert" =>
    /\ caller[w].ip \in Ip /\ caller[w].entry = None
    /\ caller[w].at <= time /\ time < caller[w].at + GarbageCollect
    /\ Alone(table, caller[w].ip) /\ table[caller[w].ip] # None /\ mu = None =>
         gc.pc = "select" /\ gc.tick >= caller[w].at + GarbageCollect

LimiterType ==
  /\ time \in Nat
  /\ caller \in [Caller -> [pc : {"none", "insert", "signal", "spend"}, ip : Ip \cup {None}, entry : Nat, at : Nat]]
  /\ table \in [Ip -> Nat]
  /\ DOMAIN entries = 1..(Cardinality(Ip) + Cardinality(Caller))
  /\ mu \in Caller \cup {None}
  /\ gc \in [pc : {"select", "cleanup"}, tick : Nat]

LimiterInv == LimiterType /\ TickerRuns /\ SignalLocked /\ InsertPending
==============================================================================
