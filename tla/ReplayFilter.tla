---------------------------- MODULE ReplayFilter ----------------------------
(***************************************************************************)
(* Package replay: a ring of RingBlocks blocks of BlockBits bits, of which  *)
(* the last RingBlocks blocks up to that of the newest counter are in use.  *)
(* A block is the set of its bits; the sizes are powers of two in the code, *)
(* so that its shifts and masks are \div and % here.                        *)
(***************************************************************************)
EXTENDS Integers

CONSTANTS BlockBits, RingBlocks,
          Limit,        \* RejectAfterMessages
          MaxCounter    \* bound on the counters of received packets

ASSUME SizeAssumption == BlockBits \in Nat \ {0} /\ RingBlocks \in Nat \ {0}
ASSUME CounterAssumption == Limit \in Nat /\ MaxCounter \in Nat

Counter == 0..MaxCounter
WindowSize == (RingBlocks - 1) * BlockBits

BlockOf(c) == c \div BlockBits
BitOf(c) == c % BlockBits
RingIndex(b) == b % RingBlocks

VARIABLES last, ring,   \* the Filter
          delivered,    \* the counters accepted since the last Reset
          asked,        \* the last counter given to ValidateCounter
          verdict       \* its result

vars == <<last, ring, delivered, asked, verdict>>

\* "The zero value for Filter is an empty filter ready to use."
Init ==
  /\ last = 0
  /\ ring = [j \in 0..(RingBlocks - 1) |-> {}]
  /\ delivered = {}
  /\ asked = 0
  /\ verdict = FALSE

\* Reset clears one block only; the others are cleared as the window moves.
Reset ==
  /\ last' = 0
  /\ ring' = [ring EXCEPT ![0] = {}]
  /\ delivered' = {}
  /\ UNCHANGED <<asked, verdict>>

Cleared(r, from, to) ==
  LET diff == IF to - from > RingBlocks THEN RingBlocks ELSE to - from
  IN [j \in 0..(RingBlocks - 1) |->
        IF \E i \in (from + 1)..(from + diff) : RingIndex(i) = j THEN {} ELSE r[j]]

Rejected_AtWindow(c) == c >= Limit \/ (c <= last /\ last - c >= WindowSize)
Rejected(c) == c >= Limit \/ (c <= last /\ last - c > WindowSize)

MovedRing(c) == IF c > last THEN Cleared(ring, BlockOf(last), BlockOf(c)) ELSE ring

ValidateCounter(c) ==
  LET moved == MovedRing(c)
      j == RingIndex(BlockOf(c))
      fresh == BitOf(c) \notin moved[j]
  IN /\ asked' = c
     /\ IF Rejected(c)
        THEN verdict' = FALSE /\ UNCHANGED <<last, ring, delivered>>
        ELSE /\ last' = IF c > last THEN c ELSE last
             /\ ring' = [moved EXCEPT ![j] = @ \cup {BitOf(c)}]
             /\ verdict' = fresh
             /\ delivered' = IF fresh THEN delivered \cup {c} ELSE delivered

Next == Reset \/ \E c \in Counter : ValidateCounter(c)

Spec == Init /\ [][Next]_vars

-----------------------------------------------------------------------------
(* Properties. *)

\* The filter keeps its type.
TypeOK ==
  /\ last \in Counter
  /\ ring \in [0..(RingBlocks - 1) -> SUBSET (0..(BlockBits - 1))]
  /\ delivered \subseteq Counter
  /\ asked \in Counter
  /\ verdict \in BOOLEAN

\* last is the newest accepted counter.
LastIsNewest ==
  /\ \A d \in delivered : d <= last
  /\ last = 0 \/ last \in delivered

\* In the RingBlocks blocks up to the newest, a bit is set exactly when its
\* counter was accepted: no stale bit of an earlier turn of the ring, or of
\* the time before Reset, is ever taken for a replay.
RingExact ==
  \A c \in Counter :
    BlockOf(c) <= BlockOf(last) /\ BlockOf(last) - BlockOf(c) < RingBlocks
      => (BitOf(c) \in ring[RingIndex(BlockOf(c))] <=> c \in delivered)

FilterInv == TypeOK /\ LastIsNewest /\ RingExact

\* The ring filter gives, for every sequence of counters and resets, the
\* answers of the filter that remembers all it accepted: no counter twice,
\* and no counter of the window lost.
Window == INSTANCE ReplayWindow
ImplementsWindow == Window!Spec
=============================================================================
