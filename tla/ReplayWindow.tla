---------------------------- MODULE ReplayWindow ----------------------------
(***************************************************************************)
(* What an anti-replay filter promises (RFC 6479, as package replay says):  *)
(* it remembers every counter it accepted since it was reset, accepts none  *)
(* of them again, and rejects only those, the ones at or over the limit and *)
(* the ones too far behind an accepted one.                                 *)
(***************************************************************************)
EXTENDS Integers

CONSTANTS Counter,     \* the counters of received packets
          Limit,       \* RejectAfterMessages
          WindowSize

VARIABLES delivered,   \* the counters accepted since the last reset
          asked,       \* the last counter asked about
          verdict      \* the answer

Init == delivered = {} /\ asked = 0 /\ verdict = FALSE

Acceptable(c) ==
  /\ c < Limit
  /\ c \notin delivered
  /\ \A d \in delivered : d - c <= WindowSize

Validate(c) ==
  /\ asked' = c
  /\ verdict' = Acceptable(c)
  /\ delivered' = IF Acceptable(c) THEN delivered \cup {c} ELSE delivered

Reset == delivered' = {} /\ UNCHANGED <<asked, verdict>>

Next == Reset \/ \E c \in Counter : Validate(c)

Spec == Init /\ [][Next]_<<delivered, asked, verdict>>
=============================================================================
