--------------------------- MODULE MCConfiguration ---------------------------
(***************************************************************************)
(* What decides, packet by packet, where a packet may go: the configuration  *)
(* protocol, the table of allowed IPs and the replay filter, for TLC.  The   *)
(* modules share no variable, so a behaviour exercises one of them, chosen   *)
(* in its initial state.                                                     *)
(***************************************************************************)
EXTENDS UapiGet, AllowedIPs, ReplayFilter

VARIABLE part

MCInit ==
  /\ part \in {"configuration", "table", "filter"}
  /\ UapiInit /\ TableInit /\ Init

MCNext ==
  \/ part = "configuration" /\ UapiNext /\ UNCHANGED <<part, trie, vars>>
  \/ part = "table" /\ TableNext /\ UNCHANGED <<part, uapiVars, vars>>
  \/ part = "filter" /\ Next /\ UNCHANGED <<part, uapiVars, trie>>

MCSpec == MCInit /\ [][MCNext]_<<part, uapiVars, trie, vars>>

Symmetry == Permutations(Key)
MCRange == {[lo |-> 0, hi |-> 0], [lo |-> 1, hi |-> 1], [lo |-> 3, hi |-> 5]}
MCSize == [k \in Kind |-> IF k = "transport" THEN 1 ELSE 2]
==============================================================================
