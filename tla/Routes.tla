-------------------------------- MODULE Routes --------------------------------
(***************************************************************************)
(* What the table of allowed IPs promises: a map from prefixes to peers, and  *)
(* the longest match for an address.  AllowedIPs implements it with a trie.   *)
(***************************************************************************)
EXTENDS Naturals

CONSTANTS
  Address, Prefix, Peer, None,
  Covers(_, _)   \* whether a prefix covers an address

VARIABLES
  route,         \* which peer a prefix is allowed for
  answer         \* the peer that the packets to, or from, an address belong to

LongestMatch(r) ==
  LET held == {p \in Prefix : r[p] # None} IN
  [ip \in Address |->
     LET matches == {p \in held : Covers(p, ip)} IN
     IF matches = {} THEN None ELSE r[CHOOSE p \in matches : \A q \in matches : q.cidr <= p.cidr]]

Init == route = [p \in Prefix |-> None] /\ answer = LongestMatch(route)

Insert(p, peer) == route' = [route EXCEPT ![p] = peer]

Remove(p, peer) == route' = [route EXCEPT ![p] = IF @ = peer THEN None ELSE @]

RemoveByPeer(peer) == route' = [p \in Prefix |-> IF route[p] = peer THEN None ELSE route[p]]

Next ==
  /\ \E peer \in Peer : RemoveByPeer(peer) \/ \E p \in Prefix : Insert(p, peer) \/ Remove(p, peer)
  /\ answer' = LongestMatch(route')

Spec == Init /\ [][Next]_<<route, answer>>
==============================================================================
