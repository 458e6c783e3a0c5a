------------------------------ MODULE AllowedIPs ------------------------------
(***************************************************************************)
(* The trie of allowed IPs (allowedips.go), for addresses of Width bits.       *)
(* A node is named by its masked bits and its cidr; parent holds the slot that  *)
(* points to it (parentIndirection): the root, or a child of another node.     *)
(***************************************************************************)
EXTENDS Naturals, FiniteSetsExt, TLC

CONSTANTS
  Width,       \* the bits of an address: 32 or 128
  Peer, Null,
  MaxEntries   \* bound: prefixes in the table

S == INSTANCE SequencesExt

VARIABLE trie   \* root; node: the nodes, with their peer, children and parent; entries: each peer's trieEntries

Address == [1..Width -> {0, 1}]

maskSelf(bits, cidr) == [i \in 1..Width |-> IF i <= cidr THEN bits[i] ELSE 0]

Prefix == {[bits |-> maskSelf(ip, cidr), cidr |-> cidr] : ip \in Address, cidr \in 0..Width}

commonBits(a, b) == Max({n \in 0..Width : \A i \in 1..n : a[i] = b[i]})

choose(n, ip) == ip[n.cidr + 1]

Root == [owner |-> Null, bit |-> 2]

-----------------------------------------------------------------------------
\* The deepest node that is at most as long as the prefix and covers it.
nodePlacement(t, ip, cidr) ==
  LET walk[n \in Prefix \cup {Null}] ==
        IF n = Null THEN Null
        ELSE IF n.cidr > cidr \/ commonBits(n.bits, ip) < n.cidr THEN Null
        ELSE IF n.cidr = cidr THEN n
        ELSE LET deeper == walk[t.node[n].child[choose(n, ip)]] IN IF deeper = Null THEN n ELSE deeper
  IN walk[t.root]

lookup(t, ip) ==
  LET walk[n \in Prefix \cup {Null}] ==
        IF n = Null THEN Null
        ELSE IF commonBits(n.bits, ip) < n.cidr THEN Null
        ELSE IF n.cidr = Width THEN t.node[n].peer
        ELSE LET deeper == walk[t.node[n].child[choose(n, ip)]] IN IF deeper = Null THEN t.node[n].peer ELSE deeper
  IN walk[t.root]

\* The slot points to n, and n back to the slot.
Link(t, slot, n) ==
  LET s == IF slot = Root THEN [t EXCEPT !.root = n] ELSE [t EXCEPT !.node[slot.owner].child[slot.bit] = n] IN
  IF n = Null THEN s ELSE [s EXCEPT !.node[n].parent = slot]

Slot(n, bit) == [owner |-> n, bit |-> bit]

AddNode(t, n, peer) ==
  [t EXCEPT !.node = (n :> [peer |-> peer, child |-> [b \in {0, 1} |-> Null], parent |-> Root]) @@ @,
            !.entries = IF peer = Null THEN @ ELSE [@ EXCEPT ![peer] = @ \cup {n}]]

removeFromPeerEntries(t, n) ==
  IF t.node[n].peer = Null THEN t ELSE [t EXCEPT !.entries[t.node[n].peer] = @ \ {n}]

\* Mutant: the node made to branch is made for the peer.
insert_BranchHasPeer(t, ip, cidr, peer) ==
  LET node == nodePlacement(t, ip, cidr)
      new == [bits |-> maskSelf(ip, cidr), cidr |-> cidr]
      slot == IF node = Null THEN Root ELSE Slot(node, choose(node, ip))
      down == IF slot = Root THEN t.root ELSE t.node[node].child[slot.bit]
      common == commonBits(down.bits, ip)
      middle == [bits |-> maskSelf(ip, common), cidr |-> common]
      added == AddNode(t, new, peer)
  IN IF node # Null /\ node.cidr = cidr
     THEN [removeFromPeerEntries(t, node) EXCEPT !.node[node].peer = peer, !.entries[peer] = @ \cup {node}]
     ELSE IF down = Null THEN Link(added, slot, new)
     ELSE IF common >= cidr THEN Link(Link(added, Slot(new, choose(new, down.bits)), down), slot, new)
     ELSE Link(Link(Link(AddNode(added, middle, peer), Slot(middle, choose(middle, down.bits)), down),
                    Slot(middle, choose(middle, new.bits)), new),
               slot, middle)

insert(t, ip, cidr, peer) ==
  LET node == nodePlacement(t, ip, cidr)
      new == [bits |-> maskSelf(ip, cidr), cidr |-> cidr]
      slot == IF node = Null THEN Root ELSE Slot(node, choose(node, ip))
      down == IF slot = Root THEN t.root ELSE t.node[node].child[slot.bit]
      common == commonBits(down.bits, ip)
      middle == [bits |-> maskSelf(ip, common), cidr |-> common]
      added == AddNode(t, new, peer)
  IN IF node # Null /\ node.cidr = cidr
     THEN [removeFromPeerEntries(t, node) EXCEPT !.node[node].peer = peer, !.entries[peer] = @ \cup {node}]
     ELSE IF down = Null THEN Link(added, slot, new)
     ELSE IF common >= cidr THEN Link(Link(added, Slot(new, choose(new, down.bits)), down), slot, new)
     ELSE Link(Link(Link(AddNode(added, middle, Null), Slot(middle, choose(middle, down.bits)), down),
                    Slot(middle, choose(middle, new.bits)), new),
               slot, middle)

Drop(t, ns) == [t EXCEPT !.node = [n \in DOMAIN @ \ ns |-> @[n]]]

\* A node with two children stays, without a peer; a childless one takes along a parent that served only to branch.
remove(t, n) ==
  LET cleared == [removeFromPeerEntries(t, n) EXCEPT !.node[n].peer = Null]
      child == t.node[n].child
      up == t.node[n].parent
      only == IF child[0] = Null THEN child[1] ELSE child[0]
      spliced == Link(cleared, up, only)
  IN IF child[0] # Null /\ child[1] # Null THEN cleared
     ELSE IF only # Null \/ up = Root THEN Drop(spliced, {n})
     ELSE IF t.node[up.owner].peer # Null THEN Drop(spliced, {n})
     ELSE Drop(Link(spliced, t.node[up.owner].parent, t.node[up.owner].child[1 - up.bit]), {n, up.owner})

-----------------------------------------------------------------------------
Insert(prefix, peer) ==
  /\ Cardinality({prefix} \cup UNION {trie.entries[p] : p \in Peer}) <= MaxEntries
  /\ trie' = insert(trie, prefix.bits, prefix.cidr, peer)

Remove(prefix, peer) ==
  LET node == nodePlacement(trie, prefix.bits, prefix.cidr) IN
  /\ node = prefix /\ trie.node[node].peer = peer
  /\ trie' = remove(trie, node)

\* The list of a peer's entries is in the order they were inserted: any order.
RemoveByPeer(peer) ==
  \E list \in S!SetToSeqs(trie.entries[peer]) : trie' = S!FoldLeft(remove, trie, list)

TableInit == trie = [root |-> Null, node |-> << >>, entries |-> [p \in Peer |-> {}]]

TableNext ==
  \E peer \in Peer : RemoveByPeer(peer) \/ \E prefix \in Prefix : Insert(prefix, peer) \/ Remove(prefix, peer)

TableSpec == TableInit /\ [][TableNext]_trie

-----------------------------------------------------------------------------
Covers(n, ip) == maskSelf(ip, n.cidr) = n.bits

Abstract == INSTANCE Routes WITH
  None <- Null,
  route <- [p \in Prefix |-> IF p \in DOMAIN trie.node THEN trie.node[p].peer ELSE Null],
  answer <- [ip \in Address |-> lookup(trie, ip)]

\* The trie, seen as the map from prefixes to peers that its nodes hold, is changed by each operation as
\* the map is; and Lookup, which follows one path down the trie, finds the peer of the longest prefix that
\* covers the address, whatever was inserted, moved between peers and removed before.
ImplementsRoutes == Abstract!Spec
==============================================================================
