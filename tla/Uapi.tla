--------------------------------- MODULE Uapi ---------------------------------
(***************************************************************************)
(* The configuration protocol (uapi.go): a set operation is a sequence of     *)
(* lines, each applied as it is read, except that headers, paddings and the    *)
(* header protection key are collected and merged at the end.  A line's        *)
(* handler is a function of s: the device s.dev, and the state s.op of the     *)
(* operation.  The get operation is in UapiGet.                                *)
(*                                                                         *)
(* The table of allowed IPs is the map of module Routes; what the locks do is   *)
(* in DeviceLocks.                                                           *)
(***************************************************************************)
EXTENDS Integers, Sequences, FiniteSets

CONSTANTS
  Key, NoKey,            \* public keys; none
  Ip,                    \* prefixes
  MaxPeers,
  Kind,                  \* message types, of "init", "response", "cookie", "transport"
  HeaderRange, Padding, Size,  \* what h1-h4 and s1-s4 may be set to; the size of a message of each kind
  Nonce,                 \* HeaderCipherNonceSize
  MaxLine                \* bound: lines in all

VARIABLES
  s,       \* [dev, op]
  lines    \* how many lines were read

uapiVars == <<s, lines>>

Zero == [lo |-> 0, hi |-> 0]

\* The type of a kind of message in WireGuard, by which the kinds are also ordered.
TypeOf(k) == CASE k = "init" -> 1 [] k = "response" -> 2 [] k = "cookie" -> 3 [] k = "transport" -> 4

First(kinds) == CHOOSE k \in kinds : \A l \in kinds : TypeOf(k) <= TypeOf(l)

\* FromString refuses a range whose end is before its start.
ASSUME ConfigAssumption ==
  /\ Kind \subseteq {"init", "response", "cookie", "transport"} /\ Kind # {}
  /\ \A r \in HeaderRange : r.lo \in Nat /\ r.hi \in Nat /\ r.lo <= r.hi
  /\ Padding \subseteq Nat /\ 0 \in Padding /\ Nonce \in Nat
  /\ \A k \in Kind : Size[k] \in Nat

\* Mutant: ranges that share an end do not overlap.
Overlap_Strict(l, r) == l.lo < r.hi /\ r.lo < l.hi

Overlap(l, r) == l.lo <= r.hi /\ r.lo <= l.hi

Contains(r, n) == r.lo <= n /\ n <= r.hi

-----------------------------------------------------------------------------
(* The device                                                                *)

\* NewDevice: the headers are WireGuard's types, everything else is zero.
NewDevice ==
  [up |-> FALSE, identity |-> NoKey,
   peers |-> {}, running |-> {}, interval |-> [k \in Key |-> 0],  \* keyMap, isRunning, persistentKeepaliveInterval
   allowed |-> [i \in Ip |-> NoKey],
   setting |-> 0,                                                 \* a value that its line stores at once
   headers |-> [k \in Kind |-> [lo |-> TypeOf(k), hi |-> TypeOf(k)]],
   paddings |-> [k \in Kind |-> 0], protect |-> 0]                \* protect: headerProtection.key

removePeerLocked(d, k) ==
  [d EXCEPT !.allowed = [i \in Ip |-> IF @[i] = k THEN NoKey ELSE @[i]],
            !.running = @ \ {k}, !.peers = @ \ {k}, !.interval[k] = 0]

RemoveAllPeers(d) ==
  [d EXCEPT !.allowed = [i \in Ip |-> NoKey], !.running = {}, !.peers = {}, !.interval = [k \in Key |-> 0]]

SetPrivateKey(d, k) == [(IF k \in d.peers THEN removePeerLocked(d, k) ELSE d) EXCEPT !.identity = k]

-----------------------------------------------------------------------------
(* The set operation                                                         *)

fromDevice(d) == [headers |-> d.headers, paddings |-> d.paddings, protect |-> d.protect]

\* IpcSetOperation: ipcDev, the device section, and no peer yet.
Begin(d) ==
  [open |-> TRUE, ok |-> TRUE, deviceConfig |-> TRUE, ipcDev |-> fromDevice(d),
   peer |-> NoKey, dummy |-> FALSE, created |-> FALSE, pkaOn |-> FALSE]

Closed == [Begin(NewDevice) EXCEPT !.open = FALSE]

Fail(t) == [t EXCEPT !.op = [Closed EXCEPT !.ok = FALSE]]

handleDeviceLine(t, line) ==
  CASE line.key = "private_key"   -> [t EXCEPT !.dev = SetPrivateKey(t.dev, line.value)]
    [] line.key = "replace_peers" -> [t EXCEPT !.dev = RemoveAllPeers(t.dev)]
    [] line.key = "setting"       -> [t EXCEPT !.dev.setting = line.value]
    [] line.key = "padding"       -> [t EXCEPT !.op.ipcDev.paddings[line.kind] = line.value]
    [] line.key = "header"        -> [t EXCEPT !.op.ipcDev.headers[line.kind] = line.value]
    [] line.key = "protect"       -> [t EXCEPT !.op.ipcDev.protect = line.value]
    [] OTHER -> Fail(t)

\* The peer configured so far is started, if the device is up.
handlePostConfig(t) ==
  IF t.op.peer = NoKey \/ t.op.dummy \/ ~t.dev.up THEN t
  ELSE [t EXCEPT !.dev.running = @ \cup {t.op.peer}]

\* The previous peer is finished; this one is found, created, or a dummy if it is the device itself.
handlePublicKeyLine(t, k) ==
  LET u == handlePostConfig(t)
      dummy == u.dev.identity = k
      created == ~dummy /\ k \notin u.dev.peers
      op == [u.op EXCEPT !.deviceConfig = FALSE, !.peer = k, !.dummy = dummy, !.created = created] IN
  IF created /\ Cardinality(u.dev.peers) >= MaxPeers THEN Fail(u)
  ELSE [u EXCEPT !.op = op, !.dev.peers = IF created THEN @ \cup {k} ELSE @]

Dummy(t) == [t EXCEPT !.op.dummy = TRUE]

removeLine(t) ==
  Dummy(IF t.op.dummy THEN t ELSE [t EXCEPT !.dev = removePeerLocked(t.dev, t.op.peer)])

updateOnly(t) == IF t.op.created /\ ~t.op.dummy THEN removeLine(t) ELSE t

\* pkaOn is set even for a dummy, whose interval is a throwaway.
persistentKeepalive(t, n) ==
  LET old == IF t.op.dummy THEN 0 ELSE t.dev.interval[t.op.peer]
      u == [t EXCEPT !.op.pkaOn = old = 0 /\ n # 0] IN
  IF t.op.dummy THEN u ELSE [u EXCEPT !.dev.interval[t.op.peer] = n]

allowedIp(t, ip, add) ==
  IF t.op.dummy THEN t
  ELSE [t EXCEPT !.dev.allowed[ip] = IF add THEN t.op.peer ELSE IF @ = t.op.peer THEN NoKey ELSE @]

replaceAllowedIps(t) ==
  IF t.op.dummy THEN t
  ELSE [t EXCEPT !.dev.allowed = [i \in Ip |-> IF @[i] = t.op.peer THEN NoKey ELSE @[i]]]

handlePeerLine(t, line) ==
  CASE line.key = "update_only"         -> updateOnly(t)
    [] line.key = "remove"              -> removeLine(t)
    [] line.key = "interval"            -> persistentKeepalive(t, line.value)
    [] line.key = "replace_allowed_ips" -> replaceAllowedIps(t)
    [] line.key = "allowed_ip"          -> allowedIp(t, line.value, line.add)
    [] OTHER -> Fail(t)

HandleLine(t, line) ==
  IF ~t.op.open THEN t
  ELSE IF line.key = "public_key" THEN handlePublicKeyLine(t, line.value)
  ELSE IF t.op.deviceConfig THEN handleDeviceLine(t, line) ELSE handlePeerLine(t, line)

\* Mutant: only the padding of the first kind is looked at.
mergeWithDevice_FirstPadding(t) ==
  LET d == t.op.ipcDev
      headers == [t EXCEPT !.dev.headers = d.headers] IN
  IF \E k, l \in Kind : k # l /\ Overlap(d.headers[k], d.headers[l]) THEN Fail(t)
  ELSE IF d.protect # 0 /\ d.paddings[First(Kind)] < Nonce THEN Fail(headers)
  ELSE [headers EXCEPT !.dev.paddings = d.paddings, !.dev.protect = d.protect]

\* mergeWithDevice: the headers are stored before the paddings are looked at.
mergeWithDevice(t) ==
  LET d == t.op.ipcDev
      headers == [t EXCEPT !.dev.headers = d.headers] IN
  IF \E k, l \in Kind : k # l /\ Overlap(d.headers[k], d.headers[l]) THEN Fail(t)
  ELSE IF d.protect # 0 /\ \E k \in Kind : d.paddings[k] < Nonce THEN Fail(headers)
  ELSE [headers EXCEPT !.dev.paddings = d.paddings, !.dev.protect = d.protect]

\* The end of the lines; the last peer is left as it is if the merge fails.
Finish(t) ==
  IF ~t.op.open THEN t
  ELSE LET u == mergeWithDevice(t) IN
       IF u.op.open THEN [handlePostConfig(u) EXCEPT !.op = Closed] ELSE u

-----------------------------------------------------------------------------
(* A message's type on arrival                                               *)

\* A packet of kind k under d's configuration: its size, and the word at each offset.  The word after the
\* padding is a header of its kind; another is part of the padding or the body, and could be anything.
Packet(d, k, extra, other) ==
  [size |-> d.paddings[k] + Size[k] + (IF k = "transport" THEN extra ELSE 0),
   word |-> [p \in Padding |-> IF p = d.paddings[k] THEN d.headers[k].lo ELSE other]]

\* The kinds whose size and header fit.
Fitting(d, packet) ==
  {k \in Kind : /\ IF k = "transport" THEN packet.size >= d.paddings[k] + Size[k]
                                      ELSE packet.size = d.paddings[k] + Size[k]
                /\ Contains(d.headers[k], packet.word[d.paddings[k]])}

\* The kinds are tried in order, and the first that fits is taken.
DeterminePacketTypeAndPadding(d, packet) ==
  IF Fitting(d, packet) = {} THEN "unknown" ELSE First(Fitting(d, packet))

-----------------------------------------------------------------------------
Line ==
       [key : {"private_key", "public_key"}, value : Key]
  \cup [key : {"replace_peers", "update_only", "remove", "replace_allowed_ips", "malformed"}]
  \cup [key : {"setting", "protect", "interval"}, value : {0, 1}]
  \cup [key : {"padding"}, kind : Kind, value : Padding]
  \cup [key : {"header"}, kind : Kind, value : HeaderRange]
  \cup [key : {"allowed_ip"}, value : Ip, add : BOOLEAN]

IpcSetBegin ==
  /\ ~s.op.open /\ lines < MaxLine
  /\ s' = [s EXCEPT !.op = Begin(s.dev)]
  /\ UNCHANGED lines

IpcSetLine(line) ==
  /\ s.op.open /\ lines < MaxLine
  /\ s' = HandleLine(s, line)
  /\ lines' = lines + 1

IpcSetEnd ==
  /\ s.op.open
  /\ s' = Finish(s)
  /\ UNCHANGED lines

\* Up and Down do not wait for a set operation.
Up ==
  /\ ~s.dev.up
  /\ s' = [s EXCEPT !.dev.up = TRUE, !.dev.running = s.dev.peers]
  /\ UNCHANGED lines

Down ==
  /\ s.dev.up
  /\ s' = [s EXCEPT !.dev.up = FALSE, !.dev.running = {}]
  /\ UNCHANGED lines

UapiInit == s = [dev |-> NewDevice, op |-> Closed] /\ lines = 0

UapiNext == IpcSetBegin \/ IpcSetEnd \/ Up \/ Down \/ \E line \in Line : IpcSetLine(line)

UapiSpec == UapiInit /\ [][UapiNext]_uapiVars

-----------------------------------------------------------------------------
\* Every configuration the device is in, whatever operations failed on the way and wherever they did, has
\* a padding long enough to be the nonce wherever headers are protected.
ProtectedHasNonce == s.dev.protect # 0 => \A k \in Kind : s.dev.paddings[k] >= Nonce

\* A message is taken for what it is by a device with its sender's configuration; it can be taken for a kind
\* with another padding only, by a chance match of its bytes.
Recognised ==
  \A k \in Kind, extra \in 0..2, other \in 0..5 :
    LET found == DeterminePacketTypeAndPadding(s.dev, Packet(s.dev, k, extra, other)) IN
    found = k \/ (found # "unknown" /\ s.dev.paddings[found] # s.dev.paddings[k])

-----------------------------------------------------------------------------
(* What the proofs add to the properties to make them inductive.             *)

\* Headers are what h1-h4 may be set to or WireGuard's types, paddings what s1-s4 may be set to.
InRange(d) ==
  /\ d.headers \in [Kind -> HeaderRange \cup {[lo |-> n, hi |-> n] : n \in 1..4}]
  /\ d.paddings \in [Kind -> Padding]

\* The headers of a device tell its messages apart, and its paddings are long enough.
DeviceSound(d) ==
  /\ InRange(d)
  /\ \A k, l \in Kind : k # l => ~Overlap(d.headers[k], d.headers[l])
  /\ d.protect # 0 => \A k \in Kind : d.paddings[k] >= Nonce

HasFields(t) ==
  /\ {"dev", "op"} \subseteq DOMAIN t /\ {"open", "ipcDev"} \subseteq DOMAIN t.op
  /\ {"headers", "paddings", "protect"} \subseteq DOMAIN t.dev
  /\ {"headers", "paddings", "protect"} \subseteq DOMAIN t.op.ipcDev

\* The device is sound at every line, what is collected for the merge only well formed.
ConfigSound(t) == HasFields(t) /\ DeviceSound(t.dev) /\ InRange(t.op.ipcDev)

UapiInv == ConfigSound(s)
==============================================================================
