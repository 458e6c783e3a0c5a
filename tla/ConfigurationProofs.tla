------------------------ MODULE ConfigurationProofs ------------------------
(***************************************************************************)
(* What a device is configured with and what it accepts of a peer.         *)
(*                                                                         *)
(* The configuration protocol: for any set of kinds, ranges, paddings and  *)
(* sizes, in every state of every set operation the device's headers tell  *)
(* its messages apart, and its paddings are long enough where headers are  *)
(* protected.  Neither is inductive alone: the device is ConfigSound,      *)
(* which adds that what a set operation has collected so far is in range   *)
(* (though not that it is sound, which only the merge finds out).          *)
(*                                                                         *)
(* The replay filter: the ring implements ReplayWindow for any block size, *)
(* ring size, limit and range of counters.                                 *)
(***************************************************************************)
EXTENDS Uapi, ReplayFilter, TLAPS

-----------------------------------------------------------------------------
(* The configuration protocol: kinds and devices                             *)

\* First is a member of any set of kinds that has one: the first of the order tried that fits.
LEMMA FirstIsOne ==
  ASSUME NEW kinds \in SUBSET Kind, kinds # {}
  PROVE  First(kinds) \in kinds
<1>1. kinds \subseteq {"init", "response", "cookie", "transport"}
  BY ConfigAssumption, Zenon
<1>2. TypeOf("init") = 1 /\ TypeOf("response") = 2 /\ TypeOf("cookie") = 3 /\ TypeOf("transport") = 4
  BY Zenon DEF TypeOf
<1>3. \E k \in kinds : \A l \in kinds : TypeOf(k) <= TypeOf(l)
  <2>1. CASE "init" \in kinds
    BY <1>1, <1>2, <2>1
  <2>2. CASE "init" \notin kinds /\ "response" \in kinds
    BY <1>1, <1>2, <2>2
  <2>3. CASE "init" \notin kinds /\ "response" \notin kinds /\ "cookie" \in kinds
    BY <1>1, <1>2, <2>3
  <2>4. CASE kinds = {"transport"}
    BY <1>2, <2>4
  <2> QED
    BY <1>1, <2>1, <2>2, <2>3, <2>4, Zenon
<1> QED
  BY <1>3, Zenon DEF First

\* The types of the kinds are those of WireGuard, and no two have the same.
LEMMA TypesDistinct ==
  ASSUME NEW k \in Kind
  PROVE  TypeOf(k) \in 1..4 /\ \A l \in Kind : k # l => TypeOf(k) # TypeOf(l)
<1>1. Kind \subseteq {"init", "response", "cookie", "transport"}
  BY ConfigAssumption, Zenon
<1>2. TypeOf("init") = 1 /\ TypeOf("response") = 2 /\ TypeOf("cookie") = 3 /\ TypeOf("transport") = 4
  BY Zenon DEF TypeOf
<1> QED
  BY <1>1, <1>2

\* A header in range is a range of numbers that is not empty.
LEMMA HeaderNotEmpty ==
  ASSUME NEW d, InRange(d), NEW k \in Kind
  PROVE  d.headers[k].lo \in Nat /\ d.headers[k].hi \in Nat /\ d.headers[k].lo <= d.headers[k].hi
<1>1. d.headers[k] \in HeaderRange \cup {[lo |-> n, hi |-> n] : n \in 1..4}
  BY Zenon DEF InRange
<1> QED
  BY <1>1, ConfigAssumption

\* A device with the headers, paddings and key of a sound one is sound: the other fields do not matter.
LEMMA SameDeviceSound ==
  ASSUME NEW d, NEW e, DeviceSound(d),
         e.headers = d.headers, e.paddings = d.paddings, e.protect = d.protect
  PROVE  DeviceSound(e)
BY Zenon DEF DeviceSound, InRange

\* What a step must show that leaves the device's headers, paddings and key alone.
SameDevice(d, e) ==
  /\ {"headers", "paddings", "protect"} \subseteq DOMAIN d =>
       {"headers", "paddings", "protect"} \subseteq DOMAIN e
  /\ {"headers", "paddings", "protect"} \subseteq DOMAIN d =>
       e.headers = d.headers /\ e.paddings = d.paddings /\ e.protect = d.protect

\* removePeerLocked, RemoveAllPeers and SetPrivateKey change none of the fields that are merged.
LEMMA RemovePeerSame ==
  ASSUME NEW d, NEW k
  PROVE  SameDevice(d, removePeerLocked(d, k))
BY Zenon DEF SameDevice, removePeerLocked

LEMMA RemoveAllSame ==
  ASSUME NEW d
  PROVE  SameDevice(d, RemoveAllPeers(d))
BY Zenon DEF SameDevice, RemoveAllPeers

LEMMA SetPrivateKeySame ==
  ASSUME NEW d, NEW k
  PROVE  SameDevice(d, SetPrivateKey(d, k))
<1>1. SameDevice(d, removePeerLocked(d, k))
  BY RemovePeerSame, Zenon
<1>2. \A e : SameDevice(d, e) => SameDevice(d, [e EXCEPT !.identity = k])
  BY Zenon DEF SameDevice
<1>3. SameDevice(d, d)
  BY Zenon DEF SameDevice
<1> QED
  BY <1>1, <1>2, <1>3, Zenon DEF SetPrivateKey

-----------------------------------------------------------------------------
(* The lines                                                                 *)

\* A new device, and the state between operations, are sound.
LEMMA NewDeviceSound ==
  /\ {"headers", "paddings", "protect"} \subseteq DOMAIN NewDevice
  /\ DeviceSound(NewDevice)
<1> DEFINE d == NewDevice
<1>1. /\ {"headers", "paddings", "protect"} \subseteq DOMAIN d
      /\ d.headers = [k \in Kind |-> [lo |-> TypeOf(k), hi |-> TypeOf(k)]]
      /\ d.paddings = [k \in Kind |-> 0] /\ d.protect = 0
  BY Zenon DEF NewDevice
<1> HIDE DEF d
<1>2. \A k \in Kind : [lo |-> TypeOf(k), hi |-> TypeOf(k)] \in {[lo |-> n, hi |-> n] : n \in 1..4}
  BY TypesDistinct, Zenon
<1>3. d.headers \in [Kind -> HeaderRange \cup {[lo |-> n, hi |-> n] : n \in 1..4}]
  BY <1>1, <1>2, ZenonT(60)
<1>4. d.paddings \in [Kind -> Padding]
  BY <1>1, ConfigAssumption, Zenon
<1>5. ASSUME NEW k \in Kind, NEW l \in Kind, k # l
      PROVE  ~Overlap(d.headers[k], d.headers[l])
  <2>1. TypeOf(k) \in 1..4 /\ TypeOf(l) \in 1..4 /\ TypeOf(k) # TypeOf(l)
    BY <1>5, TypesDistinct, Zenon
  <2>2. /\ d.headers[k].lo = TypeOf(k) /\ d.headers[k].hi = TypeOf(k)
        /\ d.headers[l].lo = TypeOf(l) /\ d.headers[l].hi = TypeOf(l)
    BY <1>1
  <2> QED
    BY <2>1, <2>2 DEF Overlap
<1>6. DeviceSound(d)
  BY <1>1, <1>3, <1>4, <1>5, Zenon DEF DeviceSound, InRange
<1> QED
  BY <1>1, <1>6, Zenon DEF d

\* IpcSetOperation begins with a copy of what the device has.
LEMMA BeginDoes ==
  ASSUME NEW d
  PROVE  /\ {"open", "ipcDev"} \subseteq DOMAIN Begin(d)
         /\ {"headers", "paddings", "protect"} \subseteq DOMAIN Begin(d).ipcDev
         /\ Begin(d).ipcDev.headers = d.headers /\ Begin(d).ipcDev.paddings = d.paddings
BY Zenon DEF Begin, fromDevice

LEMMA ClosedDoes ==
  /\ {"open", "ipcDev"} \subseteq DOMAIN Closed
  /\ {"headers", "paddings", "protect"} \subseteq DOMAIN Closed.ipcDev
  /\ InRange(Closed.ipcDev) /\ Closed.open = FALSE
<1>1. PICK b : b = Begin(NewDevice)
  BY Zenon
<1>2. /\ {"open", "ipcDev"} \subseteq DOMAIN b
      /\ {"headers", "paddings", "protect"} \subseteq DOMAIN b.ipcDev
      /\ b.ipcDev.headers = NewDevice.headers /\ b.ipcDev.paddings = NewDevice.paddings
  BY <1>1, BeginDoes, Zenon
<1>3. Closed = [b EXCEPT !.open = FALSE]
  BY <1>1, Zenon DEF Closed
<1>4. Closed.ipcDev = b.ipcDev /\ Closed.open = FALSE /\ DOMAIN Closed = DOMAIN b
  BY <1>2, <1>3, Zenon
<1> QED
  BY <1>2, <1>4, NewDeviceSound, Zenon DEF DeviceSound, InRange

\* A state is sound when its device is, and the operation has collected values in range.
LEMMA SoundFrom ==
  ASSUME NEW t, NEW u, ConfigSound(t), {"dev", "op"} \subseteq DOMAIN u,
         SameDevice(t.dev, u.dev),
         {"open", "ipcDev"} \subseteq DOMAIN u.op,
         {"headers", "paddings", "protect"} \subseteq DOMAIN u.op.ipcDev,
         InRange(u.op.ipcDev)
  PROVE  ConfigSound(u)
<1>1. DeviceSound(t.dev) /\ {"headers", "paddings", "protect"} \subseteq DOMAIN t.dev
  BY Zenon DEF ConfigSound, HasFields
<1>2. {"headers", "paddings", "protect"} \subseteq DOMAIN u.dev /\ DeviceSound(u.dev)
  BY <1>1, SameDeviceSound, Zenon DEF SameDevice
<1> QED
  BY <1>2, Zenon DEF ConfigSound, HasFields

\* A line that leaves the operation alone need only leave the merged fields of the device alone.
LEMMA SoundDev ==
  ASSUME NEW t, NEW e, ConfigSound(t), SameDevice(t.dev, e)
  PROVE  ConfigSound([t EXCEPT !.dev = e])
<1>1. PICK u : u = [t EXCEPT !.dev = e]
  BY Zenon
<1>2. {"dev", "op"} \subseteq DOMAIN t
  BY Zenon DEF ConfigSound, HasFields
<1>3. {"dev", "op"} \subseteq DOMAIN u /\ u.dev = e /\ u.op = t.op
  BY <1>1, <1>2, Zenon
<1>4. ConfigSound(u)
  BY <1>3, SoundFrom, Zenon DEF ConfigSound, HasFields
<1> QED
  BY <1>1, <1>4, Zenon

\* A line that leaves the device alone need only leave what the operation collected in range.
LEMMA SoundOp ==
  ASSUME NEW t, NEW o, ConfigSound(t), {"open", "ipcDev"} \subseteq DOMAIN o,
         {"headers", "paddings", "protect"} \subseteq DOMAIN o.ipcDev, InRange(o.ipcDev)
  PROVE  ConfigSound([t EXCEPT !.op = o])
<1>1. PICK u : u = [t EXCEPT !.op = o]
  BY Zenon
<1>2. {"dev", "op"} \subseteq DOMAIN t
  BY Zenon DEF ConfigSound, HasFields
<1>3. {"dev", "op"} \subseteq DOMAIN u /\ u.dev = t.dev /\ u.op = o
  BY <1>1, <1>2, Zenon
<1>4. SameDevice(t.dev, u.dev)
  BY <1>3, Zenon DEF SameDevice
<1>5. ConfigSound(u)
  BY <1>3, <1>4, SoundFrom, Zenon
<1> QED
  BY <1>1, <1>5, Zenon

\* An operation that fails is closed, and the device keeps what was applied.
LEMMA FailSound ==
  ASSUME NEW t, ConfigSound(t)
  PROVE  ConfigSound(Fail(t))
<1>1. PICK c : c = Closed
  BY Zenon
<1>2. PICK o : o = [c EXCEPT !.ok = FALSE]
  BY Zenon
<1>3. o.ipcDev = c.ipcDev /\ DOMAIN o = DOMAIN c
  BY <1>1, <1>2, ClosedDoes, Zenon
<1>4. ConfigSound([t EXCEPT !.op = o])
  BY <1>1, <1>3, ClosedDoes, SoundOp, Zenon
<1> QED
  BY <1>1, <1>2, <1>4, Zenon DEF Fail

\* What a line of the protocol carries, for the keys whose value is collected.
LEMMA LineValue ==
  ASSUME NEW line \in Line
  PROVE  /\ line.key = "padding" => line.kind \in Kind /\ line.value \in Padding
         /\ line.key = "header" => line.kind \in Kind /\ line.value \in HeaderRange
BY Zenon DEF Line

\* Collecting a padding, a header or the key changes the operation only.
LEMMA CollectSound ==
  ASSUME NEW t, NEW i, ConfigSound(t),
         {"headers", "paddings", "protect"} \subseteq DOMAIN i, InRange(i)
  PROVE  ConfigSound([t EXCEPT !.op = [t.op EXCEPT !.ipcDev = i]])
<1>1. PICK o : o = [t.op EXCEPT !.ipcDev = i]
  BY Zenon
<1>2. {"open", "ipcDev"} \subseteq DOMAIN t.op
  BY Zenon DEF ConfigSound, HasFields
<1>3. DOMAIN o = DOMAIN t.op /\ o.ipcDev = i
  BY <1>1, <1>2, Zenon
<1>4. ConfigSound([t EXCEPT !.op = o])
  BY <1>2, <1>3, SoundOp, Zenon
<1> QED
  BY <1>1, <1>4, Zenon

\* handleDeviceLine: every line leaves the device sound, because the headers, the paddings and the key only
\* reach it in the merge.
LEMMA DeviceLineSound ==
  ASSUME NEW t, ConfigSound(t), NEW line \in Line
  PROVE  ConfigSound(handleDeviceLine(t, line))
<1> SUFFICES ASSUME NEW u, u = handleDeviceLine(t, line)
             PROVE  ConfigSound(u)
  BY Zenon
<1>1. PICK i : i = t.op.ipcDev
  BY Zenon
<1>2. {"headers", "paddings", "protect"} \subseteq DOMAIN i /\ InRange(i)
  BY <1>1, Zenon DEF ConfigSound, HasFields
<1>3. CASE line.key = "private_key"
  <2>1. u = [t EXCEPT !.dev = SetPrivateKey(t.dev, line.value)]
    BY <1>3, Zenon DEF handleDeviceLine
  <2>2. ConfigSound([t EXCEPT !.dev = SetPrivateKey(t.dev, line.value)])
    BY SetPrivateKeySame, SoundDev, Zenon
  <2> QED
    BY <2>1, <2>2, Zenon
<1>4. CASE line.key = "replace_peers"
  <2>1. u = [t EXCEPT !.dev = RemoveAllPeers(t.dev)]
    BY <1>4, Zenon DEF handleDeviceLine
  <2>2. ConfigSound([t EXCEPT !.dev = RemoveAllPeers(t.dev)])
    BY RemoveAllSame, SoundDev, Zenon
  <2> QED
    BY <2>1, <2>2, Zenon
<1>5. CASE line.key = "setting"
  <2>1. u = [t EXCEPT !.dev = [t.dev EXCEPT !.setting = line.value]]
    BY <1>5, Zenon DEF handleDeviceLine
  <2>2. SameDevice(t.dev, [t.dev EXCEPT !.setting = line.value])
    BY Zenon DEF SameDevice
  <2>3. ConfigSound([t EXCEPT !.dev = [t.dev EXCEPT !.setting = line.value]])
    BY <2>2, SoundDev, Zenon
  <2> QED
    BY <2>1, <2>3, Zenon
<1>6. CASE line.key = "padding"
  <2>1. PICK j : j = [i EXCEPT !.paddings = [i.paddings EXCEPT ![line.kind] = line.value]]
    BY Zenon
  <2>2. u = [t EXCEPT !.op = [t.op EXCEPT !.ipcDev = j]]
    BY <1>1, <1>6, <2>1, Zenon DEF handleDeviceLine
  <2>3. /\ DOMAIN j = DOMAIN i /\ j.headers = i.headers
        /\ j.paddings = [i.paddings EXCEPT ![line.kind] = line.value]
    BY <1>2, <2>1, Zenon
  <2>4. InRange(j)
    BY <1>2, <1>6, <2>3, LineValue, Zenon DEF InRange
  <2>5. ConfigSound([t EXCEPT !.op = [t.op EXCEPT !.ipcDev = j]])
    BY <1>2, <2>3, <2>4, CollectSound, Zenon
  <2> QED
    BY <2>2, <2>5, Zenon
<1>7. CASE line.key = "header"
  <2>1. PICK j : j = [i EXCEPT !.headers = [i.headers EXCEPT ![line.kind] = line.value]]
    BY Zenon
  <2>2. u = [t EXCEPT !.op = [t.op EXCEPT !.ipcDev = j]]
    BY <1>1, <1>7, <2>1, Zenon DEF handleDeviceLine
  <2>3. /\ DOMAIN j = DOMAIN i /\ j.paddings = i.paddings
        /\ j.headers = [i.headers EXCEPT ![line.kind] = line.value]
    BY <1>2, <2>1, Zenon
  <2>4. InRange(j)
    BY <1>2, <1>7, <2>3, LineValue, Zenon DEF InRange
  <2>5. ConfigSound([t EXCEPT !.op = [t.op EXCEPT !.ipcDev = j]])
    BY <1>2, <2>3, <2>4, CollectSound, Zenon
  <2> QED
    BY <2>2, <2>5, Zenon
<1>8. CASE line.key = "protect"
  <2>1. PICK j : j = [i EXCEPT !.protect = line.value]
    BY Zenon
  <2>2. u = [t EXCEPT !.op = [t.op EXCEPT !.ipcDev = j]]
    BY <1>1, <1>8, <2>1, Zenon DEF handleDeviceLine
  <2>3. DOMAIN j = DOMAIN i /\ j.paddings = i.paddings /\ j.headers = i.headers
    BY <1>2, <2>1, Zenon
  <2>4. InRange(j)
    BY <1>2, <2>3, Zenon DEF InRange
  <2>5. ConfigSound([t EXCEPT !.op = [t.op EXCEPT !.ipcDev = j]])
    BY <1>2, <2>3, <2>4, CollectSound, Zenon
  <2> QED
    BY <2>2, <2>5, Zenon
<1>9. CASE line.key \notin {"private_key", "replace_peers", "setting", "padding", "header", "protect"}
  <2>1. u = Fail(t)
    BY <1>9, Zenon DEF handleDeviceLine
  <2> QED
    BY <2>1, FailSound, Zenon
<1> QED
  BY <1>3, <1>4, <1>5, <1>6, <1>7, <1>8, <1>9, Zenon

\* handlePostConfig starts a peer, at most.
LEMMA PostConfigSound ==
  ASSUME NEW t, ConfigSound(t)
  PROVE  ConfigSound(handlePostConfig(t))
<1>1. handlePostConfig(t) \in {t, [t EXCEPT !.dev = [t.dev EXCEPT !.running = @ \cup {t.op.peer}]]}
  BY Zenon DEF handlePostConfig
<1>2. SameDevice(t.dev, [t.dev EXCEPT !.running = @ \cup {t.op.peer}])
  BY Zenon DEF SameDevice
<1>3. ConfigSound([t EXCEPT !.dev = [t.dev EXCEPT !.running = @ \cup {t.op.peer}]])
  BY <1>2, SoundDev, Zenon
<1> QED
  BY <1>1, <1>3, Zenon

\* handlePublicKeyLine: a peer is created, or the operation fails with too many.
LEMMA PublicKeySound ==
  ASSUME NEW t, ConfigSound(t), NEW k
  PROVE  ConfigSound(handlePublicKeyLine(t, k))
<1>1. PICK u : u = handlePostConfig(t)
  BY Zenon
<1>2. ConfigSound(u)
  BY <1>1, PostConfigSound, Zenon
<1>3. PICK dummy : dummy = (u.dev.identity = k)
  BY Zenon
<1>4. PICK created : created = (~dummy /\ k \notin u.dev.peers)
  BY Zenon
<1>5. PICK o : o = [u.op EXCEPT !.deviceConfig = FALSE, !.peer = k, !.dummy = dummy, !.created = created]
  BY Zenon
<1>6. PICK e : e = [u.dev EXCEPT !.peers = IF created THEN @ \cup {k} ELSE @]
  BY Zenon
<1>7. handlePublicKeyLine(t, k) \in {Fail(u), [[u EXCEPT !.op = o] EXCEPT !.dev = e]}
  BY <1>1, <1>3, <1>4, <1>5, <1>6, Zenon DEF handlePublicKeyLine
<1>8. {"open", "ipcDev"} \subseteq DOMAIN u.op /\ {"dev", "op"} \subseteq DOMAIN u
  BY <1>2, Zenon DEF ConfigSound, HasFields
<1>9. DOMAIN o = DOMAIN u.op /\ o.ipcDev = u.op.ipcDev
  BY <1>5, <1>8, Zenon
<1>10. PICK v : v = [u EXCEPT !.op = o]
  BY Zenon
<1>11. ConfigSound(v)
  BY <1>2, <1>8, <1>9, <1>10, SoundOp, Zenon DEF ConfigSound, HasFields
<1>12. v.dev = u.dev
  BY <1>8, <1>10, Zenon
<1>13. SameDevice(v.dev, e)
  BY <1>6, <1>12, Zenon DEF SameDevice
<1>14. ConfigSound([v EXCEPT !.dev = e])
  BY <1>11, <1>13, SoundDev, Zenon
<1>15. ConfigSound(Fail(u))
  BY <1>2, FailSound, Zenon
<1> QED
  BY <1>7, <1>10, <1>14, <1>15, Zenon

\* What an operation notes of the peer it configures does not touch what it collects.
LEMMA NoteSound ==
  ASSUME NEW t, ConfigSound(t), NEW b
  PROVE  /\ ConfigSound([t EXCEPT !.op = [t.op EXCEPT !.dummy = b]])
         /\ ConfigSound([t EXCEPT !.op = [t.op EXCEPT !.pkaOn = b]])
<1>1. {"open", "ipcDev"} \subseteq DOMAIN t.op
  BY Zenon DEF ConfigSound, HasFields
<1>2. PICK o, q : o = [t.op EXCEPT !.dummy = b] /\ q = [t.op EXCEPT !.pkaOn = b]
  BY Zenon
<1>3. /\ DOMAIN o = DOMAIN t.op /\ o.ipcDev = t.op.ipcDev
      /\ DOMAIN q = DOMAIN t.op /\ q.ipcDev = t.op.ipcDev
  BY <1>1, <1>2, Zenon
<1>4. ConfigSound([t EXCEPT !.op = o])
  BY <1>1, <1>3, SoundOp, Zenon DEF ConfigSound, HasFields
<1>5. ConfigSound([t EXCEPT !.op = q])
  BY <1>1, <1>3, SoundOp, Zenon DEF ConfigSound, HasFields
<1> QED
  BY <1>2, <1>4, <1>5, Zenon

\* The remove line: the peer goes, and what follows is for a dummy.
LEMMA RemoveLineSound ==
  ASSUME NEW t, ConfigSound(t)
  PROVE  ConfigSound(removeLine(t))
<1>1. PICK u : u = IF t.op.dummy THEN t ELSE [t EXCEPT !.dev = removePeerLocked(t.dev, t.op.peer)]
  BY Zenon
<1>2. ConfigSound(u)
  BY <1>1, RemovePeerSame, SoundDev, Zenon
<1>3. removeLine(t) = [u EXCEPT !.op = [u.op EXCEPT !.dummy = TRUE]]
  BY <1>1, Zenon DEF removeLine, Dummy
<1>4. ConfigSound([u EXCEPT !.op = [u.op EXCEPT !.dummy = TRUE]])
  BY <1>2, NoteSound, Zenon
<1> QED
  BY <1>3, <1>4, Zenon

\* The interval line, of a peer or of a dummy.
LEMMA IntervalSound ==
  ASSUME NEW t, ConfigSound(t), NEW n
  PROVE  ConfigSound(persistentKeepalive(t, n))
<1>1. PICK old : old = IF t.op.dummy THEN 0 ELSE t.dev.interval[t.op.peer]
  BY Zenon
<1>2. PICK b : b = (old = 0 /\ n # 0)
  BY Zenon
<1>3. PICK u : u = [t EXCEPT !.op = [t.op EXCEPT !.pkaOn = b]]
  BY Zenon
<1>4. ConfigSound(u)
  BY <1>3, NoteSound, Zenon
<1>5. PICK e : e = [u.dev EXCEPT !.interval = [u.dev.interval EXCEPT ![t.op.peer] = n]]
  BY Zenon
<1>6. persistentKeepalive(t, n) \in {u, [u EXCEPT !.dev = e]}
  BY <1>1, <1>2, <1>3, <1>5, Zenon DEF persistentKeepalive
<1>7. SameDevice(u.dev, e)
  BY <1>5, Zenon DEF SameDevice
<1>8. ConfigSound([u EXCEPT !.dev = e])
  BY <1>4, <1>7, SoundDev, Zenon
<1> QED
  BY <1>4, <1>6, <1>8, Zenon

\* handlePeerLine: no line of a peer's section touches headers, paddings or the key.
LEMMA PeerLineSound ==
  ASSUME NEW t, ConfigSound(t), NEW line
  PROVE  ConfigSound(handlePeerLine(t, line))
<1>1. ConfigSound(removeLine(t)) /\ ConfigSound(Fail(t))
  BY RemoveLineSound, FailSound, Zenon
<1>2. ConfigSound(updateOnly(t))
  BY <1>1, Zenon DEF updateOnly
<1>3. ConfigSound(persistentKeepalive(t, line.value))
  BY IntervalSound, Zenon
<1>4. ASSUME NEW a
      PROVE  ConfigSound([t EXCEPT !.dev = [t.dev EXCEPT !.allowed = a]])
  <2>1. SameDevice(t.dev, [t.dev EXCEPT !.allowed = a])
    BY Zenon DEF SameDevice
  <2> QED
    BY <2>1, SoundDev, Zenon
<1>5. ConfigSound(replaceAllowedIps(t))
  <2>1. PICK a : a = [i \in Ip |-> IF t.dev.allowed[i] = t.op.peer THEN NoKey ELSE t.dev.allowed[i]]
    BY Zenon
  <2>2. replaceAllowedIps(t) \in {t, [t EXCEPT !.dev = [t.dev EXCEPT !.allowed = a]]}
    BY <2>1, Zenon DEF replaceAllowedIps
  <2> QED
    BY <1>4, <2>2, Zenon
<1>6. ConfigSound(allowedIp(t, line.value, line.add))
  <2>1. PICK v : v = IF line.add THEN t.op.peer
                     ELSE IF t.dev.allowed[line.value] = t.op.peer THEN NoKey ELSE t.dev.allowed[line.value]
    BY Zenon
  <2>2. PICK a : a = [t.dev.allowed EXCEPT ![line.value] = v]
    BY Zenon
  <2>3. allowedIp(t, line.value, line.add) \in {t, [t EXCEPT !.dev = [t.dev EXCEPT !.allowed = a]]}
    BY <2>1, <2>2, Zenon DEF allowedIp
  <2> QED
    BY <1>4, <2>3, Zenon
<1>7. handlePeerLine(t, line) \in {updateOnly(t), removeLine(t), persistentKeepalive(t, line.value),
                                   replaceAllowedIps(t), allowedIp(t, line.value, line.add), Fail(t)}
  BY Zenon DEF handlePeerLine
<1> QED
  BY <1>1, <1>2, <1>3, <1>5, <1>6, <1>7, Zenon

\* HandleLine: a line leaves the configuration sound, wherever the operation is.
LEMMA HandleLineSound ==
  ASSUME NEW t, ConfigSound(t), NEW line \in Line
  PROVE  ConfigSound(HandleLine(t, line))
BY PublicKeySound, DeviceLineSound, PeerLineSound, Zenon DEF HandleLine

\* mergeWithDevice: the headers that are stored do not overlap, and the key is stored with paddings that are
\* long enough; when those are too short, the headers have been stored and the rest is as before.
LEMMA MergeSound ==
  ASSUME NEW t, ConfigSound(t)
  PROVE  ConfigSound(mergeWithDevice(t))
<1>1. PICK i : i = t.op.ipcDev
  BY Zenon
<1>2. PICK e : e = [t.dev EXCEPT !.headers = i.headers]
  BY Zenon
<1>3. PICK h : h = [t EXCEPT !.dev = e]
  BY Zenon
<1>4. PICK f : f = [e EXCEPT !.paddings = i.paddings, !.protect = i.protect]
  BY Zenon
<1>5. /\ {"dev", "op"} \subseteq DOMAIN t /\ {"headers", "paddings", "protect"} \subseteq DOMAIN t.dev
      /\ InRange(i)
  BY <1>1, Zenon DEF ConfigSound, HasFields
<1>6. /\ DOMAIN e = DOMAIN t.dev /\ e.headers = i.headers
      /\ e.paddings = t.dev.paddings /\ e.protect = t.dev.protect
  BY <1>2, <1>5, Zenon
<1>7. /\ DOMAIN f = DOMAIN t.dev /\ f.headers = i.headers /\ f.paddings = i.paddings /\ f.protect = i.protect
  BY <1>4, <1>5, <1>6, Zenon
<1>8. DOMAIN h = DOMAIN t /\ h.dev = e /\ h.op = t.op
  BY <1>3, <1>5, Zenon
<1>9. CASE \E k, l \in Kind : k # l /\ Overlap(i.headers[k], i.headers[l])
  <2>1. mergeWithDevice(t) = Fail(t)
    BY <1>1, <1>9, Zenon DEF mergeWithDevice
  <2> QED
    BY <2>1, FailSound, Zenon
<1>10. CASE ~\E k, l \in Kind : k # l /\ Overlap(i.headers[k], i.headers[l])
  <2>1. DeviceSound(e)
    BY <1>5, <1>6, <1>10, Zenon DEF ConfigSound, DeviceSound, InRange
  <2>2. ConfigSound(h)
    BY <1>5, <1>6, <1>8, <2>1, Zenon DEF ConfigSound, HasFields
  <2>3. CASE i.protect # 0 /\ \E k \in Kind : i.paddings[k] < Nonce
    <3>1. mergeWithDevice(t) = Fail(h)
      BY <1>1, <1>2, <1>3, <1>10, <2>3, Zenon DEF mergeWithDevice
    <3> QED
      BY <2>2, <3>1, FailSound, Zenon
  <2>4. CASE ~(i.protect # 0 /\ \E k \in Kind : i.paddings[k] < Nonce)
    <3>1. PICK u : u = [h EXCEPT !.dev = f]
      BY Zenon
    <3>2. mergeWithDevice(t) = u
      BY <1>1, <1>2, <1>3, <1>4, <1>8, <1>10, <2>4, <3>1, ZenonT(60) DEF mergeWithDevice
    <3>3. DOMAIN u = DOMAIN t /\ u.dev = f /\ u.op = t.op
      BY <1>5, <1>8, <3>1, Zenon
    <3>4. ASSUME i.protect # 0, NEW k \in Kind
          PROVE  i.paddings[k] >= Nonce
      <4>1. i.paddings[k] \in Nat /\ Nonce \in Nat
        BY <1>5, ConfigAssumption, Zenon DEF InRange
      <4> QED
        BY <2>4, <3>4, <4>1
    <3>5. DeviceSound(f)
      BY <1>5, <1>7, <1>10, <3>4, Zenon DEF DeviceSound, InRange
    <3>6. ConfigSound(u)
      BY <1>5, <1>7, <3>3, <3>5, Zenon DEF ConfigSound, HasFields
    <3> QED
      BY <3>2, <3>6, Zenon
  <2> QED
    BY <2>3, <2>4, Zenon
<1> QED
  BY <1>9, <1>10, Zenon

\* Finish: the merge, and the last peer if it went well.
LEMMA FinishSound ==
  ASSUME NEW t, ConfigSound(t)
  PROVE  ConfigSound(Finish(t))
<1>1. PICK u : u = mergeWithDevice(t)
  BY Zenon
<1>2. ConfigSound(u)
  BY <1>1, MergeSound, Zenon
<1>3. PICK v : v = handlePostConfig(u)
  BY Zenon
<1>4. ConfigSound(v)
  BY <1>2, <1>3, PostConfigSound, Zenon
<1>5. ConfigSound([v EXCEPT !.op = Closed])
  BY <1>4, ClosedDoes, SoundOp, Zenon
<1>6. Finish(t) \in {t, u, [v EXCEPT !.op = Closed]}
  BY <1>1, <1>3, Zenon DEF Finish
<1> QED
  BY <1>2, <1>5, <1>6, Zenon

-----------------------------------------------------------------------------
(* The specification                                                         *)

LEMMA UapiInitSound == UapiInit => UapiInv
<1> SUFFICES ASSUME UapiInit PROVE ConfigSound(s)
  BY Zenon DEF UapiInv
<1>1. {"dev", "op"} \subseteq DOMAIN s /\ s.dev = NewDevice /\ s.op = Closed
  BY Zenon DEF UapiInit
<1> QED
  BY <1>1, NewDeviceSound, ClosedDoes, Zenon DEF ConfigSound, HasFields

\* Every step keeps the invariant: a set operation at each of its lines, and Up and Down in the middle of one.
LEMMA UapiStepSound == UapiInv /\ [UapiNext]_uapiVars => UapiInv'
<1> SUFFICES ASSUME ConfigSound(s), [UapiNext]_uapiVars PROVE ConfigSound(s')
  BY Zenon DEF UapiInv, ConfigSound, HasFields, DeviceSound, InRange
<1>1. ASSUME IpcSetBegin PROVE ConfigSound(s')
  <2>1. InRange(Begin(s.dev).ipcDev)
    BY BeginDoes, Zenon DEF ConfigSound, DeviceSound, InRange
  <2>2. ConfigSound([s EXCEPT !.op = Begin(s.dev)])
    BY <2>1, BeginDoes, SoundOp, Zenon
  <2> QED
    BY <1>1, <2>2, Zenon DEF IpcSetBegin
<1>2. ASSUME NEW line \in Line, IpcSetLine(line) PROVE ConfigSound(s')
  <2>1. ConfigSound(HandleLine(s, line))
    BY <1>2, HandleLineSound, Zenon
  <2> QED
    BY <1>2, <2>1, Zenon DEF IpcSetLine
<1>3. ASSUME IpcSetEnd PROVE ConfigSound(s')
  BY <1>3, FinishSound, Zenon DEF IpcSetEnd
<1>4. ASSUME Up PROVE ConfigSound(s')
  <2>1. PICK e : e = [s.dev EXCEPT !.up = TRUE, !.running = s.dev.peers]
    BY Zenon
  <2>2. s' = [s EXCEPT !.dev = e]
    BY <1>4, <2>1, Zenon DEF Up
  <2>3. SameDevice(s.dev, e)
    BY <2>1, Zenon DEF SameDevice
  <2>4. ConfigSound([s EXCEPT !.dev = e])
    BY <2>3, SoundDev, Zenon
  <2> QED
    BY <2>2, <2>4, Zenon
<1>5. ASSUME Down PROVE ConfigSound(s')
  <2>1. PICK e : e = [s.dev EXCEPT !.up = FALSE, !.running = {}]
    BY Zenon
  <2>2. s' = [s EXCEPT !.dev = e]
    BY <1>5, <2>1, Zenon DEF Down
  <2>3. SameDevice(s.dev, e)
    BY <2>1, Zenon DEF SameDevice
  <2>4. ConfigSound([s EXCEPT !.dev = e])
    BY <2>3, SoundDev, Zenon
  <2> QED
    BY <2>2, <2>4, Zenon
<1>6. ASSUME UNCHANGED uapiVars PROVE ConfigSound(s')
  <2>1. s' = s
    BY <1>6, Zenon DEF uapiVars
  <2> QED
    BY <2>1, Zenon
<1> QED
  BY <1>1, <1>2, <1>3, <1>4, <1>5, <1>6, Zenon DEF UapiNext

\* The device and what is collected for the merge are sound in every reachable state.
LEMMA UapiInvariant == UapiSpec => []UapiInv
<1>1. UapiInit => UapiInv
  BY UapiInitSound, Zenon
<1>2. UapiInv /\ [UapiNext]_uapiVars => UapiInv'
  BY UapiStepSound, Zenon
<1> QED
  BY <1>1, <1>2, PTL DEF UapiSpec

\* Wherever operations stop or fail, and whatever Up and Down do meanwhile, the header protection key is
\* never on a device with a padding too short to be the nonce.
THEOREM NonceWhereProtected == UapiSpec => []ProtectedHasNonce
<1>1. UapiInv => ProtectedHasNonce
  BY Zenon DEF UapiInv, ConfigSound, DeviceSound, ProtectedHasNonce
<1> QED
  BY <1>1, UapiInvariant, PTL

\* A sound device takes a message of its own for what it is, or for a kind with another padding.
LEMMA SoundRecognises ==
  ASSUME NEW d, DeviceSound(d), NEW k \in Kind, NEW extra \in Nat, NEW other
  PROVE  LET found == DeterminePacketTypeAndPadding(d, Packet(d, k, extra, other)) IN
         found = k \/ (found # "unknown" /\ d.paddings[found] # d.paddings[k])
<1>1. PICK packet : packet = Packet(d, k, extra, other)
  BY Zenon
<1>2. InRange(d)
  BY Zenon DEF DeviceSound
<1>3. d.paddings[k] \in Padding /\ d.paddings[k] \in Nat /\ Size[k] \in Nat
  BY <1>2, ConfigAssumption, Zenon DEF InRange
<1>4. /\ packet.size = d.paddings[k] + Size[k] + (IF k = "transport" THEN extra ELSE 0)
      /\ packet.word[d.paddings[k]] = d.headers[k].lo
  BY <1>1, <1>3, Zenon DEF Packet
<1>5. k \in Fitting(d, packet)
  <2>1. Contains(d.headers[k], packet.word[d.paddings[k]])
    BY <1>2, <1>4, HeaderNotEmpty DEF Contains
  <2>2. IF k = "transport" THEN packet.size >= d.paddings[k] + Size[k]
                           ELSE packet.size = d.paddings[k] + Size[k]
    BY <1>3, <1>4
  <2> QED
    BY <2>1, <2>2, Zenon DEF Fitting
<1>6. PICK found : found = First(Fitting(d, packet))
  BY Zenon
<1>7. found \in Fitting(d, packet)
  <2>1. Fitting(d, packet) \in SUBSET Kind
    BY Zenon DEF Fitting
  <2> QED
    BY <1>5, <1>6, <2>1, FirstIsOne, Zenon
<1>8. found \in Kind /\ Contains(d.headers[found], packet.word[d.paddings[found]])
  BY <1>7, Zenon DEF Fitting
<1>9. found # "unknown"
  BY <1>8, ConfigAssumption, Zenon
<1>10. ASSUME found # k, d.paddings[found] = d.paddings[k]
       PROVE  FALSE
  <2>1. ~Overlap(d.headers[found], d.headers[k])
    BY <1>8, <1>10, Zenon DEF DeviceSound
  <2>2. Contains(d.headers[found], d.headers[k].lo)
    BY <1>4, <1>8, <1>10, Zenon
  <2>3. d.headers[k].lo \in Nat /\ d.headers[k].hi \in Nat /\ d.headers[k].lo <= d.headers[k].hi
    BY <1>2, HeaderNotEmpty, Zenon
  <2>4. d.headers[found].lo \in Nat /\ d.headers[found].hi \in Nat
    BY <1>2, <1>8, HeaderNotEmpty, Zenon
  <2> QED
    BY <2>1, <2>2, <2>3, <2>4 DEF Overlap, Contains
<1>11. DeterminePacketTypeAndPadding(d, packet) = found
  BY <1>5, <1>6, Zenon DEF DeterminePacketTypeAndPadding
<1> QED
  BY <1>1, <1>9, <1>10, <1>11, Zenon

\* In every configuration that is reached, failed and interrupted operations included, the type of a message
\* is determined as its sender's, unless its bytes match by chance at another kind's padding.
THEOREM MessagesRecognised == UapiSpec => []Recognised
<1>1. UapiInv => Recognised
  <2> SUFFICES ASSUME UapiInv PROVE Recognised
    BY Zenon
  <2>1. DeviceSound(s.dev)
    BY Zenon DEF UapiInv, ConfigSound
  <2>2. \A extra \in 0..2 : extra \in Nat
    OBVIOUS
  <2> QED
    BY <2>1, <2>2, SoundRecognises, Zenon DEF Recognised
<1> QED
  BY <1>1, UapiInvariant, PTL

-----------------------------------------------------------------------------
(* The replay filter                                                         *)

\* Division with remainder.
LEMMA DivMod ==
  ASSUME NEW n \in Nat \ {0}, NEW a \in Nat
  PROVE  /\ a % n \in 0..(n - 1) /\ a \div n \in Nat
         /\ a = n * (a \div n) + (a % n)
OBVIOUS

LEMMA AtLeast ==
  ASSUME NEW n \in Nat \ {0}, NEW d \in Int, NEW m \in Int, d >= m
  PROVE  n * d >= n * m
OBVIOUS

\* The remainder is the only one.
LEMMA RemainderUnique ==
  ASSUME NEW n \in Nat \ {0}, NEW a \in Nat, NEW q \in Int, NEW r \in 0..(n - 1),
         a = n * q + r
  PROVE  a % n = r
<1> DEFINE p == a \div n
           m == a % n
<1>1. p \in Nat /\ m \in 0..(n - 1) /\ a = n * p + m
  BY DivMod, Zenon
<1> HIDE DEF p, m
<1>2. n * p - n * q = n * (p - q) /\ n * q - n * p = n * (q - p)
  BY <1>1
<1>3. ~(p - q >= 1)
  BY <1>1, <1>2, AtLeast
<1>4. ~(q - p >= 1)
  BY <1>1, <1>2, AtLeast
<1>5. p = q
  BY <1>1, <1>3, <1>4
<1>6. m = r
  BY <1>1, <1>5
<1> QED
  BY <1>6, Zenon DEF m

\* Two blocks fewer than RingBlocks apart have different places in the ring.
LEMMA Apart ==
  ASSUME NEW n \in Nat \ {0}, NEW a \in Nat, NEW b \in Nat, a < b, b - a < n
  PROVE  a % n # b % n
<1> DEFINE p == a \div n
           q == b \div n
<1>1. /\ p \in Nat /\ q \in Nat
      /\ a = n * p + (a % n) /\ b = n * q + (b % n)
      /\ a % n \in 0..(n - 1) /\ b % n \in 0..(n - 1)
  BY DivMod, Zenon
<1> HIDE DEF p, q
<1> SUFFICES ASSUME a % n = b % n PROVE FALSE
  BY Zenon
<1>2. b - a = n * (q - p)
  BY <1>1
<1>3. q - p >= 1
  BY <1>1, <1>2
<1> QED
  BY <1>1, <1>2, <1>3, AtLeast

\* RingBlocks consecutive blocks take every place in the ring.
LEMMA Cover ==
  ASSUME NEW n \in Nat \ {0}, NEW a \in Nat, NEW b \in Nat, a < b
  PROVE  \E i \in (a + 1)..(a + n) : i % n = b % n
<1> DEFINE e == b - (a + 1)
           k == e \div n
           t == e % n
           i == a + 1 + t
<1>0. e \in Nat
  OBVIOUS
<1> HIDE DEF e
<1>1. k \in Nat /\ t \in 0..(n - 1) /\ e = n * k + t
  BY <1>0, DivMod, Zenon
<1>2. b % n \in 0..(n - 1) /\ b \div n \in Nat /\ b = n * (b \div n) + (b % n)
  BY DivMod, Zenon
<1> HIDE DEF k, t
<1>3. i \in Nat /\ i \in (a + 1)..(a + n)
  BY <1>1
<1> DEFINE q == (b \div n) - k
<1>4. q \in Int /\ i = n * q + (b % n)
  <2>1. i = b - n * k
    BY <1>1 DEF e
  <2> QED
    BY <1>1, <1>2, <2>1
<1> HIDE DEF i, q
<1>5. i % n = b % n
  BY <1>2, <1>3, <1>4, RemainderUnique, Zenon
<1> QED
  BY <1>3, <1>5, Zenon

-----------------------------------------------------------------------------
(* The places of counters. *)

\* A counter is its block and its bit.
LEMMA Places ==
  /\ \A c \in Counter :
       /\ c \in Nat /\ BlockOf(c) \in Nat /\ BitOf(c) \in 0..(BlockBits - 1)
       /\ RingIndex(BlockOf(c)) \in 0..(RingBlocks - 1)
       /\ c = BlockBits * BlockOf(c) + BitOf(c)
  /\ WindowSize \in Nat
<1>1. ASSUME NEW c \in Counter
      PROVE  /\ c \in Nat /\ BlockOf(c) \in Nat /\ BitOf(c) \in 0..(BlockBits - 1)
             /\ c = BlockBits * BlockOf(c) + BitOf(c)
  <2>1. c \in Nat
    BY CounterAssumption DEF Counter
  <2> QED
    BY <2>1, SizeAssumption, DivMod, Zenon DEF BlockOf, BitOf
<1>2. ASSUME NEW c \in Counter PROVE RingIndex(BlockOf(c)) \in 0..(RingBlocks - 1)
  BY <1>1, SizeAssumption, DivMod, Zenon DEF RingIndex
<1>3. WindowSize \in Nat
  BY SizeAssumption DEF WindowSize
<1> QED
  BY <1>1, <1>2, <1>3, Zenon

\* Counters are ordered as their blocks, and within a block as their bits.
LEMMA BlockOrder ==
  ASSUME NEW c \in Counter, NEW d \in Counter
  PROVE  /\ c <= d => BlockOf(c) <= BlockOf(d)
         /\ BlockOf(c) = BlockOf(d) /\ BitOf(c) = BitOf(d) => c = d
         /\ d - c <= WindowSize => BlockOf(d) - BlockOf(c) < RingBlocks
<1> DEFINE p == BlockOf(c)
           q == BlockOf(d)
<1>1. /\ p \in Nat /\ q \in Nat /\ c \in Nat /\ d \in Nat
      /\ BitOf(c) \in 0..(BlockBits - 1) /\ BitOf(d) \in 0..(BlockBits - 1)
      /\ c = BlockBits * p + BitOf(c) /\ d = BlockBits * q + BitOf(d)
  BY Places, Zenon
<1> HIDE DEF p, q
<1>2. /\ BlockBits * p - BlockBits * q = BlockBits * (p - q)
      /\ BlockBits * q - BlockBits * p = BlockBits * (q - p)
  BY <1>1, SizeAssumption
<1>3. p - q >= 1 => c > d
  BY <1>1, <1>2, SizeAssumption, AtLeast
<1>4. q - p >= RingBlocks => d - c > WindowSize
  <2> SUFFICES ASSUME q - p >= RingBlocks PROVE d - c > WindowSize
    BY Zenon
  <2>1. BlockBits * (q - p) >= BlockBits * RingBlocks
    BY <1>1, SizeAssumption, AtLeast
  <2>2. WindowSize = BlockBits * RingBlocks - BlockBits
    BY SizeAssumption DEF WindowSize
  <2> QED
    BY <1>1, <1>2, <2>1, <2>2, SizeAssumption
<1>5. c <= d => p <= q
  BY <1>1, <1>3
<1>6. d - c <= WindowSize => q - p < RingBlocks
  BY <1>1, <1>4, Places, SizeAssumption
<1>7. p = q /\ BitOf(c) = BitOf(d) => c = d
  BY <1>1, Zenon
<1> QED
  BY <1>5, <1>6, <1>7, Zenon DEF p, q

-----------------------------------------------------------------------------
(* The filter. *)

\* The initial filter.
LEMMA InitFilter == Init => FilterInv
<1> SUFFICES ASSUME Init PROVE FilterInv
  BY Zenon
<1>1. TypeOK /\ LastIsNewest
  <2>1. 0 \in Counter
    BY CounterAssumption DEF Counter
  <2> QED
    BY <2>1, Zenon DEF Init, TypeOK, LastIsNewest
<1>2. RingExact
  <2>1. \A j \in 0..(RingBlocks - 1) : ring[j] = {}
    BY Zenon DEF Init
  <2>2. \A c \in Counter : RingIndex(BlockOf(c)) \in 0..(RingBlocks - 1)
    BY Places, Zenon
  <2> QED
    BY <2>1, <2>2, Zenon DEF Init, RingExact
<1> QED
  BY <1>1, <1>2, Zenon DEF FilterInv

\* Reset leaves old bits in every block but the first, all out of use.
LEMMA ResetStep == FilterInv /\ Reset => FilterInv'
<1> SUFFICES ASSUME FilterInv, Reset PROVE FilterInv'
  BY Zenon
<1>0. 0 \in Counter /\ 0 \in 0..(RingBlocks - 1) /\ BlockOf(0) = 0
  <2>1. 0 \in Counter /\ 0 \in 0..(RingBlocks - 1)
    BY CounterAssumption, SizeAssumption DEF Counter
  <2> QED
    BY <2>1, SizeAssumption DEF BlockOf
<1>1. TypeOK' /\ LastIsNewest'
  BY <1>0, Zenon DEF FilterInv, Reset, TypeOK, LastIsNewest
<1>2. ASSUME NEW c \in Counter, BlockOf(c) <= BlockOf(0) PROVE RingIndex(BlockOf(c)) = 0
  <2>1. BlockOf(c) = 0
    BY <1>0, <1>2, Places
  <2> QED
    BY <2>1, SizeAssumption DEF RingIndex
<1>3. RingExact'
  BY <1>0, <1>2, Zenon DEF FilterInv, Reset, TypeOK, RingExact
<1> QED
  BY <1>1, <1>3, Zenon DEF FilterInv

\* Moving the window to a newer counter clears the blocks it enters and
\* keeps the blocks it does not leave.
LEMMA MoveExact ==
  ASSUME FilterInv, NEW c \in Counter, ~Rejected(c)
  PROVE  LET top == IF c > last THEN c ELSE last
         IN /\ MovedRing(c) \in [0..(RingBlocks - 1) -> SUBSET (0..(BlockBits - 1))]
            /\ \A x \in Counter :
                 BlockOf(x) <= BlockOf(top) /\ BlockOf(top) - BlockOf(x) < RingBlocks
                   => (BitOf(x) \in MovedRing(c)[RingIndex(BlockOf(x))] <=> x \in delivered)
<1>0. last \in Counter /\ ring \in [0..(RingBlocks - 1) -> SUBSET (0..(BlockBits - 1))]
  BY Zenon DEF FilterInv, TypeOK
<1>1. CASE ~(c > last)
  BY <1>0, <1>1, Zenon DEF MovedRing, FilterInv, RingExact
<1>2. CASE c > last
  <2> DEFINE from == BlockOf(last)
             to == BlockOf(c)
             diff == IF to - from > RingBlocks THEN RingBlocks ELSE to - from
             Hit(j) == \E i \in (from + 1)..(from + diff) : RingIndex(i) = j
  <2>1. /\ from \in Nat /\ to \in Nat /\ from <= to /\ diff \in Nat /\ diff <= to - from
        /\ last \in Nat /\ c \in Nat
    BY <1>0, <1>2, Places, BlockOrder, SizeAssumption, SMTT(30)
  <2>2. \A j \in 0..(RingBlocks - 1) : MovedRing(c)[j] = IF Hit(j) THEN {} ELSE ring[j]
    BY <1>2, Zenon DEF MovedRing, Cleared
  <2>3. MovedRing(c) \in [0..(RingBlocks - 1) -> SUBSET (0..(BlockBits - 1))]
    BY <1>0, <1>2, Zenon DEF MovedRing, Cleared
  <2> HIDE DEF diff
  <2>4. ASSUME NEW x \in Counter, BlockOf(x) <= to, to - BlockOf(x) < RingBlocks
        PROVE  BitOf(x) \in MovedRing(c)[RingIndex(BlockOf(x))] <=> x \in delivered
    <3> DEFINE b == BlockOf(x)
    <3>1. b \in Nat /\ x \in Nat /\ RingIndex(b) \in 0..(RingBlocks - 1)
      BY Places, Zenon
    <3>2. CASE b <= from
      <4>1. ~Hit(RingIndex(b))
        <5> SUFFICES ASSUME NEW i \in (from + 1)..(from + diff) PROVE RingIndex(i) # RingIndex(b)
          BY Zenon
        <5>1. i \in Nat /\ b < i /\ i - b < RingBlocks
          BY <2>1, <2>4, <3>1, <3>2, SizeAssumption
        <5> QED
          BY <3>1, <5>1, SizeAssumption, Apart, Zenon DEF RingIndex
      <4>2. BitOf(x) \in ring[RingIndex(b)] <=> x \in delivered
        <5>1. from - b < RingBlocks
          BY <2>1, <2>4, <3>1, SizeAssumption
        <5> QED
          BY <3>2, <5>1, Zenon DEF FilterInv, RingExact
      <4> QED
        BY <2>2, <3>1, <4>1, <4>2, Zenon
    <3>3. CASE b > from
      <4>1. Hit(RingIndex(b))
        <5>1. CASE to - from > RingBlocks
          <6>1. diff = RingBlocks
            BY <5>1, Zenon DEF diff
          <6> QED
            BY <2>1, <3>1, <3>3, <6>1, SizeAssumption, Cover, Zenon DEF RingIndex
        <5>2. CASE ~(to - from > RingBlocks)
          <6>1. diff = to - from
            BY <5>2, Zenon DEF diff
          <6>2. b \in (from + 1)..(from + diff)
            BY <2>1, <2>4, <3>1, <3>3, <6>1
          <6> QED
            BY <6>2, Zenon
        <5> QED
          BY <5>1, <5>2, Zenon
      <4>2. x \notin delivered
        <5>1. ~(x <= last)
          BY <1>0, <2>1, <3>1, <3>3, BlockOrder
        <5> QED
          BY <5>1, Zenon DEF FilterInv, LastIsNewest
      <4> QED
        BY <2>2, <3>1, <4>1, <4>2, Zenon
    <3> QED
      BY <2>1, <3>1, <3>2, <3>3
  <2> QED
    BY <1>2, <2>3, <2>4, Zenon
<1> QED
  BY <1>1, <1>2, Zenon


\* An answer keeps the invariant and is the one ReplayWindow gives.
LEMMA ValidateStep ==
  ASSUME FilterInv, NEW c \in Counter, ValidateCounter(c)
  PROVE  FilterInv' /\ Window!Validate(c)
<1> DEFINE moved == MovedRing(c)
           j == RingIndex(BlockOf(c))
           fresh == BitOf(c) \notin moved[j]
           top == IF c > last THEN c ELSE last
<1>0. /\ last \in Counter /\ last \in Nat /\ c \in Nat /\ delivered \subseteq Counter
      /\ \A d \in delivered : d \in Nat
      /\ Limit \in Nat /\ WindowSize \in Nat
  <2>1. last \in Counter /\ delivered \subseteq Counter
    BY Zenon DEF FilterInv, TypeOK
  <2> QED
    BY <2>1, Places, CounterAssumption, Zenon
<1>1. CASE Rejected(c)
  <2>1. UNCHANGED <<last, ring, delivered>> /\ asked' = c /\ verdict' = FALSE
    BY <1>1, Zenon DEF ValidateCounter
  <2>2. FilterInv'
    BY <2>1, Zenon DEF FilterInv, TypeOK, LastIsNewest, RingExact
  <2>3. ~Window!Acceptable(c)
    <3>1. CASE c >= Limit
      BY <1>0, <3>1 DEF Window!Acceptable
    <3>2. CASE c <= last /\ last - c > WindowSize
      <4>1. last \in delivered
        BY <1>0, <3>2 DEF FilterInv, LastIsNewest
      <4> QED
        BY <1>0, <3>2, <4>1 DEF Window!Acceptable
    <3> QED
      BY <1>1, <3>1, <3>2, Zenon DEF Rejected
  <2>4. verdict' = Window!Acceptable(c)
    BY <2>1, <2>3, Zenon DEF Window!Acceptable
  <2>5. delivered' = delivered
    BY <2>1, Zenon
  <2> QED
    BY <2>1, <2>2, <2>3, <2>4, <2>5, Zenon DEF Window!Validate
<1>2. CASE ~Rejected(c)
  <2>1. /\ last' = top
        /\ ring' = [moved EXCEPT ![j] = @ \cup {BitOf(c)}]
        /\ asked' = c /\ verdict' = fresh
        /\ delivered' = IF fresh THEN delivered \cup {c} ELSE delivered
    BY <1>2, Zenon DEF ValidateCounter
  <2>2. /\ moved \in [0..(RingBlocks - 1) -> SUBSET (0..(BlockBits - 1))]
        /\ \A x \in Counter :
             BlockOf(x) <= BlockOf(top) /\ BlockOf(top) - BlockOf(x) < RingBlocks
               => (BitOf(x) \in moved[RingIndex(BlockOf(x))] <=> x \in delivered)
    BY <1>2, MoveExact, Zenon
  <2>3. top \in Counter /\ top \in Nat /\ c <= top /\ last <= top
    BY <1>0
  <2>4. /\ j \in 0..(RingBlocks - 1) /\ BitOf(c) \in 0..(BlockBits - 1)
        /\ BlockOf(c) \in Nat /\ BlockOf(top) \in Nat
    BY <2>3, Places, Zenon
  <2>5. BlockOf(c) <= BlockOf(top) /\ BlockOf(top) - BlockOf(c) < RingBlocks
    <3>1. top - c <= WindowSize
      BY <1>0, <1>2 DEF Rejected
    <3> QED
      BY <2>3, <3>1, BlockOrder, Zenon
  <2>6. fresh <=> c \notin delivered
    BY <2>2, <2>5, Zenon
  <2> HIDE DEF moved, j, fresh, top
  <2>7. delivered' = delivered \cup {c}
    BY <2>1, <2>6, Zenon
  <2>8. TypeOK'
    <3>1. ring' \in [0..(RingBlocks - 1) -> SUBSET (0..(BlockBits - 1))]
      BY <2>1, <2>2, <2>4, Zenon
    <3>2. verdict' \in BOOLEAN
      BY <2>1, Zenon DEF fresh
    <3> QED
      BY <1>0, <2>1, <2>3, <2>7, <3>1, <3>2, Zenon DEF TypeOK
  <2>9. LastIsNewest'
    <3>1. \A d \in delivered : d <= top
      BY <1>0, <2>3 DEF FilterInv, LastIsNewest
    <3>2. top = c \/ (top = last /\ (last = 0 \/ last \in delivered))
      BY Zenon DEF top, FilterInv, LastIsNewest
    <3> QED
      BY <2>1, <2>3, <2>7, <3>1, <3>2, Zenon DEF LastIsNewest
  <2>10. ASSUME NEW x \in Counter,
                BlockOf(x) <= BlockOf(top), BlockOf(top) - BlockOf(x) < RingBlocks
         PROVE  BitOf(x) \in ring'[RingIndex(BlockOf(x))] <=> x \in delivered'
    <3> DEFINE b == BlockOf(x)
    <3>1. /\ b \in Nat /\ RingIndex(b) \in 0..(RingBlocks - 1)
          /\ BitOf(x) \in 0..(BlockBits - 1)
      BY Places, Zenon
    <3>2. CASE x = c
      BY <2>1, <2>2, <2>4, <2>7, <3>2, Zenon DEF j
    <3>3. CASE x # c
      <4>1. RingIndex(b) = j => b = BlockOf(c)
        <5>1. b < BlockOf(c) => RingIndex(b) # j
          <6> SUFFICES ASSUME b < BlockOf(c) PROVE RingIndex(b) # j
            BY Zenon
          <6>1. BlockOf(c) - b < RingBlocks
            BY <2>4, <2>5, <2>10, <3>1, SizeAssumption
          <6> QED
            BY <2>4, <3>1, <6>1, SizeAssumption, Apart, Zenon DEF RingIndex, j
        <5>2. BlockOf(c) < b => RingIndex(b) # j
          <6> SUFFICES ASSUME BlockOf(c) < b PROVE RingIndex(b) # j
            BY Zenon
          <6>1. b - BlockOf(c) < RingBlocks
            BY <2>4, <2>5, <2>10, <3>1, SizeAssumption
          <6> QED
            BY <2>4, <3>1, <6>1, SizeAssumption, Apart, Zenon DEF RingIndex, j
        <5> QED
          BY <2>4, <3>1, <5>1, <5>2
      <4>2. BitOf(x) \in ring'[RingIndex(b)] <=> BitOf(x) \in moved[RingIndex(b)]
        <5>1. RingIndex(b) = j => BitOf(x) # BitOf(c)
          BY <3>3, <4>1, BlockOrder, Zenon
        <5> QED
          BY <2>1, <2>2, <2>4, <3>1, <5>1, Zenon
      <4>3. BitOf(x) \in moved[RingIndex(b)] <=> x \in delivered
        BY <2>2, <2>10, Zenon
      <4> QED
        BY <2>7, <3>3, <4>2, <4>3, Zenon
    <3> QED
      BY <3>2, <3>3, Zenon
  <2>11. RingExact'
    BY <2>1, <2>10, Zenon DEF RingExact
  <2>12. Window!Validate(c)
    <3>1. \A d \in delivered : d - c <= WindowSize
      BY <1>0, <1>2 DEF Rejected, FilterInv, LastIsNewest
    <3>2. Window!Acceptable(c) <=> c \notin delivered
      BY <1>0, <1>2, <3>1 DEF Window!Acceptable, Rejected
    <3>3. verdict' = Window!Acceptable(c)
      BY <2>1, <2>6, <3>2, Zenon DEF fresh, Window!Acceptable
    <3> QED
      BY <2>1, <2>7, <3>2, <3>3, Zenon DEF Window!Validate
  <2> QED
    BY <2>8, <2>9, <2>11, <2>12, Zenon DEF FilterInv
<1> QED
  BY <1>1, <1>2, Zenon


\* The ring always records exactly the accepted counters of its blocks.
LEMMA FilterInvariant == Spec => []FilterInv
<1>1. FilterInv /\ [Next]_vars => FilterInv'
  <2> SUFFICES ASSUME FilterInv, [Next]_vars PROVE FilterInv'
    BY Zenon
  <2>1. CASE Next
    BY <2>1, ResetStep, ValidateStep, Zenon DEF Next
  <2>2. CASE UNCHANGED vars
    BY <2>2, Zenon DEF vars, FilterInv, TypeOK, LastIsNewest, RingExact
  <2> QED
    BY <2>1, <2>2, Zenon
<1> QED
  BY <1>1, InitFilter, PTL DEF Spec

\* No stale bit: what the ring says of its blocks is what was accepted.
THEOREM RingIsExact == Spec => []RingExact
BY FilterInvariant, PTL DEF FilterInv

\* ValidateCounter answers as the filter that remembers everything.
THEOREM FilterImplementsWindow == Spec => ImplementsWindow
<1>1. Init => Window!Init
  BY Zenon DEF Init, Window!Init
<1>2. FilterInv /\ [Next]_vars => [Window!Next]_<<delivered, asked, verdict>>
  <2> SUFFICES ASSUME FilterInv, [Next]_vars PROVE [Window!Next]_<<delivered, asked, verdict>>
    BY Zenon
  <2>1. CASE Reset
    BY <2>1, Zenon DEF Reset, Window!Reset, Window!Next
  <2>2. ASSUME NEW c \in Counter, ValidateCounter(c) PROVE Window!Next
    BY <2>2, ValidateStep, Zenon DEF Window!Next
  <2>3. CASE UNCHANGED vars
    BY <2>3, Zenon DEF vars
  <2> QED
    BY <2>1, <2>2, <2>3, Zenon DEF Next
<1> QED
  BY <1>1, <1>2, FilterInvariant, PTL DEF Spec, ImplementsWindow, Window!Spec
=============================================================================
