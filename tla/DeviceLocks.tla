---------------------------- MODULE DeviceLocks ----------------------------
(***************************************************************************)
(* The locks of a device with one peer, and the life of the device, the     *)
(* peer and their goroutines (device.go, peer.go, uapi.go, timers.go).      *)
(*                                                                          *)
(* An operation is the sequence of its lock operations, of its waits and of *)
(* its changes to the state below: every goroutine has such a sequence to   *)
(* do.  A write lock waits for the readers and keeps new readers out while  *)
(* it waits, as sync.RWMutex does.  Locks under which no other lock is      *)
(* taken and nothing is waited for (keypairs, endpoint, index table,        *)
(* allowed IPs, header protection, cookies) cannot take part in a deadlock  *)
(* and are left out.                                                        *)
(***************************************************************************)
EXTENDS Naturals, Sequences, FiniteSets

CONSTANTS
  Workload,     \* which goroutines may have packets or timers to handle at once
  ApiRequest,   \* what callers of the device's methods request
  IpcRequest,   \* what the configuration protocol requests
  InboundSize,  \* the capacity of peer.queue.inbound
  MaxRequest    \* bound on the requests of each

ASSUME SizeAssumption == InboundSize \in Nat \ {0} /\ MaxRequest \in Nat

Lock == {"state", "ipcMutex", "staticIdentity", "peers", "net",    \* of the device
         "peerState", "handshake", "runningLock"}                  \* of the peer
Routine == {"sender", "receiver"}      \* RoutineSequentialSender and -Receiver
Goroutine == Routine \cup {"incoming", "handshakeWorker", "timer", "api", "ipc"}
Nobody == "nobody"

VARIABLES
  todo,      \* what is left to do of each goroutine's current operation
  writer,    \* who holds or waits for the write lock
  readers,   \* who holds the read lock
  device,    \* device.state.state
  peer,      \* is the peer in the map, isRunning, and may its timers fire
  alive,     \* the routines that peer.stopping counts
  signalled, \* the nil for the sequential sender was sent
  inbound,   \* peer.queue.inbound
  bind,      \* the sockets, and RoutineReceiveIncoming, which net.stopping counts
  made,      \* number of requests made
  working    \* the goroutines that have packets or timers to handle

locks == <<writer, readers>>
work == <<made, working>>
vars == <<todo, locks, device, peer, alive, signalled, inbound, bind, work>>

Step(op, lock) == [op |-> op, lock |-> lock]
L(lock) == Step("Lock", lock)
R(lock) == Step("RLock", lock)
U(lock) == Step("Unlock", lock)
Touch(lock) == Step("LockUnlock", lock)     \* nothing can block in between
Pass(lock) == Step("RLockRUnlock", lock)
Do(op) == Step(op, "none")

-----------------------------------------------------------------------------
(* The operations. *)

SendBuffers == <<Pass("net")>>

CreateMessageInitiation == <<R("staticIdentity"), Touch("handshake"), U("staticIdentity")>>

\* Returns early when an initiation was sent lately.
SendHandshakeInitiation ==
  {<<Pass("handshake")>>, <<Pass("handshake"), Touch("handshake")>>,
   <<Pass("handshake"), Touch("handshake")>> \o CreateMessageInitiation \o SendBuffers}

\* SendStagedPackets, SendKeepalive and keepKeyFresh... may initiate.
SendStagedPackets == {<<>>} \cup SendHandshakeInitiation

ConsumeMessageInitiation ==
  <<R("staticIdentity"), Pass("peers"), Pass("handshake"), Touch("handshake"),
    U("staticIdentity")>>

DroppedInitiation == <<R("staticIdentity"), Pass("peers"), U("staticIdentity")>>

\* Its own lock, CreateMessageResponse and BeginSymmetricSession.
SendHandshakeResponse == <<Touch("handshake"), Touch("handshake"), Touch("handshake")>> \o SendBuffers

ConsumeMessageResponse ==
  <<R("handshake"), Pass("staticIdentity"), U("handshake"), Touch("handshake")>>

RoutineHandshake ==
  {ConsumeMessageInitiation \o SendHandshakeResponse}
    \cup {ConsumeMessageResponse \o <<Touch("handshake")>> \o s : s \in SendStagedPackets}

\* The callback holds the lock that DelSync takes.
NewTimer ==
  {<<L("runningLock")>> \o s \o <<U("runningLock")>> :
     s \in SendStagedPackets \cup {<<Touch("handshake")>>}}

DelSync == <<L("runningLock"), Do("del"), U("runningLock")>>
ZeroAndFlushAll == <<Touch("handshake")>>
Stop == <<L("peerState"), Do("stop"), U("peerState")>>
Stopping == DelSync \o <<Do("signalReceiver"), Do("signalSender"), Do("waitRoutines")>>
              \o ZeroAndFlushAll
Start == <<L("peerState"), Do("start"), U("peerState")>>
Starting == <<Touch("handshake"), Do("launch")>>

closeBindLocked == <<Do("closeBind"), Do("waitIncoming")>>
BindClose == <<L("net")>> \o closeBindLocked \o <<U("net")>>
BindUpdate == <<L("net")>> \o closeBindLocked \o <<Do("open"), U("net")>>
Opening == <<Pass("peers"), Do("listen")>>
BindSetMark == <<L("net"), Pass("peers"), U("net")>>

removePeerLocked == Stop \o <<Do("forget")>>
RemovePeer == <<L("peers"), Do("remove"), U("peers")>>
NewPeer == <<R("staticIdentity"), L("peers"), Do("add"), U("peers"), U("staticIdentity")>>

\* A peer that has the new key itself is removed, any other one expired.
SetPrivateKey == <<L("staticIdentity"), Do("setPrivateKey"), U("staticIdentity")>>
SettingPrivateKey ==
  {<<L("peers"), Pass("handshake")>> \o removePeerLocked \o <<Pass("handshake"), U("peers")>>,
   <<L("peers"), Pass("handshake"), Touch("handshake"), U("peers")>>}

upLocked ==
  BindUpdate \o <<L("ipcMutex"), R("peers"), Do("startAll"), U("peers"), U("ipcMutex")>>
downLocked_HoldsNet ==
  <<L("net")>> \o closeBindLocked \o <<R("peers"), Do("stopAll"), U("peers"), U("net")>>
downLocked == BindClose \o <<R("peers"), Do("stopAll"), U("peers")>>

Up_StoresLast == upLocked \o <<Do("setUp")>>
Up == <<Do("setUp")>> \o upLocked
Down_StoresLast == downLocked \o <<Do("setDown")>>
Down == <<Do("setDown")>> \o downLocked
Closing == downLocked \o RemovePeer

\* Adds or updates the peer; remove; listen_port; fwmark; private_key.
IpcSet ==
  [peer        |-> <<Pass("staticIdentity"), Pass("peers"), Do("create"), Do("handlePostConfig")>>,
   remove      |-> RemovePeer,
   listen_port |-> <<Touch("net")>> \o BindUpdate,
   fwmark      |-> BindSetMark,
   private_key |-> SetPrivateKey]

IpcGet == <<R("ipcMutex"), R("net"), R("staticIdentity"), R("peers"), Pass("handshake"),
            U("peers"), U("staticIdentity"), U("net"), U("ipcMutex")>>

IpcOperation(request) ==
  IF request = "get" THEN IpcGet ELSE <<L("ipcMutex")>> \o IpcSet[request] \o <<U("ipcMutex")>>

ApiOperation ==
  [Up    |-> <<L("state"), Do("Up"), U("state")>>,
   Down  |-> <<L("state"), Do("Down"), U("state")>>,
   Close |-> <<L("state"), L("ipcMutex"), Do("Close"), U("ipcMutex"), U("state")>>]

-----------------------------------------------------------------------------
\* A new device, or one that is up with its peer running.
Init ==
  /\ todo = [g \in Goroutine |-> <<>>]
  /\ writer = [l \in Lock |-> Nobody] /\ readers = [l \in Lock |-> {}]
  /\ \/ /\ device = "down" /\ bind = [open |-> FALSE, incoming |-> FALSE]
        /\ peer = [known |-> FALSE, running |-> FALSE, armed |-> FALSE] /\ alive = {}
     \/ /\ device = "up" /\ bind = [open |-> TRUE, incoming |-> TRUE]
        /\ peer = [known |-> TRUE, running |-> TRUE, armed |-> TRUE] /\ alive = Routine
  /\ signalled = FALSE /\ inbound = <<>>
  /\ made = [g \in {"api", "ipc"} |-> 0] /\ working \in Workload

Done(g) == todo' = [todo EXCEPT ![g] = Tail(@)]
\* The step is replaced by these.
Replace(g, steps) == todo' = [todo EXCEPT ![g] = steps \o Tail(@)]
Begin(g, steps) == todo[g] = <<>> /\ todo' = [todo EXCEPT ![g] = steps]

At(g, op) == todo[g] # <<>> /\ Head(todo[g]).op = op

life == <<device, peer, alive, signalled, inbound, bind>>

\* Lock, and a lock that is released at once.
AcquireLock(g) ==
  LET l == Head(todo[g]).lock
      passes == At(g, "LockUnlock")
  IN /\ At(g, "Lock") \/ At(g, "LockUnlock")
     /\ writer[l] \in {Nobody, g}
     /\ IF readers[l] = {}
        THEN Done(g) /\ writer' = [writer EXCEPT ![l] = IF passes THEN Nobody ELSE g]
        ELSE writer[l] = Nobody /\ writer' = [writer EXCEPT ![l] = g] /\ UNCHANGED todo
     /\ UNCHANGED <<readers, life, work>>

AcquireRLock(g) ==
  LET l == Head(todo[g]).lock
  IN /\ At(g, "RLock") \/ At(g, "RLockRUnlock")
     /\ writer[l] = Nobody
     /\ readers' = IF At(g, "RLock") THEN [readers EXCEPT ![l] = @ \cup {g}] ELSE readers
     /\ Done(g)
     /\ UNCHANGED <<writer, life, work>>

Release(g) ==
  LET l == Head(todo[g]).lock
  IN /\ At(g, "Unlock")
     /\ IF writer[l] = g
        THEN writer' = [writer EXCEPT ![l] = Nobody] /\ UNCHANGED readers
        ELSE readers' = [readers EXCEPT ![l] = @ \ {g}] /\ UNCHANGED writer
     /\ Done(g)
     /\ UNCHANGED <<life, work>>

\* changeState and Close, under the lock of the device's state.
ChangeState(g) ==
  /\ \/ /\ At(g, "Up")
        /\ IF device = "down" THEN Replace(g, Up) ELSE Done(g)
        /\ UNCHANGED device
     \/ /\ At(g, "Down")
        /\ IF device = "up" THEN Replace(g, Down) ELSE Done(g)
        /\ UNCHANGED device
     \/ /\ At(g, "Close")
        /\ IF device # "closed" THEN Replace(g, Closing) /\ device' = "closed"
                               ELSE Done(g) /\ UNCHANGED device
     \/ At(g, "setUp") /\ device' = "up" /\ Done(g)
     \/ At(g, "setDown") /\ device' = "down" /\ Done(g)
  /\ UNCHANGED <<locks, peer, alive, signalled, inbound, bind, work>>

\* BindUpdate failed, with the sockets closed, or open when it was the mark that
\* could not be set: Up takes the device down again, listen_port returns.
OpenFails(g) ==
  /\ todo' = [todo EXCEPT ![g] =
       IF g = "api" THEN <<U("net")>> \o Down \o <<U("state")>> ELSE Tail(@)]
  /\ \E opened \in BOOLEAN : bind' = [bind EXCEPT !.open = opened]

\* BindUpdate and BindClose, under the net lock.
ChangeBind(g) ==
  /\ \/ At(g, "closeBind") /\ bind' = [bind EXCEPT !.open = FALSE] /\ Done(g)
     \/ At(g, "waitIncoming") /\ ~bind.incoming /\ Done(g) /\ UNCHANGED bind
     \/ /\ At(g, "open")
        /\ Replace(g, IF device = "up" THEN Opening ELSE <<>>) /\ UNCHANGED bind
     \/ At(g, "open") /\ device = "up" /\ OpenFails(g)
     \/ At(g, "listen") /\ bind' = [open |-> TRUE, incoming |-> TRUE] /\ Done(g)
  /\ UNCHANGED <<locks, device, peer, alive, signalled, inbound, work>>

\* The peers of the map: for every one of them, there is one at most.
ForPeers(g) ==
  /\ \/ /\ At(g, "startAll")
        /\ \E s \in SendStagedPackets : Replace(g, IF peer.known THEN Start \o s ELSE <<>>)
     \/ At(g, "stopAll") /\ Replace(g, IF peer.known THEN Stop ELSE <<>>)
     \/ At(g, "remove") /\ Replace(g, IF peer.known THEN removePeerLocked ELSE <<>>)
     \/ At(g, "create") /\ Replace(g, IF peer.known \/ device = "closed" THEN <<>> ELSE NewPeer)
     \/ /\ At(g, "setPrivateKey")
        /\ IF peer.known THEN \E s \in SettingPrivateKey : Replace(g, s)
                         ELSE Replace(g, <<Touch("peers")>>)
     \/ At(g, "setPrivateKey") /\ Done(g)     \* it is the key of the device already
     \/ /\ At(g, "handlePostConfig")
        /\ \E s \in SendStagedPackets :
             Replace(g, IF device = "up" THEN Start \o s ELSE <<>>)
  /\ UNCHANGED <<locks, life, work>>

ChangeMap(g) ==
  /\ \/ At(g, "add") /\ peer' = [peer EXCEPT !.known = TRUE]
     \/ At(g, "forget") /\ peer' = [peer EXCEPT !.known = FALSE]
  /\ Done(g)
  /\ UNCHANGED <<locks, device, alive, signalled, inbound, bind, work>>

\* Start and Stop, under the lock of the peer's state.
StartPeer(g) ==
  /\ \/ /\ At(g, "start")
        /\ Replace(g, IF peer.running \/ device = "closed" THEN <<>> ELSE Starting)
        /\ UNCHANGED <<peer, alive, signalled, inbound>>
     \/ /\ At(g, "launch")
        /\ peer' = [peer EXCEPT !.running = TRUE, !.armed = TRUE]
        /\ alive' = Routine /\ signalled' = FALSE /\ inbound' = <<>>
        /\ Done(g)
  /\ UNCHANGED <<locks, device, bind, work>>

StopPeer(g) ==
  /\ \/ /\ At(g, "stop")
        /\ Replace(g, IF peer.running THEN Stopping ELSE <<>>)
        /\ peer' = [peer EXCEPT !.running = FALSE]
        /\ UNCHANGED signalled
     \/ /\ At(g, "del") /\ Done(g)
        /\ peer' = [peer EXCEPT !.armed = FALSE]
        /\ UNCHANGED signalled
     \/ At(g, "signalSender") /\ Done(g) /\ signalled' = TRUE /\ UNCHANGED peer
     \/ At(g, "waitRoutines") /\ Done(g) /\ alive = {} /\ UNCHANGED <<peer, signalled>>
  /\ UNCHANGED <<locks, device, alive, inbound, bind, work>>

SignalReceiver(g) ==
  /\ At(g, "signalReceiver") /\ Done(g)
  /\ Len(inbound) < InboundSize /\ inbound' = Append(inbound, "nil")
  /\ UNCHANGED <<locks, device, peer, alive, signalled, bind, work>>

-----------------------------------------------------------------------------
(* The goroutines. *)

Request ==
  /\ \/ /\ made["api"] < MaxRequest
        /\ \E r \in ApiRequest : Begin("api", ApiOperation[r])
        /\ made' = [made EXCEPT !["api"] = @ + 1]
     \/ /\ made["ipc"] < MaxRequest
        /\ \E r \in IpcRequest : Begin("ipc", IpcOperation(r))
        /\ made' = [made EXCEPT !["ipc"] = @ + 1]
  /\ UNCHANGED <<locks, life, working>>

\* RoutineSequentialSender sends a container, and may refresh the keys.
SequentialSender ==
  /\ "sender" \in alive
  /\ \/ /\ "sender" \in working
        /\ \E s \in SendStagedPackets : Begin("sender", SendBuffers \o s)
        /\ UNCHANGED alive
     \/ signalled /\ Begin("sender", <<>>) /\ alive' = alive \ {"sender"}
  /\ UNCHANGED <<locks, device, peer, signalled, inbound, bind, work>>

SequentialReceiver ==
  /\ "receiver" \in alive /\ inbound # <<>>
  /\ inbound' = Tail(inbound)
  /\ IF Head(inbound) = "nil"
     THEN Begin("receiver", <<>>) /\ alive' = alive \ {"receiver"}
     ELSE (\E s \in SendStagedPackets : Begin("receiver", s)) /\ UNCHANGED alive
  /\ UNCHANGED <<locks, device, peer, signalled, bind, work>>

\* RoutineReceiveIncoming receives for a running peer until the socket closes.
ReceiveIncoming ==
  /\ bind.incoming
  /\ \/ /\ bind.open /\ "incoming" \in working /\ peer.running
        /\ Begin("incoming", <<Do("push")>>)
        /\ UNCHANGED <<inbound, bind>>
     \/ /\ At("incoming", "push") /\ Len(inbound) < InboundSize
        /\ inbound' = Append(inbound, "data") /\ Done("incoming")
        /\ UNCHANGED bind
     \/ /\ ~bind.open /\ Begin("incoming", <<>>)
        /\ bind' = [bind EXCEPT !.incoming = FALSE]
        /\ UNCHANGED inbound
  /\ UNCHANGED <<locks, device, peer, alive, signalled, work>>

\* An initiation of a peer that does not run is dropped.
HandshakeWorker ==
  /\ "handshakeWorker" \in working
  /\ \E s \in IF peer.running THEN RoutineHandshake ELSE {DroppedInitiation} :
       Begin("handshakeWorker", s)
  /\ UNCHANGED <<locks, life, work>>

TimerExpires ==
  /\ "timer" \in working /\ peer.armed
  /\ \E s \in NewTimer : Begin("timer", s)
  /\ UNCHANGED <<locks, life, work>>

GoroutineNext(g) ==
  \/ AcquireLock(g) \/ AcquireRLock(g) \/ Release(g)
  \/ ChangeState(g) \/ ChangeBind(g) \/ ForPeers(g) \/ ChangeMap(g)
  \/ StartPeer(g) \/ StopPeer(g) \/ SignalReceiver(g)

Next ==
  \/ Request \/ SequentialSender \/ SequentialReceiver \/ ReceiveIncoming
  \/ HandshakeWorker \/ TimerExpires
  \/ \E g \in Goroutine : GoroutineNext(g)

Spec == Init /\ [][Next]_vars

-----------------------------------------------------------------------------
(* Properties. *)

Free(l) == writer[l] = Nobody /\ readers[l] = {}

\* Whom a goroutine waits for: all of them have to go on before it can.
WaitsFor(g) ==
  LET l == Head(todo[g]).lock
  IN CASE At(g, "Lock") \/ At(g, "LockUnlock") ->
            IF writer[l] = g THEN readers[l] ELSE {writer[l]} \ {Nobody}
       [] At(g, "RLock") \/ At(g, "RLockRUnlock") -> {writer[l]} \ {Nobody}
       [] At(g, "waitRoutines") -> alive
       [] At(g, "waitIncoming") -> IF bind.incoming THEN {"incoming"} ELSE {}
       [] At(g, "push") \/ At(g, "signalReceiver") ->
            IF Len(inbound) = InboundSize THEN alive \cap {"receiver"} ELSE {}
       [] OTHER -> {}

\* No goroutines wait for one another in a circle, of locks, of Stop and the
\* routines it waits for, and of queues: none of them could ever go on.
NoWaitCycle ==
  LET waiting == {g \in Goroutine : WaitsFor(g) # {}}
  IN \A S \in SUBSET waiting : S # {} => \E g \in S : WaitsFor(g) \cap S = {}

\* A device that is down or closed has no open sockets, although listen_port
\* rebinds without the lock of the device's state.
DownIsSilent == device # "up" /\ Free("state") /\ Free("net") => ~bind.open

\* The peers of a device that is up run, although the peer may be added while
\* Up goes on, and Up by another goroutine than the one that configures.
UpRunsPeers ==
  device = "up" /\ Free("state") /\ Free("ipcMutex") => (peer.known => peer.running)

=============================================================================
