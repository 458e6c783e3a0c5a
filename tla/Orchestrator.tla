---------------------------- MODULE Orchestrator ----------------------------
(***************************************************************************)
(* Package orchestrate: a client Y keeps a tunnel to a server X, native     *)
(* (X dials the address Y punched) or cloaked (Y dials X).  Y is one        *)
(* goroutine: startY's runY, then superviseY, which calls runY again and    *)
(* tries native in the background.  X runs one handleXConn per control      *)
(* connection.  All devices Y makes take turns on one shared TUN.           *)
(*                                                                         *)
(* A control connection is named by its number.  The socket and the         *)
(* devices Y makes for it are named after it.                               *)
(***************************************************************************)
EXTENDS Integers, Sequences, FiniteSets

CONSTANTS MaxDial,     \* bound: control connections Y dials
          MaxHandlers, \* bound: handlers X runs at a time
          MaxFault     \* bound: control connections that break and times the process of Y is killed

ASSUME BoundsAssumption == MaxDial \in Nat /\ MaxHandlers \in Nat /\ MaxFault \in Nat

Conn == 1..MaxDial

\* What Y makes for a connection: the passive native device of runY, its cloaked device, and
\* the throwaway and the real device of a background attempt.
Device == [conn : Conn, kind : {"native", "cloaked", "probe", "real"}]

NoDevice == [conn |-> 0, kind |-> "none"]

NoSocket == 0

VARIABLES
  y,           \* Y's goroutine: where it is, which flow, the connection, the hint, the outer attempt
  session,     \* Y's Session: state, dev, extraCloser
  devices,     \* the devices of Y that are not closed
  sockets,     \* the sockets for native mode that are not closed
  active,      \* sharedTUN.active: the device packets of the TUN go to
  shook,       \* those of them that completed a handshake
  saved,       \* the session's file in FileStore: no file, part of a file, or the mode in it
  conn,        \* control connections: queues and which ends are open
  x,           \* X's handler of each connection
  native,      \* Y's peer entry on X's shared native device: endpoint, whether it has shaken hands
  cloaked,     \* whether Y is a peer of X's shared cloaked device
  used,        \* how often the bounds were drawn upon
  background,  \* backgroundNativeRetryInterval() is positive
  life         \* of the Orchestrator: new, starting, running, cancelled (Stop was called), stopped

yVars == <<y, session, devices, shook, sockets, active, saved>>
xVars == <<x, native, cloaked>>
envVars == <<used, background, life>>
vars == <<yVars, xVars, envVars, conn>>

-----------------------------------------------------------------------------
(* Control connections (package control): framed, authenticated, in order.  *)

Closed == [toX |-> <<>>, toY |-> <<>>, yOpen |-> FALSE, xOpen |-> FALSE, broken |-> FALSE]
Opened == [toX |-> <<>>, toY |-> <<>>, yOpen |-> TRUE, xOpen |-> TRUE, broken |-> FALSE]

\* What is left of a connection that one end closes: the other end still reads what was sent to it.
ClosedByY(k) == [toX |-> k.toX, toY |-> <<>>, yOpen |-> FALSE, xOpen |-> k.xOpen, broken |-> k.broken]
ClosedByX(k) == [toX |-> <<>>, toY |-> k.toY, yOpen |-> k.yOpen, xOpen |-> FALSE, broken |-> k.broken]

Works(c) == conn[c].yOpen /\ conn[c].xOpen /\ ~conn[c].broken

\* A write reaches the other end of a working connection.  Otherwise the kernel may still take it.
SentByY(c, m) == [conn EXCEPT ![c].toX = IF Works(c) THEN Append(@, m) ELSE @]
SentByX(c, m) == [conn EXCEPT ![c].toY = IF Works(c) THEN Append(@, m) ELSE @]

\* Recv returns the next message, or an error when the connection broke or the other end closed.
YHas(c, m) == conn[c].toY # <<>> /\ Head(conn[c].toY) = m
ReceivedByY(c) == [conn EXCEPT ![c].toY = Tail(@)]
YRecvFails(c) == conn[c].broken \/ (~conn[c].xOpen /\ conn[c].toY = <<>>)

XHas(c, m) == conn[c].toX # <<>> /\ Head(conn[c].toX) = m
ReceivedByX(c) == [conn EXCEPT ![c].toX = Tail(@)]
XRecvFails(c) == conn[c].broken \/ (~conn[c].yOpen /\ conn[c].toX = <<>>)

-----------------------------------------------------------------------------
(* Session and the shared TUN.                                              *)

setState(s, state) == [s EXCEPT !.state = state]

setDevice(s, dev, extraCloser) == [state |-> s.state, dev |-> dev, extraCloser |-> extraCloser]

\* NewDevice on a session of the shared TUN makes that session the active one.
attach(d) == devices' = devices \cup {d} /\ active' = d /\ UNCHANGED shook

\* Device.Close closes the device's TUN session, which detaches it if it is the active one.
CloseDevices(ds) ==
  /\ devices' = devices \ ds
  /\ shook' = shook \ ds
  /\ active' = IF active \in ds THEN NoDevice ELSE active

\* A device that NewDevice attached and whose configuration or start failed.
AttachAndClose == active' = NoDevice /\ UNCHANGED <<devices, shook>>

\* Mutant: the device is forgotten, not closed.
closeDevice_Forgets == UNCHANGED <<devices, shook, active, sockets>>

closeDevice ==
  /\ CloseDevices({session.dev})
  /\ sockets' = sockets \ {session.extraCloser}

InitSession == [state |-> "idle", dev |-> NoDevice, extraCloser |-> NoSocket]

InitY == [pc |-> "idle", flow |-> "run", conn |-> 0, hint |-> "none", outer |-> 0]

\* The call of runY: its first statement sets the state.
runY(hint, outer) ==
  y' = [pc |-> "dial", flow |-> "run", conn |-> 0, hint |-> hint, outer |-> outer]

Goto(pc) == y' = [y EXCEPT !.pc = pc]

Supervising == [pc |-> "supervise", flow |-> "run", conn |-> 0, hint |-> "none", outer |-> 0]

\* runY returns to superviseY, or to the background attempt that called it to restore cloaked mode.
Returned ==
  IF y.outer = 0 THEN Supervising
                 ELSE [pc |-> "end", flow |-> "bg", conn |-> y.outer, hint |-> "none", outer |-> 0]

Hangup(cs) ==
  [c \in Conn |->
     IF c \notin cs THEN conn[c] ELSE IF conn[c].xOpen THEN ClosedByY(conn[c]) ELSE Closed]

\* Mutant: an error return that leaves the state as it was.
RunFails_KeepsState(ds, socks) ==
  /\ y' = Returned
  /\ conn' = Hangup({y.conn})
  /\ CloseDevices(ds)
  /\ sockets' = sockets \ socks
  /\ UNCHANGED <<session, saved>>

\* An error return of runY: it closes what the path at hand closes, and reports it in the session.
RunFails(ds, socks) ==
  /\ y' = Returned
  /\ conn' = Hangup({y.conn})
  /\ session' = setState(session, "failed")
  /\ CloseDevices(ds)
  /\ sockets' = sockets \ socks
  /\ UNCHANGED saved

\* A background attempt ends.  It leaves the session alone; its deferred calls close the rest.
BackgroundFails(ds) ==
  /\ y' = Returned
  /\ conn' = Hangup({y.conn})
  /\ CloseDevices(ds \cup {[conn |-> y.conn, kind |-> "probe"]})
  /\ sockets' = sockets \ {y.conn}
  /\ UNCHANGED <<session, saved>>

Fails(ds, socks) == IF y.flow = "run" THEN RunFails(ds, socks) ELSE BackgroundFails({})

-----------------------------------------------------------------------------
(* Y: one connection attempt, in the foreground (flow "run") or in the       *)
(* background of a cloaked session (flow "bg").                              *)

YOnly == UNCHANGED <<xVars, envVars>>

At(pc) == y.pc = pc

\* startY: a session saved as cloaked skips the native probe.
Start ==
  /\ At("idle") /\ life = "new"
  /\ runY(IF saved = "cloaked" THEN "cloaked" ELSE "none", 0)
  /\ session' = setState(session, "probing")
  /\ life' = "starting"
  /\ UNCHANGED <<devices, shook, sockets, active, saved, xVars, used, background, conn>>

\* connectXInfo dials and sends Hello.  X accepts the connection and starts a handler.
DialX ==
  /\ At("dial")
  /\ \/ Fails({}, {}) /\ UNCHANGED <<x, used>>
     \/ LET c == used.dial + 1 IN
        /\ c \in Conn
        /\ Cardinality({h \in Conn : x[h] \notin {"none", "closed"}}) < MaxHandlers
        /\ conn' = [conn EXCEPT ![c] = Opened]
        /\ x' = [x EXCEPT ![c] = "greet"]
        /\ used' = [used EXCEPT !.dial = c]
        /\ y' = [pc |-> "info", flow |-> y.flow, conn |-> c, hint |-> y.hint, outer |-> y.outer]
        /\ UNCHANGED <<session, devices, shook, sockets, active, saved>>
  /\ UNCHANGED <<native, cloaked, background, life>>

\* connectXInfo receives Hello and XInfo.  With the hint, runY then asks for cloaked mode at once.
RecvXInfo ==
  /\ At("info")
  /\ \/ YRecvFails(y.conn) /\ Fails({}, {})
     \/ /\ YHas(y.conn, "info")
        /\ conn' = ReceivedByY(y.conn)
        /\ Goto(IF y.hint = "cloaked" THEN "decide" ELSE "socket")
        /\ UNCHANGED <<session, devices, shook, sockets, active, saved>>
  /\ YOnly

\* runY sends ModeDecision and calls runYCloaked.
SendModeDecision ==
  /\ At("decide")
  /\ \/ ~Works(y.conn) /\ RunFails({}, {})
     \/ /\ conn' = SentByY(y.conn, "cloaked")
        /\ session' = setState(session, "probing")
        /\ Goto("params")
        /\ UNCHANGED <<devices, shook, sockets, active, saved>>
  /\ YOnly

\* What a probe of one of X's two ports reports: the outside address, or nothing in time.
Mapping == {"a", "b", "lost"}

Cone(atA, atB) == atA # "lost" /\ atA = atB

\* A socket is opened and Characterize probes X's port A, then port B, from it.
Characterize ==
  /\ At("socket")
  /\ \/ Fails({}, {})                                             \* singleFamilyUDP fails
     \/ \E atA, atB \in Mapping :
          \/ /\ Cone(atA, atB)
             /\ sockets' = sockets \cup {y.conn}
             /\ session' = IF y.flow = "run" THEN setState(session, "native-attempting") ELSE session
             /\ Goto("prepare")
             /\ UNCHANGED <<devices, shook, active, saved, conn>>
          \/ /\ ~Cone(atA, atB) /\ y.flow = "run"                    \* the socket is closed
             /\ session' = setState(session, "failed")
             /\ Goto("decide")
             /\ UNCHANGED <<devices, shook, sockets, active, saved, conn>>
          \/ ~Cone(atA, atB) /\ y.flow = "bg" /\ BackgroundFails({})
  /\ YOnly

\* Punch, then PreparePassiveDevice: on the shared TUN in runY, on a TUN of no effect in the background.
PreparePassiveDevice ==
  /\ At("prepare")
  /\ \/ Fails({}, {y.conn})                                       \* Punch fails
     \/ /\ y.flow = "run"                                           \* the device cannot be prepared
        /\ AttachAndClose
        /\ session' = setState(session, "failed")
        /\ sockets' = sockets \ {y.conn}
        /\ conn' = Hangup({y.conn})
        /\ y' = Returned
        /\ UNCHANGED saved
     \/ /\ IF y.flow = "run"
           THEN attach([conn |-> y.conn, kind |-> "native"])
           ELSE devices' = devices \cup {[conn |-> y.conn, kind |-> "probe"]} /\ UNCHANGED <<shook, active>>
        /\ Goto("report")
        /\ UNCHANGED <<session, sockets, saved, conn>>
  /\ YOnly

\* The error returns of runY close its device here and below, not the socket under it.
SendReport ==
  /\ At("report")
  /\ \/ ~Works(y.conn) /\ Fails({[conn |-> y.conn, kind |-> "native"]}, {})
     \/ /\ conn' = SentByY(y.conn, "report")
        /\ Goto("native")
        /\ UNCHANGED <<session, devices, shook, sockets, active, saved>>
  /\ YOnly

\* runY's native session is up: the session takes the device and the socket under it.
NativeUp(kind, old) ==
  /\ CloseDevices(old)
  /\ session' = setState(setDevice(session, [conn |-> y.conn, kind |-> kind], y.conn), "connected-native")
  /\ Goto("write")

\* The wait for X's verdict on the reported endpoint.  A connection has one report outstanding at
\* most, so the session identifiers in the messages always match here and are left out.
RecvVerdict ==
  /\ At("native")
  /\ \/ /\ YRecvFails(y.conn)
        /\ Fails({[conn |-> y.conn, kind |-> "native"]}, {})
     \/ /\ YHas(y.conn, "ready") /\ y.flow = "run"
        /\ NativeUp("native", {})
        /\ conn' = ReceivedByY(y.conn)
        /\ UNCHANGED <<sockets, saved>>
     \/ /\ YHas(y.conn, "failed") /\ y.flow = "run"
        /\ CloseDevices({[conn |-> y.conn, kind |-> "native"]})
        /\ sockets' = sockets \ {y.conn}
        /\ session' = setState(session, "probing")
        /\ conn' = ReceivedByY(y.conn)
        /\ Goto("params")
        /\ UNCHANGED saved
     \/ /\ YHas(y.conn, "ready") /\ y.flow = "bg"
        /\ CloseDevices({[conn |-> y.conn, kind |-> "probe"]})
        /\ conn' = ReceivedByY(y.conn)
        /\ Goto("handoff")
        /\ UNCHANGED <<session, sockets, saved>>
     \/ YHas(y.conn, "failed") /\ y.flow = "bg" /\ BackgroundFails({})
  /\ YOnly

\* The background attempt builds the real device on the proven socket and on the shared TUN.
Handoff ==
  /\ At("handoff")
  /\ \/ /\ AttachAndClose
        /\ sockets' = sockets \ {y.conn}
        /\ conn' = Hangup({y.conn})
        /\ y' = Returned
        /\ UNCHANGED <<session, saved>>
     \/ /\ attach([conn |-> y.conn, kind |-> "real"])
        /\ Goto("report-real")
        /\ UNCHANGED <<session, sockets, saved, conn>>
  /\ YOnly

SendReportAgain ==
  /\ At("report-real")
  /\ \/ ~Works(y.conn) /\ BackgroundFails({[conn |-> y.conn, kind |-> "real"]})
     \/ /\ conn' = SentByY(y.conn, "report")
        /\ Goto("native-real")
        /\ UNCHANGED <<session, devices, shook, sockets, active, saved>>
  /\ YOnly

\* waitForNativeReady.  A failed handoff restores cloaked mode by a nested runY on a connection of
\* its own; the deferred calls of the attempt run after it.
waitForNativeReady ==
  /\ At("native-real")
  /\ \/ /\ YHas(y.conn, "ready")
        /\ NativeUp("real", {session.dev})
        /\ sockets' = sockets \ {session.extraCloser}
        /\ conn' = ReceivedByY(y.conn)
     \/ /\ \/ YHas(y.conn, "failed") /\ conn' = ReceivedByY(y.conn)
           \/ YRecvFails(y.conn) /\ UNCHANGED conn
        /\ CloseDevices({[conn |-> y.conn, kind |-> "real"]})
        /\ runY("cloaked", y.conn)
        /\ session' = setState(session, "probing")
        /\ UNCHANGED sockets
  /\ UNCHANGED saved
  /\ YOnly

\* The deferred calls of a background attempt whose handoff failed.
EndBackground ==
  /\ At("end")
  /\ y' = Supervising
  /\ sockets' = sockets \ {y.conn}
  /\ conn' = Hangup({y.conn})
  /\ UNCHANGED <<session, devices, shook, active, saved>>
  /\ YOnly

\* runYCloaked: CloakedParams arrive, a device is made on the shared TUN, configured and brought up.
RecvCloakedParams ==
  /\ At("params")
  /\ \/ YRecvFails(y.conn) /\ RunFails({}, {})
     \/ /\ YHas(y.conn, "params")                                   \* IpcSet or Up fails
        /\ AttachAndClose
        /\ session' = setState(session, "failed")
        /\ conn' = Hangup({y.conn})
        /\ y' = Returned
        /\ UNCHANGED <<sockets, saved>>
     \/ /\ YHas(y.conn, "params")
        /\ attach([conn |-> y.conn, kind |-> "cloaked"])
        /\ conn' = ReceivedByY(y.conn)
        /\ Goto("cloaked")
        /\ UNCHANGED <<session, sockets, saved>>
  /\ YOnly

\* runYCloaked polls its own device for a handshake until the deadline.
PollCloaked ==
  /\ At("cloaked")
  /\ LET dev == [conn |-> y.conn, kind |-> "cloaked"] IN
     \/ /\ dev \in shook
        /\ session' = setState(setDevice(session, dev, NoSocket), "connected-cloaked")
        /\ Goto("write")
        /\ UNCHANGED <<devices, shook, sockets, active, saved, conn>>
     \/ RunFails({dev}, {})
  /\ YOnly

-----------------------------------------------------------------------------
(* saveSession with FileStore: a temporary file, then a rename.             *)

\* The mode saveSession is called with: that of the state set just before.
LastMode == IF session.state = "connected-native" THEN "native" ELSE "cloaked"

\* The connected return of runY, or of the background attempt, whose defers then only close cc.
Return ==
  /\ y' = Returned
  /\ conn' = Hangup({y.conn})

\* Mutant: the file itself is written.
WriteTemporary_InPlace ==
  /\ At("write")
  /\ Goto("fill")
  /\ saved' = "partial"
  /\ UNCHANGED <<session, devices, shook, sockets, active, conn>>
  /\ YOnly

\* os.WriteFile creates the temporary file, then fills it; only the rename touches the file that
\* is loaded.  A failed save is logged, no more.
WriteTemporary ==
  /\ At("write")
  /\ (Goto("fill") /\ UNCHANGED conn) \/ Return
  /\ UNCHANGED <<session, devices, shook, sockets, active, saved>>
  /\ YOnly

FillTemporary ==
  /\ At("fill")
  /\ (Goto("rename") /\ UNCHANGED conn) \/ Return
  /\ UNCHANGED <<session, devices, shook, sockets, active, saved>>
  /\ YOnly

Rename ==
  /\ At("rename")
  /\ saved' \in {saved, LastMode}
  /\ Return
  /\ UNCHANGED <<session, devices, shook, sockets, active>>
  /\ YOnly

-----------------------------------------------------------------------------
(* Y: superviseY, Stop and a killed process.                                *)

\* Start returns once every session has had its first attempt, failed or not, and is supervised.
StartReturns ==
  /\ At("supervise") /\ life = "starting"
  /\ life' = "running"
  /\ UNCHANGED <<yVars, xVars, used, background, conn>>

Supervised == At("supervise") /\ life \in {"running", "cancelled"}

Connected(s) == s.state \in {"connected-native", "connected-cloaked"}

\* A network change re-probes; a session gone stale is retried in its mode.  Both tear it down first.
Reconnect ==
  /\ Supervised
  /\ closeDevice
  /\ session' = setState(setDevice(session, NoDevice, NoSocket), "probing")
  /\ \/ runY("none", 0)
     \/ Connected(session) /\ runY(IF session.state = "connected-cloaked" THEN "cloaked" ELSE "none", 0)
  /\ UNCHANGED <<saved, conn>>
  /\ YOnly

\* The tick of a session that failed.
Retry ==
  /\ Supervised
  /\ session.state \in {"failed", "idle"}
  /\ session' = setState(session, "probing")
  /\ runY("none", 0)
  /\ UNCHANGED <<devices, shook, sockets, active, saved, conn>>
  /\ YOnly

\* The tick of a cloaked session that is not stale, the retry interval having passed.
attemptBackgroundNative ==
  /\ Supervised
  /\ background /\ session.state = "connected-cloaked"
  /\ y' = [pc |-> "dial", flow |-> "bg", conn |-> 0, hint |-> "none", outer |-> 0]
  /\ UNCHANGED <<session, devices, shook, sockets, active, saved, conn>>
  /\ YOnly

ContextDone ==
  /\ Supervised /\ life = "cancelled"
  /\ Goto("done")
  /\ UNCHANGED <<session, devices, shook, sockets, active, saved, conn>>
  /\ YOnly

\* Stop cancels the context, waits for superviseY, closes the sessions and shuts the TUN.
StopCancels ==
  /\ life = "running"
  /\ life' = "cancelled"
  /\ UNCHANGED <<yVars, xVars, used, background, conn>>

StopCloses ==
  /\ At("done") /\ life = "cancelled"
  /\ closeDevice
  /\ session' = setDevice(session, NoDevice, NoSocket)
  /\ life' = "stopped"
  /\ UNCHANGED <<y, saved, xVars, used, background, conn>>

\* The process is killed: only the files stay.
Crash ==
  /\ used.fault < MaxFault /\ life # "new"
  /\ used' = [used EXCEPT !.fault = @ + 1]
  /\ y' = InitY /\ life' = "new"
  /\ session' = InitSession
  /\ devices' = {} /\ shook' = {} /\ sockets' = {} /\ active' = NoDevice
  /\ conn' = Hangup(Conn)
  /\ UNCHANGED <<saved, xVars, background>>

-----------------------------------------------------------------------------
(* X: handleXConn, AttemptOnX and fallbackToCloaked.                        *)

XOnly == UNCHANGED <<yVars, envVars>>

XGoto(c, pc) == x' = [x EXCEPT ![c] = pc]

\* The handler returns and closes the connection.
XReturn(c) ==
  /\ XGoto(c, "closed")
  /\ conn' = [conn EXCEPT ![c] = IF @.yOpen THEN ClosedByX(@) ELSE Closed]

\* Hello and XInfo.
Greet(c) ==
  /\ x[c] = "greet"
  /\ \/ ~Works(c) /\ XReturn(c)
     \/ conn' = SentByX(c, "info") /\ XGoto(c, "recv")
  /\ UNCHANGED <<native, cloaked>> /\ XOnly

\* The handler's loop; "silent" after cloaked mode could not be set up.
XRecv(c) ==
  /\ x[c] \in {"recv", "silent"}
  /\ \/ XRecvFails(c) /\ XReturn(c)
     \/ /\ XHas(c, "report")
        /\ conn' = ReceivedByX(c)
        /\ XGoto(c, "remove")
     \/ /\ XHas(c, "cloaked")
        /\ conn' = ReceivedByX(c)
        /\ XGoto(c, "fallback")
  /\ UNCHANGED <<native, cloaked>> /\ XOnly

NoPeer == [endpoint |-> NoSocket, shaken |-> FALSE]

\* Mutant: the peer of an earlier attempt is kept.
RemoveStalePeer_Keeps(c) ==
  /\ x[c] = "remove"
  /\ XGoto(c, "add")
  /\ UNCHANGED <<native, cloaked, conn>> /\ XOnly

\* AttemptOnX first removes the peer an earlier attempt may have left.
RemoveStalePeer(c) ==
  /\ x[c] = "remove"
  /\ \/ native' = NoPeer /\ XGoto(c, "add")
     \/ UNCHANGED native /\ XGoto(c, "failed")
  /\ UNCHANGED <<cloaked, conn>> /\ XOnly

\* AddPeer of a peer another handler has added sets its endpoint and keeps its handshake.
AddNativePeer(c) ==
  /\ x[c] = "add"
  /\ \/ native' = [native EXCEPT !.endpoint = c] /\ XGoto(c, "poll")
     \/ UNCHANGED native /\ XGoto(c, "failed")
  /\ UNCHANGED <<cloaked, conn>> /\ XOnly

\* The poll for a handshake no older than the attempt: it removed any older one.
PollNative(c) ==
  /\ x[c] = "poll"
  /\ \/ /\ native.shaken
        /\ conn' = SentByX(c, "ready")
        /\ XGoto(c, "recv")
     \/ XGoto(c, "expire") /\ UNCHANGED conn
  /\ UNCHANGED <<native, cloaked>> /\ XOnly

\* Mutant: the handler goes on without answering the report.
RemoveExpiredPeer_NoAnswer(c) ==
  /\ x[c] = "expire"
  /\ native' \in {native, NoPeer}
  /\ XGoto(c, "recv")
  /\ UNCHANGED <<cloaked, conn>> /\ XOnly

RemoveExpiredPeer(c) ==
  /\ x[c] = "expire"
  /\ native' \in {native, NoPeer}
  /\ XGoto(c, "failed")
  /\ UNCHANGED <<cloaked, conn>> /\ XOnly

SendNativeFailed(c) ==
  /\ x[c] = "failed"
  /\ \/ ~Works(c) /\ XReturn(c)
     \/ conn' = SentByX(c, "failed") /\ XGoto(c, "fallback")
  /\ UNCHANGED <<native, cloaked>> /\ XOnly

\* fallbackToCloaked: AddPeer, then the address of X.  When one fails, nothing is sent.
FallbackAddPeer(c) ==
  /\ x[c] = "fallback"
  /\ \/ /\ cloaked' \in {cloaked, TRUE}
        /\ XGoto(c, "silent")
     \/ /\ cloaked' = TRUE
        /\ XGoto(c, "params")
  /\ UNCHANGED <<native, conn>> /\ XOnly

\* CloakedParams.  X then polls its cloaked device for a handshake, which only its own Session shows.
SendCloakedParams(c) ==
  /\ x[c] = "params"
  /\ \/ ~Works(c) /\ UNCHANGED conn
     \/ conn' = SentByX(c, "params")
  /\ XGoto(c, "recv")
  /\ UNCHANGED <<native, cloaked>> /\ XOnly

-----------------------------------------------------------------------------
(* The network: connections break, tunnels handshake.                       *)

Break(c) ==
  /\ used.fault < MaxFault /\ Works(c)
  /\ conn' = [conn EXCEPT ![c].broken = TRUE]
  /\ used' = [used EXCEPT !.fault = @ + 1]
  /\ UNCHANGED <<yVars, xVars, background, life>>

\* X dials its peer's endpoint, where the open device on that socket answers.
NativeHandshake(d) ==
  /\ d.kind # "cloaked" /\ d.conn \in sockets /\ native.endpoint = d.conn
  /\ native' = [native EXCEPT !.shaken = TRUE]
  /\ shook' = shook \cup {d}
  /\ UNCHANGED <<y, session, devices, sockets, active, saved, envVars, conn, x, cloaked>>

\* A cloaked device of Y dials X, which answers a configured peer.
CloakedHandshake(d) ==
  /\ d.kind = "cloaked" /\ cloaked
  /\ shook' = shook \cup {d}
  /\ UNCHANGED <<y, session, devices, sockets, active, saved, envVars, conn, xVars>>

-----------------------------------------------------------------------------
Init ==
  /\ y = InitY /\ session = InitSession
  /\ devices = {} /\ sockets = {} /\ active = NoDevice /\ shook = {}
  /\ saved = "none"
  /\ conn = [c \in Conn |-> Closed] /\ x = [c \in Conn |-> "none"]
  /\ native = NoPeer /\ cloaked = FALSE
  /\ used = [dial |-> 0, fault |-> 0]
  /\ background \in BOOLEAN /\ life = "new"

Attempt ==
  \/ DialX \/ RecvXInfo \/ SendModeDecision \/ Characterize
  \/ PreparePassiveDevice \/ SendReport \/ RecvVerdict \/ Handoff \/ SendReportAgain
  \/ waitForNativeReady \/ EndBackground \/ RecvCloakedParams \/ PollCloaked
  \/ WriteTemporary \/ FillTemporary \/ Rename

Handler(c) ==
  \/ Greet(c) \/ XRecv(c) \/ RemoveStalePeer(c) \/ AddNativePeer(c) \/ PollNative(c)
  \/ RemoveExpiredPeer(c) \/ SendNativeFailed(c) \/ FallbackAddPeer(c)
  \/ SendCloakedParams(c)

Next ==
  \/ Start \/ Attempt \/ StartReturns \/ Reconnect \/ Retry \/ attemptBackgroundNative
  \/ ContextDone \/ StopCancels \/ StopCloses \/ Crash
  \/ \E c \in Conn : Handler(c) \/ Break(c)
  \/ \E d \in devices : NativeHandshake(d) \/ CloakedHandshake(d)

\* Goroutines that can run do run.  The select of superviseY picks among its ready cases at random,
\* so a cancelled context that stays ready is picked in the end.
Fairness ==
  /\ WF_vars(Attempt) /\ WF_vars(StartReturns) /\ SF_vars(ContextDone) /\ WF_vars(StopCloses)
  /\ \A c \in Conn : WF_vars(Handler(c))

Spec == Init /\ [][Next]_vars /\ Fairness

-----------------------------------------------------------------------------
\* Stop closes the session's device and leaves its state as it was.
Up == Connected(session) /\ life # "stopped"

\* Whenever an attempt is over, the session is in a state superviseY acts upon: connected over an
\* open device of that mode, or failed and due for a retry.  No return path leaves it half-way.
SettledWhenSupervised ==
  At("supervise") =>
    \/ session.state = "failed"
    \/ session.state = "connected-native" /\ session.dev \in devices /\ session.extraCloser \in sockets
    \/ session.state = "connected-cloaked" /\ session.dev \in devices

\* A native session has the shared TUN.  Without background attempts every session has, and devices
\* follow one another: at most one is open, and the TUN delivers to it.
OneDeviceOnTun ==
  /\ Up /\ (session.state = "connected-native" \/ ~background) => session.dev = active
  /\ ~background => devices \subseteq {active}

\* A kill in the middle of a save never leaves the session file partly written.
SavedIsWhole == saved \in {"none", "native", "cloaked"}

modeForState(state) ==
  CASE state = "connected-native" -> "native"
    [] state = "connected-cloaked" -> "cloaked"
    [] OTHER -> "none"

Promise == INSTANCE Tunnel WITH
  NativeDevices <- {d \in Device : d.kind # "cloaked"},
  CloakedDevices <- {d \in Device : d.kind = "cloaked"},
  mode <- IF Up THEN modeForState(session.state) ELSE "none",
  carrier <- IF Up THEN session.dev ELSE NoDevice,
  proven <- shook

\* The session the host sees is a Tunnel: connected always means over a device of that mode which
\* itself completed a handshake with X (not the throwaway device of a background attempt, not one
\* of an earlier attempt), and only an upgrade changes the mode without a disconnect.
ImplementsTunnel == Promise!Spec

\* X could not set up cloaked mode on Y's connection, told nobody and waits for the next message.
XGaveUp == y.conn \in Conn /\ x[y.conn] = "silent"

\* Y and the handler of its connection never both wait in Recv with nothing on the way, except after
\* X gave up.  No Recv has a deadline, and Stop waits for superviseY, so either would wait for ever.
NoMutualWait ==
  /\ y.pc \in {"info", "native", "native-real", "params"}
  /\ Works(y.conn) /\ conn[y.conn].toY = <<>> /\ conn[y.conn].toX = <<>>
  /\ x[y.conn] \in {"recv", "silent"}
  => XGaveUp

\* What the comment on superviseY's retry says of runY: it returns, within the two time-outs.
RunYReturns == At("dial") ~> (At("supervise") \/ At("idle"))
=============================================================================
