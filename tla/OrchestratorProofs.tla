------------------------- MODULE OrchestratorProofs -------------------------
(***************************************************************************)
(* Y's session, whatever breaks, fails or is killed, for any number of       *)
(* connections, handlers and faults: the safety of the orchestrator, and     *)
(* that it implements Tunnel.                                               *)
(***************************************************************************)
EXTENDS Orchestrator, TLAPS

-----------------------------------------------------------------------------
(* Types                                                                    *)

YPc == {"idle", "dial", "info", "socket", "prepare", "report", "native", "decide", "params", "cloaked", "handoff",
        "report-real", "native-real", "end", "write", "fill", "rename", "supervise", "done"}

XPc == {"none", "greet", "recv", "silent", "remove", "add", "poll", "expire", "failed", "fallback", "params", "closed"}

Message == {"info", "report", "cloaked", "ready", "failed", "params"}

State == {"idle", "probing", "native-attempting", "failed", "connected-native", "connected-cloaked"}

YType ==
  /\ y \in [pc : YPc, flow : {"run", "bg"}, conn : 0..MaxDial, hint : {"none", "cloaked"}, outer : 0..MaxDial]
  /\ session \in [state : State, dev : Device \cup {NoDevice}, extraCloser : 0..MaxDial]
  /\ devices \subseteq Device /\ shook \subseteq devices /\ sockets \subseteq Conn
  /\ active \in Device \cup {NoDevice}
  /\ background \in BOOLEAN /\ life \in {"new", "starting", "running", "cancelled", "stopped"}

Connection == [toX : Seq(Message), toY : Seq(Message), yOpen : BOOLEAN, xOpen : BOOLEAN, broken : BOOLEAN]

NetType ==
  /\ conn \in [Conn -> Connection]
  /\ x \in [Conn -> XPc]
  /\ native \in [endpoint : 0..MaxDial, shaken : BOOLEAN]
  /\ used \in [dial : 0..MaxDial, fault : Nat]

-----------------------------------------------------------------------------
(* What Y holds at each point of an attempt                                 *)

OnConn(kind) == [conn |-> y.conn, kind |-> kind]

Resting == {"idle", "supervise", "done"}
Saving == {"write", "fill", "rename"}
BeforeDevice == {"dial", "info", "socket", "prepare", "decide", "params"}

\* Where each flow can be, and on which connection.
FlowOk ==
  /\ y.pc \in Resting => y.flow = "run" /\ y.outer = 0 /\ y.conn = 0
  /\ y.pc \notin Resting \cup {"dial"} => y.conn \in Conn
  /\ y.flow = "bg" => y.outer = 0 /\ background /\ y.hint = "none" /\ y.pc \notin {"decide", "params", "cloaked"}
  /\ y.flow = "run" => y.pc \notin {"handoff", "report-real", "native-real", "end"}
  /\ y.outer # 0 => y.hint = "cloaked" /\ background
  /\ y.hint = "cloaked" => y.pc \notin {"socket", "prepare", "report", "native"}
  /\ y.pc = "idle" <=> life = "new"
  /\ life = "stopped" => y.pc = "done"
  /\ y.pc = "done" => life \in {"cancelled", "stopped"}

\* The state of the session at each point of an attempt.
StateOk ==
  /\ y.pc = "idle" => session.state = "idle"
  /\ y.pc \in BeforeDevice \cup {"report", "native", "cloaked"} /\ y.flow = "run" =>
       session.state \in {"probing", "native-attempting", "failed"}
  /\ y.flow = "bg" /\ y.pc \notin Saving \cup {"end"} => session.state = "connected-cloaked"
  /\ y.pc \in Saving => /\ session.state \in {"connected-native", "connected-cloaked"}
                        /\ y.flow = "bg" => session.state = "connected-native"
                        /\ y.outer # 0 => session.state = "connected-cloaked"
  /\ y.pc = "end" => session.state \in {"failed", "connected-cloaked"}
  /\ y.pc \in {"supervise", "done"} => session.state \in {"failed", "connected-native", "connected-cloaked"}

\* A session that is up has a device of its mode that completed a handshake.
CarrierOk ==
  Up =>
    /\ session.dev \in shook
    /\ session.state = "connected-cloaked" => session.dev.kind = "cloaked" /\ session.extraCloser = NoSocket
    /\ session.state = "connected-native" => /\ session.dev.kind # "cloaked" /\ session.extraCloser \in sockets
                                             /\ session.dev = active
    /\ ~background => session.dev = active

\* The socket and the device of an attempt are there, and the TUN delivers to the device, except
\* to the throwaway one.
AttemptOk ==
  /\ y.pc \in {"prepare", "report", "native", "handoff", "report-real", "native-real"} => y.conn \in sockets
  /\ y.pc \in {"report", "native"} /\ y.flow = "run" => OnConn("native") \in devices /\ active = OnConn("native")
  /\ y.pc \in {"report", "native"} /\ y.flow = "bg" => OnConn("probe") \in devices
  /\ y.pc \in {"report-real", "native-real"} => OnConn("real") \in devices /\ active = OnConn("real")
  /\ y.pc = "cloaked" => OnConn("cloaked") \in devices /\ active = OnConn("cloaked")

\* The devices of native mode that are open are that of the attempt and that of the session.
NativeOnly ==
  \A d \in devices : d.kind # "cloaked" =>
    \/ d = OnConn("native") /\ y.pc \in {"report", "native"} /\ y.flow = "run"
    \/ d = OnConn("probe") /\ y.pc \in {"report", "native"} /\ y.flow = "bg"
    \/ d = OnConn("real") /\ y.pc \in {"report-real", "native-real"}
    \/ d = session.dev /\ Up /\ session.state = "connected-native"

\* Without background attempts, devices follow one another.
OneAtATime ==
  ~background =>
    /\ devices \subseteq {active}
    /\ y.pc \in BeforeDevice => devices = {}
    /\ y.pc \in Resting /\ session.state \in {"idle", "failed"} => devices = {}

YInv == YType /\ FlowOk /\ StateOk /\ CarrierOk /\ AttemptOk /\ NativeOnly /\ OneAtATime

-----------------------------------------------------------------------------
(* What is on Y's connection at each point                                  *)

\* The device X is to reach on Y's connection.
Awaited == IF y.pc = "native-real" THEN OnConn("real") ELSE IF y.flow = "run" THEN OnConn("native") ELSE OnConn("probe")

\* h is where X's handler is, k the connection.
AtInfo(k, h) ==
  /\ h \in {"greet", "recv", "closed"} /\ k.toX = <<>> /\ k.toY \in {<<>>, <<"info">>}
  /\ h = "greet" => k.toY = <<>>
  /\ k.xOpen /\ ~k.broken /\ h = "recv" => k.toY = <<"info">>

AtQuiet(k, h) == h \in {"recv", "closed"} /\ k.toX = <<>> /\ k.toY = <<>>

AtNative(k, h) ==
  /\ h \in {"recv", "remove", "add", "poll", "expire", "failed", "fallback", "silent", "params", "closed"}
  /\ k.toX \in {<<>>, <<"report">>} /\ k.toY \in {<<>>, <<"ready">>, <<"failed">>, <<"failed", "params">>}
  /\ h # "recv" => k.toX = <<>>
  /\ k.toX # <<>> => k.toY = <<>>
  /\ h \in {"remove", "add", "poll", "expire", "failed"} => k.toY = <<>>
  /\ h \in {"fallback", "silent", "params"} => k.toY \in {<<>>, <<"failed">>}
  /\ k.xOpen /\ ~k.broken =>
       /\ h \in {"fallback", "silent", "params"} => k.toY = <<"failed">>
       /\ h = "recv" /\ k.toX = <<>> => k.toY \in {<<"ready">>, <<"failed", "params">>}
  /\ k.toY = <<"ready">> => h \in {"recv", "closed"} /\ Awaited \in shook
  /\ h \in {"add", "poll"} /\ native.shaken => Awaited \in shook

AtParams(k, h) ==
  /\ h \in {"recv", "fallback", "silent", "params", "closed"}
  /\ k.toX \in {<<>>, <<"cloaked">>} /\ k.toY \in {<<>>, <<"params">>}
  /\ h # "recv" => k.toX = <<>>
  /\ k.toX # <<>> => k.toY = <<>>
  /\ h \in {"fallback", "silent", "params"} => k.toY = <<>>
  /\ k.xOpen /\ ~k.broken /\ h = "recv" /\ k.toX = <<>> => k.toY = <<"params">>

Talking == {"info", "socket", "prepare", "report", "native", "decide", "params", "handoff", "report-real", "native-real"}

TalkOk(k, h) ==
  /\ k.yOpen /\ (h = "closed" => ~k.xOpen)
  /\ y.pc = "info" => AtInfo(k, h)
  /\ y.pc \in Talking \ {"info", "native", "native-real", "params"} => AtQuiet(k, h)
  /\ y.pc \in {"native", "native-real"} => AtNative(k, h)
  /\ y.pc = "params" => AtParams(k, h)

Talk == y.pc \in Talking => TalkOk(conn[y.conn], x[y.conn])

OrchInv == YInv /\ NetType /\ SavedIsWhole /\ Talk

-----------------------------------------------------------------------------
(* Y's side: how attempts end                                               *)

\* An error return of runY, from any point of an attempt, leaves Y in order: what the path at hand
\* closes (ds) is every native device the attempt has open.
LEMMA RunFailsKeeps ==
  ASSUME YInv, NEW STATE ds, NEW STATE socks, y.flow = "run", RunFails(ds, socks), UNCHANGED <<background, life>>,
         \/ y.pc \in BeforeDevice /\ ds = {}
         \/ y.pc \in {"report", "native"} /\ ds = {OnConn("native")}
         \/ y.pc = "cloaked" /\ ds = {OnConn("cloaked")}
  PROVE  YInv'
<1>1. /\ YType /\ FlowOk /\ StateOk /\ CarrierOk /\ AttemptOk /\ NativeOnly /\ OneAtATime
  BY Zenon DEF YInv
<1>2. /\ session' = [session EXCEPT !.state = "failed"]
      /\ devices' = devices \ ds /\ shook' = shook \ ds /\ sockets' = sockets \ socks
      /\ active' = IF active \in ds THEN NoDevice ELSE active
      /\ y' = IF y.outer = 0 THEN Supervising
                             ELSE [pc |-> "end", flow |-> "bg", conn |-> y.outer, hint |-> "none", outer |-> 0]
  BY Zenon DEF RunFails, Returned, CloseDevices, setState
<1>3. y.outer # 0 => background
  BY <1>1, Zenon DEF FlowOk
<1>4. /\ life' = life /\ background' = background /\ life \notin {"new", "stopped"}
  BY <1>1, Zenon DEF FlowOk, BeforeDevice
<1>5. YType'
  BY <1>1, <1>2, <1>4, BoundsAssumption DEF YType, Supervising, YPc, State
<1>6. FlowOk'
  BY <1>1, <1>2, <1>3, <1>4 DEF YType, FlowOk, Supervising, Conn, Resting
<1>7. session'.state = "failed" /\ ~Up'
  BY <1>1, <1>2, Zenon DEF YType, Up, Connected
<1>8. StateOk'
  BY <1>1, <1>2, <1>7, Zenon DEF YType, StateOk, Supervising, BeforeDevice, Saving
<1>9. CarrierOk' /\ AttemptOk'
  BY <1>1, <1>2, <1>7, Zenon DEF CarrierOk, AttemptOk, Supervising
<1>10. NativeOnly'
  BY <1>1, <1>2, <1>7, Zenon DEF NativeOnly, StateOk, Up, Connected, BeforeDevice, OnConn
<1>11. OneAtATime'
  BY <1>1, <1>2, <1>4 DEF OneAtATime, AttemptOk, OnConn, BeforeDevice, Supervising, Resting
<1> QED
  BY <1>5, <1>6, <1>8, <1>9, <1>10, <1>11, Zenon DEF YInv

\* A background attempt that ends leaves Y in order: its deferred calls close every native device
\* it has open.
LEMMA BackgroundFailsKeeps ==
  ASSUME YInv, NEW STATE ds, y.flow = "bg", BackgroundFails(ds), UNCHANGED <<background, life>>,
         \/ y.pc \in BeforeDevice \cup {"report", "native"} /\ ds = {}
         \/ y.pc = "report-real" /\ ds = {OnConn("real")}
  PROVE  YInv'
<1>1. YType /\ FlowOk /\ StateOk /\ CarrierOk /\ AttemptOk /\ NativeOnly /\ OneAtATime
  BY Zenon DEF YInv
<1>2. y' = Supervising
  BY <1>1, Zenon DEF BackgroundFails, Returned, FlowOk
<1>3. /\ UNCHANGED <<session, background, life>> /\ background
      /\ session.state = "connected-cloaked" /\ life \notin {"new", "stopped"}
      /\ (Up' <=> Up) /\ Up
  BY <1>1, Zenon DEF FlowOk, StateOk, BeforeDevice, Saving, Up, Connected, BackgroundFails
<1>4. /\ devices' = devices \ (ds \cup {OnConn("probe")})
      /\ shook' = shook \ (ds \cup {OnConn("probe")})
      /\ active' = IF active \in ds \cup {OnConn("probe")} THEN NoDevice ELSE active
      /\ sockets' = sockets \ {y.conn}
  BY Zenon DEF BackgroundFails, CloseDevices, OnConn
<1>5. YType'
  BY <1>1, <1>2, <1>3, <1>4, BoundsAssumption DEF YType, Supervising, YPc
<1>6. FlowOk' /\ StateOk'
  BY <1>1, <1>2, <1>3, Zenon DEF FlowOk, StateOk, Supervising, Resting, BeforeDevice, Saving
<1>7. CarrierOk'
  BY <1>1, <1>3, <1>4 DEF CarrierOk, OnConn
<1>8. AttemptOk' /\ OneAtATime'
  BY <1>2, <1>3 DEF AttemptOk, OneAtATime, Supervising
<1>9. NativeOnly'
  BY <1>1, <1>3, <1>4, Zenon DEF NativeOnly, BeforeDevice
<1> QED
  BY <1>5, <1>6, <1>7, <1>8, <1>9, Zenon DEF YInv

\* The same for the steps the two flows share.
LEMMA FailsKeeps ==
  ASSUME YInv, NEW STATE ds, NEW STATE socks, Fails(ds, socks), UNCHANGED <<background, life>>,
         \/ y.pc \in BeforeDevice /\ ds = {}
         \/ y.pc \in {"report", "native"} /\ ds = {OnConn("native")}
  PROVE  YInv'
<1>1. CASE y.flow = "run"
  <2>1. RunFails(ds, socks)
    BY <1>1, Zenon DEF Fails
  <2> QED
    BY <1>1, <2>1, RunFailsKeeps, Zenon
<1>2. CASE y.flow = "bg"
  <2>1. BackgroundFails({})
    BY <1>2, Zenon DEF Fails
  <2> QED
    BY <1>2, <2>1, BackgroundFailsKeeps, Zenon
<1> QED
  BY <1>1, <1>2, Zenon DEF YInv, YType

\* The steps of an attempt that only move on.
Moves == {<<"dial", "info">>, <<"info", "socket">>, <<"info", "decide">>, <<"report", "native">>,
          <<"report-real", "native-real">>, <<"write", "fill">>, <<"fill", "rename">>}

LEMMA MoveKeeps ==
  ASSUME YInv, UNCHANGED <<session, devices, shook, sockets, active, background, life>>,
         NEW pc, NEW c \in 0..MaxDial, <<y.pc, pc>> \in Moves,
         y' = [pc |-> pc, flow |-> y.flow, conn |-> c, hint |-> y.hint, outer |-> y.outer],
         y.pc = "dial" => c \in Conn, y.pc # "dial" => c = y.conn,
         pc = "socket" => y.hint = "none", pc = "decide" => y.hint = "cloaked"
  PROVE  YInv'
<1>1. YType /\ FlowOk /\ StateOk /\ CarrierOk /\ AttemptOk /\ NativeOnly /\ OneAtATime
  BY Zenon DEF YInv
<1>2. /\ y'.pc = pc /\ y'.flow = y.flow /\ y'.conn = c /\ y'.hint = y.hint /\ y'.outer = y.outer
      /\ pc \in YPc
  BY Zenon DEF Moves, YPc
<1>3. YType'
  BY <1>1, <1>2, Zenon DEF YType
<1>4. FlowOk'
  BY <1>1, <1>2, Zenon DEF FlowOk, Moves, Resting
<1>5. StateOk'
  BY <1>1, <1>2, Zenon DEF FlowOk, StateOk, Moves, BeforeDevice, Saving
<1>6. CarrierOk' /\ OneAtATime'
  BY <1>1, <1>2, Zenon DEF CarrierOk, OneAtATime, Up, Moves, BeforeDevice, Resting
<1>7. AttemptOk'
  BY <1>1, <1>2, Zenon DEF AttemptOk, OnConn, Moves
<1>8. NativeOnly'
  BY <1>1, <1>2 DEF NativeOnly, OnConn, Moves, Up
<1> QED
  BY <1>3, <1>4, <1>5, <1>6, <1>7, <1>8, Zenon DEF YInv

\* The return of a connected runY, or of a background attempt that moved the session.
LEMMA ReturnKeeps ==
  ASSUME YInv, y.pc \in Saving, Return, UNCHANGED <<session, devices, shook, sockets, active, background, life>>
  PROVE  YInv'
<1>1. YType /\ FlowOk /\ StateOk /\ CarrierOk /\ AttemptOk /\ NativeOnly /\ OneAtATime
  BY Zenon DEF YInv
<1>2. y' = IF y.outer = 0 THEN Supervising
                          ELSE [pc |-> "end", flow |-> "bg", conn |-> y.outer, hint |-> "none", outer |-> 0]
  BY Zenon DEF Return, Returned
<1>3. YType'
  BY <1>1, <1>2, BoundsAssumption DEF YType, Supervising, YPc
<1>4. FlowOk' /\ StateOk'
  BY <1>1, <1>2 DEF YType, FlowOk, StateOk, Supervising, Resting, BeforeDevice, Saving, Conn
<1>5. CarrierOk' /\ AttemptOk'
  BY <1>1, <1>2, Zenon DEF CarrierOk, AttemptOk, Supervising, Up
<1>6. NativeOnly'
  BY <1>1, <1>2, Zenon DEF NativeOnly, OnConn, Saving, Up
<1>7. OneAtATime'
  BY <1>1, <1>2, Zenon DEF OneAtATime, Supervising, StateOk, Saving, Resting, BeforeDevice
<1> QED
  BY <1>3, <1>4, <1>5, <1>6, <1>7, Zenon DEF YInv

-----------------------------------------------------------------------------
(* Y's side: the steps of an attempt                                        *)

\* connectXInfo: both returns of the dial, and of the wait for XInfo.
LEMMA ConnectKeeps == ASSUME YInv, NetType, DialX \/ RecvXInfo  PROVE YInv'
<1>1. CASE DialX
  <2>1. UNCHANGED <<background, life>> /\ y.pc = "dial"
    BY <1>1, Zenon DEF DialX, At
  <2>2. CASE Fails({}, {})
    BY <2>1, <2>2, FailsKeeps, Zenon DEF BeforeDevice
  <2>3. CASE ~Fails({}, {})
    <3>1. /\ used.dial + 1 \in Conn
          /\ y' = [pc |-> "info", flow |-> y.flow, conn |-> used.dial + 1, hint |-> y.hint, outer |-> y.outer]
          /\ UNCHANGED <<session, devices, shook, sockets, active>>
      BY <1>1, <2>3, Zenon DEF DialX
    <3> QED
      BY <2>1, <3>1, MoveKeeps DEF Moves, Conn
  <2> QED
    BY <2>2, <2>3, Zenon
<1>2. CASE RecvXInfo
  <2>1. UNCHANGED <<background, life>> /\ y.pc = "info"
    BY <1>2, Zenon DEF RecvXInfo, At, YOnly, envVars
  <2>2. CASE Fails({}, {})
    BY <2>1, <2>2, FailsKeeps, Zenon DEF BeforeDevice
  <2>3. CASE ~Fails({}, {})
    <3> DEFINE pc == IF y.hint = "cloaked" THEN "decide" ELSE "socket"
    <3>1. y' = [y EXCEPT !.pc = pc] /\ UNCHANGED <<session, devices, shook, sockets, active>>
      BY <1>2, <2>3, Zenon DEF RecvXInfo, Goto
    <3>2. /\ y' = [pc |-> pc, flow |-> y.flow, conn |-> y.conn, hint |-> y.hint, outer |-> y.outer]
          /\ y.conn \in 0..MaxDial /\ y.hint \in {"none", "cloaked"}
      BY <3>1, Zenon DEF YInv, YType
    <3>3. <<y.pc, pc>> \in Moves /\ (pc = "socket" => y.hint = "none") /\ (pc = "decide" => y.hint = "cloaked")
      BY <2>1, <3>2, Zenon DEF Moves
    <3> HIDE DEF pc
    <3> QED
      BY <2>1, <3>1, <3>2, <3>3, MoveKeeps, Zenon
  <2> QED
    BY <2>2, <2>3, Zenon
<1> QED
  BY <1>1, <1>2, Zenon

\* runY asks for cloaked mode, having lost the socket or been told to.
LEMMA SendModeDecisionKeeps == ASSUME YInv, SendModeDecision  PROVE YInv'
<1>1. YType /\ FlowOk /\ StateOk /\ CarrierOk /\ AttemptOk /\ NativeOnly /\ OneAtATime
  BY Zenon DEF YInv
<1>2. UNCHANGED <<background, life>> /\ y.pc = "decide" /\ y.flow = "run"
  BY <1>1, Zenon DEF SendModeDecision, At, YOnly, envVars, FlowOk, YType
<1>3. CASE RunFails({}, {})
  BY <1>2, <1>3, RunFailsKeeps, Zenon DEF BeforeDevice
<1>4. CASE ~RunFails({}, {})
  <2>1. /\ y' = [y EXCEPT !.pc = "params"] /\ session' = [session EXCEPT !.state = "probing"]
        /\ UNCHANGED <<devices, shook, sockets, active>>
    BY <1>4, Zenon DEF SendModeDecision, Goto, setState
  <2>2. YType' /\ session'.state = "probing" /\ ~Up'
    BY <1>1, <1>2, <2>1, Zenon DEF YType, YPc, State, Up, Connected
  <2>3. FlowOk' /\ StateOk'
    BY <1>1, <1>2, <2>1, <2>2, Zenon DEF YType, FlowOk, StateOk, Resting, BeforeDevice, Saving
  <2>4. CarrierOk' /\ AttemptOk'
    BY <1>1, <1>2, <2>1, <2>2, Zenon DEF YType, CarrierOk, AttemptOk
  <2>5. NativeOnly' /\ OneAtATime'
    BY <1>1, <1>2, <2>1, <2>2, Zenon DEF YType, NativeOnly, OneAtATime, StateOk, Up, Connected, BeforeDevice, Resting
  <2> QED
    BY <2>2, <2>3, <2>4, <2>5, Zenon DEF YInv
<1> QED
  BY <1>3, <1>4, Zenon

\* Characterize: a cone NAT goes on with the socket, any other mapping without it.
LEMMA CharacterizeKeeps == ASSUME YInv, Characterize  PROVE YInv'
<1>1. YType /\ FlowOk /\ StateOk /\ CarrierOk /\ AttemptOk /\ NativeOnly /\ OneAtATime
  BY Zenon DEF YInv
<1>2. UNCHANGED <<background, life>> /\ y.pc = "socket"
  BY Zenon DEF Characterize, At, YOnly, envVars
<1>3. CASE Fails({}, {})
  BY <1>2, <1>3, FailsKeeps, Zenon DEF BeforeDevice
<1>4. CASE y.flow = "bg" /\ BackgroundFails({})
  BY <1>2, <1>4, BackgroundFailsKeeps, Zenon DEF BeforeDevice
<1>5. CASE /\ sockets' = sockets \cup {y.conn}
           /\ session' = IF y.flow = "run" THEN setState(session, "native-attempting") ELSE session
           /\ Goto("prepare")
           /\ UNCHANGED <<devices, shook, active>>
  <2>1. /\ y' = [y EXCEPT !.pc = "prepare"] /\ y.conn \in Conn
        /\ session' = IF y.flow = "run" THEN [session EXCEPT !.state = "native-attempting"] ELSE session
    BY <1>1, <1>2, <1>5, Zenon DEF Goto, setState, FlowOk, Resting
  <2>2. YType'
    BY <1>1, <1>2, <1>5, <2>1, Zenon DEF YType, YPc, State
  <2>3. FlowOk' /\ StateOk'
    BY <1>1, <1>2, <2>1, Zenon DEF YType, FlowOk, StateOk, Resting, BeforeDevice, Saving
  <2>4. Up' <=> Up
    BY <1>1, <1>2, <2>1, Zenon DEF YType, StateOk, BeforeDevice, Up, Connected
  <2>5. CarrierOk' /\ AttemptOk'
    BY <1>1, <1>2, <1>5, <2>1, <2>4, Zenon DEF YType, StateOk, CarrierOk, AttemptOk, Up, Connected
  <2>6. NativeOnly' /\ OneAtATime'
    BY <1>1, <1>2, <1>5, <2>1, <2>4, Zenon DEF YType, NativeOnly, OneAtATime, StateOk, Up, Connected, BeforeDevice, Resting
  <2> QED
    BY <2>2, <2>3, <2>5, <2>6, Zenon DEF YInv
<1>6. CASE /\ y.flow = "run"
           /\ session' = setState(session, "failed")
           /\ Goto("decide")
           /\ UNCHANGED <<devices, shook, sockets, active>>
  <2>1. y' = [y EXCEPT !.pc = "decide"] /\ session' = [session EXCEPT !.state = "failed"]
    BY <1>6, Zenon DEF Goto, setState
  <2>2. YType' /\ session'.state = "failed" /\ ~Up'
    BY <1>1, <1>2, <1>6, <2>1, Zenon DEF YType, YPc, State, Up, Connected
  <2>3. FlowOk' /\ StateOk'
    BY <1>1, <1>2, <1>6, <2>1, <2>2, Zenon DEF YType, FlowOk, StateOk, Resting, BeforeDevice, Saving
  <2>4. CarrierOk' /\ AttemptOk'
    BY <1>1, <1>2, <1>6, <2>1, <2>2, Zenon DEF YType, CarrierOk, AttemptOk
  <2>5. NativeOnly' /\ OneAtATime'
    BY <1>1, <1>2, <1>6, <2>1, <2>2, Zenon DEF YType, NativeOnly, OneAtATime, StateOk, Up, Connected, BeforeDevice, Resting
  <2> QED
    BY <2>2, <2>3, <2>4, <2>5, Zenon DEF YInv
<1> QED
  BY <1>3, <1>4, <1>5, <1>6, Zenon DEF Characterize

\* A device of runY that NewDevice attached and that then could not be configured.
LEMMA AttachFailsKeeps ==
  ASSUME YInv, y.flow = "run", y.pc \in {"prepare", "params"}, AttachAndClose,
         session' = setState(session, "failed"), sockets' \subseteq sockets, y' = Returned,
         UNCHANGED <<background, life>>
  PROVE  YInv'
<1>1. YType /\ FlowOk /\ StateOk /\ CarrierOk /\ AttemptOk /\ NativeOnly /\ OneAtATime
  BY Zenon DEF YInv
<1>2. /\ session' = [session EXCEPT !.state = "failed"]
      /\ UNCHANGED <<devices, shook>> /\ active' = NoDevice
      /\ y' = IF y.outer = 0 THEN Supervising
                             ELSE [pc |-> "end", flow |-> "bg", conn |-> y.outer, hint |-> "none", outer |-> 0]
  BY Zenon DEF Returned, AttachAndClose, setState
<1>3. y.outer # 0 => background
  BY <1>1, Zenon DEF FlowOk
<1>4. YType' /\ session'.state = "failed" /\ ~Up'
  BY <1>1, <1>2, BoundsAssumption DEF YType, Supervising, YPc, State, Up, Connected
<1>5. FlowOk' /\ StateOk'
  BY <1>1, <1>2, <1>3, <1>4 DEF YType, FlowOk, StateOk, Supervising, Conn, Resting, BeforeDevice, Saving
<1>6. CarrierOk' /\ AttemptOk'
  BY <1>2, <1>4 DEF CarrierOk, AttemptOk, Supervising
<1>7. NativeOnly' /\ OneAtATime'
  BY <1>1, <1>2, <1>4, Zenon DEF NativeOnly, OneAtATime, StateOk, Up, Connected, BeforeDevice
<1> QED
  BY <1>4, <1>5, <1>6, <1>7, Zenon DEF YInv

\* PreparePassiveDevice attaches the device of runY, and that of a background attempt to no TUN.
LEMMA PreparePassiveDeviceKeeps == ASSUME YInv, PreparePassiveDevice  PROVE YInv'
<1>1. YType /\ FlowOk /\ StateOk /\ CarrierOk /\ AttemptOk /\ NativeOnly /\ OneAtATime
  BY Zenon DEF YInv
<1>2. UNCHANGED <<background, life>> /\ y.pc = "prepare" /\ y.conn \in Conn /\ y.conn \in sockets
  BY <1>1, Zenon DEF PreparePassiveDevice, At, YOnly, envVars, FlowOk, AttemptOk, Resting
<1>3. CASE Fails({}, {y.conn})
  BY <1>2, <1>3, FailsKeeps, Zenon DEF BeforeDevice
<1>4. CASE /\ y.flow = "run" /\ AttachAndClose /\ session' = setState(session, "failed")
           /\ sockets' = sockets \ {y.conn} /\ y' = Returned
  BY <1>2, <1>4, AttachFailsKeeps, Zenon
<1>5. CASE /\ IF y.flow = "run"
              THEN attach([conn |-> y.conn, kind |-> "native"])
              ELSE devices' = devices \cup {[conn |-> y.conn, kind |-> "probe"]} /\ UNCHANGED <<shook, active>>
           /\ Goto("report")
           /\ UNCHANGED <<session, sockets>>
  <2> DEFINE d == IF y.flow = "run" THEN OnConn("native") ELSE OnConn("probe")
  <2>1. /\ y' = [y EXCEPT !.pc = "report"] /\ UNCHANGED <<session, sockets, shook>>
        /\ devices' = devices \cup {d} /\ active' = IF y.flow = "run" THEN d ELSE active
    BY <1>5, Zenon DEF Goto, attach, OnConn
  <2>2. d \in Device /\ (y.flow = "run" => d = OnConn("native")) /\ (y.flow = "bg" => d = OnConn("probe"))
    BY <1>2, Zenon DEF Device, OnConn
  <2>3. d' = d /\ OnConn("native")' = OnConn("native") /\ OnConn("probe")' = OnConn("probe") /\ y'.pc = "report" /\ y'.flow = y.flow
    BY <1>1, <2>1, Zenon DEF YType, OnConn
  <2> HIDE DEF d
  <2>4. YType'
    BY <1>1, <1>2, <2>1, <2>2, Zenon DEF YType, YPc
  <2>5. FlowOk' /\ StateOk'
    BY <1>1, <1>2, <2>1, Zenon DEF YType, FlowOk, StateOk, Resting, BeforeDevice, Saving
  <2>6. CarrierOk'
    BY <1>1, <1>2, <2>1, Zenon DEF YType, FlowOk, StateOk, CarrierOk, Up, Connected, BeforeDevice
  <2>7. AttemptOk'
    BY <1>1, <1>2, <2>1, <2>2, <2>3, Zenon DEF YType, AttemptOk
  <2>8. NativeOnly'
    BY <1>1, <1>2, <2>1, <2>2, <2>3, Zenon DEF YType, NativeOnly, Up
  <2>9. OneAtATime'
    BY <1>1, <1>2, <2>1, <2>3, Zenon DEF YType, FlowOk, OneAtATime, BeforeDevice, Resting
  <2> QED
    BY <2>4, <2>5, <2>6, <2>7, <2>8, <2>9, Zenon DEF YInv
<1> QED
  BY <1>3, <1>4, <1>5, Zenon DEF PreparePassiveDevice

\* The two reports of an endpoint.
LEMMA ReportKeeps == ASSUME YInv, SendReport \/ SendReportAgain  PROVE YInv'
<1>1. YType /\ FlowOk /\ StateOk /\ CarrierOk /\ AttemptOk /\ NativeOnly /\ OneAtATime
  BY Zenon DEF YInv
<1>2. UNCHANGED <<background, life>> /\ y.conn \in 0..MaxDial
  BY <1>1, Zenon DEF SendReport, SendReportAgain, YOnly, envVars, YType
<1>3. CASE SendReport /\ Fails({OnConn("native")}, {})
  BY <1>2, <1>3, FailsKeeps, Zenon DEF SendReport, At
<1>4. CASE SendReportAgain /\ BackgroundFails({OnConn("real")})
  <2>1. y.pc = "report-real" /\ y.flow = "bg"
    BY <1>1, <1>4, Zenon DEF SendReportAgain, At, FlowOk, YType
  <2> QED
    BY <1>2, <1>4, <2>1, BackgroundFailsKeeps, Zenon
<1>5. ASSUME NEW pc, <<y.pc, pc>> \in {<<"report", "native">>, <<"report-real", "native-real">>},
             y' = [y EXCEPT !.pc = pc], UNCHANGED <<session, devices, shook, sockets, active>>
      PROVE  YInv'
  <2>1. y' = [pc |-> pc, flow |-> y.flow, conn |-> y.conn, hint |-> y.hint, outer |-> y.outer]
    BY <1>1, <1>5, Zenon DEF YType
  <2>2. <<y.pc, pc>> \in Moves /\ pc \notin {"socket", "decide"} /\ y.pc # "dial"
    BY <1>5, Zenon DEF Moves
  <2> QED
    BY <1>2, <1>5, <2>1, <2>2, MoveKeeps, Zenon
<1> QED
  BY <1>3, <1>4, <1>5 DEF SendReport, SendReportAgain, At, Goto, OnConn

-----------------------------------------------------------------------------
(* Y's side: verdicts, handoff and the cloaked device                       *)

\* What ready means: the device the report was sent for has itself shaken hands.
LEMMA ReadyIsTrue ==
  ASSUME Talk, y.pc \in {"native", "native-real"}, YHas(y.conn, "ready")
  PROVE  Awaited \in shook
<1>1. AtNative(conn[y.conn], x[y.conn])
  BY Zenon DEF Talk, TalkOk, Talking
<1>2. conn[y.conn].toY = <<"ready">>
  BY <1>1 DEF AtNative, YHas
<1> QED
  BY <1>1, <1>2, Zenon DEF AtNative

\* X's verdict on the first report: the native session comes up over a device that shook hands,
\* or the attempt moves on without its device.
LEMMA RecvVerdictKeeps == ASSUME YInv, Talk, RecvVerdict  PROVE YInv'
<1>1. YType /\ FlowOk /\ StateOk /\ CarrierOk /\ AttemptOk /\ NativeOnly /\ OneAtATime
  BY Zenon DEF YInv
<1>2. UNCHANGED <<background, life>> /\ y.pc = "native" /\ y.conn \in Conn /\ y.conn \in sockets
  BY <1>1, Zenon DEF RecvVerdict, At, YOnly, envVars, FlowOk, AttemptOk, Resting
<1>3. CASE Fails({OnConn("native")}, {})
  BY <1>2, <1>3, FailsKeeps, Zenon
<1>4. CASE y.flow = "bg" /\ BackgroundFails({})
  BY <1>2, <1>4, BackgroundFailsKeeps, Zenon
<1>5. CASE YHas(y.conn, "ready") /\ y.flow = "run" /\ NativeUp("native", {}) /\ UNCHANGED sockets
  <2> DEFINE d == OnConn("native")
  <2>1. /\ y' = [y EXCEPT !.pc = "write"] /\ UNCHANGED <<devices, shook, active, sockets>>
        /\ session' = [state |-> "connected-native", dev |-> d, extraCloser |-> y.conn]
    BY <1>1, <1>5, Zenon DEF NativeUp, Goto, setState, setDevice, CloseDevices, OnConn
  <2>2. d \in shook /\ d \in Device /\ active = d /\ d.kind = "native"
    BY <1>1, <1>2, <1>5, ReadyIsTrue, Zenon DEF Awaited, AttemptOk, Device, OnConn
  <2>3. d' = d
    BY <1>1, <2>1, Zenon DEF YType, OnConn
  <2>4. life \notin {"new", "stopped"} /\ Up'
    BY <1>1, <1>2, <2>1, Zenon DEF FlowOk, Up, Connected
  <2> HIDE DEF d
  <2>5. YType'
    BY <1>1, <1>2, <2>1, <2>2, Zenon DEF YType, YPc, State
  <2>6. FlowOk' /\ StateOk'
    BY <1>1, <1>2, <1>5, <2>1, <2>4, Zenon DEF YType, FlowOk, StateOk, Resting, BeforeDevice, Saving
  <2>7. CarrierOk' /\ AttemptOk'
    BY <1>1, <1>2, <2>1, <2>2, Zenon DEF YType, CarrierOk, AttemptOk
  <2>8. NativeOnly'
    BY <1>1, <1>2, <1>5, <2>1, <2>4, Zenon DEF NativeOnly, StateOk, Up, Connected, BeforeDevice, d
  <2>9. OneAtATime'
    BY <1>1, <1>2, <2>1, Zenon DEF YType, OneAtATime, BeforeDevice, Resting
  <2> QED
    BY <2>5, <2>6, <2>7, <2>8, <2>9, Zenon DEF YInv
<1>6. CASE /\ y.flow = "run" /\ CloseDevices({OnConn("native")}) /\ sockets' = sockets \ {y.conn}
           /\ session' = setState(session, "probing") /\ Goto("params")
  <2>1. /\ y' = [y EXCEPT !.pc = "params"] /\ session' = [session EXCEPT !.state = "probing"]
        /\ devices' = devices \ {OnConn("native")} /\ shook' = shook \ {OnConn("native")} /\ active' = NoDevice
    BY <1>1, <1>2, <1>6, Zenon DEF Goto, setState, CloseDevices, AttemptOk
  <2>2. YType' /\ session'.state = "probing" /\ ~Up'
    BY <1>1, <1>2, <1>6, <2>1, Zenon DEF YType, YPc, State, Up, Connected
  <2>3. FlowOk' /\ StateOk'
    BY <1>1, <1>2, <1>6, <2>1, <2>2, Zenon DEF YType, FlowOk, StateOk, Resting, BeforeDevice, Saving
  <2>4. CarrierOk' /\ AttemptOk'
    BY <1>1, <2>1, <2>2, Zenon DEF YType, CarrierOk, AttemptOk
  <2>5. NativeOnly' /\ OneAtATime'
    BY <1>1, <1>2, <1>6, <2>1, <2>2, ZenonT(60) DEF YType, NativeOnly, OneAtATime, AttemptOk, StateOk, Up, Connected, BeforeDevice, Resting
  <2> QED
    BY <2>2, <2>3, <2>4, <2>5, Zenon DEF YInv
<1>7. CASE y.flow = "bg" /\ CloseDevices({OnConn("probe")}) /\ Goto("handoff") /\ UNCHANGED <<session, sockets>>
  <2>1. /\ y' = [y EXCEPT !.pc = "handoff"] /\ UNCHANGED <<session, sockets>>
        /\ devices' = devices \ {OnConn("probe")} /\ shook' = shook \ {OnConn("probe")}
        /\ active' = IF active = OnConn("probe") THEN NoDevice ELSE active
    BY <1>7, Zenon DEF Goto, CloseDevices
  <2>2. YType'
    BY <1>1, <1>2, <2>1, Zenon DEF YType, YPc
  <2>3. FlowOk' /\ StateOk' /\ background /\ session.state = "connected-cloaked" /\ (Up' <=> Up)
    BY <1>1, <1>2, <1>7, <2>1, Zenon DEF YType, FlowOk, StateOk, Resting, BeforeDevice, Saving, Up
  <2>4. CarrierOk'
    BY <1>1, <1>2, <2>1, <2>3 DEF CarrierOk, OnConn
  <2>5. AttemptOk' /\ OneAtATime'
    BY <1>1, <1>2, <2>1, <2>3, Zenon DEF YType, AttemptOk, OneAtATime
  <2>6. NativeOnly'
    BY <1>1, <1>2, <1>7, <2>1, <2>3, Zenon DEF NativeOnly
  <2> QED
    BY <2>2, <2>3, <2>4, <2>5, <2>6, Zenon DEF YInv
<1> QED
  BY <1>3, <1>4, <1>5, <1>6, <1>7, Zenon DEF RecvVerdict, OnConn

\* The real device of a background attempt takes the shared TUN, or cannot be made.
LEMMA HandoffKeeps == ASSUME YInv, Handoff  PROVE YInv'
<1>1. YType /\ FlowOk /\ StateOk /\ CarrierOk /\ AttemptOk /\ NativeOnly /\ OneAtATime
  BY Zenon DEF YInv
<1>2. /\ UNCHANGED <<background, life, session>> /\ y.pc = "handoff" /\ y.conn \in Conn /\ y.conn \in sockets
      /\ y.flow = "bg" /\ background /\ session.state = "connected-cloaked" /\ y.outer = 0
      /\ life \notin {"new", "stopped"} /\ (Up' <=> Up) /\ UNCHANGED shook
  BY <1>1, Zenon DEF Handoff, At, YOnly, envVars, YType, FlowOk, StateOk, AttemptOk, Resting, Saving, Up, AttachAndClose, attach
<1>3. CASE AttachAndClose /\ sockets' = sockets \ {y.conn} /\ y' = Returned
  <2>1. UNCHANGED devices /\ active' = NoDevice /\ y' = Supervising
    BY <1>2, <1>3, Zenon DEF AttachAndClose, Returned
  <2>2. YType' /\ FlowOk' /\ StateOk'
    BY <1>1, <1>2, <1>3, <2>1, BoundsAssumption DEF YType, YPc, FlowOk, StateOk, Supervising, Resting, BeforeDevice, Saving
  <2>3. CarrierOk' /\ AttemptOk' /\ OneAtATime'
    BY <1>1, <1>2, <2>1, Zenon DEF CarrierOk, AttemptOk, OneAtATime, Supervising
  <2>4. NativeOnly'
    BY <1>1, <1>2, <2>1, Zenon DEF NativeOnly
  <2> QED
    BY <2>2, <2>3, <2>4, Zenon DEF YInv
<1>4. CASE attach(OnConn("real")) /\ Goto("report-real") /\ UNCHANGED sockets
  <2> DEFINE d == OnConn("real")
  <2>1. y' = [y EXCEPT !.pc = "report-real"] /\ devices' = devices \cup {d} /\ active' = d /\ d \in Device
    BY <1>2, <1>4, Zenon DEF attach, Goto, Device, OnConn
  <2>2. d' = d /\ y'.pc = "report-real"
    BY <1>1, <2>1, Zenon DEF YType, OnConn
  <2> HIDE DEF d
  <2>3. YType'
    BY <1>1, <1>2, <1>4, <2>1, Zenon DEF YType, YPc
  <2>4. FlowOk' /\ StateOk'
    BY <1>1, <1>2, <2>1, Zenon DEF YType, FlowOk, StateOk, Resting, BeforeDevice, Saving
  <2>5. CarrierOk' /\ OneAtATime'
    BY <1>1, <1>2, <2>1, Zenon DEF CarrierOk, OneAtATime
  <2>6. AttemptOk'
    BY <1>1, <1>2, <1>4, <2>1, <2>2, Zenon DEF YType, AttemptOk, d
  <2>7. NativeOnly'
    BY <1>1, <1>2, <2>1, <2>2, Zenon DEF NativeOnly, d
  <2> QED
    BY <2>3, <2>4, <2>5, <2>6, <2>7, Zenon DEF YInv
<1> QED
  BY <1>3, <1>4, Zenon DEF Handoff, OnConn

\* X's verdict on the second report: the session moves to the real device, or the device goes and a
\* nested runY is to restore cloaked mode.
LEMMA WaitForNativeReadyKeeps == ASSUME YInv, Talk, waitForNativeReady  PROVE YInv'
<1>1. YType /\ FlowOk /\ StateOk /\ CarrierOk /\ AttemptOk /\ NativeOnly /\ OneAtATime
  BY Zenon DEF YInv
<1>2. /\ UNCHANGED <<background, life>> /\ y.pc = "native-real" /\ y.conn \in Conn /\ y.conn \in sockets
      /\ y.flow = "bg" /\ background /\ session.state = "connected-cloaked" /\ y.outer = 0
      /\ life \notin {"new", "stopped"} /\ Up
  BY <1>1, Zenon DEF waitForNativeReady, At, YOnly, envVars, YType, FlowOk, StateOk, AttemptOk, Resting, Saving, Up, Connected
<1> DEFINE d == OnConn("real")
<1>3. d \in Device /\ active = d /\ d.kind = "real"
  BY <1>1, <1>2, Zenon DEF AttemptOk, Device, OnConn
<1>4. CASE YHas(y.conn, "ready") /\ NativeUp("real", {session.dev}) /\ sockets' = sockets \ {session.extraCloser}
  <2>1. d \in shook
    BY <1>2, <1>4, ReadyIsTrue, Zenon DEF Awaited
  <2>2. session.dev # d /\ session.extraCloser = 0
    BY <1>1, <1>2, <1>3, Zenon DEF CarrierOk, NoSocket
  <2>3. /\ y' = [y EXCEPT !.pc = "write"]
        /\ devices' = devices \ {session.dev} /\ shook' = shook \ {session.dev} /\ active' = active
        /\ session' = [state |-> "connected-native", dev |-> d, extraCloser |-> y.conn]
        /\ y.conn \in sockets' /\ sockets' \subseteq sockets
    BY <1>2, <1>3, <1>4, <2>2 DEF NativeUp, Goto, setState, setDevice, CloseDevices, OnConn, Conn
  <2>4. d' = d /\ Up'
    BY <1>1, <1>2, <2>3, Zenon DEF YType, OnConn, Up, Connected
  <2> HIDE DEF d
  <2>5. YType'
    BY <1>1, <1>2, <1>3, <2>3, Zenon DEF YType, YPc, State
  <2>6. FlowOk' /\ StateOk'
    BY <1>1, <1>2, <2>3, Zenon DEF YType, FlowOk, StateOk, Resting, BeforeDevice, Saving
  <2>7. CarrierOk' /\ AttemptOk' /\ OneAtATime'
    BY <1>1, <1>2, <1>3, <2>1, <2>2, <2>3, Zenon DEF YType, CarrierOk, AttemptOk, OneAtATime
  <2>8. NativeOnly'
    BY <1>1, <1>2, <2>3, <2>4, Zenon DEF NativeOnly, d
  <2> QED
    BY <2>5, <2>6, <2>7, <2>8, Zenon DEF YInv
<1>5. CASE CloseDevices({d}) /\ runY("cloaked", y.conn) /\ session' = setState(session, "probing") /\ UNCHANGED sockets
  <2>1. /\ y' = [pc |-> "dial", flow |-> "run", conn |-> 0, hint |-> "cloaked", outer |-> y.conn]
        /\ session' = [session EXCEPT !.state = "probing"]
        /\ devices' = devices \ {d} /\ shook' = shook \ {d} /\ active' = NoDevice
    BY <1>3, <1>5, Zenon DEF runY, setState, CloseDevices
  <2>2. YType' /\ session'.state = "probing" /\ ~Up'
    BY <1>1, <1>2, <1>5, <2>1, BoundsAssumption, Zenon DEF YType, YPc, State, Up, Connected
  <2>3. FlowOk' /\ StateOk'
    BY <1>2, <2>1, <2>2, Zenon DEF FlowOk, StateOk, Resting, BeforeDevice, Saving
  <2>4. CarrierOk' /\ AttemptOk' /\ OneAtATime'
    BY <1>2, <2>1, <2>2, Zenon DEF CarrierOk, AttemptOk, OneAtATime
  <2>5. NativeOnly'
    BY <1>1, <1>2, <2>1, <2>2, Zenon DEF NativeOnly
  <2> QED
    BY <2>2, <2>3, <2>4, <2>5, Zenon DEF YInv
<1> QED
  BY <1>4, <1>5, Zenon DEF waitForNativeReady, OnConn

\* The deferred calls of a background attempt.
LEMMA EndBackgroundKeeps == ASSUME YInv, EndBackground  PROVE YInv'
<1>1. YType /\ FlowOk /\ StateOk /\ CarrierOk /\ AttemptOk /\ NativeOnly /\ OneAtATime
  BY Zenon DEF YInv
<1>2. /\ UNCHANGED <<background, life, session, devices, shook, active>> /\ y' = Supervising
      /\ sockets' = sockets \ {y.conn} /\ y.pc = "end" /\ background
      /\ session.state \in {"failed", "connected-cloaked"} /\ life \notin {"new", "stopped"} /\ (Up' <=> Up)
  BY <1>1, Zenon DEF EndBackground, At, YOnly, envVars, YType, FlowOk, StateOk, Up
<1>3. YType' /\ FlowOk' /\ StateOk'
  BY <1>1, <1>2, BoundsAssumption, Zenon DEF YType, YPc, FlowOk, StateOk, Supervising, Resting, BeforeDevice, Saving
<1>4. CarrierOk' /\ AttemptOk' /\ OneAtATime'
  BY <1>1, <1>2, Zenon DEF CarrierOk, AttemptOk, OneAtATime, Supervising
<1>5. NativeOnly'
  BY <1>1, <1>2, Zenon DEF NativeOnly
<1> QED
  BY <1>3, <1>4, <1>5, Zenon DEF YInv

\* runYCloaked: its device takes the shared TUN, or cannot be set up.
LEMMA RecvCloakedParamsKeeps == ASSUME YInv, RecvCloakedParams  PROVE YInv'
<1>1. YType /\ FlowOk /\ StateOk /\ CarrierOk /\ AttemptOk /\ NativeOnly /\ OneAtATime
  BY Zenon DEF YInv
<1>2. UNCHANGED <<background, life>> /\ y.pc = "params" /\ y.flow = "run" /\ y.conn \in Conn
  BY <1>1, Zenon DEF RecvCloakedParams, At, YOnly, envVars, YType, FlowOk, Resting
<1>3. CASE RunFails({}, {})
  BY <1>2, <1>3, RunFailsKeeps, Zenon DEF BeforeDevice
<1>4. CASE AttachAndClose /\ session' = setState(session, "failed") /\ y' = Returned /\ UNCHANGED sockets
  BY <1>2, <1>4, AttachFailsKeeps, Zenon
<1>5. CASE attach(OnConn("cloaked")) /\ Goto("cloaked") /\ UNCHANGED <<session, sockets>>
  <2> DEFINE d == OnConn("cloaked")
  <2>1. /\ y' = [y EXCEPT !.pc = "cloaked"] /\ devices' = devices \cup {d} /\ active' = d /\ d \in Device
        /\ UNCHANGED shook /\ d.kind = "cloaked"
    BY <1>2, <1>5, Zenon DEF attach, Goto, Device, OnConn
  <2>2. d' = d /\ y'.pc = "cloaked" /\ ~Up'
    BY <1>1, <1>2, <1>5, <2>1, Zenon DEF YType, OnConn, StateOk, BeforeDevice, Up, Connected
  <2> HIDE DEF d
  <2>3. YType'
    BY <1>1, <1>2, <1>5, <2>1, Zenon DEF YType, YPc
  <2>4. FlowOk' /\ StateOk'
    BY <1>1, <1>2, <1>5, <2>1, Zenon DEF YType, FlowOk, StateOk, Resting, BeforeDevice, Saving
  <2>5. CarrierOk' /\ OneAtATime'
    BY <1>1, <1>2, <2>1, <2>2, Zenon DEF CarrierOk, OneAtATime, BeforeDevice, Resting
  <2>6. AttemptOk'
    BY <1>2, <2>1, <2>2, Zenon DEF AttemptOk, d
  <2>7. NativeOnly'
    BY <1>1, <1>2, <2>1, <2>2, Zenon DEF NativeOnly, StateOk, BeforeDevice, Up, Connected
  <2> QED
    BY <2>3, <2>4, <2>5, <2>6, <2>7, Zenon DEF YInv
<1> QED
  BY <1>3, <1>4, <1>5, Zenon DEF RecvCloakedParams, OnConn

\* The cloaked session comes up over the device runYCloaked polled.
LEMMA PollCloakedKeeps == ASSUME YInv, PollCloaked  PROVE YInv'
<1>1. YType /\ FlowOk /\ StateOk /\ CarrierOk /\ AttemptOk /\ NativeOnly /\ OneAtATime
  BY Zenon DEF YInv
<1> DEFINE d == OnConn("cloaked")
<1>2. /\ UNCHANGED <<background, life>> /\ y.pc = "cloaked" /\ y.flow = "run" /\ y.conn \in Conn
      /\ active = d /\ d \in Device /\ d.kind = "cloaked" /\ life \notin {"new", "stopped"}
  BY <1>1, Zenon DEF PollCloaked, At, YOnly, envVars, YType, FlowOk, Resting, AttemptOk, Device, OnConn
<1>3. CASE RunFails({d}, {})
  BY <1>2, <1>3, RunFailsKeeps, Zenon
<1>4. CASE /\ d \in shook /\ session' = setState(setDevice(session, d, NoSocket), "connected-cloaked")
           /\ Goto("write") /\ UNCHANGED <<devices, shook, sockets, active>>
  <2>1. /\ y' = [y EXCEPT !.pc = "write"]
        /\ session' = [state |-> "connected-cloaked", dev |-> d, extraCloser |-> 0]
    BY <1>4, Zenon DEF Goto, setState, setDevice, NoSocket
  <2> HIDE DEF d
  <2>2. YType'
    BY <1>1, <1>2, <1>4, <2>1, BoundsAssumption DEF YType, YPc, State
  <2>3. FlowOk' /\ StateOk'
    BY <1>1, <1>2, <2>1, Zenon DEF YType, FlowOk, StateOk, Resting, BeforeDevice, Saving
  <2>4. CarrierOk' /\ AttemptOk' /\ OneAtATime'
    BY <1>1, <1>2, <1>4, <2>1 DEF YType, CarrierOk, AttemptOk, OneAtATime, BeforeDevice, Resting, NoSocket
  <2>5. NativeOnly'
    BY <1>1, <1>2, <1>4, Zenon DEF NativeOnly, StateOk, BeforeDevice, Up, Connected
  <2> QED
    BY <2>2, <2>3, <2>4, <2>5, Zenon DEF YInv
<1> QED
  BY <1>3, <1>4, Zenon DEF PollCloaked, OnConn

\* saveSession and the return after it.
LEMMA SaveKeeps == ASSUME YInv, WriteTemporary \/ FillTemporary \/ Rename  PROVE YInv'
<1>1. /\ UNCHANGED <<session, devices, shook, sockets, active, background, life>>
      /\ y \in [pc : YPc, flow : {"run", "bg"}, conn : 0..MaxDial, hint : {"none", "cloaked"}, outer : 0..MaxDial]
  BY Zenon DEF WriteTemporary, FillTemporary, Rename, YOnly, envVars, YInv, YType
<1>2. CASE Return
  BY <1>1, <1>2, ReturnKeeps, Zenon DEF WriteTemporary, FillTemporary, Rename, At, Saving
<1>3. ASSUME NEW pc, <<y.pc, pc>> \in {<<"write", "fill">>, <<"fill", "rename">>}, y' = [y EXCEPT !.pc = pc]
      PROVE  YInv'
  <2>1. y' = [pc |-> pc, flow |-> y.flow, conn |-> y.conn, hint |-> y.hint, outer |-> y.outer]
    BY <1>1, <1>3, Zenon
  <2>2. <<y.pc, pc>> \in Moves /\ pc \notin {"socket", "decide"} /\ y.pc # "dial" /\ y.conn \in 0..MaxDial
    BY <1>1, <1>3, Zenon DEF Moves
  <2> QED
    BY <1>1, <2>1, <2>2, MoveKeeps, Zenon
<1> QED
  BY <1>2, <1>3 DEF WriteTemporary, FillTemporary, Rename, At, Goto

-----------------------------------------------------------------------------
(* Y's side: superviseY, Stop and a killed process                          *)

\* The first attempt, and the retry of a failed session: neither finds a native device open.
LEMMA StartKeeps == ASSUME YInv, Start \/ Retry  PROVE YInv'
<1>1. YType /\ FlowOk /\ StateOk /\ CarrierOk /\ AttemptOk /\ NativeOnly /\ OneAtATime
  BY Zenon DEF YInv
<1>2. PICK hint \in {"none", "cloaked"} :
         y' = [pc |-> "dial", flow |-> "run", conn |-> 0, hint |-> hint, outer |-> 0]
  BY Zenon DEF Start, Retry, runY
<1>3. /\ session' = [session EXCEPT !.state = "probing"] /\ session.state \in {"idle", "failed"}
      /\ UNCHANGED <<devices, shook, sockets, active, background>> /\ y.pc \in Resting
      /\ life' \in {"starting", "running", "cancelled"}
  BY <1>1, Zenon DEF Start, Retry, setState, StateOk, YOnly, envVars, At, Supervised, Resting
<1>4. ~Up
  BY <1>3, Zenon DEF Up, Connected
<1>5. YType' /\ session'.state = "probing" /\ ~Up'
  BY <1>1, <1>2, <1>3, BoundsAssumption DEF YType, YPc, State, Up, Connected
<1>6. FlowOk' /\ StateOk'
  BY <1>2, <1>3, <1>5, Zenon DEF FlowOk, StateOk, Resting, BeforeDevice, Saving
<1>7. CarrierOk' /\ AttemptOk'
  BY <1>2, <1>5, Zenon DEF CarrierOk, AttemptOk
<1>8. NativeOnly'
  BY <1>1, <1>3, <1>4, Zenon DEF NativeOnly, Resting
<1>9. OneAtATime'
  BY <1>1, <1>2, <1>3, Zenon DEF OneAtATime, Resting
<1> QED
  BY <1>5, <1>6, <1>7, <1>8, <1>9, Zenon DEF YInv

\* superviseY tears the session down before it reconnects.
LEMMA ReconnectKeeps == ASSUME YInv, Reconnect  PROVE YInv'
<1>1. YType /\ FlowOk /\ StateOk /\ CarrierOk /\ AttemptOk /\ NativeOnly /\ OneAtATime
  BY Zenon DEF YInv
<1>2. PICK hint \in {"none", "cloaked"} :
         y' = [pc |-> "dial", flow |-> "run", conn |-> 0, hint |-> hint, outer |-> 0]
  BY Zenon DEF Reconnect, runY
<1>3. /\ session' = [state |-> "probing", dev |-> NoDevice, extraCloser |-> 0]
      /\ devices' = devices \ {session.dev} /\ shook' = shook \ {session.dev}
      /\ active' = IF active = session.dev THEN NoDevice ELSE active
      /\ sockets' = sockets \ {session.extraCloser}
      /\ UNCHANGED <<background, life>> /\ y.pc = "supervise" /\ life \notin {"new", "stopped"}
  BY <1>1, Zenon DEF Reconnect, closeDevice, CloseDevices, setState, setDevice, NoSocket, YOnly, envVars, Supervised, At
<1>4. YType' /\ ~Up'
  BY <1>1, <1>2, <1>3, BoundsAssumption DEF YType, YPc, State, Up, Connected
<1>5. FlowOk' /\ StateOk'
  BY <1>2, <1>3, Zenon DEF FlowOk, StateOk, Resting, BeforeDevice, Saving
<1>6. CarrierOk' /\ AttemptOk'
  BY <1>2, <1>4, Zenon DEF CarrierOk, AttemptOk
<1>7. NativeOnly'
  BY <1>1, <1>3, Zenon DEF NativeOnly
<1>8. ~background => devices' = {}
  <2>1. CASE session.state = "failed"
    BY <1>1, <1>3, <2>1, Zenon DEF OneAtATime, Resting
  <2>2. CASE session.state # "failed"
    <3>1. Up
      BY <1>1, <1>3, <2>2, Zenon DEF StateOk, Up, Connected
    <3> QED
      BY <1>1, <1>3, <3>1, Zenon DEF CarrierOk, OneAtATime
  <2> QED
    BY <2>1, <2>2, Zenon
<1>9. OneAtATime'
  BY <1>3, <1>8, Zenon DEF OneAtATime
<1> QED
  BY <1>4, <1>5, <1>6, <1>7, <1>9, Zenon DEF YInv

\* The steps of superviseY and of Stop that leave the session alone.
LEMMA SuperviseKeeps ==
  ASSUME YInv, StartReturns \/ attemptBackgroundNative \/ ContextDone \/ StopCancels
  PROVE  YInv'
<1>1. YType /\ FlowOk /\ StateOk /\ CarrierOk /\ AttemptOk /\ NativeOnly /\ OneAtATime
  BY Zenon DEF YInv
<1>2. UNCHANGED <<session, devices, shook, sockets, active, background>>
  BY Zenon DEF StartReturns, attemptBackgroundNative, ContextDone, StopCancels, yVars, YOnly, envVars
<1>3. CASE StartReturns \/ StopCancels
  <2>1. UNCHANGED y /\ life \in {"starting", "running"} /\ life' \in {"running", "cancelled"}
    BY <1>3, Zenon DEF StartReturns, StopCancels, yVars
  <2>2. YType' /\ FlowOk' /\ StateOk' /\ (Up' <=> Up)
    BY <1>1, <1>2, <2>1 DEF YType, FlowOk, StateOk, Up
  <2>3. CarrierOk' /\ AttemptOk' /\ NativeOnly' /\ OneAtATime'
    BY <1>1, <1>2, <2>1, <2>2 DEF CarrierOk, AttemptOk, NativeOnly, OneAtATime, OnConn
  <2> QED
    BY <2>2, <2>3, Zenon DEF YInv
<1>4. CASE attemptBackgroundNative
  <2>1. /\ y' = [pc |-> "dial", flow |-> "bg", conn |-> 0, hint |-> "none", outer |-> 0]
        /\ UNCHANGED life /\ life \in {"running", "cancelled"} /\ background /\ session.state = "connected-cloaked"
        /\ (Up' <=> Up)
    BY <1>2, <1>4, Zenon DEF attemptBackgroundNative, YOnly, envVars, Supervised, Up
  <2>2. YType' /\ FlowOk' /\ StateOk'
    BY <1>1, <1>2, <2>1, BoundsAssumption DEF YType, YPc, FlowOk, StateOk, Resting, BeforeDevice, Saving
  <2>3. CarrierOk' /\ AttemptOk' /\ OneAtATime'
    BY <1>1, <1>2, <2>1, Zenon DEF CarrierOk, AttemptOk, OneAtATime
  <2>4. NativeOnly'
    BY <1>1, <1>2, <1>4, <2>1, Zenon DEF NativeOnly, attemptBackgroundNative, Supervised, At
  <2> QED
    BY <2>2, <2>3, <2>4, Zenon DEF YInv
<1>5. CASE ContextDone
  <2>1. /\ y' = [y EXCEPT !.pc = "done"] /\ y.pc = "supervise" /\ UNCHANGED life /\ life = "cancelled"
        /\ (Up' <=> Up)
    BY <1>2, <1>5, Zenon DEF ContextDone, YOnly, envVars, Supervised, Up, Goto, At
  <2>2. YType' /\ FlowOk' /\ StateOk'
    BY <1>1, <1>2, <2>1, Zenon DEF YType, YPc, FlowOk, StateOk, Resting, BeforeDevice, Saving
  <2>3. CarrierOk' /\ AttemptOk' /\ OneAtATime'
    BY <1>1, <1>2, <2>1, Zenon DEF YType, CarrierOk, AttemptOk, OneAtATime, BeforeDevice, Resting
  <2>4. NativeOnly'
    BY <1>1, <1>2, <2>1, Zenon DEF NativeOnly
  <2> QED
    BY <2>2, <2>3, <2>4, Zenon DEF YInv
<1> QED
  BY <1>3, <1>4, <1>5, Zenon

\* Stop closes the session's device and nothing is up any more.
LEMMA StopClosesKeeps == ASSUME YInv, StopCloses  PROVE YInv'
<1>1. YType /\ FlowOk /\ StateOk /\ CarrierOk /\ AttemptOk /\ NativeOnly /\ OneAtATime
  BY Zenon DEF YInv
<1>2. /\ session' = [state |-> session.state, dev |-> NoDevice, extraCloser |-> 0]
      /\ devices' = devices \ {session.dev} /\ shook' = shook \ {session.dev}
      /\ active' = IF active = session.dev THEN NoDevice ELSE active
      /\ sockets' = sockets \ {session.extraCloser}
      /\ UNCHANGED <<background, y>> /\ y.pc = "done" /\ life = "cancelled" /\ life' = "stopped"
  BY Zenon DEF StopCloses, closeDevice, CloseDevices, setDevice, NoSocket, At
<1>3. YType' /\ ~Up'
  BY <1>1, <1>2, BoundsAssumption DEF YType, Up
<1>4. FlowOk' /\ StateOk'
  BY <1>1, <1>2, Zenon DEF FlowOk, StateOk, Resting, BeforeDevice, Saving
<1>5. CarrierOk' /\ AttemptOk'
  BY <1>1, <1>2, <1>3, Zenon DEF CarrierOk, AttemptOk
<1>6. NativeOnly'
  BY <1>1, <1>2, Zenon DEF NativeOnly
<1>7. OneAtATime'
  <2>1. ~background /\ session.state # "failed" => Up
    BY <1>1, <1>2, Zenon DEF StateOk, Up, Connected
  <2> QED
    BY <1>1, <1>2, <2>1, Zenon DEF CarrierOk, OneAtATime, BeforeDevice, Resting
<1> QED
  BY <1>3, <1>4, <1>5, <1>6, <1>7, Zenon DEF YInv

\* A killed process has nothing open.
LEMMA CrashKeeps == ASSUME YInv, Crash  PROVE YInv'
<1>1. /\ y' = InitY /\ life' = "new" /\ session' = InitSession
      /\ devices' = {} /\ shook' = {} /\ sockets' = {} /\ active' = NoDevice /\ background' \in BOOLEAN
  BY Zenon DEF Crash, YInv, YType
<1>2. YType'
  BY <1>1, BoundsAssumption DEF YType, InitY, InitSession, YPc, State, NoSocket
<1>3. FlowOk' /\ StateOk' /\ CarrierOk' /\ AttemptOk' /\ NativeOnly' /\ OneAtATime'
  BY <1>1, Zenon DEF FlowOk, StateOk, CarrierOk, AttemptOk, NativeOnly, OneAtATime, Up, Connected, InitY, InitSession,
              Resting, BeforeDevice, Saving
<1> QED
  BY <1>2, <1>3, Zenon DEF YInv

\* Handshakes only add to the devices that shook hands, and X does not touch Y's side.
LEMMA OthersKeepY ==
  ASSUME YInv, UNCHANGED <<y, session, devices, sockets, active, background, life>>,
         shook \subseteq shook', shook' \subseteq devices
  PROVE  YInv'
<1>1. YType /\ FlowOk /\ StateOk /\ CarrierOk /\ AttemptOk /\ NativeOnly /\ OneAtATime
  BY Zenon DEF YInv
<1>2. YType' /\ FlowOk' /\ StateOk' /\ (Up' <=> Up)
  BY <1>1 DEF YType, FlowOk, StateOk, Up
<1>3. CarrierOk' /\ AttemptOk' /\ NativeOnly' /\ OneAtATime'
  BY <1>1, <1>2 DEF CarrierOk, AttemptOk, NativeOnly, OneAtATime, OnConn
<1> QED
  BY <1>2, <1>3, Zenon DEF YInv

-----------------------------------------------------------------------------
(* Control connections                                                      *)

\* The queues of a connection hold two messages at most: what sending and receiving do to them.
LEMMA ShortQueues ==
  ASSUME NEW a, NEW b
  PROVE  /\ Append(<<>>, a) = <<a>> /\ Append(<<a>>, b) = <<a, b>>
         /\ Head(<<a>>) = a /\ Tail(<<a>>) = <<>> /\ Head(<<a, b>>) = a /\ Tail(<<a, b>>) = <<b>>
         /\ <<a>> # <<>> /\ <<a, b>> # <<>> /\ <<a, b>> # <<b>> /\ <<a, b>> # <<a>>
         /\ (<<a>> = <<b>> <=> a = b)
<1> DEFINE s == Append(<<a>>, b)  t == <<a, b>>  S == {a, b}
<1>1. s \in Seq(S) /\ t \in Seq(S)
  OBVIOUS
<1>2. Len(s) = 2 /\ Len(t) = 2 /\ s[1] = a /\ s[2] = b /\ t[1] = a /\ t[2] = b
  OBVIOUS
<1> HIDE DEF s, t, S
<1>3. s \in [1..2 -> S] /\ t \in [1..2 -> S]
  BY <1>1, <1>2, SMTT(30)
<1>4. s = t
  <2>1. \A i \in 1..2 : s[i] = t[i]
    BY <1>2
  <2> QED
    BY <1>3, <2>1
<1>5. Append(<<a>>, b) = <<a, b>>
  BY <1>4, Zenon DEF s, t
<1>6. Append(<<>>, a) = <<a>>
  OBVIOUS
<1>7. Head(<<a>>) = a /\ Tail(<<a>>) = <<>> /\ Head(<<a, b>>) = a
  OBVIOUS
<1>8. Tail(<<a, b>>) = <<b>>
  OBVIOUS
<1>9. <<a>> # <<>> /\ <<a, b>> # <<>> /\ <<a, b>> # <<b>> /\ <<a, b>> # <<a>> /\ (<<a>> = <<b>> <=> a = b)
  BY Zenon
<1> QED
  BY <1>5, <1>6, <1>7, <1>8, <1>9, Zenon

\* A send appends to the queue of a working connection, and touches nothing else.
LEMMA SentFacts ==
  ASSUME NetType, NEW c \in Conn, NEW m \in Message
  PROVE  /\ SentByY(c, m) \in [Conn -> Connection]
         /\ SentByX(c, m) \in [Conn -> Connection]
         /\ \A e \in Conn \ {c} : SentByY(c, m)[e] = conn[e] /\ SentByX(c, m)[e] = conn[e]
         /\ SentByY(c, m)[c].toX = IF Works(c) THEN Append(conn[c].toX, m) ELSE conn[c].toX
         /\ SentByY(c, m)[c].toY = conn[c].toY
         /\ SentByX(c, m)[c].toY = IF Works(c) THEN Append(conn[c].toY, m) ELSE conn[c].toY
         /\ SentByX(c, m)[c].toX = conn[c].toX
         /\ SentByY(c, m)[c].yOpen = conn[c].yOpen /\ SentByX(c, m)[c].yOpen = conn[c].yOpen
         /\ SentByY(c, m)[c].xOpen = conn[c].xOpen /\ SentByX(c, m)[c].xOpen = conn[c].xOpen
         /\ SentByY(c, m)[c].broken = conn[c].broken /\ SentByX(c, m)[c].broken = conn[c].broken
<1>1. conn \in [Conn -> Connection] /\ conn[c] \in Connection
  BY Zenon DEF NetType
<1>2. Append(conn[c].toX, m) \in Seq(Message) /\ Append(conn[c].toY, m) \in Seq(Message)
  BY <1>1 DEF Connection
<1> QED
  BY <1>1, <1>2, Zenon DEF SentByY, SentByX, Connection

\* A receive takes the head of the queue, and touches nothing else.
LEMMA ReceivedFacts ==
  ASSUME NetType, NEW c \in Conn
  PROVE  /\ conn[c].toY # <<>> => ReceivedByY(c) \in [Conn -> Connection]
         /\ conn[c].toX # <<>> => ReceivedByX(c) \in [Conn -> Connection]
         /\ \A e \in Conn \ {c} : ReceivedByY(c)[e] = conn[e] /\ ReceivedByX(c)[e] = conn[e]
         /\ ReceivedByY(c)[c].toX = conn[c].toX /\ ReceivedByY(c)[c].toY = Tail(conn[c].toY)
         /\ ReceivedByX(c)[c].toY = conn[c].toY /\ ReceivedByX(c)[c].toX = Tail(conn[c].toX)
         /\ ReceivedByY(c)[c].yOpen = conn[c].yOpen /\ ReceivedByX(c)[c].yOpen = conn[c].yOpen
         /\ ReceivedByY(c)[c].xOpen = conn[c].xOpen /\ ReceivedByX(c)[c].xOpen = conn[c].xOpen
         /\ ReceivedByY(c)[c].broken = conn[c].broken /\ ReceivedByX(c)[c].broken = conn[c].broken
<1>1. conn \in [Conn -> Connection] /\ conn[c] \in Connection
  BY Zenon DEF NetType
<1>2. /\ conn[c].toX # <<>> => Tail(conn[c].toX) \in Seq(Message)
      /\ conn[c].toY # <<>> => Tail(conn[c].toY) \in Seq(Message)
  BY <1>1 DEF Connection
<1> QED
  BY <1>1, <1>2, Zenon DEF ReceivedByY, ReceivedByX, Connection

\* Y's closes leave connections; a connection neither end has open is as before it was dialled.
LEMMA HangupType == ASSUME NetType, NEW cs  PROVE Hangup(cs) \in [Conn -> Connection]
<1>1. conn \in [Conn -> Connection] /\ <<>> \in Seq(Message)
  BY DEF NetType
<1> QED
  BY <1>1, Zenon DEF Hangup, Connection, ClosedByY, Closed

\* Whatever Y does to its connection leaves connections.
LEMMA YKeepsNet ==
  ASSUME NetType, UNCHANGED <<x, native>>, used' \in [dial : 0..MaxDial, fault : Nat],
         \/ UNCHANGED conn
         \/ \E cs : conn' = Hangup(cs)
         \/ y.conn \in Conn /\ \E m \in Message : conn' = SentByY(y.conn, m)
         \/ y.conn \in Conn /\ conn[y.conn].toY # <<>> /\ conn' = ReceivedByY(y.conn)
  PROVE  NetType'
<1>1. conn' \in [Conn -> Connection]
  <2>1. CASE UNCHANGED conn
    BY <2>1, Zenon DEF NetType
  <2>2. CASE \E cs : conn' = Hangup(cs)
    BY <2>2, HangupType, Zenon
  <2>3. CASE y.conn \in Conn /\ \E m \in Message : conn' = SentByY(y.conn, m)
    BY <2>3, SentFacts
  <2>4. CASE y.conn \in Conn /\ conn[y.conn].toY # <<>> /\ conn' = ReceivedByY(y.conn)
    BY <2>4, ReceivedFacts, Zenon
  <2> QED
    BY <2>1, <2>2, <2>3, <2>4, Zenon
<1> QED
  BY <1>1, Zenon DEF NetType

\* The steps of an attempt leave the types of the network and of X's side as they are.
LEMMA AttemptKeepsNet == ASSUME YInv, NetType, Attempt  PROVE NetType'
<1>1. y.pc \notin Resting \cup {"dial"} => y.conn \in Conn
  BY Zenon DEF YInv, FlowOk
<1>2. used \in [dial : 0..MaxDial, fault : Nat]
  BY Zenon DEF NetType
<1>3. CASE DialX
  <2>1. CASE Fails({}, {}) /\ UNCHANGED <<x, used>>
    <3>1. conn' = Hangup({y.conn}) /\ UNCHANGED <<x, native, used>>
      BY <1>3, <2>1, Zenon DEF DialX, Fails, RunFails, BackgroundFails
    <3> QED
      BY <1>2, <3>1, YKeepsNet, Zenon
  <2>2. CASE ~(Fails({}, {}) /\ UNCHANGED <<x, used>>)
    <3> DEFINE c == used.dial + 1
    <3>1. /\ c \in Conn /\ conn' = [conn EXCEPT ![c] = Opened] /\ x' = [x EXCEPT ![c] = "greet"]
          /\ used' = [used EXCEPT !.dial = c] /\ UNCHANGED native
      BY <1>3, <2>2, Zenon DEF DialX
    <3>2. Opened \in Connection
      BY DEF Opened, Connection
    <3>3. used' \in [dial : 0..MaxDial, fault : Nat]
      BY <1>2, <3>1 DEF Conn
    <3> HIDE DEF c
    <3> QED
      BY <3>1, <3>2, <3>3, Zenon DEF NetType, XPc
  <2> QED
    BY <2>1, <2>2, Zenon
<1>4. CASE ~DialX
  <2>1. UNCHANGED <<x, native, used>>
    BY <1>4, Zenon DEF Attempt, RecvXInfo, SendModeDecision, Characterize, PreparePassiveDevice, SendReport, RecvVerdict,
                Handoff, SendReportAgain, waitForNativeReady, EndBackground, RecvCloakedParams, PollCloaked,
                WriteTemporary, FillTemporary, Rename, YOnly, xVars, envVars
  <2>2. \/ UNCHANGED conn
        \/ \E cs : conn' = Hangup(cs)
        \/ y.conn \in Conn /\ \E m \in Message : conn' = SentByY(y.conn, m)
        \/ y.conn \in Conn /\ conn[y.conn].toY # <<>> /\ conn' = ReceivedByY(y.conn)
    <3>1. CASE RecvXInfo
      BY <1>1, <3>1, Zenon DEF RecvXInfo, Fails, RunFails, BackgroundFails, YHas, At, Resting
    <3>2. CASE SendModeDecision
      BY <1>1, <3>2, Zenon DEF SendModeDecision, RunFails, At, Resting, Message
    <3>3. CASE Characterize
      BY <3>3, Zenon DEF Characterize, Fails, RunFails, BackgroundFails
    <3>4. CASE PreparePassiveDevice
      BY <3>4, Zenon DEF PreparePassiveDevice, Fails, RunFails, BackgroundFails
    <3>5. CASE SendReport \/ SendReportAgain
      BY <1>1, <3>5, Zenon DEF SendReport, SendReportAgain, Fails, RunFails, BackgroundFails, At, Resting, Message
    <3>6. CASE RecvVerdict
      BY <1>1, <3>6, Zenon DEF RecvVerdict, Fails, RunFails, BackgroundFails, YHas, At, Resting
    <3>7. CASE Handoff \/ EndBackground
      BY <3>7, Zenon DEF Handoff, EndBackground
    <3>8. CASE waitForNativeReady
      BY <1>1, <3>8, Zenon DEF waitForNativeReady, YHas, At, Resting
    <3>9. CASE RecvCloakedParams
      BY <1>1, <3>9, Zenon DEF RecvCloakedParams, RunFails, YHas, At, Resting
    <3>10. CASE PollCloaked
      BY <3>10, Zenon DEF PollCloaked, RunFails
    <3>11. CASE WriteTemporary \/ FillTemporary \/ Rename
      BY <3>11, Zenon DEF WriteTemporary, FillTemporary, Rename, Return
    <3> QED
      BY <1>4, <3>1, <3>2, <3>3, <3>4, <3>5, <3>6, <3>7, <3>8, <3>9, <3>10, <3>11, Zenon DEF Attempt
  <2> QED
    BY <1>2, <2>1, <2>2, YKeepsNet, Zenon
<1> QED
  BY <1>3, <1>4, Zenon

-----------------------------------------------------------------------------
(* Y's connection: Y's steps                                                *)

\* A step that ends an attempt or leaves the points where Y talks to X.
LEMMA SilentKeepsTalk == ASSUME y'.pc \notin Talking  PROVE Talk'
BY Zenon DEF Talk

\* The next steps of an attempt, where X has answered all that Y sent.
LEMMA QuietKeepsTalk ==
  ASSUME YInv, Talk, NEW pc, y' = [y EXCEPT !.pc = pc], UNCHANGED <<conn, x>>,
         y.pc \in Talking \ {"info", "native", "native-real", "params"},
         pc \in Talking \ {"info", "native", "native-real", "params"}
  PROVE  Talk'
<1>1. y'.conn = y.conn /\ y'.pc = pc
  BY Zenon DEF YInv, YType
<1> QED
  BY <1>1, Zenon DEF Talk, TalkOk, AtQuiet, Talking

\* A new connection: X's handler is about to greet.
LEMMA DialTalks ==
  ASSUME NetType, NEW c \in Conn, y'.pc = "info", y'.conn = c,
         conn' = [conn EXCEPT ![c] = Opened], x' = [x EXCEPT ![c] = "greet"]
  PROVE  Talk'
<1>1. conn'[c] = Opened /\ x'[c] = "greet"
  BY Zenon DEF NetType
<1> QED
  BY <1>1 DEF Talk, TalkOk, AtInfo, Talking, Opened

\* XInfo is all that is on the connection.
LEMMA InfoTalks ==
  ASSUME NetType, Talk, y.pc = "info", y.conn \in Conn, YHas(y.conn, "info"), conn' = ReceivedByY(y.conn), UNCHANGED x,
         y'.pc \in {"decide", "socket"}, y'.conn = y.conn
  PROVE  Talk'
<1> PICK c \in Conn : c = y.conn
  BY Zenon
<1>1. conn[c].yOpen /\ (x[c] = "closed" => ~conn[c].xOpen) /\ AtInfo(conn[c], x[c])
  BY Zenon DEF Talk, TalkOk, Talking
<1>2. conn[c].toY = <<"info">> /\ conn[c].toX = <<>> /\ x[c] \in {"recv", "closed"}
  BY <1>1, Zenon DEF AtInfo, YHas
<1>3. conn'[c].toY = <<>> /\ conn'[c].toX = <<>> /\ conn'[c].yOpen /\ conn'[c].xOpen = conn[c].xOpen
  <2>1. Tail(<<"info">>) = <<>>
    BY ShortQueues, Zenon
  <2> QED
    <3>1. /\ conn'[c].toX = conn[c].toX /\ conn'[c].toY = Tail(conn[c].toY)
          /\ conn'[c].yOpen = conn[c].yOpen /\ conn'[c].xOpen = conn[c].xOpen
      BY ReceivedFacts, Zenon
    <3> QED
      BY <1>1, <1>2, <2>1, <3>1, Zenon
<1> QED
  BY <1>1, <1>2, <1>3, Zenon DEF Talk, TalkOk, AtQuiet, Talking

\* Y sends a report, the first or the second, or its decision: X is in Recv or has returned.
LEMMA SendTalks ==
  ASSUME NetType, Talk, y.conn \in Conn, y'.conn = y.conn, UNCHANGED x,
         y.pc \in Talking \ {"info", "native", "native-real", "params"},
         \/ y'.pc \in {"native", "native-real"} /\ conn' = SentByY(y.conn, "report")
         \/ y'.pc = "params" /\ conn' = SentByY(y.conn, "cloaked")
  PROVE  Talk'
<1> PICK c \in Conn : c = y.conn
  BY Zenon
<1>1. /\ conn[c].yOpen /\ (x[c] = "closed" => ~conn[c].xOpen)
      /\ x[c] \in {"recv", "closed"} /\ conn[c].toX = <<>> /\ conn[c].toY = <<>>
  BY Zenon DEF Talk, TalkOk, Talking, AtQuiet
<1>2. ASSUME NEW m \in Message, conn' = SentByY(c, m)
      PROVE  /\ conn'[c].toX = IF conn[c].xOpen /\ ~conn[c].broken THEN <<m>> ELSE <<>>
             /\ conn'[c].toY = <<>> /\ conn'[c].yOpen
             /\ conn'[c].xOpen = conn[c].xOpen /\ conn'[c].broken = conn[c].broken
  <2>1. Append(<<>>, m) = <<m>>
    BY ShortQueues, Zenon
  <2> QED
    <3>1. /\ conn'[c].toX = (IF Works(c) THEN Append(conn[c].toX, m) ELSE conn[c].toX) /\ conn'[c].toY = conn[c].toY
          /\ conn'[c].yOpen = conn[c].yOpen /\ conn'[c].xOpen = conn[c].xOpen /\ conn'[c].broken = conn[c].broken
      BY <1>2, SentFacts, Zenon
    <3> QED
      BY <1>1, <2>1, <3>1, Zenon DEF Works
<1>3. CASE y'.pc \in {"native", "native-real"} /\ conn' = SentByY(c, "report")
  <2>1. /\ conn'[c].toX = IF conn[c].xOpen /\ ~conn[c].broken THEN <<"report">> ELSE <<>>
        /\ conn'[c].toY = <<>> /\ conn'[c].yOpen
        /\ conn'[c].xOpen = conn[c].xOpen /\ conn'[c].broken = conn[c].broken
    BY <1>2, <1>3, Zenon DEF Message
  <2>2. y'.conn = c /\ x'[c] = x[c]
    BY Zenon
  <2>3. AtNative(conn[c], x[c])'
    BY <1>1, <2>1, <2>2, SMTT(30) DEF AtNative
  <2> QED
    BY <1>1, <1>3, <2>1, <2>2, <2>3, Zenon DEF Talk, TalkOk, Talking
<1>4. CASE y'.pc = "params" /\ conn' = SentByY(c, "cloaked")
  <2>1. /\ conn'[c].toX = IF conn[c].xOpen /\ ~conn[c].broken THEN <<"cloaked">> ELSE <<>>
        /\ conn'[c].toY = <<>> /\ conn'[c].yOpen
        /\ conn'[c].xOpen = conn[c].xOpen /\ conn'[c].broken = conn[c].broken
    BY <1>2, <1>4, Zenon DEF Message
  <2>2. y'.conn = c /\ x'[c] = x[c]
    BY Zenon
  <2>3. AtParams(conn[c], x[c])'
    BY <1>1, <2>1, <2>2 DEF AtParams
  <2> QED
    BY <1>1, <1>4, <2>1, <2>2, <2>3, Zenon DEF Talk, TalkOk, Talking
<1> QED
  BY <1>3, <1>4, Zenon

\* After ready X is in Recv again; after failed it is about to fall back, or has.
LEMMA VerdictTalks ==
  ASSUME NetType, Talk, y.pc = "native", y.conn \in Conn, y'.conn = y.conn, UNCHANGED x, conn' = ReceivedByY(y.conn),
         \/ YHas(y.conn, "ready") /\ y'.pc = "handoff"
         \/ YHas(y.conn, "failed") /\ y'.pc = "params"
  PROVE  Talk'
<1> PICK c \in Conn : c = y.conn
  BY Zenon
<1>1. conn[c].yOpen /\ (x[c] = "closed" => ~conn[c].xOpen) /\ AtNative(conn[c], x[c])
  BY Zenon DEF Talk, TalkOk, Talking
<1>2. /\ conn'[c].toX = conn[c].toX /\ conn'[c].toY = Tail(conn[c].toY)
      /\ conn'[c].yOpen = conn[c].yOpen /\ conn'[c].xOpen = conn[c].xOpen /\ conn'[c].broken = conn[c].broken
  BY ReceivedFacts, Zenon
<1>3. y'.conn = c /\ x'[c] = x[c]
  BY Zenon
<1>4. CASE YHas(c, "ready") /\ y'.pc = "handoff"
  <2>1. conn[c].toY = <<"ready">> /\ conn[c].toX = <<>> /\ x[c] \in {"recv", "closed"}
    BY <1>1, <1>4, SMTT(30) DEF AtNative, YHas
  <2>2. Tail(<<"ready">>) = <<>>
    BY ShortQueues, Zenon
  <2>3. conn'[c].toY = <<>>
    BY <1>2, <2>1, <2>2, Zenon
  <2> QED
    BY <1>1, <1>2, <1>3, <1>4, <2>1, <2>3, Zenon DEF Talk, TalkOk, AtQuiet, Talking
<1>5. CASE YHas(c, "failed") /\ y'.pc = "params"
  <2>1. conn[c].toY \in {<<"failed">>, <<"failed", "params">>}
    BY <1>1, <1>5, SMTT(30) DEF AtNative, YHas
  <2>2. Tail(<<"failed">>) = <<>> /\ Tail(<<"failed", "params">>) = <<"params">>
    BY ShortQueues, Zenon
  <2>3. CASE conn[c].toY = <<"failed">>
    <3>1. conn'[c].toY = <<>>
      BY <1>2, <2>2, <2>3, Zenon
    <3>2. AtParams(conn[c], x[c])'
      BY <1>1, <1>2, <1>3, <2>3, <3>1, SMTT(30) DEF AtNative, AtParams
    <3> QED
      BY <1>1, <1>2, <1>3, <1>5, <3>2, Zenon DEF Talk, TalkOk, Talking
  <2>4. CASE conn[c].toY = <<"failed", "params">>
    <3>1. conn'[c].toY = <<"params">>
      BY <1>2, <2>2, <2>4, Zenon
    <3>2. AtParams(conn[c], x[c])'
      BY <1>1, <1>2, <1>3, <2>4, <3>1, SMTT(30) DEF AtNative, AtParams
    <3> QED
      BY <1>1, <1>2, <1>3, <1>5, <3>2, Zenon DEF Talk, TalkOk, Talking
  <2> QED
    BY <2>1, <2>3, <2>4, Zenon
<1> QED
  BY <1>4, <1>5, Zenon

\* Every step of an attempt.
LEMMA AttemptKeepsTalk == ASSUME YInv, NetType, Talk, Attempt  PROVE Talk'
<1>1. /\ y \in [pc : YPc, flow : {"run", "bg"}, conn : 0..MaxDial, hint : {"none", "cloaked"}, outer : 0..MaxDial]
      /\ y.pc \notin Resting \cup {"dial"} => y.conn \in Conn
  BY Zenon DEF YInv, YType, FlowOk
<1>2. Returned.pc \notin Talking
  BY Zenon DEF Returned, Supervising, Talking
<1>3. CASE y' = Returned
  BY <1>2, <1>3, SilentKeepsTalk, Zenon
<1>4. CASE DialX
  <2>1. CASE Fails({}, {})
    BY <1>3, <2>1, Zenon DEF Fails, RunFails, BackgroundFails
  <2>2. CASE ~Fails({}, {})
    BY <1>4, <2>2, DialTalks DEF DialX
  <2> QED
    BY <2>1, <2>2, Zenon
<1>5. CASE RecvXInfo
  <2>1. CASE Fails({}, {})
    BY <1>3, <2>1, Zenon DEF Fails, RunFails, BackgroundFails
  <2>2. CASE ~Fails({}, {})
    <3>1. /\ YHas(y.conn, "info") /\ conn' = ReceivedByY(y.conn) /\ UNCHANGED x /\ y.pc = "info"
          /\ y' = [y EXCEPT !.pc = IF y.hint = "cloaked" THEN "decide" ELSE "socket"]
      BY <1>5, <2>2, Zenon DEF RecvXInfo, Goto, At, YOnly, xVars
    <3>2. y'.pc \in {"decide", "socket"} /\ y'.conn = y.conn /\ y.conn \in Conn
      BY <1>1, <3>1, Zenon DEF Resting
    <3> QED
      BY <3>1, <3>2, InfoTalks, Zenon
  <2> QED
    BY <2>1, <2>2, Zenon
<1>6. CASE SendModeDecision \/ SendReport \/ SendReportAgain
  <2>1. UNCHANGED x /\ y.pc \in {"decide", "report", "report-real"} /\ y.conn \in Conn
    BY <1>1, <1>6, Zenon DEF SendModeDecision, SendReport, SendReportAgain, At, YOnly, xVars, Resting
  <2>2. \/ y' = Returned
        \/ conn' = SentByY(y.conn, "cloaked") /\ y' = [y EXCEPT !.pc = "params"]
        \/ conn' = SentByY(y.conn, "report") /\ \E pc \in {"native", "native-real"} : y' = [y EXCEPT !.pc = pc]
    BY <1>6, Zenon DEF SendModeDecision, SendReport, SendReportAgain, Goto, Fails, RunFails, BackgroundFails
  <2>3. \/ y' = Returned
        \/ conn' = SentByY(y.conn, "cloaked") /\ y'.pc = "params" /\ y'.conn = y.conn
        \/ conn' = SentByY(y.conn, "report") /\ y'.pc \in {"native", "native-real"} /\ y'.conn = y.conn
    BY <1>1, <2>2, Zenon
  <2> QED
    BY <1>3, <2>1, <2>3, SendTalks, Zenon DEF Talking
<1>7. CASE Characterize \/ PreparePassiveDevice \/ Handoff
  <2>1. UNCHANGED x /\ y.pc \in {"socket", "prepare", "handoff"}
    BY <1>7, Zenon DEF Characterize, PreparePassiveDevice, Handoff, At, YOnly, xVars
  <2>2. \/ y' = Returned
        \/ UNCHANGED conn /\ \E pc \in {"prepare", "decide", "report", "report-real"} : y' = [y EXCEPT !.pc = pc]
    BY <1>7, Zenon DEF Characterize, PreparePassiveDevice, Handoff, Goto, Fails, RunFails, BackgroundFails
  <2> QED
    BY <1>3, <2>1, <2>2, QuietKeepsTalk, Zenon DEF Talking
<1>8. CASE RecvVerdict
  <2>1. UNCHANGED x /\ y.pc = "native" /\ y.conn \in Conn
    BY <1>1, <1>8, Zenon DEF RecvVerdict, At, YOnly, xVars, Resting
  <2>2. \/ y' = Returned
        \/ y' = [y EXCEPT !.pc = "write"]
        \/ conn' = ReceivedByY(y.conn) /\ YHas(y.conn, "ready") /\ y' = [y EXCEPT !.pc = "handoff"]
        \/ conn' = ReceivedByY(y.conn) /\ YHas(y.conn, "failed") /\ y' = [y EXCEPT !.pc = "params"]
    BY <1>8, Zenon DEF RecvVerdict, NativeUp, Goto, Fails, RunFails, BackgroundFails
  <2>3. \/ y' = Returned
        \/ y'.pc = "write"
        \/ conn' = ReceivedByY(y.conn) /\ YHas(y.conn, "ready") /\ y'.pc = "handoff" /\ y'.conn = y.conn
        \/ conn' = ReceivedByY(y.conn) /\ YHas(y.conn, "failed") /\ y'.pc = "params" /\ y'.conn = y.conn
    BY <1>1, <2>2, Zenon
  <2>4. CASE y'.pc = "write"
    BY <2>4, SilentKeepsTalk, Zenon DEF Talking
  <2> QED
    BY <1>3, <2>1, <2>3, <2>4, VerdictTalks, Zenon
<1>9. CASE \/ waitForNativeReady \/ EndBackground \/ RecvCloakedParams \/ PollCloaked
           \/ WriteTemporary \/ FillTemporary \/ Rename
  <2>1. \/ y' = Returned
        \/ y'.pc \in {"supervise", "dial", "cloaked", "write", "fill", "rename"}
    BY <1>1, <1>9 DEF waitForNativeReady, EndBackground, RecvCloakedParams, PollCloaked, WriteTemporary, FillTemporary,
                      Rename, Return, NativeUp, RunFails, runY, Goto, Supervising
  <2> QED
    BY <1>3, <2>1, SilentKeepsTalk, Zenon DEF Talking
<1> QED
  BY <1>4, <1>5, <1>6, <1>7, <1>8, <1>9, Zenon DEF Attempt

-----------------------------------------------------------------------------
(* Y's connection: X's handler, breaks and handshakes                       *)

\* A return of handleXConn closes X's end and nothing else.
LEMMA XReturnFacts ==
  ASSUME NetType, NEW c \in Conn, XReturn(c)
  PROVE  /\ conn' \in [Conn -> Connection] /\ x' \in [Conn -> XPc] /\ x'[c] = "closed"
         /\ \A e \in Conn \ {c} : conn'[e] = conn[e] /\ x'[e] = x[e]
         /\ conn[c].yOpen => /\ conn'[c].toX = <<>> /\ conn'[c].toY = conn[c].toY
                             /\ conn'[c].yOpen /\ ~conn'[c].xOpen
<1>1. conn \in [Conn -> Connection] /\ conn[c] \in Connection /\ x \in [Conn -> XPc] /\ <<>> \in Seq(Message)
  BY DEF NetType
<1>2. /\ conn' = [conn EXCEPT ![c] = IF conn[c].yOpen THEN ClosedByX(conn[c]) ELSE Closed]
      /\ x' = [x EXCEPT ![c] = "closed"]
  BY Zenon DEF XReturn, XGoto
<1>3. ClosedByX(conn[c]) \in Connection /\ Closed \in Connection
  BY <1>1, Zenon DEF ClosedByX, Closed, Connection
<1>4. conn' \in [Conn -> Connection] /\ x' \in [Conn -> XPc] /\ x'[c] = "closed"
  BY <1>1, <1>2, <1>3, Zenon DEF XPc
<1>5. \A e \in Conn \ {c} : conn'[e] = conn[e] /\ x'[e] = x[e]
  BY <1>1, <1>2, Zenon
<1>6. conn[c].yOpen => conn'[c] = ClosedByX(conn[c])
  BY <1>1, <1>2, Zenon
<1> QED
  BY <1>4, <1>5, <1>6 DEF ClosedByX

\* Every step of a handler: types, and that it stays on its own connection.
LEMMA HandlerFacts ==
  ASSUME NetType, NEW c \in Conn, Handler(c)
  PROVE  /\ NetType' /\ UNCHANGED <<yVars, envVars>>
         /\ \A e \in Conn \ {c} : conn'[e] = conn[e] /\ x'[e] = x[e]
         /\ native'.shaken => native.shaken
<1>1. UNCHANGED <<yVars, envVars>>
  BY Zenon DEF Handler, Greet, XRecv, RemoveStalePeer, AddNativePeer, PollNative, RemoveExpiredPeer, SendNativeFailed,
         FallbackAddPeer, SendCloakedParams, XOnly
<1>2. native \in [endpoint : 0..MaxDial, shaken : BOOLEAN] /\ x \in [Conn -> XPc]
  BY Zenon DEF NetType
<1>3. native' \in [endpoint : 0..MaxDial, shaken : BOOLEAN] /\ (native'.shaken => native.shaken)
  <2>1. \/ native' = native \/ native' = NoPeer \/ native' = [native EXCEPT !.endpoint = c]
    BY Zenon DEF Handler, Greet, XRecv, RemoveStalePeer, AddNativePeer, PollNative, RemoveExpiredPeer, SendNativeFailed,
           FallbackAddPeer, SendCloakedParams
  <2>2. CASE native' = native
    BY <1>2, <2>2, Zenon
  <2>3. CASE native' = NoPeer
    BY <2>3, BoundsAssumption DEF NoPeer, NoSocket
  <2>4. CASE native' = [native EXCEPT !.endpoint = c]
    BY <1>2, <2>4 DEF Conn
  <2> QED
    BY <2>1, <2>2, <2>3, <2>4, Zenon
<1>4. \/ XReturn(c)
      \/ /\ \E pc \in XPc : x' = [x EXCEPT ![c] = pc]
         /\ \/ UNCHANGED conn
            \/ \E m \in Message : conn' = SentByX(c, m)
            \/ conn[c].toX # <<>> /\ conn' = ReceivedByX(c)
  BY Zenon DEF Handler, Greet, XRecv, RemoveStalePeer, AddNativePeer, PollNative, RemoveExpiredPeer, SendNativeFailed,
         FallbackAddPeer, SendCloakedParams, XGoto, XPc, Message, XHas
<1>5. /\ conn' \in [Conn -> Connection] /\ x' \in [Conn -> XPc]
      /\ \A e \in Conn \ {c} : conn'[e] = conn[e] /\ x'[e] = x[e]
  <2>1. CASE XReturn(c)
    BY <2>1, XReturnFacts, Zenon
  <2>2. CASE /\ \E pc \in XPc : x' = [x EXCEPT ![c] = pc]
             /\ \/ UNCHANGED conn
                \/ \E m \in Message : conn' = SentByX(c, m)
                \/ conn[c].toX # <<>> /\ conn' = ReceivedByX(c)
    <3>1. x' \in [Conn -> XPc] /\ \A e \in Conn \ {c} : x'[e] = x[e]
      BY <1>2, <2>2, Zenon
    <3>2. CASE UNCHANGED conn
      BY <3>1, <3>2, Zenon DEF NetType
    <3>3. ASSUME NEW m \in Message, conn' = SentByX(c, m)
          PROVE  conn' \in [Conn -> Connection] /\ \A e \in Conn \ {c} : conn'[e] = conn[e]
      <4>1. SentByX(c, m) \in [Conn -> Connection]
        BY SentFacts, Zenon
      <4>2. \A e \in Conn \ {c} : SentByX(c, m)[e] = conn[e]
        BY SentFacts, Zenon
      <4> QED
        BY <3>3, <4>1, <4>2, Zenon
    <3>4. CASE conn[c].toX # <<>> /\ conn' = ReceivedByX(c)
      BY <3>1, <3>4, ReceivedFacts, Zenon
    <3> QED
      BY <2>2, <3>1, <3>2, <3>3, <3>4, Zenon
  <2> QED
    BY <1>4, <2>1, <2>2, Zenon
<1>6. NetType'
  BY <1>1, <1>3, <1>5, Zenon DEF NetType, envVars
<1> QED
  BY <1>1, <1>3, <1>5, <1>6, Zenon

\* A step elsewhere, or one that only adds handshakes of the awaited device.
LEMMA OthersKeepTalk ==
  ASSUME Talk, UNCHANGED y, shook \subseteq shook',
         y.pc \in Talking => conn'[y.conn] = conn[y.conn] /\ x'[y.conn] = x[y.conn],
         y.pc \in {"native", "native-real"} /\ native'.shaken => native.shaken \/ Awaited \in shook'
  PROVE  Talk'
<1>1. Awaited' = Awaited
  BY DEF Awaited, OnConn
<1>2. AtNative(conn[y.conn], x[y.conn]) /\ y.pc \in {"native", "native-real"} => AtNative(conn[y.conn], x[y.conn])'
  BY <1>1, Zenon DEF AtNative, Talking
<1> QED
  BY <1>2, Zenon DEF Talk, TalkOk, AtInfo, AtQuiet, AtParams, Talking

\* What Y waits for, from where the handler is or from what it has to read.
LEMMA HandlerAt ==
  ASSUME NEW k, NEW h, y.pc \in Talking, TalkOk(k, h)
  PROVE  /\ h = "greet" => y.pc = "info" /\ k.toX = <<>> /\ k.toY = <<>>
         /\ k.toX # <<>> =>
              \/ y.pc \in {"native", "native-real"} /\ k.toX = <<"report">> /\ k.toY = <<>>
              \/ y.pc = "params" /\ k.toX = <<"cloaked">> /\ k.toY = <<>>
         /\ h \in {"remove", "add", "poll", "expire", "failed"} =>
              y.pc \in {"native", "native-real"} /\ AtNative(k, h) /\ k.toX = <<>> /\ k.toY = <<>>
         /\ h \in {"fallback", "silent", "params"} =>
              \/ y.pc \in {"native", "native-real"} /\ AtNative(k, h)
              \/ y.pc = "params" /\ AtParams(k, h)
<1>1. CASE y.pc = "info"
  BY <1>1, Zenon DEF TalkOk, AtInfo
<1>2. CASE y.pc \in Talking \ {"info", "native", "native-real", "params"}
  BY <1>2, Zenon DEF TalkOk, AtQuiet
<1>3. CASE y.pc \in {"native", "native-real"}
  BY <1>3, Zenon DEF TalkOk, AtNative
<1>4. CASE y.pc = "params"
  BY <1>4, Zenon DEF TalkOk, AtParams
<1> QED
  BY <1>1, <1>2, <1>3, <1>4, Zenon DEF Talking

\* The handler of Y's own connection: it answers each message once, and says ready only after the
\* device Y waits for has shaken hands.
LEMMA HandlerTalks ==
  ASSUME NetType, Talk, y.pc \in Talking, y.conn \in Conn, Handler(y.conn)
  PROVE  Talk'
<1> PICK c \in Conn : c = y.conn
  BY Zenon
<1>1. /\ TalkOk(conn[c], x[c]) /\ conn[c].yOpen
      /\ x[c] = "greet" => y.pc = "info" /\ conn[c].toX = <<>> /\ conn[c].toY = <<>>
      /\ conn[c].toX # <<>> =>
           \/ y.pc \in {"native", "native-real"} /\ conn[c].toX = <<"report">> /\ conn[c].toY = <<>>
           \/ y.pc = "params" /\ conn[c].toX = <<"cloaked">> /\ conn[c].toY = <<>>
      /\ x[c] \in {"remove", "add", "poll", "expire", "failed"} =>
           y.pc \in {"native", "native-real"} /\ AtNative(conn[c], x[c]) /\ conn[c].toX = <<>> /\ conn[c].toY = <<>>
      /\ x[c] \in {"fallback", "silent", "params"} =>
           \/ y.pc \in {"native", "native-real"} /\ AtNative(conn[c], x[c])
           \/ y.pc = "params" /\ AtParams(conn[c], x[c])
  <2>1. TalkOk(conn[c], x[c])
    BY Zenon DEF Talk
  <2>2. conn[c].yOpen
    BY <2>1, Zenon DEF TalkOk
  <2> QED
    BY <2>1, <2>2, HandlerAt, Zenon
<1>2. UNCHANGED <<y, shook>> /\ y'.conn = c /\ x \in [Conn -> XPc]
  BY HandlerFacts, Zenon DEF yVars, NetType
<1>3. Awaited' = Awaited
  BY <1>2, Zenon DEF Awaited, OnConn
<1>4. \A pc : XGoto(c, pc) => x'[c] = pc
  BY <1>2, Zenon DEF XGoto
<1>5. ASSUME NEW m \in Message, conn' = SentByX(c, m)
      PROVE  /\ conn'[c].toX = conn[c].toX /\ conn'[c].xOpen = conn[c].xOpen /\ conn'[c].broken = conn[c].broken
             /\ conn'[c].yOpen
             /\ conn'[c].toY = IF conn[c].xOpen /\ ~conn[c].broken THEN Append(conn[c].toY, m) ELSE conn[c].toY
  <2>1. /\ conn'[c].toY = (IF Works(c) THEN Append(conn[c].toY, m) ELSE conn[c].toY) /\ conn'[c].toX = conn[c].toX
        /\ conn'[c].yOpen = conn[c].yOpen /\ conn'[c].xOpen = conn[c].xOpen /\ conn'[c].broken = conn[c].broken
    BY <1>5, SentFacts, Zenon
  <2> QED
    BY <1>1, <2>1, Zenon DEF Works
<1>6. conn' = ReceivedByX(c) =>
        /\ conn'[c].toY = conn[c].toY /\ conn'[c].toX = Tail(conn[c].toX)
        /\ conn'[c].yOpen = conn[c].yOpen /\ conn'[c].xOpen = conn[c].xOpen /\ conn'[c].broken = conn[c].broken
  BY ReceivedFacts, ZenonT(60)
<1>7. CASE XReturn(c)
  <2>1. /\ x'[c] = "closed" /\ conn'[c].toX = <<>> /\ conn'[c].toY = conn[c].toY
        /\ conn'[c].yOpen /\ ~conn'[c].xOpen
    BY <1>1, <1>7, XReturnFacts, Zenon
  <2>2. y.pc \in {"native", "native-real"} => AtNative(conn[y.conn], x[y.conn])'
    <3>1. y.pc \in {"native", "native-real"} => AtNative(conn[c], x[c])
      BY <1>1 DEF TalkOk
    <3> QED
      BY <1>2, <1>3, <2>1, <3>1, Zenon DEF AtNative
  <2> QED
    BY <1>1, <1>2, <2>1, <2>2, Zenon DEF Talk, TalkOk, AtInfo, AtQuiet, AtParams
<1>8. CASE conn' = SentByX(c, "info") /\ XGoto(c, "recv") /\ x[c] = "greet"
  <2>1. y.pc = "info" /\ conn[c].toX = <<>> /\ conn[c].toY = <<>>
    BY <1>1, <1>8, Zenon
  <2>2. x'[c] = "recv" /\ Append(<<>>, "info") = <<"info">>
    BY <1>4, <1>8, ShortQueues, Zenon
  <2>3. /\ conn'[c].toX = <<>> /\ conn'[c].xOpen = conn[c].xOpen /\ conn'[c].broken = conn[c].broken /\ conn'[c].yOpen
        /\ conn'[c].toY = IF conn[c].xOpen /\ ~conn[c].broken THEN <<"info">> ELSE <<>>
    BY <1>5, <1>8, <2>1, <2>2, ZenonT(60) DEF Message
  <2> QED
    BY <1>2, <2>1, <2>2, <2>3, Zenon DEF Talk, TalkOk, AtInfo, Talking
<1>9. CASE XHas(c, "report") /\ conn' = ReceivedByX(c) /\ XGoto(c, "remove")
  <2>1. y.pc \in {"native", "native-real"} /\ conn[c].toX = <<"report">> /\ conn[c].toY = <<>>
    <3>1. conn[c].toX # <<>> /\ conn[c].toX # <<"cloaked">>
      BY <1>9, ShortQueues, Zenon DEF XHas
    <3> QED
      BY <1>1, <3>1, Zenon
  <2>2. x'[c] = "remove" /\ Tail(<<"report">>) = <<>>
    BY <1>4, <1>9, ShortQueues, Zenon
  <2>3. conn'[c].toX = <<>> /\ conn'[c].toY = <<>> /\ conn'[c].yOpen
    BY <1>1, <1>6, <1>9, <2>1, <2>2, ZenonT(60)
  <2>4. AtNative(conn[c], x[c])'
    BY <2>2, <2>3 DEF AtNative
  <2> QED
    BY <1>2, <2>1, <2>2, <2>3, <2>4, Zenon DEF Talk, TalkOk, Talking
<1>10. CASE XHas(c, "cloaked") /\ conn' = ReceivedByX(c) /\ XGoto(c, "fallback")
  <2>1. y.pc = "params" /\ conn[c].toX = <<"cloaked">> /\ conn[c].toY = <<>>
    <3>1. conn[c].toX # <<>> /\ conn[c].toX # <<"report">>
      BY <1>10, ShortQueues, Zenon DEF XHas
    <3> QED
      BY <1>1, <3>1, Zenon
  <2>2. x'[c] = "fallback" /\ Tail(<<"cloaked">>) = <<>>
    BY <1>4, <1>10, ShortQueues, Zenon
  <2>3. conn'[c].toX = <<>> /\ conn'[c].toY = <<>> /\ conn'[c].yOpen
    BY <1>1, <1>6, <1>10, <2>1, <2>2, Zenon
  <2>4. AtParams(conn[c], x[c])'
    BY <2>2, <2>3, Zenon DEF AtParams
  <2> QED
    BY <1>2, <2>1, <2>2, <2>3, <2>4, Zenon DEF Talk, TalkOk, Talking
<1>11. CASE \/ RemoveStalePeer(c) \/ AddNativePeer(c) \/ RemoveExpiredPeer(c)
            \/ x[c] = "poll" /\ XGoto(c, "expire") /\ UNCHANGED conn
  <2>1. x[c] \in {"remove", "add", "poll", "expire"} /\ UNCHANGED conn
    BY <1>11, Zenon DEF RemoveStalePeer, AddNativePeer, RemoveExpiredPeer
  <2>2. y.pc \in {"native", "native-real"} /\ AtNative(conn[c], x[c])
    BY <1>1, <2>1, Zenon
  <2>3. \/ x'[c] = "add" /\ native' = NoPeer
        \/ x'[c] = "poll" /\ x[c] = "add" /\ native' = [native EXCEPT !.endpoint = c]
        \/ x'[c] \in {"failed", "expire"}
    BY <1>4, <1>11, Zenon DEF RemoveStalePeer, AddNativePeer, RemoveExpiredPeer
  <2>4. x'[c] \in {"add", "poll"} /\ native'.shaken => Awaited \in shook
    BY <2>2, <2>3 DEF NoPeer, AtNative, NetType
  <2>5. AtNative(conn[c], x[c])'
    BY <1>2, <1>3, <2>1, <2>2, <2>3, <2>4, Zenon DEF AtNative
  <2> QED
    BY <1>1, <1>2, <2>1, <2>2, <2>3, <2>5, Zenon DEF Talk, TalkOk, Talking
<1>12. CASE x[c] = "poll" /\ native.shaken /\ conn' = SentByX(c, "ready") /\ XGoto(c, "recv")
  <2>1. /\ y.pc \in {"native", "native-real"} /\ conn[c].toX = <<>> /\ conn[c].toY = <<>>
        /\ Awaited \in shook
    BY <1>1, <1>12, Zenon DEF AtNative
  <2>2. x'[c] = "recv" /\ Append(<<>>, "ready") = <<"ready">>
    BY <1>4, <1>12, ShortQueues, Zenon
  <2>3. /\ conn'[c].toX = <<>> /\ conn'[c].xOpen = conn[c].xOpen /\ conn'[c].broken = conn[c].broken /\ conn'[c].yOpen
        /\ conn'[c].toY = IF conn[c].xOpen /\ ~conn[c].broken THEN <<"ready">> ELSE <<>>
    BY <1>5, <1>12, <2>1, <2>2, ZenonT(60) DEF Message
  <2>4. AtNative(conn[c], x[c])'
    BY <1>2, <1>3, <2>1, <2>2, <2>3, Zenon DEF AtNative
  <2> QED
    BY <1>2, <2>1, <2>2, <2>3, <2>4, Zenon DEF Talk, TalkOk, Talking
<1>13. CASE x[c] = "failed" /\ conn' = SentByX(c, "failed") /\ XGoto(c, "fallback")
  <2>1. y.pc \in {"native", "native-real"} /\ conn[c].toX = <<>> /\ conn[c].toY = <<>>
    BY <1>1, <1>13, Zenon
  <2>2. x'[c] = "fallback" /\ Append(<<>>, "failed") = <<"failed">>
    BY <1>4, <1>13, ShortQueues, Zenon
  <2>3. /\ conn'[c].toX = <<>> /\ conn'[c].xOpen = conn[c].xOpen /\ conn'[c].broken = conn[c].broken /\ conn'[c].yOpen
        /\ conn'[c].toY = IF conn[c].xOpen /\ ~conn[c].broken THEN <<"failed">> ELSE <<>>
    BY <1>5, <1>13, <2>1, <2>2, SMTT(30) DEF Message
  <2>4. AtNative(conn[c], x[c])'
    BY <2>2, <2>3 DEF AtNative
  <2> QED
    BY <1>2, <2>1, <2>2, <2>3, <2>4, Zenon DEF Talk, TalkOk, Talking
<1>14. CASE FallbackAddPeer(c)
  <2>1. x[c] = "fallback" /\ x'[c] \in {"silent", "params"} /\ UNCHANGED conn
    BY <1>4, <1>14, Zenon DEF FallbackAddPeer
  <2>2. \/ y.pc \in {"native", "native-real"} /\ AtNative(conn[c], x[c])
        \/ y.pc = "params" /\ AtParams(conn[c], x[c])
    BY <1>1, <2>1, Zenon
  <2>3. y.pc \in {"native", "native-real"} => AtNative(conn[c], x[c])'
    BY <1>2, <1>3, <2>1, <2>2, Zenon DEF AtNative
  <2>4. y.pc = "params" => AtParams(conn[c], x[c])'
    BY <2>1, <2>2, Zenon DEF AtParams
  <2> QED
    BY <1>1, <1>2, <2>1, <2>2, <2>3, <2>4, Zenon DEF Talk, TalkOk, Talking
<1>15. CASE SendCloakedParams(c)
  <2>1. x[c] = "params" /\ x'[c] = "recv"
    BY <1>4, <1>15, Zenon DEF SendCloakedParams
  <2>2. \/ y.pc \in {"native", "native-real"} /\ AtNative(conn[c], x[c])
        \/ y.pc = "params" /\ AtParams(conn[c], x[c])
    BY <1>1, <2>1, Zenon
  <2>3. Append(<<"failed">>, "params") = <<"failed", "params">> /\ Append(<<>>, "params") = <<"params">>
    BY ShortQueues, Zenon
  <2>4. /\ conn'[c].toX = conn[c].toX /\ conn'[c].xOpen = conn[c].xOpen /\ conn'[c].broken = conn[c].broken
        /\ conn'[c].yOpen
        /\ conn'[c].toY = IF conn[c].xOpen /\ ~conn[c].broken THEN Append(conn[c].toY, "params") ELSE conn[c].toY
    <3>1. CASE conn' = SentByX(c, "params")
      <4>1. "params" \in Message
        BY Zenon DEF Message
      <4> QED
        BY <1>5, <3>1, <4>1, Zenon
    <3>2. CASE ~Works(c) /\ UNCHANGED conn
      BY <1>1, <3>2, Zenon DEF Works
    <3> QED
      BY <1>15, <3>1, <3>2, Zenon DEF SendCloakedParams
  <2>5. CASE y.pc \in {"native", "native-real"}
    <3>1. /\ conn[c].toX = <<>>
          /\ conn'[c].toY = (IF conn[c].xOpen /\ ~conn[c].broken THEN <<"failed", "params">> ELSE conn[c].toY)
          /\ conn[c].toY \in {<<>>, <<"failed">>}
      BY <2>1, <2>2, <2>3, <2>4, <2>5, Zenon DEF AtNative
    <3>2. conn'[c].toX = <<>> /\ conn'[c].toY \in {<<>>, <<"failed">>, <<"failed", "params">>}
      BY <2>4, <3>1, Zenon
    <3>3. conn'[c].xOpen /\ ~conn'[c].broken => conn'[c].toY = <<"failed", "params">>
      BY <2>4, <3>1, Zenon
    <3>4. <<"failed", "params">> # <<"ready">> /\ <<"failed">> # <<"ready">> /\ <<>> # <<"ready">>
      BY Zenon
    <3>5. conn'[c].toY # <<"ready">>
      BY <3>2, <3>4, Zenon
    <3>6. AtNative(conn[c], x[c])'
      BY <2>1, <3>2, <3>3, <3>5, Zenon DEF AtNative
    <3> QED
      BY <1>2, <2>1, <2>4, <2>5, <3>6, Zenon DEF Talk, TalkOk, Talking
  <2>6. CASE y.pc = "params"
    <3>1. /\ conn[c].toX = <<>> /\ conn[c].toY = <<>>
          /\ conn'[c].toY = (IF conn[c].xOpen /\ ~conn[c].broken THEN <<"params">> ELSE <<>>)
      BY <2>1, <2>2, <2>3, <2>4, <2>6, Zenon DEF AtParams
    <3>2. AtParams(conn[c], x[c])'
      BY <2>1, <2>4, <3>1, Zenon DEF AtParams
    <3> QED
      BY <1>2, <2>1, <2>4, <2>6, <3>2, Zenon DEF Talk, TalkOk, Talking
  <2> QED
    BY <2>2, <2>5, <2>6, Zenon
<1> QED
  <2>1. Handler(c)
    BY Zenon
  <2> QED
    BY <2>1, <1>7, <1>8, <1>9, <1>10, <1>11, <1>12, <1>13, <1>14, <1>15, Zenon
       DEF Handler, Greet, XRecv, PollNative, SendNativeFailed

\* A connection that breaks.
LEMMA BreakKeeps ==
  ASSUME YInv, NetType, Talk, NEW c \in Conn, Break(c)
  PROVE  YInv' /\ NetType' /\ Talk'
<1>1. /\ UNCHANGED <<yVars, xVars, background, life>> /\ conn' = [conn EXCEPT ![c].broken = TRUE]
      /\ used' = [used EXCEPT !.fault = @ + 1]
  BY Zenon DEF Break
<1>2. YInv'
  BY <1>1, OthersKeepY, Zenon DEF yVars, YInv, YType
<1>3. conn \in [Conn -> Connection] /\ used \in [dial : 0..MaxDial, fault : Nat]
  BY Zenon DEF NetType
<1>4. /\ conn' \in [Conn -> Connection] /\ \A e \in Conn \ {c} : conn'[e] = conn[e]
      /\ conn'[c].toX = conn[c].toX /\ conn'[c].toY = conn[c].toY
      /\ conn'[c].yOpen = conn[c].yOpen /\ conn'[c].xOpen = conn[c].xOpen /\ conn'[c].broken = TRUE
  BY <1>1, <1>3, Zenon DEF Connection
<1>5. used' \in [dial : 0..MaxDial, fault : Nat]
  BY <1>1, <1>3
<1>6. NetType'
  BY <1>1, <1>4, <1>5, Zenon DEF NetType, xVars
<1>7. y.pc \in Talking => y.conn \in Conn
  BY Zenon DEF YInv, FlowOk, Talking, Resting
<1>8. CASE y.pc \in Talking /\ y.conn = c
  <2>1. /\ conn[c].yOpen /\ (x[c] = "closed" => ~conn[c].xOpen)
        /\ y.pc = "info" => AtInfo(conn[c], x[c])
        /\ y.pc \in Talking \ {"info", "native", "native-real", "params"} => AtQuiet(conn[c], x[c])
        /\ y.pc \in {"native", "native-real"} => AtNative(conn[c], x[c])
        /\ y.pc = "params" => AtParams(conn[c], x[c])
    BY <1>8, Zenon DEF Talk, TalkOk
  <2>2. UNCHANGED <<y, x, native, shook>> /\ Awaited' = Awaited
    BY <1>1, Zenon DEF yVars, xVars, Awaited, OnConn
  <2>3. y.pc \in {"native", "native-real"} => AtNative(conn[c], x[c])'
    BY <1>4, <2>1, <2>2, Zenon DEF AtNative
  <2>4. /\ y.pc = "info" => AtInfo(conn[c], x[c])'
        /\ y.pc = "params" => AtParams(conn[c], x[c])'
        /\ y.pc \in Talking \ {"info", "native", "native-real", "params"} => AtQuiet(conn[c], x[c])'
    BY <1>4, <2>1, <2>2, Zenon DEF AtInfo, AtParams, AtQuiet
  <2>5. conn'[c].yOpen /\ (x'[c] = "closed" => ~conn'[c].xOpen) /\ y'.conn = c /\ y'.pc = y.pc
    BY <1>4, <1>8, <2>1, <2>2, Zenon
  <2> QED
    BY <1>2, <1>6, <2>3, <2>4, <2>5, Zenon DEF Talk, TalkOk
<1>9. CASE ~(y.pc \in Talking /\ y.conn = c)
  <2>1. y.pc \in Talking => conn'[y.conn] = conn[y.conn] /\ x'[y.conn] = x[y.conn]
    BY <1>1, <1>4, <1>7, <1>9, Zenon DEF xVars
  <2>2. UNCHANGED y /\ shook \subseteq shook' /\ (native'.shaken => native.shaken)
    BY <1>1, Zenon DEF yVars, xVars
  <2> QED
    BY <1>2, <1>6, <2>1, <2>2, OthersKeepTalk, Zenon
<1> QED
  BY <1>8, <1>9, Zenon

\* A handshake.  While Y waits for a verdict, the only device of native mode X can reach at its
\* peer's endpoint is the one Y waits for.
LEMMA HandshakeKeeps ==
  ASSUME YInv, NetType, Talk, NEW d \in devices, NativeHandshake(d) \/ CloakedHandshake(d)
  PROVE  YInv' /\ NetType' /\ Talk'
<1>1. /\ UNCHANGED <<y, session, devices, sockets, active, saved, envVars, conn, x>> /\ shook' = shook \cup {d}
      /\ d.kind # "cloaked" \/ UNCHANGED native
      /\ native' = native \/ native' = [native EXCEPT !.shaken = TRUE]
  BY Zenon DEF NativeHandshake, CloakedHandshake, xVars
<1>2. YInv'
  BY <1>1, OthersKeepY, Zenon DEF envVars, YInv, YType
<1>3. NetType'
  BY <1>1, Zenon DEF NetType, envVars
<1>4. y.pc \in {"native", "native-real"} /\ d.kind # "cloaked" => d = Awaited
  <2>1. YType /\ FlowOk /\ StateOk /\ NativeOnly
    BY Zenon DEF YInv
  <2>2. y.pc \in {"native", "native-real"} => session.state # "connected-native" /\ (y.pc = "native-real" => y.flow = "bg")
    BY <2>1, Zenon DEF YType, FlowOk, StateOk, BeforeDevice, Saving
  <2> QED
    BY <2>1, <2>2, Zenon DEF NativeOnly, Awaited
<1>5. Talk'
  BY <1>1, <1>4, OthersKeepTalk, Zenon
<1> QED
  BY <1>2, <1>3, <1>5, Zenon

-----------------------------------------------------------------------------
(* The invariant and what follows from it                                   *)

\* The start state.
LEMMA OrchInit == Init => OrchInv
<1> SUFFICES ASSUME Init  PROVE OrchInv
  BY Zenon
<1>1. YType
  BY BoundsAssumption DEF Init, YType, InitY, InitSession, YPc, State, NoSocket
<1>2. FlowOk /\ StateOk /\ CarrierOk /\ AttemptOk /\ NativeOnly /\ OneAtATime
  BY Zenon DEF Init, FlowOk, StateOk, CarrierOk, AttemptOk, NativeOnly, OneAtATime, Up, Connected, InitY, InitSession,
         Resting, BeforeDevice, Saving
<1>3. conn \in [Conn -> Connection] /\ x \in [Conn -> XPc]
  BY DEF Init, Closed, Connection, XPc
<1>4. native \in [endpoint : 0..MaxDial, shaken : BOOLEAN] /\ used \in [dial : 0..MaxDial, fault : Nat]
  BY BoundsAssumption DEF Init, NoPeer, NoSocket
<1>5. SavedIsWhole /\ Talk
  BY Zenon DEF Init, SavedIsWhole, Talk, Talking, InitY
<1> QED
  BY <1>1, <1>2, <1>3, <1>4, <1>5, Zenon DEF OrchInv, YInv, NetType

\* Every step.
LEMMA OrchNext == OrchInv /\ [Next]_vars => OrchInv'
<1> SUFFICES ASSUME OrchInv, [Next]_vars  PROVE OrchInv'
  BY Zenon
<1>1. YInv /\ NetType /\ SavedIsWhole /\ Talk
  BY Zenon DEF OrchInv
<1>2. SavedIsWhole'
  <2>1. UNCHANGED saved \/ saved' = LastMode
    BY Zenon DEF Next, vars, yVars, Start, Attempt, StartReturns, Reconnect, Retry, attemptBackgroundNative, ContextDone,
           StopCancels, StopCloses, Crash, Handler, Greet, XRecv, RemoveStalePeer, AddNativePeer, PollNative,
           RemoveExpiredPeer, SendNativeFailed, FallbackAddPeer, SendCloakedParams, XOnly, Break, NativeHandshake,
           CloakedHandshake, DialX, RecvXInfo, SendModeDecision, Characterize, PreparePassiveDevice, SendReport,
           RecvVerdict, Handoff, SendReportAgain, waitForNativeReady, EndBackground, RecvCloakedParams, PollCloaked,
           WriteTemporary, FillTemporary, Rename, Fails, RunFails, BackgroundFails
  <2> QED
    BY <1>1, <2>1, Zenon DEF SavedIsWhole, LastMode
<1>3. CASE Attempt
  <2>1. YInv'
    BY Zenon, <1>1, <1>3, ConnectKeeps, SendModeDecisionKeeps, CharacterizeKeeps, PreparePassiveDeviceKeeps, ReportKeeps,
       RecvVerdictKeeps, HandoffKeeps, WaitForNativeReadyKeeps, EndBackgroundKeeps, RecvCloakedParamsKeeps,
       PollCloakedKeeps, SaveKeeps DEF Attempt
  <2> QED
    BY <1>1, <1>2, <1>3, <2>1, AttemptKeepsNet, AttemptKeepsTalk, Zenon DEF OrchInv
<1>4. CASE Start \/ Retry \/ Reconnect \/ attemptBackgroundNative \/ ContextDone \/ StartReturns \/ StopCancels \/ StopCloses
  <2>1. YInv'
    BY <1>1, <1>4, StartKeeps, ReconnectKeeps, SuperviseKeeps, StopClosesKeeps, Zenon
  <2>2. UNCHANGED <<conn, x, native, used>>
    BY <1>4, Zenon DEF Start, Retry, Reconnect, attemptBackgroundNative, ContextDone, StartReturns, StopCancels, StopCloses,
                YOnly, xVars, envVars
  <2>3. NetType'
    BY <1>1, <2>2, Zenon DEF NetType
  <2>4. Talk'
    <3>1. CASE UNCHANGED <<y, shook>>
      BY <1>1, <2>2, <3>1, OthersKeepTalk, Zenon
    <3>2. CASE y'.pc \in {"dial", "done"}
      BY <3>2, SilentKeepsTalk, Zenon DEF Talking
    <3>3. CASE StopCloses
      <4>1. UNCHANGED y /\ y.pc = "done"
        BY <3>3, Zenon DEF StopCloses, At
      <4> QED
        BY <4>1, SilentKeepsTalk, Zenon DEF Talking
    <3>4. CASE ContextDone
      <4>1. y' = [y EXCEPT !.pc = "done"]
        BY <3>4, Zenon DEF ContextDone, Goto
      <4> QED
        BY <1>1, <3>2, <4>1, Zenon DEF YInv, YType
    <3>5. CASE Start \/ Retry \/ Reconnect \/ attemptBackgroundNative
      BY <3>2, <3>5 DEF Start, Retry, Reconnect, attemptBackgroundNative, runY
    <3>6. CASE StartReturns \/ StopCancels
      BY <3>1, <3>6, Zenon DEF StartReturns, StopCancels, yVars
    <3> QED
      BY <1>4, <3>3, <3>4, <3>5, <3>6, Zenon
  <2> QED
    BY <1>2, <2>1, <2>3, <2>4, Zenon DEF OrchInv
<1>5. CASE Crash
  <2>1. conn' = Hangup(Conn) /\ UNCHANGED <<x, native>> /\ used' = [used EXCEPT !.fault = @ + 1] /\ y' = InitY
    BY <1>5, Zenon DEF Crash, xVars
  <2>2. used' \in [dial : 0..MaxDial, fault : Nat]
    BY <1>1, <2>1 DEF NetType
  <2>3. NetType'
    BY <1>1, <2>1, <2>2, YKeepsNet, Zenon
  <2>4. Talk'
    BY <2>1, SilentKeepsTalk, Zenon DEF InitY, Talking
  <2> QED
    BY <1>1, <1>2, <1>5, <2>3, <2>4, CrashKeeps, Zenon DEF OrchInv
<1>6. ASSUME NEW c \in Conn, Handler(c)  PROVE OrchInv'
  <2>1. /\ NetType' /\ UNCHANGED <<yVars, envVars>> /\ (native'.shaken => native.shaken)
        /\ \A e \in Conn \ {c} : conn'[e] = conn[e] /\ x'[e] = x[e]
    BY <1>1, <1>6, HandlerFacts, Zenon
  <2>2. UNCHANGED <<y, session, devices, shook, sockets, active, background, life>>
    BY <2>1, Zenon DEF yVars, envVars
  <2>3. YInv'
    BY <1>1, <2>2, OthersKeepY, Zenon DEF YInv, YType
  <2>4. y.pc \in Talking => y.conn \in Conn
    BY <1>1, Zenon DEF YInv, FlowOk, Talking, Resting
  <2>5. Talk'
    <3>1. CASE y.pc \in Talking /\ y.conn = c
      BY <1>1, <1>6, <3>1, HandlerTalks, Zenon
    <3>2. CASE ~(y.pc \in Talking /\ y.conn = c)
      BY <1>1, <2>1, <2>2, <2>4, <3>2, OthersKeepTalk, Zenon
    <3> QED
      BY <3>1, <3>2, Zenon
  <2> QED
    BY <1>2, <2>1, <2>3, <2>5, Zenon DEF OrchInv
<1>7. ASSUME NEW c \in Conn, Break(c)  PROVE OrchInv'
  BY <1>1, <1>2, <1>7, BreakKeeps, Zenon DEF OrchInv
<1>8. ASSUME NEW d \in devices, NativeHandshake(d) \/ CloakedHandshake(d)  PROVE OrchInv'
  BY <1>1, <1>2, <1>8, HandshakeKeeps, Zenon DEF OrchInv
<1>9. CASE UNCHANGED vars
  <2>1. UNCHANGED <<y, session, devices, shook, sockets, active, background, life, conn, x, native, used>>
    BY <1>9, Zenon DEF vars, yVars, xVars, envVars
  <2>2. YInv'
    BY <1>1, <2>1, OthersKeepY, Zenon DEF YInv, YType
  <2>3. NetType'
    BY <1>1, <2>1, Zenon DEF NetType
  <2>4. Talk'
    BY <1>1, <2>1, OthersKeepTalk, Zenon
  <2> QED
    BY <1>2, <2>2, <2>3, <2>4, Zenon DEF OrchInv
<1> QED
  BY <1>3, <1>4, <1>5, <1>6, <1>7, <1>8, <1>9, Zenon DEF Next

\* The invariant holds of every run of the orchestrator.
LEMMA OrchInvariant == Spec => []OrchInv
BY OrchInit, OrchNext, PTL DEF Spec

\* Whenever superviseY is in charge the session is in a state it acts upon: connected over an open
\* device (and, in native mode, an open socket), or failed and due for a retry.  No return path of
\* runY, runYCloaked or a background attempt leaves it half-way, whatever breaks.
THEOREM SupervisedIsSettled == Spec => []SettledWhenSupervised
<1>1. OrchInv => SettledWhenSupervised
  <2> SUFFICES ASSUME OrchInv, y.pc = "supervise"
               PROVE  \/ session.state = "failed"
                      \/ session.state = "connected-native" /\ session.dev \in devices /\ session.extraCloser \in sockets
                      \/ session.state = "connected-cloaked" /\ session.dev \in devices
    BY Zenon DEF SettledWhenSupervised, At
  <2>1. YType /\ FlowOk /\ StateOk /\ CarrierOk
    BY Zenon DEF OrchInv, YInv
  <2>2. session.state \in {"failed", "connected-native", "connected-cloaked"} /\ life # "stopped"
    BY <2>1, Zenon DEF StateOk, FlowOk
  <2> QED
    BY <2>1, <2>2, Zenon DEF CarrierOk, Up, Connected, YType
<1> QED
  BY <1>1, OrchInvariant, PTL

\* A native session has the shared TUN; without background attempts every session has, and at most
\* one device is ever open on it.
THEOREM TunHasOneDevice == Spec => []OneDeviceOnTun
<1>1. OrchInv => OneDeviceOnTun
  <2> SUFFICES ASSUME OrchInv  PROVE OneDeviceOnTun
    BY Zenon
  <2>1. CarrierOk /\ OneAtATime
    BY Zenon DEF OrchInv, YInv
  <2> QED
    BY <2>1, Zenon DEF OneDeviceOnTun, CarrierOk, OneAtATime
<1> QED
  BY <1>1, OrchInvariant, PTL

\* A kill at any point of saveSession leaves the file as it was or whole.
THEOREM SaveIsAtomic == Spec => []SavedIsWhole
BY OrchInvariant, PTL DEF OrchInv

\* Y and the handler of its connection never both wait in Recv with nothing on the way, except
\* after X gave up on cloaked mode.
THEOREM RecvNeverDeadlocks == Spec => []NoMutualWait
<1>1. OrchInv => NoMutualWait
  <2> SUFFICES ASSUME OrchInv, y.pc \in {"info", "native", "native-real", "params"}, Works(y.conn),
                      conn[y.conn].toY = <<>>, conn[y.conn].toX = <<>>, x[y.conn] \in {"recv", "silent"}
               PROVE  XGaveUp
    BY Zenon DEF NoMutualWait
  <2>1. y.conn \in Conn
    BY Zenon DEF OrchInv, YInv, FlowOk, Resting
  <2>2. TalkOk(conn[y.conn], x[y.conn])
    BY Zenon DEF OrchInv, Talk, Talking
  <2>3. <<>> # <<"info">> /\ <<>> # <<"ready">> /\ <<>> # <<"params">> /\ <<>> # <<"failed", "params">>
    BY Zenon
  <2>4. x[y.conn] # "recv"
    BY <2>2, <2>3, Zenon DEF TalkOk, AtInfo, AtNative, AtParams, Works
  <2> QED
    BY <2>1, <2>4, Zenon DEF XGaveUp
<1> QED
  BY <1>1, OrchInvariant, PTL

-----------------------------------------------------------------------------
(* The orchestrator implements Tunnel                                       *)

Mode == IF Up THEN modeForState(session.state) ELSE "none"
Carrier == IF Up THEN session.dev ELSE NoDevice

\* Only a handshake adds to the devices that shook hands, and it leaves the session alone.
LEMMA ProvenSteps ==
  ASSUME OrchInv, [Next]_vars
  PROVE  \/ shook' \subseteq shook
         \/ (\E d \in devices : shook' = shook \cup {d}) /\ UNCHANGED <<session, life>>
<1>1. CASE Attempt
  BY <1>1, Zenon DEF Attempt, DialX, RecvXInfo, SendModeDecision, Characterize, PreparePassiveDevice, SendReport, RecvVerdict,
              Handoff, SendReportAgain, waitForNativeReady, EndBackground, RecvCloakedParams, PollCloaked, NativeUp,
              WriteTemporary, FillTemporary, Rename, Fails, RunFails, BackgroundFails, CloseDevices, AttachAndClose, attach
<1>2. CASE Start \/ Retry \/ Reconnect \/ attemptBackgroundNative \/ ContextDone \/ StartReturns \/ StopCancels \/ StopCloses \/ Crash
  BY <1>2, Zenon DEF Start, Retry, Reconnect, attemptBackgroundNative, ContextDone, StartReturns, StopCancels, StopCloses, Crash,
              closeDevice, CloseDevices, yVars
<1>3. ASSUME NEW c \in Conn, Handler(c) \/ Break(c)  PROVE UNCHANGED shook
  BY <1>3, Zenon DEF Handler, Greet, XRecv, RemoveStalePeer, AddNativePeer, PollNative, RemoveExpiredPeer, SendNativeFailed,
              FallbackAddPeer, SendCloakedParams, XOnly, Break, yVars
<1>4. ASSUME NEW d \in devices, NativeHandshake(d) \/ CloakedHandshake(d)
      PROVE  shook' = shook \cup {d} /\ UNCHANGED <<session, life>>
  BY <1>4, Zenon DEF NativeHandshake, CloakedHandshake, envVars
<1>5. CASE UNCHANGED vars
  BY <1>5, Zenon DEF vars, yVars
<1> QED
  BY <1>1, <1>2, <1>3, <1>4, <1>5, Zenon DEF Next

\* A session that is up and stays up is the same session, or moves from cloaked to native.
LEMMA SessionSteps ==
  ASSUME OrchInv, [Next]_vars, Up, Up'
  PROVE  \/ UNCHANGED session
         \/ session.state = "connected-cloaked" /\ session'.state = "connected-native"
<1>1. YType /\ FlowOk /\ StateOk
  BY Zenon DEF OrchInv, YInv
<1>2. Connected(session) /\ Connected(session') /\ life' # "stopped"
  BY Zenon DEF Up, Connected
<1>3. ASSUME NEW s, ~(s \in {"connected-native", "connected-cloaked"})  PROVE session' # setState(session, s)
  BY <1>1, <1>2, <1>3, Zenon DEF Connected, setState, YType
<1>4. ASSUME NEW ds, NEW socks  PROVE ~RunFails(ds, socks)
  BY <1>3, Zenon DEF RunFails
<1>5. CASE Attempt
  <2>1. CASE DialX \/ RecvXInfo \/ SendModeDecision \/ SendReport \/ Handoff \/ SendReportAgain \/ EndBackground
             \/ WriteTemporary \/ FillTemporary \/ Rename
    BY <1>3, <1>4, <2>1, Zenon DEF DialX, RecvXInfo, SendModeDecision, SendReport, Handoff, SendReportAgain, EndBackground,
                      WriteTemporary, FillTemporary, Rename, Fails, BackgroundFails
  <2>2. CASE Characterize \/ PreparePassiveDevice \/ RecvCloakedParams
    BY <1>3, <1>4, <2>2, Zenon DEF Characterize, PreparePassiveDevice, RecvCloakedParams, Fails, BackgroundFails
  <2>3. CASE RecvVerdict
    <3>1. ~(y.flow = "run")
      BY <1>1, <1>2, <2>3, Zenon DEF RecvVerdict, At, StateOk, Connected
    <3> QED
      BY <2>3, <3>1, Zenon DEF RecvVerdict, Fails, BackgroundFails
  <2>4. CASE waitForNativeReady
    <3>1. session.state = "connected-cloaked"
      BY <1>1, <2>4, Zenon DEF waitForNativeReady, At, FlowOk, StateOk, Saving, YType
    <3>2. CASE session' = setState(session, "probing")
      BY <1>3, <3>2, Zenon
    <3>3. CASE NativeUp("real", {session.dev})
      BY <3>1, <3>3, Zenon DEF NativeUp, setState, setDevice
    <3> QED
      BY <2>4, <3>2, <3>3, Zenon DEF waitForNativeReady
  <2>5. CASE PollCloaked
    BY <1>1, <1>2, <2>5, Zenon DEF PollCloaked, At, FlowOk, StateOk, Connected, YType
  <2> QED
    BY <1>5, <2>1, <2>2, <2>3, <2>4, <2>5, Zenon DEF Attempt
<1>6. CASE Start \/ Retry \/ Reconnect \/ attemptBackgroundNative \/ ContextDone \/ StartReturns \/ StopCancels \/ StopCloses \/ Crash
  <2>1. CASE Start \/ Retry \/ attemptBackgroundNative \/ ContextDone \/ StartReturns \/ StopCancels
    BY <1>3, <2>1, Zenon DEF Start, Retry, attemptBackgroundNative, ContextDone, StartReturns, StopCancels, yVars
  <2>2. CASE Reconnect \/ StopCloses \/ Crash
    BY <1>2, <2>2 DEF Reconnect, StopCloses, Crash, setState, setDevice, InitSession, Connected
  <2> QED
    BY <1>6, <2>1, <2>2, Zenon
<1>7. ASSUME NEW c \in Conn, Handler(c) \/ Break(c)  PROVE UNCHANGED session
  BY <1>7, Zenon DEF Handler, Greet, XRecv, RemoveStalePeer, AddNativePeer, PollNative, RemoveExpiredPeer, SendNativeFailed,
              FallbackAddPeer, SendCloakedParams, XOnly, Break, yVars
<1>8. ASSUME NEW d \in devices, NativeHandshake(d) \/ CloakedHandshake(d)  PROVE UNCHANGED session
  BY <1>8, Zenon DEF NativeHandshake, CloakedHandshake
<1>9. CASE UNCHANGED vars
  BY <1>9, Zenon DEF vars, yVars
<1> QED
  BY <1>5, <1>6, <1>7, <1>8, <1>9, Zenon DEF Next

\* What the host sees is a Tunnel: a session reported connected always runs over a device of that
\* mode which itself shook hands with X, and changes mode without a disconnect only from cloaked to
\* native.
THEOREM OrchestratorImplementsTunnel == Spec => ImplementsTunnel
<1>1. Init => Promise!Init
  BY DEF Init, Promise!Init, Up, Connected, InitSession
<1>2. OrchInv /\ OrchInv' /\ [Next]_vars => [Promise!Next]_(Promise!vars)
  <2> SUFFICES ASSUME OrchInv, OrchInv', [Next]_vars  PROVE [Promise!Next]_(Promise!vars)
    BY Zenon
  <2>1. CarrierOk /\ CarrierOk' /\ YType /\ YType'
    BY Zenon DEF OrchInv, YInv
  <2>2. /\ ~Up => Mode = "none" /\ Carrier = NoDevice
        /\ Up => /\ Mode = IF session.state = "connected-native" THEN "native" ELSE "cloaked"
                 /\ Carrier = session.dev
    BY Zenon DEF Mode, Carrier, Up, Connected, modeForState
  <2>3. /\ ~Up' => Mode' = "none" /\ Carrier' = NoDevice
        /\ Up' => /\ Mode' = IF session'.state = "connected-native" THEN "native" ELSE "cloaked"
                  /\ Carrier' = session'.dev
    BY Zenon DEF Mode, Carrier, Up, Connected, modeForState
  <2> DEFINE natives == {d \in Device : d.kind # "cloaked"}  cloakeds == {d \in Device : d.kind = "cloaked"}
  <2>4. Up' => Carrier' \in shook' /\ Carrier' \in (IF Mode' = "native" THEN natives ELSE cloakeds)
    BY <2>1, <2>3, Zenon DEF CarrierOk, YType, Up, Connected
  <2>5. CASE (\E d \in devices : shook' = shook \cup {d}) /\ UNCHANGED <<session, life>>
    <3>1. Mode' = Mode /\ Carrier' = Carrier
      BY <2>5, Zenon DEF Mode, Carrier, Up
    <3>2. \E d \in natives \cup cloakeds : shook' = shook \cup {d}
      BY <2>1, <2>5, Zenon DEF YType
    <3>3. Promise!Handshake
      BY <3>1, <3>2, Zenon DEF Promise!Handshake, Mode, Carrier
    <3> QED
      BY <3>3, Zenon DEF Promise!Next
  <2>6. CASE shook' \subseteq shook
    <3>1. CASE Mode' = Mode /\ Carrier' = Carrier
      <4>1. Mode # "none" => Carrier \in shook'
        BY <2>2, <2>3, <2>4, <3>1, Zenon
      <4>2. Promise!Close
        BY <2>6, <3>1, <4>1, Zenon DEF Promise!Close, Mode, Carrier
      <4> QED
        BY <4>2, Zenon DEF Promise!Next
    <3>2. CASE Up /\ ~Up'
      <4>1. Mode # "none" /\ Mode' = "none" /\ Carrier' = NoDevice
        BY <2>2, <2>3, <3>2, Zenon
      <4>2. Promise!Disconnect
        BY <2>6, <4>1, Zenon DEF Promise!Disconnect, Mode, Carrier
      <4> QED
        BY <4>2, Zenon DEF Promise!Next
    <3>3. CASE Up' /\ (~Up \/ (session.state = "connected-cloaked" /\ session'.state = "connected-native"))
      <4>1. \/ Mode = "none" /\ Mode' \in {"native", "cloaked"}
            \/ Mode = "cloaked" /\ Mode' = "native"
        BY <2>2, <2>3, <3>3, Zenon DEF Up, Connected
      <4>2. Carrier' \in shook' /\ Carrier' \in (IF Mode' = "native" THEN natives ELSE cloakeds)
        BY <2>4, <3>3, Zenon
      <4>3. Promise!Connect
        BY <2>6, <4>1, <4>2, Zenon DEF Promise!Connect, Promise!DevicesOf, Mode, Carrier
      <4> QED
        BY <4>3, Zenon DEF Promise!Next
    <3>4. CASE Up /\ Up' /\ UNCHANGED session
      BY <2>2, <2>3, <3>1, <3>4, Zenon
    <3>5. CASE ~Up /\ ~Up'
      BY <2>2, <2>3, <3>1, <3>5, Zenon
    <3> QED
      BY <3>2, <3>3, <3>4, <3>5, SessionSteps, Zenon
  <2> QED
    BY <2>5, <2>6, ProvenSteps, Zenon
<1> QED
  BY <1>1, <1>2, OrchInvariant, PTL DEF Spec, ImplementsTunnel, Promise!Spec
==============================================================================
