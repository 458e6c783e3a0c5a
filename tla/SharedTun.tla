------------------------------ MODULE SharedTun ------------------------------
(***************************************************************************)
(* The one TUN interface of Y, shared by the devices that take turns on it   *)
(* (orchestrate/tunkeepalive.go).  A single pump goroutine reads the real    *)
(* interface and hands every packet to the session that is active when it    *)
(* looks; a session stands in for the interface of one device, and closing   *)
(* it must unblock that device's reader without closing the interface.       *)
(***************************************************************************)
EXTENDS Naturals, Sequences

CONSTANTS
  Session,      \* the sessions that can be attached
  NoSession,    \* a nil *tunSession
  MaxRead       \* the packets the interface yields

ASSUME NoSessionAssumption == NoSession \notin Session

VARIABLES
  real,         \* the interface: "open", "failed" (it went away), or "closed" by Shutdown
  pump,         \* the pump goroutine: what it holds, and for which session
  active,       \* sharedTUN.active
  newest,       \* the session attached last
  sess,         \* Session -> "none", "open", "closing" (closed, not yet detached), "closed"
  reader,       \* Session -> the device's RoutineReadFromTUN on that session
  nread,        \* packets read from the interface
  taken,        \* the packets the devices took, in order
  lost          \* the packets dropped, each with the session that was to have it

tunVars == <<real, pump, active, newest, sess, reader, nread, taken, lost>>

\* What the pump carries when the read of the interface fails.
ReadError == 0

TunInit ==
  /\ real = "open" /\ pump = [pc |-> "off", pkt |-> ReadError, to |-> NoSession]
  /\ active = NoSession /\ newest = NoSession
  /\ sess = [s \in Session |-> "none"] /\ reader = [s \in Session |-> "off"]
  /\ nread = 0 /\ taken = <<>> /\ lost = {}

\* A device is built on a new session: the first attach starts the pump.
\* Usually the session before has been closed; the return to native mode attaches first.
Attach(s) ==
  /\ real # "closed" /\ sess[s] = "none"
  /\ pump' = IF pump.pc = "off" THEN [pump EXCEPT !.pc = "read"] ELSE pump
  /\ active' = s /\ newest' = s
  /\ sess' = [sess EXCEPT ![s] = "open"] /\ reader' = [reader EXCEPT ![s] = "wait"]
  /\ UNCHANGED <<real, nread, taken, lost>>

\* The interface goes away: the reads of it fail from now on.
Fail ==
  /\ real = "open" /\ real' = "failed"
  /\ UNCHANGED <<pump, active, newest, sess, reader, nread, taken, lost>>

\* The pump reads a packet, or the error of an interface that was closed or went away.
PumpRead ==
  /\ pump.pc = "read"
  /\ \/ /\ real = "open" /\ nread < MaxRead
        /\ nread' = nread + 1 /\ pump' = [pump EXCEPT !.pc = "lookup", !.pkt = nread + 1]
     \/ /\ real # "open" /\ pump' = [pump EXCEPT !.pc = "lookup", !.pkt = ReadError]
        /\ UNCHANGED nread
  /\ UNCHANGED <<real, active, newest, sess, reader, taken, lost>>

\* The packet is dropped, or the error, after which the pump returns.
Drop(to) ==
  /\ lost' = IF pump.pkt = ReadError THEN lost ELSE lost \cup {<<pump.pkt, to>>}
  /\ pump' = [pump EXCEPT !.pc = IF pump.pkt = ReadError THEN "ended" ELSE "read"]
  /\ UNCHANGED taken

\* deliver picks the active session under the mutex and then waits outside it.
Lookup ==
  /\ pump.pc = "lookup"
  /\ \/ /\ active # NoSession /\ pump' = [pump EXCEPT !.pc = "deliver", !.to = active]
        /\ UNCHANGED <<taken, lost>>
     \/ active = NoSession /\ Drop(NoSession)
  /\ UNCHANGED <<real, active, newest, sess, reader, nread>>

\* Mutant: the pump keeps waiting for the reader of a session that was closed.
PumpDeliver_OnlyToReader ==
  /\ pump.pc = "deliver" /\ reader[pump.to] = "wait"
  /\ taken' = IF pump.pkt = ReadError THEN taken ELSE Append(taken, pump.pkt)
  /\ reader' = [reader EXCEPT ![pump.to] = IF pump.pkt = ReadError THEN "ended" ELSE "busy"]
  /\ pump' = [pump EXCEPT !.pc = IF pump.pkt = ReadError THEN "ended" ELSE "read"] /\ UNCHANGED lost
  /\ UNCHANGED <<real, active, newest, sess, nread>>

\* Mutant: the pump does not wait for a reader that is busy.
PumpDeliver_NoWait ==
  \/ PumpDeliver_OnlyToReader
  \/ /\ pump.pc = "deliver" /\ reader[pump.to] # "wait" /\ Drop(pump.to)
     /\ UNCHANGED <<real, active, newest, sess, reader, nread>>

\* The select of deliver against the select of Read: a waiting reader takes the packet, and a closed
\* session drops it; with both ready Go takes either.
PumpDeliver ==
  /\ pump.pc = "deliver"
  /\ \/ /\ reader[pump.to] = "wait"
        /\ taken' = IF pump.pkt = ReadError THEN taken ELSE Append(taken, pump.pkt)
        /\ reader' = [reader EXCEPT ![pump.to] = IF pump.pkt = ReadError THEN "ended" ELSE "busy"]
        /\ pump' = [pump EXCEPT !.pc = IF pump.pkt = ReadError THEN "ended" ELSE "read"]
        /\ UNCHANGED lost
     \/ sess[pump.to] \in {"closing", "closed"} /\ Drop(pump.to) /\ UNCHANGED reader
  /\ UNCHANGED <<real, active, newest, sess, nread>>

\* The device has handed its packet on and calls Read again, or Read sees the session closed.
ReadOn(s) ==
  /\ \/ reader[s] = "busy" /\ reader' = [reader EXCEPT ![s] = "wait"]
     \/ /\ reader[s] = "wait" /\ sess[s] \in {"closing", "closed"}
        /\ reader' = [reader EXCEPT ![s] = "ended"]
  /\ UNCHANGED <<real, pump, active, newest, sess, nread, taken, lost>>

\* Close, by the orchestrator or by the device itself when its reader failed: the channel ...
CloseSession(s) ==
  /\ sess[s] = "open" /\ sess' = [sess EXCEPT ![s] = "closing"]
  /\ UNCHANGED <<real, pump, active, newest, reader, nread, taken, lost>>

\* ... and then, under the mutex, the detachment of this session and no other.
Detach(s) ==
  /\ sess[s] = "closing" /\ sess' = [sess EXCEPT ![s] = "closed"]
  /\ active' = IF active = s THEN NoSession ELSE active
  /\ UNCHANGED <<real, pump, newest, reader, nread, taken, lost>>

\* The orchestrator stops, after the devices on the interface were closed.
Shutdown ==
  /\ real # "closed" /\ \A s \in Session : sess[s] \in {"none", "closed"}
  /\ real' = "closed"
  /\ UNCHANGED <<pump, active, newest, sess, reader, nread, taken, lost>>

SessionStep(s) == Attach(s) \/ ReadOn(s) \/ CloseSession(s) \/ Detach(s)

TunNext == Fail \/ PumpRead \/ Lookup \/ PumpDeliver \/ Shutdown \/ \E s \in Session : SessionStep(s)

\* The pump and the readers are goroutines that wait for one another in these steps alone; the read of
\* an interface that stays open may wait for ever, one that is gone returns.  A Close that began ends.
TunFairness ==
  /\ WF_tunVars(real # "open" /\ PumpRead) /\ WF_tunVars(Lookup) /\ WF_tunVars(PumpDeliver)
  /\ \A s \in Session : WF_tunVars(ReadOn(s)) /\ WF_tunVars(Detach(s))

TunSpec == TunInit /\ [][TunNext]_tunVars /\ TunFairness

-----------------------------------------------------------------------------
(* Properties *)

\* The devices together take the packets of the interface in the order the pump read them, and none
\* twice, across every change of session.
TakenInOrder == \A i \in 1..(Len(taken) - 1) : taken[i] < taken[i + 1]

\* A packet is dropped only when no session is attached or the session it was meant for was closed:
\* a device that is slow to read loses nothing.
LostToClose == \A l \in lost : l[2] # NoSession => sess[l[2]] \in {"closing", "closed"}

\* The session attached last stays the active one until it is closed itself, also when the session
\* before it is closed after it was attached.
NewestStaysActive == newest # NoSession /\ sess[newest] = "open" => active = newest

\* Nobody waits for what will not come: the reader of a session that was closed has ended, and so has
\* the pump of an interface that is gone.
Released ==
  /\ \A s \in Session : sess[s] \in {"closing", "closed"} => reader[s] = "ended"
  /\ real # "open" => pump.pc \in {"off", "ended"}

\* Closing a session ends the reader of its device, which device.Close waits for, whatever the pump is
\* doing and although the interface stays open; and the pump, which may be waiting for any session,
\* returns once the interface is closed or gone.  (A session is closed once, and what ended stays so.)
AlwaysReleased == []<>Released
==============================================================================
