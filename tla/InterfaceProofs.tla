--------------------------- MODULE InterfaceProofs ---------------------------
(***************************************************************************)
(* A device's two interfaces: the UDP sockets below it and the TUN that    *)
(* the devices of an orchestrator share above it.                          *)
(*                                                                         *)
(* The sockets open between calls of Open and Close are those of the bind, *)
(* for any ports, senders and bounds.  That is not inductive: BindInv adds *)
(* what is open while Open runs.                                           *)
(*                                                                         *)
(* TakenInOrder, LostToClose and NewestStaysActive hold of the shared TUN  *)
(* for any number of sessions and packets.                                 *)
(***************************************************************************)
EXTENDS UdpBind, SharedTun, TLAPS

Socket == [fam : Family, port : Port, open : BOOLEAN]

-----------------------------------------------------------------------------
(* The sockets made                                                          *)

\* listenNet: the new socket is one more, and the others are as they were.
LEMMA ListenOpens ==
  ASSUME NEW k \in Seq(Socket), NEW x \in Socket, x.open = TRUE
  PROVE  /\ Append(k, x) \in Seq(Socket)
         /\ Append(k, x)[Len(k) + 1] = x
         /\ \A n \in DOMAIN k : Append(k, x)[n] = k[n]
         /\ OpenSockets(Append(k, x)) = OpenSockets(k) \cup {Len(k) + 1}
<1>1. Append(k, x) \in Seq(Socket) /\ Append(k, x)[Len(k) + 1] = x /\ Len(k) \in Nat
  OBVIOUS
<1>2. \A n \in DOMAIN k : Append(k, x)[n] = k[n]
  OBVIOUS
<1>3. DOMAIN Append(k, x) = DOMAIN k \cup {Len(k) + 1}
  OBVIOUS
<1>4. OpenSockets(Append(k, x)) = OpenSockets(k) \cup {Len(k) + 1}
  BY <1>1, <1>2, <1>3, Zenon DEF OpenSockets
<1> QED
  BY <1>1, <1>2, <1>4, Zenon

\* Closing sockets closes those and no other, and changes nothing else of any.
LEMMA CloseCloses ==
  ASSUME NEW k \in Seq(Socket), NEW closed,
         NEW l, l = [n \in DOMAIN k |-> [k[n] EXCEPT !.open = @ /\ n \notin closed]]
  PROVE  /\ l \in Seq(Socket)
         /\ \A n \in DOMAIN k : l[n].port = k[n].port
         /\ OpenSockets(l) = OpenSockets(k) \ closed
<1>1. DOMAIN l = DOMAIN k /\ DOMAIN k = 1..Len(k) /\ Len(k) \in Nat
  OBVIOUS
<1>2. ASSUME NEW n \in DOMAIN k
      PROVE  /\ l[n] \in Socket /\ l[n].port = k[n].port
             /\ l[n].open = (k[n].open /\ n \notin closed)
  <2>1. k[n] \in Socket
    BY <1>2
  <2>2. l[n] = [k[n] EXCEPT !.open = @ /\ n \notin closed]
    BY <1>2
  <2> QED
    BY <2>1, <2>2, Zenon DEF Socket
<1>3. l \in Seq(Socket)
  <2>1. l \in [1..Len(k) -> Socket]
    BY <1>1, <1>2, Zenon
  <2> QED
    BY <1>1, <2>1
<1>4. OpenSockets(l) = OpenSockets(k) \ closed
  BY <1>1, <1>2, Zenon DEF OpenSockets
<1> QED
  BY <1>2, <1>3, <1>4, Zenon

LEMMA CloseOne ==
  ASSUME NEW k \in Seq(Socket), NEW n \in DOMAIN k
  PROVE  [k EXCEPT ![n].open = FALSE] =
           [m \in DOMAIN k |-> [k[m] EXCEPT !.open = @ /\ m \notin {n}]]
<1>1. ASSUME NEW m \in DOMAIN k
      PROVE  [k EXCEPT ![n].open = FALSE][m] = [k[m] EXCEPT !.open = @ /\ m \notin {n}]
  <2>1. k[m] \in Socket
    BY <1>1
  <2> QED
    BY <2>1, Zenon DEF Socket
<1> QED
  BY <1>1, Zenon

-----------------------------------------------------------------------------
(* The parts of the invariant                                                *)

\* The invariant on its parts: the sockets k, those of the bind b, and the state o of Open.
Accounted(k, b, o) ==
  /\ k \in Seq(Socket) /\ b \in [Family -> Nat]
  /\ o \in [pc : {"done", "v4", "v6"}, uport : Port \cup {0}, port : Port \cup {0}, tries : Nat, v4 : Nat]
  /\ o.pc = "done" => OpenSockets(k) = {b[f] : f \in Family} \ {0}
  /\ o.pc # "done" => b = NoSockets
  /\ o.pc = "v4" => OpenSockets(k) = {}
  /\ o.pc = "v6" => /\ OpenSockets(k) = {o.v4} \ {0}
                    /\ o.v4 # 0 => o.port = k[o.v4].port
  /\ b[4] # 0 /\ b[6] # 0 => o.port = k[b[4]].port /\ k[b[4]].port = k[b[6]].port

BindShaped == bind = [sock |-> bind.sock, tx |-> bind.tx]

LEMMA BindInvIs == BindInv <=> BindShaped /\ Accounted(sock, bind.sock, opened)
BY Zenon DEF BindInv, BindType, OpenUnderWay, SocketsAccounted, SamePort, BindSockets, BindShaped, Accounted, Socket

LEMMA BindInvIsNext == BindInv' <=> BindShaped' /\ Accounted(sock', bind.sock', opened')
BY Zenon DEF BindInv, BindType, OpenUnderWay, SocketsAccounted, SamePort, BindSockets, BindShaped, Accounted, Socket,
             OpenSockets

HasSockets(b, v4, v6) ==
  /\ b = [sock |-> b.sock, tx |-> b.tx]
  /\ b.sock = [f \in Family |-> IF f = 4 THEN v4 ELSE v6]
  /\ b.sock[4] = v4 /\ b.sock[6] = v6
  /\ {b.sock[f] : f \in Family} = {v4, v6}

\* The sockets that Open gives to the bind.
LEMMA NewBindDoes ==
  ASSUME NEW v4, NEW v6, NEW tx, NEW b, b = NewBind(v4, v6, tx)
  PROVE  HasSockets(b, v4, v6)
<1>1. b = [sock |-> b.sock, tx |-> b.tx] /\ b.sock = [f \in Family |-> IF f = 4 THEN v4 ELSE v6]
  BY DEF NewBind
<1>2. b.sock[4] = v4 /\ b.sock[6] = v6
  BY <1>1 DEF Family
<1>3. {b.sock[f] : f \in Family} = {v4, v6}
  BY <1>2, Zenon DEF Family
<1> QED
  BY <1>1, <1>2, <1>3, Zenon DEF HasSockets

\* With no sockets there is nothing to agree on.
LEMMA NoSocketsDoes ==
  /\ NoSockets \in [Family -> Nat] /\ NoSockets[4] = 0 /\ NoSockets[6] = 0
  /\ {NoSockets[f] : f \in Family} \ {0} = {}
BY DEF NoSockets, Family

\* A bind that was closed.
LEMMA ClosedBind ==
  ASSUME NEW b, b = NewBind(0, 0, FALSE)
  PROVE  b = [sock |-> b.sock, tx |-> b.tx] /\ b.sock = NoSockets
BY DEF NewBind, NoSockets

\* A bind that is closed holds no socket.
LEMMA BindInitInv == BindInit => BindInv
<1> SUFFICES ASSUME BindInit PROVE BindShaped /\ Accounted(sock, bind.sock, opened)
  BY BindInvIs, Zenon
<1>1. BindShaped /\ bind.sock = NoSockets
  BY ClosedBind, Zenon DEF BindInit, BindShaped
<1>2. sock \in Seq(Socket) /\ OpenSockets(sock) = {}
  BY DEF BindInit, OpenSockets
<1>3. /\ opened \in [pc : {"done", "v4", "v6"}, uport : Port \cup {0}, port : Port \cup {0}, tries : Nat, v4 : Nat]
      /\ opened.pc = "done"
  BY DEF BindInit
<1> QED
  BY <1>1, <1>2, <1>3, NoSocketsDoes, Zenon DEF Accounted

-----------------------------------------------------------------------------
(* The steps                                                                 *)

\* A Send changes no socket and no state of Open, and of the bind only whether it offloads.
LEMMA SendStepInv ==
  ASSUME BindInv, NEW p \in Sender, SendStep(p)
  PROVE  BindInv'
<1>1. BindShaped /\ Accounted(sock, bind.sock, opened)
  BY BindInvIs, Zenon
<1>2. sock' = sock /\ opened' = opened
  BY Zenon DEF SendStep, SendStarts, WriteBatch, WriteFails, SendEnds
<1>3. bind' = bind \/ \E f : bind' = [bind EXCEPT !.tx[f] = FALSE]
  BY Zenon DEF SendStep, SendStarts, WriteBatch, WriteFails, SendEnds
<1>4. BindShaped' /\ (bind.sock)' = bind.sock
  BY <1>1, <1>3 DEF BindShaped
<1> QED
  BY <1>1, <1>2, <1>4, BindInvIsNext, Zenon

LEMMA OpenStartsInv ==
  ASSUME BindInv, NEW uport \in Port \cup {0}, OpenStarts(uport)
  PROVE  BindInv'
<1>1. BindShaped /\ Accounted(sock, bind.sock, opened)
  BY BindInvIs, Zenon
<1>2. sock' = sock /\ bind' = bind /\ bind.sock = NoSockets /\ opened.pc = "done"
  BY Zenon DEF OpenStarts
<1>3. /\ opened' \in [pc : {"done", "v4", "v6"}, uport : Port \cup {0}, port : Port \cup {0}, tries : Nat, v4 : Nat]
      /\ opened'.pc = "v4"
  BY DEF OpenStarts
<1>4. OpenSockets(sock) = {}
  BY <1>1, <1>2, NoSocketsDoes, Zenon DEF Accounted
<1>5. Accounted(sock', bind.sock', opened')
  BY <1>1, <1>2, <1>3, <1>4, NoSocketsDoes DEF Accounted
<1> QED
  BY <1>1, <1>2, <1>5, BindInvIsNext, Zenon DEF BindShaped

\* A socket is at the port asked for, or at any if that is zero.
PortGiven(q, port) == q \in Port /\ (port # 0 => q = port)

\* The sockets l are the sockets k and one more, n, at port q.
OneMore(k, l, n, q) ==
  /\ l \in Seq(Socket) /\ n \in Nat \ {0} /\ l[n].port = q
  /\ \A m \in DOMAIN k : l[m] = k[m]
  /\ OpenSockets(l) = OpenSockets(k) \cup {n}

\* listenNet makes one socket, at the port asked for.
LEMMA ListenDoes ==
  ASSUME BindInv, NEW f, NEW q \in Available(f, opened.port), Listen(f, q), f \in Family,
         NEW n, n = Len(sock) + 1
  PROVE  PortGiven(q, opened.port) /\ OneMore(sock, sock', n, q)
<1>1. sock \in Seq(Socket) /\ opened.port \in Port \cup {0}
  BY BindInvIs, Zenon DEF Accounted
<1>2. PortGiven(q, opened.port)
  BY <1>1 DEF Available, PortGiven
<1>3. PICK x : x = [fam |-> f, port |-> q, open |-> TRUE]
  BY Zenon
<1>4. x \in Socket /\ x.open = TRUE /\ x.port = q
  BY <1>2, <1>3 DEF Socket, PortGiven
<1>5. sock' = Append(sock, x)
  BY <1>3, Zenon DEF Listen
<1>6. /\ sock' \in Seq(Socket) /\ sock'[n] = x
      /\ \A m \in DOMAIN sock : sock'[m] = sock[m]
      /\ OpenSockets(sock') = OpenSockets(sock) \cup {n}
  BY <1>1, <1>4, <1>5, ListenOpens, Zenon
<1>7. n \in Nat \ {0}
  BY <1>1
<1> QED
  BY <1>2, <1>4, <1>6, <1>7, Zenon DEF OneMore

\* Opened without IPv4, or the listen failed: no socket has been made.
LEMMA OpenV4Inv ==
  ASSUME BindInv, OpenV4
  PROVE  BindInv'
<1>1. BindShaped /\ Accounted(sock, bind.sock, opened)
  BY BindInvIs, Zenon
<1>2. /\ opened.pc = "v4" /\ bind' = bind
  BY Zenon DEF OpenV4, OpenFails
<1>3. bind.sock = NoSockets /\ OpenSockets(sock) = {} /\ sock \in Seq(Socket)
  BY <1>1, <1>2, Zenon DEF Accounted
<1>4. opened \in [pc : {"done", "v4", "v6"}, uport : Port \cup {0}, port : Port \cup {0}, tries : Nat, v4 : Nat]
  BY <1>1, Zenon DEF Accounted
<1>5. ASSUME NEW q \in Available(4, opened.port), Listen(4, q),
             opened' = [opened EXCEPT !.pc = "v6", !.port = q, !.v4 = Len(sock) + 1]
      PROVE  Accounted(sock', bind.sock, opened')
  <2> PICK four : four = 4
    BY Zenon
  <2> PICK n : n = Len(sock) + 1
    BY Zenon
  <2>1. four \in Family /\ q \in Available(four, opened.port) /\ Listen(four, q)
    BY <1>5 DEF Family
  <2>2. PortGiven(q, opened.port) /\ OneMore(sock, sock', n, q)
    BY <2>1, ListenDoes, Zenon
  <2>3. /\ opened' \in [pc : {"done", "v4", "v6"}, uport : Port \cup {0}, port : Port \cup {0}, tries : Nat, v4 : Nat]
        /\ opened'.pc = "v6" /\ opened'.port = q /\ opened'.v4 = n
    BY <1>4, <1>5, <2>2, Zenon DEF PortGiven, OneMore
  <2>4. OpenSockets(sock') = {opened'.v4} \ {0}
    BY <1>3, <2>2, <2>3, Zenon DEF OneMore
  <2> QED
    BY <1>3, <2>2, <2>3, <2>4, NoSocketsDoes DEF Accounted, OneMore
<1>6. ASSUME sock' = sock, opened' = [opened EXCEPT !.pc = "v6", !.port = 0, !.v4 = 0]
      PROVE  Accounted(sock', bind.sock, opened')
  <2>1. /\ opened' \in [pc : {"done", "v4", "v6"}, uport : Port \cup {0}, port : Port \cup {0}, tries : Nat, v4 : Nat]
        /\ opened'.pc = "v6" /\ opened'.v4 = 0
    BY <1>4, <1>6, Zenon
  <2> QED
    BY <1>3, <1>6, <2>1, NoSocketsDoes DEF Accounted
<1>7. ASSUME sock' = sock, OpenFails
      PROVE  Accounted(sock', bind.sock, opened')
  <2>1. /\ opened' \in [pc : {"done", "v4", "v6"}, uport : Port \cup {0}, port : Port \cup {0}, tries : Nat, v4 : Nat]
        /\ opened'.pc = "done"
    BY <1>4, <1>7 DEF OpenFails
  <2> QED
    BY <1>3, <1>7, <2>1, NoSocketsDoes, Zenon DEF Accounted
<1>8. Accounted(sock', bind.sock, opened')
  BY <1>5, <1>6, <1>7, Zenon DEF OpenV4
<1> QED
  BY <1>1, <1>2, <1>8, BindInvIsNext, Zenon DEF BindShaped

\* After v4conn.Close no socket is open: the IPv4 one was the only one.
LEMMA CloseV4Does ==
  ASSUME BindInv, opened.pc = "v6", CloseV4
  PROVE  sock' \in Seq(Socket) /\ OpenSockets(sock') = {}
<1>1. sock \in Seq(Socket) /\ OpenSockets(sock) = {opened.v4} \ {0}
  BY BindInvIs, Zenon DEF Accounted
<1>2. CASE opened.v4 = 0
  BY <1>1, <1>2, Zenon DEF CloseV4
<1>3. CASE opened.v4 # 0
  <2>1. opened.v4 \in DOMAIN sock
    BY <1>1, <1>3, Zenon DEF OpenSockets
  <2>2. sock' = [sock EXCEPT ![opened.v4].open = FALSE]
    BY <1>3, Zenon DEF CloseV4
  <2>3. sock' = [m \in DOMAIN sock |-> [sock[m] EXCEPT !.open = @ /\ m \notin {opened.v4}]]
    BY <1>1, <2>1, <2>2, CloseOne, Zenon
  <2>4. sock' \in Seq(Socket) /\ OpenSockets(sock') = OpenSockets(sock) \ {opened.v4}
    BY <1>1, <2>3, CloseCloses, Zenon
  <2> QED
    BY <1>1, <2>4, Zenon
<1> QED
  BY <1>2, <1>3, Zenon

\* IPv6 is listened on at IPv4's port, which then both have; without IPv6 the bind has IPv4's socket; when the
\* port is in use or the listen failed, that socket is closed.
LEMMA OpenV6Inv ==
  ASSUME BindInv, OpenV6
  PROVE  BindInv'
<1>1. BindShaped /\ Accounted(sock, bind.sock, opened)
  BY BindInvIs, Zenon
<1>2. opened.pc = "v6"
  BY Zenon DEF OpenV6
<1>3. /\ bind.sock = NoSockets /\ sock \in Seq(Socket) /\ OpenSockets(sock) = {opened.v4} \ {0}
      /\ opened.v4 # 0 => opened.port = sock[opened.v4].port
  BY <1>1, <1>2, Zenon DEF Accounted
<1>4. opened \in [pc : {"done", "v4", "v6"}, uport : Port \cup {0}, port : Port \cup {0}, tries : Nat, v4 : Nat]
  BY <1>1, Zenon DEF Accounted
<1>5. opened.v4 \in Nat /\ opened.port \in Port \cup {0}
  BY <1>4, Zenon
<1>6. opened.v4 # 0 => opened.v4 \in DOMAIN sock
  BY <1>3, Zenon DEF OpenSockets
<1>7. opened.v4 # 0 => opened.port \in Port
  <2>1. ASSUME opened.v4 # 0 PROVE sock[opened.v4] \in Socket
    BY <1>3, <1>6, <2>1
  <2> QED
    BY <1>3, <2>1, Zenon DEF Socket
<1>8. ASSUME NEW v6 \in Nat, NEW tx, bind' = NewBind(opened.v4, v6, tx), NEW q \in Port \cup {0},
             opened' = [opened EXCEPT !.pc = "done", !.port = q], sock' \in Seq(Socket),
             OpenSockets(sock') = {opened.v4, v6} \ {0},
             opened.v4 # 0 /\ v6 # 0 => q = sock'[opened.v4].port /\ q = sock'[v6].port
      PROVE  BindShaped' /\ Accounted(sock', bind.sock', opened')
  <2>1. /\ BindShaped'
        /\ bind'.sock = [f \in Family |-> IF f = 4 THEN opened.v4 ELSE v6]
        /\ bind'.sock[4] = opened.v4 /\ bind'.sock[6] = v6
        /\ {bind'.sock[f] : f \in Family} = {opened.v4, v6}
    <3>1. HasSockets(bind', opened.v4, v6)
      BY <1>8, NewBindDoes, Zenon
    <3> QED
      BY <3>1, Zenon DEF HasSockets, BindShaped
  <2>2. bind'.sock \in [Family -> Nat]
    BY <1>5, <2>1, Zenon
  <2>3. /\ opened' \in [pc : {"done", "v4", "v6"}, uport : Port \cup {0}, port : Port \cup {0}, tries : Nat, v4 : Nat]
        /\ opened'.pc = "done" /\ opened'.port = q
    BY <1>4, <1>8, Zenon
  <2>4. opened'.pc # "v4" /\ opened'.pc # "v6"
    BY <2>3
  <2> QED
    BY <1>8, <2>1, <2>2, <2>3, <2>4, ZenonT(60) DEF Accounted
<1>9. ASSUME NEW q \in Available(6, Port6), NEW tx \in BOOLEAN, Listen(6, q),
             bind' = NewBind(opened.v4, Len(sock) + 1, tx),
             opened' = [opened EXCEPT !.pc = "done", !.port = q]
      PROVE  BindShaped' /\ Accounted(sock', bind.sock', opened')
  <2> PICK six : six = 6
    BY Zenon
  <2>1. /\ six \in Family /\ q \in Available(six, opened.port) /\ Listen(six, q)
    BY <1>9 DEF Family, Port6
  <2>2. PICK v6 : v6 = Len(sock) + 1
    BY Zenon
  <2>3. PortGiven(q, opened.port) /\ OneMore(sock, sock', v6, q)
    BY <2>1, <2>2, ListenDoes, Zenon
  <2>4. v6 \in Nat /\ v6 # 0 /\ sock'[v6].port = q /\ OpenSockets(sock') = {opened.v4, v6} \ {0}
    BY <1>3, <2>3, Zenon DEF OneMore
  <2>5. opened.v4 # 0 => q = sock'[opened.v4].port
    BY <1>3, <1>6, <1>7, <2>3, BindAssumption, Zenon DEF PortGiven, OneMore
  <2> QED
    BY <1>8, <1>9, <2>2, <2>3, <2>4, <2>5, Zenon DEF PortGiven, OneMore
<1>10. ASSUME NEW tx \in BOOLEAN, sock' = sock, bind' = NewBind(opened.v4, 0, tx),
              opened' = [opened EXCEPT !.pc = "done", !.port = 0]
       PROVE  BindShaped' /\ Accounted(sock', bind.sock', opened')
  <2>1. OpenSockets(sock') = {opened.v4, 0} \ {0} /\ 0 \in Nat
    BY <1>3, <1>10
  <2> QED
    BY <1>3, <1>8, <1>10, <2>1, Zenon
<1>11. ASSUME CloseV4, bind' = bind, opened'.pc \in {"done", "v4"},
              opened' \in [pc : {"done", "v4", "v6"}, uport : Port \cup {0}, port : Port \cup {0}, tries : Nat, v4 : Nat]
       PROVE  BindShaped' /\ Accounted(sock', bind.sock', opened')
  <2>1. sock' \in Seq(Socket) /\ OpenSockets(sock') = {}
    BY <1>2, <1>11, CloseV4Does, Zenon
  <2>2. BindShaped' /\ bind'.sock = NoSockets
    BY <1>1, <1>3, <1>11, Zenon DEF BindShaped
  <2>3. opened'.pc # "v6"
    BY <1>11
  <2>4. OpenSockets(sock') = {bind'.sock[f] : f \in Family} \ {0}
    BY <2>1, <2>2, NoSocketsDoes, Zenon
  <2>5. Accounted(sock', bind'.sock, opened')
    BY <1>11, <2>1, <2>2, <2>3, <2>4, NoSocketsDoes, Zenon DEF Accounted
  <2> QED
    BY <2>2, <2>5, Zenon
<1>12. ASSUME CloseV4, bind' = bind, opened' = [opened EXCEPT !.pc = "v4", !.port = 0, !.tries = @ + 1, !.v4 = 0]
       PROVE  BindShaped' /\ Accounted(sock', bind.sock', opened')
  <2>1. /\ opened' \in [pc : {"done", "v4", "v6"}, uport : Port \cup {0}, port : Port \cup {0}, tries : Nat, v4 : Nat]
        /\ opened'.pc = "v4"
    <3>1. PICK n : n = opened.tries + 1
      BY Zenon
    <3>2. n \in Nat
      BY <1>4, <3>1
    <3> QED
      BY <1>4, <1>12, <3>1, <3>2, Zenon
  <2> QED
    BY <1>11, <1>12, <2>1, Zenon
<1>13. ASSUME OpenV6Fails
       PROVE  BindShaped' /\ Accounted(sock', bind.sock', opened')
  <2>1. CloseV4 /\ bind' = bind /\ opened' = [opened EXCEPT !.pc = "done"]
    BY <1>13, Zenon DEF OpenV6Fails, OpenFails
  <2>2. /\ opened' \in [pc : {"done", "v4", "v6"}, uport : Port \cup {0}, port : Port \cup {0}, tries : Nat, v4 : Nat]
        /\ opened'.pc = "done"
    BY <1>4, <2>1
  <2> QED
    BY <1>11, <2>1, <2>2, Zenon
<1>14. BindShaped' /\ Accounted(sock', bind.sock', opened')
  BY <1>9, <1>10, <1>12, <1>13, Zenon DEF OpenV6
<1> QED
  BY <1>14, BindInvIsNext, Zenon

\* Close closes the sockets of the bind, and those were all that were open.
LEMMA CloseInv ==
  ASSUME BindInv, Close
  PROVE  BindInv'
<1>1. Accounted(sock, bind.sock, opened)
  BY BindInvIs, Zenon
<1>2. opened.pc = "done" /\ opened' = opened /\ bind' = NewBind(0, 0, FALSE)
  BY Zenon DEF Close
<1>3. /\ sock \in Seq(Socket) /\ OpenSockets(sock) = {bind.sock[f] : f \in Family} \ {0}
      /\ opened \in [pc : {"done", "v4", "v6"}, uport : Port \cup {0}, port : Port \cup {0}, tries : Nat, v4 : Nat]
  BY <1>1, <1>2, Zenon DEF Accounted
<1>4. PICK mine : mine = {bind.sock[4], bind.sock[6]}
  BY Zenon
<1>5. OpenSockets(sock) \ mine = {}
  BY <1>3, <1>4, Zenon DEF Family
<1>6. sock' = [n \in DOMAIN sock |-> [sock[n] EXCEPT !.open = @ /\ n \notin mine]]
  BY <1>4, Zenon DEF Close
<1>7. sock' \in Seq(Socket) /\ OpenSockets(sock') = {}
  <2>1. sock' \in Seq(Socket) /\ OpenSockets(sock') = OpenSockets(sock) \ mine
    BY <1>3, <1>6, CloseCloses, Zenon
  <2> QED
    BY <1>5, <2>1, Zenon
<1>8. BindShaped' /\ bind'.sock = NoSockets
  BY <1>2, ClosedBind, Zenon DEF BindShaped
<1>9. OpenSockets(sock') = {bind'.sock[f] : f \in Family} \ {0}
  BY <1>7, <1>8, NoSocketsDoes, Zenon
<1>10. opened'.pc # "v4" /\ opened'.pc # "v6"
  BY <1>2
<1>11. Accounted(sock', bind'.sock, opened')
  BY <1>2, <1>3, <1>7, <1>8, <1>9, <1>10, NoSocketsDoes, Zenon DEF Accounted
<1> QED
  BY <1>8, <1>11, BindInvIsNext, Zenon

\* A receive works on the messages of the pool.
LEMMA ReceiveInv ==
  ASSUME BindInv, UNCHANGED <<sock, bind, opened>>
  PROVE  BindInv'
BY BindInvIs, BindInvIsNext, Zenon DEF BindShaped

\* BindInv is inductive.
LEMMA BindStepInv == BindInv /\ [BindNext]_bindVars => BindInv'
<1> SUFFICES ASSUME BindInv, [BindNext]_bindVars PROVE BindInv'
  OBVIOUS
<1>1. ASSUME NEW uport \in Port \cup {0}, OpenStarts(uport) PROVE BindInv'
  BY <1>1, OpenStartsInv, Zenon
<1>2. ASSUME OpenV4 PROVE BindInv'
  BY <1>2, OpenV4Inv, Zenon
<1>3. ASSUME OpenV6 PROVE BindInv'
  BY <1>3, OpenV6Inv, Zenon
<1>4. ASSUME Close PROVE BindInv'
  BY <1>4, CloseInv, Zenon
<1>5. ASSUME NEW p \in Sender, SendStep(p) PROVE BindInv'
  BY <1>5, SendStepInv, Zenon
<1>6. ASSUME ReceiveStep PROVE BindInv'
  <2>1. UNCHANGED <<sock, bind, opened>>
    BY <1>6, Zenon DEF ReceiveStep, ReceiveIP
  <2> QED
    BY <2>1, ReceiveInv, Zenon
<1>7. ASSUME UNCHANGED bindVars PROVE BindInv'
  <2>1. UNCHANGED <<sock, bind, opened>>
    BY <1>7, Zenon DEF bindVars
  <2> QED
    BY <2>1, ReceiveInv, Zenon
<1> QED
  BY <1>1, <1>2, <1>3, <1>4, <1>5, <1>6, <1>7, Zenon DEF BindNext, BindStep

\* However often Open fails, is tried again on another port, or is followed by Close, and whatever sends are
\* under way: the sockets open between the calls are those of the bind, on one port.
THEOREM SocketsAreTheBinds == BindSpec => []SocketsAccounted
<1>1. BindInit => BindInv
  BY BindInitInv
<1>2. BindInv /\ [BindNext]_bindVars => BindInv'
  BY BindStepInv
<1>3. BindInv => SocketsAccounted
  BY Zenon DEF BindInv
<1> QED
  BY <1>1, <1>2, <1>3, PTL DEF BindSpec

-----------------------------------------------------------------------------
(* The shared TUN                                                            *)

\* What the pump and the sessions are in.  A session that has a reader, is active or is delivered to
\* was attached.
TunType ==
  /\ pump \in [pc : {"off", "read", "lookup", "deliver", "ended"}, pkt : Nat, to : Session \cup {NoSession}]
  /\ pump.pc = "deliver" => pump.to \in Session
  /\ active \in Session \cup {NoSession} /\ newest \in Session \cup {NoSession}
  /\ sess \in [Session -> {"none", "open", "closing", "closed"}]
  /\ reader \in [Session -> {"off", "wait", "busy", "ended"}]
  /\ nread \in Nat /\ taken \in Seq(Nat)

\* The packet that the pump holds is the last it read, and is not among those taken before it.
HeldIsNewest ==
  /\ pump.pc \in {"lookup", "deliver"} /\ pump.pkt # ReadError =>
       pump.pkt = nread /\ \A i \in 1..Len(taken) : taken[i] < nread
  /\ \A i \in 1..Len(taken) : taken[i] <= nread

\* A packet was lost to a session, not to something else.
LostOf == \A l \in lost : l[2] \in Session \cup {NoSession}

\* The inductive invariant.
TunInv == TunType /\ HeldIsNewest /\ TakenInOrder /\ LostOf /\ LostToClose /\ NewestStaysActive

\* The invariant holds of a TUN that no session was opened on.
LEMMA TunInitInv == ASSUME TunInit PROVE TunInv
BY DEF TunInit, TunInv, TunType, HeldIsNewest, TakenInOrder, LostOf, LostToClose, NewestStaysActive, ReadError

\* Appending a number above all others keeps a sequence increasing.
LEMMA AppendAbove ==
  ASSUME NEW q \in Seq(Nat), NEW n \in Nat, \A i \in 1..Len(q) : q[i] < n,
         \A i \in 1..(Len(q) - 1) : q[i] < q[i + 1]
  PROVE  /\ Append(q, n) \in Seq(Nat) /\ Len(Append(q, n)) = Len(q) + 1
         /\ \A i \in 1..Len(Append(q, n)) : Append(q, n)[i] <= n
         /\ \A i \in 1..(Len(Append(q, n)) - 1) : Append(q, n)[i] < Append(q, n)[i + 1]
<1>1. \A i \in 1..Len(q) : Append(q, n)[i] = q[i]
  OBVIOUS
<1>2. Append(q, n)[Len(q) + 1] = n /\ Len(Append(q, n)) = Len(q) + 1 /\ Append(q, n) \in Seq(Nat)
  OBVIOUS
<1>3. ASSUME NEW i \in 1..Len(q) PROVE Append(q, n)[i] < Append(q, n)[i + 1]
  <2>1. CASE i = Len(q)
    BY <1>1, <1>2, <2>1, Zenon
  <2>2. CASE i # Len(q)
    BY <1>1, <2>2
  <2> QED BY <2>1, <2>2, Zenon
<1>4. \A i \in 1..Len(q) : q[i] \in Nat
  OBVIOUS
<1> QED BY <1>1, <1>2, <1>3, <1>4

\* Steps that leave the pump's packet and what was taken alone.
LEMMA TunSessionStep ==
  ASSUME TunInv, NEW s \in Session, SessionStep(s) PROVE TunInv'
<1> USE DEF TunInv, TunType, HeldIsNewest, TakenInOrder, LostOf, LostToClose, NewestStaysActive
<1>1. CASE Attach(s)
  BY <1>1, Zenon DEF Attach
<1>2. CASE ReadOn(s)
  BY <1>2, Zenon DEF ReadOn
<1>3. CASE CloseSession(s)
  BY <1>3, Zenon DEF CloseSession
<1>4. CASE Detach(s)
  BY <1>4, Zenon DEF Detach
<1> QED BY <1>1, <1>2, <1>3, <1>4, Zenon DEF SessionStep

\* The pump drops a packet that no session is there for, or whose session is closed.
LEMMA TunDrop ==
  ASSUME TunInv, NEW to \in Session \cup {NoSession}, Drop(to), pump.pc \in {"lookup", "deliver"},
         to # NoSession => sess[to] \in {"closing", "closed"}, UNCHANGED <<real, active, newest, sess, reader, nread>>
  PROVE  TunInv'
<1> USE DEF TunInv, TunType, HeldIsNewest, TakenInOrder, LostOf, LostToClose, NewestStaysActive
<1>1. TunType'
  BY Zenon DEF Drop
<1>2. HeldIsNewest' /\ TakenInOrder' /\ NewestStaysActive'
  BY Zenon DEF Drop
<1>3. LostOf' /\ LostToClose'
  BY DEF Drop
<1> QED BY <1>1, <1>2, <1>3, Zenon

\* Each step of the pump goroutine keeps the invariant.
LEMMA TunPumpStep ==
  ASSUME TunInv, Fail \/ PumpRead \/ Lookup \/ PumpDeliver \/ Shutdown PROVE TunInv'
<1> USE DEF TunInv
<1>1. CASE Fail \/ Shutdown
  BY <1>1 DEF Fail, Shutdown, TunType, HeldIsNewest, TakenInOrder, LostOf, LostToClose, NewestStaysActive
<1>2. CASE PumpRead
  <2>1. /\ pump' = [pc |-> "lookup", pkt |-> pump'.pkt, to |-> pump.to]
        /\ (pump'.pkt = nread + 1 /\ nread' = nread + 1) \/ (pump'.pkt = ReadError /\ nread' = nread)
        /\ UNCHANGED <<real, active, newest, sess, reader, taken, lost>>
    BY <1>2, Zenon DEF PumpRead, TunType
  <2>2. TunType'
    BY <2>1 DEF TunType, ReadError
  <2>3. \A i \in 1..Len(taken) : taken[i] \in Nat
    BY DEF TunType
  <2>4. HeldIsNewest'
    BY <2>1, <2>3 DEF HeldIsNewest, TunType, ReadError
  <2>5. TakenInOrder' /\ LostOf' /\ LostToClose' /\ NewestStaysActive'
    BY <2>1, Zenon DEF TakenInOrder, LostOf, LostToClose, NewestStaysActive
  <2> QED BY <2>2, <2>4, <2>5, Zenon
<1>3. CASE Lookup
  <2>1. CASE active = NoSession
    <3>1. Drop(NoSession) /\ pump.pc = "lookup" /\ UNCHANGED <<real, active, newest, sess, reader, nread>>
      BY <1>3, <2>1, Zenon DEF Lookup
    <3> QED BY <3>1, TunDrop, Zenon
  <2>2. CASE active # NoSession
    BY <1>3, <2>2, Zenon DEF Lookup, TunType, HeldIsNewest, TakenInOrder, LostOf, LostToClose, NewestStaysActive
  <2> QED BY <2>1, <2>2, Zenon
<1>4. CASE PumpDeliver
  <2> DEFINE Taken == /\ reader[pump.to] = "wait"
                      /\ taken' = IF pump.pkt = ReadError THEN taken ELSE Append(taken, pump.pkt)
                      /\ reader' = [reader EXCEPT ![pump.to] = IF pump.pkt = ReadError THEN "ended" ELSE "busy"]
                      /\ pump' = [pump EXCEPT !.pc = IF pump.pkt = ReadError THEN "ended" ELSE "read"]
                      /\ UNCHANGED lost
             Dropped == sess[pump.to] \in {"closing", "closed"} /\ Drop(pump.to) /\ UNCHANGED reader
  <2>1. (Taken \/ Dropped) /\ pump.pc = "deliver" /\ UNCHANGED <<real, active, newest, sess, nread>>
    BY <1>4, Zenon DEF PumpDeliver
  <2>2. CASE Dropped
    BY <2>1, <2>2, TunDrop, Zenon DEF TunType
  <2>3. CASE Taken /\ pump.pkt = ReadError
    BY <2>1, <2>3, Zenon DEF TunType, HeldIsNewest, TakenInOrder, LostOf, LostToClose, NewestStaysActive
  <2>4. CASE Taken /\ pump.pkt # ReadError
    <3>1. taken' \in Seq(Nat) /\ TakenInOrder' /\ \A i \in 1..Len(taken') : taken'[i] <= nread
      BY <2>1, <2>4, AppendAbove, Zenon DEF TunType, HeldIsNewest, TakenInOrder
    <3>2. TunType' /\ HeldIsNewest'
      BY <2>1, <2>4, <3>1, Zenon DEF TunType, HeldIsNewest
    <3>3. LostOf' /\ LostToClose' /\ NewestStaysActive'
      BY <2>1, <2>4, Zenon DEF LostOf, LostToClose, NewestStaysActive
    <3> QED BY <3>1, <3>2, <3>3, Zenon
  <2> QED BY <2>1, <2>2, <2>3, <2>4, Zenon
<1> QED BY <1>1, <1>2, <1>3, <1>4, Zenon

\* On every TUN, however sessions come and go, packets keep their order, none is lost but to the close
\* of its session, and the newest session stays the active one (sharedTUN and tunSession).
THEOREM SharedTunSafe ==
  TunSpec => [](TakenInOrder /\ LostToClose /\ NewestStaysActive)
<1>1. TunInit => TunInv
  BY TunInitInv, Zenon
<1>2. TunInv /\ [TunNext]_tunVars => TunInv'
  <2> SUFFICES ASSUME TunInv, [TunNext]_tunVars PROVE TunInv'
    BY Zenon
  <2>1. CASE UNCHANGED tunVars
    BY <2>1, Zenon DEF tunVars, TunInv, TunType, HeldIsNewest, TakenInOrder, LostOf, LostToClose, NewestStaysActive
  <2>2. CASE TunNext
    BY <2>2, TunSessionStep, TunPumpStep, Zenon DEF TunNext
  <2> QED BY <2>1, <2>2, Zenon
<1>3. TunInv => TakenInOrder /\ LostToClose /\ NewestStaysActive
  BY Zenon DEF TunInv
<1> QED BY <1>1, <1>2, <1>3, PTL DEF TunSpec
==============================================================================
