----------------------------- MODULE MCHandshake -----------------------------
(***************************************************************************)
(* Instances of Handshake for TLC: two devices that are each other's only  *)
(* peer, with one or two handshake workers.                                *)
(***************************************************************************)
EXTENDS Handshake, TLC

CONSTANTS A, B,                  \* devices
          AB, BA,                \* peers
          WA, WA2, WB,           \* handshake workers
          I1, I2                 \* two indices

MCDeviceOf == [q \in Peer |-> IF q = AB THEN A ELSE B]
MCMirror == [q \in Peer |-> IF q = AB THEN BA ELSE AB]
MCHostOf == [w \in Worker |-> IF w = WB THEN B ELSE A]

\* The state after a confirmed session started by A and an unconfirmed one
\* started by B, whose response is still on its way: the next handshakes and
\* packets find full slots and discard old keypairs.
Session(n, initiator) ==
  [key |-> [ie |-> 2 * n - 1, re |-> 2 * n], isInitiator |-> initiator,
   localIndex |-> IF n = 1 THEN I1 ELSE I2, remoteIndex |-> IF n = 1 THEN I1 ELSE I2]

MCEstablished ==
  /\ handshake = [q \in Peer |->
       IF q = AB
       THEN [ZeroHandshake EXCEPT !.remoteIndex = I2, !.lastTimestamp = 1]
       ELSE [state |-> "InitiationCreated", transcript |-> [ie |-> 3, re |-> 0],
             localEphemeral |-> 3, localIndex |-> I2, remoteIndex |-> I1,
             lastTimestamp |-> 1]]
  /\ keypairs = [q \in Peer |->
       [previous |-> Nil, current |-> Session(1, q = AB),
        next |-> IF q = AB THEN Session(2, FALSE) ELSE Nil]]
  /\ table = [d \in Device |-> [i \in Index |->
       LET q == IF d = A THEN AB ELSE BA
       IN CASE i = I1 -> [peer |-> q, keypair |-> Session(1, d = A)]
            [] i = I2 -> [peer |-> q, keypair |-> IF d = A THEN Session(2, FALSE) ELSE Nil]
            [] OTHER -> Nil]]
  /\ worker = [w \in Worker |-> Idle]
  /\ spent = [q \in Peer |-> {}]
  /\ inbound = [q \in Peer |-> {}]
  /\ running = [q \in Peer |-> "running"]
  /\ zeroing = [q \in Peer |-> "none"]
  /\ expiring = {}
  /\ initiations = {[peer |-> AB, sender |-> I1, ephemeral |-> 1, timestamp |-> 1],
                    [peer |-> BA, sender |-> I2, ephemeral |-> 3, timestamp |-> 1]}
  /\ responses = {[peer |-> BA, sender |-> I1, receiver |-> I1, key |-> [ie |-> 1, re |-> 2]],
                  [peer |-> AB, sender |-> I2, receiver |-> I2, key |-> [ie |-> 3, re |-> 4]]}
  /\ transports = {[peer |-> AB, receiver |-> I1, key |-> [ie |-> 1, re |-> 2],
                    isInitiator |-> TRUE]}
  \* Either two handshakes more, or one, with peers that stop, keys that expire
  \* and keys that are zeroed meanwhile: a fifth ephemeral key was lost.
  /\ \/ ephemerals = 4 /\ resets = MaxReset
     \/ ephemerals = 5 /\ resets = 0

MCEstablishedSpec == MCEstablished /\ [][Next]_vars

\* Indices are random numbers: only the zero index is special.
IndexSymmetry == Permutations(Index \ {ZeroIndex})
=============================================================================
