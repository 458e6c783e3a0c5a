----------------------------- MODULE MCOutbound -----------------------------
(***************************************************************************)
(* Small instances of Outbound: c1 is the TUN reader, c2 any other caller,  *)
(* w1 the encryption worker.                                                *)
(***************************************************************************)
EXTENDS Outbound
CONSTANTS c1, c2, w1

VARIABLE part

\* Either a run of the peer that is not stopped, with packets for two keypairs,
\* or a peer whose first keypair was zeroed and whose first packet was flushed
\* from the staged queue, which is then stopped while a packet and a keepalive
\* are on their way.
MCInit ==
  /\ staged = <<>> /\ current = NoKeypair
  /\ sendNonce = [k \in Keypair |-> 0] /\ aged = {}
  /\ caller = [c \in Caller |-> Idle]
  /\ outbound = <<>> /\ encryption = <<>>
  /\ encryptor = [w \in Encryptor |-> Free] /\ unlocked = {}
  /\ sequential = Free
  /\ running = TRUE /\ stop = "none" /\ up = TRUE
  /\ assigned = {} /\ wire = <<>>
  /\ \/ /\ part = "running" /\ derived = 0
        /\ counts = [packets |-> 0, keepalives |-> MaxKeepalive, stops |-> 0]
     \/ /\ part = "stopping" /\ derived = 1
        /\ counts = [packets |-> 1, keepalives |-> 0, stops |-> 0]

MCNext == Next /\ (part = "running" => running') /\ UNCHANGED part

MCSpec == MCInit /\ [][MCNext]_<<vars, part>> /\ Fairness
=============================================================================
