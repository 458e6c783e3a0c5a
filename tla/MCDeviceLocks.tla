---------------------------- MODULE MCDeviceLocks ----------------------------
(***************************************************************************)
(* Instances of DeviceLocks.  Two requests of each kind meet packets from   *)
(* the network; one of each meets the sender and a timer, or a handshake    *)
(* worker.  A change of the private key is left to the first, as it blocks  *)
(* for ever in the others (DevicePrivateKey.cfg).                           *)
(***************************************************************************)
EXTENDS DeviceLocks

MCNext ==
  /\ Next
  /\ working # {"incoming"} =>
       /\ \A g \in DOMAIN made : made'[g] <= 1
       /\ todo'["ipc"] # IpcOperation("private_key")

\* No goroutines wait for one another in a circle of locks, of Stop and the
\* routines it waits for, and of queues.  With packets from the network, as long
\* as the inbound queue, which is of capacity 1 here and 1024 in the code, has
\* room: RoutineReceiveIncoming otherwise waits for the receiver, which waits
\* for the net lock, which BindUpdate holds while it waits for the former.
NoWaitCycleWithRoom ==
  working # {"incoming"} \/ Len(inbound) < InboundSize => NoWaitCycle

MCSpec == Init /\ [][MCNext]_vars
=============================================================================
