----------------------------- MODULE MCTunTimers -----------------------------
(***************************************************************************)
(* The timers of a peer and the segmentation offload of the TUN device, for  *)
(* TLC.  The two share no state, so a behaviour exercises one of them,       *)
(* chosen in its initial state.                                              *)
(***************************************************************************)
EXTENDS Timers, Offload

VARIABLE part

MCInit ==
  /\ OffloadInit
  /\ \/ part = "timers" /\ Init
     \/ part = "offload" /\ peer = NewPeer(FALSE) /\ late = 0 /\ stray = 0

MCNext ==
  \/ part = "timers" /\ Next /\ UNCHANGED <<part, offloadVars>>
  \/ part = "offload" /\ OffloadNext /\ UNCHANGED <<part, vars>>

MCSpec == MCInit /\ [][MCNext]_<<part, vars, offloadVars>>

MCQuality == {[class |-> 1, valid |-> TRUE], [class |-> 1, valid |-> FALSE],
              [class |-> 2, valid |-> TRUE]}
==============================================================================
