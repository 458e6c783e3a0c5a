----------------------------- MODULE MCAdmission -----------------------------
(***************************************************************************)
(* Cookies and Ratelimiter for TLC.  A handshake worker goes through the one  *)
(* and then the other; the two share no state, so each behaviour exercises    *)
(* one of them, chosen in its initial state.                                *)
(***************************************************************************)
EXTENDS Cookies, Ratelimiter, TLC

VARIABLE part

Init == part \in {"cookies", "limiter"} /\ CookieInit /\ LimiterInit

Next ==
  \/ part = "cookies" /\ CookieNext /\ UNCHANGED <<part, limiterVars>>
  \/ part = "limiter" /\ LimiterNext /\ UNCHANGED <<part, cookieVars>>

Spec == Init /\ [][Next]_<<part, cookieVars, limiterVars>>

\* Which worker, caller or address it is makes no difference.
Symmetry == Permutations(Worker) \cup Permutations(Addr) \cup Permutations(Caller) \cup Permutations(Ip)
==============================================================================
