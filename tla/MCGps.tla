------------------------------- MODULE MCGps --------------------------------
(***************************************************************************)
(* Gps for TLC.  The two stuttering steps are the states in which the      *)
(* system rightly does nothing, so that TLC's deadlock check finds every   *)
(* other state in which all goroutines wait.                               *)
(***************************************************************************)
EXTENDS Gps

Terminated == ~Alive /\ UNCHANGED vars

\* GPS or the modem is off or given up, and no command is left to turn it on.
Quiescent ==
    /\ m.pc = "select" /\ ~wish.stopping /\ left = 0
    /\ ~wish.gps \/ (~wish.enabled /\ ~svc.applied /\ ~svc.gaveUp) \/ (wish.enabled /\ svc.gaveUp)
    /\ UNCHANGED vars

MCSpec == Init /\ [][Next \/ Terminated \/ Quiescent]_vars /\ Fairness
=============================================================================
