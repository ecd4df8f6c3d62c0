---------------------------- MODULE MCLifecycle ----------------------------
(***************************************************************************)
(* ModemLifecycle for TLC.  The two stuttering steps below are the states  *)
(* in which the system rightly does nothing, so that TLC's deadlock check  *)
(* finds every other state in which all goroutines wait.                   *)
(***************************************************************************)
EXTENDS ModemLifecycle

\* A process that has exited takes no more steps.
Terminated == ~Alive /\ UNCHANGED vars

\* After the last command and the last tick the monitor waits in its select.
Quiescent ==
    /\ mpc = "select" /\ ~modemStateChange /\ ticks = 0 /\ commands = 0
    /\ cpc = "idle" /\ vpc = "idle"
    /\ UNCHANGED vars

MCNext == Next \/ Terminated \/ Quiescent
MCSpec == Init /\ [][MCNext]_vars
MCFairSpec == MCSpec /\ Fairness
=============================================================================
