---------------------------- MODULE MCSmsWatch ----------------------------
(***************************************************************************)
(* SmsWatch for TLC.  The stuttering step is the state in which the modem  *)
(* is off and no command is left to turn it on, so that TLC's deadlock     *)
(* check finds every other state in which nothing happens.                 *)
(***************************************************************************)
EXTENDS SmsWatch

\* A command and its reversal with one fault, two faults, or a modem left disabled.
Scenarios ==
    {[commands |-> 2, faults |-> 1], [commands |-> 0, faults |-> 2],
     [commands |-> 1, faults |-> 0]}

Quiescent == ~modemEnabled /\ ~applied /\ left.commands = 0 /\ m.pc = "select" /\ UNCHANGED vars

MCSpec == Init /\ [][Next \/ Quiescent]_vars /\ Fairness
=============================================================================
