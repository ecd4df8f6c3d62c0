------------------------------- MODULE MCLink -------------------------------
(* Instances of LinkRemedy.  A snapshot of each layer's fault, of two faults  *)
(* at once, of a bearer the AT cross-check contradicts, and of unread fields. *)
EXTENDS LinkRemedy

Good == [present |-> TRUE, port |-> "ok", power |-> "on", simLock |-> FALSE,
         registered |-> TRUE, packet |-> "attached", bearer |-> "up", at |-> "unread",
         netdev |-> "up", address |-> "same", session |-> TRUE]

MCSnapshots ==
    {Good, [Good EXCEPT !.power = "off"], [Good EXCEPT !.packet = "detached"],
     [Good EXCEPT !.at = "inactive"], [Good EXCEPT !.address = "differs"],
     [Good EXCEPT !.registered = FALSE, !.bearer = "suspended", !.netdev = "no-route"],
     [Good EXCEPT !.bearer = "unknown", !.netdev = "unknown", !.session = FALSE]}

ShortCooldown == [r \in Remedies |-> 1]
=============================================================================
