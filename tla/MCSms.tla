------------------------------- MODULE MCSms -------------------------------
(***************************************************************************)
(* SmsService for TLC: small sets of messages and the bounds of each run.  *)
(***************************************************************************)
EXTENDS SmsService, TLC

CONSTANTS m1, m2, m3, p1, p2

Text(id, from, n) ==
    [identity |-> id, from |-> from, kind |-> "text", segments |-> n, marked |-> FALSE,
     stamped |-> TRUE, multipart |-> FALSE]

\* One ordinary message, one in several parts, one status report.
ReceiveContent ==
    (m1 :> Text("i1", "alice", 1)) @@ (m2 :> [Text("i2", "alice", 1) EXCEPT !.multipart = TRUE])
    @@ (m3 :> [Text("i3", "alice", 1) EXCEPT !.kind = "report"])

\* One segment from the modem's own number; two from a possible destination, of
\* which two copies exceed the day's budget.
ForwardContent == (m1 :> Text("i1", "self", 1)) @@ (m2 :> Text("i2", "bob", 2))

Scenario(arrivals, failures, crashes, restarts, settings, sends, deletes, skews, ticks) ==
    [arrivals |-> arrivals, failures |-> failures, crashes |-> crashes, restarts |-> restarts,
     settings |-> settings, sends |-> sends, deletes |-> deletes, skews |-> skews,
     ticks |-> ticks]

ReceiveBounds == {Scenario(3, 2, 2, 0, 0, 1, 0, 0, 0)}

\* Failures and changed destinations; or an object renumbered, an entry deleted and
\* a clock that is set.
ForwardBounds == {Scenario(2, 1, 1, 0, 2, 0, 0, 0, 2), Scenario(1, 0, 1, 1, 1, 0, 1, 1, 0)}

\* The modem's slots are only compared with one another.
Anonymous == Permutations(Paths)
=============================================================================
