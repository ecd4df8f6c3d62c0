------------------------------- MODULE MCApn --------------------------------
(* Instances of ApnTransaction: no APN, one with and one without a login. *)
EXTENDS ApnTransaction, TLC

Setting(apn, login, auth) == [apn |-> apn, login |-> login, auth |-> auth]
X == Setting("x", "u", "pap")
Y == Setting("y", "", "none")
MCConfigs == {Empty, X, Y}
TwoConfigs == {Empty, X}

\* A world that has the settings c, connected or not.
Consistent(c, auto, active) ==
    [mem |-> Profile(c), disk |-> Profile(c), auto |-> auto, diskAuto |-> auto,
     active |-> active, mm |-> c, cid |-> c.apn, registered |-> TRUE]

\* Settings of an earlier run, stale attach settings, a CID1 that is missing.
MCProfiles ==
    {Consistent(X, TRUE, TRUE), Consistent(Empty, FALSE, FALSE),
     [Consistent(X, TRUE, FALSE) EXCEPT !.mm = Empty],
     [Consistent(Empty, TRUE, TRUE) EXCEPT !.cid = "absent"]}
SafetyProfiles == {Consistent(X, TRUE, TRUE), [Consistent(Empty, TRUE, TRUE) EXCEPT !.cid = "absent"]}

Disturb(failures, cancels, crashes, settings, swaps, recoveries) ==
    [failures |-> failures, cancels |-> cancels, crashes |-> crashes,
     settings |-> settings, swaps |-> swaps, recoveries |-> recoveries]

\* SIM cards and modem paths are only compared with one another.
Anonymous == Permutations(ICCIDs) \cup Permutations(ModemPaths)

SafetyBounds == Disturb(2, 1, 1, 0, 2, 1)
ConvergeBounds == Disturb(2, 0, 0, 1, 0, 0)
=============================================================================
