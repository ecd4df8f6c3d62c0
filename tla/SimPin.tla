------------------------------- MODULE SimPin -------------------------------
(***************************************************************************)
(* Reconciliation of the SIM PIN lock with the configured PIN (sim.Manager). *)
(*                                                                          *)
(* A monitor tick reads the state of the SIM and acts on what it read, with  *)
(* at most one call.  In between the setting may change and the SIM may be   *)
(* replaced, which replaces its D-Bus object.  A call that fails for another *)
(* reason than the PIN (a timeout, a lost reply) may or may not have reached *)
(* the SIM.                                                                  *)
(***************************************************************************)
EXTENDS Integers

CONSTANTS
    PINs,            \* PIN values
    RetryLimits,     \* tries a fresh SIM grants: three by the standard, more on some
    MinRetries,      \* minRetriesBeforeAttempt
    None,            \* absence of a value
    Bounds           \* bounds of a run: swaps, restarts, failures, settings

ASSUME RetryAssumption ==
    /\ MinRetries \in Nat /\ MinRetries >= 2
    /\ RetryLimits \subseteq {n \in Nat : n >= MinRetries}
ASSUME PinAssumption == None \notin PINs
ASSUME BoundsAssumption ==
    Bounds \in [swaps : Nat, restarts : Nat, failures : Nat, settings : Nat]

VARIABLES
    sim,            \* the inserted SIM; path is the number of its D-Bus object
    configuredPIN,  \* cellular.sim-pin, or None
    triedThisRun,
    input,          \* what the tick has read, or None between ticks
    outcome,        \* of the last Reconcile: modem.pin-action
    counts          \* swaps, restarts, failures and settings so far

vars == <<sim, configuredPIN, triedThisRun, input, outcome, counts>>

Locks == {"none", "sim-pin", "sim-puk"}
SimType == [path : Nat, pin : PINs, limit : RetryLimits, retries : Nat,
            lock : Locks, lockEnabled : BOOLEAN]
InputType == [path : Nat, lock : Locks \cup {"unknown"}, lockEnabled : BOOLEAN \cup {None},
              retries : Nat]
Outcomes == {"unconfigured", "ok", "unlocked", "lock-enabled", "wrong-pin",
             "low-retries-bail", "puk-required", "error"}

Counted(what) ==
    /\ counts[what] < Bounds[what]
    /\ counts' = [counts EXCEPT ![what] = @ + 1]

-----------------------------------------------------------------------------
(* The SIM (external) *)

\* Its state after a PIN was presented for a call that sets the lock so.
Presented(pin, lock, lockEnabled) ==
    IF pin = sim.pin
    THEN [sim EXCEPT !.retries = sim.limit, !.lock = lock, !.lockEnabled = lockEnabled]
    ELSE [sim EXCEPT !.retries = @ - 1, !.lock = IF sim.retries = 1 THEN "sim-puk" ELSE @]

-----------------------------------------------------------------------------
(* A monitor tick *)

\* GetModemInfo: what is read may be incomplete; unread retries count as 0.
Read(lockKnown, facilityKnown, retriesKnown) ==
    /\ input = None
    /\ input' = [path |-> sim.path,
                 lock |-> IF lockKnown THEN sim.lock ELSE "unknown",
                 lockEnabled |-> IF facilityKnown THEN sim.lockEnabled ELSE None,
                 retries |-> IF retriesKnown THEN sim.retries ELSE 0]
    /\ UNCHANGED <<sim, configuredPIN, triedThisRun, outcome, counts>>

\* Mutant: one try less is asked for than a wrong PIN leaves.
MayTryLate == ~triedThisRun /\ input.retries >= MinRetries - 1

\* Mutant: a PIN rejected in this run is tried again.
MayTryAgain == input.retries >= MinRetries

\* Mutant: a standard SIM has too few tries from the start.
MayTryStrict == ~triedThisRun /\ input.retries > MinRetries

\* The gates of actUnlock and actEnableLock.
MayTry == ~triedThisRun /\ input.retries >= MinRetries

WantsUnlock == input.lock = "sim-pin"
WantsLock == input.lock = "none" /\ input.lockEnabled = FALSE

\* Reconcile without a call.
ReconcileIdle ==
    /\ input # None /\ input' = None
    /\ ~(configuredPIN # None /\ (WantsUnlock \/ WantsLock) /\ MayTry)
    /\ outcome' = IF configuredPIN = None THEN "unconfigured"
                  ELSE IF input.lock = "sim-puk" THEN "puk-required"
                  ELSE IF WantsUnlock \/ WantsLock
                       THEN (IF triedThisRun THEN "wrong-pin" ELSE "low-retries-bail")
                  ELSE IF input.lock = "unknown" \/ input.lockEnabled = None THEN "error"
                  ELSE "ok"
    /\ UNCHANGED <<sim, configuredPIN, triedThisRun, counts>>

\* The state of the SIM once the call has reached it.
Called ==
    IF WantsUnlock THEN Presented(configuredPIN, "none", sim.lockEnabled)
    ELSE Presented(configuredPIN, sim.lock, TRUE)

\* Reconcile that calls SendPin or EnablePin and gets the SIM's answer.
ReconcileCall ==
    /\ input # None /\ input' = None
    /\ configuredPIN # None /\ (WantsUnlock \/ WantsLock) /\ MayTry
    /\ input.path = sim.path /\ sim' = Called
    /\ IF configuredPIN = sim.pin
       THEN outcome' = (IF WantsUnlock THEN "unlocked" ELSE "lock-enabled") /\ UNCHANGED triedThisRun
       ELSE IF sim'.lock = "sim-puk"
       THEN outcome' = "puk-required" /\ UNCHANGED triedThisRun
       ELSE outcome' = "wrong-pin" /\ triedThisRun' = TRUE
    /\ UNCHANGED <<configuredPIN, counts>>

\* A call that fails for another reason, or for an object that is gone.
ReconcileFails ==
    /\ input # None /\ input' = None
    /\ configuredPIN # None /\ (WantsUnlock \/ WantsLock) /\ MayTry
    /\ IF input.path = sim.path
       THEN Counted("failures") /\ sim' \in {sim, Called}
       ELSE UNCHANGED <<sim, counts>>
    /\ outcome' = "error"
    /\ UNCHANGED <<configuredPIN, triedThisRun>>

-----------------------------------------------------------------------------
(* The world *)

FreshSim(path) ==
    {[path |-> path, pin |-> p, limit |-> n, retries |-> n,
      lock |-> IF e THEN "sim-pin" ELSE "none", lockEnabled |-> e] :
          p \in PINs, n \in RetryLimits, e \in BOOLEAN}

SwapSim ==
    /\ Counted("swaps") /\ sim' \in FreshSim(sim.path + 1)
    /\ UNCHANGED <<configuredPIN, triedThisRun, input, outcome>>

\* A power cycle of the modem locks a SIM whose lock is enabled.
PowerCycle ==
    /\ sim.lock = "none" /\ sim.lockEnabled
    /\ sim' = [sim EXCEPT !.lock = "sim-pin"]
    /\ UNCHANGED <<configuredPIN, triedThisRun, input, outcome, counts>>

\* Settings watcher of cellular.sim-pin.
ConfigurePin(pin) ==
    /\ pin # configuredPIN /\ configuredPIN' = pin /\ Counted("settings")
    /\ UNCHANGED <<sim, triedThisRun, input, outcome>>

\* The service is restarted, or crashes and is started again.
Restart ==
    /\ Counted("restarts")
    /\ triedThisRun' = FALSE /\ input' = None /\ outcome' = "unconfigured"
    /\ UNCHANGED <<sim, configuredPIN>>

-----------------------------------------------------------------------------
Init ==
    /\ sim \in FreshSim(0) /\ configuredPIN \in PINs \cup {None}
    /\ triedThisRun = FALSE /\ input = None /\ outcome = "unconfigured"
    /\ counts = [swaps |-> 0, restarts |-> 0, failures |-> 0, settings |-> 0]

Reconcile == ReconcileIdle \/ ReconcileCall \/ ReconcileFails

Next ==
    \/ \E l, f, r \in BOOLEAN : Read(l, f, r)
    \/ ReconcileIdle \/ ReconcileCall \/ ReconcileFails
    \/ SwapSim \/ PowerCycle \/ Restart
    \/ \E pin \in PINs \cup {None} : ConfigurePin(pin)

Spec == Init /\ [][Next]_vars

\* The monitor keeps ticking, and reads and calls succeed from time to time.
Fairness ==
    /\ SF_vars(Read(TRUE, TRUE, TRUE)) /\ WF_vars(Reconcile) /\ SF_vars(ReconcileCall)

FairSpec == Spec /\ Fairness

-----------------------------------------------------------------------------
(* Properties *)

\* Every variable has its type: a SIM never has a negative number of tries, nor
\* does the tick read one.
TypeOK ==
    /\ sim \in SimType
    /\ configuredPIN \in PINs \cup {None} /\ triedThisRun \in BOOLEAN
    /\ input \in InputType \cup {None} /\ outcome \in Outcomes
    /\ counts \in [DOMAIN Bounds -> Nat]

\* Whatever PIN is configured, however often the service restarts and however
\* many calls fail with the try spent, all but one of the tries a standard SIM
\* grants are left to its owner: the service never drives it to the PUK.
SparesTries == sim.retries >= MinRetries - 1 /\ sim.lock # "sim-puk"

\* The right PIN unlocks the SIM, unless a wrong one was tried before or the
\* owner has tries to restore.
RightPinUnlocks ==
    [](  (sim.lock = "sim-pin" /\ configuredPIN = sim.pin)
       => <>(\/ sim.lock = "none" \/ configuredPIN # sim.pin
             \/ triedThisRun \/ sim.retries < MinRetries))

\* A PIN that was rejected is not presented again by this run of the service:
\* only one try of a SIM is spent on it, even where the SIM grants many.
RejectedOnce ==
    [][(triedThisRun /\ triedThisRun') => sim'.path # sim.path \/ sim'.retries = sim.retries]_vars
=============================================================================
