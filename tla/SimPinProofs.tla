---------------------------- MODULE SimPinProofs ----------------------------
(***************************************************************************)
(* SparesTries for every set of PINs, every number of tries a SIM grants    *)
(* and any number of restarts, swaps and failed calls.  The argument is     *)
(* that what a tick has read is still true when it acts: InputFresh says    *)
(* that the tries it read of this SIM are those the SIM has, or unread.     *)
(***************************************************************************)
EXTENDS SimPin, TLAPS

Limits == sim.limit >= MinRetries

InputFresh ==
    input # None => /\ input.path <= sim.path
                    /\ input.path = sim.path => input.retries \in {0, sim.retries}

\* TypeOK without what only the runs look at.
PinTypes ==
    /\ sim \in SimType /\ input \in InputType \cup {None}

PinInv == PinTypes /\ Limits /\ InputFresh /\ SparesTries

LEMMA FreshSimType ==
    ASSUME NEW path \in Nat, NEW s \in FreshSim(path)
    PROVE  /\ s \in SimType /\ s.path = path /\ s.limit >= MinRetries
           /\ s.retries >= MinRetries - 1 /\ s.lock # "sim-puk"
<1>1. PICK p \in PINs, n \in RetryLimits, e \in BOOLEAN :
        s = [path |-> path, pin |-> p, limit |-> n, retries |-> n,
             lock |-> IF e THEN "sim-pin" ELSE "none", lockEnabled |-> e]
  BY DEF FreshSim
<1>2. n \in Nat /\ n >= MinRetries /\ MinRetries \in Nat
  BY RetryAssumption
<1>. QED
  BY <1>1, <1>2 DEF SimType, Locks

LEMMA CalledSpares ==
    ASSUME PinInv, input # None, input.path = sim.path, MayTry, WantsUnlock \/ WantsLock
    PROVE  /\ Called \in SimType /\ Called.path = sim.path /\ Called.limit = sim.limit
           /\ Called.retries >= MinRetries - 1 /\ Called.lock # "sim-puk"
<1>1. input.retries = sim.retries /\ sim.retries >= MinRetries
  BY RetryAssumption DEF PinInv, PinTypes, InputFresh, MayTry, InputType
<1>2. MinRetries \in Nat /\ MinRetries >= 2 /\ RetryLimits \subseteq Nat
  BY RetryAssumption
<1>3. sim \in SimType /\ sim.limit >= MinRetries /\ sim.lock # "sim-puk"
  BY DEF PinInv, PinTypes, Limits, SparesTries
<1>4. ASSUME NEW lock \in Locks \ {"sim-puk"}, NEW e \in BOOLEAN
      PROVE  LET s == Presented(configuredPIN, lock, e)
             IN  /\ s \in SimType /\ s.path = sim.path /\ s.limit = sim.limit
                 /\ s.retries >= MinRetries - 1 /\ s.lock # "sim-puk"
  <2>1. CASE configuredPIN = sim.pin
    <3>1. Presented(configuredPIN, lock, e) =
            [sim EXCEPT !.retries = sim.limit, !.lock = lock, !.lockEnabled = e]
      BY <2>1 DEF Presented
    <3>2. sim.limit \in Nat /\ lock \in Locks /\ lock # "sim-puk"
      BY <1>2, <1>3 DEF SimType
    <3>3. Presented(configuredPIN, lock, e) \in SimType
      BY <1>3, <3>1, <3>2 DEF SimType
    <3>4. sim.limit >= MinRetries - 1
      BY <1>2, <1>3, <3>2
    <3>. QED
      BY <1>3, <3>1, <3>2, <3>3, <3>4 DEF SimType
  <2>2. CASE configuredPIN # sim.pin
    <3>1. sim.retries # 1 /\ sim.retries - 1 \in Nat /\ sim.retries - 1 >= MinRetries - 1
      BY <1>1, <1>2, <1>3 DEF SimType
    <3>2. Presented(configuredPIN, lock, e) =
            [sim EXCEPT !.retries = sim.retries - 1,
                        !.lock = IF sim.retries = 1 THEN "sim-puk" ELSE sim.lock]
      BY <2>2 DEF Presented
    <3>3. Presented(configuredPIN, lock, e) = [sim EXCEPT !.retries = sim.retries - 1, !.lock = sim.lock]
      BY <3>1, <3>2
    <3>4. Presented(configuredPIN, lock, e) \in SimType
      BY <1>3, <3>1, <3>3 DEF SimType
    <3>. QED
      BY <1>3, <3>1, <3>3, <3>4 DEF SimType
  <2>. QED BY <2>1, <2>2
<1>5. sim.lock \in Locks \ {"sim-puk"} /\ sim.lockEnabled \in BOOLEAN /\ "none" \in Locks \ {"sim-puk"}
  BY <1>3 DEF SimType, Locks
<1>. QED
  BY <1>4, <1>5 DEF Called

LEMMA PinStep == PinInv /\ [Next]_vars => PinInv'
<1>. SUFFICES ASSUME PinInv, [Next]_vars PROVE PinInv'
  OBVIOUS
<1>. USE DEF PinInv
<1>1. ASSUME NEW l \in BOOLEAN, NEW f \in BOOLEAN, NEW r \in BOOLEAN, Read(l, f, r) PROVE PinInv'
  <2>1. sim' = sim /\ sim.path \in Nat /\ sim.retries \in Nat /\ sim.lock \in Locks
        /\ sim.lockEnabled \in BOOLEAN
    BY <1>1 DEF Read, PinTypes, SimType
  <2>2. input' \in InputType /\ input'.path = sim.path /\ input'.retries \in {0, sim.retries}
    BY <1>1, <2>1 DEF Read, InputType
  <2>. QED
    BY <2>1, <2>2 DEF PinTypes, Limits, InputFresh, SparesTries
<1>2. CASE ReconcileIdle
  BY <1>2 DEF ReconcileIdle, PinTypes, Limits, InputFresh, SparesTries
<1>3. CASE ReconcileCall \/ ReconcileFails
  <2>1. input # None /\ input' = None /\ MayTry /\ (WantsUnlock \/ WantsLock)
    BY <1>3 DEF ReconcileCall, ReconcileFails
  <2>2. sim' = sim \/ (input.path = sim.path /\ sim' = Called)
    BY <1>3 DEF ReconcileCall, ReconcileFails
  <2>3. CASE sim' = sim
    BY <2>1, <2>3 DEF PinTypes, Limits, InputFresh, SparesTries
  <2>4. CASE input.path = sim.path /\ sim' = Called
    BY <2>1, <2>4, CalledSpares DEF PinTypes, Limits, InputFresh, SparesTries
  <2>. QED BY <2>2, <2>3, <2>4
<1>4. CASE SwapSim
  <2>1. sim' \in FreshSim(sim.path + 1) /\ input' = input /\ sim.path \in Nat
    BY <1>4 DEF SwapSim, PinTypes, SimType
  <2>2. /\ sim' \in SimType /\ sim'.path = sim.path + 1 /\ sim'.limit >= MinRetries
        /\ sim'.retries >= MinRetries - 1 /\ sim'.lock # "sim-puk"
    BY <2>1, FreshSimType
  <2>. QED
    BY <2>1, <2>2 DEF PinTypes, Limits, InputFresh, SparesTries, InputType
<1>5. CASE PowerCycle
  BY <1>5 DEF PowerCycle, PinTypes, SimType, Locks, Limits, InputFresh, SparesTries
<1>6. CASE Restart
  BY <1>6 DEF Restart, PinTypes, Limits, InputFresh, SparesTries
<1>7. ASSUME NEW pin, ConfigurePin(pin) PROVE PinInv'
  BY <1>7 DEF ConfigurePin, PinTypes, Limits, InputFresh, SparesTries
<1>8. CASE UNCHANGED vars
  BY <1>8 DEF vars, PinTypes, Limits, InputFresh, SparesTries
<1>. QED
  BY <1>1, <1>2, <1>3, <1>4, <1>5, <1>6, <1>7, <1>8 DEF Next

LEMMA PinInvariant == Spec => []PinInv
<1>1. Init => PinInv
  <2>. SUFFICES ASSUME Init PROVE PinInv
    OBVIOUS
  <2>1. sim \in FreshSim(0) /\ input = None /\ 0 \in Nat
    BY DEF Init
  <2>. QED
    BY <2>1, FreshSimType DEF PinInv, PinTypes, Limits, InputFresh, SparesTries
<1>. QED
  BY <1>1, PinStep, PTL DEF Spec

\* The service never takes more than one try below the standard number from a
\* SIM and never drives it to the PUK, whatever is configured and however often
\* it restarts or loses the answer of a call.
THEOREM PinSparesTries == Spec => []SparesTries
<1>1. PinInv => SparesTries
  BY DEF PinInv
<1>. QED
  BY <1>1, PinInvariant, PTL

\* A PIN rejected in this run of the service is never presented again: no further
\* try of the SIM is spent, however the setting changes and even where the SIM
\* grants many (the gates of actUnlock and actEnableLock).
THEOREM PinRejectedOnce == Spec => RejectedOnce
<1>1. ASSUME PinInv, [Next]_vars
      PROVE  [(triedThisRun /\ triedThisRun') =>
                sim'.path # sim.path \/ sim'.retries = sim.retries]_vars
  <2>. SUFFICES ASSUME triedThisRun, triedThisRun'
                PROVE  sim'.path # sim.path \/ sim'.retries = sim.retries
    OBVIOUS
  <2>1. sim \in SimType
    BY <1>1 DEF PinInv, PinTypes
  <2>2. ~ReconcileCall /\ ~ReconcileFails
    BY DEF ReconcileCall, ReconcileFails, MayTry
  <2>3. CASE SwapSim
    <3>1. sim' \in FreshSim(sim.path + 1) /\ sim.path \in Nat
      BY <2>1, <2>3 DEF SwapSim, SimType
    <3>2. sim'.path = sim.path + 1
      BY <3>1, FreshSimType
    <3>. QED
      BY <3>1, <3>2
  <2>4. CASE PowerCycle
    BY <2>1, <2>4 DEF PowerCycle, SimType
  <2>5. CASE ~SwapSim /\ ~PowerCycle
    BY <1>1, <2>2, <2>5 DEF Next, Read, ReconcileIdle, Restart, ConfigurePin, vars
  <2>. QED
    BY <2>3, <2>4, <2>5
<1>. QED
  BY <1>1, PinInvariant, PTL DEF Spec, RejectedOnce
=============================================================================
