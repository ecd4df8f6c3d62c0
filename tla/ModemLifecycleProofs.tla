------------------------ MODULE ModemLifecycleProofs ------------------------
(***************************************************************************)
(* Theorems about ModemLifecycle for every value of its constants.         *)
(***************************************************************************)
EXTENDS ModemLifecycle, TLAPS

USE RecoveryAttemptsAssumption, CommandsAssumption, TicksAssumption,
    TerminateAssumption, GpioAssumption, FlushAssumption

(***************************************************************************)
(* TypeOK is not inductive as it stands: that the two counters stay within *)
(* MaxRecoveryAttempts depends on the guard of the step before.            *)
(***************************************************************************)
CountersGuarded ==
    /\ mpc = "ensStartWait" => attempt < MaxRecoveryAttempts
    /\ mpc = "recBegin" => recoveryAttempts < MaxRecoveryAttempts

TypeInv == TypeOK /\ CountersGuarded

\* What the frames stand for; expanded in every step.
USE DEF targetVars, opVars, handlerVars, healthVars, worldVars, runVars, handlerFrame,
        bodyFrame, monitorFrame, disableFrame, statusFrame, failureFrame, ladderFrame,
        shutdownFrame, Goto, startModemOperation, finishModemOperation,
        signalModemStateChange, HardwareStep

\* The part of the type invariant about Boolean variables.
BooleansOK ==
    /\ modemEnabled \in BOOLEAN /\ modemStateChange \in BOOLEAN /\ applied \in BOOLEAN
    /\ powered \in BOOLEAN /\ inhibitor \in BOOLEAN /\ usageDirty \in BOOLEAN
    /\ ctxDone \in BOOLEAN /\ exhausted \in BOOLEAN

LEMMA TypeInit == Init => TypeInv
  <1> SUFFICES ASSUME Init PROVE TypeInv
    OBVIOUS
  <1>1. BooleansOK
    BY Zenon DEF Init, BooleansOK
  <1> QED
    BY <1>1 DEF BooleansOK, Init, TypeInv, TypeOK, CountersGuarded, MonitorStates,
                StartupStates, HealthStates

LEMMA TypeHandlers == TypeInv /\ Handlers => TypeInv'
  <1> SUFFICES ASSUME TypeInv, Handlers PROVE TypeInv'
    OBVIOUS
  <1> USE DEF TypeInv, TypeOK, CountersGuarded
  <1>1. CASE EnableStore          BY <1>1 DEF EnableStore
  <1>2. CASE EnableAddInhibitor   BY <1>2 DEF EnableAddInhibitor
  <1>3. CASE DisableStore
    <2>1. modemEnabled' \in BOOLEAN  BY <1>3, Zenon DEF DisableStore
    <2> QED BY <1>3, <2>1 DEF DisableStore
  <1>4. CASE DisableReadCancel    BY <1>4 DEF DisableReadCancel
  <1>5. CASE DisableCallCancel    BY <1>5 DEF DisableCallCancel
  <1>6. CASE CommandSignal        BY <1>6 DEF CommandSignal
  <1>7. CASE VehicleSwap          BY <1>7 DEF VehicleSwap
  <1>8. CASE VehicleAddInhibitor  BY <1>8 DEF VehicleAddInhibitor
  <1>9. CASE VehicleSignal        BY <1>9 DEF VehicleSignal
  <1> QED BY <1>1, <1>2, <1>3, <1>4, <1>5, <1>6, <1>7, <1>8, <1>9 DEF Handlers

LEMMA TypeStartup == TypeInv /\ Startup => TypeInv'
  <1> SUFFICES ASSUME TypeInv, Startup PROVE TypeInv'
    OBVIOUS
  <1> USE DEF TypeInv, TypeOK, CountersGuarded, MonitorStates, StartupStates, EnsureStates,
              HealthStates
  <1>1. CASE StartupCheck         BY <1>1 DEF StartupCheck
  <1>2. CASE StartupBegin         BY <1>2 DEF StartupBegin
  <1>3. CASE StartupContinue      BY <1>3 DEF StartupContinue
  <1>4. CASE StartupRestart
    <2>1. BooleansOK'  BY <1>4, Zenon DEF StartupRestart, BooleansOK
    <2> QED BY <1>4, <2>1 DEF StartupRestart, BooleansOK
  <1>5. CASE StartupExit          BY <1>5 DEF StartupExit
  <1>6. CASE StartupInhibitCheck  BY <1>6 DEF StartupInhibitCheck
  <1>7. CASE StartupAddInhibitor  BY <1>7 DEF StartupAddInhibitor
  <1> QED BY <1>1, <1>2, <1>3, <1>4, <1>5, <1>6, <1>7 DEF Startup

LEMMA TypeEnsure == TypeInv /\ EnsureModemEnabled => TypeInv'
  <1> SUFFICES ASSUME TypeInv, EnsureModemEnabled PROVE TypeInv'
    OBVIOUS
  <1> USE DEF TypeInv, TypeOK, CountersGuarded, MonitorStates, EnsureStates, HealthStates
  <1>1. CASE EnsurePresent          BY <1>1 DEF EnsurePresent
  <1>2. CASE EnsureWait             BY <1>2 DEF EnsureWait
  <1>3. CASE EnsureStartModem       BY <1>3 DEF EnsureStartModem
  <1>4. CASE EnsureStartModemFails  BY <1>4 DEF EnsureStartModemFails
  <1>5. CASE EnsureStartWait        BY <1>5 DEF EnsureStartWait
  <1>6. CASE EnsureGiveUp           BY <1>6 DEF EnsureGiveUp
  <1> QED BY <1>1, <1>2, <1>3, <1>4, <1>5, <1>6 DEF EnsureModemEnabled

LEMMA TypeLoop == TypeInv /\ MonitorLoop => TypeInv'
  <1> SUFFICES ASSUME TypeInv, MonitorLoop PROVE TypeInv'
    OBVIOUS
  <1> USE DEF TypeInv, TypeOK, CountersGuarded, MonitorStates, EnsureStates
  <1>1. CASE MonitorInit            BY <1>1 DEF MonitorInit
  <1>2. CASE MonitorStop            BY <1>2 DEF MonitorStop
  <1>3. CASE MonitorStateChange
    <2>1. modemStateChange' \in BOOLEAN  BY <1>3, Zenon DEF MonitorStateChange
    <2> QED BY <1>3, <2>1 DEF MonitorStateChange
  <1>4. CASE MonitorTick            BY <1>4 DEF MonitorTick
  <1>5. CASE MonitorGpsFailure      BY <1>5 DEF MonitorGpsFailure
  <1>6. CASE MonitorRefreshRequest  BY <1>6 DEF MonitorRefreshRequest
  <1>7. CASE ReconcileTarget
    <2>1. applied' \in BOOLEAN  BY <1>7, Zenon DEF ReconcileTarget
    <2> QED BY <1>7, <2>1 DEF ReconcileTarget
  <1>8. CASE ReconcileBegin
    <2>1. exhausted' \in BOOLEAN  BY <1>8, Zenon DEF ReconcileBegin
    <2> QED BY <1>8, <2>1 DEF ReconcileBegin
  <1>9. CASE ReconcileEnd
    <2>1. applied' \in BOOLEAN  BY <1>9, Zenon DEF ReconcileEnd
    <2> QED BY <1>9, <2>1 DEF ReconcileEnd
  <1>10. CASE DisablePowerOff
    <2>1. powered' \in BOOLEAN  BY <1>10, Zenon DEF DisablePowerOff
    <2> QED BY <1>10, <2>1 DEF DisablePowerOff
  <1>11. CASE DisableFlush
    <2>1. usageDirty' \in BOOLEAN  BY <1>11, Zenon DEF DisableFlush
    <2>2. disableFailed' \in SUBSET {"powerOff", "flush"}  BY <1>11 DEF DisableFlush
    <2> QED BY <1>11, <2>1, <2>2 DEF DisableFlush
  <1>12. CASE DisableRelease
    <2>1. inhibitor' \in BOOLEAN  BY <1>12, Zenon DEF DisableRelease
    <2> QED BY <1>12, <2>1 DEF DisableRelease
  <1> QED BY <1>1, <1>2, <1>3, <1>4, <1>5, <1>6, <1>7, <1>8, <1>9, <1>10, <1>11, <1>12
          DEF MonitorLoop

\* What no step of the shutdown touches.
LEMMA ShutdownKeeps ==
    ASSUME Shutdown
    PROVE  /\ UNCHANGED <<shutdownFrame, ctxDone>>
           /\ (usageDirty' => usageDirty) /\ (inhibitor' => inhibitor)
  <1>1. UNCHANGED <<shutdownFrame, ctxDone>>
    BY Zenon DEF Shutdown, ShutdownForwarderDone, ShutdownAwaited, ShutdownStopWatch,
       ShutdownLocationClosed, ShutdownFlush, ShutdownRelease, ShutdownClose
  <1>2. usageDirty' => usageDirty
    BY Zenon DEF Shutdown, ShutdownForwarderDone, ShutdownAwaited, ShutdownStopWatch,
       ShutdownLocationClosed, ShutdownFlush, ShutdownRelease, ShutdownClose
  <1>3. inhibitor' => inhibitor
    BY Zenon DEF Shutdown, ShutdownForwarderDone, ShutdownAwaited, ShutdownStopWatch,
       ShutdownLocationClosed, ShutdownFlush, ShutdownRelease, ShutdownClose
  <1> QED BY <1>1, <1>2, <1>3

\* Helpers of the status round and of the ladder.
LEMMA TypeStatusStep ==
    ASSUME TypeInv, NEW from, NEW to \in MonitorStates \ {"ensStartWait", "recBegin"},
           StatusStep(from, to)
    PROVE  TypeInv'
  BY DEF StatusStep, TypeInv, TypeOK, CountersGuarded

LEMMA TypeStatusEnd ==
    ASSUME TypeInv, NEW from, StatusEnd(from)
    PROVE  TypeInv'
  BY DEF StatusEnd, TypeInv, TypeOK, CountersGuarded, MonitorStates

LEMMA TypeApnReturn ==
    ASSUME TypeInv, NEW from, ApnReturn(from)
    PROVE  TypeInv'
  BY DEF ApnReturn, TypeInv, TypeOK, CountersGuarded, MonitorStates

LEMMA TypeSucceeded ==
    ASSUME TypeInv, NEW from, RecoverySucceeded(from)
    PROVE  TypeInv'
  BY DEF RecoverySucceeded, TypeInv, TypeOK, CountersGuarded, MonitorStates, HealthStates

LEMMA TypeReturns ==
    ASSUME TypeInv, NEW from, RecoveryReturns(from)
    PROVE  TypeInv'
  BY DEF RecoveryReturns, FinishRecoveryAttempt, TypeInv, TypeOK, CountersGuarded,
         MonitorStates, HealthStates

LEMMA TypeLadderStep ==
    ASSUME TypeInv, NEW from, NEW to \in LadderStates, LadderStep(from, to)
    PROVE  TypeInv'
  BY DEF LadderStep, TypeInv, TypeOK, CountersGuarded, MonitorStates, LadderStates

LEMMA TypeLadderAction ==
    ASSUME TypeInv, NEW from, NEW to \in LadderStates, NEW on \in BOOLEAN,
           LadderAction(from, to, on)
    PROVE  TypeInv'
  BY DEF LadderAction, TypeInv, TypeOK, CountersGuarded, MonitorStates, LadderStates

LEMMA TypeStatus == TypeInv /\ CheckAndPublish => TypeInv'
  <1> SUFFICES ASSUME TypeInv, CheckAndPublish PROVE TypeInv'
    OBVIOUS
  <1>0. {"select", "observe", "armWatch", "apnBody", "remBody"}
        \subseteq MonitorStates \ {"ensStartWait", "recBegin"}
    BY DEF MonitorStates
  <1>1. CASE CheckCancelled     BY <1>0, <1>1, TypeStatusStep DEF CheckCancelled
  <1>2. CASE CheckHealthy
    BY <1>2 DEF CheckHealthy, TypeInv, TypeOK, CountersGuarded, MonitorStates, HealthStates
  <1>3. CASE CheckFails
    BY <1>3 DEF CheckFails, TypeInv, TypeOK, CountersGuarded, MonitorStates
  <1>4. CASE ArmWatch \/ SkipApn
    BY <1>0, <1>4, TypeStatusStep DEF ArmWatch, SkipApn
  <1>5. CASE ApnBegin
    BY <1>5 DEF ApnBegin, TypeInv, TypeOK, CountersGuarded, MonitorStates
  <1>6. CASE ApnCheckTarget
    <2>1. CASE StatusStep("apnCheck", "apnBody")  BY <1>0, <2>1, TypeStatusStep
    <2>2. CASE ApnReturn("apnCheck")              BY <2>2, TypeApnReturn
    <2> QED BY <1>6, <2>1, <2>2, Zenon DEF ApnCheckTarget
  <1>7. CASE ApnEnd             BY <1>7, TypeApnReturn DEF ApnEnd
  <1>8. CASE ObserveUsage
    <2>1. usageDirty' \in BOOLEAN  BY <1>8, Zenon DEF ObserveUsage, TypeInv, TypeOK
    <2> QED BY <1>8, <2>1 DEF ObserveUsage, TypeInv, TypeOK, CountersGuarded, MonitorStates
  <1>9. CASE RemedyReset
    BY <1>9 DEF RemedyReset, TypeInv, TypeOK, CountersGuarded, MonitorStates
  <1>10. CASE RemedyBegin
    BY <1>10 DEF RemedyBegin, TypeInv, TypeOK, CountersGuarded, MonitorStates
  <1>11. CASE RemedyCheckTarget
    BY <1>0, <1>11, TypeStatusStep, TypeStatusEnd DEF RemedyCheckTarget
  <1>12. CASE RemedyEnd         BY <1>12, TypeStatusEnd DEF RemedyEnd
  <1> QED BY <1>1, <1>2, <1>3, <1>4, <1>5, <1>6, <1>7, <1>8, <1>9, <1>10, <1>11, <1>12
          DEF CheckAndPublish

LEMMA TypeRefresh == TypeInv /\ RefreshSMSRegistration => TypeInv'
  <1> SUFFICES ASSUME TypeInv, RefreshSMSRegistration PROVE TypeInv'
    OBVIOUS
  <1> USE DEF TypeInv, TypeOK, CountersGuarded, MonitorStates
  <1>1. CASE RefreshBegin  BY <1>1 DEF RefreshBegin
  <1>2. CASE RefreshBody   BY <1>2 DEF RefreshBody
  <1>3. CASE RefreshEnd    BY <1>3, TypeStatusEnd DEF RefreshEnd
  <1> QED BY <1>1, <1>2, <1>3 DEF RefreshSMSRegistration

LEMMA TypeFailure == TypeInv /\ HandleModemFailure => TypeInv'
  <1> SUFFICES ASSUME TypeInv, HandleModemFailure PROVE TypeInv'
    OBVIOUS
  <1> USE DEF TypeInv, TypeOK, CountersGuarded, MonitorStates, HealthStates
  <1>1. CASE FailureCheckTarget  BY <1>1 DEF FailureCheckTarget
  <1>2. CASE FailureBegin        BY <1>2 DEF FailureBegin
  <1>3. CASE BackoffEnd          BY <1>3 DEF BackoffEnd
  <1>4. CASE FailureReturn       BY <1>4 DEF FailureReturn
  <1> QED BY <1>1, <1>2, <1>3, <1>4 DEF HandleModemFailure

LEMMA TypeRecovery == TypeInv /\ AttemptRecovery => TypeInv'
  <1> SUFFICES ASSUME TypeInv, AttemptRecovery PROVE TypeInv'
    OBVIOUS
  <1> USE TypeSucceeded, TypeReturns, TypeLadderStep, TypeLadderAction
  <1>0. powered \in BOOLEAN  BY DEF TypeInv, TypeOK
  <1>1. CASE RecoverBegin
    <2>1. CASE RecoverStart
      BY <2>1 DEF RecoverStart, TypeInv, TypeOK, CountersGuarded, MonitorStates,
                  LadderStates, HealthStates
    <2> QED BY <1>1, <2>1 DEF RecoverBegin
  <1>2. CASE RecoverStabilize      BY <1>2 DEF RecoverStabilize, LadderStates
  <1>3. CASE RecoverDBusReset      BY <1>0, <1>3 DEF RecoverDBusReset, LadderStates
  <1>4. CASE RecoverDBusResetWait  BY <1>4 DEF RecoverDBusResetWait, LadderStates
  <1>5. CASE RecoverUSB            BY <1>0, <1>5 DEF RecoverUSB, LadderStates
  <1>6. CASE RecoverUSBWait        BY <1>6 DEF RecoverUSBWait, LadderStates
  <1>7. CASE RecoverGpioOff        BY <1>7, Zenon DEF RecoverGpioOff, LadderStates
  <1>8. CASE RecoverGpioOn
    <2>1. (~OpCancelled) \in BOOLEAN  BY Zenon
    <2> QED BY <1>8, <2>1 DEF RecoverGpioOn, LadderStates
  <1>9. CASE RecoverGpioWait       BY <1>9 DEF RecoverGpioWait, LadderStates
  <1>10. CASE RecoverExtended      BY <1>10 DEF RecoverExtended, LadderStates
  <1>11. CASE RecoverExtendedWait  BY <1>11 DEF RecoverExtendedWait, LadderStates
  <1> QED BY <1>1, <1>2, <1>3, <1>4, <1>5, <1>6, <1>7, <1>8, <1>9, <1>10, <1>11
          DEF AttemptRecovery

LEMMA TypeShutdown == TypeInv /\ Shutdown => TypeInv'
  <1> SUFFICES ASSUME TypeInv, Shutdown PROVE TypeInv'
    OBVIOUS
  <1> USE DEF TypeInv, TypeOK, CountersGuarded
  <1>1. CASE ShutdownForwarderDone   BY <1>1 DEF ShutdownForwarderDone
  <1>2. CASE ShutdownAwaited         BY <1>2 DEF ShutdownAwaited
  <1>3. CASE ShutdownStopWatch       BY <1>3 DEF ShutdownStopWatch
  <1>4. CASE ShutdownLocationClosed  BY <1>4 DEF ShutdownLocationClosed
  <1>5. CASE ShutdownFlush
    <2>1. usageDirty' \in BOOLEAN  BY <1>5, Zenon DEF ShutdownFlush
    <2> QED BY <1>5, <2>1 DEF ShutdownFlush
  <1>6. CASE ShutdownRelease
    <2>1. inhibitor' \in BOOLEAN  BY <1>6, Zenon DEF ShutdownRelease
    <2> QED BY <1>6, <2>1 DEF ShutdownRelease
  <1>7. CASE ShutdownClose           BY <1>7 DEF ShutdownClose
  <1> QED BY <1>1, <1>2, <1>3, <1>4, <1>5, <1>6, <1>7 DEF Shutdown

LEMMA TypeNext == TypeInv /\ [Next]_vars => TypeInv'
  <1> SUFFICES ASSUME TypeInv, [Next]_vars PROVE TypeInv'
    OBVIOUS
  <1>1. CASE Terminate
    BY <1>1 DEF Terminate, TypeInv, TypeOK, CountersGuarded
  <1>2. CASE UNCHANGED vars
    BY <1>2 DEF vars, TypeInv, TypeOK, CountersGuarded
  <1> QED
    BY <1>1, <1>2, TypeHandlers, TypeStartup, TypeEnsure, TypeLoop, TypeStatus, TypeRefresh,
       TypeFailure, TypeRecovery, TypeShutdown DEF Next, Monitor

\* Every variable keeps its type; in particular the recovery attempts counted by
\* Health never exceed MaxRecoveryAttempts, whatever the order of failures,
\* commands and cancellations.
THEOREM TypeCorrect == Spec => []TypeOK
  <1>1. TypeInv => TypeOK
    BY DEF TypeInv
  <1> QED
    BY TypeInit, TypeNext, <1>1, PTL DEF Spec

-----------------------------------------------------------------------------
(***************************************************************************)
(* An operation that registers before it reads the target is cancelled by  *)
(* every later disable.  Inductive strengthening: while such an operation  *)
(* is current, its cancel function is the installed one, and after the     *)
(* target went off the handler still holds or is about to read it.         *)
(***************************************************************************)
RegisteredFirst ==
    mpc \in {"apnCheck", "apnBody", "remCheck", "remBody"} => op # 0 /\ modemOpCancel = op

CancelUnderWay ==
    (mpc \in {"apnBody", "remBody"} /\ ~modemEnabled)
    => \/ cpc = "disableRead"
       \/ cpc = "disableCancel" /\ cCancel = op
       \/ OpCancelled

CancelInv == RegisteredFirst /\ CancelUnderWay

LEMMA CancelInit == Init => CancelInv
  BY DEF Init, CancelInv, RegisteredFirst, CancelUnderWay

\* Outside these four states the invariant says nothing.
LEMMA CancelElsewhere ==
    ASSUME mpc' \notin {"apnCheck", "apnBody", "remCheck", "remBody"}
    PROVE  CancelInv'
  BY DEF CancelInv, RegisteredFirst, CancelUnderWay

LEMMA CancelHandlers == TypeInv /\ CancelInv /\ Handlers => CancelInv'
  <1> SUFFICES ASSUME TypeInv, CancelInv, Handlers PROVE CancelInv'
    OBVIOUS
  <1> USE DEF CancelInv, RegisteredFirst, CancelUnderWay, OpCancelled
  <1>1. CASE EnableStore          BY <1>1 DEF EnableStore
  <1>2. CASE EnableAddInhibitor   BY <1>2 DEF EnableAddInhibitor
  <1>3. CASE DisableStore         BY <1>3 DEF DisableStore
  <1>4. CASE DisableReadCancel    BY <1>4 DEF DisableReadCancel
  <1>5. CASE DisableCallCancel    BY <1>5 DEF DisableCallCancel
  <1>6. CASE CommandSignal        BY <1>6 DEF CommandSignal
  <1>7. CASE VehicleSwap          BY <1>7 DEF VehicleSwap
  <1>8. CASE VehicleAddInhibitor  BY <1>8 DEF VehicleAddInhibitor
  <1>9. CASE VehicleSignal        BY <1>9 DEF VehicleSignal
  <1> QED BY <1>1, <1>2, <1>3, <1>4, <1>5, <1>6, <1>7, <1>8, <1>9 DEF Handlers

LEMMA CancelStatus == TypeInv /\ CancelInv /\ CheckAndPublish => CancelInv'
  <1> SUFFICES ASSUME TypeInv, CancelInv, CheckAndPublish PROVE CancelInv'
    OBVIOUS
  <1> USE DEF CancelInv, RegisteredFirst, CancelUnderWay
  <1>1. CASE ApnBegin
    BY <1>1 DEF ApnBegin, TypeInv, TypeOK
  <1>2. CASE RemedyBegin
    BY <1>2 DEF RemedyBegin, TypeInv, TypeOK
  <1>3. CASE modemEnabled /\ StatusStep("apnCheck", "apnBody")
    BY <1>3 DEF StatusStep
  <1>4. CASE modemEnabled /\ StatusStep("remCheck", "remBody")
    BY <1>4 DEF StatusStep
  <1>5. CASE mpc' \notin {"apnCheck", "apnBody", "remCheck", "remBody"}
    BY <1>5
  <1>6. \/ ApnBegin \/ RemedyBegin
        \/ modemEnabled /\ StatusStep("apnCheck", "apnBody")
        \/ modemEnabled /\ StatusStep("remCheck", "remBody")
        \/ mpc' \notin {"apnCheck", "apnBody", "remCheck", "remBody"}
    BY DEF CheckAndPublish, CheckCancelled, CheckHealthy, CheckFails, ArmWatch, SkipApn, ApnCheckTarget,
           ApnEnd, ApnReturn, ObserveUsage, RemedyReset, RemedyCheckTarget, RemedyEnd,
           StatusStep, StatusEnd
  <1> QED BY <1>1, <1>2, <1>3, <1>4, <1>5, <1>6

LEMMA CancelNext == TypeInv /\ CancelInv /\ [Next]_vars => CancelInv'
  <1> SUFFICES ASSUME TypeInv, CancelInv, [Next]_vars PROVE CancelInv'
    OBVIOUS
  <1>1. CASE Handlers         BY <1>1, CancelHandlers
  <1>2. CASE CheckAndPublish  BY <1>2, CancelStatus
  <1>3. CASE Startup
    BY <1>3, CancelElsewhere DEF Startup, StartupCheck, StartupBegin, StartupContinue, StartupRestart,
       StartupExit, StartupInhibitCheck, StartupAddInhibitor
  <1>4. CASE EnsureModemEnabled
    BY <1>4, CancelElsewhere DEF EnsureModemEnabled, EnsurePresent, EnsureWait, EnsureStartModem,
       EnsureStartModemFails, EnsureStartWait, EnsureGiveUp
  <1>5. CASE MonitorLoop
    BY <1>5, CancelElsewhere DEF MonitorLoop, MonitorInit, MonitorStop, MonitorStateChange, MonitorTick,
       MonitorGpsFailure, MonitorRefreshRequest, ReconcileTarget, ReconcileBegin,
       ReconcileEnd, DisablePowerOff, DisableFlush, DisableRelease
  <1>6. CASE RefreshSMSRegistration
    BY <1>6, CancelElsewhere DEF RefreshSMSRegistration, RefreshBegin, RefreshBody, RefreshEnd, StatusEnd
  <1>7. CASE HandleModemFailure
    BY <1>7, CancelElsewhere DEF HandleModemFailure, FailureCheckTarget, FailureBegin, BackoffEnd,
       FailureReturn
  <1>8. CASE AttemptRecovery
    BY <1>8, CancelElsewhere DEF AttemptRecovery, RecoverBegin, RecoverStart, RecoverStabilize,
       RecoverDBusReset, RecoverDBusResetWait, RecoverUSB, RecoverUSBWait, RecoverGpioOff,
       RecoverGpioOn, RecoverGpioWait, RecoverExtended, RecoverExtendedWait,
       RecoverySucceeded, RecoveryReturns, LadderStep, LadderAction
  <1>9. CASE Terminate \/ Shutdown \/ UNCHANGED vars
    BY <1>9, ShutdownKeeps DEF Terminate, vars, CancelInv, RegisteredFirst, CancelUnderWay, OpCancelled
  <1> QED
    BY <1>1, <1>2, <1>3, <1>4, <1>5, <1>6, <1>7, <1>8, <1>9 DEF Next, Monitor

\* For every bound on commands and ticks: a disable whose handler has called
\* cancelModemOperation leaves no APN transaction or link remedy uncancelled.
THEOREM GuardedCancellation == Spec => []GuardedOperationsCancelled
  <1>1. TypeInv /\ CancelInv => GuardedOperationsCancelled
    BY DEF CancelInv, CancelUnderWay, GuardedOperationsCancelled, DisableDelivered
  <1> QED
    BY TypeInit, TypeNext, CancelInit, CancelNext, <1>1, PTL DEF Spec

-----------------------------------------------------------------------------
(***************************************************************************)
(* The health state and the monitor's control agree; this is inductive.    *)
(***************************************************************************)
LEMMA HealthInitially == Init => HealthMatchesMonitor
  BY DEF Init, HealthMatchesMonitor, LadderStates

\* A step that leaves the health state alone and stays outside the ladder and
\* the back-off, on both sides, keeps the agreement.
LEMMA HealthElsewhere ==
    ASSUME HealthMatchesMonitor, health' = health,
           mpc \notin LadderStates \cup {"backoff"}, mpc' \notin LadderStates \cup {"backoff"}
    PROVE  HealthMatchesMonitor'
  BY DEF HealthMatchesMonitor

LEMMA HealthFailure == HealthMatchesMonitor /\ HandleModemFailure => HealthMatchesMonitor'
  BY DEF HandleModemFailure, FailureCheckTarget, FailureBegin, BackoffEnd, FailureReturn,
         HealthMatchesMonitor, LadderStates

LEMMA HealthRecovery == HealthMatchesMonitor /\ AttemptRecovery => HealthMatchesMonitor'
  <1> SUFFICES ASSUME HealthMatchesMonitor, AttemptRecovery PROVE HealthMatchesMonitor'
    OBVIOUS
  <1> USE DEF HealthMatchesMonitor, LadderStates
  <1>1. ASSUME NEW from \in LadderStates, RecoverySucceeded(from) PROVE HealthMatchesMonitor'
    BY <1>1 DEF RecoverySucceeded
  <1>2. ASSUME NEW from \in LadderStates \cup {"recBegin"}, RecoveryReturns(from)
        PROVE  HealthMatchesMonitor'
    BY <1>2 DEF RecoveryReturns, FinishRecoveryAttempt
  <1>3. ASSUME NEW from \in LadderStates, NEW to \in LadderStates, LadderStep(from, to)
        PROVE  HealthMatchesMonitor'
    BY <1>3 DEF LadderStep
  <1>4. ASSUME NEW from \in LadderStates, NEW to \in LadderStates, NEW on,
               LadderAction(from, to, on)
        PROVE  HealthMatchesMonitor'
    BY <1>4 DEF LadderAction
  <1>5. CASE RecoverBegin          BY <1>5, <1>2 DEF RecoverBegin, RecoverStart
  <1>6. CASE RecoverStabilize      BY <1>6, <1>1, <1>3 DEF RecoverStabilize
  <1>7. CASE RecoverDBusReset      BY <1>7, <1>3, <1>4 DEF RecoverDBusReset
  <1>8. CASE RecoverDBusResetWait  BY <1>8, <1>1, <1>2, <1>3 DEF RecoverDBusResetWait
  <1>9. CASE RecoverUSB            BY <1>9, <1>2, <1>4 DEF RecoverUSB
  <1>10. CASE RecoverUSBWait       BY <1>10, <1>1, <1>3 DEF RecoverUSBWait
  <1>11. CASE RecoverGpioOff       BY <1>11, <1>2, <1>3, <1>4 DEF RecoverGpioOff
  <1>12. CASE RecoverGpioOn        BY <1>12, <1>4 DEF RecoverGpioOn
  <1>13. CASE RecoverGpioWait      BY <1>13, <1>1, <1>3 DEF RecoverGpioWait
  <1>14. CASE RecoverExtended      BY <1>14, <1>2, <1>3 DEF RecoverExtended
  <1>15. CASE RecoverExtendedWait  BY <1>15, <1>1, <1>2 DEF RecoverExtendedWait
  <1> QED BY <1>5, <1>6, <1>7, <1>8, <1>9, <1>10, <1>11, <1>12, <1>13, <1>14, <1>15
          DEF AttemptRecovery

LEMMA HealthNext == HealthMatchesMonitor /\ [Next]_vars => HealthMatchesMonitor'
  <1> SUFFICES ASSUME HealthMatchesMonitor, [Next]_vars PROVE HealthMatchesMonitor'
    OBVIOUS
  <1>1. CASE Handlers \/ Terminate \/ Shutdown \/ UNCHANGED vars
    BY <1>1, ShutdownKeeps DEF Handlers, EnableStore, EnableAddInhibitor, DisableStore,
       DisableReadCancel, DisableCallCancel, CommandSignal, VehicleSwap, VehicleAddInhibitor,
       VehicleSignal, Terminate, vars, HealthMatchesMonitor
  <1>2. CASE CheckAndPublish
    BY <1>2 DEF CheckAndPublish, CheckCancelled, CheckHealthy, CheckFails, ArmWatch, SkipApn, ApnBegin,
       ApnCheckTarget, ApnEnd, ApnReturn, ObserveUsage, RemedyReset, RemedyBegin,
       RemedyCheckTarget, RemedyEnd, StatusStep, StatusEnd, HealthMatchesMonitor, LadderStates
  <1>3. CASE Startup
    BY <1>3 DEF Startup, StartupCheck, StartupBegin, StartupContinue, StartupRestart,
       StartupExit, StartupInhibitCheck, StartupAddInhibitor, HealthMatchesMonitor, LadderStates
  <1>4. CASE EnsureModemEnabled
    BY <1>4 DEF EnsureModemEnabled, EnsurePresent, EnsureWait, EnsureStartModem,
       EnsureStartModemFails, EnsureStartWait, EnsureGiveUp, HealthMatchesMonitor, LadderStates
  <1>5. CASE MonitorLoop
    <2>1. health' = health
      BY <1>5 DEF MonitorLoop, MonitorInit, MonitorStop, MonitorStateChange, MonitorTick,
         MonitorGpsFailure, MonitorRefreshRequest, ReconcileTarget, ReconcileBegin,
         ReconcileEnd, DisablePowerOff, DisableFlush, DisableRelease
    <2>2. mpc \notin LadderStates \cup {"backoff"} /\ mpc' \notin LadderStates \cup {"backoff"}
      BY <1>5 DEF MonitorLoop, MonitorInit, MonitorStop, MonitorStateChange, MonitorTick,
         MonitorGpsFailure, MonitorRefreshRequest, ReconcileTarget, ReconcileBegin,
         ReconcileEnd, DisablePowerOff, DisableFlush, DisableRelease, LadderStates
    <2> QED BY <2>1, <2>2, HealthElsewhere
  <1>6. CASE RefreshSMSRegistration
    BY <1>6 DEF RefreshSMSRegistration, RefreshBegin, RefreshBody, RefreshEnd, StatusEnd,
       HealthMatchesMonitor, LadderStates
  <1> QED
    BY <1>1, <1>2, <1>3, <1>4, <1>5, <1>6, HealthFailure, HealthRecovery DEF Next, Monitor

\* On every path, cancelled or not, the published health state is "recovering"
\* exactly during the ladder and "failed, waiting" exactly during the back-off.
THEOREM HealthAgreement == Spec => []HealthMatchesMonitor
  BY HealthInitially, HealthNext, PTL DEF Spec

-----------------------------------------------------------------------------
(***************************************************************************)
(* At most one hardware action after a cancellation.  Strengthening: a     *)
(* counted action means that the operation is cancelled, and the states    *)
(* from which an unguarded action follows have none counted yet.           *)
(***************************************************************************)
BeforeUnguarded == {"ens", "ensWait", "ensStart", "recStab", "recReset", "recGpioOn"}

LateInv ==
    /\ lateSteps \in {0, 1}
    /\ lateSteps = 1 => OpCancelled
    /\ mpc \in BeforeUnguarded => lateSteps = 0

LEMMA LateInit == Init => LateInv
  BY DEF Init, LateInv, BeforeUnguarded

\* A step that resets the count, or keeps it and withdraws no cancellation.
LEMMA LateReset ==
    ASSUME lateSteps' = 0
    PROVE  LateInv'
  BY DEF LateInv

LEMMA LateKept ==
    ASSUME LateInv, lateSteps' = lateSteps, OpCancelled => OpCancelled',
           mpc' \in BeforeUnguarded => mpc \in BeforeUnguarded \/ ~OpCancelled
    PROVE  LateInv'
  BY DEF LateInv

\* Hardware actions: an unguarded one starts from a count of zero, a guarded one
\* happens only in an operation that is not cancelled.
LEMMA LateHardware ==
    ASSUME LateInv, HardwareStep, OpCancelled => OpCancelled',
           mpc \in BeforeUnguarded \/ ~OpCancelled,
           mpc' \in BeforeUnguarded => ~OpCancelled
    PROVE  LateInv'
  BY DEF LateInv, OpCancelled

LEMMA LateEnsure == TypeInv /\ LateInv /\ EnsureModemEnabled => LateInv'
  <1> SUFFICES ASSUME TypeInv, LateInv, EnsureModemEnabled PROVE LateInv'
    OBVIOUS
  <1>0. OpCancelled => OpCancelled'
    BY DEF OpCancelled, EnsureModemEnabled, EnsurePresent, EnsureWait, EnsureStartModem,
           EnsureStartModemFails, EnsureStartWait, EnsureGiveUp
  <1>1. CASE EnsureStartModem
    BY <1>0, <1>1, LateHardware DEF EnsureStartModem, BeforeUnguarded
  <1>2. CASE EnsurePresent
    BY <1>0, <1>2, LateKept DEF EnsurePresent, BeforeUnguarded
  <1>3. CASE EnsureWait
    BY <1>0, <1>3, LateKept DEF EnsureWait, BeforeUnguarded
  <1>4. CASE EnsureStartModemFails
    BY <1>0, <1>4, LateKept DEF EnsureStartModemFails, BeforeUnguarded
  <1>5. CASE EnsureStartWait
    BY <1>0, <1>5, LateKept DEF EnsureStartWait, BeforeUnguarded
  <1>6. CASE EnsureGiveUp
    BY <1>0, <1>6, LateKept DEF EnsureGiveUp, BeforeUnguarded
  <1> QED BY <1>1, <1>2, <1>3, <1>4, <1>5, <1>6 DEF EnsureModemEnabled

LEMMA LateRecovery == TypeInv /\ LateInv /\ AttemptRecovery => LateInv'
  <1> SUFFICES ASSUME TypeInv, LateInv, AttemptRecovery PROVE LateInv'
    OBVIOUS
  <1>1. ASSUME NEW from, RecoverySucceeded(from) \/ RecoveryReturns(from) PROVE LateInv'
    BY <1>1, LateReset DEF RecoverySucceeded, RecoveryReturns
  <1>2. ASSUME NEW from, NEW to, LadderStep(from, to),
               to \in BeforeUnguarded => from \in BeforeUnguarded
        PROVE  LateInv'
    BY <1>2, LateKept DEF LadderStep, OpCancelled
  <1>3. ASSUME NEW from, NEW to, NEW on, LadderAction(from, to, on),
               from \in BeforeUnguarded \/ ~OpCancelled,
               to \in BeforeUnguarded => ~OpCancelled
        PROVE  LateInv'
    <2>1. OpCancelled => OpCancelled'  BY <1>3 DEF LadderAction, OpCancelled
    <2> QED BY <1>3, <2>1, LateHardware DEF LadderAction
  <1> USE DEF BeforeUnguarded
  <1>4. CASE RecoverBegin
    <2>1. CASE ~OpCancelled /\ RecoverStart
      BY <2>1, LateKept DEF RecoverStart, OpCancelled
    <2> QED BY <1>1, <1>4, <2>1 DEF RecoverBegin
  <1>5. CASE RecoverStabilize      BY <1>5, <1>1, <1>2 DEF RecoverStabilize
  <1>6. CASE RecoverDBusReset      BY <1>6, <1>2, <1>3 DEF RecoverDBusReset
  <1>7. CASE RecoverDBusResetWait  BY <1>7, <1>1, <1>2 DEF RecoverDBusResetWait
  <1>8. CASE RecoverUSB            BY <1>8, <1>1, <1>3 DEF RecoverUSB
  <1>9. CASE RecoverUSBWait        BY <1>9, <1>1, <1>2 DEF RecoverUSBWait
  <1>10. CASE RecoverGpioOff       BY <1>10, <1>1, <1>2, <1>3 DEF RecoverGpioOff
  <1>11. CASE RecoverGpioOn        BY <1>11, <1>3 DEF RecoverGpioOn
  <1>12. CASE RecoverGpioWait      BY <1>12, <1>1, <1>2 DEF RecoverGpioWait
  <1>13. CASE RecoverExtended      BY <1>13, <1>1, <1>2 DEF RecoverExtended
  <1>14. CASE RecoverExtendedWait  BY <1>14, <1>1 DEF RecoverExtendedWait
  <1> QED BY <1>4, <1>5, <1>6, <1>7, <1>8, <1>9, <1>10, <1>11, <1>12, <1>13, <1>14
          DEF AttemptRecovery

\* Every other step outside an operation's body resets the count or keeps it.
LEMMA LateNext == TypeInv /\ LateInv /\ [Next]_vars => LateInv'
  <1> SUFFICES ASSUME TypeInv, LateInv, [Next]_vars PROVE LateInv'
    OBVIOUS
  <1>1. CASE Handlers
    BY <1>1, LateKept DEF Handlers, EnableStore, EnableAddInhibitor, DisableStore,
       DisableReadCancel, DisableCallCancel, CommandSignal, VehicleSwap,
       VehicleAddInhibitor, VehicleSignal, OpCancelled
  <1>2. CASE Terminate \/ Shutdown \/ UNCHANGED vars
    BY <1>2, ShutdownKeeps, LateKept DEF Terminate, vars, OpCancelled
  <1>3. CASE CheckAndPublish
    <2>1. \/ lateSteps' = 0
          \/ /\ lateSteps' = lateSteps /\ UNCHANGED <<opVars, ctxDone>>
             /\ mpc' \notin BeforeUnguarded
      BY <1>3 DEF CheckAndPublish, CheckCancelled, CheckHealthy, CheckFails, ArmWatch, SkipApn,
         ApnBegin, ApnCheckTarget, ApnEnd, ApnReturn, ObserveUsage, RemedyReset, RemedyBegin,
         RemedyCheckTarget, RemedyEnd, StatusStep, StatusEnd, BeforeUnguarded
    <2> QED BY <2>1, LateReset, LateKept DEF OpCancelled
  <1>4. CASE Startup
    <2>1. \/ lateSteps' = 0
          \/ /\ lateSteps' = lateSteps /\ UNCHANGED <<opVars, ctxDone>>
             /\ mpc' \notin BeforeUnguarded
      BY <1>4 DEF Startup, StartupCheck, StartupBegin, StartupContinue, StartupRestart,
         StartupExit, StartupInhibitCheck, StartupAddInhibitor, BeforeUnguarded
    <2> QED BY <2>1, LateReset, LateKept DEF OpCancelled
  <1>5. CASE MonitorLoop
    <2>1. \/ lateSteps' = 0
          \/ /\ lateSteps' = lateSteps /\ UNCHANGED <<opVars, ctxDone>>
             /\ mpc' \notin BeforeUnguarded
      BY <1>5 DEF MonitorLoop, MonitorInit, MonitorStop, MonitorStateChange, MonitorTick,
         MonitorGpsFailure, MonitorRefreshRequest, ReconcileTarget, ReconcileBegin,
         ReconcileEnd, DisablePowerOff, DisableFlush, DisableRelease, BeforeUnguarded
    <2> QED BY <2>1, LateReset, LateKept DEF OpCancelled
  <1>6. CASE RefreshSMSRegistration
    <2>1. \/ lateSteps' = 0
          \/ /\ lateSteps' = lateSteps /\ UNCHANGED <<opVars, ctxDone>>
             /\ mpc' \notin BeforeUnguarded
      BY <1>6 DEF RefreshSMSRegistration, RefreshBegin, RefreshBody, RefreshEnd, StatusEnd,
         BeforeUnguarded
    <2> QED BY <2>1, LateReset, LateKept DEF OpCancelled
  <1>7. CASE HandleModemFailure
    <2>1. \/ lateSteps' = 0
          \/ /\ lateSteps' = lateSteps /\ UNCHANGED <<opVars, ctxDone>>
             /\ mpc' \notin BeforeUnguarded
      BY <1>7 DEF HandleModemFailure, FailureCheckTarget, FailureBegin, BackoffEnd,
         FailureReturn, BeforeUnguarded
    <2> QED BY <2>1, LateReset, LateKept DEF OpCancelled
  <1> QED
    BY <1>1, <1>2, <1>3, <1>4, <1>5, <1>6, <1>7, LateEnsure, LateRecovery DEF Next, Monitor

\* However commands, signals and time-outs interleave, a cancelled operation acts
\* on the hardware at most once more.
THEOREM BoundedLateSteps == Spec => []AtMostOneLateStep
  <1>1. LateInv => AtMostOneLateStep
    BY DEF LateInv, AtMostOneLateStep
  <1> QED
    BY TypeInit, TypeNext, LateInit, LateNext, <1>1, PTL DEF Spec

-----------------------------------------------------------------------------
(***************************************************************************)
(* The inhibitor and the hardware.  Between the power-off and the release  *)
(* of the inhibitor nobody else powers the modem or observes usage: only   *)
(* the monitor does, and it is the monitor that is disabling.              *)
(***************************************************************************)
OffBeforeRelease ==
    /\ mpc \in {"flush", "release"} => (powered => "powerOff" \in disableFailed)
    /\ mpc = "release" => (usageDirty => "flush" \in disableFailed)

LEMMA ReleaseElsewhere ==
    ASSUME mpc' \notin {"flush", "release"}
    PROVE  OffBeforeRelease'
  BY DEF OffBeforeRelease

LEMMA ReleaseKept ==
    ASSUME OffBeforeRelease, UNCHANGED <<mpc, powered, disableFailed>>, usageDirty' => usageDirty
    PROVE  OffBeforeRelease'
  BY DEF OffBeforeRelease

LEMMA ReleaseLoop == OffBeforeRelease /\ MonitorLoop => OffBeforeRelease'
  <1> SUFFICES ASSUME OffBeforeRelease, MonitorLoop PROVE OffBeforeRelease'
    OBVIOUS
  <1>1. CASE DisablePowerOff
    BY <1>1 DEF DisablePowerOff, OffBeforeRelease
  <1>2. CASE DisableFlush
    BY <1>2 DEF DisableFlush, OffBeforeRelease
  <1>3. CASE ~DisablePowerOff /\ ~DisableFlush
    BY <1>3, ReleaseElsewhere DEF MonitorLoop, MonitorInit, MonitorStop, MonitorStateChange,
       MonitorTick, MonitorGpsFailure, MonitorRefreshRequest, ReconcileTarget, ReconcileBegin,
       ReconcileEnd, DisableRelease
  <1> QED BY <1>1, <1>2, <1>3

LEMMA ReleaseNext == OffBeforeRelease /\ [Next]_vars => OffBeforeRelease'
  <1> SUFFICES ASSUME OffBeforeRelease, [Next]_vars PROVE OffBeforeRelease'
    OBVIOUS
  <1>1. CASE Handlers
    BY <1>1, ReleaseKept DEF Handlers, EnableStore, EnableAddInhibitor, DisableStore,
       DisableReadCancel, DisableCallCancel, CommandSignal, VehicleSwap, VehicleAddInhibitor,
       VehicleSignal
  <1>2. CASE StartupExit
    BY <1>2, ReleaseKept DEF StartupExit
  <1>3. CASE Startup /\ ~StartupExit
    BY <1>3, ReleaseElsewhere DEF Startup, StartupCheck, StartupBegin, StartupContinue,
       StartupRestart, StartupInhibitCheck, StartupAddInhibitor
  <1>4. CASE EnsureModemEnabled
    BY <1>4, ReleaseElsewhere DEF EnsureModemEnabled, EnsurePresent, EnsureWait, EnsureStartModem,
       EnsureStartModemFails, EnsureStartWait, EnsureGiveUp
  <1>5. CASE MonitorLoop
    BY <1>5, ReleaseLoop
  <1>6. CASE CheckAndPublish
    BY <1>6, ReleaseElsewhere DEF CheckAndPublish, CheckCancelled, CheckHealthy, CheckFails,
       ArmWatch, SkipApn, ApnBegin, ApnCheckTarget, ApnEnd, ApnReturn, ObserveUsage, RemedyReset,
       RemedyBegin, RemedyCheckTarget, RemedyEnd, StatusStep, StatusEnd
  <1>7. CASE RefreshSMSRegistration
    BY <1>7, ReleaseElsewhere DEF RefreshSMSRegistration, RefreshBegin, RefreshBody, RefreshEnd,
       StatusEnd
  <1>8. CASE HandleModemFailure
    BY <1>8, ReleaseElsewhere DEF HandleModemFailure, FailureCheckTarget, FailureBegin, BackoffEnd,
       FailureReturn
  <1>9. CASE AttemptRecovery
    BY <1>9, ReleaseElsewhere DEF AttemptRecovery, RecoverBegin, RecoverStart, RecoverStabilize,
       RecoverDBusReset, RecoverDBusResetWait, RecoverUSB, RecoverUSBWait, RecoverGpioOff,
       RecoverGpioOn, RecoverGpioWait, RecoverExtended, RecoverExtendedWait,
       RecoverySucceeded, RecoveryReturns, LadderStep, LadderAction
  <1>10. CASE Terminate \/ Shutdown \/ UNCHANGED vars
    BY <1>10, ShutdownKeeps, ReleaseKept DEF Terminate, vars
  <1> QED
    BY <1>1, <1>2, <1>3, <1>4, <1>5, <1>6, <1>7, <1>8, <1>9, <1>10 DEF Next, Monitor

\* Who takes the inhibitor away: disableModem, or shutdown.
LEMMA Releasers ==
    ASSUME [Next]_vars, inhibitor, ~inhibitor'
    PROVE  DisableRelease \/ rpc = "release"
  <1>1. ~Handlers
    BY DEF Handlers, EnableStore, EnableAddInhibitor, DisableStore, DisableReadCancel,
       DisableCallCancel, CommandSignal, VehicleSwap, VehicleAddInhibitor, VehicleSignal
  <1>2. ~Startup
    BY DEF Startup, StartupCheck, StartupBegin, StartupContinue, StartupRestart, StartupExit,
       StartupInhibitCheck, StartupAddInhibitor
  <1>3. ~EnsureModemEnabled
    BY DEF EnsureModemEnabled, EnsurePresent, EnsureWait, EnsureStartModem, EnsureStartModemFails,
       EnsureStartWait, EnsureGiveUp
  <1>4. CASE MonitorLoop
    BY <1>4 DEF MonitorLoop, MonitorInit, MonitorStop, MonitorStateChange, MonitorTick,
       MonitorGpsFailure, MonitorRefreshRequest, ReconcileTarget, ReconcileBegin, ReconcileEnd,
       DisablePowerOff, DisableFlush
  <1>5. ~CheckAndPublish
    BY DEF CheckAndPublish, CheckCancelled, CheckHealthy, CheckFails, ArmWatch, SkipApn, ApnBegin,
       ApnCheckTarget, ApnEnd, ApnReturn, ObserveUsage, RemedyReset, RemedyBegin,
       RemedyCheckTarget, RemedyEnd, StatusStep, StatusEnd
  <1>6. ~RefreshSMSRegistration /\ ~HandleModemFailure
    BY DEF RefreshSMSRegistration, RefreshBegin, RefreshBody, RefreshEnd, StatusEnd,
       HandleModemFailure, FailureCheckTarget, FailureBegin, BackoffEnd, FailureReturn
  <1>7. ~AttemptRecovery
    BY DEF AttemptRecovery, RecoverBegin, RecoverStart, RecoverStabilize, RecoverDBusReset,
       RecoverDBusResetWait, RecoverUSB, RecoverUSBWait, RecoverGpioOff, RecoverGpioOn,
       RecoverGpioWait, RecoverExtended, RecoverExtendedWait, RecoverySucceeded,
       RecoveryReturns, LadderStep, LadderAction
  <1>8. CASE Shutdown
    BY <1>8 DEF Shutdown, ShutdownForwarderDone, ShutdownAwaited, ShutdownStopWatch,
       ShutdownLocationClosed, ShutdownFlush, ShutdownRelease, ShutdownClose
  <1>9. ~Terminate /\ ~UNCHANGED vars
    BY DEF Terminate, vars
  <1> QED BY <1>1, <1>2, <1>3, <1>4, <1>5, <1>6, <1>7, <1>8, <1>9 DEF Next, Monitor

\* For any number of commands and signals in any order, and whatever fails: disableModem
\* permits suspend only with the modem off and its usage on disk, unless it has tried to
\* bring that about and failed (it logs the error and goes on to removeModemInhibitor).
THEOREM SafeRelease == Spec => ReleaseOnlyWhenSafe
  <1>1. Init => OffBeforeRelease
    BY DEF Init, OffBeforeRelease
  <1>2. OffBeforeRelease /\ [Next]_vars =>
          [inhibitor /\ ~inhibitor' =>
              \/ /\ powered => "powerOff" \in disableFailed
                 /\ usageDirty => "flush" \in disableFailed
              \/ rpc = "release"]_vars
    BY Releasers DEF DisableRelease, OffBeforeRelease
  <1> QED
    BY <1>1, <1>2, ReleaseNext, PTL DEF Spec, ReleaseOnlyWhenSafe

-----------------------------------------------------------------------------
(***************************************************************************)
(* No command is lost.  As long as a handler is at work or its token is in *)
(* the channel nothing is claimed; the token is taken only by a monitor    *)
(* that then reads the target.  So where nothing is under way, a disabled  *)
(* modem is on its way through disableModem or through with it (OffKept),  *)
(* and an enabled one that was not applied is being enabled by an          *)
(* operation that nobody has cancelled (OnKept).  The latter needs to know *)
(* that the operation is new: Nesting tells which operations the monitor   *)
(* is in, and Registered that no generation is used twice.                 *)
(***************************************************************************)
Outside ==
    StartupStates \cup {"monInit", "select", "stopped", "reconcile", "recOp", "disable",
                        "flush", "release", "check", "apn", "armWatch", "observe", "remedy", "refreshOp"}
Failing == {"failure", "failOp", "failOk", "failErr"}
Nested == LadderStates \cup {"recBegin", "backoff"}

Nesting ==
    /\ mpc \in Outside => op = 0
    /\ mpc \in Failing => (op # 0 <=> caller = "refresh")
    /\ mpc \notin Outside \cup Failing => op # 0
    /\ outerOp # 0 <=> mpc \in Nested /\ caller = "refresh"

Registered ==
    /\ cancelled \subseteq 1..modemOpGeneration
    /\ op <= modemOpGeneration /\ outerOp <= modemOpGeneration
    /\ modemOpCancel <= modemOpGeneration /\ cCancel <= modemOpGeneration

Handled == ~modemStateChange /\ cpc = "idle" /\ vpc = "idle"

OffKept ==
    (~modemEnabled /\ Handled) =>
        /\ mpc \in {"reconcile", "disable", "flush", "release", "select", "stopped"}
        /\ mpc # "reconcile" => ~applied
        /\ mpc \in {"flush", "release", "select", "stopped"} => (~GpioMayFail => ~powered)
        /\ mpc \in {"select", "stopped"} => ~inhibitor

Enabling == EnsureStates \cup {"ensOk"}

OnKept ==
    (modemEnabled /\ ~applied /\ Handled /\ ~ctxDone) =>
        \/ exhausted
        \/ mpc \in StartupStates \cup {"monInit", "reconcile", "recOp"}
        \/ caller = "startup" /\ mpc \in Enabling \cup {"ensErr"}
        \/ caller = "reconcile" /\ mpc \in Enabling /\ op \notin cancelled

OpInv == TypeInv /\ Nesting /\ Registered
TargetInv == OpInv /\ OffKept /\ OnKept

(* Operations *)

\* A step of the registry: none, a new operation, or the end of the current one.
RegistryStep ==
    \/ UNCHANGED <<modemOpGeneration, modemOpCancel, cancelled, op, outerOp>>
    \/ startModemOperation
    \/ finishModemOperation /\ op # 0

LEMMA RegisteredStep ==
    ASSUME OpInv, RegistryStep, cCancel' = cCancel
    PROVE  Registered'
  <1> USE DEF OpInv, TypeInv, TypeOK, Registered
  <1>1. CASE UNCHANGED <<modemOpGeneration, modemOpCancel, cancelled, op, outerOp>>
    BY <1>1
  <1>2. CASE startModemOperation
    BY <1>2
  <1>3. CASE finishModemOperation /\ op # 0
    BY <1>3
  <1> QED BY <1>1, <1>2, <1>3 DEF RegistryStep

LEMMA NestingHandlers ==
    ASSUME OpInv, Handlers
    PROVE  Nesting' /\ Registered'
  <1>1. Nesting'
    <2>1. UNCHANGED <<mpc, caller, op, outerOp>>
      BY DEF Handlers, EnableStore, EnableAddInhibitor, DisableStore, DisableReadCancel,
         DisableCallCancel, CommandSignal, VehicleSwap, VehicleAddInhibitor, VehicleSignal
    <2> QED BY <2>1 DEF OpInv, Nesting
  <1>2. CASE DisableReadCancel
    BY <1>1, <1>2 DEF DisableReadCancel, OpInv, Registered
  <1>3. CASE DisableCallCancel
    <2>1. cCancel \in Nat /\ modemOpGeneration \in Nat
      BY DEF OpInv, TypeInv, TypeOK
    <2>2. cancelled' \subseteq 1..modemOpGeneration /\ cCancel' = 0
      BY <1>3, <2>1 DEF DisableCallCancel, OpInv, Registered, TypeInv, TypeOK
    <2> QED BY <1>1, <1>3, <2>1, <2>2 DEF DisableCallCancel, OpInv, Registered
  <1>4. CASE ~DisableReadCancel /\ ~DisableCallCancel
    <2>1. UNCHANGED <<modemOpGeneration, modemOpCancel, cancelled, op, outerOp, cCancel>>
      BY <1>4 DEF Handlers, EnableStore, EnableAddInhibitor, DisableStore,
         CommandSignal, VehicleSwap, VehicleAddInhibitor, VehicleSignal
    <2> QED BY <1>1, <2>1, RegisteredStep DEF RegistryStep
  <1> QED BY <1>1, <1>2, <1>3, <1>4

LEMMA NestingStartup ==
    ASSUME OpInv, Startup
    PROVE  Nesting' /\ Registered'
  <1> USE DEF OpInv, TypeInv, TypeOK, Nesting, Outside, Failing, Nested, StartupStates, LadderStates
  <1>1. CASE StartupRestart
    BY <1>1 DEF StartupRestart, Registered
  <1>2. CASE ~StartupRestart
    <2>1. RegistryStep /\ cCancel' = cCancel
      BY <1>2 DEF Startup, StartupCheck, StartupBegin, StartupContinue, StartupExit,
         StartupInhibitCheck, StartupAddInhibitor, RegistryStep
    <2>2. Nesting'
      BY <1>2 DEF Startup, StartupCheck, StartupBegin, StartupContinue, StartupExit,
         StartupInhibitCheck, StartupAddInhibitor
    <2> QED BY <2>1, <2>2, RegisteredStep
  <1> QED BY <1>1, <1>2

LEMMA NestingEnsure ==
    ASSUME OpInv, EnsureModemEnabled
    PROVE  Nesting' /\ Registered'
  <1> USE DEF EnsureModemEnabled, EnsurePresent, EnsureWait, EnsureStartModem,
              EnsureStartModemFails, EnsureStartWait, EnsureGiveUp
  <1>1. RegistryStep /\ cCancel' = cCancel
    BY DEF RegistryStep
  <1>2. Nesting'
    BY DEF OpInv, Nesting, Outside, Failing, Nested, StartupStates, LadderStates
  <1> QED BY <1>1, <1>2, RegisteredStep

LEMMA NestingLoop ==
    ASSUME OpInv, MonitorLoop
    PROVE  Nesting' /\ Registered'
  <1> USE DEF MonitorLoop, MonitorInit, MonitorStop, MonitorStateChange, MonitorTick,
              MonitorGpsFailure, MonitorRefreshRequest, ReconcileTarget, ReconcileBegin,
              ReconcileEnd, DisablePowerOff, DisableFlush, DisableRelease
  <1> USE DEF OpInv, Nesting, Outside, Failing, Nested, StartupStates, LadderStates
  <1>1. RegistryStep /\ cCancel' = cCancel
    BY DEF RegistryStep, EnsureStates
  <1>2. CASE ReconcileBegin
    BY <1>1, <1>2, RegisteredStep DEF TypeInv, TypeOK
  <1>3. CASE ReconcileEnd
    BY <1>1, <1>3, RegisteredStep
  <1>4. CASE ~ReconcileBegin /\ ~ReconcileEnd
    <2>1. op' = op /\ outerOp' = outerOp /\ op = 0 /\ outerOp = 0
      BY <1>4
    <2>2. CASE MonitorGpsFailure
      BY <1>1, <2>1, <2>2, RegisteredStep
    <2>3. CASE ~MonitorGpsFailure
      <3>1. mpc' \in Outside
        BY <1>4, <2>3
      <3> QED BY <1>1, <2>1, <3>1, RegisteredStep
    <2> QED BY <2>2, <2>3
  <1> QED BY <1>2, <1>3, <1>4

LEMMA NestingStatus ==
    ASSUME OpInv, CheckAndPublish \/ RefreshSMSRegistration
    PROVE  Nesting' /\ Registered'
  <1> USE DEF OpInv, Nesting, Outside, Failing, Nested, StartupStates, LadderStates
  <1> USE DEF StatusStep, StatusEnd, ApnReturn
  <1>1. ASSUME RegistryStep, cCancel' = cCancel, Nesting'
        PROVE  Nesting' /\ Registered'
    BY <1>1, RegisteredStep
  <1> USE DEF RegistryStep, TypeInv, TypeOK
  <1>2. CASE CheckCancelled     BY <1>1, <1>2 DEF CheckCancelled
  <1>3. CASE CheckHealthy       BY <1>1, <1>3 DEF CheckHealthy
  <1>4. CASE CheckFails         BY <1>1, <1>4 DEF CheckFails
  <1>5. CASE ArmWatch \/ SkipApn
    BY <1>1, <1>5 DEF ArmWatch, SkipApn
  <1>6. CASE ApnBegin           BY <1>1, <1>6 DEF ApnBegin
  <1>7. CASE ApnCheckTarget     BY <1>1, <1>7 DEF ApnCheckTarget
  <1>8. CASE ApnEnd             BY <1>1, <1>8 DEF ApnEnd
  <1>9. CASE ObserveUsage       BY <1>1, <1>9 DEF ObserveUsage
  <1>10. CASE RemedyReset       BY <1>1, <1>10 DEF RemedyReset
  <1>11. CASE RemedyBegin       BY <1>1, <1>11 DEF RemedyBegin
  <1>12. CASE RemedyCheckTarget BY <1>1, <1>12 DEF RemedyCheckTarget
  <1>13. CASE RemedyEnd         BY <1>1, <1>13 DEF RemedyEnd
  <1>14. CASE RefreshBegin      BY <1>1, <1>14 DEF RefreshBegin
  <1>15. CASE RefreshBody       BY <1>1, <1>15 DEF RefreshBody
  <1>16. CASE RefreshEnd        BY <1>1, <1>16 DEF RefreshEnd
  <1> QED
    BY <1>2, <1>3, <1>4, <1>5, <1>6, <1>7, <1>8, <1>9, <1>10, <1>11, <1>12, <1>13, <1>14, <1>15,
       <1>16 DEF CheckAndPublish, RefreshSMSRegistration

LEMMA NestingFailure ==
    ASSUME OpInv, HandleModemFailure
    PROVE  Nesting' /\ Registered'
  <1> USE DEF HandleModemFailure, FailureCheckTarget, FailureBegin, BackoffEnd, FailureReturn
  <1> USE DEF OpInv, TypeInv, TypeOK, Nesting, Outside, Failing, Nested, StartupStates, LadderStates
  <1>1. RegistryStep /\ cCancel' = cCancel
    BY DEF RegistryStep
  <1>2. Nesting'
    OBVIOUS
  <1> QED BY <1>1, <1>2, RegisteredStep

LEMMA NestingRecovery ==
    ASSUME OpInv, AttemptRecovery
    PROVE  Nesting' /\ Registered'
  <1> USE DEF OpInv, TypeInv, TypeOK, Nesting, Outside, Failing, Nested, StartupStates, LadderStates
  <1> USE DEF AttemptRecovery, RecoverBegin, RecoverStart, RecoverStabilize, RecoverDBusReset,
              RecoverDBusResetWait, RecoverUSB, RecoverUSBWait, RecoverGpioOff,
              RecoverGpioOn, RecoverGpioWait, RecoverExtended, RecoverExtendedWait,
              RecoverySucceeded, RecoveryReturns, LadderStep, LadderAction
  <1>1. RegistryStep /\ cCancel' = cCancel
    BY DEF RegistryStep
  <1>2. Nesting'
    OBVIOUS
  <1> QED BY <1>1, <1>2, RegisteredStep

LEMMA OpNext == OpInv /\ [Next]_vars => OpInv'
  <1> SUFFICES ASSUME OpInv, [Next]_vars PROVE OpInv'
    OBVIOUS
  <1>1. TypeInv'
    BY TypeNext DEF OpInv
  <1>2. CASE Terminate \/ Shutdown \/ UNCHANGED vars
    <2>1. UNCHANGED <<mpc, caller, opVars, cCancel>>
      BY <1>2, ShutdownKeeps DEF Terminate, vars
    <2> QED BY <1>1, <2>1 DEF OpInv, Nesting, Registered
  <1> QED
    BY <1>1, <1>2, NestingHandlers, NestingStartup, NestingEnsure, NestingLoop, NestingStatus,
       NestingFailure, NestingRecovery DEF Next, Monitor, OpInv

(* Commands *)

\* What a step of the monitor leaves alone, unless it takes the token or restarts.
SameCommands == UNCHANGED <<modemEnabled, modemStateChange, cpc, vpc>>

OffStates == {"reconcile", "disable", "flush", "release", "select", "stopped"}
OnStates ==
    StartupStates \cup EnsureStates \cup {"monInit", "reconcile", "recOp", "ensOk", "ensErr"}

LEMMA OffElsewhere ==
    ASSUME OffKept, SameCommands, mpc \notin OffStates
    PROVE  OffKept'
  BY DEF OffKept, SameCommands, OffStates, Handled

LEMMA OnElsewhere ==
    ASSUME OnKept, SameCommands, UNCHANGED <<applied, ctxDone, exhausted>>, mpc \notin OnStates
    PROVE  OnKept'
  BY DEF OnKept, SameCommands, OnStates, Enabling, Handled

\* A handler ends with its token in the channel.
LEMMA TargetHandlers ==
    ASSUME Handlers
    PROVE  OffKept' /\ OnKept'
  <1>1. ~Handled'
    BY DEF Handlers, EnableStore, EnableAddInhibitor, DisableStore, DisableReadCancel,
       DisableCallCancel, CommandSignal, VehicleSwap, VehicleAddInhibitor, VehicleSignal, Handled
  <1> QED BY <1>1 DEF OffKept, OnKept

LEMMA TargetStartup ==
    ASSUME TargetInv, Startup
    PROVE  OffKept' /\ OnKept'
  <1> USE DEF TargetInv
  <1>1. CASE StartupRestart
    BY <1>1 DEF StartupRestart, OffKept, OnKept, StartupStates
  <1>2. CASE ~StartupRestart
    <2> USE <1>2 DEF Startup, StartupCheck, StartupBegin, StartupContinue, StartupExit,
                     StartupInhibitCheck, StartupAddInhibitor
    <2>1. SameCommands
      BY DEF SameCommands
    <2>2. OffKept'
      <3>1. mpc \notin OffStates
        BY DEF OffStates
      <3> QED BY <2>1, <3>1, OffElsewhere
    <2>3. OnKept'
      BY <2>1 DEF SameCommands, OnKept, Handled, StartupStates, EnsureStates, Enabling
    <2> QED BY <2>2, <2>3
  <1> QED BY <1>1, <1>2

\* Only a cancelled operation gives up before its attempts are used.
LEMMA NotCancelled ==
    ASSUME OpInv, caller = "reconcile", op \notin cancelled, ~ctxDone
    PROVE  ~OpCancelled
  <1>1. outerOp = 0
    BY DEF OpInv, Nesting
  <1>2. 0 \notin cancelled
    BY DEF OpInv, Registered, TypeInv, TypeOK
  <1> QED BY <1>1, <1>2 DEF OpCancelled

LEMMA TargetEnsure ==
    ASSUME TargetInv, EnsureModemEnabled
    PROVE  OffKept' /\ OnKept'
  <1> USE DEF TargetInv
  <1>1. SameCommands /\ UNCHANGED <<applied, ctxDone, caller, op, cancelled>>
    BY DEF SameCommands, EnsureModemEnabled, EnsurePresent, EnsureWait, EnsureStartModem,
           EnsureStartModemFails, EnsureStartWait, EnsureGiveUp
  <1>2. mpc \in EnsureStates
    BY DEF EnsureStates, EnsureModemEnabled, EnsurePresent, EnsureWait, EnsureStartModem,
           EnsureStartModemFails, EnsureStartWait, EnsureGiveUp
  <1>3. \/ mpc' \in Enabling /\ exhausted' = exhausted
        \/ mpc' = "ensErr" /\ (exhausted' \/ (OpCancelled /\ exhausted' = exhausted))
    BY DEF Enabling, EnsureStates, EnsureModemEnabled, EnsurePresent, EnsureWait, EnsureStartModem,
           EnsureStartModemFails, EnsureStartWait, EnsureGiveUp
  <1>4. OffKept'
    BY <1>1, <1>2, OffElsewhere DEF OffStates, EnsureStates
  <1>5. OnKept'
    <2> SUFFICES ASSUME (modemEnabled /\ ~applied /\ Handled /\ ~ctxDone)', ~exhausted'
                 PROVE  \/ caller = "startup" /\ mpc' \in Enabling \cup {"ensErr"}
                        \/ caller = "reconcile" /\ mpc' \in Enabling /\ op \notin cancelled
      BY <1>1 DEF OnKept
    <2>1. modemEnabled /\ ~applied /\ Handled /\ ~ctxDone
      BY <1>1 DEF SameCommands, Handled
    <2>2. ~exhausted
      BY <1>3
    <2>3. \/ caller = "startup"
          \/ caller = "reconcile" /\ op \notin cancelled
      BY <1>2, <2>1, <2>2 DEF OnKept, EnsureStates, StartupStates
    <2> QED BY <1>3, <2>1, <2>3, NotCancelled
  <1> QED BY <1>4, <1>5

LEMMA TargetLoop ==
    ASSUME TargetInv, MonitorLoop
    PROVE  OffKept' /\ OnKept'
  <1> USE DEF TargetInv, OffKept, OnKept, Handled
  <1>1. CASE MonitorInit
    BY <1>1 DEF MonitorInit
  <1>2. CASE MonitorStop
    BY <1>2 DEF MonitorStop
  <1>3. CASE MonitorStateChange
    BY <1>3 DEF MonitorStateChange
  <1>4. CASE MonitorTick \/ MonitorGpsFailure \/ MonitorRefreshRequest
    <2>1. mpc = "select" /\ SameCommands /\ UNCHANGED <<applied, ctxDone, exhausted, powered, inhibitor>>
      BY <1>4 DEF MonitorTick, MonitorGpsFailure, MonitorRefreshRequest, SameCommands
    <2>2. ~modemEnabled => mpc' = "select"
      BY <1>4 DEF MonitorTick, MonitorGpsFailure, MonitorRefreshRequest
    <2>3. OffKept'
      BY <2>1, <2>2 DEF SameCommands
    <2>4. OnKept'
      BY <2>1, OnElsewhere DEF OnStates, StartupStates, EnsureStates
    <2> QED BY <2>3, <2>4
  <1>5. CASE ReconcileTarget
    BY <1>5 DEF ReconcileTarget
  <1>6. CASE ReconcileBegin
    <2>1. op' \notin cancelled'
      BY <1>6 DEF ReconcileBegin, OpInv, Registered, TypeInv, TypeOK
    <2> QED BY <1>6, <2>1 DEF ReconcileBegin, Enabling, EnsureStates
  <1>7. CASE ReconcileEnd
    BY <1>7 DEF ReconcileEnd, StartupStates, EnsureStates, Enabling
  <1>8. CASE DisablePowerOff \/ DisableFlush \/ DisableRelease
    <2>1. SameCommands /\ UNCHANGED <<applied, ctxDone, exhausted>> /\ mpc \notin OnStates
      BY <1>8 DEF DisablePowerOff, DisableFlush, DisableRelease, SameCommands, OnStates,
         StartupStates, EnsureStates
    <2>2. OnKept'
      BY <2>1, OnElsewhere
    <2>3. OffKept'
      BY <1>8 DEF DisablePowerOff, DisableFlush, DisableRelease
    <2> QED BY <2>2, <2>3
  <1> QED BY <1>1, <1>2, <1>3, <1>4, <1>5, <1>6, <1>7, <1>8 DEF MonitorLoop

\* Status rounds, refreshes and recoveries have nothing to do with it: they run only where
\* the target was applied before, or where a token is waiting.
LEMMA TargetOther ==
    ASSUME TargetInv, CheckAndPublish \/ RefreshSMSRegistration \/ HandleModemFailure \/ AttemptRecovery
    PROVE  OffKept' /\ OnKept'
  <1>1. CASE CheckAndPublish \/ RefreshSMSRegistration \/ HandleModemFailure
    <2>1. SameCommands /\ UNCHANGED <<applied, ctxDone, exhausted>>
      BY <1>1 DEF CheckAndPublish, CheckCancelled, CheckHealthy, CheckFails, ArmWatch, SkipApn, ApnBegin,
         ApnCheckTarget, ApnEnd, ApnReturn, ObserveUsage, RemedyReset, RemedyBegin,
         RemedyCheckTarget, RemedyEnd, StatusStep, StatusEnd,
         RefreshSMSRegistration, RefreshBegin, RefreshBody, RefreshEnd,
         HandleModemFailure, FailureCheckTarget, FailureBegin, BackoffEnd, FailureReturn, SameCommands
    <2>2. mpc \notin OffStates \cup OnStates
      BY <1>1 DEF CheckAndPublish, CheckCancelled, CheckHealthy, CheckFails, ArmWatch, SkipApn, ApnBegin,
         ApnCheckTarget, ApnEnd, ApnReturn, ObserveUsage, RemedyReset, RemedyBegin,
         RemedyCheckTarget, RemedyEnd, StatusStep, StatusEnd,
         RefreshSMSRegistration, RefreshBegin, RefreshBody, RefreshEnd,
         HandleModemFailure, FailureCheckTarget, FailureBegin, BackoffEnd, FailureReturn,
         OffStates, OnStates, StartupStates, EnsureStates
    <2> QED BY <2>1, <2>2, OffElsewhere, OnElsewhere DEF TargetInv
  <1>2. CASE AttemptRecovery
    <2> USE <1>2 DEF AttemptRecovery, RecoverBegin, RecoverStart, RecoverStabilize, RecoverDBusReset,
              RecoverDBusResetWait, RecoverUSB, RecoverUSBWait, RecoverGpioOff,
              RecoverGpioOn, RecoverGpioWait, RecoverExtended, RecoverExtendedWait,
              RecoverySucceeded, RecoveryReturns, LadderStep, LadderAction
    <2>1. SameCommands /\ UNCHANGED <<applied, ctxDone, exhausted>>
      BY DEF SameCommands
    <2>2. mpc \notin OffStates \cup OnStates
      BY DEF OffStates, OnStates, StartupStates, EnsureStates
    <2> QED BY <2>1, <2>2, OffElsewhere, OnElsewhere DEF TargetInv
  <1> QED BY <1>1, <1>2

LEMMA TargetNext == TargetInv /\ [Next]_vars => TargetInv'
  <1> SUFFICES ASSUME TargetInv, [Next]_vars PROVE TargetInv'
    OBVIOUS
  <1>1. OpInv'
    BY OpNext DEF TargetInv
  <1>2. CASE Terminate \/ Shutdown \/ UNCHANGED vars
    <2>1. /\ SameCommands /\ UNCHANGED <<mpc, caller, applied, exhausted, powered, op, cancelled>>
          /\ ctxDone => ctxDone'
          /\ inhibitor' => inhibitor
      BY <1>2, ShutdownKeeps DEF Terminate, vars, SameCommands
    <2>2. OffKept'
      BY <2>1 DEF TargetInv, OffKept, Handled, SameCommands
    <2>3. OnKept'
      BY <2>1 DEF TargetInv, OnKept, Handled, SameCommands
    <2> QED BY <1>1, <2>2, <2>3 DEF TargetInv
  <1> QED
    BY <1>1, <1>2, TargetHandlers, TargetStartup, TargetEnsure, TargetLoop, TargetOther
       DEF Next, Monitor, TargetInv

LEMMA TargetInit == Init => TargetInv
  <1> SUFFICES ASSUME Init PROVE TargetInv
    OBVIOUS
  <1>1. Nesting /\ Registered
    BY DEF Init, Nesting, Registered, Outside, Failing, Nested, StartupStates, LadderStates
  <1>2. OffKept /\ OnKept
    BY DEF Init, OffKept, OnKept, StartupStates
  <1> QED BY <1>1, <1>2, TypeInit DEF TargetInv, OpInv

\* The hardware follows the last command, for any number of commands and vehicle states in
\* any order: whenever the monitor waits and no handler is at work, there is nothing left
\* to do (signalModemStateChange after every change, the cancellation before it, and
\* reconcileModemTarget, which reads the target only after it has taken the token).
THEOREM NoCommandLost == Spec => []TargetReached
  <1>1. TargetInv => TargetReached
    BY DEF TargetInv, OffKept, OnKept, Handled, TargetReached, StartupStates, EnsureStates, Enabling
  <1> QED
    BY TargetInit, TargetNext, <1>1, PTL DEF Spec
=============================================================================
