--------------------------- MODULE ModemLifecycle ---------------------------
(***************************************************************************)
(* The power lifecycle of the modem: the target set by the command and     *)
(* vehicle-state handlers, the monitor goroutine that brings the hardware  *)
(* to it, the cancellable operations it runs, and shutdown.                *)
(*                                                                         *)
(* Four goroutines run concurrently: the scooter:modem command handler     *)
(* (cpc), the vehicle-state watcher (vpc), the monitor (mpc; the start-up  *)
(* part of Run, which precedes it, is the same thread of control) and the  *)
(* shutdown part of Run (rpc).  A step is the code between two points at   *)
(* which another goroutine can see or change shared state.                 *)
(***************************************************************************)
EXTENDS Naturals

CONSTANTS
    MaxRecoveryAttempts,  \* health.MaxRecoveryAttempts (5 in the code)
    MaxCommands,          \* bound: commands and vehicle states received
    MaxTicks,             \* bound: timer, event and keepalive rounds of the monitor
    MayTerminate,         \* bound: whether SIGINT or SIGTERM can arrive
    GpioMayFail,          \* whether a GPIO request can return an error
    FlushMayFail          \* whether writing the usage totals can fail

ASSUME RecoveryAttemptsAssumption == MaxRecoveryAttempts \in Nat \ {0}
ASSUME CommandsAssumption == MaxCommands \in Nat
ASSUME TicksAssumption == MaxTicks \in Nat
ASSUME TerminateAssumption == MayTerminate \in BOOLEAN
ASSUME GpioAssumption == GpioMayFail \in BOOLEAN
ASSUME FlushAssumption == FlushMayFail \in BOOLEAN

VARIABLES
    modemEnabled,       \* the atomic target
    modemStateChange,   \* a token is in the channel of capacity one
    modemOpGeneration,  \* number of operations started
    modemOpCancel,      \* operation whose cancel function is installed, 0 for nil
    cancelled,          \* operations whose own context has been cancelled
    op,                 \* innermost operation the monitor is in, 0 for none
    outerOp,            \* SMS refresh operation a recovery is nested in, or 0
    cpc, cCancel,       \* command handler: control, its local variable cancel
    vpc,                \* vehicle-state handler: control
    mpc, caller,        \* monitor: control, and who called the current procedure
    applied,            \* appliedModemEnabled
    attempt,            \* loop variable of ensureModemEnabled
    health,             \* Health.State
    recoveryAttempts,   \* Health.RecoveryAttempts
    powered,            \* the hardware is on
    inhibitor,          \* modem-active is present in power:inhibits
    usageDirty,         \* data usage observed and not yet persisted
    disableFailed,      \* history: what the disableModem under way has tried in vain
    ctxDone,            \* the service context is cancelled (SIGINT, SIGTERM)
    rpc,                \* the shutdown part of Run: control
    commands, ticks,    \* what is left of the two bounds
    lateSteps,          \* history: hardware actions of op since its cancellation
    exhausted           \* history: attempts used up since the last reconciliation began

targetVars == <<modemEnabled, modemStateChange>>
opVars == <<modemOpGeneration, modemOpCancel, cancelled, op, outerOp>>
handlerVars == <<cpc, cCancel, vpc, commands>>
healthVars == <<health, recoveryAttempts>>
worldVars == <<powered, inhibitor, usageDirty, disableFailed>>
runVars == <<ctxDone, rpc>>
\* What a handler step leaves alone besides its own variables.
handlerFrame == <<mpc, caller, applied, attempt, healthVars, powered, usageDirty,
                  disableFailed, runVars, ticks, lateSteps, exhausted>>
vars == <<targetVars, opVars, handlerVars, mpc, caller, applied, attempt,
          healthVars, worldVars, runVars, ticks, lateSteps, exhausted>>

HealthStates == {"normal", "recovering", "recovery-failed-wait", "permanent-failure"}
LadderStates == {"recStab", "recReset", "recResetWait", "recUsb", "recUsbWait",
                 "recGpio", "recGpioOn", "recGpioWait", "recExt", "recExtWait"}
EnsureStates == {"ens", "ensWait", "ensStart", "ensStartWait"}
StartupStates == {"start", "startOp", "startInhibit", "startAdd"}
MonitorStates ==
    LadderStates \cup EnsureStates \cup StartupStates \cup
    {"ensOk", "ensErr", "monInit", "select", "stopped", "reconcile", "recOp",
     "disable", "flush", "release",
     "check", "failure", "failOp", "recBegin", "backoff", "failOk", "failErr",
     "apn", "armWatch", "apnCheck", "apnBody", "observe", "remedy", "remCheck", "remBody",
     "refreshOp", "refreshBody", "refreshWatch", "refreshEnd"}

\* The monitor is in startSMSWatch, which holds smsWatchMu across its D-Bus calls:
\* of a status round, at the end of recoverySucceeded, and of a refresh.
WatchStates == {"armWatch", "failOk", "refreshWatch"}

\* Defaults stored by New, and the monitor before Run starts it.  The hardware
\* may be on or off when the process starts.
Init ==
    /\ modemEnabled = TRUE /\ modemStateChange = FALSE
    /\ modemOpGeneration = 0 /\ modemOpCancel = 0 /\ cancelled = {}
    /\ op = 0 /\ outerOp = 0
    /\ cpc = "idle" /\ cCancel = 0 /\ vpc = "idle"
    /\ mpc = "start" /\ caller = "none" /\ applied = FALSE /\ attempt = 0
    /\ health = "normal" /\ recoveryAttempts = 0
    /\ powered \in BOOLEAN /\ inhibitor = FALSE /\ usageDirty = FALSE /\ disableFailed = {}
    /\ ctxDone = FALSE /\ rpc = "serving"
    /\ commands = MaxCommands /\ ticks = MaxTicks
    /\ lateSteps = 0 /\ exhausted = FALSE

Alive == rpc \notin {"done", "exited"}

Goto(from, to) == Alive /\ mpc = from /\ mpc' = to

-----------------------------------------------------------------------------
(* The operation registry.                                                 *)

\* The context of the current operation, or a context it is derived from, is done.
OpCancelled == ctxDone \/ op \in cancelled \/ outerOp \in cancelled

startModemOperation ==
    /\ modemOpGeneration' = modemOpGeneration + 1
    /\ modemOpCancel' = modemOpGeneration + 1
    /\ outerOp' = op
    /\ op' = modemOpGeneration + 1
    /\ lateSteps' = 0
    /\ UNCHANGED cancelled

\* The function startModemOperation returns: cancel, and forget the cancel
\* function unless a later operation has replaced it.
finishModemOperation ==
    /\ cancelled' = cancelled \cup {op}
    /\ modemOpCancel' = IF modemOpGeneration = op THEN 0 ELSE modemOpCancel
    /\ op' = outerOp
    /\ outerOp' = 0
    /\ lateSteps' = 0
    /\ UNCHANGED modemOpGeneration

-----------------------------------------------------------------------------
(* handleModemCommand and handleVehicleState.                              *)

\* Mutant: the channel has no capacity, so that a busy monitor misses the send.
signalModemStateChangeUnbuffered == modemStateChange' = (mpc = "select")

\* The non-blocking send on the channel of capacity one.
signalModemStateChange == modemStateChange' = TRUE

EnableStore ==
    /\ Alive /\ cpc = "idle" /\ commands > 0
    /\ commands' = commands - 1
    /\ modemEnabled' = TRUE
    /\ cpc' = "enableAdd"
    /\ UNCHANGED <<modemStateChange, opVars, cCancel, vpc, handlerFrame, inhibitor>>

EnableAddInhibitor ==
    /\ Alive /\ cpc = "enableAdd"
    /\ inhibitor' = TRUE
    /\ cpc' = "signal"
    /\ UNCHANGED <<targetVars, opVars, cCancel, vpc, commands, handlerFrame>>

DisableStore ==
    /\ Alive /\ cpc = "idle" /\ commands > 0
    /\ commands' = commands - 1
    /\ modemEnabled' = FALSE
    /\ cpc' = "disableRead"
    /\ UNCHANGED <<modemStateChange, opVars, cCancel, vpc, handlerFrame, inhibitor>>

\* cancelModemOperation copies the cancel function under its mutex ...
DisableReadCancel ==
    /\ Alive /\ cpc = "disableRead"
    /\ cCancel' = modemOpCancel
    /\ cpc' = "disableCancel"
    /\ UNCHANGED <<targetVars, opVars, vpc, commands, handlerFrame, inhibitor>>

\* ... and calls it after the unlock, when that operation may be over.
DisableCallCancel ==
    /\ Alive /\ cpc = "disableCancel"
    /\ cancelled' = IF cCancel # 0 THEN cancelled \cup {cCancel} ELSE cancelled
    /\ cCancel' = 0
    /\ cpc' = "signal"
    /\ UNCHANGED <<targetVars, modemOpGeneration, modemOpCancel, op, outerOp, vpc, commands, handlerFrame, inhibitor>>

CommandSignal ==
    /\ Alive /\ cpc = "signal"
    /\ signalModemStateChange
    /\ cpc' = "idle"
    /\ UNCHANGED <<modemEnabled, opVars, cCancel, vpc, commands, handlerFrame, inhibitor>>

\* The compare-and-swap of handleVehicleState; it does nothing when it fails.
VehicleSwap ==
    /\ Alive /\ vpc = "idle" /\ commands > 0
    /\ ~modemEnabled
    /\ commands' = commands - 1
    /\ modemEnabled' = TRUE
    /\ vpc' = "add"
    /\ UNCHANGED <<modemStateChange, opVars, cpc, cCancel, handlerFrame, inhibitor>>

VehicleAddInhibitor ==
    /\ Alive /\ vpc = "add"
    /\ inhibitor' = TRUE
    /\ vpc' = "signal"
    /\ UNCHANGED <<targetVars, opVars, cpc, cCancel, commands, handlerFrame>>

VehicleSignal ==
    /\ Alive /\ vpc = "signal"
    /\ signalModemStateChange
    /\ vpc' = "idle"
    /\ UNCHANGED <<modemEnabled, opVars, cpc, cCancel, commands, handlerFrame, inhibitor>>

Handlers ==
    \/ EnableStore \/ EnableAddInhibitor
    \/ DisableStore \/ DisableReadCancel \/ DisableCallCancel \/ CommandSignal
    \/ VehicleSwap \/ VehicleAddInhibitor \/ VehicleSignal

-----------------------------------------------------------------------------
(* Run before it starts the monitor.                                       *)

StartupCheck ==
    /\ Goto("start", IF modemEnabled THEN "startOp" ELSE "startInhibit")
    /\ UNCHANGED <<targetVars, opVars, handlerVars, caller, applied, attempt,
                   healthVars, worldVars, runVars, ticks, lateSteps, exhausted>>

StartupBegin ==
    /\ Goto("startOp", "ens")
    /\ startModemOperation
    /\ caller' = "startup"
    /\ UNCHANGED <<targetVars, handlerVars, applied, attempt,
                   healthVars, worldVars, runVars, ticks, exhausted>>

StartupContinue ==
    /\ caller = "startup" /\ mpc \in {"ensOk", "ensErr"}
    /\ Goto(mpc, "startInhibit")
    /\ mpc = "ensErr" => powered \/ ~modemEnabled
    /\ finishModemOperation
    /\ caller' = "none" /\ attempt' = 0
    /\ UNCHANGED <<targetVars, handlerVars, applied, healthVars,
                   worldVars, runVars, ticks, exhausted>>

\* Run returns an error: the process exits and systemd starts a new one, unless
\* it was stopping it.  Only Redis and the hardware keep their state.
StartupRestart ==
    /\ Alive /\ mpc = "ensErr" /\ caller = "startup"
    /\ modemEnabled /\ ~ctxDone
    /\ modemEnabled' = TRUE /\ modemStateChange' = FALSE
    /\ modemOpGeneration' = 0 /\ modemOpCancel' = 0 /\ cancelled' = {}
    /\ op' = 0 /\ outerOp' = 0
    /\ cpc' = "idle" /\ cCancel' = 0 /\ vpc' = "idle"
    /\ mpc' = "start" /\ caller' = "none" /\ applied' = FALSE /\ attempt' = 0
    /\ health' = "normal" /\ recoveryAttempts' = 0
    /\ lateSteps' = 0
    /\ UNCHANGED <<runVars, worldVars, commands, ticks, exhausted>>

StartupExit ==
    /\ Alive /\ mpc = "ensErr" /\ caller = "startup"
    /\ modemEnabled /\ ctxDone
    /\ rpc' = "exited"
    /\ UNCHANGED <<targetVars, opVars, handlerVars, mpc, caller, applied, attempt,
                   healthVars, worldVars, ctxDone, ticks, lateSteps, exhausted>>

StartupInhibitCheck ==
    /\ Goto("startInhibit", IF modemEnabled THEN "startAdd" ELSE "monInit")
    /\ UNCHANGED <<targetVars, opVars, handlerVars, caller, applied, attempt,
                   healthVars, worldVars, runVars, ticks, lateSteps, exhausted>>

StartupAddInhibitor ==
    /\ Goto("startAdd", "monInit")
    /\ inhibitor' = TRUE
    /\ UNCHANGED <<targetVars, opVars, handlerVars, caller, applied, attempt,
                   healthVars, powered, usageDirty, disableFailed, runVars, ticks, lateSteps,
                   exhausted>>

Startup == \/ StartupCheck \/ StartupBegin \/ StartupContinue \/ StartupRestart \/ StartupExit
           \/ StartupInhibitCheck \/ StartupAddInhibitor

-----------------------------------------------------------------------------
(* ensureModemEnabled, run inside an operation.                            *)

\* What every step of an operation's body leaves alone.
bodyFrame == <<targetVars, opVars, handlerVars, caller, applied, inhibitor, usageDirty,
               disableFailed, runVars, ticks>>

\* A hardware action; the ones taken after the cancellation are counted.
HardwareStep == lateSteps' = IF OpCancelled THEN lateSteps + 1 ELSE lateSteps

EnsurePresent ==
    /\ \/ Goto("ens", "ensOk") /\ powered      \* ready, or no SIM
       \/ Goto("ens", "ensWait") /\ powered    \* interface or D-Bus object present
       \/ Goto("ens", "ensStart")              \* not detected
    /\ attempt' = 0
    /\ UNCHANGED <<bodyFrame, healthVars, powered, lateSteps, exhausted>>

\* WaitForModem looks once before it looks at the context; both its time-out
\* and its cancellation lead on to the power-on pulse.
EnsureWait ==
    /\ \/ Goto("ensWait", "ensOk") /\ powered
       \/ Goto("ensWait", "ensStart")
    /\ UNCHANGED <<bodyFrame, attempt, healthVars, powered, lateSteps, exhausted>>

EnsureStartModem ==
    /\ attempt < MaxRecoveryAttempts
    /\ Goto("ensStart", "ensStartWait")
    /\ powered' = TRUE
    /\ HardwareStep
    /\ UNCHANGED <<bodyFrame, attempt, healthVars, exhausted>>

EnsureStartModemFails ==
    /\ GpioMayFail
    /\ attempt < MaxRecoveryAttempts
    /\ Goto("ensStart", "ensStart")
    /\ attempt' = attempt + 1
    /\ UNCHANGED <<bodyFrame, healthVars, powered, lateSteps, exhausted>>

EnsureStartWait ==
    /\ \/ Goto("ensStartWait", "ensOk") /\ powered /\ UNCHANGED attempt
       \/ Goto("ensStartWait", "ensErr") /\ OpCancelled /\ UNCHANGED attempt
       \/ Goto("ensStartWait", "ensStart") /\ ~OpCancelled /\ attempt' = attempt + 1
    /\ UNCHANGED <<bodyFrame, healthVars, powered, lateSteps, exhausted>>

EnsureGiveUp ==
    /\ attempt = MaxRecoveryAttempts
    /\ Goto("ensStart", "ensErr")
    /\ health' = "permanent-failure"
    /\ exhausted' = TRUE
    /\ UNCHANGED <<bodyFrame, attempt, recoveryAttempts, powered, lateSteps>>

EnsureModemEnabled ==
    \/ EnsurePresent \/ EnsureWait \/ EnsureStartModem \/ EnsureStartModemFails
    \/ EnsureStartWait \/ EnsureGiveUp

-----------------------------------------------------------------------------
(* The monitor loop.                                                       *)

\* Steps of the monitor's control that touch no shared state but its own pc.
monitorFrame == <<opVars, handlerVars, attempt, healthVars, worldVars, runVars,
                  lateSteps, exhausted>>

MonitorInit ==
    /\ Goto("monInit", IF modemEnabled THEN "check" ELSE "disable")
    /\ applied' = modemEnabled
    /\ UNCHANGED <<targetVars, monitorFrame, caller, ticks>>

MonitorStop ==
    /\ Goto("select", "stopped")
    /\ ctxDone
    /\ UNCHANGED <<targetVars, monitorFrame, caller, applied, ticks>>

MonitorStateChange ==
    /\ Goto("select", "reconcile")
    /\ modemStateChange
    /\ modemStateChange' = FALSE
    /\ UNCHANGED <<modemEnabled, monitorFrame, caller, applied, ticks>>

\* The status ticker and ModemManager's added and removed events.
MonitorTick ==
    /\ ticks > 0 /\ ticks' = ticks - 1
    /\ Goto("select", IF modemEnabled THEN "check" ELSE "select")
    /\ UNCHANGED <<targetVars, monitorFrame, caller, applied>>

\* A GPS tick whose health check fails and ends in handleModemFailure.
MonitorGpsFailure ==
    /\ ticks > 0 /\ ticks' = ticks - 1
    /\ modemEnabled /\ health = "normal" /\ powered
    /\ Goto("select", "failure")
    /\ caller' = "gps"
    /\ UNCHANGED <<targetVars, monitorFrame, applied>>

\* A keepalive request of the SMS registration watchdog.
MonitorRefreshRequest ==
    /\ ticks > 0 /\ ticks' = ticks - 1
    /\ Goto("select", IF modemEnabled THEN "refreshOp" ELSE "select")
    /\ UNCHANGED <<targetVars, monitorFrame, caller, applied>>

\* Mutant: a target that was never applied is taken to need no clean-up.
ReconcileTargetSkipsCleanup ==
    /\ Goto("reconcile", IF modemEnabled = applied THEN "select"
                         ELSE IF modemEnabled THEN "recOp" ELSE "disable")
    /\ applied' = (modemEnabled /\ applied)
    /\ UNCHANGED <<targetVars, monitorFrame, caller, ticks>>

\* reconcileModemTarget up to startModemOperation.
ReconcileTarget ==
    /\ Goto("reconcile", IF ~modemEnabled THEN "disable"
                         ELSE IF applied THEN "select" ELSE "recOp")
    /\ applied' = (modemEnabled /\ applied)
    /\ UNCHANGED <<targetVars, monitorFrame, caller, ticks>>

ReconcileBegin ==
    /\ Goto("recOp", "ens")
    /\ startModemOperation
    /\ caller' = "reconcile" /\ exhausted' = FALSE
    /\ UNCHANGED <<targetVars, handlerVars, applied, attempt,
                   healthVars, worldVars, runVars, ticks>>

ReconcileEnd ==
    /\ caller = "reconcile" /\ mpc \in {"ensOk", "ensErr"}
    /\ Goto(mpc, IF mpc = "ensOk" THEN "check" ELSE "select")
    /\ finishModemOperation
    /\ applied' = (applied \/ mpc = "ensOk")
    /\ caller' = "none" /\ attempt' = 0
    /\ UNCHANGED <<targetVars, handlerVars, healthVars,
                   worldVars, runVars, ticks, exhausted>>

\* disableModem: publish the off state, power off, persist usage, release.  A failed
\* step is logged, and the next one follows all the same.
disableFrame == <<targetVars, opVars, handlerVars, caller, applied, attempt,
                  healthVars, runVars, ticks, lateSteps, exhausted>>

\* Mutant: usage is not persisted between power-off and release.
DisablePowerOffNoFlush ==
    /\ Goto("disable", "release")
    /\ powered' = FALSE
    /\ UNCHANGED <<disableFrame, inhibitor, usageDirty, disableFailed>>

DisablePowerOff ==
    /\ Goto("disable", "flush")
    /\ \/ powered' = FALSE /\ disableFailed' = {}
       \/ GpioMayFail /\ UNCHANGED powered /\ disableFailed' = {"powerOff"}
    /\ UNCHANGED <<disableFrame, inhibitor, usageDirty>>

\* Usage.Flush writes the totals if they are dirty; they stay so when that fails.
DisableFlush ==
    /\ Goto("flush", "release")
    /\ \/ usageDirty' = FALSE /\ UNCHANGED disableFailed
       \/ /\ FlushMayFail /\ usageDirty
          /\ disableFailed' = disableFailed \cup {"flush"}
          /\ UNCHANGED usageDirty
    /\ UNCHANGED <<disableFrame, powered, inhibitor>>

DisableRelease ==
    /\ Goto("release", "select")
    /\ inhibitor' = FALSE
    /\ disableFailed' = {}
    /\ UNCHANGED <<disableFrame, powered, usageDirty>>

MonitorLoop ==
    \/ MonitorInit \/ MonitorStop \/ MonitorStateChange \/ MonitorTick
    \/ MonitorGpsFailure \/ MonitorRefreshRequest
    \/ ReconcileTarget \/ ReconcileBegin \/ ReconcileEnd
    \/ DisablePowerOff \/ DisableFlush \/ DisableRelease

-----------------------------------------------------------------------------
(* checkAndPublishModemStatus.                                             *)

statusFrame == <<targetVars, handlerVars, applied, attempt, powered, inhibitor,
                 disableFailed, runVars, ticks, exhausted>>

\* A step of the monitor's control that changes nothing else.
StatusStep(from, to) ==
    /\ Goto(from, to)
    /\ UNCHANGED <<statusFrame, opVars, caller, healthVars, usageDirty, lateSteps>>

\* The end of an operation and of the round it was part of.
StatusEnd(from) ==
    /\ Goto(from, "select")
    /\ finishModemOperation
    /\ UNCHANGED <<statusFrame, caller, healthVars, usageDirty>>

CheckCancelled == ctxDone /\ StatusStep("check", "select")

CheckHealthy ==
    /\ Goto("check", "apn")
    /\ ~ctxDone /\ powered
    /\ health' = "normal" /\ recoveryAttempts' = 0
    /\ UNCHANGED <<statusFrame, opVars, caller, usageDirty, lateSteps>>

CheckFails ==
    /\ \/ /\ health \in {"recovery-failed-wait", "permanent-failure"}
          /\ Goto("check", "select")
          /\ UNCHANGED caller
       \/ /\ health \notin {"recovery-failed-wait", "permanent-failure"}
          /\ Goto("check", "failure")
          /\ caller' = "check"
    /\ ~ctxDone
    /\ UNCHANGED <<statusFrame, opVars, healthVars, usageDirty, lateSteps>>

\* reconcileSMSPresence finds a SIM that was not there before and arms the watch.
ArmWatch == StatusStep("apn", "armWatch")

\* The SIM is not ready for APN work, or the modem state cannot be read.
SkipApn ==
    \E from \in {"apn", "armWatch"} : StatusStep(from, "observe") \/ StatusStep(from, "select")

\* reconcileAPN registers the operation before it looks at the target.
ApnBegin ==
    /\ \E from \in {"apn", "armWatch"} : Goto(from, "apnCheck")
    /\ startModemOperation
    /\ UNCHANGED <<statusFrame, caller, healthVars, usageDirty>>

\* reconcileAPN returns; its caller goes on only while the modem is wanted and,
\* where the transaction may have changed it, its state can be read again.
ApnReturn(from) ==
    /\ \/ Goto(from, "select")
       \/ Goto(from, "observe") /\ ~ctxDone /\ modemEnabled
    /\ finishModemOperation
    /\ UNCHANGED <<statusFrame, caller, healthVars, usageDirty>>

ApnCheckTarget ==
    \/ modemEnabled /\ ~OpCancelled /\ StatusStep("apnCheck", "apnBody")
    \/ (~modemEnabled \/ OpCancelled) /\ ApnReturn("apnCheck")

\* The transaction ends: applied, rolled back, or given up after a cancellation.
ApnEnd == ApnReturn("apnBody")

\* Usage.Observe, then publication, then the deferred handleAssessment.
ObserveUsage ==
    /\ \/ Goto("observe", "remedy")
       \/ Goto("observe", "select")
    /\ usageDirty' \in {usageDirty, TRUE}
    /\ UNCHANGED <<statusFrame, opVars, caller, healthVars, lateSteps>>

\* applyRemedy: a modem reset is handleModemFailure, the others are operations.
RemedyReset ==
    /\ Goto("remedy", "failure")
    /\ caller' = "remedy"
    /\ UNCHANGED <<statusFrame, opVars, healthVars, usageDirty, lateSteps>>

RemedyBegin ==
    /\ Goto("remedy", "remCheck")
    /\ startModemOperation
    /\ UNCHANGED <<statusFrame, caller, healthVars, usageDirty>>

\* Mutant: the target is not read again once the operation is registered.
RemedyCheckTargetUnchecked == StatusStep("remCheck", "remBody")

RemedyCheckTarget ==
    \/ modemEnabled /\ StatusStep("remCheck", "remBody")
    \/ ~modemEnabled /\ StatusEnd("remCheck")

RemedyEnd == StatusEnd("remBody")

CheckAndPublish ==
    \/ CheckCancelled \/ CheckHealthy \/ CheckFails
    \/ ArmWatch \/ SkipApn \/ ApnBegin \/ ApnCheckTarget \/ ApnEnd \/ ObserveUsage
    \/ RemedyReset \/ RemedyBegin \/ RemedyCheckTarget \/ RemedyEnd

\* refreshSMSRegistration, which may end in a recovery nested in its operation.
RefreshBegin ==
    /\ Goto("refreshOp", "refreshBody")
    /\ startModemOperation
    /\ UNCHANGED <<statusFrame, caller, healthVars, usageDirty>>

RefreshBody ==
    /\ \/ Goto("refreshBody", "refreshEnd") /\ UNCHANGED caller
       \/ Goto("refreshBody", "refreshWatch") /\ UNCHANGED caller
       \/ Goto("refreshWatch", "refreshEnd") /\ UNCHANGED caller
       \/ Goto("refreshBody", "failure") /\ caller' = "refresh"
    /\ UNCHANGED <<statusFrame, opVars, healthVars, usageDirty, lateSteps>>

RefreshEnd == StatusEnd("refreshEnd")

RefreshSMSRegistration == RefreshBegin \/ RefreshBody \/ RefreshEnd

-----------------------------------------------------------------------------
(* handleModemFailure and the recovery ladder of attemptRecovery.          *)

failureFrame == <<statusFrame, caller, usageDirty>>

FailureCheckTarget ==
    /\ Goto("failure", IF OpCancelled \/ ~modemEnabled THEN "failErr" ELSE "failOp")
    /\ UNCHANGED <<failureFrame, opVars, healthVars, lateSteps>>

\* With attempts left the ladder follows; without, MarkRecoveryFailed and the
\* two-minute back-off.
FailureBegin ==
    /\ startModemOperation
    /\ \/ /\ recoveryAttempts < MaxRecoveryAttempts
          /\ Goto("failOp", "recBegin")
          /\ UNCHANGED healthVars
       \/ /\ recoveryAttempts >= MaxRecoveryAttempts
          /\ Goto("failOp", "backoff")
          /\ health' = "recovery-failed-wait"
          /\ UNCHANGED recoveryAttempts
    /\ UNCHANGED failureFrame

\* Both ends of the back-off, expiry and cancellation, return to normal.
BackoffEnd ==
    /\ Goto("backoff", "failErr")
    /\ finishModemOperation
    /\ health' = "normal" /\ recoveryAttempts' = 0
    /\ UNCHANGED failureFrame

\* recoverySucceeded, then the deferred calls.  The last thing the former does is
\* startSMSWatch: the state after it stands for that, and as it looks at nothing the
\* deferred calls change, they are taken to come first.
RecoverySucceeded(from) ==
    /\ Goto(from, "failOk")
    /\ powered
    /\ finishModemOperation
    /\ health' = "normal" /\ recoveryAttempts' = 0
    /\ UNCHANGED failureFrame

\* Mutant: an error return leaves the health state at "recovering".
FinishRecoveryAttemptForgotten == UNCHANGED health

FinishRecoveryAttempt == health' = IF health = "recovering" THEN "normal" ELSE health

\* An error return: FinishRecoveryAttempt and finish run as deferred calls.
RecoveryReturns(from) ==
    /\ Goto(from, "failErr")
    /\ finishModemOperation
    /\ FinishRecoveryAttempt
    /\ UNCHANGED <<failureFrame, recoveryAttempts>>

ladderFrame == <<targetVars, opVars, handlerVars, applied, attempt, inhibitor, usageDirty,
                 disableFailed, runVars, ticks, exhausted, caller, healthVars>>

\* One rung leads to the next.
LadderStep(from, to) == Goto(from, to) /\ UNCHANGED <<ladderFrame, powered, lateSteps>>

\* A rung acts on the hardware, which is then on or off.
LadderAction(from, to, on) ==
    /\ Goto(from, to)
    /\ HardwareStep
    /\ powered' = on
    /\ UNCHANGED ladderFrame

\* StartRecovery.
RecoverStart ==
    /\ Goto("recBegin", "recStab")
    /\ health' = "recovering" /\ recoveryAttempts' = recoveryAttempts + 1
    /\ UNCHANGED <<failureFrame, opVars, lateSteps>>

\* The first lines of attemptRecovery: an operation cancelled by now returns
\* before an attempt is counted.
RecoverBegin ==
    \/ OpCancelled /\ RecoveryReturns("recBegin")
    \/ ~OpCancelled /\ RecoverStart

\* The stabilisation wait is skipped when the modem is ready; cancelled or timed
\* out, it goes on to the reset without looking at the context.
RecoverStabilize ==
    \/ RecoverySucceeded("recStab")
    \/ LadderStep("recStab", "recReset")

RecoverDBusReset ==
    \/ powered /\ LadderAction("recReset", "recResetWait", powered)
    \/ LadderStep("recReset", "recUsb")          \* not found, or the reset fails

RecoverDBusResetWait ==
    \/ OpCancelled /\ RecoveryReturns("recResetWait")
    \/ ~OpCancelled /\ RecoverySucceeded("recResetWait")
    \/ ~OpCancelled /\ LadderStep("recResetWait", "recUsb")

RecoverUSB ==
    \/ OpCancelled /\ RecoveryReturns("recUsb")
    \/ ~OpCancelled /\ LadderAction("recUsb", "recUsbWait", powered)

RecoverUSBWait ==
    \/ RecoverySucceeded("recUsbWait")
    \/ LadderStep("recUsbWait", "recGpio")

\* Mutant: the context is not looked at before the power cycle.
RecoverGpioOffUnchecked == LadderAction("recGpio", "recGpioOn", FALSE)

\* RestartModem: the off pulse, the interruptible wait, the on pulse; an
\* interrupted cycle falls back to a D-Bus reset and leaves the modem off.
RecoverGpioOff ==
    \/ OpCancelled /\ RecoveryReturns("recGpio")
    \/ ~OpCancelled /\ LadderAction("recGpio", "recGpioOn", FALSE)
    \/ ~OpCancelled /\ GpioMayFail /\ LadderStep("recGpio", "recExt")

RecoverGpioOn == LadderAction("recGpioOn", "recGpioWait", ~OpCancelled)

RecoverGpioWait ==
    \/ RecoverySucceeded("recGpioWait")
    \/ LadderStep("recGpioWait", "recExt")

RecoverExtended ==
    \/ OpCancelled /\ RecoveryReturns("recExt")
    \/ ~OpCancelled /\ LadderStep("recExt", "recExtWait")

RecoverExtendedWait ==
    \/ RecoveryReturns("recExtWait")
    \/ ~OpCancelled /\ RecoverySucceeded("recExtWait")

\* handleModemFailure returns to the caller that reported the failure.
FailureReturn ==
    /\ mpc \in {"failOk", "failErr"}
    /\ Goto(mpc, CASE caller = "refresh" -> "refreshEnd"
                   [] caller = "check" /\ mpc = "failOk" -> "apn"
                   [] OTHER -> "select")
    /\ caller' = "none"
    /\ UNCHANGED <<statusFrame, usageDirty, opVars, healthVars, lateSteps>>

HandleModemFailure ==
    \/ FailureCheckTarget \/ FailureBegin \/ BackoffEnd \/ FailureReturn

AttemptRecovery ==
    \/ RecoverBegin \/ RecoverStabilize \/ RecoverDBusReset \/ RecoverDBusResetWait
    \/ RecoverUSB \/ RecoverUSBWait
    \/ RecoverGpioOff \/ RecoverGpioOn \/ RecoverGpioWait
    \/ RecoverExtended \/ RecoverExtendedWait

-----------------------------------------------------------------------------
(* Shutdown: the part of Run after the monitor has been started.           *)

shutdownFrame == <<targetVars, opVars, handlerVars, mpc, caller, applied, attempt,
                   healthVars, powered, disableFailed, ticks, lateSteps, exhausted>>

\* SIGINT or SIGTERM cancels the service context.
Terminate ==
    /\ MayTerminate
    /\ Alive /\ ~ctxDone
    /\ ctxDone' = TRUE
    /\ UNCHANGED <<shutdownFrame, inhibitor, usageDirty, rpc>>

\* Run has started the monitor.
MonitorStarted == mpc \notin StartupStates /\ caller # "startup"

\* forwardLoop has returned.  Run waits for it without a limit, and nothing here says
\* that it ever does.
ShutdownForwarderDone ==
    /\ rpc = "serving" /\ ctxDone
    /\ MonitorStarted
    /\ rpc' = "await"
    /\ UNCHANGED <<shutdownFrame, inhibitor, usageDirty, ctxDone>>

\* Mutant: Run waits for the monitor without a time limit.
ShutdownAwaitedUnbounded ==
    /\ rpc = "await"
    /\ mpc = "stopped"
    /\ rpc' = "watch"
    /\ UNCHANGED <<shutdownFrame, inhibitor, usageDirty, ctxDone>>

\* monitorDone is closed, or ten seconds have passed.
ShutdownAwaited ==
    /\ rpc = "await"
    /\ rpc' = "watch"
    /\ UNCHANGED <<shutdownFrame, inhibitor, usageDirty, ctxDone>>

\* stopSMSWatch needs the lock that startSMSWatch holds.
ShutdownStopWatch ==
    /\ rpc = "watch"
    /\ mpc \notin WatchStates
    /\ rpc' = "location"
    /\ UNCHANGED <<shutdownFrame, inhibitor, usageDirty, ctxDone>>

\* Location.Close has returned.  What it waits for is in Gps.
ShutdownLocationClosed ==
    /\ rpc = "location"
    /\ rpc' = "flush"
    /\ UNCHANGED <<shutdownFrame, inhibitor, usageDirty, ctxDone>>

ShutdownFlush ==
    /\ rpc = "flush"
    /\ rpc' = "release"
    /\ usageDirty' \in {FALSE, FlushMayFail /\ usageDirty}
    /\ UNCHANGED <<shutdownFrame, inhibitor, ctxDone>>

ShutdownRelease ==
    /\ rpc = "release"
    /\ rpc' = "close"
    /\ inhibitor' = FALSE
    /\ UNCHANGED <<shutdownFrame, usageDirty, ctxDone>>

\* Redis.Close and the return from main: the other goroutines die.
ShutdownClose ==
    /\ rpc = "close"
    /\ rpc' = "done"
    /\ UNCHANGED <<shutdownFrame, inhibitor, usageDirty, ctxDone>>

Shutdown ==
    \/ ShutdownForwarderDone \/ ShutdownAwaited \/ ShutdownStopWatch \/ ShutdownLocationClosed
    \/ ShutdownFlush \/ ShutdownRelease \/ ShutdownClose

-----------------------------------------------------------------------------
Monitor ==
    \/ Startup \/ EnsureModemEnabled \/ MonitorLoop \/ CheckAndPublish
    \/ RefreshSMSRegistration \/ HandleModemFailure \/ AttemptRecovery

Next == Handlers \/ Monitor \/ Terminate \/ Shutdown

Spec == Init /\ [][Next]_vars

\* A handler finishes what it has begun.  The monitor takes its steps until the context
\* is cancelled: most D-Bus calls have no time-out, so that this takes ModemManager to
\* answer; from then on it may hang in a call.  Run shuts down, but that
\* forwardLoop returns, and Location.Close, is not assumed.
Fairness ==
    /\ WF_vars(EnableAddInhibitor \/ DisableReadCancel \/ DisableCallCancel \/ CommandSignal)
    /\ WF_vars(VehicleAddInhibitor \/ VehicleSignal)
    /\ WF_vars(~ctxDone /\ Monitor)
    /\ WF_vars(\/ ShutdownAwaited \/ ShutdownStopWatch
               \/ ShutdownFlush \/ ShutdownRelease \/ ShutdownClose)

FairSpec == Spec /\ Fairness

-----------------------------------------------------------------------------
(* Properties.                                                             *)

\* Every variable has its type.
TypeOK ==
    /\ modemEnabled \in BOOLEAN /\ modemStateChange \in BOOLEAN
    /\ modemOpGeneration \in Nat /\ modemOpCancel \in Nat /\ cancelled \in SUBSET Nat
    /\ op \in Nat /\ outerOp \in Nat
    /\ cpc \in {"idle", "enableAdd", "disableRead", "disableCancel", "signal"}
    /\ cCancel \in Nat
    /\ vpc \in {"idle", "add", "signal"}
    /\ mpc \in MonitorStates
    /\ caller \in {"startup", "reconcile", "check", "gps", "remedy", "refresh", "none"}
    /\ applied \in BOOLEAN /\ attempt \in 0..MaxRecoveryAttempts
    /\ health \in HealthStates /\ recoveryAttempts \in 0..MaxRecoveryAttempts
    /\ powered \in BOOLEAN /\ inhibitor \in BOOLEAN /\ usageDirty \in BOOLEAN
    /\ disableFailed \in SUBSET {"powerOff", "flush"}
    /\ ctxDone \in BOOLEAN
    /\ rpc \in {"serving", "await", "watch", "location", "flush", "release", "close", "done", "exited"}
    /\ commands \in 0..MaxCommands /\ ticks \in 0..MaxTicks
    /\ lateSteps \in Nat /\ exhausted \in BOOLEAN

\* The disable command has been carried out as far as the cancellation: the
\* target is off and its handler is past cancelModemOperation.
DisableDelivered == ~modemEnabled /\ cpc \in {"idle", "signal"}

\* An APN transaction or a link remedy never outlives a disable uncancelled,
\* whatever the order of the handler's and the monitor's steps: reconcileAPN
\* and applyRemedy register their operation before they read the target.
GuardedOperationsCancelled ==
    mpc \in {"apnBody", "remBody"} /\ DisableDelivered => OpCancelled

\* Once it is cancelled, enabling or recovering the modem performs at most one more
\* hardware action (power-on pulse, D-Bus reset, USB rebind, power cycle):
\* attemptRecovery and ensureModemEnabled look at the context before anything else
\* they start.  (The SMS refresh does not; its commands are in SmsWatch.)
AtMostOneLateStep == lateSteps <= 1

\* The published health state says what the monitor is doing: "recovering" is
\* shown exactly while the ladder runs and the failed-wait state exactly during
\* the back-off, on every return path of handleModemFailure.
HealthMatchesMonitor ==
    /\ health = "recovering" <=> mpc \in LadderStates
    /\ health = "recovery-failed-wait" <=> mpc = "backoff"

\* disableModem permits suspend last: whatever a handler does meanwhile, the inhibitor is
\* taken away only with the modem off and its usage on disk, or after the very disable
\* that takes it away has tried to bring that about and its GPIO request or its
\* write has failed.  Shutdown may leave the modem on.
ReleaseOnlyWhenSafe ==
    [][inhibitor /\ ~inhibitor' =>
        \/ /\ powered => "powerOff" \in disableFailed
           /\ usageDirty => "flush" \in disableFailed
        \/ rpc = "release"]_vars

\* No command is lost between the channel of capacity one, the cancellations and the
\* monitor's readings of the target: when the monitor waits and nothing is under way,
\* a disabled modem is off and without its inhibitor, and an enabled one has been
\* brought up, unless ensureModemEnabled used up its attempts at it.
TargetReached ==
    (mpc = "select" /\ ~modemStateChange /\ cpc = "idle" /\ vpc = "idle" /\ ~ctxDone) =>
        IF modemEnabled THEN applied \/ exhausted
        ELSE ~applied /\ ~inhibitor /\ (~GpioMayFail => ~powered)

\* When commands stop arriving, a disabled modem ends up off and without its inhibitor,
\* and an enabled one is brought up, unless ensureModemEnabled used up its attempts: no
\* operation runs on for ever, and a late AddInhibitor of a handler is cleaned up.
TargetSettles ==
    <>[](ctxDone \/ IF modemEnabled THEN applied \/ exhausted ELSE ~powered /\ ~inhibitor)

\* Once forwardLoop has returned, a shutdown completes even when the monitor hangs in a
\* call that ignores the context: Run does not stop for ever anywhere but at two
\* places, at the lock of the SMS watch with a monitor that hangs in startSMSWatch,
\* which the ten seconds do not bound, and in Location.Close.
ShutdownBounded ==
    <>[](\/ rpc \in {"serving", "location", "done", "exited"}
         \/ rpc = "watch" /\ mpc \in WatchStates)

\* README.md: "While the modem is powered, the service creates the modem-active
\* block inhibitor".  Stated for the states in which everything has settled.
InhibitorWhilePowered ==
    (/\ modemEnabled /\ powered /\ ~ctxDone
     /\ mpc = "select" /\ ~modemStateChange
     /\ cpc = "idle" /\ vpc = "idle")
    => inhibitor
=============================================================================
