--------------------------------- MODULE Gps ---------------------------------
(***************************************************************************)
(* The GPS pipeline: receiver, gpsd, the location service and the monitor  *)
(* loop that watches over it.                                              *)
(*                                                                         *)
(* Goroutines: the location monitor that EnableGPS starts (loc), one gpsd  *)
(* reader per connection (reader), the service's monitor loop (m), and Run *)
(* at shutdown, which closes the location service too (close["run"]).      *)
(* Sessions are told apart only as the open one and earlier ones.  Time is *)
(* what the code compares it with: a report is fresh or older than         *)
(* gpsNoDataTimeout, a fix is recent or older than GPSTimeout.             *)
(***************************************************************************)
EXTENDS Naturals

CONSTANTS
    MaxConfigRetries,   \* attempts of one configureGPS
    MaxGPSRecoveries,   \* recoveries before the long break (3 in the code)
    MaxDisturbances     \* bound: failures, resets, silences, requests, commands

ASSUME RetriesAssumption == MaxConfigRetries \in Nat \ {0} /\ MaxGPSRecoveries \in Nat
ASSUME DisturbancesAssumption == MaxDisturbances \in Nat

VARIABLES
    hw,           \* receiver, gpsd and whether ModemManager has the modem
    wish,         \* modemEnabled, modem.gps and whether SIGTERM has come
    loc,          \* the location monitor: control, monitorCancel, its context
    st,           \* fields of location.Service that several goroutines share
    reader,       \* the gpsd readers: of the open session, of earlier ones
    configMutex, lifecycleMu,  \* their holders
    m,            \* the service's monitor loop: control and continuation
    close,        \* progress of Location.Close, per caller
    svc,          \* fields of service.Service that the monitor loop owns, what Redis shows,
                  \* and of the modem: applied, given up, "off" not published (history)
    left          \* what is left of MaxDisturbances

vars == <<hw, wish, loc, st, reader, configMutex, lifecycleMu, m, close, svc, left>>

Receiver == {"stopped", "running", "reusable"}
Age == {"zero", "fresh", "stale"}
Disturb == left > 0 /\ left' = left - 1
Alive == close["run"] # "done"

Init ==
    /\ hw \in [rx : Receiver, gpsd : BOOLEAN, present : {TRUE}]
    /\ wish = [enabled |-> TRUE, gps |-> TRUE, stopping |-> FALSE]
    /\ loc = [pc |-> "none", on |-> FALSE, cancelled |-> FALSE, retrying |-> FALSE, tries |-> 0]
    /\ st = [conn |-> FALSE, modeSwitchReady |-> FALSE, hasValidFix |-> FALSE, fixOld |-> FALSE,
             lastData |-> "zero", freshInit |-> TRUE]
    /\ reader = [cur |-> "none", old |-> FALSE, stray |-> FALSE]
    /\ configMutex = "free" /\ lifecycleMu = "free"
    /\ m = [pc |-> "select", then |-> "none"]
    /\ close = [c \in {"monitor", "run"} |-> "idle"]
    /\ svc \in [enabledAt : {"zero"}, gated : {FALSE}, count : {0}, waiting : {FALSE},
                fault : {FALSE}, applied : {TRUE}, gaveUp : {FALSE},
                published : {"active"}, offLost : {FALSE}]
    /\ left = MaxDisturbances

-----------------------------------------------------------------------------
(* The receiver, gpsd and time *)

worldFrame == <<wish, loc, configMutex, lifecycleMu, m, close, svc>>

CanDeliver ==
    /\ st.conn /\ reader.cur = "reading"
    /\ hw.gpsd /\ hw.rx # "stopped" /\ hw.present

\* The SKY and TPV callbacks.  A TPV of mode 0, like SKY, says nothing of a fix.
Noted(kind) ==
    CASE kind = "partial" -> [st EXCEPT !.lastData = "fresh"]
      [] kind = "searching" -> [st EXCEPT !.lastData = "fresh", !.hasValidFix = FALSE]
      [] kind = "fix" -> [st EXCEPT !.lastData = "fresh", !.hasValidFix = TRUE, !.fixOld = FALSE]
Reports == {"partial", "searching", "fix"}

Report ==
    /\ CanDeliver /\ \E kind \in Reports : st' = Noted(kind)
    /\ UNCHANGED <<worldFrame, hw, reader, left>>

\* A reader whose connection was closed may finish a report before it returns.
ReaderExit ==
    /\ \/ reader.cur = "closing" /\ reader' = [reader EXCEPT !.cur = "none"]
       \/ reader.old /\ reader' = [reader EXCEPT !.old = FALSE]
    /\ st' \in {Noted(kind) : kind \in Reports} \cup {st}
    /\ UNCHANGED <<worldFrame, hw, left>>

\* gpsd dies: its clients read an error.
GpsdDies ==
    /\ hw.gpsd /\ Disturb /\ hw' = [hw EXCEPT !.gpsd = FALSE]
    /\ reader' = [reader EXCEPT !.cur = IF @ = "reading" THEN "none" ELSE @]
    /\ UNCHANGED <<worldFrame, st>>

\* The modem resets: its receiver stops and its object leaves the bus.
ModemReset ==
    /\ hw.present /\ Disturb /\ hw' = [hw EXCEPT !.rx = "stopped", !.present = FALSE]
    /\ UNCHANGED <<worldFrame, st, reader>>

ModemReappears ==
    /\ ~hw.present /\ svc.applied /\ hw' = [hw EXCEPT !.present = TRUE]
    /\ UNCHANGED <<worldFrame, st, reader, left>>

\* Seconds pass only while the goroutines wait for something that takes as long.
Waiting ==
    /\ m.pc \in {"select", "mode_start"} /\ close["run"] = "idle"
    /\ loc.pc \in {"none", "probe", "config", "start", "backoff", "watch"}
       \/ (loc.pc \in {"lock", "drop"} /\ configMutex # "free")

\* gpsNoDataTimeout passes without a report, as it must when none can come.
Silence ==
    /\ Waiting /\ st.lastData = "fresh" /\ st' = [st EXCEPT !.lastData = "stale"]
    /\ IF CanDeliver THEN Disturb ELSE UNCHANGED left
    /\ UNCHANGED <<worldFrame, hw, reader>>

\* GPSTimeout passes with nothing but partial reports.
FixAges ==
    /\ CanDeliver /\ st.hasValidFix /\ ~st.fixOld /\ Disturb
    /\ st' = [st EXCEPT !.fixOld = TRUE]
    /\ UNCHANGED <<worldFrame, hw, reader>>

TimePasses ==
    /\ Waiting
    /\ \/ svc.enabledAt = "fresh" /\ svc' = [svc EXCEPT !.enabledAt = "stale"]
       \/ svc.gated /\ svc' = [svc EXCEPT !.gated = FALSE]
    /\ UNCHANGED <<hw, wish, loc, st, reader, configMutex, lifecycleMu, m, close, left>>

\* The user: scooter:modem commands, the modem.gps setting, SIGTERM.
Command ==
    /\ Disturb
    /\ \/ wish' = [wish EXCEPT !.enabled = ~@]
       \/ wish' = [wish EXCEPT !.gps = ~@]
    /\ UNCHANGED <<hw, loc, st, reader, configMutex, lifecycleMu, m, close, svc>>

Terminate ==
    /\ ~wish.stopping /\ Disturb /\ wish' = [wish EXCEPT !.stopping = TRUE]
    /\ UNCHANGED <<hw, loc, st, reader, configMutex, lifecycleMu, m, close, svc>>

Disturbance == GpsdDies \/ ModemReset \/ FixAges \/ Command \/ Terminate
Clock == Silence \/ TimePasses

-----------------------------------------------------------------------------
(* The location monitor: the goroutine of EnableGPS *)

locFrame == <<wish, lifecycleMu, m, close, svc>>
Goto(pc) == loc' = [loc EXCEPT !.pc = pc]

\* GpsdConn is closed without waiting for its reader.
DropConnection ==
    reader' = [reader EXCEPT !.cur = "none", !.old = @ \/ reader.cur = "reading"]

\* The context is looked at before the lock, in a back-off and between two checks.
LocExit ==
    /\ loc.pc \in {"lock", "backoff", "watch"} /\ loc.cancelled
    /\ Goto("none") /\ st' = [st EXCEPT !.modeSwitchReady = FALSE]
    /\ UNCHANGED <<locFrame, hw, reader, configMutex, left>>

\* connectToGPSD, with no connection open: the dial fails or a session begins.
Dial(ok) ==
    \/ ok /\ hw.gpsd /\ reader' = [reader EXCEPT !.cur = "reading"] /\ UNCHANGED left
    \/ ~ok /\ ~hw.gpsd /\ UNCHANGED <<reader, left>>
    \/ ~ok /\ hw.gpsd /\ Disturb /\ UNCHANGED reader

LocLock ==
    /\ loc.pc = "lock" /\ configMutex = "free" /\ configMutex' = "loc"
    /\ \/ /\ ~loc.retrying /\ st.freshInit
          /\ \/ Dial(TRUE) /\ Goto("probe") /\ st' = [st EXCEPT !.conn = TRUE]
             \/ /\ Dial(FALSE)
                /\ loc' = [loc EXCEPT !.pc = "config", !.tries = 0]
                /\ st' = [st EXCEPT !.freshInit = FALSE]
       \/ /\ loc.retrying \/ ~st.freshInit
          /\ loc' = [loc EXCEPT !.pc = "config", !.tries = 0] /\ UNCHANGED <<st, reader, left>>
    /\ UNCHANGED <<locFrame, hw>>

\* probeStartupReuse: a receiver that is set up and delivers is kept as it is.
LocReuse ==
    /\ loc.pc = "probe" /\ ~loc.cancelled
    /\ hw.rx = "reusable" /\ hw.present /\ st.lastData # "zero"
    /\ st' = [st EXCEPT !.freshInit = FALSE, !.modeSwitchReady = TRUE]
    /\ Goto("watch") /\ configMutex' = "free"
    /\ UNCHANGED <<locFrame, hw, reader, left>>

LocReuseRejected ==
    /\ loc.pc = "probe"
    /\ \/ (loc.cancelled \/ hw.rx # "reusable" \/ ~hw.present \/ st.lastData = "zero") /\ UNCHANGED left
       \/ Disturb
    /\ DropConnection
    /\ st' = [st EXCEPT !.freshInit = FALSE, !.conn = FALSE]
    /\ loc' = [loc EXCEPT !.pc = "config", !.tries = 0]
    /\ UNCHANGED <<locFrame, hw, configMutex>>

\* doGPSConfiguration has failed: configureGPSWithRetries tries again or gives up.
ConfigFailed ==
    IF ~loc.cancelled /\ loc.tries + 1 < MaxConfigRetries
    THEN loc' = [loc EXCEPT !.pc = "config", !.tries = @ + 1] /\ UNCHANGED configMutex
    ELSE Goto("backoff") /\ configMutex' = "free"

CannotCommand == (loc.cancelled \/ ~hw.present) /\ UNCHANGED left

\* configureGPSViaATCommands: the receiver is stopped, and seen to be.
LocConfigure ==
    /\ loc.pc = "config"
    /\ \/ /\ ~loc.cancelled /\ hw.present /\ hw' = [hw EXCEPT !.rx = "stopped"]
          /\ Goto("start") /\ UNCHANGED <<configMutex, left>>
       \/ /\ CannotCommand \/ Disturb
          /\ hw' \in {hw, [hw EXCEPT !.rx = "stopped"]} /\ ConfigFailed
    /\ UNCHANGED <<locFrame, st, reader>>

\* configureAntennaPower, startStandaloneReceiver, then gpsd is restarted.
LocStart ==
    /\ loc.pc = "start"
    /\ \/ /\ ~loc.cancelled /\ hw.present
          /\ \/ hw' = [hw EXCEPT !.rx = "reusable", !.gpsd = TRUE] /\ UNCHANGED left
             \/ hw' = [hw EXCEPT !.rx = "reusable"] /\ Disturb
          /\ Goto("dial") /\ UNCHANGED configMutex
       \/ /\ CannotCommand \/ Disturb
          /\ hw' \in {hw, [hw EXCEPT !.rx = IF hw.present THEN "reusable" ELSE @]}
          /\ ConfigFailed
    /\ UNCHANGED <<locFrame, st, reader>>

LocDial ==
    /\ loc.pc = "dial" /\ configMutex' = "free"
    /\ \/ /\ Dial(TRUE)
          /\ st' = [st EXCEPT !.conn = TRUE, !.lastData = "fresh", !.modeSwitchReady = TRUE]
          /\ loc' = [loc EXCEPT !.pc = "watch", !.retrying = FALSE]
       \/ /\ Dial(FALSE)
          /\ Goto("backoff") /\ UNCHANGED st
    /\ UNCHANGED <<locFrame, hw>>

\* Mutant: the back-off is slept through, and the attempt made.
LocBackoffUncancelled ==
    /\ loc.pc = "backoff"
    /\ loc' = [loc EXCEPT !.pc = "lock", !.retrying = TRUE]
    /\ UNCHANGED <<locFrame, hw, st, reader, configMutex, left>>

LocBackoff ==
    /\ loc.pc = "backoff" /\ ~loc.cancelled
    /\ loc' = [loc EXCEPT !.pc = "lock", !.retrying = TRUE]
    /\ UNCHANGED <<locFrame, hw, st, reader, configMutex, left>>

\* The fix has not been renewed for GPSTimeout: reconnect.
LocTimeout ==
    /\ loc.pc = "watch" /\ st.hasValidFix /\ st.fixOld
    /\ st' = [st EXCEPT !.modeSwitchReady = FALSE] /\ Goto("drop")
    /\ UNCHANGED <<locFrame, hw, reader, configMutex, left>>

LocDrop ==
    /\ loc.pc = "drop" /\ configMutex = "free"
    /\ DropConnection /\ st' = [st EXCEPT !.conn = FALSE] /\ Goto("lock")
    /\ UNCHANGED <<locFrame, hw, configMutex, left>>

Location ==
    \/ LocExit \/ LocLock \/ LocReuse \/ LocReuseRejected \/ LocConfigure
    \/ LocStart \/ LocDial \/ LocBackoff \/ LocTimeout \/ LocDrop

-----------------------------------------------------------------------------
(* Location.Close, called by the monitor loop and by Run *)

closeFrame == <<wish, svc>>

\* The first step, before lifecycleMu: mode switches are no longer accepted.
BeginClose(c) ==
    /\ close' = [close EXCEPT ![c] = "lock"]
    /\ st' = [st EXCEPT !.modeSwitchReady = FALSE]

CloseLock(c) ==
    /\ close[c] = "lock" /\ lifecycleMu = "free" /\ lifecycleMu' = c
    /\ loc' = [loc EXCEPT !.cancelled = loc.on]
    /\ close' = [close EXCEPT ![c] = "join"]
    /\ UNCHANGED <<closeFrame, hw, st, reader, configMutex, m, left>>

\* The monitor goroutine has returned; the connection is closed.
CloseJoin(c) ==
    /\ close[c] = "join" /\ loc.pc = "none" /\ configMutex = "free"
    /\ loc' = [loc EXCEPT !.on = FALSE, !.cancelled = FALSE]
    /\ IF st.conn /\ reader.cur = "reading"
       THEN /\ reader' = [reader EXCEPT !.cur = "closing"] /\ configMutex' = c
            /\ close' = [close EXCEPT ![c] = "reader"]
       ELSE /\ close' = [close EXCEPT ![c] = "clear"] /\ UNCHANGED <<reader, configMutex>>
    /\ st' = [st EXCEPT !.conn = FALSE]
    /\ UNCHANGED <<closeFrame, hw, lifecycleMu, m, left>>

\* Mutant: Close does not wait for the reader.
CloseReaderNoWait(c) ==
    /\ close[c] = "reader"
    /\ configMutex' = "free" /\ close' = [close EXCEPT ![c] = "clear"]
    /\ UNCHANGED <<closeFrame, hw, st, loc, reader, lifecycleMu, m, left>>

\* The reader has returned, or is given up after two seconds.
CloseReader(c) ==
    /\ close[c] = "reader"
    /\ \/ reader.cur = "none" /\ UNCHANGED <<reader, left>>
       \/ reader.cur = "closing" /\ Disturb /\ reader' = [reader EXCEPT !.cur = "none", !.old = TRUE]
    /\ configMutex' = "free" /\ close' = [close EXCEPT ![c] = "clear"]
    /\ UNCHANGED <<closeFrame, hw, st, loc, lifecycleMu, m>>

\* Fix and timestamps are cleared; stray: a reader is still there to set them.
CloseClear(c) ==
    /\ close[c] = "clear" /\ close' = [close EXCEPT ![c] = "closed"]
    /\ st' = [st EXCEPT !.hasValidFix = FALSE, !.fixOld = FALSE, !.lastData = "zero"]
    /\ reader' = [reader EXCEPT !.stray = reader.old]
    /\ lifecycleMu' = "free"
    /\ UNCHANGED <<closeFrame, hw, loc, configMutex, m, left>>

Closing == \E c \in DOMAIN close :
    CloseLock(c) \/ CloseJoin(c) \/ CloseReader(c) \/ CloseClear(c)

\* Run closes once the monitor loop has returned, or after ten seconds.
RunClose ==
    /\ wish.stopping /\ close["run"] = "idle" /\ BeginClose("run")
    /\ UNCHANGED <<closeFrame, hw, loc, reader, configMutex, lifecycleMu, m, left>>

\* The state "off" is published, unless Redis fails: the error is dropped.
RunExit ==
    /\ close["run"] = "closed" /\ close' = [close EXCEPT !["run"] = "done"]
    /\ \E shown \in {"off", svc.published} :
         /\ svc' = [svc EXCEPT !.published = shown]
         /\ IF shown = "off" THEN UNCHANGED left ELSE Disturb
    /\ UNCHANGED <<hw, wish, loc, st, reader, configMutex, lifecycleMu, m>>

-----------------------------------------------------------------------------
(* The service's monitor loop *)

monFrame == <<wish, reader, configMutex, lifecycleMu>>
MonGoto(pc) == m' = [m EXCEPT !.pc = pc]
Selecting == m.pc = "select" /\ ~wish.stopping

\* EnableGPS, up to the start of its goroutine.
EnableGPS ==
    /\ lifecycleMu = "free"
    /\ IF loc.on THEN UNCHANGED <<loc, st>>
       ELSE /\ configMutex = "free"
            /\ loc' = [pc |-> "lock", on |-> TRUE, cancelled |-> FALSE, retrying |-> FALSE, tries |-> 0]
            /\ st' = [st EXCEPT !.modeSwitchReady = FALSE]

\* The conditions of the GPS timer's case.
Ticking ==
    Selecting /\ wish.enabled /\ wish.gps /\ hw.present /\ ~svc.gated /\ ~svc.gaveUp

\* GPS is enabled first, if no location monitor is active.
GpsEnable ==
    /\ Ticking /\ loc.pc = "none" /\ EnableGPS
    /\ svc' = [svc EXCEPT !.enabledAt = "fresh"]
    /\ UNCHANGED <<monFrame, hw, m, close, left>>

\* Mutant: only the time since GPS was enabled is looked at.
NoDataAtStartOnly ==
    configMutex = "free" /\ st.lastData = "zero" /\ svc.enabledAt = "stale"

\* checkGPSHealth; while the mutex is held the pipeline is being configured.
NoData ==
    /\ configMutex = "free"
    /\ \/ st.lastData = "stale"
       \/ st.lastData = "zero" /\ svc.enabledAt = "stale"

\* Mutant: without a fix the state is left as it is.
ShownSticky == IF st.hasValidFix THEN "active" ELSE svc.published
Shown == IF st.hasValidFix THEN "active" ELSE "searching"

\* The bookkeeping of a fix found or missed.
Noticed ==
    IF ~st.hasValidFix THEN [svc EXCEPT !.waiting = TRUE]
    ELSE IF svc.waiting THEN [svc EXCEPT !.waiting = FALSE, !.count = 0, !.enabledAt = "zero"]
    ELSE svc

\* A healthy pipeline clears the fault and is published, unless Redis fails.
GpsTick ==
    /\ Ticking /\ loc.pc # "none" /\ ~NoData
    /\ \E cleared \in {svc.fault /\ st.lastData = "zero", svc.fault}, shown \in {svc.published, Shown} :
         /\ svc' = [Noticed EXCEPT !.fault = cleared, !.published = shown]
         /\ IF shown = Shown /\ (cleared => st.lastData = "zero") THEN UNCHANGED left ELSE Disturb
    /\ UNCHANGED <<monFrame, hw, loc, st, close, m>>

CloseThen(next) == m' = [pc |-> "closing", then |-> next] /\ BeginClose("monitor")

\* handleGPSFailure and attemptGPSRecovery up to Close: unless the modem itself
\* is gone the fault is raised and gpsd stopped; either may fail.
GpsFailure ==
    /\ Ticking /\ loc.pc # "none" /\ NoData
    /\ \E raised \in {TRUE, svc.fault}, stopped \in BOOLEAN :
         /\ IF raised /\ stopped THEN UNCHANGED left ELSE Disturb
         /\ svc' = [svc EXCEPT !.fault = raised, !.count = @ + 1]
         /\ hw' = [hw EXCEPT !.gpsd = @ /\ ~stopped]
         /\ CloseThen("recover")
    /\ UNCHANGED <<monFrame, loc>>

ClosedFor(next) == m.pc = "closing" /\ m.then = next /\ close["monitor"] = "closed"

\* After Close the clocks are reset; one recovery too many takes a long break.
GpsRecoveryClosed ==
    /\ ClosedFor("recover") /\ close' = [close EXCEPT !["monitor"] = "idle"]
    /\ st' = [st EXCEPT !.lastData = "zero"]
    /\ IF svc.count > MaxGPSRecoveries
       THEN /\ svc' = [svc EXCEPT !.gated = TRUE, !.enabledAt = "zero", !.waiting = FALSE, !.count = 0]
            /\ m' = [pc |-> "select", then |-> "none"]
       ELSE /\ svc' = [svc EXCEPT !.gated = TRUE, !.enabledAt = "zero", !.waiting = FALSE]
            /\ m' = [pc |-> "reenable", then |-> "none"]
    /\ UNCHANGED <<monFrame, hw, loc, left>>

\* Mutant: the watchdog is not armed again.
GpsReenableUnarmed ==
    /\ m.pc = "reenable"
    /\ \/ ~wish.enabled /\ MonGoto("select") /\ UNCHANGED <<loc, st>>
       \/ wish.enabled /\ ~hw.present /\ MonGoto("modem_failure") /\ UNCHANGED <<loc, st>>
       \/ wish.enabled /\ hw.present /\ EnableGPS /\ MonGoto("select")
    /\ UNCHANGED <<monFrame, hw, close, svc, left>>

\* The rest of attemptGPSRecovery, under gpsRecoveryMutex.
GpsReenable ==
    /\ m.pc = "reenable"
    /\ \/ ~wish.enabled /\ MonGoto("select") /\ UNCHANGED <<loc, st, svc>>
       \/ wish.enabled /\ ~hw.present /\ MonGoto("modem_failure") /\ UNCHANGED <<loc, st, svc>>
       \/ /\ wish.enabled /\ hw.present /\ EnableGPS /\ MonGoto("select")
          /\ svc' = [svc EXCEPT !.enabledAt = "fresh"]
    /\ UNCHANGED <<monFrame, hw, close, left>>

\* A status round finds the modem gone.
NoticeModem ==
    /\ Selecting /\ wish.enabled /\ svc.applied /\ ~hw.present
    /\ MonGoto("modem_failure")
    /\ UNCHANGED <<monFrame, hw, loc, st, close, svc, left>>

\* handleModemFailure: it is refused once the modem is to be off, it fails, or
\* it ends with a modem that has restarted.
ModemFailure ==
    /\ m.pc = "modem_failure"
    /\ \/ /\ IF ~wish.enabled \/ wish.stopping THEN UNCHANGED left ELSE Disturb
          /\ MonGoto("select") /\ UNCHANGED <<hw, st, close>>
       \/ /\ wish.enabled /\ hw' = [hw EXCEPT !.rx = "stopped", !.present = TRUE]
          /\ CloseThen("recovered") /\ UNCHANGED left
    /\ UNCHANGED <<monFrame, loc, svc>>

\* recoverySucceeded: resetGPSAfterModemRecovery.
ModemRecovered ==
    /\ ClosedFor("recovered") /\ close' = [close EXCEPT !["monitor"] = "idle"]
    /\ m' = [pc |-> "select", then |-> "none"]
    /\ st' = [st EXCEPT !.lastData = "zero"]
    /\ svc' = [svc EXCEPT !.count = 0, !.enabledAt = "zero", !.waiting = FALSE]
    /\ UNCHANGED <<monFrame, hw, loc, left>>

\* disableModem: GPS is closed first, then shown as off, then power goes.  An error of
\* Redis is dropped, one of the GPIO request logged.
DisableModem ==
    /\ Selecting /\ ~wish.enabled /\ (svc.applied \/ svc.gaveUp) /\ CloseThen("disable")
    /\ UNCHANGED <<monFrame, hw, loc, svc, left>>

ModemDisabled ==
    /\ ClosedFor("disable") /\ close' = [close EXCEPT !["monitor"] = "idle"]
    /\ m' = [pc |-> "select", then |-> "none"]
    /\ \E shown \in {"off", svc.published}, off \in BOOLEAN :
         /\ svc' = [svc EXCEPT !.applied = FALSE, !.gaveUp = FALSE,
                               !.published = shown, !.offLost = (shown # "off")]
         /\ hw' = IF off THEN [hw EXCEPT !.rx = "stopped", !.present = FALSE] ELSE hw
         /\ IF shown = "off" /\ off THEN UNCHANGED left ELSE Disturb
    /\ UNCHANGED <<monFrame, loc, st>>

\* ensureModemEnabled: with a modem that does not appear it uses up its attempts.
EnableModem ==
    /\ Selecting /\ wish.enabled /\ ~svc.applied /\ ~svc.gaveUp
    /\ \/ svc' = [svc EXCEPT !.applied = TRUE, !.offLost = FALSE] /\ UNCHANGED left
       \/ ~hw.present /\ Disturb /\ svc' = [svc EXCEPT !.gaveUp = TRUE]
    /\ UNCHANGED <<monFrame, hw, loc, st, close, m>>

\* The connectivity has changed: requestGPSModeForConnectivity, up to the lock.
RequestMode ==
    /\ Selecting /\ wish.enabled /\ st.modeSwitchReady /\ lifecycleMu = "free"
    /\ Disturb /\ MonGoto("mode_lock")
    /\ UNCHANGED <<monFrame, hw, loc, st, close, svc>>

ModeCancelled == wish.stopping \/ loc.cancelled \/ ~loc.on

\* Mutant: readiness is not checked again.
SetGPSModeUnchecked ==
    /\ m.pc = "mode_lock" /\ configMutex = "free"
    /\ hw' \in {hw, [hw EXCEPT !.rx = "stopped"]}
    /\ MonGoto("mode_start") /\ configMutex' = "mode"
    /\ UNCHANGED <<wish, reader, lifecycleMu, loc, st, close, svc, left>>

\* SetGPSMode: readiness is checked again under the lock.  A receiver that runs
\* as desired is left alone, any other is told to stop.
SetGPSMode ==
    /\ m.pc = "mode_lock" /\ configMutex = "free"
    /\ \/ /\ ~st.modeSwitchReady \/ (hw.rx # "stopped" /\ hw.present /\ ~ModeCancelled)
          /\ MonGoto("select") /\ UNCHANGED <<hw, configMutex, left>>
       \/ /\ st.modeSwitchReady
          /\ IF hw.rx = "reusable" /\ hw.present /\ ~ModeCancelled THEN Disturb ELSE UNCHANGED left
          /\ hw' \in {hw, [hw EXCEPT !.rx = "stopped"]}
          /\ MonGoto("mode_start") /\ configMutex' = "mode"
    /\ UNCHANGED <<wish, reader, lifecycleMu, loc, st, close, svc>>

\* After three seconds it is started, and asked whether it runs.
ModeStart ==
    /\ m.pc = "mode_start" /\ configMutex' = "free" /\ MonGoto("select")
    /\ \/ ModeCancelled /\ UNCHANGED <<hw, st, left>>
       \/ /\ ~ModeCancelled /\ hw.present
          /\ hw' = [hw EXCEPT !.rx = "running"] /\ st' = [st EXCEPT !.lastData = "fresh"]
          /\ UNCHANGED left
       \/ /\ ~ModeCancelled /\ IF hw.present THEN Disturb ELSE UNCHANGED left
          /\ hw' \in {hw, [hw EXCEPT !.rx = IF hw.present THEN "running" ELSE @]}
          /\ UNCHANGED st
    /\ UNCHANGED <<wish, reader, lifecycleMu, loc, close, svc>>

MonExit ==
    /\ m.pc = "select" /\ wish.stopping /\ MonGoto("exited")
    /\ UNCHANGED <<monFrame, hw, loc, st, close, svc, left>>

Monitor ==
    \/ GpsEnable \/ GpsTick \/ GpsFailure \/ GpsRecoveryClosed
    \/ GpsReenable \/ NoticeModem \/ ModemFailure \/ ModemRecovered \/ DisableModem
    \/ ModemDisabled \/ EnableModem \/ SetGPSMode \/ ModeStart \/ MonExit

-----------------------------------------------------------------------------
Next ==
    Alive /\ ( \/ Report \/ ReaderExit \/ ModemReappears \/ Clock \/ Disturbance
              \/ Location \/ Closing \/ RunClose \/ RunExit \/ Monitor \/ RequestMode )
Spec == Init /\ [][Next]_vars

\* Goroutines run, AT commands time out, other D-Bus calls (some have no limit) are
\* taken to return, timers expire, a receiver that runs reports through gpsd (with
\* or without a fix), and a powered modem comes back.
Fairness ==
    /\ WF_vars(Alive /\ Location) /\ WF_vars(Alive /\ Monitor)
    /\ WF_vars(Alive /\ Closing) /\ WF_vars(Alive /\ (RunClose \/ RunExit))
    /\ WF_vars(Alive /\ st.lastData # "fresh" /\ Report) /\ WF_vars(Alive /\ ReaderExit)
    /\ WF_vars(Alive /\ ModemReappears)
    /\ WF_vars(Alive /\ ~CanDeliver /\ Silence) /\ WF_vars(Alive /\ TimePasses)
FairSpec == Spec /\ Fairness

-----------------------------------------------------------------------------
(* Properties *)

LocPC == {"none", "lock", "probe", "config", "start", "dial", "backoff", "watch", "drop"}
MonPC == {"select", "closing", "reenable", "modem_failure",
          "mode_lock", "mode_start", "exited"}

HwType == [rx : Receiver, gpsd : BOOLEAN, present : BOOLEAN]
WishType == [enabled : BOOLEAN, gps : BOOLEAN, stopping : BOOLEAN]
LocType == [pc : LocPC, on : BOOLEAN, cancelled : BOOLEAN, retrying : BOOLEAN,
            tries : 0..(MaxConfigRetries - 1)]
StType == [conn : BOOLEAN, modeSwitchReady : BOOLEAN, hasValidFix : BOOLEAN, fixOld : BOOLEAN,
           lastData : Age, freshInit : BOOLEAN]
ReaderType == [cur : {"none", "reading", "closing"}, old : BOOLEAN, stray : BOOLEAN]
MonType == [pc : MonPC, then : {"none", "recover", "recovered", "disable"}]
CloseType == [{"monitor", "run"} -> {"idle", "lock", "join", "reader", "clear", "closed", "done"}]
SvcType == [enabledAt : Age, gated : BOOLEAN, count : 0..(MaxGPSRecoveries + 1),
            waiting : BOOLEAN, fault : BOOLEAN, applied : BOOLEAN,
            gaveUp : BOOLEAN, offLost : BOOLEAN,
            published : {"off", "searching", "active"}]

\* Every variable stays within its type.
TypeOK ==
    /\ hw \in HwType /\ wish \in WishType /\ loc \in LocType /\ st \in StType
    /\ reader \in ReaderType /\ m \in MonType /\ close \in CloseType /\ svc \in SvcType
    /\ configMutex \in {"free", "loc", "mode", "monitor", "run"}
    /\ lifecycleMu \in {"free", "monitor", "run"}
    /\ left \in 0..MaxDisturbances

\* Once Close has returned there is no fix to be taken for a current one, until
\* GPS is enabled again: the reader is stopped before its state is cleared.
\* Only a reader that outlives the two seconds of Close can bring one back.
ClosedHasNoFix ==
    (~loc.on /\ lifecycleMu = "free" /\ st.hasValidFix) => reader.stray

\* A mode switch that has passed its check of modeSwitchReady has the gpsd
\* session that was configured for it: neither a reconnect nor Close comes in
\* between (SetGPSMode waits for configMutex, then checks again).
ModeNeedsSession == m.pc = "mode_start" => st.conn

\* A pipeline that is enabled is watched: whenever the monitor loop is between
\* two ticks one of the two clocks of checkGPSHealth runs, so that silence is
\* noticed after recoveries, long breaks, fixes found and modem resets alike.
WatchdogArmed ==
    (m.pc = "select" /\ loc.on /\ ~wish.stopping) =>
        (st.lastData # "zero" \/ svc.enabledAt # "zero")

Flowing == CanDeliver /\ ~svc.fault

\* When disturbances end, reports flow and the fault is cleared, whatever was
\* interrupted: a configuration, a mode switch that left the receiver stopped,
\* a recovery.  The exceptions are a modem that does not come up when it is enabled, and
\* a fix that GPSTimeout has found too old, which EnableGPS neither clears nor lets
\* the next session renew.
PipelineRecovers ==
    \/ <>[](wish.stopping \/ ~wish.enabled \/ ~wish.gps \/ svc.gaveUp \/ Flowing)
    \/ []<>(st.hasValidFix /\ st.fixOld)

\* A position shown as current in Redis without a fix behind it, also one that
\* a crash has left there, is withdrawn, by a tick or by disableModem.  It stays with
\* modem.gps turned off, with a modem that has been given up, and when the publication
\* of a disable is lost (offLost), which nothing repeats before the next enable.
StalePositionWithdrawn ==
    (svc.published = "active" /\ ~st.hasValidFix) ~>
        \/ svc.published # "active" \/ st.hasValidFix
        \/ ~wish.gps \/ wish.stopping \/ svc.gaveUp \/ svc.offLost

\* Close returns: Run, which waits for it, ends however the monitor goroutine,
\* the reader and a mode switch hold the locks it needs.
ShutdownCompletes == wish.stopping ~> ~Alive
=============================================================================
