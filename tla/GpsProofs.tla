------------------------------ MODULE GpsProofs ------------------------------
(***************************************************************************)
(* The safety invariants of Gps for any number of configuration attempts,  *)
(* recoveries and disturbances.  The argument is about locks: whoever       *)
(* holds configMutex or lifecycleMu is where it may hold it (LocksHeld),   *)
(* so a session ends only where no mode switch can be under way            *)
(* (Sessions), and a closed service stays as Close has left it until GPS   *)
(* is enabled again, which lifecycleMu keeps out of Close (Closed).        *)
(***************************************************************************)
EXTENDS Gps, TLAPS

Callers == {"monitor", "run"}

\* A lock names its holder, and the holder is between taking and releasing it.
LocksHeld ==
    /\ configMutex = "loc" <=> loc.pc \in {"probe", "config", "start", "dial"}
    /\ configMutex = "mode" <=> m.pc = "mode_start"
    /\ \A c \in Callers : configMutex = c <=> close[c] = "reader"
    /\ \A c \in Callers : lifecycleMu = c <=> close[c] \in {"join", "reader", "clear"}

\* The monitor loop waits for the Close it has called, and only then.
MonitorWaits ==
    /\ m.pc = "closing" <=> close["monitor"] # "idle"
    /\ close["monitor"] # "done"

\* What is known of the session: a ready mode switch has one, a reader reads one.
Sessions ==
    /\ loc.pc # "none" => loc.on
    /\ loc.pc \in {"probe", "watch"} => st.conn
    /\ st.modeSwitchReady => loc.pc = "watch"
    /\ reader.cur = "reading" => st.conn
    /\ reader.cur = "closing" => configMutex \in Callers
    /\ m.pc = "mode_start" => st.conn

\* Close ends the monitor first, then the session, then the reader.
Closed ==
    /\ ~loc.on => ~st.conn /\ reader.cur # "reading"
    /\ \A c \in Callers : close[c] \in {"reader", "clear"} => ~loc.on
    /\ close["monitor"] = "closed" => ~loc.on
    /\ \A c \in Callers : close[c] = "clear" => reader.cur = "none"
    /\ (~loc.on /\ lifecycleMu = "free") => ((reader.old \/ st.hasValidFix) => reader.stray)

\* A clock runs while GPS is on; it is not the first fix that stops both.
Armed ==
    /\ loc.on => (st.lastData # "zero" \/ svc.enabledAt # "zero")
    /\ (svc.waiting /\ st.hasValidFix) => st.lastData # "zero"

\* The counters: only the recovery that takes the long break goes past the limit.
Counted == ~(m.pc = "closing" /\ m.then = "recover") => svc.count <= MaxGPSRecoveries

GpsInv == TypeOK /\ LocksHeld /\ MonitorWaits /\ Sessions /\ Closed /\ Armed /\ Counted

-----------------------------------------------------------------------------
\* What the frames and the steps of control stand for; expanded everywhere.
USE DisturbancesAssumption
USE DEF Goto, MonGoto, Disturb, Callers, worldFrame, locFrame, closeFrame, monFrame

(* Types *)

\* The counters stay within their ranges.
LEMMA CounterBounds ==
    /\ 0 \in 0..(MaxConfigRetries - 1)
    /\ \A n \in 0..(MaxConfigRetries - 1) :
         n + 1 < MaxConfigRetries => n + 1 \in 0..(MaxConfigRetries - 1)
    /\ 0 \in 0..(MaxGPSRecoveries + 1)
    /\ \A n \in 0..(MaxGPSRecoveries + 1) :
         n <= MaxGPSRecoveries => n + 1 \in 0..(MaxGPSRecoveries + 1)
  BY RetriesAssumption

\* The location monitor at its first attempt, at another one, at any other place
\* and as EnableGPS starts it.
LEMMA ConfigTypes ==
    ASSUME loc \in LocType
    PROVE  /\ [loc EXCEPT !.pc = "config", !.tries = 0] \in LocType
           /\ loc.tries + 1 < MaxConfigRetries =>
                [loc EXCEPT !.pc = "config", !.tries = @ + 1] \in LocType
           /\ \A pc \in LocPC : [loc EXCEPT !.pc = pc] \in LocType
           /\ [pc |-> "lock", on |-> TRUE, cancelled |-> FALSE, retrying |-> FALSE, tries |-> 0]
                \in LocType
  BY CounterBounds DEF LocType, LocPC

\* A report of any kind leaves the shared fields within their types.
LEMMA NotedType == ASSUME st \in StType, NEW kind \in Reports PROVE Noted(kind) \in StType
  BY DEF Reports, Noted, StType, Age

\* The bookkeeping of a tick and of the two recoveries.
LEMMA SvcTypes ==
    ASSUME svc \in SvcType
    PROVE  /\ Noticed \in SvcType
           /\ [svc EXCEPT !.count = 0, !.enabledAt = "zero", !.waiting = FALSE] \in SvcType
           /\ [svc EXCEPT !.gated = TRUE, !.enabledAt = "zero", !.waiting = FALSE, !.count = 0]
                \in SvcType
           /\ [svc EXCEPT !.gated = TRUE, !.enabledAt = "zero", !.waiting = FALSE] \in SvcType
  BY CounterBounds DEF SvcType, Noticed, Age

LEMMA TypesWorld ==
    ASSUME TypeOK, Counted, Report \/ ReaderExit \/ ModemReappears \/ Clock \/ Disturbance
    PROVE  TypeOK' /\ Counted'
<1>. USE DEF TypeOK
<1>1. CASE Report
  <2>1. st' \in StType
    BY <1>1 DEF Report, Reports, Noted, StType, Age
  <2>. QED
    BY <1>1, <2>1 DEF Report, Counted
<1>2. CASE ReaderExit
  <2>1. reader' \in ReaderType
    BY <1>2 DEF ReaderExit, ReaderType
  <2>2. st' \in StType
    BY <1>2, NotedType DEF ReaderExit
  <2>. QED
    BY <1>2, <2>1, <2>2 DEF ReaderExit, Counted
<1>3. CASE ModemReappears
  <2>1. hw' \in HwType
    BY <1>3 DEF ModemReappears, HwType, Receiver
  <2>. QED
    BY <1>3, <2>1 DEF ModemReappears, Counted
<1>4. CASE Silence
  <2>1. st' \in StType
    BY <1>4 DEF Silence, StType, Age
  <2>2. left' \in 0..MaxDisturbances
    BY <1>4 DEF Silence
  <2>. QED
    BY <1>4, <2>1, <2>2 DEF Silence, Counted
<1>5. CASE TimePasses
  <2>1. svc' \in SvcType /\ Counted'
    BY <1>5 DEF TimePasses, SvcType, Age, Counted, MonType
  <2>. QED
    BY <1>5, <2>1 DEF TimePasses
<1>6. CASE GpsdDies
  <2>1. hw' \in HwType
    BY <1>6 DEF GpsdDies, HwType, Receiver
  <2>2. reader' \in ReaderType
    BY <1>6 DEF GpsdDies, ReaderType
  <2>3. left' \in 0..MaxDisturbances
    BY <1>6 DEF GpsdDies
  <2>. QED
    BY <1>6, <2>1, <2>2, <2>3 DEF GpsdDies, Counted
<1>7. CASE ModemReset
  <2>1. hw' \in HwType
    BY <1>7 DEF ModemReset, HwType, Receiver
  <2>2. left' \in 0..MaxDisturbances
    BY <1>7 DEF ModemReset
  <2>. QED
    BY <1>7, <2>1, <2>2 DEF ModemReset, Counted
<1>8. CASE FixAges
  <2>1. st' \in StType
    BY <1>8 DEF FixAges, StType, Age
  <2>2. left' \in 0..MaxDisturbances
    BY <1>8 DEF FixAges
  <2>. QED
    BY <1>8, <2>1, <2>2 DEF FixAges, Counted
<1>9. CASE Command
  <2>1. wish' \in WishType
    BY <1>9 DEF Command, WishType
  <2>2. left' \in 0..MaxDisturbances
    BY <1>9 DEF Command
  <2>. QED
    BY <1>9, <2>1, <2>2 DEF Command, Counted
<1>10. CASE Terminate
  <2>1. wish' \in WishType
    BY <1>10 DEF Terminate, WishType
  <2>2. left' \in 0..MaxDisturbances
    BY <1>10 DEF Terminate
  <2>. QED
    BY <1>10, <2>1, <2>2 DEF Terminate, Counted
<1>. QED
  BY <1>1, <1>2, <1>3, <1>4, <1>5, <1>6, <1>7, <1>8, <1>9, <1>10 DEF Clock, Disturbance

LEMMA TypesLocation ==
    ASSUME TypeOK, Counted, Location
    PROVE  TypeOK' /\ Counted'
<1>. USE DEF TypeOK
<1>1. CASE LocExit
  <2>1. loc' \in LocType
    BY <1>1 DEF LocExit, LocType, LocPC
  <2>2. st' \in StType
    BY <1>1 DEF LocExit, StType, Age
  <2>. QED
    BY <1>1, <2>1, <2>2 DEF LocExit, Counted
<1>2. CASE LocLock
  <2>1. loc' \in LocType
    BY <1>2, ConfigTypes DEF LocLock, LocPC
  <2>2. st' \in StType
    BY <1>2 DEF LocLock, StType, Age
  <2>3. reader' \in ReaderType
    BY <1>2 DEF LocLock, Dial, ReaderType
  <2>4. left' \in 0..MaxDisturbances
    BY <1>2 DEF LocLock, Dial
  <2>. QED
    BY <1>2, <2>1, <2>2, <2>3, <2>4 DEF LocLock, Counted
<1>3. CASE LocReuse
  <2>1. loc' \in LocType
    BY <1>3 DEF LocReuse, LocType, LocPC
  <2>2. st' \in StType
    BY <1>3 DEF LocReuse, StType, Age
  <2>. QED
    BY <1>3, <2>1, <2>2 DEF LocReuse, Counted
<1>4. CASE LocReuseRejected
  <2>1. loc' \in LocType
    BY <1>4, ConfigTypes DEF LocReuseRejected
  <2>2. st' \in StType
    BY <1>4 DEF LocReuseRejected, StType, Age
  <2>3. reader' \in ReaderType
    BY <1>4 DEF LocReuseRejected, DropConnection, ReaderType
  <2>4. left' \in 0..MaxDisturbances
    BY <1>4 DEF LocReuseRejected
  <2>. QED
    BY <1>4, <2>1, <2>2, <2>3, <2>4 DEF LocReuseRejected, Counted
<1>5. CASE LocConfigure
  <2>1. loc' \in LocType
    BY <1>5, ConfigTypes DEF LocConfigure, ConfigFailed, LocPC
  <2>2. hw' \in HwType
    BY <1>5 DEF LocConfigure, HwType, Receiver
  <2>3. left' \in 0..MaxDisturbances
    BY <1>5 DEF LocConfigure, CannotCommand
  <2>. QED
    BY <1>5, <2>1, <2>2, <2>3 DEF LocConfigure, ConfigFailed, Counted
<1>6. CASE LocStart
  <2>1. loc' \in LocType
    BY <1>6, ConfigTypes DEF LocStart, ConfigFailed, LocPC
  <2>2. hw' \in HwType
    BY <1>6 DEF LocStart, HwType, Receiver
  <2>3. left' \in 0..MaxDisturbances
    BY <1>6 DEF LocStart, CannotCommand
  <2>. QED
    BY <1>6, <2>1, <2>2, <2>3 DEF LocStart, ConfigFailed, Counted
<1>7. CASE LocDial
  <2>1. loc' \in LocType
    BY <1>7 DEF LocDial, LocType, LocPC
  <2>2. st' \in StType
    BY <1>7 DEF LocDial, StType, Age
  <2>3. reader' \in ReaderType
    BY <1>7 DEF LocDial, Dial, ReaderType
  <2>4. left' \in 0..MaxDisturbances
    BY <1>7 DEF LocDial, Dial
  <2>. QED
    BY <1>7, <2>1, <2>2, <2>3, <2>4 DEF LocDial, Counted
<1>8. CASE LocBackoff
  <2>1. loc' \in LocType
    BY <1>8 DEF LocBackoff, LocType, LocPC
  <2>. QED
    BY <1>8, <2>1 DEF LocBackoff, Counted
<1>9. CASE LocTimeout
  <2>1. loc' \in LocType
    BY <1>9 DEF LocTimeout, LocType, LocPC
  <2>2. st' \in StType
    BY <1>9 DEF LocTimeout, StType, Age
  <2>. QED
    BY <1>9, <2>1, <2>2 DEF LocTimeout, Counted
<1>10. CASE LocDrop
  <2>1. loc' \in LocType
    BY <1>10 DEF LocDrop, LocType, LocPC
  <2>2. st' \in StType
    BY <1>10 DEF LocDrop, StType, Age
  <2>3. reader' \in ReaderType
    BY <1>10 DEF LocDrop, DropConnection, ReaderType
  <2>. QED
    BY <1>10, <2>1, <2>2, <2>3 DEF LocDrop, Counted
<1>. QED
  BY <1>1, <1>2, <1>3, <1>4, <1>5, <1>6, <1>7, <1>8, <1>9, <1>10 DEF Location

LEMMA TypesClosing ==
    ASSUME TypeOK, Counted, Closing \/ RunClose \/ RunExit
    PROVE  TypeOK' /\ Counted'
<1>. USE DEF TypeOK
<1>0. DOMAIN close = Callers
  BY DEF CloseType
<1>1. ASSUME NEW c \in Callers, CloseLock(c)
      PROVE  TypeOK' /\ Counted'
  <2>1. loc' \in LocType
    BY <1>1 DEF CloseLock, LocType, LocPC
  <2>2. close' \in CloseType
    BY <1>1 DEF CloseLock, CloseType
  <2>. QED
    BY <1>1, <2>1, <2>2 DEF CloseLock, Counted
<1>2. ASSUME NEW c \in Callers, CloseJoin(c)
      PROVE  TypeOK' /\ Counted'
  <2>1. loc' \in LocType
    BY <1>2 DEF CloseJoin, LocType, LocPC
  <2>2. st' \in StType
    BY <1>2 DEF CloseJoin, StType, Age
  <2>3. reader' \in ReaderType
    BY <1>2 DEF CloseJoin, ReaderType
  <2>4. close' \in CloseType
    BY <1>2 DEF CloseJoin, CloseType
  <2>. QED
    BY <1>2, <2>1, <2>2, <2>3, <2>4 DEF CloseJoin, Counted
<1>3. ASSUME NEW c \in Callers, CloseReader(c)
      PROVE  TypeOK' /\ Counted'
  <2>1. reader' \in ReaderType
    BY <1>3 DEF CloseReader, ReaderType
  <2>2. close' \in CloseType
    BY <1>3 DEF CloseReader, CloseType
  <2>3. left' \in 0..MaxDisturbances
    BY <1>3 DEF CloseReader
  <2>. QED
    BY <1>3, <2>1, <2>2, <2>3 DEF CloseReader, Counted
<1>4. ASSUME NEW c \in Callers, CloseClear(c)
      PROVE  TypeOK' /\ Counted'
  <2>1. st' \in StType
    BY <1>4 DEF CloseClear, StType, Age
  <2>2. reader' \in ReaderType
    BY <1>4 DEF CloseClear, ReaderType
  <2>3. close' \in CloseType
    BY <1>4 DEF CloseClear, CloseType
  <2>. QED
    BY <1>4, <2>1, <2>2, <2>3 DEF CloseClear, Counted
<1>5. CASE RunClose
  <2>1. st' \in StType
    BY <1>5 DEF RunClose, BeginClose, StType, Age
  <2>2. close' \in CloseType
    BY <1>5 DEF RunClose, BeginClose, CloseType
  <2>. QED
    BY <1>5, <2>1, <2>2 DEF RunClose, Counted
<1>6. CASE RunExit
  <2>1. svc' \in SvcType /\ Counted'
    BY <1>6 DEF RunExit, SvcType, Age, Counted, MonType
  <2>2. close' \in CloseType
    BY <1>6 DEF RunExit, CloseType
  <2>. QED
    BY <1>6, <2>1, <2>2 DEF RunExit
<1>. QED
  BY <1>0, <1>1, <1>2, <1>3, <1>4, <1>5, <1>6 DEF Closing, Callers

LEMMA TypesMonitor ==
    ASSUME TypeOK, Counted, Monitor \/ RequestMode
    PROVE  TypeOK' /\ Counted'
<1>. USE DEF TypeOK
<1>1. CASE GpsEnable
  <2>1. loc' \in LocType
    BY <1>1, ConfigTypes DEF GpsEnable, EnableGPS
  <2>2. st' \in StType
    BY <1>1 DEF GpsEnable, EnableGPS, StType, Age
  <2>3. svc' \in SvcType /\ Counted'
    BY <1>1 DEF GpsEnable, SvcType, Age, Counted, MonType
  <2>. QED
    BY <1>1, <2>1, <2>2, <2>3 DEF GpsEnable
<1>2. CASE GpsTick
  <2>1. svc' \in SvcType /\ Counted'
    <3>1. PICK cleared \in {svc.fault /\ st.lastData = "zero", svc.fault},
                 shown \in {svc.published, Shown} :
            svc' = [Noticed EXCEPT !.fault = cleared, !.published = shown]
      BY <1>2 DEF GpsTick
    <3>2. cleared \in BOOLEAN
      BY DEF SvcType
    <3>3. shown \in {"off", "searching", "active"}
      BY DEF SvcType, Shown
    <3>4. svc' \in SvcType
      <4>1. Noticed \in SvcType
        BY SvcTypes
      <4>. QED
        BY <3>1, <3>2, <3>3, <4>1 DEF SvcType
    <3>5. svc'.count \in {svc.count, 0} /\ m' = m /\ m.pc = "select"
      BY <1>2 DEF GpsTick, Noticed, SvcType, Ticking, Selecting
    <3>. QED
      BY <3>4, <3>5, RetriesAssumption DEF Counted
  <2>2. left' \in 0..MaxDisturbances
    BY <1>2 DEF GpsTick
  <2>. QED
    BY <1>2, <2>1, <2>2 DEF GpsTick
<1>3. CASE GpsFailure
  <2>1. svc' \in SvcType /\ Counted'
    <3>1. svc.count \in 0..(MaxGPSRecoveries + 1) /\ svc.count <= MaxGPSRecoveries
          /\ svc.fault \in BOOLEAN
      BY <1>3 DEF GpsFailure, Ticking, Selecting, SvcType, Counted
    <3>2. PICK raised \in {TRUE, svc.fault} : svc' = [svc EXCEPT !.fault = raised,
        !.count = @ + 1]
      BY <1>3 DEF GpsFailure
    <3>3. raised \in BOOLEAN /\ svc.count + 1 \in 0..(MaxGPSRecoveries + 1)
      BY <3>1, CounterBounds
    <3>4. svc' \in SvcType
      BY <3>2, <3>3 DEF SvcType
    <3>5. m'.pc = "closing" /\ m'.then = "recover"
      BY <1>3 DEF GpsFailure, CloseThen
    <3>. QED
      BY <3>4, <3>5 DEF Counted
  <2>2. hw' \in HwType
    BY <1>3 DEF GpsFailure, HwType, Receiver
  <2>3. m' \in MonType
    BY <1>3 DEF GpsFailure, CloseThen, MonType, MonPC
  <2>4. close' \in CloseType
    BY <1>3 DEF GpsFailure, CloseThen, BeginClose, CloseType
  <2>5. st' \in StType
    BY <1>3 DEF GpsFailure, CloseThen, BeginClose, StType, Age
  <2>6. left' \in 0..MaxDisturbances
    BY <1>3 DEF GpsFailure
  <2>. QED
    BY <1>3, <2>1, <2>2, <2>3, <2>4, <2>5, <2>6 DEF GpsFailure
<1>4. CASE GpsRecoveryClosed
  <2>1. st' \in StType
    BY <1>4 DEF GpsRecoveryClosed, StType, Age
  <2>2. svc' \in SvcType /\ Counted'
    <3>1. svc' \in SvcType
      BY <1>4, SvcTypes DEF GpsRecoveryClosed
    <3>2. svc.count \in Nat
      BY RetriesAssumption DEF SvcType
    <3>3. IF svc.count > MaxGPSRecoveries THEN svc'.count = 0 ELSE svc'.count = svc.count
      BY <1>4 DEF GpsRecoveryClosed, SvcType
    <3>. QED
      BY <3>1, <3>2, <3>3, RetriesAssumption DEF Counted
  <2>3. m' \in MonType
    BY <1>4 DEF GpsRecoveryClosed, MonType, MonPC
  <2>4. close' \in CloseType
    BY <1>4 DEF GpsRecoveryClosed, CloseType
  <2>. QED
    BY <1>4, <2>1, <2>2, <2>3, <2>4 DEF GpsRecoveryClosed
<1>5. CASE GpsReenable
  <2>1. loc' \in LocType
    BY <1>5, ConfigTypes DEF GpsReenable, EnableGPS
  <2>2. st' \in StType
    BY <1>5 DEF GpsReenable, EnableGPS, StType, Age
  <2>3. svc' \in SvcType /\ Counted'
    BY <1>5 DEF GpsReenable, SvcType, Age, Counted, MonType
  <2>4. m' \in MonType
    BY <1>5 DEF GpsReenable, MonType, MonPC
  <2>. QED
    BY <1>5, <2>1, <2>2, <2>3, <2>4 DEF GpsReenable
<1>6. CASE NoticeModem
  <2>1. m' \in MonType
    BY <1>6 DEF NoticeModem, MonType, MonPC
  <2>2. Counted'
    BY <1>6 DEF NoticeModem, Selecting, Counted, MonType, SvcType
  <2>. QED
    BY <1>6, <2>1, <2>2 DEF NoticeModem
<1>7. CASE ModemFailure
  <2>1. hw' \in HwType
    BY <1>7 DEF ModemFailure, HwType, Receiver
  <2>2. m' \in MonType
    BY <1>7 DEF ModemFailure, CloseThen, MonType, MonPC
  <2>3. close' \in CloseType
    BY <1>7 DEF ModemFailure, CloseThen, BeginClose, CloseType
  <2>4. st' \in StType
    BY <1>7 DEF ModemFailure, CloseThen, BeginClose, StType, Age
  <2>5. left' \in 0..MaxDisturbances
    BY <1>7 DEF ModemFailure
  <2>6. Counted'
    BY <1>7 DEF ModemFailure, CloseThen, Counted, MonType, SvcType
  <2>. QED
    BY <1>7, <2>1, <2>2, <2>3, <2>4, <2>5, <2>6 DEF ModemFailure
<1>8. CASE ModemRecovered
  <2>1. st' \in StType
    BY <1>8 DEF ModemRecovered, StType, Age
  <2>2. svc' \in SvcType /\ Counted'
    <3>1. svc' \in SvcType
      BY <1>8, SvcTypes DEF ModemRecovered
    <3>. QED
      BY <1>8, <3>1, RetriesAssumption DEF ModemRecovered, SvcType, Counted
  <2>3. m' \in MonType
    BY <1>8 DEF ModemRecovered, MonType, MonPC
  <2>4. close' \in CloseType
    BY <1>8 DEF ModemRecovered, CloseType
  <2>. QED
    BY <1>8, <2>1, <2>2, <2>3, <2>4 DEF ModemRecovered
<1>9. CASE DisableModem
  <2>1. m' \in MonType
    BY <1>9 DEF DisableModem, CloseThen, MonType, MonPC
  <2>2. close' \in CloseType
    BY <1>9 DEF DisableModem, CloseThen, BeginClose, CloseType
  <2>3. st' \in StType
    BY <1>9 DEF DisableModem, CloseThen, BeginClose, StType, Age
  <2>4. Counted'
    BY <1>9 DEF DisableModem, Selecting, CloseThen, Counted, MonType, SvcType
  <2>. QED
    BY <1>9, <2>1, <2>2, <2>3, <2>4 DEF DisableModem
<1>10. CASE ModemDisabled
  <2>1. hw' \in HwType
    BY <1>10 DEF ModemDisabled, HwType, Receiver
  <2>2. svc' \in SvcType /\ Counted'
    BY <1>10 DEF ModemDisabled, ClosedFor, SvcType, Age, Counted, MonType
  <2>3. m' \in MonType
    BY <1>10 DEF ModemDisabled, MonType, MonPC
  <2>4. close' \in CloseType
    BY <1>10 DEF ModemDisabled, CloseType
  <2>. QED
    BY <1>10, <2>1, <2>2, <2>3, <2>4 DEF ModemDisabled
<1>11. CASE EnableModem
  <2>1. svc' \in SvcType /\ Counted'
    BY <1>11 DEF EnableModem, SvcType, Age, Counted, MonType
  <2>. QED
    BY <1>11, <2>1 DEF EnableModem
<1>12. CASE RequestMode
  <2>1. m' \in MonType
    BY <1>12 DEF RequestMode, MonType, MonPC
  <2>2. left' \in 0..MaxDisturbances
    BY <1>12 DEF RequestMode
  <2>3. Counted'
    BY <1>12 DEF RequestMode, Selecting, Counted, MonType, SvcType
  <2>. QED
    BY <1>12, <2>1, <2>2, <2>3 DEF RequestMode
<1>13. CASE SetGPSMode
  <2>1. hw' \in HwType
    BY <1>13 DEF SetGPSMode, HwType, Receiver
  <2>2. m' \in MonType
    BY <1>13 DEF SetGPSMode, MonType, MonPC
  <2>3. left' \in 0..MaxDisturbances
    BY <1>13 DEF SetGPSMode
  <2>4. Counted'
    BY <1>13 DEF SetGPSMode, Counted, MonType, SvcType
  <2>. QED
    BY <1>13, <2>1, <2>2, <2>3, <2>4 DEF SetGPSMode
<1>14. CASE ModeStart
  <2>1. hw' \in HwType
    BY <1>14 DEF ModeStart, HwType, Receiver
  <2>2. st' \in StType
    BY <1>14 DEF ModeStart, StType, Age
  <2>3. m' \in MonType
    BY <1>14 DEF ModeStart, MonType, MonPC
  <2>4. left' \in 0..MaxDisturbances
    BY <1>14 DEF ModeStart
  <2>5. Counted'
    BY <1>14 DEF ModeStart, Counted, MonType, SvcType
  <2>. QED
    BY <1>14, <2>1, <2>2, <2>3, <2>4, <2>5 DEF ModeStart
<1>15. CASE MonExit
  <2>1. m' \in MonType
    BY <1>15 DEF MonExit, MonType, MonPC
  <2>2. Counted'
    BY <1>15 DEF MonExit, Counted, MonType, SvcType
  <2>. QED
    BY <1>15, <2>1, <2>2 DEF MonExit
<1>. QED
  BY <1>1, <1>2, <1>3, <1>4, <1>5, <1>6, <1>7, <1>8, <1>9, <1>10, <1>11, <1>12, <1>13, <1>14,
       <1>15 DEF Monitor

-----------------------------------------------------------------------------
(* Who holds which lock *)

LEMMA LocksWorld ==
    ASSUME TypeOK, LocksHeld, MonitorWaits, Report \/ ReaderExit \/ ModemReappears
           \/ Clock \/ Disturbance
    PROVE  LocksHeld' /\ MonitorWaits'
<1>. USE DEF TypeOK, LocksHeld, MonitorWaits, LocType, MonType, CloseType
<1>1. CASE Report
  BY <1>1 DEF Report
<1>2. CASE ReaderExit
  BY <1>2 DEF ReaderExit
<1>3. CASE ModemReappears
  BY <1>3 DEF ModemReappears
<1>4. CASE Silence
  BY <1>4 DEF Silence
<1>5. CASE TimePasses
  BY <1>5 DEF TimePasses
<1>6. CASE GpsdDies
  BY <1>6 DEF GpsdDies
<1>7. CASE ModemReset
  BY <1>7 DEF ModemReset
<1>8. CASE FixAges
  BY <1>8 DEF FixAges
<1>9. CASE Command
  BY <1>9 DEF Command
<1>10. CASE Terminate
  BY <1>10 DEF Terminate
<1>. QED
  BY <1>1, <1>2, <1>3, <1>4, <1>5, <1>6, <1>7, <1>8, <1>9, <1>10 DEF Clock, Disturbance

LEMMA LocksLocation ==
    ASSUME TypeOK, LocksHeld, MonitorWaits, Location
    PROVE  LocksHeld' /\ MonitorWaits'
<1>. USE DEF TypeOK, LocksHeld, MonitorWaits, LocType, MonType, CloseType
<1>1. CASE LocExit
  BY <1>1 DEF LocExit
<1>2. CASE LocLock
  BY <1>2 DEF LocLock
<1>3. CASE LocReuse
  BY <1>3 DEF LocReuse
<1>4. CASE LocReuseRejected
  BY <1>4 DEF LocReuseRejected
<1>5. CASE LocConfigure
  BY <1>5 DEF LocConfigure, ConfigFailed
<1>6. CASE LocStart
  BY <1>6 DEF LocStart, ConfigFailed
<1>7. CASE LocDial
  BY <1>7 DEF LocDial
<1>8. CASE LocBackoff
  BY <1>8 DEF LocBackoff
<1>9. CASE LocTimeout
  BY <1>9 DEF LocTimeout
<1>10. CASE LocDrop
  BY <1>10 DEF LocDrop
<1>. QED
  BY <1>1, <1>2, <1>3, <1>4, <1>5, <1>6, <1>7, <1>8, <1>9, <1>10 DEF Location

LEMMA LocksClosing ==
    ASSUME TypeOK, LocksHeld, MonitorWaits, Closing \/ RunClose \/ RunExit
    PROVE  LocksHeld' /\ MonitorWaits'
<1>. USE DEF TypeOK, LocksHeld, MonitorWaits, LocType, MonType, CloseType
<1>0. DOMAIN close = Callers
  OBVIOUS
<1>1. ASSUME NEW c \in Callers, CloseLock(c) PROVE LocksHeld' /\ MonitorWaits'
  BY <1>1 DEF CloseLock
<1>2. ASSUME NEW c \in Callers, CloseJoin(c) PROVE LocksHeld' /\ MonitorWaits'
  BY <1>2 DEF CloseJoin
<1>3. ASSUME NEW c \in Callers, CloseReader(c) PROVE LocksHeld' /\ MonitorWaits'
  BY <1>3 DEF CloseReader
<1>4. ASSUME NEW c \in Callers, CloseClear(c) PROVE LocksHeld' /\ MonitorWaits'
  BY <1>4 DEF CloseClear
<1>5. CASE RunClose
  BY <1>5 DEF RunClose, BeginClose
<1>6. CASE RunExit
  BY <1>6 DEF RunExit
<1>. QED
  BY <1>0, <1>1, <1>2, <1>3, <1>4, <1>5, <1>6 DEF Closing, Callers

LEMMA LocksMonitor ==
    ASSUME TypeOK, LocksHeld, MonitorWaits, Monitor \/ RequestMode
    PROVE  LocksHeld' /\ MonitorWaits'
<1>. USE DEF TypeOK, LocksHeld, MonitorWaits, LocType, MonType, CloseType
<1>1. CASE GpsEnable
  BY <1>1 DEF GpsEnable, Ticking, Selecting, EnableGPS
<1>2. CASE GpsTick
  BY <1>2 DEF GpsTick, Ticking, Selecting
<1>3. CASE GpsFailure
  BY <1>3 DEF GpsFailure, Ticking, Selecting, CloseThen, BeginClose
<1>4. CASE GpsRecoveryClosed
  BY <1>4 DEF GpsRecoveryClosed, ClosedFor
<1>5. CASE GpsReenable
  BY <1>5 DEF GpsReenable, EnableGPS
<1>6. CASE NoticeModem
  BY <1>6 DEF NoticeModem, Selecting
<1>7. CASE ModemFailure
  BY <1>7 DEF ModemFailure, CloseThen, BeginClose
<1>8. CASE ModemRecovered
  BY <1>8 DEF ModemRecovered, ClosedFor
<1>9. CASE DisableModem
  BY <1>9 DEF DisableModem, Selecting, CloseThen, BeginClose
<1>10. CASE ModemDisabled
  BY <1>10 DEF ModemDisabled, ClosedFor
<1>11. CASE EnableModem
  BY <1>11 DEF EnableModem, Selecting
<1>12. CASE RequestMode
  BY <1>12 DEF RequestMode, Selecting
<1>13. CASE SetGPSMode
  BY <1>13 DEF SetGPSMode
<1>14. CASE ModeStart
  BY <1>14 DEF ModeStart
<1>15. CASE MonExit
  BY <1>15 DEF MonExit
<1>. QED
  BY <1>1, <1>2, <1>3, <1>4, <1>5, <1>6, <1>7, <1>8, <1>9, <1>10, <1>11, <1>12, <1>13, <1>14,
       <1>15 DEF Monitor

-----------------------------------------------------------------------------
(* Sessions, and what Close leaves *)

LEMMA SessionsWorld ==
    ASSUME TypeOK, LocksHeld, MonitorWaits, Sessions, Closed, Report \/ ReaderExit
           \/ ModemReappears \/ Clock \/ Disturbance
    PROVE  Sessions' /\ Closed'
<1>. USE DEF TypeOK, LocksHeld, MonitorWaits, Sessions, Closed, LocType, MonType, CloseType,
     StType, ReaderType
<1>1. CASE Report
  BY <1>1 DEF Report, CanDeliver, Reports, Noted
<1>2. CASE ReaderExit
  <2>1. st' = st \/ \E kind \in Reports : st' = Noted(kind)
    BY <1>2 DEF ReaderExit
  <2>2. /\ st'.conn = st.conn /\ st'.modeSwitchReady = st.modeSwitchReady
        /\ st' = st \/ st'.lastData = "fresh"
    BY <2>1 DEF Reports, Noted
  <2>. QED
    BY <1>2, <2>2 DEF ReaderExit
<1>3. CASE ModemReappears
  BY <1>3 DEF ModemReappears
<1>4. CASE Silence
  BY <1>4 DEF Silence
<1>5. CASE TimePasses
  BY <1>5 DEF TimePasses
<1>6. CASE GpsdDies
  BY <1>6 DEF GpsdDies
<1>7. CASE ModemReset
  BY <1>7 DEF ModemReset
<1>8. CASE FixAges
  BY <1>8 DEF FixAges, CanDeliver
<1>9. CASE Command
  BY <1>9 DEF Command
<1>10. CASE Terminate
  BY <1>10 DEF Terminate
<1>. QED
  BY <1>1, <1>2, <1>3, <1>4, <1>5, <1>6, <1>7, <1>8, <1>9, <1>10 DEF Clock, Disturbance

LEMMA SessionsLocation ==
    ASSUME TypeOK, LocksHeld, MonitorWaits, Sessions, Closed, Location
    PROVE  Sessions' /\ Closed'
<1>. USE DEF TypeOK, LocksHeld, MonitorWaits, Sessions, Closed, LocType, MonType, CloseType,
     StType, ReaderType
<1>1. CASE LocExit
  BY <1>1 DEF LocExit
<1>2. CASE LocLock
  BY <1>2 DEF LocLock, Dial
<1>3. CASE LocReuse
  BY <1>3 DEF LocReuse
<1>4. CASE LocReuseRejected
  BY <1>4 DEF LocReuseRejected, DropConnection
<1>5. CASE LocConfigure
  BY <1>5 DEF LocConfigure, ConfigFailed
<1>6. CASE LocStart
  BY <1>6 DEF LocStart, ConfigFailed
<1>7. CASE LocDial
  BY <1>7 DEF LocDial, Dial
<1>8. CASE LocBackoff
  BY <1>8 DEF LocBackoff
<1>9. CASE LocTimeout
  BY <1>9 DEF LocTimeout
<1>10. CASE LocDrop
  BY <1>10 DEF LocDrop, DropConnection
<1>. QED
  BY <1>1, <1>2, <1>3, <1>4, <1>5, <1>6, <1>7, <1>8, <1>9, <1>10 DEF Location

LEMMA SessionsClosing ==
    ASSUME TypeOK, LocksHeld, MonitorWaits, Sessions, Closed, Closing \/ RunClose \/ RunExit
    PROVE  Sessions' /\ Closed'
<1>. USE DEF TypeOK, LocksHeld, MonitorWaits, Sessions, Closed, LocType, MonType, CloseType,
     StType, ReaderType
<1>0. DOMAIN close = Callers
  OBVIOUS
<1>1. ASSUME NEW c \in Callers, CloseLock(c) PROVE Sessions' /\ Closed'
  BY <1>1 DEF CloseLock
<1>2. ASSUME NEW c \in Callers, CloseJoin(c) PROVE Sessions' /\ Closed'
  BY <1>2 DEF CloseJoin
<1>3. ASSUME NEW c \in Callers, CloseReader(c) PROVE Sessions' /\ Closed'
  BY <1>3 DEF CloseReader
<1>4. ASSUME NEW c \in Callers, CloseClear(c) PROVE Sessions' /\ Closed'
  BY <1>4 DEF CloseClear
<1>5. CASE RunClose
  BY <1>5 DEF RunClose, BeginClose
<1>6. CASE RunExit
  BY <1>6 DEF RunExit
<1>. QED
  BY <1>0, <1>1, <1>2, <1>3, <1>4, <1>5, <1>6 DEF Closing, Callers

LEMMA SessionsMonitor ==
    ASSUME TypeOK, LocksHeld, MonitorWaits, Sessions, Closed, Monitor \/ RequestMode
    PROVE  Sessions' /\ Closed'
<1>. USE DEF TypeOK, LocksHeld, MonitorWaits, Sessions, Closed, LocType, MonType, CloseType,
     StType, ReaderType
<1>1. CASE GpsEnable
  BY <1>1 DEF GpsEnable, Ticking, Selecting, EnableGPS
<1>2. CASE GpsTick
  BY <1>2 DEF GpsTick, Ticking, Selecting
<1>3. CASE GpsFailure
  BY <1>3 DEF GpsFailure, Ticking, Selecting, CloseThen, BeginClose
<1>4. CASE GpsRecoveryClosed
  BY <1>4 DEF GpsRecoveryClosed, ClosedFor
<1>5. CASE GpsReenable
  BY <1>5 DEF GpsReenable, EnableGPS
<1>6. CASE NoticeModem
  BY <1>6 DEF NoticeModem, Selecting
<1>7. CASE ModemFailure
  BY <1>7 DEF ModemFailure, CloseThen, BeginClose
<1>8. CASE ModemRecovered
  BY <1>8 DEF ModemRecovered, ClosedFor
<1>9. CASE DisableModem
  BY <1>9 DEF DisableModem, Selecting, CloseThen, BeginClose
<1>10. CASE ModemDisabled
  BY <1>10 DEF ModemDisabled, ClosedFor
<1>11. CASE EnableModem
  BY <1>11 DEF EnableModem, Selecting
<1>12. CASE RequestMode
  BY <1>12 DEF RequestMode, Selecting
<1>13. CASE SetGPSMode
  BY <1>13 DEF SetGPSMode
<1>14. CASE ModeStart
  BY <1>14 DEF ModeStart
<1>15. CASE MonExit
  BY <1>15 DEF MonExit
<1>. QED
  BY <1>1, <1>2, <1>3, <1>4, <1>5, <1>6, <1>7, <1>8, <1>9, <1>10, <1>11, <1>12, <1>13, <1>14,
       <1>15 DEF Monitor

-----------------------------------------------------------------------------
(* The clocks of the watchdog *)

LEMMA ArmedWorld ==
    ASSUME TypeOK, LocksHeld, MonitorWaits, Closed, Armed, Report \/ ReaderExit
           \/ ModemReappears \/ Clock \/ Disturbance
    PROVE  Armed'
<1>. USE DEF TypeOK, LocksHeld, MonitorWaits, Closed, Armed, LocType, MonType, CloseType,
     StType, SvcType
<1>1. CASE Report
  BY <1>1 DEF Report, Reports, Noted
<1>2. CASE ReaderExit
  <2>1. st' = st \/ \E kind \in Reports : st' = Noted(kind)
    BY <1>2 DEF ReaderExit
  <2>2. /\ st'.conn = st.conn /\ st'.modeSwitchReady = st.modeSwitchReady
        /\ st' = st \/ st'.lastData = "fresh"
    BY <2>1 DEF Reports, Noted
  <2>. QED
    BY <1>2, <2>2 DEF ReaderExit
<1>3. CASE ModemReappears
  BY <1>3 DEF ModemReappears
<1>4. CASE Silence
  BY <1>4 DEF Silence
<1>5. CASE TimePasses
  BY <1>5 DEF TimePasses
<1>6. CASE GpsdDies
  BY <1>6 DEF GpsdDies
<1>7. CASE ModemReset
  BY <1>7 DEF ModemReset
<1>8. CASE FixAges
  BY <1>8 DEF FixAges
<1>9. CASE Command
  BY <1>9 DEF Command
<1>10. CASE Terminate
  BY <1>10 DEF Terminate
<1>. QED
  BY <1>1, <1>2, <1>3, <1>4, <1>5, <1>6, <1>7, <1>8, <1>9, <1>10 DEF Clock, Disturbance

LEMMA ArmedLocation ==
    ASSUME TypeOK, LocksHeld, MonitorWaits, Closed, Armed, Location
    PROVE  Armed'
<1>. USE DEF TypeOK, LocksHeld, MonitorWaits, Closed, Armed, LocType, MonType, CloseType,
     StType, SvcType
<1>1. CASE LocExit
  BY <1>1 DEF LocExit
<1>2. CASE LocLock
  BY <1>2 DEF LocLock
<1>3. CASE LocReuse
  BY <1>3 DEF LocReuse
<1>4. CASE LocReuseRejected
  BY <1>4 DEF LocReuseRejected
<1>5. CASE LocConfigure
  BY <1>5 DEF LocConfigure, ConfigFailed
<1>6. CASE LocStart
  BY <1>6 DEF LocStart, ConfigFailed
<1>7. CASE LocDial
  BY <1>7 DEF LocDial
<1>8. CASE LocBackoff
  BY <1>8 DEF LocBackoff
<1>9. CASE LocTimeout
  BY <1>9 DEF LocTimeout
<1>10. CASE LocDrop
  BY <1>10 DEF LocDrop
<1>. QED
  BY <1>1, <1>2, <1>3, <1>4, <1>5, <1>6, <1>7, <1>8, <1>9, <1>10 DEF Location

LEMMA ArmedClosing ==
    ASSUME TypeOK, LocksHeld, MonitorWaits, Closed, Armed, Closing \/ RunClose \/ RunExit
    PROVE  Armed'
<1>. USE DEF TypeOK, LocksHeld, MonitorWaits, Closed, Armed, LocType, MonType, CloseType,
     StType, SvcType
<1>0. DOMAIN close = Callers
  OBVIOUS
<1>1. ASSUME NEW c \in Callers, CloseLock(c) PROVE Armed'
  BY <1>1 DEF CloseLock
<1>2. ASSUME NEW c \in Callers, CloseJoin(c) PROVE Armed'
  BY <1>2 DEF CloseJoin
<1>3. ASSUME NEW c \in Callers, CloseReader(c) PROVE Armed'
  BY <1>3 DEF CloseReader
<1>4. ASSUME NEW c \in Callers, CloseClear(c) PROVE Armed'
  BY <1>4 DEF CloseClear
<1>5. CASE RunClose
  BY <1>5 DEF RunClose, BeginClose
<1>6. CASE RunExit
  BY <1>6 DEF RunExit
<1>. QED
  BY <1>0, <1>1, <1>2, <1>3, <1>4, <1>5, <1>6 DEF Closing, Callers

LEMMA ArmedMonitor ==
    ASSUME TypeOK, LocksHeld, MonitorWaits, Closed, Armed, Monitor \/ RequestMode
    PROVE  Armed'
<1>. USE DEF TypeOK, LocksHeld, MonitorWaits, Closed, Armed, LocType, MonType, CloseType,
     StType, SvcType
<1>1. CASE GpsEnable
  BY <1>1 DEF GpsEnable, Ticking, Selecting, EnableGPS
<1>2. CASE GpsTick
  BY <1>2 DEF GpsTick, Ticking, Selecting, NoData, Noticed
<1>3. CASE GpsFailure
  BY <1>3 DEF GpsFailure, Ticking, Selecting, CloseThen, BeginClose
<1>4. CASE GpsRecoveryClosed
  BY <1>4 DEF GpsRecoveryClosed, ClosedFor
<1>5. CASE GpsReenable
  BY <1>5 DEF GpsReenable, EnableGPS
<1>6. CASE NoticeModem
  BY <1>6 DEF NoticeModem, Selecting
<1>7. CASE ModemFailure
  BY <1>7 DEF ModemFailure, CloseThen, BeginClose
<1>8. CASE ModemRecovered
  BY <1>8 DEF ModemRecovered, ClosedFor
<1>9. CASE DisableModem
  BY <1>9 DEF DisableModem, Selecting, CloseThen, BeginClose
<1>10. CASE ModemDisabled
  BY <1>10 DEF ModemDisabled, ClosedFor
<1>11. CASE EnableModem
  BY <1>11 DEF EnableModem, Selecting
<1>12. CASE RequestMode
  BY <1>12 DEF RequestMode, Selecting
<1>13. CASE SetGPSMode
  BY <1>13 DEF SetGPSMode
<1>14. CASE ModeStart
  BY <1>14 DEF ModeStart
<1>15. CASE MonExit
  BY <1>15 DEF MonExit
<1>. QED
  BY <1>1, <1>2, <1>3, <1>4, <1>5, <1>6, <1>7, <1>8, <1>9, <1>10, <1>11, <1>12, <1>13, <1>14,
       <1>15 DEF Monitor

-----------------------------------------------------------------------------
(* The theorems *)

LEMMA GpsInit == Init => GpsInv
<1>. SUFFICES ASSUME Init PROVE GpsInv
  OBVIOUS
<1>. USE DEF Init
<1>1. hw \in HwType /\ wish \in WishType /\ st \in StType /\ reader \in ReaderType
  BY DEF HwType, Receiver, WishType, StType, Age, ReaderType
<1>2. loc \in LocType
  BY CounterBounds DEF LocType, LocPC
<1>3. m \in MonType /\ close \in CloseType
  BY DEF MonType, MonPC, CloseType
<1>4. svc \in SvcType /\ svc.count = 0
  BY CounterBounds DEF SvcType, Age
<1>5. TypeOK
  BY <1>1, <1>2, <1>3, <1>4, DisturbancesAssumption DEF TypeOK
<1>6. Counted
  BY <1>4, RetriesAssumption DEF Counted
<1>7. LocksHeld /\ MonitorWaits
  BY DEF LocksHeld, MonitorWaits
<1>8. Sessions /\ Closed /\ Armed
  BY DEF Sessions, Closed, Armed
<1>. QED
  BY <1>5, <1>6, <1>7, <1>8 DEF GpsInv

LEMMA GpsStep == GpsInv /\ [Next]_vars => GpsInv'
<1>. SUFFICES ASSUME GpsInv, [Next]_vars PROVE GpsInv'
  OBVIOUS
<1>. USE DEF GpsInv
<1>1. CASE Report \/ ReaderExit \/ ModemReappears \/ Clock \/ Disturbance
  BY <1>1, TypesWorld, LocksWorld, SessionsWorld, ArmedWorld
<1>2. CASE Location
  BY <1>2, TypesLocation, LocksLocation, SessionsLocation, ArmedLocation
<1>3. CASE Closing \/ RunClose \/ RunExit
  BY <1>3, TypesClosing, LocksClosing, SessionsClosing, ArmedClosing
<1>4. CASE Monitor \/ RequestMode
  BY <1>4, TypesMonitor, LocksMonitor, SessionsMonitor, ArmedMonitor
<1>5. CASE UNCHANGED vars
  BY <1>5 DEF vars, TypeOK, LocksHeld, MonitorWaits, Sessions, Closed, Armed, Counted
<1>. QED
  BY <1>1, <1>2, <1>3, <1>4, <1>5 DEF Next

LEMMA GpsInvariant == Spec => []GpsInv
  BY GpsInit, GpsStep, PTL DEF Spec

\* Every variable of the pipeline keeps its type; no configuration is tried more
\* often than MaxConfigRetries, and no more than one recovery goes past the limit.
THEOREM GpsTypeCorrect == Spec => []TypeOK
<1>1. GpsInv => TypeOK
  BY DEF GpsInv
<1>. QED
  BY <1>1, GpsInvariant, PTL

\* After Close there is no fix to be taken for a current one, whoever closes, how
\* often, and whatever the readers and the location monitor were doing.
THEOREM CloseLeavesNoFix == Spec => []ClosedHasNoFix
<1>1. GpsInv => ClosedHasNoFix
  BY DEF GpsInv, Closed, ClosedHasNoFix
<1>. QED
  BY <1>1, GpsInvariant, PTL

\* A mode switch that is under way has the session it was checked for.
THEOREM ModeHasSession == Spec => []ModeNeedsSession
<1>1. GpsInv => ModeNeedsSession
  BY DEF GpsInv, Sessions, ModeNeedsSession
<1>. QED
  BY <1>1, GpsInvariant, PTL

\* An enabled pipeline is always watched by one of the two clocks.
THEOREM WatchdogStaysArmed == Spec => []WatchdogArmed
<1>1. GpsInv => WatchdogArmed
  BY DEF GpsInv, Armed, WatchdogArmed
<1>. QED
  BY <1>1, GpsInvariant, PTL
=============================================================================
