--------------------------- MODULE SmsWatchProofs ---------------------------
(***************************************************************************)
(* NoneMissed and StoresAgree for any set of paths and any number of        *)
(* commands and faults.  For the first, a watch that has a path is live    *)
(* (Paired), so a message that arrives while its modem is watched is        *)
(* signalled.  For the second, Progress says what a switch of stores has    *)
(* changed at each of its steps, as long as no more than one call of it     *)
(* has failed and the modem has not been reset.                             *)
(***************************************************************************)
EXTENDS SmsWatch, TLAPS

\* The steps of a switch that need its starting point.
Switching == {"probe", "set", "switch", "unset", "restore"}

\* The part of TypeOK that the argument rests on.
WatchTypes ==
    /\ hw \in HwType /\ watch \in WatchType /\ m \in MonType
    /\ store \in StoreType /\ saved \in StoreType \cup {None} /\ fails \in 0..2

Paired == watch.path # None => watch.live

\* What the modem and ModemManager have selected, step by step.
Progress ==
    /\ m.pc \notin Switching \cup {"drain"} => saved = None /\ fails = 0
    /\ m.pc \in Switching => saved # None /\ (Here \/ fails = 2)
    /\ fails < 2 =>
         /\ At("probe") => fails = 0 /\ store = saved
         /\ At("set") => fails = 0 /\ store = [saved EXCEPT !.read = Alternate]
         /\ At("switch") => fails = 0 /\ store = [saved EXCEPT !.read = Alternate,
             !.mm = Alternate]
         /\ At("unset") => fails = 1
         /\ At("restore") => /\ store.mm = saved.mm
                             /\ fails = 0 => store.receive = saved.receive

WatchInv == WatchTypes /\ Paired /\ NoneMissed /\ Progress /\ StoresAgree
-----------------------------------------------------------------------------
\* What the frames and the steps of control stand for; expanded everywhere.
USE DEF smsVars, storeVars, monVars, worldFrame, watchFrame, storageFrame, roundFrame,
     refreshFrame,
        At, Goto, Start, Home, Here, Reaches

(* Types *)

\* Where a status round, a recovery or startSMSWatch returns to.
Returns == {"select", "info", "poll", "done"}

\* The monitor loop goes on.
LEMMA GotoType ==
    ASSUME m \in MonType, NEW pc \in MonPC, Goto(pc)
    PROVE  m' \in MonType /\ m'.pc = pc
  BY DEF MonType, MonPC

\* The monitor loop calls startSMSWatch.
LEMMA StartType ==
    ASSUME m \in MonType, NEW then \in Returns, Start(then)
    PROVE  m' \in MonType /\ m'.pc = "start"
<1>1. m' \in MonType
  BY DEF MonType, MonPC, Returns
<1>2. m'.pc = "start"
  BY DEF MonType
<1>. QED
  BY <1>1, <1>2

LEMMA SelectedType == \A s \in Stores : Selected(s) \in StoreType
  BY DEF Selected, StoreType

\* The modem, the network, the user and the handler of the signal leave the types alone.
LEMMA TypesWorld ==
    ASSUME WatchTypes, World \/ HandleAdded
    PROVE  WatchTypes'
<1>. USE DEF WatchTypes
<1>1. CASE Arrive
  BY <1>1 DEF Arrive
<1>2. CASE Vanish
  <2>1. hw' \in HwType
    BY <1>2 DEF Vanish, HwType
  <2>2. fails' \in 0..2
    BY <1>2 DEF Vanish
  <2>. QED
    BY <1>2, <2>1, <2>2 DEF Vanish
<1>3. CASE Reappear
  <2>1. hw' \in HwType
    BY <1>3 DEF Reappear, Appears, HwType
  <2>2. store' \in StoreType
    BY <1>3, SelectedType DEF Reappear, Appears
  <2>. QED
    BY <1>3, <2>1, <2>2 DEF Reappear
<1>4. CASE ChangeSim
  <2>1. hw' \in HwType
    BY <1>4 DEF ChangeSim, HwType
  <2>. QED
    BY <1>4, <2>1 DEF ChangeSim
<1>5. CASE NoticeFlightMode
  <2>1. hw' \in HwType
    BY <1>5 DEF NoticeFlightMode, HwType
  <2>. QED
    BY <1>5, <2>1 DEF NoticeFlightMode
<1>6. CASE Idle
  BY <1>6 DEF Idle
<1>7. CASE Command
  BY <1>7 DEF Command
<1>8. CASE HandleAdded
  BY <1>8 DEF HandleAdded
<1>. QED
  BY <1>1, <1>2, <1>3, <1>4, <1>5, <1>6, <1>7, <1>8 DEF World

\* So does startSMSWatch; a restore needs the starting point that Progress promises.
LEMMA TypesStart ==
    ASSUME WatchTypes, Progress, StartSMSWatch
    PROVE  WatchTypes'
<1>. USE DEF WatchTypes
<1>1. CASE StartCancel
  <2>1. watch' \in WatchType
    BY <1>1 DEF StartCancel, WatchType, HwType, MonType, NoWatch
  <2>2. m' \in MonType
    <3>1. CASE Goto(m.then)
      BY <3>1, GotoType DEF MonType, MonPC
    <3>2. CASE m' = [m EXCEPT !.pc = "match", !.path = hw.path]
      BY <3>2 DEF MonType, MonPC, HwType
    <3>. QED
      BY <1>1, <3>1, <3>2 DEF StartCancel
  <2>. QED
    BY <1>1, <2>1, <2>2 DEF StartCancel
<1>2. CASE StartMatch
  <2>1. watch' \in WatchType
    <3>1. m.path \in Paths \cup {None}
      BY DEF MonType
    <3>2. watch' = [path |-> m.path, live |-> TRUE] \/ watch' = watch
      BY <1>2 DEF StartMatch
    <3>3. [path |-> m.path, live |-> TRUE] \in WatchType
      BY <3>1 DEF WatchType
    <3>. QED
      BY <3>2, <3>3
  <2>2. m' \in MonType
    BY <1>2 DEF StartMatch, MonType, MonPC, HwType
  <2>. QED
    BY <1>2, <2>1, <2>2 DEF StartMatch
<1>3. CASE StartDrain
  <2>1. m' \in MonType
    BY <1>3 DEF StartDrain, MonType, MonPC, HwType
  <2>2. saved' \in StoreType \cup {None}
    BY <1>3 DEF StartDrain
  <2>3. fails' \in 0..2
    BY <1>3 DEF StartDrain
  <2>. QED
    BY <1>3, <2>1, <2>2, <2>3 DEF StartDrain
<1>4. CASE StoreCheck
  <2>1. m' \in MonType
    BY <1>4 DEF StoreCheck, MonType, MonPC, HwType
  <2>2. saved' \in StoreType \cup {None}
    BY <1>4 DEF StoreCheck
  <2>. QED
    BY <1>4, <2>1, <2>2 DEF StoreCheck
<1>5. CASE StoreProbe
  <2>1. m' \in MonType
    BY <1>5 DEF StoreProbe, MonType, MonPC, HwType
  <2>2. store' \in StoreType
    BY <1>5 DEF StoreProbe, Works, Fails, StoreType, Stores, Other, Alternate
  <2>3. fails' \in 0..2
    BY <1>5 DEF StoreProbe, Works, Fails
  <2>. QED
    BY <1>5, <2>1, <2>2, <2>3 DEF StoreProbe
<1>6. CASE StoreSet
  <2>1. m' \in MonType
    BY <1>6 DEF StoreSet, MonType, MonPC, HwType
  <2>2. store' \in StoreType
    BY <1>6 DEF StoreSet, Works, Fails, StoreType, Stores, Other, Alternate
  <2>3. fails' \in 0..2
    BY <1>6 DEF StoreSet, Works, Fails
  <2>. QED
    BY <1>6, <2>1, <2>2, <2>3 DEF StoreSet
<1>7. CASE StoreSwitch
  <2>1. m' \in MonType
    BY <1>7 DEF StoreSwitch, MonType, MonPC, HwType
  <2>2. store' \in StoreType
    BY <1>7 DEF StoreSwitch, Works, Fails, StoreType, Stores, Other, Alternate
  <2>3. fails' \in 0..2
    BY <1>7 DEF StoreSwitch, Works, Fails
  <2>. QED
    BY <1>7, <2>1, <2>2, <2>3 DEF StoreSwitch
<1>8. CASE StoreUnset
  <2>1. m' \in MonType
    BY <1>8 DEF StoreUnset, MonType, MonPC, HwType
  <2>2. store' \in StoreType
    <3>1. saved \in StoreType
      BY <1>8 DEF StoreUnset, Progress, Switching
    <3>. QED
      BY <1>8, <3>1 DEF StoreUnset, Works, Fails, StoreType
  <2>3. fails' \in 0..2
    BY <1>8 DEF StoreUnset, Works, Fails
  <2>. QED
    BY <1>8, <2>1, <2>2, <2>3 DEF StoreUnset
<1>9. CASE StoreRestore
  <2>1. m' \in MonType
    BY <1>9 DEF StoreRestore, MonType, MonPC, HwType
  <2>2. store' \in StoreType
    <3>1. saved \in StoreType
      BY <1>9 DEF StoreRestore, Progress, Switching
    <3>. QED
      BY <1>9, <3>1 DEF StoreRestore, Works, Fails, StoreType
  <2>3. fails' \in 0..2
    BY <1>9 DEF StoreRestore, Works, Fails
  <2>. QED
    BY <1>9, <2>1, <2>2, <2>3 DEF StoreRestore
<1>. QED
  BY <1>1, <1>2, <1>3, <1>4, <1>5, <1>6, <1>7, <1>8, <1>9 DEF StartSMSWatch

\* Status rounds, recoveries and the power target.
LEMMA TypesMonitor ==
    ASSUME WatchTypes, Failure \/ Presence \/ Poll \/ Target \/ WatchdogTick \/ TakeRequest
           \/ \E tail \in {"poll", "select"} : Round(tail)
    PROVE  WatchTypes'
<1>. USE DEF WatchTypes
<1>1. ASSUME NEW tail \in {"poll", "select"}, Round(tail) PROVE WatchTypes'
  <2>1. m' \in MonType
    BY <1>1 DEF Round, MonType, MonPC, HwType
  <2>. QED
    BY <1>1, <2>1 DEF Round
<1>2. CASE Failure
  <2>1. m' \in MonType
    <3>1. m.then \in Returns /\ m.tail \in Returns /\ Returns \subseteq MonPC
      BY DEF MonType, Returns, MonPC
    <3>2. CASE Start(m.then)
      BY <3>1, <3>2, StartType
    <3>3. CASE Goto(m.then) \/ Goto(m.tail)
      BY <3>1, <3>3, GotoType
    <3>. QED
      BY <1>2, <3>2, <3>3 DEF Failure
  <2>2. hw' \in HwType
    BY <1>2 DEF Failure, Appears, HwType
  <2>3. store' \in StoreType
    BY <1>2, SelectedType DEF Failure, Appears
  <2>. QED
    BY <1>2, <2>1, <2>2, <2>3 DEF Failure
<1>3. CASE Presence
  <2>1. m' \in MonType
    <3>1. m.tail \in Returns /\ Returns \subseteq MonPC
      BY DEF MonType, Returns, MonPC
    <3>2. CASE Start(m.tail)
      BY <3>1, <3>2, StartType
    <3>3. CASE Goto(m.tail)
      BY <3>1, <3>3, GotoType
    <3>. QED
      BY <1>3, <3>2, <3>3 DEF Presence
  <2>2. watch' \in WatchType
    <3>1. NoWatch \in WatchType
      BY DEF NoWatch, WatchType
    <3>. QED
      BY <1>3, <3>1 DEF Presence
  <2>. QED
    BY <1>3, <2>1, <2>2 DEF Presence
<1>4. CASE Poll
  <2>1. m' \in MonType
    BY <1>4 DEF Poll, MonType, MonPC, HwType
  <2>. QED
    BY <1>4, <2>1 DEF Poll
<1>5. CASE DisableModem
  <2>1. hw' \in HwType
    BY <1>5 DEF DisableModem, HwType
  <2>2. watch' \in WatchType
    BY <1>5 DEF DisableModem, WatchType, HwType, MonType, NoWatch
  <2>. QED
    BY <1>5, <2>1, <2>2 DEF DisableModem
<1>6. CASE EnableModem
  <2>1. m' \in MonType
    BY <1>6 DEF EnableModem, MonType, MonPC, HwType
  <2>2. hw' \in HwType
    BY <1>6 DEF EnableModem, Appears, HwType
  <2>3. store' \in StoreType
    BY <1>6, SelectedType DEF EnableModem, Appears
  <2>. QED
    BY <1>6, <2>1, <2>2, <2>3 DEF EnableModem
<1>7. CASE WatchdogTick
  BY <1>7 DEF WatchdogTick
<1>8. CASE TakeRequest
  <2>1. m' \in MonType
    BY <1>8 DEF TakeRequest, MonType, MonPC, HwType
  <2>. QED
    BY <1>8, <2>1 DEF TakeRequest
<1>. QED
  BY <1>1, <1>2, <1>3, <1>4, <1>5, <1>6, <1>7, <1>8 DEF Target

\* The refresh of the registration.
LEMMA TypesRefresh ==
    ASSUME WatchTypes, Refresh
    PROVE  WatchTypes'
<1>. USE DEF WatchTypes
<1>1. CASE Call
  <2>1. m' \in MonType
    BY <1>1 DEF Call, MonType, MonPC, HwType
  <2>. QED
    BY <1>1, <2>1 DEF Call
<1>2. CASE Talk
  <2>1. m' \in MonType
    BY <1>2 DEF Talk, MonType, MonPC, HwType
  <2>. QED
    BY <1>2, <2>1 DEF Talk
<1>3. CASE Cfun4
  <2>1. m' \in MonType
    BY <1>3 DEF Cfun4, MonType, MonPC, HwType
  <2>2. hw' \in HwType
    BY <1>3 DEF Cfun4, Radio, HwType
  <2>. QED
    BY <1>3, <2>1, <2>2 DEF Cfun4
<1>4. CASE Cfun1
  <2>1. m' \in MonType
    BY <1>4 DEF Cfun1, MonType, MonPC, HwType
  <2>2. hw' \in HwType
    BY <1>4 DEF Cfun1, Radio, HwType
  <2>. QED
    BY <1>4, <2>1, <2>2 DEF Cfun1
<1>5. CASE Settle
  <2>1. m' \in MonType
    BY <1>5 DEF Settle, MonType, MonPC, HwType
  <2>. QED
    BY <1>5, <2>1 DEF Settle
<1>6. CASE RadioOff
  <2>1. m' \in MonType
    BY <1>6 DEF RadioOff, MonType, MonPC, HwType
  <2>2. hw' \in HwType
    BY <1>6 DEF RadioOff, Radio, HwType
  <2>. QED
    BY <1>6, <2>1, <2>2 DEF RadioOff
<1>7. CASE RadioOn
  <2>1. m' \in MonType
    BY <1>7 DEF RadioOn, MonType, MonPC, HwType
  <2>2. hw' \in HwType
    BY <1>7 DEF RadioOn, Radio, HwType
  <2>. QED
    BY <1>7, <2>1, <2>2 DEF RadioOn
<1>8. CASE Reattach
  <2>1. m' \in MonType
    BY <1>8 DEF Reattach, MonType, MonPC, HwType
  <2>. QED
    BY <1>8, <2>1 DEF Reattach
<1>9. CASE RefreshDone
  <2>1. m' \in MonType
    BY <1>9 DEF RefreshDone, MonType, MonPC, HwType
  <2>. QED
    BY <1>9, <2>1 DEF RefreshDone
<1>. QED
  BY <1>1, <1>2, <1>3, <1>4, <1>5, <1>6, <1>7, <1>8, <1>9 DEF Refresh

-----------------------------------------------------------------------------
(* No message is missed *)

LEMMA MissedWorld ==
    ASSUME WatchTypes, Paired, NoneMissed,
           World \/ HandleAdded
    PROVE  Paired' /\ NoneMissed'
<1>. USE DEF WatchTypes, Paired, NoneMissed, HwType, WatchType, MonType, Starting
<1>1. CASE Arrive
  BY <1>1 DEF Arrive
<1>2. CASE Vanish
  BY <1>2 DEF Vanish
<1>3. CASE Reappear
  BY <1>3 DEF Reappear, Appears
<1>4. CASE ChangeSim
  BY <1>4 DEF ChangeSim
<1>5. CASE NoticeFlightMode
  BY <1>5 DEF NoticeFlightMode
<1>6. CASE Idle
  BY <1>6 DEF Idle
<1>7. CASE Command
  BY <1>7 DEF Command
<1>8. CASE HandleAdded
  BY <1>8 DEF HandleAdded
<1>. QED
  BY <1>1, <1>2, <1>3, <1>4, <1>5, <1>6, <1>7, <1>8 DEF World

LEMMA MissedStart ==
    ASSUME WatchTypes, Paired, NoneMissed,
           StartSMSWatch
    PROVE  Paired' /\ NoneMissed'
<1>. USE DEF WatchTypes, Paired, NoneMissed, HwType, WatchType, MonType, Starting
<1>1. CASE StartCancel
  BY <1>1 DEF StartCancel, NoWatch
<1>2. CASE StartMatch
  BY <1>2 DEF StartMatch
<1>3. CASE StartDrain
  BY <1>3 DEF StartDrain, Drain
<1>4. CASE StoreCheck
  BY <1>4 DEF StoreCheck
<1>5. CASE StoreProbe
  BY <1>5 DEF StoreProbe
<1>6. CASE StoreSet
  BY <1>6 DEF StoreSet
<1>7. CASE StoreSwitch
  BY <1>7 DEF StoreSwitch
<1>8. CASE StoreUnset
  BY <1>8 DEF StoreUnset
<1>9. CASE StoreRestore
  BY <1>9 DEF StoreRestore
<1>. QED
  BY <1>1, <1>2, <1>3, <1>4, <1>5, <1>6, <1>7, <1>8, <1>9 DEF StartSMSWatch

LEMMA MissedMonitor ==
    ASSUME WatchTypes, Paired, NoneMissed,
           Failure \/ Presence \/ Poll \/ Target \/ WatchdogTick \/ TakeRequest
           \/ \E tail \in {"poll", "select"} : Round(tail)
    PROVE  Paired' /\ NoneMissed'
<1>. USE DEF WatchTypes, Paired, NoneMissed, HwType, WatchType, MonType, Starting
<1>1. ASSUME NEW tail \in {"poll", "select"}, Round(tail) PROVE Paired' /\ NoneMissed'
  BY <1>1 DEF Round
<1>2. CASE Failure
  <2>1. watch' = watch /\ signal' = signal /\ stored' = stored /\ m.pc = "failure"
    BY <1>2 DEF Failure
  <2>2. (hw' = hw /\ excused' = excused) \/ excused' = stored
    BY <1>2 DEF Failure, Appears
  <2>. QED
    BY <2>1, <2>2 DEF Paired, NoneMissed, Starting
<1>3. CASE Presence
  <2>1. m.pc = "info" /\ UNCHANGED <<stored, excused, hw>>
    BY <1>3 DEF Presence
  <2>2. UNCHANGED <<watch, signal>> \/ watch' = NoWatch
    BY <1>3 DEF Presence
  <2>. QED
    BY <2>1, <2>2 DEF Paired, NoneMissed, Starting, NoWatch
<1>4. CASE Poll
  BY <1>4 DEF Poll, Drain
<1>5. CASE DisableModem
  <2>1. hw'.path = None /\ (watch' = watch \/ watch'.path = None)
    BY <1>5 DEF DisableModem, NoWatch, WatchTypes, HwType
  <2>. QED
    BY <2>1 DEF Paired, NoneMissed
<1>6. CASE EnableModem
  <2>1. watch' = watch /\ signal' = signal /\ stored' = stored /\ m.pc = "select"
    BY <1>6 DEF EnableModem
  <2>2. (hw' = hw /\ excused' = excused) \/ excused' = stored
    BY <1>6 DEF EnableModem, Appears
  <2>. QED
    BY <2>1, <2>2 DEF Paired, NoneMissed, Starting
<1>7. CASE WatchdogTick
  BY <1>7 DEF WatchdogTick
<1>8. CASE TakeRequest
  BY <1>8 DEF TakeRequest
<1>. QED
  BY <1>1, <1>2, <1>3, <1>4, <1>5, <1>6, <1>7, <1>8 DEF Target

LEMMA MissedRefresh ==
    ASSUME WatchTypes, Paired, NoneMissed,
           Refresh
    PROVE  Paired' /\ NoneMissed'
<1>. USE DEF WatchTypes, Paired, NoneMissed, HwType, WatchType, MonType, Starting
<1>1. CASE Call
  BY <1>1 DEF Call
<1>2. CASE Talk
  BY <1>2 DEF Talk
<1>3. CASE Cfun4
  BY <1>3 DEF Cfun4, Radio
<1>4. CASE Cfun1
  BY <1>4 DEF Cfun1, Radio
<1>5. CASE Settle
  BY <1>5 DEF Settle
<1>6. CASE RadioOff
  BY <1>6 DEF RadioOff, Radio
<1>7. CASE RadioOn
  BY <1>7 DEF RadioOn, Radio
<1>8. CASE Reattach
  BY <1>8 DEF Reattach
<1>9. CASE RefreshDone
  BY <1>9 DEF RefreshDone
<1>. QED
  BY <1>1, <1>2, <1>3, <1>4, <1>5, <1>6, <1>7, <1>8, <1>9 DEF Refresh

-----------------------------------------------------------------------------
(* The switch of stores *)

\* ModemManager's default is set, or the switch is undone.
LEMMA SetProgress ==
    ASSUME WatchTypes, Progress, StoresAgree, StoreSet
    PROVE  Progress' /\ StoresAgree'
<1>. USE DEF Progress, StoresAgree, Switching
<1>1. /\ saved # None /\ saved' = saved /\ Here' = Here /\ Alternate' = Alternate
      /\ Here \/ fails = 2
      /\ fails < 2 => fails = 0 /\ store = [saved EXCEPT !.read = Alternate]
  BY DEF StoreSet, Alternate
<1>2. CASE Works([store EXCEPT !.mm = Alternate]) /\ m'.pc = "switch"
  <2>1. fails < 2 => store' = [saved EXCEPT !.read = Alternate, !.mm = Alternate]
    BY <1>1, <1>2 DEF Works
  <2>2. fails' = fails
    BY <1>2 DEF Works
  <2>. QED
    BY <1>1, <1>2, <2>1, <2>2
<1>3. CASE Fails([store EXCEPT !.mm = Alternate]) /\ m'.pc = "unset"
  BY <1>1, <1>3 DEF Fails
<1>. QED
  BY <1>2, <1>3 DEF StoreSet, WatchTypes, MonType

\* The stores are selected: the switch is complete, or ModemManager's default is set back.
LEMMA SwitchProgress ==
    ASSUME WatchTypes, Progress, StoresAgree, StoreSwitch
    PROVE  Progress' /\ StoresAgree'
<1>. USE DEF Progress, StoresAgree, Switching
<1>. DEFINE all == [store EXCEPT !.read = Alternate, !.receive = Alternate]
<1>1. /\ saved # None /\ saved' = saved /\ Here' = Here /\ Alternate' = Alternate
      /\ Here \/ fails = 2
      /\ fails < 2 => fails = 0 /\ store = [saved EXCEPT !.read = Alternate, !.mm = Alternate]
  BY DEF StoreSwitch, Alternate
<1>2. CASE Works(all) /\ m'.pc = "drain"
  <2>1. fails' = fails /\ store' = all
    BY <1>2 DEF Works
  <2>2. saved \in StoreType /\ Alternate \in Stores /\ fails \in 0..2
    BY <1>1 DEF WatchTypes, Alternate, Other, Stores
  <2>3. fails < 2 => store' = Selected(Alternate)
    BY <1>1, <2>1, <2>2 DEF Selected, StoreType
  <2>4. fails < 2 => store'.receive = store'.mm /\ store' \in {Selected(s) : s \in Stores}
    BY <2>2, <2>3 DEF Selected
  <2>. QED
    BY <1>1, <1>2, <2>1, <2>2, <2>4
<1>3. CASE Fails(all) /\ m'.pc = "unset"
  BY <1>1, <1>3 DEF Fails
<1>. QED
  BY <1>2, <1>3 DEF StoreSwitch, WatchTypes, MonType

\* The selection is restored; after one failed call it is what it was.
LEMMA RestoreProgress ==
    ASSUME WatchTypes, Progress, StoresAgree, StoreRestore
    PROVE  Progress' /\ StoresAgree'
<1>. USE DEF Progress, StoresAgree, Switching
<1>. DEFINE restored == [store EXCEPT !.read = saved.read, !.receive = saved.receive]
<1>1. /\ saved # None /\ saved' = saved /\ Here' = Here /\ m'.pc = "drain"
      /\ fails < 2 => store.mm = saved.mm /\ (fails = 0 => store.receive = saved.receive)
  BY DEF StoreRestore, WatchTypes, MonType
<1>2. store \in StoreType /\ saved \in StoreType /\ fails \in 0..2
  BY <1>1 DEF WatchTypes
<1>3. fails < 2 => restored = saved
  BY <1>1, <1>2 DEF StoreType
<1>4. CASE Works(restored)
  BY <1>1, <1>2, <1>3, <1>4 DEF Works
<1>5. CASE Fails(restored)
  <2>1. fails' = (IF fails = 0 THEN 1 ELSE 2) /\ store' \in {store, restored}
    BY <1>5 DEF Fails
  <2>. QED
    BY <1>1, <1>2, <1>3, <2>1
<1>. QED
  BY <1>4, <1>5 DEF StoreRestore

LEMMA ProgressWorld ==
    ASSUME WatchTypes, Progress, StoresAgree,
           World \/ HandleAdded
    PROVE  Progress' /\ StoresAgree'
<1>. USE DEF WatchTypes, Progress, StoresAgree, Switching, HwType, MonType, StoreType, Alternate
<1>1. CASE Arrive
  BY <1>1 DEF Arrive
<1>2. CASE Vanish
  BY <1>2 DEF Vanish
<1>3. CASE Reappear
  BY <1>3 DEF Reappear, Appears, Selected
<1>4. CASE ChangeSim
  BY <1>4 DEF ChangeSim
<1>5. CASE NoticeFlightMode
  BY <1>5 DEF NoticeFlightMode
<1>6. CASE Idle
  BY <1>6 DEF Idle
<1>7. CASE Command
  BY <1>7 DEF Command
<1>8. CASE HandleAdded
  BY <1>8 DEF HandleAdded
<1>. QED
  BY <1>1, <1>2, <1>3, <1>4, <1>5, <1>6, <1>7, <1>8 DEF World

LEMMA ProgressStart ==
    ASSUME WatchTypes, Progress, StoresAgree,
           StartSMSWatch
    PROVE  Progress' /\ StoresAgree'
<1>. USE DEF WatchTypes, Progress, StoresAgree, Switching, HwType, MonType, StoreType, Alternate
<1>1. CASE StartCancel
  <2>1. m.pc \notin Switching \cup {"drain"} /\ UNCHANGED <<saved, fails>>
    BY <1>1 DEF StartCancel, Switching
  <2>2. m \in MonType /\ m.then \in Returns /\ m.tail \in Returns /\ Returns \subseteq MonPC
    BY DEF WatchTypes, MonType, Returns, MonPC
  <2>3. Goto(m.then) \/ Goto(m.tail) \/ m' = [m EXCEPT !.pc = "match", !.path = hw.path]
    BY <1>1 DEF StartCancel
  <2>4. Goto(m.then) => m'.pc \in Returns
    BY <2>2, GotoType
  <2>5. Goto(m.tail) => m'.pc \in Returns
    BY <2>2, GotoType
  <2>6. m' = [m EXCEPT !.pc = "match", !.path = hw.path] => m'.pc = "match"
    BY <2>2 DEF MonType
  <2>. QED
    BY <2>1, <2>3, <2>4, <2>5, <2>6 DEF Progress, StoresAgree, Returns, Switching
<1>2. CASE StartMatch
  BY <1>2 DEF StartMatch
<1>3. CASE StartDrain
  BY <1>3 DEF StartDrain, Drain
<1>4. CASE StoreCheck
  <2>1. saved = None /\ fails = 0 /\ saved' = store /\ store' = store /\ UNCHANGED <<fails, hw>>
    BY <1>4 DEF StoreCheck
  <2>2. m'.pc = "drain" \/ (m'.pc = "probe" /\ Here')
    BY <1>4 DEF StoreCheck
  <2>3. store # None
    BY NoneAssumption
  <2>. QED
    BY <2>1, <2>2, <2>3
<1>5. CASE StoreProbe
  BY <1>5 DEF StoreProbe, Works, Fails
<1>6. CASE StoreSet
  BY <1>6, SetProgress
<1>7. CASE StoreSwitch
  BY <1>7, SwitchProgress
<1>8. CASE StoreUnset
  BY <1>8 DEF StoreUnset, Works, Fails
<1>9. CASE StoreRestore
  BY <1>9, RestoreProgress
<1>. QED
  BY <1>1, <1>2, <1>3, <1>4, <1>5, <1>6, <1>7, <1>8, <1>9 DEF StartSMSWatch

LEMMA ProgressMonitor ==
    ASSUME WatchTypes, Progress, StoresAgree,
           Failure \/ Presence \/ Poll \/ Target \/ WatchdogTick \/ TakeRequest
           \/ \E tail \in {"poll", "select"} : Round(tail)
    PROVE  Progress' /\ StoresAgree'
<1>. USE DEF WatchTypes, Progress, StoresAgree, Switching, HwType, MonType, StoreType, Alternate
<1>1. ASSUME NEW tail \in {"poll", "select"}, Round(tail) PROVE Progress' /\ StoresAgree'
  BY <1>1 DEF Round
<1>2. CASE Failure
  <2>1. m.pc \notin Switching \cup {"drain"} /\ UNCHANGED <<saved, fails>>
    BY <1>2 DEF Failure, Switching
  <2>2. m \in MonType /\ m.then \in Returns /\ m.tail \in Returns /\ Returns \subseteq MonPC
    BY DEF WatchTypes, MonType, Returns, MonPC
  <2>3. Goto(m.then) \/ Goto(m.tail) \/ Start(m.then)
    BY <1>2 DEF Failure
  <2>4. Goto(m.then) => m'.pc \in Returns
    BY <2>2, GotoType
  <2>5. Goto(m.tail) => m'.pc \in Returns
    BY <2>2, GotoType
  <2>6. Start(m.then) => m'.pc = "start"
    BY <2>2 DEF MonType
  <2>. QED
    BY <2>1, <2>3, <2>4, <2>5, <2>6 DEF Progress, StoresAgree, Returns, Switching
<1>3. CASE Presence
  <2>1. m.pc \notin Switching \cup {"drain"} /\ UNCHANGED <<saved, fails>>
    BY <1>3 DEF Presence, Switching
  <2>2. m \in MonType /\ m.then \in Returns /\ m.tail \in Returns /\ Returns \subseteq MonPC
    BY DEF WatchTypes, MonType, Returns, MonPC
  <2>3. Goto(m.then) \/ Goto(m.tail) \/ Start(m.tail)
    BY <1>3 DEF Presence
  <2>4. Goto(m.then) => m'.pc \in Returns
    BY <2>2, GotoType
  <2>5. Goto(m.tail) => m'.pc \in Returns
    BY <2>2, GotoType
  <2>6. Start(m.tail) => m'.pc = "start"
    BY <2>2 DEF MonType
  <2>. QED
    BY <2>1, <2>3, <2>4, <2>5, <2>6 DEF Progress, StoresAgree, Returns, Switching
<1>4. CASE Poll
  BY <1>4 DEF Poll, Drain
<1>5. CASE DisableModem
  BY <1>5 DEF DisableModem
<1>6. CASE EnableModem
  BY <1>6 DEF EnableModem, Appears
<1>7. CASE WatchdogTick
  BY <1>7 DEF WatchdogTick
<1>8. CASE TakeRequest
  BY <1>8 DEF TakeRequest
<1>. QED
  BY <1>1, <1>2, <1>3, <1>4, <1>5, <1>6, <1>7, <1>8 DEF Target

LEMMA ProgressRefresh ==
    ASSUME WatchTypes, Progress, StoresAgree,
           Refresh
    PROVE  Progress' /\ StoresAgree'
<1>. USE DEF WatchTypes, Progress, StoresAgree, Switching, HwType, MonType, StoreType, Alternate
<1>1. CASE Call
  BY <1>1 DEF Call
<1>2. CASE Talk
  BY <1>2 DEF Talk
<1>3. CASE Cfun4
  BY <1>3 DEF Cfun4, Radio
<1>4. CASE Cfun1
  BY <1>4 DEF Cfun1, Radio
<1>5. CASE Settle
  BY <1>5 DEF Settle
<1>6. CASE RadioOff
  BY <1>6 DEF RadioOff, Radio
<1>7. CASE RadioOn
  BY <1>7 DEF RadioOn, Radio
<1>8. CASE Reattach
  BY <1>8 DEF Reattach
<1>9. CASE RefreshDone
  BY <1>9 DEF RefreshDone
<1>. QED
  BY <1>1, <1>2, <1>3, <1>4, <1>5, <1>6, <1>7, <1>8, <1>9 DEF Refresh

-----------------------------------------------------------------------------
(* The theorems *)

LEMMA WatchInit == Init => WatchInv
<1>. SUFFICES ASSUME Init PROVE WatchInv
  OBVIOUS
<1>1. hw \in HwType /\ watch \in WatchType /\ m \in MonType /\ m.pc = "select"
  BY DEF Init, HwType, WatchType, NoWatch, MonType, MonPC
<1>2. store \in StoreType /\ saved = None /\ fails = 0
  BY SelectedType DEF Init, Stores
<1>3. Paired /\ NoneMissed
  BY DEF Init, Paired, NoneMissed, NoWatch
<1>. QED
  BY <1>1, <1>2, <1>3 DEF WatchInv, WatchTypes, Progress, StoresAgree, Switching

LEMMA WatchStep == WatchInv /\ [Next]_vars => WatchInv'
<1>. SUFFICES ASSUME WatchInv, [Next]_vars PROVE WatchInv'
  OBVIOUS
<1>. USE DEF WatchInv
<1>1. CASE World \/ HandleAdded
  BY <1>1, TypesWorld, MissedWorld, ProgressWorld
<1>2. CASE StartSMSWatch
  BY <1>2, TypesStart, MissedStart, ProgressStart
<1>3. CASE Failure \/ Presence \/ Poll \/ Target \/ WatchdogTick \/ TakeRequest
           \/ \E tail \in {"poll", "select"} : Round(tail)
  BY <1>3, TypesMonitor, MissedMonitor, ProgressMonitor
<1>4. CASE Refresh
  BY <1>4, TypesRefresh, MissedRefresh, ProgressRefresh
<1>5. CASE UNCHANGED vars
  BY <1>5 DEF vars, WatchTypes, Paired, NoneMissed, Starting, Progress, StoresAgree, Alternate
<1>. QED
  BY <1>1, <1>2, <1>3, <1>4, <1>5 DEF Next, Busy

LEMMA WatchInvariant == Spec => []WatchInv
  BY WatchInit, WatchStep, PTL DEF Spec

\* No message that arrives while its modem is watched waits for the next tick,
\* whatever re-arms the watch, whenever, and on whichever path.
THEOREM WatchMissesNone == Spec => []NoneMissed
<1>1. WatchInv => NoneMissed
  BY DEF WatchInv
<1>. QED
  BY <1>1, WatchInvariant, PTL

\* A switch of stores of which at most one call has failed, with or without its
\* effect, leaves the modem and ModemManager in agreement.
THEOREM StoresStayInAgreement == Spec => []StoresAgree
<1>1. WatchInv => StoresAgree
  BY DEF WatchInv
<1>. QED
  BY <1>1, WatchInvariant, PTL
=============================================================================
