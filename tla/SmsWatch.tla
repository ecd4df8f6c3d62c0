------------------------------ MODULE SmsWatch ------------------------------
(***************************************************************************)
(* The watch for incoming messages, the switch to another receive store    *)
(* and the keepalive of the registration that SMS delivery depends on.     *)
(*                                                                         *)
(* Goroutines: the monitor loop (m), which runs status rounds, recoveries, *)
(* the power target and the keepalive's refresh; the dispatcher of the     *)
(* Added signal; and the registration watchdog (wd).  What a message goes  *)
(* through once it is read is SmsService's: a message is stored or not.    *)
(***************************************************************************)
EXTENDS Naturals

CONSTANTS
    Paths,            \* D-Bus paths ModemManager may give the modem
    None,
    Budgets           \* bounds: commands and faults (failing calls, resets, SIM and
                      \* store changes), one pair for each scenario

Stores == {"SM", "ME"}
StoreType == [read : Stores, receive : Stores, mm : Stores]

ASSUME NoneAssumption == None \notin Paths \cup StoreType
ASSUME BudgetAssumption == Budgets \subseteq [commands : Nat, faults : Nat]

VARIABLES
    hw,           \* the modem: path or None, what its radio does, SIM inserted
    store,        \* selected stores, as the modem and as ModemManager have them
    stored,       \* a received message is in the modem's store
    excused,      \* history: a call for it failed, or it was there before the object
    signal,       \* its Added signal waits in the channel of the watch
    watch,        \* the installed watch: its path, and whether its context lives
    smsSIMPresent, modemEnabled,
    applied,      \* appliedModemEnabled
    ownNumber,    \* ownMSISDN is known
    csActivity,   \* the last circuit-switched activity: recent or 13 minutes ago
    wd,           \* the watchdog: waits for a tick, offers a request, waits for it
    op,           \* the refresh's operation: registered, and cancelled
    m,            \* the monitor loop: control, continuation, end of the status round,
                  \* and the modem's path as startSMSWatch found it
    saved,        \* the selection that a switch of stores started from, or None
    fails,        \* history: failed calls of the last switch; 2: several, or a reset
    left          \* what is left of the budget

smsVars == <<stored, excused, signal>>
storeVars == <<store, saved, fails>>
monVars == <<m, op, wd, applied>>
vars == <<hw, storeVars, smsVars, watch, smsSIMPresent, modemEnabled, ownNumber, csActivity,
          monVars, left>>

Other(s) == IF s = "SM" THEN "ME" ELSE "SM"
Selected(s) == [read |-> s, receive |-> s, mm |-> s]
NoWatch == [path |-> None, live |-> FALSE]
Use(kind) == left[kind] > 0 /\ left' = [left EXCEPT ![kind] = @ - 1]
Disturb == Use("faults")
Here == hw.path # None
Reaches(path) == Here /\ path = hw.path

Home == [pc |-> "select", then |-> "select", tail |-> "select", path |-> None]

Init ==
    /\ hw \in [path : Paths \cup {None}, radio : {"on", "disabled"}, sim : BOOLEAN]
    /\ store = Selected("SM") /\ saved = None         \* the two stores are alike
    /\ fails = 0
    /\ stored \in BOOLEAN /\ excused = stored /\ signal = FALSE
    /\ watch = NoWatch /\ smsSIMPresent = FALSE
    /\ modemEnabled = TRUE /\ applied = TRUE
    /\ ownNumber = FALSE /\ csActivity = "recent" /\ wd = "tick"
    /\ op = [on |-> FALSE, cancelled |-> FALSE]
    /\ m = Home
    /\ left \in Budgets

-----------------------------------------------------------------------------
(* The modem, ModemManager, the network and the user *)

worldFrame == <<watch, smsSIMPresent, ownNumber, monVars, saved>>

Arrive ==
    /\ ~stored /\ Here /\ hw.radio = "on" /\ hw.sim
    /\ stored' = TRUE /\ signal' = (watch.live /\ watch.path = hw.path)
    /\ UNCHANGED <<worldFrame, fails, hw, store, excused, modemEnabled, csActivity, left>>

Vanish ==
    /\ Here /\ Disturb /\ hw' = [hw EXCEPT !.path = None, !.radio = "on"] 
    /\ fails' = IF saved = None THEN 0 ELSE 2
    /\ UNCHANGED <<worldFrame, store, smsVars, modemEnabled, csActivity>>

\* Messages already stored are announced, but not as received ones.
Appears(p) ==
    /\ hw' = [hw EXCEPT !.path = p, !.radio = "on"]
    /\ store' \in {Selected(s) : s \in Stores} /\ excused' = stored

Reappear ==
    /\ ~Here /\ applied /\ \E p \in Paths : Appears(p)
    /\ UNCHANGED <<worldFrame, fails, stored, signal, modemEnabled, csActivity, left>>

ChangeSim ==
    /\ Disturb /\ hw' = [hw EXCEPT !.sim = ~@]
    /\ UNCHANGED <<worldFrame, fails, store, smsVars, modemEnabled, csActivity>>

\* ModemManager may see that a modem has been put into flight mode.
NoticeFlightMode ==
    /\ hw.radio = "flight" /\ hw' = [hw EXCEPT !.radio = "disabled"]
    /\ UNCHANGED <<worldFrame, fails, store, smsVars, modemEnabled, csActivity, left>>

Idle ==
    /\ csActivity = "recent" /\ m.pc = "select" /\ csActivity' = "idle"
    /\ UNCHANGED <<worldFrame, fails, hw, store, smsVars, modemEnabled, left>>

\* handleModemCommand: a disable cancels the operation that is registered.
Command ==
    /\ Use("commands") /\ modemEnabled' = ~modemEnabled
    /\ op' = [op EXCEPT !.cancelled = @ \/ (op.on /\ modemEnabled)]
    /\ UNCHANGED <<hw, storeVars, smsVars, watch, smsSIMPresent, ownNumber, csActivity, m, wd,
                   applied>>

World ==
    \/ Arrive \/ Vanish \/ Reappear \/ ChangeSim \/ NoticeFlightMode
    \/ Idle \/ Command

-----------------------------------------------------------------------------
(* The Added signal: smsAddedHandler and sms.Manager *)

\* The message is delivered and deleted, or a call about it fails.
HandleAdded ==
    /\ signal /\ signal' = FALSE
    /\ IF watch.live /\ stored /\ watch.path = hw.path
       THEN \/ stored' = FALSE /\ excused' = FALSE /\ csActivity' = "recent" /\ UNCHANGED left
            \/ Disturb /\ excused' = TRUE /\ UNCHANGED <<stored, csActivity>>
       ELSE UNCHANGED <<stored, excused, csActivity, left>>
    /\ UNCHANGED <<hw, storeVars, watch, smsSIMPresent, modemEnabled, ownNumber, monVars>>

\* drainSMS, which lists the store first.
Drain(path) ==
    \/ /\ Reaches(path) /\ stored' = FALSE /\ excused' = FALSE
       /\ csActivity' = IF stored THEN "recent" ELSE csActivity
       /\ UNCHANGED left
    \/ /\ IF Reaches(path) THEN Disturb ELSE UNCHANGED left
       /\ excused' = stored /\ UNCHANGED <<stored, csActivity>>

-----------------------------------------------------------------------------
(* startSMSWatch, called by the monitor loop; it returns to m.then *)

watchFrame == <<hw, smsSIMPresent, modemEnabled, op, wd, applied>>
At(pc) == m.pc = pc
Goto(pc) == m' = IF pc = "select" THEN Home ELSE [m EXCEPT !.pc = pc]
Start(then) == m' = [m EXCEPT !.pc = "start", !.then = then]

\* The old watch is cancelled, with the signals in its channel.
StartCancel ==
    /\ At("start") /\ watch' = NoWatch /\ signal' = FALSE
    /\ IF ~smsSIMPresent THEN Goto(m.then) /\ UNCHANGED <<csActivity, ownNumber>>
       ELSE /\ csActivity' = "recent"
            /\ IF ~Here THEN Goto(m.then) /\ UNCHANGED ownNumber
               ELSE /\ m' = [m EXCEPT !.pc = "match", !.path = hw.path]
                    /\ ownNumber' \in {ownNumber, ownNumber \/ hw.sim}
    /\ UNCHANGED <<watchFrame, storeVars, stored, excused, left>>

\* armSMSAddedWatch: the context of the watch is the service's, not the caller's,
\* and the bus accepts a match for a path that is gone.
StartMatch ==
    /\ At("match")
    /\ \/ watch' = [path |-> m.path, live |-> TRUE] /\ Goto("configure") /\ UNCHANGED left
       \/ Disturb /\ Goto("drain") /\ UNCHANGED watch
    /\ UNCHANGED <<watchFrame, storeVars, smsVars, ownNumber, csActivity>>

StartDrain ==
    /\ At("drain") /\ Drain(m.path) /\ Goto(m.then) /\ saved' = None /\ fails' = 0
    /\ UNCHANGED <<watchFrame, store, signal, watch, ownNumber>>

-----------------------------------------------------------------------------
(* recoverFullSMSStorage, within startSMSWatch *)

storageFrame == <<watchFrame, smsVars, watch, ownNumber, csActivity>>

\* A call of the switch succeeds, or fails with or without its effect.
Works(effect) == Reaches(m.path) /\ store' = effect /\ UNCHANGED <<left, fails>>
Fails(effect) ==
    /\ fails' = IF fails = 0 THEN 1 ELSE 2
    /\ IF Reaches(m.path) THEN Disturb /\ store' \in {store, effect} ELSE UNCHANGED <<left, store>>

\* Goes on if the receive store is full, the other one is supported and nothing
\* fails: how full a store is, is left open.
StoreCheck ==
    /\ At("configure") /\ saved' = store
    /\ \/ Goto("drain")
       \/ Reaches(m.path) /\ Goto("probe")
    /\ UNCHANGED <<storageFrame, store, fails, left>>

Alternate == Other(saved.receive)

\* The other store is selected for reading, to see whether it has room.
StoreProbe ==
    /\ At("probe")
    /\ LET probed == [store EXCEPT !.read = Alternate]
       IN  \/ Works(probed) /\ \E pc \in {"set", "restore"} : Goto(pc)
           \/ Fails(probed) /\ Goto("restore")
    /\ UNCHANGED <<storageFrame, saved>>

StoreSet ==
    /\ At("set")
    /\ LET set == [store EXCEPT !.mm = Alternate]
       IN  \/ Works(set) /\ Goto("switch")
           \/ Fails(set) /\ Goto("unset")
    /\ UNCHANGED <<storageFrame, saved>>

\* Mutant: ModemManager's default is not set back.
StoreSwitchKeepsDefault ==
    /\ At("switch")
    /\ LET all == [store EXCEPT !.read = Alternate, !.receive = Alternate]
       IN  \/ Works(all) /\ Goto("drain")
           \/ Fails(all) /\ Goto("restore")
    /\ UNCHANGED <<storageFrame, saved>>

StoreSwitch ==
    /\ At("switch")
    /\ LET all == [store EXCEPT !.read = Alternate, !.receive = Alternate]
       IN  \/ Works(all) /\ Goto("drain")
           \/ Fails(all) /\ Goto("unset")
    /\ UNCHANGED <<storageFrame, saved>>

StoreUnset ==
    /\ At("unset") /\ Goto("restore")
    /\ LET unset == [store EXCEPT !.mm = saved.mm] IN Works(unset) \/ Fails(unset)
    /\ UNCHANGED <<storageFrame, saved>>

StoreRestore ==
    /\ At("restore") /\ Goto("drain")
    /\ LET restored == [store EXCEPT !.read = saved.read, !.receive = saved.receive]
       IN  Works(restored) \/ Fails(restored)
    /\ UNCHANGED <<storageFrame, saved>>

StartSMSWatch ==
    \/ StartCancel \/ StartMatch \/ StartDrain \/ StoreCheck \/ StoreProbe \/ StoreSet
    \/ StoreSwitch \/ StoreUnset \/ StoreRestore

-----------------------------------------------------------------------------
(* Status rounds, recovery and the power target *)

roundFrame == <<ownNumber, modemEnabled, op, wd, saved, fails>>

\* checkHealth: a modem whose radio ModemManager has disabled is not ready, but
\* one without a SIM is left alone.
\* Mutant: only the presence of the modem is looked at.
HealthyPresent == Here

Healthy == Here /\ (hw.radio # "disabled" \/ ~hw.sim)

\* checkAndPublishModemStatus, on a tick (which then drains) or after an event.
Round(tail) ==
    /\ At("select") /\ modemEnabled
    /\ m' = [m EXCEPT !.pc = IF Healthy THEN "info" ELSE "failure", !.then = "info", !.tail = tail]
    /\ UNCHANGED <<roundFrame, hw, store, smsVars, watch, smsSIMPresent, applied, csActivity, left>>

\* handleModemFailure: refused once the modem is to be off; otherwise a recovery,
\* which fails or ends in recoverySucceeded with a modem on any path.
Failure ==
    /\ At("failure")
    /\ \/ /\ IF modemEnabled /\ ~op.cancelled THEN Disturb ELSE UNCHANGED left
          /\ Goto(IF m.then = "info" THEN m.tail ELSE m.then)
          /\ UNCHANGED <<hw, store, excused>>
       \/ /\ modemEnabled /\ ~op.cancelled /\ \E p \in Paths : Appears(p)
          /\ Start(m.then) /\ UNCHANGED left
    /\ UNCHANGED <<roundFrame, stored, signal, watch, smsSIMPresent, applied, csActivity>>

\* reconcileSMSPresence with the SIM path just read, which may have failed.
Presence ==
    /\ At("info")
    /\ \/ ~Here /\ Goto(m.tail) /\ UNCHANGED <<smsSIMPresent, watch, signal, left>>
       \/ \E sim \in {hw.sim, FALSE} :
            /\ Here /\ smsSIMPresent' = sim
            /\ IF sim = hw.sim THEN UNCHANGED left ELSE Disturb
            /\ IF sim /\ ~smsSIMPresent THEN Start(m.tail) ELSE Goto(m.tail)
            /\ IF ~sim /\ smsSIMPresent THEN watch' = NoWatch /\ signal' = FALSE
               ELSE UNCHANGED <<watch, signal>>
    /\ UNCHANGED <<roundFrame, hw, store, stored, excused, applied, csActivity>>

\* Mutant: the tick relies on the signal.
PollNothing ==
    /\ At("poll") /\ Goto("select") /\ UNCHANGED <<stored, excused, csActivity, left>>
    /\ UNCHANGED <<roundFrame, hw, store, signal, watch, smsSIMPresent, applied>>

\* The tick's drain.
Poll ==
    /\ At("poll") /\ Goto("select")
    /\ IF smsSIMPresent THEN Drain(hw.path) ELSE UNCHANGED <<stored, excused, csActivity, left>>
    /\ UNCHANGED <<roundFrame, hw, store, signal, watch, smsSIMPresent, applied>>

\* disableModem, as far as the watch and the modem go.
DisableModem ==
    /\ At("select") /\ ~modemEnabled /\ applied /\ applied' = FALSE
    /\ smsSIMPresent' = FALSE
    /\ watch' = IF smsSIMPresent THEN NoWatch ELSE watch
    /\ signal' = (signal /\ ~smsSIMPresent)
    /\ hw' = [hw EXCEPT !.path = None, !.radio = "on"]
    /\ UNCHANGED <<roundFrame, store, stored, excused, m, csActivity, left>>

\* ensureModemEnabled, followed by a status round; a modem that is there and not
\* ready is power-cycled too.
EnableModem ==
    /\ At("select") /\ modemEnabled /\ ~applied /\ applied' = TRUE
    /\ \/ Healthy /\ UNCHANGED <<hw, store, excused>>
       \/ ~Healthy /\ \E p \in Paths : Appears(p)
    /\ m' = [m EXCEPT !.pc = "info", !.then = "info", !.tail = "select"]
    /\ UNCHANGED <<roundFrame, stored, signal, watch, smsSIMPresent, csActivity, left>>

-----------------------------------------------------------------------------
(* The watchdog and the refresh it asks the monitor loop for *)

refreshFrame == <<storeVars, smsVars, watch, smsSIMPresent, modemEnabled, ownNumber, applied>>

WatchdogTick ==
    /\ wd = "tick" /\ modemEnabled /\ csActivity = "idle" /\ ownNumber
    /\ wd' = "offer"
    /\ UNCHANGED <<refreshFrame, hw, csActivity, m, op, left>>

\* Mutant: a request that comes while the modem is off is not answered.
TakeRequestUnanswered ==
    /\ At("select") /\ wd = "offer"
    /\ wd' = "wait"
    /\ IF modemEnabled THEN Goto("call") /\ op' = [on |-> TRUE, cancelled |-> FALSE]
       ELSE UNCHANGED <<m, op>>
    /\ UNCHANGED <<refreshFrame, hw, csActivity, left>>

TakeRequest ==
    /\ At("select") /\ wd = "offer"
    /\ IF modemEnabled
       THEN wd' = "wait" /\ Goto("call") /\ op' = [on |-> TRUE, cancelled |-> FALSE]
       ELSE wd' = "tick" /\ UNCHANGED <<m, op>>
    /\ UNCHANGED <<refreshFrame, hw, csActivity, left>>

\* A command to the modem fails: because it is gone, or for a reason of its own.
CommandFails == IF Here THEN Disturb ELSE UNCHANGED left
Radio(state) == hw' = [hw EXCEPT !.radio = state]

\* refreshSGsViaVoiceCall: up to StartCall, then until it is hung up.
Call ==
    /\ At("call")
    /\ \/ Here /\ hw.radio = "on" /\ hw.sim /\ Goto("talk") /\ UNCHANGED left
       \/ (IF hw.radio = "on" /\ hw.sim THEN CommandFails ELSE UNCHANGED left) /\ Goto("cfun4")
    /\ UNCHANGED <<refreshFrame, hw, csActivity, op, wd>>

Talk ==
    /\ At("talk")
    /\ \/ op.cancelled /\ Goto("cfun4") /\ UNCHANGED csActivity
       \/ ~op.cancelled /\ Goto("done") /\ csActivity' = "recent"
    /\ UNCHANGED <<refreshFrame, hw, op, wd, left>>

\* refreshSGsViaCFUN4: it does not look at the context before its first command.
Cfun4 ==
    /\ At("cfun4")
    /\ LET flight == IF hw.radio = "on" THEN "flight" ELSE hw.radio
       IN  \/ Here /\ Radio(flight) /\ Goto("cfun1") /\ UNCHANGED left
           \/ CommandFails /\ Goto("radio_off")
              /\ (UNCHANGED hw \/ (Here /\ Radio(flight)))
    /\ UNCHANGED <<refreshFrame, csActivity, op, wd>>

\* AT+CFUN=1 undoes flight mode, but not what ModemManager has disabled; when the
\* command fails Enable is tried, unless the refresh was cancelled.
Cfun1 ==
    /\ At("cfun1")
    /\ \/ /\ Here /\ Radio(IF hw.radio = "flight" THEN "on" ELSE hw.radio)
          /\ Goto(IF op.cancelled THEN "radio_off" ELSE "settle") /\ UNCHANGED left
       \/ /\ ~op.cancelled /\ Here /\ Disturb /\ Radio("on") /\ Goto("settle")
       \/ /\ CommandFails /\ UNCHANGED hw /\ Goto("radio_off")
    /\ UNCHANGED <<refreshFrame, csActivity, op, wd>>

Settle ==
    /\ At("settle")
    /\ \/ (op.cancelled \/ ~Here) /\ Goto("radio_off")
       \/ ~op.cancelled /\ Here /\ Start("done")
    /\ UNCHANGED <<refreshFrame, hw, csActivity, op, wd, left>>

\* refreshSGsViaRadioCycle, which follows a cancelled CFUN cycle as well.
RadioOff ==
    /\ At("radio_off")
    /\ \/ Here /\ Radio("disabled") /\ Goto("radio_on") /\ UNCHANGED left
       \/ ~Here /\ Goto("done") /\ UNCHANGED <<hw, left>>
       \/ /\ Here /\ Disturb /\ (UNCHANGED hw \/ Radio("disabled"))
          /\ m' = [m EXCEPT !.pc = "failure", !.then = "done"]
    /\ UNCHANGED <<refreshFrame, csActivity, op, wd>>

RadioOn ==
    /\ At("radio_on")
    /\ \/ op.cancelled /\ Goto("done") /\ UNCHANGED <<hw, left>>
       \/ ~op.cancelled /\ Here /\ Radio("on") /\ Goto("reattach") /\ UNCHANGED left
       \/ /\ ~op.cancelled /\ CommandFails /\ (UNCHANGED hw \/ (Here /\ Radio("on")))
          /\ m' = [m EXCEPT !.pc = "failure", !.then = "done"]
    /\ UNCHANGED <<refreshFrame, csActivity, op, wd>>

Reattach ==
    /\ At("reattach")
    /\ \/ op.cancelled /\ Goto("done")
       \/ ~op.cancelled /\ Start("done")
    /\ UNCHANGED <<refreshFrame, hw, csActivity, op, wd, left>>

\* Mutant: the watch was armed with the operation's context.
RefreshDoneEndsWatch ==
    /\ At("done") /\ Goto("select") /\ op' = [on |-> FALSE, cancelled |-> FALSE]
    /\ wd' = "tick" /\ watch' = [watch EXCEPT !.live = FALSE] /\ signal' = FALSE
    /\ UNCHANGED <<storeVars, stored, excused, smsSIMPresent, modemEnabled, ownNumber, applied,
                   hw, csActivity, left>>

RefreshDone ==
    /\ At("done") /\ Goto("select") /\ op' = [on |-> FALSE, cancelled |-> FALSE]
    /\ wd' = "tick"
    /\ UNCHANGED <<refreshFrame, hw, csActivity, left>>

Refresh ==
    \/ Call \/ Talk \/ Cfun4 \/ Cfun1 \/ Settle \/ RadioOff \/ RadioOn \/ Reattach \/ RefreshDone

-----------------------------------------------------------------------------
Target == DisableModem \/ EnableModem
Busy == StartSMSWatch \/ Failure \/ Presence \/ Poll \/ Refresh
Next ==
    \/ World \/ HandleAdded \/ Busy \/ Target \/ WatchdogTick \/ TakeRequest
    \/ \E tail \in {"poll", "select"} : Round(tail)
Spec == Init /\ [][Next]_vars

\* The loop's select takes every case that is ready again and again (Go chooses at
\* random), calls return, a powered modem comes back and minutes pass.
Fairness ==
    /\ WF_vars(Busy) /\ WF_vars(WatchdogTick) /\ WF_vars(Reappear)
    /\ SF_vars(Target) /\ SF_vars(TakeRequest) /\ SF_vars(Round("poll"))
    /\ SF_vars(Idle)
FairSpec == Spec /\ Fairness

-----------------------------------------------------------------------------
(* Properties *)

MonPC == {"select", "info", "failure", "poll", "start", "match", "drain", "configure", "probe",
          "set", "switch", "unset", "restore", "call", "talk", "cfun4", "cfun1", "settle",
          "radio_off", "radio_on", "reattach", "done"}
HwType == [path : Paths \cup {None}, radio : {"on", "flight", "disabled"}, sim : BOOLEAN]
WatchType == [path : Paths \cup {None}, live : BOOLEAN]
\* The monitor loop; startSMSWatch and a recovery return to then.
MonType == [pc : MonPC, then : {"select", "info", "poll", "done"}, tail : {"select", "poll"},
            path : Paths \cup {None}]

\* Every variable stays within its type.
TypeOK ==
    /\ hw \in HwType /\ watch \in WatchType /\ m \in MonType
    /\ store \in StoreType /\ saved \in StoreType \cup {None} /\ fails \in 0..2
    /\ {stored, excused, signal, smsSIMPresent, modemEnabled, applied, ownNumber} \subseteq BOOLEAN
    /\ csActivity \in {"recent", "idle"} /\ wd \in {"tick", "offer", "wait"}
    /\ op \in [on : BOOLEAN, cancelled : BOOLEAN]
    /\ left \in [commands : Nat, faults : Nat]

Starting == m.pc \in {"configure", "probe", "set", "switch", "unset", "restore", "drain"}

\* A message in the store of a watched modem has its signal queued, or a call
\* about it has failed: re-arming on whatever path, between messages that arrive at
\* any moment, leaves no message to the next tick (the watch is armed before the
\* store is drained, and outlives the operation that armed it).
NoneMissed ==
    (stored /\ ~excused /\ Here /\ watch.path = hw.path /\ ~Starting) => (signal /\ watch.live)

\* A stored message is read in the end, also after its signal was lost, the watch
\* was deferred, or it was armed on a path the modem has left (the tick's drain).
StoredReceived == stored ~> (~stored \/ ~modemEnabled \/ ~hw.sim)

\* A switch of stores happens as a whole or not at all: unless they disagreed before,
\* the store the modem receives into is the one ModemManager believes in, even if a
\* call fails, with or without effect, at any of its steps; and if none fails
\* the switch is complete or nothing is changed.
StoresAgree ==
    (At("drain") /\ saved # None) =>
        /\ fails <= 1 /\ saved.receive = saved.mm => store.receive = store.mm
        /\ fails = 0 => store = saved \/ store \in {Selected(s) : s \in Stores}

\* No refresh leaves the radio off for good, wherever it was cancelled and whatever
\* of it failed: the health check or the next refresh turns it on again.
RadioRestored == hw.radio # "on" ~> (hw.radio = "on" \/ ~modemEnabled \/ ~hw.sim)

\* A registration that has been idle for too long is refreshed, by the call or by
\* something more drastic: the watchdog's request is always answered.
KeptAlive ==
    (csActivity = "idle" /\ ownNumber) ~> (csActivity = "recent" \/ ~modemEnabled \/ ~hw.sim)
=============================================================================
