# modem-service in TLA+

A verification project for `modem-service`, the daemon that runs a scooter's
cellular modem: it powers the modem and recovers it, keeps its data connection
alive, applies SIM PIN and APN settings, counts traffic, and receives, stores,
sends and forwards SMS. The modules model the logic of the service as it is in
`src/`; TLC checks them on small instances and TLAPS proves the properties that
matter most for every value of the constants.

    cd tla
    tlc -workers 2 -config LifecycleSafety.cfg MCLifecycle   # any run of PROJECT.json
    tlapm ModemLifecycleProofs.tla                           # any *Proofs.tla

`PROJECT.json` lists every run with its module and properties, a mutant for each
property (a plausible bug that the property catches), the source lines each
definition models, findings, hazards and theorems.

## Inventory

| Component | State | Operations | Interacts with |
|---|---|---|---|
| Power target and operations (`service.go`) | `modemEnabled`, a one-token channel, the registered operation and its cancel function, the applied target | command and vehicle-state handlers, `startModemOperation`, `reconcileModemTarget`, `ensureModemEnabled`, `disableModem` | every operation of the monitor; the power manager through `power:inhibits` |
| Hardware recovery (`health.go`, `gpio/`, `usb/`) | `Health`: state and attempts | `handleModemFailure`, back-off, four-rung `attemptRecovery` | called by health check, remedies, GPS, SMS refresh |
| Monitor loop (`service.go`) | locals of `monitorStatus` | select over ticks, events, target changes; `checkAndPublishModemStatus` | calls PIN, APN, link assessment, usage in this order |
| Shutdown (`service.go`) | service context, `monitorDone`, `forwardDone` | waits for forwarder, monitor, SMS watch and `Location.Close`, flush, release, close | all goroutines |
| SMS reception and inbox (`sms/`) | modem store, `deliveredUndeleted`, SQLite tables | drain, deliver, record, delete, list, delete commands | forwarding (one transaction records and queues) |
| SMS forwarding (`sms/`, `sms_forward.go`) | jobs, daily budget, destination | settings handler, reserve, send, finish, recover | inbox, sending |
| SMS sending (`sms/manager.go`) | `Manager.mu`, the outbound object | create, send, delete | receiver (shares the lock) |
| Data usage (`datausage/`) | totals, last reading, dirty flag, file | observe, flush, backstop, load | status round, disable, shutdown |
| Link assessment (`modem/link/`, `service.go`) | flap count, ladder, confirmation, cooldowns | `Assess`, `handleAssessment`, `applyRemedy` | recovery, APN reattach, NetworkManager |
| SIM PIN (`sim/`) | `triedThisRun` | `Reconcile` | the SIM |
| APN reconciliation (`apn/`) | pending rollback, last applied, blocked SIM, attempts | `Reconcile`, `apply`, `rollback`, `Reattach` | NetworkManager, ModemManager, CID1 of the modem |
| Connectivity classifier, probe | debounce state, probe interval | `Classify`, `Force`, probe | publication |
| Location and GPS (`location/`, `service.go`) | gpsd session, fix and its freshness, readiness for a mode switch, two watchdog clocks | enable, reuse, configure, connect, switch mode, recover, close | recovery ladder, shutdown, clock coordinator |
| SMS watch (`service.go`, `mm/watch.go`) | installed watch, presence of the SIM | arm, cancel, drain on a tick | receiver, lifecycle |
| SMS storage switch (`sms_storage.go`) | receive store of the modem, ModemManager's default | probe, switch, restore | SMS watch |
| Registration keepalive (`service.go`) | last circuit-switched activity, own number | watchdog, self-call, CFUN cycle, radio cycle | monitor loop, SMS watch |
| Clock coordinator client, cell positioning, Redis and ModemManager clients, publication, configuration | mostly none | transport and parsing | all |

What is hard in this code:

* **Concurrency.** Command and settings watchers, the monitor, the forwarder and
  shutdown run as goroutines. They share atomics, one channel of capacity one
  and a registered cancel function; several decisions are "check, then act".
* **Failure.** D-Bus and AT calls fail with or without effect; deletions, writes
  and commits fail half-way through a sequence.
* **Crashes.** systemd restarts the process at any point; only the database, the
  usage file, the modem and NetworkManager's state survive.
* **Identity.** Paths of SMS, bearer and modem objects are reused or change.
* **Time.** The wall clock is wrong until it is synchronised; budgets,
  retention, cooldowns and retries depend on it.

What makes each component correct: the hardware follows the last target and a
cancelled operation stops; suspend is permitted only when it is safe; no message
is lost, recorded twice or forwarded twice; no byte is counted twice; a remedy
needs evidence and escalates from the cheapest; no SIM is driven to its PUK; a
failed APN change is undone completely; a GPS pipeline that stops is restarted,
and an old position is not shown as a current one; whatever re-arms the SMS
watch, refreshes the registration or switches stores, messages keep coming in.

## Modules

`ModemLifecycle`, `SmsWatch`, `Gps`, `DataUsage`, `SimPin`, `LinkRemedy` and
`ApnTransaction`, and `SmsStore`, extended by `SmsService`, which implements
`Mailbox`. The theorems of each are in a `*Proofs` module of their own (`SmsProofs`,
`LinkProofs` and `ApnProofs` for the last ones). Each `MC*` module gives a
specification its finite constants. Operators whose comment begins with "Mutant" are the altered
forms that `PROJECT.json` lists; no action uses them.

### ModemLifecycle

Four threads of control: the command handler `cpc`, the vehicle-state handler
`vpc`, the monitor `mpc` (with the start-up part of `Run`, which precedes it)
and shutdown `rpc`. A step is the code between two points at which another
goroutine can see or change shared state: storing the target, adding the
inhibitor, reading the cancel function and calling it are separate steps, as
they are in the handler. `modemOpGeneration`, `modemOpCancel` and `cancelled`
are the operation registry; an operation started inside the SMS refresh is
nested (`outerOp`). A wait inside an operation ends by itself or by
cancellation. Rungs of the ladder are steps that first look at the context
where the code does (`RecoverGpioOn`, for instance, does not: power comes back
on once it was cut). A step of `disableModem` may fail, is logged, and the next one
follows. In the `WatchStates` the monitor is in `startSMSWatch`, which holds
`smsWatchMu` across its D-Bus calls. Shutdown has a step for each thing it waits
for: the forwarder, the monitor (ten seconds), that lock, and `Location.Close`.
`lateSteps`, `exhausted` and `disableFailed` (what the disable under way has tried in
vain) are history variables.

`recoveryRunMu` is left out: only the monitor takes it. GPS recovery is present
as one more reason to enter the ladder, and the SMS refresh as an operation with
one body, which `SmsWatch` takes apart. The Redis writes of the inhibitor are taken to
succeed; publications are left out.

### SmsStore and SmsService

`SmsStore` has the SQLite tables as variables and each transaction as an
operator; a transaction is atomic. `SmsService` has the goroutines: receiver,
command sender, forwarder and settings watcher, with `Manager.mu` as a variable
and `forwardMu` held exactly while the forwarder is not idle. The modem's store
maps object paths to messages or outbound objects. Crash, stop and start,
ModemManager restarts that renumber objects, failing calls and a wall clock that
lags by `ClockSkew` until it is synchronised are steps of the environment.
`created`, `transmitted`, `charged` (the segments sent on the account of each day) and
`arrivedAt` are history variables; a message is a model value whose relevant
content is a record.

### Mailbox

What reception promises: a message arrives, is put on record once, and is removed
from the modem once it is on record (or needs no record). `SmsService` has it as
`Promise`, an instance in which `arrived` is what has an arrival time, `held` what
the modem has an object for, and `recorded` the history of created entries. Two
sentences follow from `Mailbox`: `NothingLost` and `RecordedOnce`.

### SmsWatch

The monitor loop `m` runs `reconcileSMSPresence`, `startSMSWatch`, the tick's drain,
`recoverFullSMSStorage` and the refresh, with a step for every call that can fail;
`m.path` is the path that `startSMSWatch` found first, which the modem may have left
since. The signal's dispatcher, the watchdog `wd` and the handler of commands run
beside it. `watch` is what the bus has been asked for (it accepts a match for a path
that is gone), and `signal` what is queued in its channel. A message is stored or
not: what becomes of one that is read is `SmsService`'s. `hw.radio` tells flight mode
from a modem that ModemManager has disabled, which is what the health check sees.
`excused` and `fails` are history: a call about the message, or of the switch, has
failed. The own number is known or not; which SIM it belongs to is left out.

### Gps

The location monitor `loc` (the goroutine of `EnableGPS`), the gpsd readers, the
service's monitor loop `m` and `Run` at shutdown, with `configMutex` and
`lifecycleMu` as variables. `Location.Close` has its own progress per caller,
because it waits three times: for the lock, the goroutine and the reader. Time is
what the code compares: the last report is none, fresh or older than
`gpsNoDataTimeout`, and a fix is recent or older than `GPSTimeout`. Seconds pass
only while every goroutine waits for something that takes as long. A receiver
that is reusable runs with the antenna power and the mode that `reuseEligibility`
asks for. Only the standalone mode occurs, as `enableUEBasedMode` is false. Every
publication of the position may fail: by a tick it is repeated, by a disable it is
lost (`offLost`). A modem that does not come up is given up (`gaveUp`) until the next
disable.

### DataUsage

`Observe`, `Flush`, `Backstop` and `load`. The program sees a bearer path and two
counters; `carried` is the truth, and the ledgers keep what was read of it: the last
reading of the present session and those of all earlier ones. Two sessions may
share a path, which hides bytes from any observer of path and counters: `Exact`
is therefore about sessions with paths of their own, `NeverOvercounts` about
all. Counters are mathematical naturals: 64 bits do not overflow.

### LinkRemedy

A check takes a snapshot, assesses it and, as a later step, handles the verdict,
so that commands may come in between. Each field of a snapshot has the values
the rules of `checkLocal` tell apart, "unknown" among them. Durations and
counters that are only compared with a threshold saturate there.

### SimPin

A tick reads the SIM and then acts on what it read, with at most one call; the
setting and the SIM may change in between, and a reply may be lost with the try
spent. A SIM starts with all its tries.

### ApnTransaction

Every call to `nmcli` or the modem is a step of `ApplySteps` or `RollbackSteps`.
A call that fails may have had its effect; a write may be acknowledged and lost
(which is what the read-backs are for); an activation may rewrite CID1.
NetworkManager activates a profile that has autoconnect by itself, at any time.
`w` has the profile in memory and on disk, the policy, the attach settings, CID1
(by its APN) and whether the modem is registered and the connection up. All four
settings change at once. A SIM swap, a crash, a cancellation and NetworkManager's
activation may come at any call; a remedy, a recovery and a new modem path only
between transactions. The first two are the monitor's own work, which a transaction
keeps busy; a modem that resets by itself in the middle of one is left out.

## Runs

Deadlock is checked in every run. The only steps that an `MC` module adds are the
stuttering of a process that has exited and of a monitor that rightly waits with
nothing left to come (`MCLifecycle`, `MCGps`, `MCSmsWatch`).

| Run | Instance | Shows |
|---|---|---|
| LifecycleSafety | 2 attempts, a command, a signal, 2 ticks, failing GPIO and flush, after the signal a monitor that may hang; fair | GuardedOperationsCancelled, AtMostOneLateStep, HealthMatchesMonitor, ShutdownBounded |
| LifecycleTarget | 1 attempt, 3 commands, failing flush; fair | TargetReached, ReleaseOnlyWhenSafe, TargetSettles |
| SmsReceive | 3 messages (one multipart, one report), 2 slots, 2 failures, 2 crashes, a send; fair | InFlightSpared, ImplementsMailbox, ReceivedEventually |
| SmsForward | either 2 messages (1 and 2 segments, limit 2), 2 destinations, 2 setting changes, a crash, a failure, 2 days; or 1 message, a crash, a setting, objects renumbered, a deletion, a clock that is set | ForwardedAtMostOnce, BudgetCoversSends, QueuedIsDue, ForwardToCurrent |
| SmsWatch | 2 modem paths; either 2 commands and a fault, or 2 faults, or a command; fair | NoneMissed, StoresAgree, StoredReceived, RadioRestored, KeptAlive |
| GpsPipeline | 2 disturbances, 2 configuration attempts, 1 recovery before the long break; fair | ClosedHasNoFix, ModeNeedsSession, WatchdogArmed, PipelineRecovers, StalePositionWithdrawn, ShutdownCompletes |
| UsageTotals | 2 bytes each way, 3 sessions, 3 paths (symmetric), 2 crashes or lost files, 1 failed write | NeverOvercounts, Exact, CleanIsPersisted |
| LinkPolicy | 7 snapshots, 2 flaps, 2 confirmations; fair | Confirmed, CheapestFirst, PersistentFaultTreated |
| PinTries | 2 PINs, SIMs with 3 and 5 tries, a swap, 2 restarts, 3 failures, 2 setting changes; fair | SparesTries, RejectedOnce, RightPinUnlocks |
| ApnSafety | 2 settings, 2 SIMs and 2 modem paths (symmetric), 2 failures, a cancellation, 2 swaps, a crash or reboot, a recovery, limit of 2 attempts | QuietWhileWriting, NoForeignCredentials, RollbackRestores, AutoconnectPreserved, CommitValidated |
| ApnConverges | 3 settings, a change of settings, 2 failures, 3 attempts; fair | Converges |
| LifecycleInhibitor | 2 commands | InhibitorWhilePowered is violated |

Why the bounds are enough: each is the smallest at which the case it is
about happens, plus one where TLC's time allows it. One command and a signal put
a disable and a cancelled context at any step of an operation (the invariants of
LifecycleSafety are also proved, for any number of commands); three commands
give the sequences in which a late inhibitor is added. Two APN failures are one
in `apply` and one in its rollback, which is what keeps a snapshot pending; two
SIM swaps bring the first SIM back. Two crashes allow a crash during recovery
from the first. Three usage sessions let a path come back after another one.
A disturbance of `Gps` is anything that is not the normal course: two are one
that starts a recovery and one that meets it, and one recovery reaches the long
break. In `SmsWatch` a scenario has a disable and enable at any two points of a
refresh with a failing call in it, or two failures: a switch of stores and its
restore, a vanished modem and a failing recovery. The recovery limit is not
reached there; that is the lifecycle's matter.
Limits (inbox, segments, attempts, cooldowns) are reduced so that they are
reached; the code compares them only with `<` and `>=`. Symmetry is used where
the values are only compared with one another, and only in runs without liveness.

### Fairness

AT commands and the calls of the APN manager have time-outs; the other D-Bus calls
(`mm/client.go`) have none. The models take them to return, with or without an error,
as they do while ModemManager or the bus answers. Where the code itself provides for
a call that does not, at shutdown, nothing is assumed.

* `ModemLifecycle`: weak fairness of each goroutine; Go's scheduler is fair. The
  monitor is fair only until the service context is cancelled: from then on it may
  hang in a call, which the ten seconds of `Run` are there for. That the forwarder and
  `Location.Close` return is not assumed either. No fairness of commands, ticks
  or signals.
* `SmsService`: weak fairness of the receiver (it drains on every tick), of
  sends and the forwarder (their calls return), of systemd's restart,
  and of the arrival of missing parts. Failures and crashes are finitely many.
* `SmsWatch`: weak fairness of the loop's current body, of the watchdog and of a
  powered modem that comes back; strong fairness of the cases of the loop's select
  (a status round, a command, the request) and of minutes that pass while it waits:
  Go picks a ready case at random, so that one that is ready again and again is
  taken. Faults are finitely many; commands are not required.
* `Gps`: weak fairness of both loops, of `Close`, of the reader, and of time
  (AT commands and dials have time-outs). A receiver that runs reports
  something, with a fix or without; one that falls silent all the same is a disturbance.
* `LinkRemedy`: the ticker, the end of a check and the passage of time.
* `SimPin`: weak fairness of the tick and strong fairness of a successful read
  and call: they may fail again and again, and not for ever.
* `ApnTransaction`: ticks, the return of calls and the retry delay.

## Findings

A run shows that the code does something else than a line of its documentation
says; the property states what that line claims, and `PROJECT.json` quotes it.

* LifecycleInhibitor: an enable handled while the monitor is disabling adds the
  inhibitor, the monitor then removes it, and the modem runs without one.

The models have more such behaviours, each reached by TLC once the bounds allow
the disturbance it needs, and each noted with its hazard in `PROJECT.json`:

* lifecycle: a disable between the check of the target and the registration of
  an enable or recovery cancels nothing; a slow monitor observes usage after the
  final flush; a command during shutdown leaves the inhibitor behind; a disable whose
  GPIO request or write of the usage fails permits suspend all the same; the ten
  seconds that shutdown gives the monitor do not bound it ("Bounded so shutdown stays
  snappy", service.go:382), as a monitor that hangs in `startSMSWatch` holds the lock
  that `stopSMSWatch` needs next (`ShutdownBounded` names this wait and `Location.Close`);
* SMS: equal messages without timestamps share an identity, so that one on the
  path of a failed deletion is dropped; a copy that ModemManager renumbers is
  recorded twice; a send after midnight goes on yesterday's account; a clock that
  is not yet set lets old messages be forwarded and new ones expire;
* link: the ladder advances for a bounce that a disable suppressed ("Only a remedy that
  actually ran advances the ladder", service.go:2017), and evidence from before a power
  cycle confirms a failure after it;
* SMS watch: a cancelled refresh goes through its remaining ways and leaves the radio
  disabled until the modem is enabled again; a watch that could not be armed stays
  unarmed until the presence of the SIM changes, and only the tick's drain receives;
  the own number outlives a change of the SIM;
* GPS: a fix that has become too old is not cleared by the reconnect it causes, so
  that each new session is dropped at once unless a fix comes within it; a mode switch
  can start a receiver that has lost its antenna power in a reset; turning `modem.gps`
  off, a modem that is given up, and a disable whose publication fails leave the last
  position marked as active;
* APN: the original autoconnect policy is in memory only, so that after a crash inside
  a transaction the suspended policy is taken for it and committed (README.md:88-90
  says otherwise); a rollback that fails after its commit keeps its snapshot with autoconnect
  restored, a blocked SIM hides it, and a transaction that a crash leaves
  half-way can be reported as ok; a SIM that is swapped during a transaction has its
  predecessor's settings written back by the rollback, and one that is swapped while
  the service is down has them read as its own.

The passing runs of these properties leave out just that disturbance: distinct
timestamps, stable paths, a clock that is set; `AutoconnectPreserved` is about a
process that has not crashed, `NoForeignCredentials` about the SIM that was inserted
when the settings were read, `RollbackRestores` about profile, policy and CID1 but not
ModemManager's attach settings, and `ReleaseOnlyWhenSafe`, `PipelineRecovers` and
`StalePositionWithdrawn` name their exceptions.

## Proofs

Every safety invariant and action property of a passing run is stated by a theorem.
The theorems hold for every value of the constants, from the `ASSUME`s of the
module. These say no more than that bounds are natural numbers (limits positive),
that constants have their types and that `None` is no ordinary value; `SimPin` also
assumes `MinRetries >= 2` (it is 3, `sim/manager.go:30`) and that a SIM grants at least that many
tries. What a theorem needs beyond them is a hypothesis that it states:

| Hypothesis | Of | Why |
|---|---|---|
| `Distinct`, `NoRestarts` | the three theorems on reception | equal messages share an identity, and renumbered objects are taken for new ones (Findings) |
| `Confirmations > 1` | RemediesAreConfirmed | with one there is nothing to confirm; `remedyConfirmations` is 2 |
| `PoliciesAgree` | PolicySurvives | the profile that the service finds is not suspended already, as it is after a crash inside a transaction (Findings) |

None of the others needs any: forwarding, for one, is proved with restarts of
ModemManager and equal messages. A property is seldom inductive; what follows
names the invariant that is, and what it adds.

* **TypeCorrect** (`Spec => []TypeOK`). `TypeOK` is not inductive: a counter that
  is incremented needs to be below its limit. `TypeInv` adds `CountersGuarded`,
  which says that it is wherever an increment comes next.
* **GuardedCancellation** (`Spec => []GuardedOperationsCancelled`). `CancelInv`
  follows a disable through its handler: the operation of an APN transaction or
  remedy is the registered one (`RegisteredFirst`), and from the store of the
  target to the call of its cancel function the handler is on the way to this
  very operation (`CancelUnderWay`). It rests on the order "register, then
  read the target", and fails for the operations that do it the other way.
* **HealthAgreement** (`Spec => []HealthMatchesMonitor`), inductive as it stands,
  given `TypeInv`.
* **BoundedLateSteps** (`Spec => []AtMostOneLateStep`), about enabling and the ladder,
  not the commands of a refresh. `LateInv`: a late step
  means that the context is done, which stays so, and the states before a rung
  that does not look at the context have had none.
* **SafeRelease** (`Spec => ReleaseOnlyWhenSafe`). `OffBeforeRelease`: once the monitor
  has powered off, the modem stays off, and once it has flushed, nothing is
  observed, until it removes the inhibitor, unless the same disable has failed in the
  one or the other. Nobody else does either.
* **NoCommandLost** (`Spec => []TargetReached`): the safety behind `TargetSettles`.
  `TargetInv` claims nothing while a handler is at work or its token is in the
  channel, and a token is taken only by a monitor that then reads the target.
  Otherwise a disabled modem is on its way through `disableModem` or through with it
  (`OffKept`), and an enabled one is being enabled by an operation that nobody has
  cancelled (`OnKept`): it is new, as `Nesting` and `Registered` tell about the registry.
* **UsageTypeCorrect** and **UsageNeverOvercounts**
  (`Spec => []NeverOvercounts`). The totals alone are not inductive.
  `NoOvercountInv` adds what the next reading would add: for the running counter
  and for one that is loaded from the file, totals plus that difference never
  exceed what was carried.
* **UsageIsExact** (`Spec => []Exact`) and **CleanTotalsArePersisted**. `ExactInv`: the
  totals in memory are those of `ledger`, the ones in the file those of `fileLedger`,
  and the baseline of each is its entry for the present session, if its path is
  this session's. A path that was never used before is no baseline's (`Known`), so
  that a new session starts from zero.
* **PinSparesTries** (`Spec => []SparesTries`). `PinInv` adds types, the limit
  that every SIM in play has, and that what a tick has read is still true of the
  SIM if it is the same one (`InputFresh`). **PinRejectedOnce** is an action property
  of the same invariant.
* **ReceptionIsMailbox** (`Spec => ImplementsMailbox`), **SendIsSpared**
  (`Spec => []InFlightSpared`) and **NothingLostOrDoubled** (the two sentences of
  `Mailbox`). None of them is inductive. `ReceiveInv` says who owns an object: a
  receiver or sender between two steps of its work holds `mu` (`Locks`), and what
  the receiver is about to delete is on record and still at its path (`InHand`);
  and it says that what is known of a path, in the database or in memory, is about a
  message on record (`Ledger`). So a message that is not recognised is new, and one
  whose copy is deleted is on record. Every action is then a step of `Mailbox`
  or changes nothing that it sees.

* **NeverForwardedTwice**, **SendsAreBudgeted**, **WaitingIsDue**, **SentToTheSetting** and
  **SmsTypeCorrect**, all from `ForwardInv`. What was sent is no longer queued
  (`SentStay`), and no transaction of the store puts a row back into the queue
  (`Follows`, the lemma that each of them is shown to satisfy). The job in hand is for the
  setting and left the queue before it is sent (`InTransit`); its segments were put on
  the account before (`Covered`). Settings in memory and in the database agree unless
  forwarding is off (`Agreement`), and whatever waits is for the stored one
  (`WaitingForIt`).
* **WatchMissesNone** (`Spec => []NoneMissed`) and **StoresStayInAgreement**
  (`Spec => []StoresAgree`), from `WatchInv`: a watch that has a path is live (`Paired`), and
  `Progress` says what a switch has changed at each of its steps, as long as at most one
  of its calls has failed.
* **CloseLeavesNoFix**, **ModeHasSession**, **WatchdogStaysArmed** and **GpsTypeCorrect**, from
  `GpsInv`. The holder of each lock is between taking and releasing it
  (`LocksHeld`), so that a session ends only where no mode switch can be under way
  (`Sessions`); and what `Close` has taken down stays down until GPS is enabled,
  which happens under the lock that `Close` holds (`Closed`).
* **RemediesAreConfirmed**, **BounceComesFirst** and **LinkTypeCorrect**, from `LinkInv`: evidence
  of a layer means that the last assessment failed there (`Evidence`), and whoever
  stands on a higher rung has had a bounce since the last steady session, the
  verdict that is still to be handled included (`Ladder`), one that was suppressed
  as well.
* **WritesAreQuiet**, **SnapshotIsOfItsSim**, **PersistsWhatWasRead**,
  **CompleteRollbackRestores** and **ApnTypeCorrect**, from `ApnInv`; **PolicySurvives** from it
  and `PolicyKept`. A transaction first takes the profile out of NetworkManager's
  hands (`Quiet`), so that what it has read back stays as it is until it is
  persisted (`ReadBack`); the snapshot it may return to was read for its own SIM
  (`OwnSnapshot`) and holds the policy that is on disk (`PolicyKept`).

Left to TLC is liveness: ShutdownBounded, TargetSettles,
ReceivedEventually, StoredReceived, RadioRestored, KeptAlive, PipelineRecovers,
StalePositionWithdrawn, ShutdownCompletes, PersistentFaultTreated, RightPinUnlocks and
Converges. This prover handles neither fairness in such arguments nor `ENABLED`.
TLC checks no `TypeOK` in a listed run, as the theorems do; it can be added to
the `INVARIANTS` of any run of its module. `SmsWatch` proves the part of its
`TypeOK` that the argument needs (`WatchTypes`). No module uses RECURSIVE operators,
which would cost the provers their SMT backend.

## Not modelled

The connectivity classifier, the Internet probe and the publication caches: their
results are published and decide nothing else (the classifier would choose the
GPS mode if `enableUEBasedMode` were true). Cell positioning and the submission of
the GPS time are one request each. The D-Bus, AT and Redis clients are transport:
their calls appear as steps of the models that use them, with the ways in which
they fail. A failing Redis (but for the GPS fault and position), a file system that
reorders writes, and authentication state inside the modem (which cannot be read
back) are not modelled; nor are, of GPS, ModemManager's location sources, the
recovery notification and the time to first fix. Parsing and formatting are left
out. `PROJECT.json` lists hazards in these parts with a note.

## Plan

1. The safety behind the other liveness properties, as `TargetReached` is for the
   lifecycle: what a receiver, a GPS loop or an APN retry that waits has left undone.
2. Compositions: lifecycle, forwarder and `Gps` (the waits of `Run` for `forwardDone` and
   `Location.Close`, which `ModemLifecycle` leaves open); APN and link remedies (a failed
   reattach that no remedy repairs).
