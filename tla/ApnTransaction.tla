--------------------------- MODULE ApnTransaction ---------------------------
(***************************************************************************)
(* Reconciliation of the APN settings (apn.Manager): a transaction over     *)
(* NetworkManager's profile, ModemManager's attach settings and the modem's *)
(* CID1, with a rollback when one of its calls fails.                       *)
(*                                                                          *)
(* Every call to nmcli or the modem is one step.  A call that fails may     *)
(* have had its effect, and a write may be acknowledged without one.  The   *)
(* operation may be cancelled, the process may crash and NetworkManager may *)
(* activate the profile by itself between any two steps.                    *)
(***************************************************************************)
EXTENDS Naturals, Sequences

CONSTANTS
    Configs,           \* settings a user may choose, Empty among them
    ICCIDs,            \* SIM cards
    ModemPaths,        \* D-Bus paths the modem object may have
    Profiles,          \* states the world may be in when the service starts
    MaxApplyAttempts,  \* maxApplyAttempts (3 in the code)
    None,              \* absence of a value
    Bounds             \* bound: occurrences of each kind of disturbance

\* login stands for user name and password.
ConfigType == [apn : STRING, login : STRING, auth : {"none", "pap", "chap"}]
Empty == [apn |-> "", login |-> "", auth |-> "none"]
Disturbances == {"failures", "cancels", "crashes", "settings", "swaps", "recoveries"}

ASSUME ConfigAssumption ==
    Empty \in Configs /\ \A c \in Configs : DOMAIN c = {"apn", "login", "auth"}
ASSUME AttemptsAssumption == MaxApplyAttempts \in Nat \ {0}
ASSUME NoneAssumption == None \notin ICCIDs \cup ModemPaths
ASSUME BoundsAssumption == Bounds \in [Disturbances -> Nat]

VARIABLES
    w,                    \* what the service changes (see WorldType)
    iccid, path, desired, \* the inserted SIM, the modem object, the settings
    pending,              \* snapshot an incomplete rollback has kept, or None
    last,                 \* lastApplied: SIM, modem, settings and CID1
    blocked,              \* SIM and settings that a swap has cleared
    retry,                \* input of the attempt sequence, attempts, waiting for retryAt
    tx,                   \* the running transaction, or None
    outcome,              \* of the last Reconcile: modem.apn-action
    left                  \* what is left of Bounds

inputVars == <<iccid, path, desired>>
managerVars == <<pending, last, blocked, retry>>
vars == <<w, inputVars, managerVars, tx, outcome, left>>

Use(kind) == left[kind] > 0 /\ left' = [left EXCEPT ![kind] = @ - 1]

-----------------------------------------------------------------------------
(* Settings.  CID1 is represented by its APN; "absent" is a missing context *)
(* and "operator" one that the network or an activation has put there.      *)

\* What the profile stores: everything but the kind of authentication.
Profile(c) == [apn |-> c.apn, login |-> c.login]
Contexts == {c.apn : c \in Configs} \cup {"absent", "operator"}

WorldType ==
    [mem : {Profile(c) : c \in Configs}, disk : {Profile(c) : c \in Configs},
     auto : BOOLEAN, diskAuto : BOOLEAN,   \* the autoconnect policy
     active : BOOLEAN,                     \* the connection is up
     mm : Configs,                         \* ModemManager's attach settings
     cid : Contexts, registered : BOOLEAN]

StateType == [autoconnect : BOOLEAN, active : BOOLEAN]
InputType == [iccid : ICCIDs, path : ModemPaths, desired : Configs]
SnapshotType == [nm : {Profile(c) : c \in Configs}, mm : Configs, cid : Contexts,
                 of : ICCIDs \cup {None}]
PendingType == [before : SnapshotType, state : StateType, iccid : ICCIDs]

ASSUME ProfilesAssumption == Profiles \subseteq WorldType
ASSUME NoRecordAssumption == None \notin PendingType

\* All that a transaction writes; of is the SIM it was read for, a history.
Snapshot(nm, mm, cid, of) == [nm |-> nm, mm |-> mm, cid |-> cid, of |-> of]
Written(c) == Snapshot(Profile(c), c, c.apn, None)

\* readCurrent.
readCurrent == Snapshot(w.mem, w.mm, w.cid, iccid)

-----------------------------------------------------------------------------
(* The calls *)

\* The worlds a call may leave when it does what it is asked to.
Effect(step, target, autoconnect) ==
    CASE step = "suspend"    -> {[w EXCEPT !.auto = FALSE]}
      [] step = "disconnect" -> {[w EXCEPT !.active = FALSE]}
      [] step = "deregister" -> {[w EXCEPT !.registered = FALSE]}
      [] step = "writeNM"    -> {[w EXCEPT !.mem = target.nm]}
      [] step = "writeMM"    -> {[w EXCEPT !.mm = target.mm]}
      [] step = "writeCID"   -> {[w EXCEPT !.cid = target.cid]}
      [] step = "reattach"   -> {[w EXCEPT !.registered = TRUE]}
      [] step = "connect"    -> {[w EXCEPT !.active = TRUE, !.cid = c] :
                                   c \in {w.cid} \cup (IF w.mem.apn = "" THEN {"operator"} ELSE {})}
      [] step = "commit"     -> {[w EXCEPT !.disk = w.mem, !.auto = autoconnect,
                                           !.diskAuto = autoconnect]}
      [] OTHER               -> {w}

\* Mutant: the connection goes down before NetworkManager is kept from retrying.
ApplyStepsLateSuspend ==
    <<"disconnect", "deregister", "suspend", "writeNM", "writeMM", "writeCID", "writeAuth",
      "readCID", "readNM", "reattach", "connect", "recheck", "commit">>

ApplySteps ==
    <<"suspend", "disconnect", "deregister", "writeNM", "writeMM", "writeCID", "writeAuth",
      "readCID", "readNM", "reattach", "connect", "recheck", "commit">>

RollbackSteps ==
    <<"suspend", "disconnect", "deregister", "writeNM", "writeMM", "writeAuth", "writeCID",
      "readCID", "readNM", "commit", "reattach", "connect">>

Step == (IF tx.phase = "apply" THEN ApplySteps ELSE RollbackSteps)[tx.n]
Target == IF tx.phase = "apply" THEN Written(tx.cfg) ELSE tx.before
Effects == Effect(Step, Target, tx.state.autoconnect)

\* Mutant: only the rollback reads back what was written.
PassesUnread ==
    CASE tx.phase = "apply" -> TRUE
      [] Step = "readCID"   -> w.cid = Target.cid
      [] Step = "readNM"    -> w.mem = Target.nm
      [] OTHER              -> TRUE

\* Whether a value that is read back is the one that was written.
Passes ==
    CASE Step = "readCID" -> w.cid = Target.cid
      [] Step = "readNM"  -> w.mem = Target.nm
      [] Step = "recheck" -> tx.cfg = Empty \/ w.cid = Target.cid
      [] OTHER            -> TRUE

\* A write that is acknowledged and lost, or an activation that rewrites CID1.
Acknowledged ==
    \/ Step \in {"writeNM", "writeCID"} /\ w' = w
    \/ Step = "connect" /\ w' = [w EXCEPT !.active = TRUE, !.cid = "operator"]

-----------------------------------------------------------------------------
(* Reconcile *)

Input == [iccid |-> iccid, path |-> path, desired |-> desired]

\* The attempt sequence starts anew with every change of the input.
Sequence ==
    IF retry.input = Input THEN retry
    ELSE [input |-> Input, attempts |-> 0, waiting |-> FALSE]

clearSIM == last.iccid # None /\ last.iccid # iccid
Blocked == ~clearSIM /\ blocked.iccid = iccid /\ blocked.config = desired
Unblocked ==
    IF ~clearSIM /\ blocked.iccid = iccid THEN [iccid |-> None, config |-> Empty] ELSE blocked
Wanted == IF clearSIM THEN Empty ELSE desired

\* Nothing to do for cfg: the profile, CID1 and the attach settings have it.
InEffect(cfg) ==
    LET verified == last.iccid = iccid /\ last.path = path /\ last.config = cfg
    IN  /\ w.mem = Profile(cfg)
        /\ \/ w.cid = cfg.apn
           \/ cfg = Empty /\ (w.cid \in {"", "absent"} \/ (verified /\ w.cid = last.cid))
        /\ w.mm = cfg \/ verified

Matches == Sequence.attempts = 0 /\ pending = None /\ InEffect(Wanted)

\* recordSuccess for SIM i, modem p and settings cfg, and the block after a swap.
Succeed(in, cfg, cleared, cid, result) ==
    /\ last' = [iccid |-> in.iccid, path |-> in.path, config |-> cfg, cid |-> cid]
    /\ retry' = [input |-> in, attempts |-> 0, waiting |-> FALSE]
    /\ outcome' = IF cleared THEN "iccid-changed-cleared" ELSE result

\* No object, invalid settings, or a failure to read the current ones.
ReconcileRefused ==
    /\ tx = None /\ Use("failures")
    /\ outcome' = "error"
    /\ \/ UNCHANGED <<retry, blocked>>
       \/ ~Blocked /\ retry' = Sequence /\ blocked' = Unblocked
    /\ UNCHANGED <<w, inputVars, pending, last, tx>>

ReconcileBlocked ==
    /\ tx = None /\ Blocked
    /\ outcome' = "unconfigured" /\ retry' = Sequence
    /\ UNCHANGED <<w, inputVars, pending, last, blocked, tx, left>>

ReconcileMatches ==
    /\ tx = None /\ ~Blocked /\ Matches
    /\ Succeed(Input, Wanted, clearSIM, w.cid, IF Wanted = Empty THEN "unconfigured" ELSE "ok")
    /\ blocked' = IF clearSIM THEN [iccid |-> iccid, config |-> desired] ELSE Unblocked
    /\ UNCHANGED <<w, inputVars, pending, tx, left>>

\* Mutant: the last attempt is never made.
ExhaustedEarly == Sequence.attempts + 1 >= MaxApplyAttempts

Exhausted == Sequence.attempts >= MaxApplyAttempts

ReconcileWaits ==
    /\ tx = None /\ ~Blocked /\ ~Matches
    /\ Exhausted \/ Sequence.waiting
    /\ outcome' = "error" /\ retry' = Sequence /\ blocked' = Unblocked
    /\ UNCHANGED <<w, inputVars, pending, last, tx, left>>

\* Mutant: the policy is read again from the suspended profile.
PolicyReadAgain == [autoconnect |-> w.auto, active |-> w.active]

\* State, unless an incomplete rollback has kept the original.
Policy ==
    IF pending = None THEN [autoconnect |-> w.auto, active |-> w.active] ELSE pending.state

\* Mutant: the snapshot of an incomplete rollback is used for any SIM.
RestorePointOfAny == IF pending # None THEN pending.before ELSE readCurrent

\* The state a rollback returns to.
RestorePoint ==
    IF clearSIM \/ (pending # None /\ pending.iccid # iccid) THEN Written(Empty)
    ELSE IF pending # None THEN pending.before ELSE readCurrent

\* apply, up to its first call that changes anything.
ReconcileApply ==
    /\ tx = None /\ ~Blocked /\ ~Matches /\ ~(Exhausted \/ Sequence.waiting)
    /\ retry' = Sequence /\ blocked' = Unblocked
    /\ pending' = [before |-> RestorePoint, state |-> Policy, iccid |-> iccid]
    /\ tx' = [phase |-> "apply", n |-> 1, in |-> Input, cfg |-> Wanted, clear |-> clearSIM,
              before |-> RestorePoint, state |-> Policy,
              changed |-> pending # None \/ clearSIM, detached |-> pending # None,
              failed |-> FALSE, broken |-> FALSE, cancelled |-> FALSE]
    /\ UNCHANGED <<w, inputVars, last, outcome, left>>

\* State fails: an attempt is counted, and there is nothing to roll back.
ReconcileStateFails ==
    /\ tx = None /\ ~Blocked /\ ~Matches /\ ~(Exhausted \/ Sequence.waiting)
    /\ Use("failures")
    /\ retry' = [Sequence EXCEPT !.attempts = @ + 1, !.waiting = TRUE]
    /\ outcome' = "error" /\ blocked' = Unblocked
    /\ UNCHANGED <<w, inputVars, pending, last, tx>>

Reconcile ==
    \/ ReconcileRefused \/ ReconcileBlocked \/ ReconcileMatches \/ ReconcileWaits
    \/ ReconcileApply \/ ReconcileStateFails

-----------------------------------------------------------------------------
(* apply *)

applyFrame == <<inputVars, managerVars, outcome>>

\* A call succeeds; changed and detached are set in time for the rollback.
ApplyStep ==
    /\ tx # None /\ tx.phase = "apply" /\ ~tx.cancelled /\ Step # "commit" /\ Passes
    /\ \/ w' \in Effects /\ UNCHANGED left
       \/ Acknowledged /\ Use("failures")
       \/ Step = "writeMM" /\ w' \in {w} \cup Effects /\ Use("failures")   \* CID1 decides
    /\ tx' = [tx EXCEPT !.n = @ + 1, !.detached = @ \/ Step = "suspend",
                        !.changed = @ \/ Step = "deregister"]
    /\ UNCHANGED applyFrame

RollbackFrom(changed) == [tx EXCEPT !.phase = "rollback", !.n = IF changed THEN 1 ELSE 10]

\* A call fails, of itself or because the operation is cancelled, or does not
\* read what was written.
ApplyFails ==
    /\ tx # None /\ tx.phase = "apply"
    /\ \/ (tx.cancelled \/ ~Passes) /\ UNCHANGED left
       \/ Step # "writeMM" /\ Use("failures")
    /\ w' \in {w} \cup Effects
    /\ tx' = RollbackFrom(tx.changed)
    /\ UNCHANGED applyFrame

ApplyCommit ==
    /\ tx # None /\ tx.phase = "apply" /\ ~tx.cancelled /\ Step = "commit"
    /\ w' \in Effects
    /\ Succeed(tx.in, tx.cfg, tx.clear, w.cid, "applied")
    /\ blocked' = IF tx.clear THEN [iccid |-> tx.in.iccid, config |-> tx.in.desired] ELSE blocked
    /\ pending' = None /\ tx' = None
    /\ UNCHANGED <<inputVars, left>>

-----------------------------------------------------------------------------
(* rollback *)

rollbackFrame == <<inputVars, last, blocked>>

\* Mutant: the snapshot is dropped although the rollback is incomplete.
ReturnForgets(kept) ==
    /\ tx' = None /\ outcome' = "error"
    /\ pending' = None
    /\ retry' = [retry EXCEPT !.attempts = @ + 1, !.waiting = TRUE]

\* apply returns the error; kept says whether the snapshot is kept for a retry.
Return(kept) ==
    /\ tx' = None /\ outcome' = "error"
    /\ pending' = IF kept THEN pending ELSE None
    /\ retry' = [retry EXCEPT !.attempts = @ + 1, !.waiting = TRUE]

\* The call after step n: once the modem could not be detached, only the profile
\* is restored and read back.
Following(n, broken) == IF broken THEN (IF n < 4 THEN 4 ELSE 9) ELSE n + 1

\* One of the first nine calls has been made, with or without success.
RollbackGoesOn(failed, broken) ==
    IF tx.n = 9 /\ failed THEN Return(TRUE)
    ELSE /\ tx' = [tx EXCEPT !.n = Following(@, broken), !.failed = failed, !.broken = broken]
         /\ UNCHANGED <<pending, outcome, retry>>

RollbackStep ==
    /\ tx # None /\ tx.phase = "rollback" /\ tx.n <= 9 /\ Passes
    /\ \/ w' \in Effects /\ UNCHANGED left
       \/ Acknowledged /\ Use("failures")
    /\ RollbackGoesOn(tx.failed, tx.broken)
    /\ UNCHANGED rollbackFrame

RollbackStepFails ==
    /\ tx # None /\ tx.phase = "rollback" /\ tx.n <= 9
    /\ \/ ~Passes /\ UNCHANGED left
       \/ Use("failures")
    /\ w' \in {w} \cup Effects
    /\ RollbackGoesOn(tx.failed \/ Step # "writeMM", tx.broken \/ tx.n <= 3)
    /\ UNCHANGED rollbackFrame

\* Settings and policy are persisted; a cancelled operation does not reattach.
RollbackCommit ==
    /\ tx # None /\ tx.phase = "rollback" /\ Step = "commit"
    /\ w' \in Effects
    /\ IF tx.detached /\ ~tx.cancelled
       THEN tx' = [tx EXCEPT !.n = 11] /\ UNCHANGED <<pending, outcome, retry>>
       ELSE Return(FALSE)
    /\ UNCHANGED <<rollbackFrame, left>>

\* The bearer is brought up again if it was up.
RollbackReconnect ==
    /\ tx # None /\ tx.phase = "rollback" /\ tx.n >= 11 /\ ~tx.cancelled
    /\ \/ w' \in Effects /\ UNCHANGED left
       \/ Acknowledged /\ Use("failures")
    /\ IF tx.n = 11 /\ tx.state.active
       THEN tx' = [tx EXCEPT !.n = 12] /\ UNCHANGED <<pending, outcome, retry>>
       ELSE Return(FALSE)
    /\ UNCHANGED rollbackFrame

\* Commit or one of the calls after it fails.
RollbackEndFails ==
    /\ tx # None /\ tx.phase = "rollback" /\ tx.n >= 10
    /\ \/ tx.n >= 11 /\ tx.cancelled /\ UNCHANGED left
       \/ Use("failures")
    /\ w' \in {w} \cup Effects
    /\ Return(TRUE)
    /\ UNCHANGED rollbackFrame

Transaction ==
    \/ ApplyStep \/ ApplyFails \/ ApplyCommit
    \/ RollbackStep \/ RollbackStepFails \/ RollbackCommit \/ RollbackReconnect
    \/ RollbackEndFails

-----------------------------------------------------------------------------
(* Other steps of the service *)

\* The operation is cancelled: a disable, a shutdown, or the transaction's limit.
Cancel ==
    /\ tx # None /\ ~tx.cancelled /\ Use("cancels")
    /\ tx' = [tx EXCEPT !.cancelled = TRUE]
    /\ UNCHANGED <<w, inputVars, managerVars, outcome>>

\* A remedy of the link assessment, which leaves a settling APN alone: Reattach,
\* or Reapply for a bearer bounce.
Remedy ==
    /\ tx = None /\ outcome \in {"ok", "unconfigured"} /\ Use("recoveries")
    /\ \/ \E r \in BOOLEAN : w' = [w EXCEPT !.registered = r]
       \/ \E a \in BOOLEAN : w' = [w EXCEPT !.active = a]
    /\ UNCHANGED <<inputVars, managerVars, tx, outcome>>

\* recoverySucceeded.
ResetRetry ==
    /\ tx = None /\ Use("recoveries")
    /\ retry' = [retry EXCEPT !.attempts = 0, !.waiting = FALSE]
    /\ last' = [last EXCEPT !.path = None]
    /\ UNCHANGED <<w, inputVars, pending, blocked, tx, outcome>>

RetryDelayPasses ==
    /\ retry.waiting /\ retry' = [retry EXCEPT !.waiting = FALSE]
    /\ UNCHANGED <<w, inputVars, pending, last, blocked, tx, outcome, left>>

NothingApplied == [iccid |-> None, path |-> None, config |-> Empty, cid |-> "absent"]
NotBlocked == [iccid |-> None, config |-> Empty]
NoSequence == [input |-> None, attempts |-> 0, waiting |-> FALSE]

\* What a new Manager knows.
NewManager ==
    /\ pending' = None /\ last' = NothingApplied /\ blocked' = NotBlocked
    /\ retry' = NoSequence /\ tx' = None /\ outcome' = "none"

-----------------------------------------------------------------------------
(* The world *)

\* The process dies, and systemd starts it again.
Crash ==
    /\ Use("crashes") /\ NewManager
    /\ UNCHANGED <<w, inputVars>>

\* The computer restarts: what was staged in NetworkManager's memory is gone.
Reboot ==
    /\ Use("crashes") /\ NewManager
    /\ w' = [w EXCEPT !.mem = w.disk, !.auto = w.diskAuto, !.active = FALSE, !.registered = TRUE]
    /\ UNCHANGED inputVars

\* NetworkManager activates a profile with autoconnect, registering the modem.
Autoconnect ==
    /\ w.auto /\ ~w.active
    /\ w' \in {[w EXCEPT !.active = TRUE, !.registered = TRUE, !.cid = c] :
                 c \in {w.cid} \cup (IF w.mem.apn = "" THEN {"operator"} ELSE {})}
    /\ UNCHANGED <<inputVars, managerVars, tx, outcome, left>>

\* A power cycle or reset of the modem, between two ticks.
Reprobe(p) ==
    /\ tx = None /\ p # path /\ Use("recoveries")
    /\ path' = p /\ w' = [w EXCEPT !.active = FALSE, !.registered = TRUE]
    /\ UNCHANGED <<iccid, desired, managerVars, tx, outcome>>

SwapSim(i) ==
    /\ i # iccid /\ Use("swaps") /\ iccid' = i
    /\ UNCHANGED <<w, path, desired, managerVars, tx, outcome>>

\* The watchers of cellular.apn, cellular.username, cellular.password, cellular.auth.
ChangeSettings(c) ==
    /\ c # desired /\ Use("settings") /\ desired' = c
    /\ UNCHANGED <<w, iccid, path, managerVars, tx, outcome>>

World ==
    \/ Crash \/ Reboot \/ Autoconnect
    \/ \E p \in ModemPaths : Reprobe(p)
    \/ \E i \in ICCIDs : SwapSim(i)
    \/ \E c \in Configs : ChangeSettings(c)

Init ==
    /\ w \in Profiles /\ iccid \in ICCIDs /\ path \in ModemPaths /\ desired \in Configs
    /\ pending = None /\ last = NothingApplied /\ blocked = NotBlocked
    /\ retry = NoSequence /\ tx = None /\ outcome = "none" /\ left = Bounds

Next == Reconcile \/ Transaction \/ Cancel \/ Remedy \/ ResetRetry \/ RetryDelayPasses \/ World
Spec == Init /\ [][Next]_vars

\* The monitor keeps ticking, a call returns, and time passes.
Fairness ==
    /\ WF_vars(ReconcileBlocked \/ ReconcileMatches \/ ReconcileWaits \/ ReconcileApply)
    /\ WF_vars(Transaction) /\ WF_vars(RetryDelayPasses)
FairSpec == Spec /\ Fairness

-----------------------------------------------------------------------------
(* Properties *)

Outcomes == {"none", "ok", "applied", "unconfigured", "iccid-changed-cleared", "error"}
LastType == [iccid : ICCIDs \cup {None}, path : ModemPaths \cup {None}, config : Configs,
             cid : Contexts]
BlockedType == [iccid : ICCIDs \cup {None}, config : Configs]
RetryType == [input : InputType \cup {None}, attempts : 0..MaxApplyAttempts, waiting : BOOLEAN]
TxType == [phase : {"apply", "rollback"}, n : 1..13, in : InputType, cfg : Configs,
           clear : BOOLEAN, before : SnapshotType, state : StateType, changed : BOOLEAN,
           detached : BOOLEAN, failed : BOOLEAN, broken : BOOLEAN, cancelled : BOOLEAN]

\* Every variable has its type: no step of a transaction runs past its last call,
\* and no attempt is made beyond the limit.
TypeOK ==
    /\ w \in WorldType /\ iccid \in ICCIDs /\ path \in ModemPaths /\ desired \in Configs
    /\ pending \in PendingType \cup {None} /\ last \in LastType /\ blocked \in BlockedType
    /\ retry \in RetryType
    /\ tx \in TxType \cup {None}
    /\ (tx # None /\ tx.phase = "rollback") => tx.n <= 12
    /\ outcome \in Outcomes /\ left \in [Disturbances -> Nat]

\* While settings are written the connection is down and the modem detached:
\* NetworkManager, which retries a profile by itself, has been suspended first.
QuietWhileWriting ==
    (tx # None /\ Step \in {"writeNM", "writeMM", "writeCID", "writeAuth", "readCID"} /\ ~tx.broken)
        => ~w.active /\ ~w.registered

\* A rollback that reports no failure has restored the profile and the policy,
\* in memory and on disk, and CID1 if it may have been written, unless the
\* connection is up (activating the profile may rewrite CID1): wherever the
\* transaction failed, and whether or not the failed call had its effect.
\* ModemManager's attach settings are not among them: the rollback only logs a
\* failure to restore those.
RollbackRestores ==
    [][(tx # None /\ tx' = None /\ outcome' = "error" /\ pending' = None) =>
         /\ w'.mem = tx.before.nm /\ w'.disk = tx.before.nm
         /\ w'.auto = tx.state.autoconnect /\ w'.diskAuto = tx.state.autoconnect
         /\ tx.changed => w'.cid = tx.before.cid \/ w'.active]_vars

\* The user's autoconnect policy survives, however many transactions fail or are
\* cancelled while the profile is suspended, on whatever SIM: while the process
\* lives, the one on disk never changes.
AutoconnectPreserved ==
    [][left["crashes"] = Bounds["crashes"] => w'.diskAuto = w.diskAuto]_vars

\* A transaction has a snapshot that was read while the SIM it began with was
\* inserted, or the cleared settings: no snapshot kept by an incomplete rollback
\* passes from one SIM to another ("A SIM swap must never roll back to the
\* previous SIM's credentials"). A swap while the transaction runs is not seen by
\* the code, nor is one while the service is down; what is written then counts as
\* the settings of the SIM that was inserted when they were read.
NoForeignCredentials ==
    /\ tx # None => tx.before.of \in {None, tx.in.iccid}
    /\ pending # None => pending.before.of \in {None, pending.iccid}

\* What is persisted has been read back from the profile and, unless there is no
\* APN to check for or a rollback finds that nothing was changed, from CID1.
CommitValidated ==
    [][(w'.disk # w.disk) =>
         /\ w'.disk = Target.nm
         /\ w.cid # Target.cid => IF tx.phase = "apply" THEN tx.cfg = Empty ELSE ~tx.changed]_vars

\* Settings that do not change are in effect in the end, with the modem attached
\* and the snapshot dropped, if fewer calls fail than there are attempts.
Converges ==
    <>[](/\ tx = None /\ pending = None /\ outcome \in {"ok", "unconfigured"}
         /\ w.mem = Profile(desired) /\ (w.cid = desired.apn \/ desired = Empty)
         /\ w.registered)
=============================================================================
