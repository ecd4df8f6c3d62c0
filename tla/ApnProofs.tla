------------------------------ MODULE ApnProofs ------------------------------
(***************************************************************************)
(* The safety of an APN transaction for any settings, SIM cards, limits    *)
(* and numbers of failures, cancellations, crashes and swaps.               *)
(*                                                                          *)
(* The argument: a transaction first takes the profile out of               *)
(* NetworkManager's hands (Quiet), so that what it has read back stays as   *)
(* it is until it is persisted (ReadBack); and the snapshot it may return   *)
(* to is of its own SIM (OwnSnapshot) and holds the user's policy           *)
(* (PolicyKept).                                                            *)
(***************************************************************************)
EXTENDS ApnTransaction, TLAPS

Applying == tx # None /\ tx.phase = "apply"
RollingBack == tx # None /\ tx.phase = "rollback"

\* How far the flags of a transaction tell where it is.
Flags ==
    /\ tx # None => retry.attempts < MaxApplyAttempts /\ pending # None /\ pending.state = tx.state
    /\ Applying => /\ ~tx.failed /\ ~tx.broken
                   /\ tx.n > 3 => tx.changed
    /\ RollingBack => /\ tx.n <= 12
                      /\ tx.n < 10 => tx.changed
                      /\ tx.n >= 10 => ~tx.failed
                      /\ tx.broken => tx.failed

\* The profile is suspended, then disconnected, then the modem detached, and
\* stays so while settings are written, unless a rollback could not do it.
Quiet ==
    /\ Applying =>
         /\ tx.n > 1 => ~w.auto
         /\ tx.n \in 3..10 => ~w.active
         /\ tx.n \in 4..10 => ~w.registered
    /\ (RollingBack /\ ~tx.broken) =>
         /\ (tx.n \in 2..9 \/ (tx.n = 10 /\ tx.changed)) => ~w.auto
         /\ tx.n \in 3..9 => ~w.active
         /\ tx.n \in 4..9 => ~w.registered

\* What has been read back is still there when it is persisted, and afterwards.
ReadBack ==
    /\ Applying =>
         /\ ~tx.changed => w.mem = tx.before.nm
         /\ tx.n > 9 => w.mem = Profile(tx.cfg)
         /\ tx.n > 12 => tx.cfg = Empty \/ w.cid = tx.cfg.apn
    /\ RollingBack =>
         /\ tx.n = 9 => tx.failed \/ w.cid = tx.before.cid
         /\ tx.n >= 10 => w.mem = tx.before.nm
         /\ (tx.n = 10 /\ tx.changed) => w.cid = tx.before.cid
         /\ tx.n > 10 => /\ w.disk = tx.before.nm /\ w.auto = tx.state.autoconnect
                         /\ w.diskAuto = tx.state.autoconnect
                         /\ tx.changed => w.cid = tx.before.cid \/ w.active

\* A snapshot is of the SIM it is kept for, or of none.
OwnSnapshot == NoForeignCredentials

\* While the process lives, the policy on disk is the one a transaction found.
NoCrash == left["crashes"] = Bounds["crashes"]
PolicyKept ==
    /\ left["crashes"] <= Bounds["crashes"]
    /\ NoCrash => /\ pending = None => w.auto = w.diskAuto
                  /\ pending # None => pending.state.autoconnect = w.diskAuto

\* The profiles that the service finds when it starts are not suspended.
PoliciesAgree == \A p \in Profiles : p.auto = p.diskAuto

ApnInv == TypeOK /\ Flags /\ Quiet /\ ReadBack /\ OwnSnapshot

-----------------------------------------------------------------------------
(* The calls of a transaction *)

\* Which call a transaction is at.
LEMMA ApplyAt ==
    ASSUME tx \in TxType, tx.phase = "apply"
    PROVE  /\ Step = "suspend" <=> tx.n = 1
           /\ Step = "disconnect" <=> tx.n = 2
           /\ Step = "deregister" <=> tx.n = 3
           /\ Step = "writeNM" <=> tx.n = 4
           /\ Step = "writeMM" <=> tx.n = 5
           /\ Step = "writeCID" <=> tx.n = 6
           /\ Step = "writeAuth" <=> tx.n = 7
           /\ Step = "readCID" <=> tx.n = 8
           /\ Step = "readNM" <=> tx.n = 9
           /\ Step = "reattach" <=> tx.n = 10
           /\ Step = "connect" <=> tx.n = 11
           /\ Step = "recheck" <=> tx.n = 12
           /\ Step = "commit" <=> tx.n = 13
<1>1. Step = ApplySteps[tx.n] /\ tx.n \in 1..13
  BY DEF Step, TxType
<1>. QED
  BY <1>1 DEF ApplySteps

LEMMA RollbackAt ==
    ASSUME tx \in TxType, tx.phase = "rollback", tx.n <= 12
    PROVE  /\ Step = "suspend" <=> tx.n = 1
           /\ Step = "disconnect" <=> tx.n = 2
           /\ Step = "deregister" <=> tx.n = 3
           /\ Step = "writeNM" <=> tx.n = 4
           /\ Step = "writeMM" <=> tx.n = 5
           /\ Step = "writeAuth" <=> tx.n = 6
           /\ Step = "writeCID" <=> tx.n = 7
           /\ Step = "readCID" <=> tx.n = 8
           /\ Step = "readNM" <=> tx.n = 9
           /\ Step = "commit" <=> tx.n = 10
           /\ Step = "reattach" <=> tx.n = 11
           /\ Step = "connect" <=> tx.n = 12
           /\ Step # "recheck"
<1>1. Step = RollbackSteps[tx.n] /\ tx.n \in 1..12
  BY DEF Step, TxType
<1>. QED
  BY <1>1 DEF RollbackSteps

\* What a transaction writes is a snapshot.
LEMMA TargetType ==
    ASSUME tx \in TxType
    PROVE  /\ Target \in SnapshotType
           /\ tx.state.autoconnect \in BOOLEAN
<1>1. ASSUME NEW c \in Configs PROVE Written(c) \in SnapshotType
  BY DEF Written, Snapshot, SnapshotType, Contexts
<1>2. tx.cfg \in Configs /\ tx.before \in SnapshotType /\ tx.state \in StateType
  BY DEF TxType
<1>. QED
  BY <1>1, <1>2 DEF Target, StateType

\* A call changes what it is about, and nothing else.
LEMMA CallEffect ==
    ASSUME w \in WorldType, tx \in TxType, NEW v \in Effects
    PROVE  /\ v \in WorldType
           /\ v.mem = IF Step = "writeNM" THEN Target.nm ELSE w.mem
           /\ v.disk = IF Step = "commit" THEN w.mem ELSE w.disk
           /\ v.auto = CASE Step = "suspend" -> FALSE
                         [] Step = "commit" -> tx.state.autoconnect
                         [] OTHER -> w.auto
           /\ v.diskAuto = IF Step = "commit" THEN tx.state.autoconnect ELSE w.diskAuto
           /\ v.active = CASE Step = "disconnect" -> FALSE [] Step = "connect" -> TRUE
                           [] OTHER -> w.active
           /\ v.registered = CASE Step = "deregister" -> FALSE [] Step = "reattach" -> TRUE
                               [] OTHER -> w.registered
           /\ Step = "writeCID" => v.cid = Target.cid
           /\ Step \notin {"writeCID", "connect"} => v.cid = w.cid
<1>0. Target \in SnapshotType /\ tx.state.autoconnect \in BOOLEAN
  BY TargetType
<1>1. CASE Step = "suspend"
  BY <1>1 DEF Effects, Effect, WorldType
<1>2. CASE Step = "disconnect"
  BY <1>2 DEF Effects, Effect, WorldType
<1>3. CASE Step = "deregister"
  BY <1>3 DEF Effects, Effect, WorldType
<1>4. CASE Step = "writeNM"
  BY <1>0, <1>4 DEF Effects, Effect, WorldType, SnapshotType
<1>5. CASE Step = "writeMM"
  BY <1>0, <1>5 DEF Effects, Effect, WorldType, SnapshotType
<1>6. CASE Step = "writeCID"
  BY <1>0, <1>6 DEF Effects, Effect, WorldType, SnapshotType
<1>7. CASE Step = "reattach"
  BY <1>7 DEF Effects, Effect, WorldType
<1>8. CASE Step = "connect"
  <2>1. PICK c \in {w.cid} \cup (IF w.mem.apn = "" THEN {"operator"} ELSE {}) :
          v = [w EXCEPT !.active = TRUE, !.cid = c]
    BY <1>8 DEF Effects, Effect
  <2>2. c \in Contexts
    BY <2>1 DEF WorldType, Contexts
  <2>3. /\ v \in WorldType /\ v.mem = w.mem /\ v.disk = w.disk /\ v.auto = w.auto
        /\ v.diskAuto = w.diskAuto /\ v.active = TRUE /\ v.registered = w.registered
    BY <2>1, <2>2 DEF WorldType
  <2>. QED
    BY <1>8, <2>3
<1>9. CASE Step = "commit"
  BY <1>0, <1>9 DEF Effects, Effect, WorldType
<1>10. CASE Step \notin {"suspend", "disconnect", "deregister", "writeNM", "writeMM", "writeCID",
                         "reattach", "connect", "commit"}
  <2>1. v = w
    BY <1>10 DEF Effects, Effect
  <2>. QED
    BY <1>10, <2>1
<1>. QED
  BY <1>1, <1>2, <1>3, <1>4, <1>5, <1>6, <1>7, <1>8, <1>9, <1>10

\* A call that is acknowledged without its effect, and one that loses it.
LEMMA OtherEffect ==
    ASSUME w \in WorldType, Acknowledged
    PROVE  /\ w' \in WorldType
           /\ \/ Step \in {"writeNM", "writeCID"} /\ w' = w
              \/ /\ Step = "connect" /\ w'.active
                 /\ w'.mem = w.mem /\ w'.disk = w.disk /\ w'.auto = w.auto
                 /\ w'.diskAuto = w.diskAuto /\ w'.registered = w.registered
<1>1. CASE Step \in {"writeNM", "writeCID"} /\ w' = w
  BY <1>1
<1>2. CASE Step = "connect" /\ w' = [w EXCEPT !.active = TRUE, !.cid = "operator"]
  <2>1. "operator" \in Contexts
    BY DEF Contexts
  <2>. QED
    BY <1>2, <2>1 DEF WorldType
<1>. QED
  BY <1>1, <1>2 DEF Acknowledged

-----------------------------------------------------------------------------
(* Types *)

LEMMA UseType ==
    ASSUME left \in [Disturbances -> Nat], NEW kind \in Disturbances, Use(kind)
    PROVE  /\ left' \in [Disturbances -> Nat]
           /\ \A k \in Disturbances : left'[k] <= left[k]
           /\ left'[kind] < left[kind]
           /\ \A k \in Disturbances \ {kind} : left'[k] = left[k]
<1>1. left[kind] \in Nat /\ left[kind] > 0 /\ left' = [left EXCEPT ![kind] = left[kind] - 1]
  BY DEF Use
<1>. QED
  BY <1>1

LEMMA DisturbanceKinds ==
    /\ "failures" \in Disturbances /\ "cancels" \in Disturbances
    /\ "crashes" \in Disturbances /\ "settings" \in Disturbances
    /\ "swaps" \in Disturbances /\ "recoveries" \in Disturbances
<1>. QED
  BY DEF Disturbances

\* What Reconcile computes from the state it finds.
LEMMA ReconcileOperands ==
    ASSUME TypeOK
    PROVE  /\ Input \in InputType /\ Sequence \in RetryType
           /\ Unblocked \in BlockedType /\ Wanted \in Configs
           /\ RestorePoint \in SnapshotType /\ Policy \in StateType
           /\ [iccid |-> iccid, config |-> desired] \in BlockedType
<1>1. Input \in InputType
  BY DEF TypeOK, Input, InputType
<1>2. Sequence \in RetryType
  <2>1. 0 \in 0..MaxApplyAttempts
    BY AttemptsAssumption
  <2>. QED
    BY <1>1, <2>1 DEF TypeOK, Sequence, RetryType
<1>3. Empty \in Configs
  BY ConfigAssumption
<1>4. Unblocked \in BlockedType /\ [iccid |-> iccid, config |-> desired] \in BlockedType
  BY <1>3 DEF TypeOK, Unblocked, BlockedType
<1>5. Wanted \in Configs
  BY <1>3 DEF TypeOK, Wanted
<1>6. Policy \in StateType
  BY DEF TypeOK, Policy, WorldType, StateType, PendingType
<1>7. RestorePoint \in SnapshotType
  <2>1. Written(Empty) \in SnapshotType
    BY <1>3 DEF Written, Snapshot, SnapshotType, Contexts
  <2>2. readCurrent \in SnapshotType
    BY DEF TypeOK, readCurrent, Snapshot, SnapshotType, WorldType
  <2>3. pending # None => pending.before \in SnapshotType
    BY DEF TypeOK, PendingType
  <2>. QED
    BY <2>1, <2>2, <2>3 DEF RestorePoint
<1>. QED
  BY <1>1, <1>2, <1>4, <1>5, <1>6, <1>7

\* What a success leaves.
LEMMA SucceedTypes ==
    ASSUME NEW in \in InputType, NEW cfg \in Configs, NEW cleared \in BOOLEAN,
           NEW cid \in Contexts, NEW result \in Outcomes, Succeed(in, cfg, cleared, cid, result)
    PROVE  last' \in LastType /\ retry' \in RetryType /\ outcome' \in Outcomes
<1>1. last' \in LastType
  BY DEF Succeed, LastType, InputType
<1>2. retry' \in RetryType
  <2>1. 0 \in 0..MaxApplyAttempts
    BY AttemptsAssumption
  <2>. QED
    BY <2>1 DEF Succeed, RetryType
<1>3. outcome' \in Outcomes
  BY DEF Succeed, Outcomes
<1>. QED
  BY <1>1, <1>2, <1>3

LEMMA ReconcileTypes ==
    ASSUME TypeOK, Reconcile
    PROVE  TypeOK'
<1>. USE ReconcileOperands
<1>0. /\ w' = w /\ iccid' = iccid /\ path' = path /\ desired' = desired
      /\ left' \in [Disturbances -> Nat]
  BY UseType, DisturbanceKinds
     DEF TypeOK, Reconcile, ReconcileRefused, ReconcileBlocked, ReconcileMatches, ReconcileWaits,
         ReconcileApply, ReconcileStateFails, inputVars
<1>1. CASE ReconcileRefused
  <2>1. /\ pending' = pending /\ last' = last /\ tx' = tx /\ outcome' \in Outcomes
        /\ retry' \in RetryType /\ blocked' \in BlockedType
    BY <1>1 DEF ReconcileRefused, TypeOK, Outcomes
  <2>. QED
    BY <1>0, <2>1 DEF TypeOK
<1>2. CASE ReconcileBlocked
  <2>1. /\ pending' = pending /\ last' = last /\ tx' = tx /\ outcome' \in Outcomes
        /\ retry' \in RetryType /\ blocked' \in BlockedType
    BY <1>2 DEF ReconcileBlocked, TypeOK, Outcomes
  <2>. QED
    BY <1>0, <2>1 DEF TypeOK
<1>3. CASE ReconcileMatches
  <2>1. w.cid \in Contexts /\ clearSIM \in BOOLEAN
    BY DEF TypeOK, WorldType, clearSIM
  <2>2. (IF Wanted = Empty THEN "unconfigured" ELSE "ok") \in Outcomes
    BY DEF Outcomes
  <2>3. last' \in LastType /\ retry' \in RetryType /\ outcome' \in Outcomes
    BY <1>3, <2>1, <2>2, SucceedTypes DEF ReconcileMatches
  <2>4. pending' = pending /\ tx' = tx /\ blocked' \in BlockedType
    BY <1>3 DEF ReconcileMatches, TypeOK
  <2>. QED
    BY <1>0, <2>3, <2>4 DEF TypeOK
<1>4. CASE ReconcileWaits
  <2>1. /\ pending' = pending /\ last' = last /\ tx' = tx /\ outcome' \in Outcomes
        /\ retry' \in RetryType /\ blocked' \in BlockedType
    BY <1>4 DEF ReconcileWaits, TypeOK, Outcomes
  <2>. QED
    BY <1>0, <2>1 DEF TypeOK
<1>5. CASE ReconcileApply
  <2>1. /\ last' = last /\ outcome' = outcome
        /\ retry' \in RetryType /\ blocked' \in BlockedType
    BY <1>5 DEF ReconcileApply, TypeOK
  <2>2. pending' \in PendingType
    BY <1>5 DEF ReconcileApply, TypeOK, PendingType
  <2>3. tx' \in TxType
    BY <1>5 DEF ReconcileApply, TypeOK, TxType, clearSIM
  <2>4. tx'.phase = "apply"
    BY <1>5 DEF ReconcileApply
  <2>. QED
    BY <1>0, <2>1, <2>2, <2>3, <2>4 DEF TypeOK
<1>6. CASE ReconcileStateFails
  <2>1. /\ pending' = pending /\ last' = last /\ tx' = tx /\ outcome' \in Outcomes
        /\ blocked' \in BlockedType
    BY <1>6 DEF ReconcileStateFails, TypeOK, Outcomes
  <2>2. retry' \in RetryType
    <3>1. Sequence.attempts \in 0..MaxApplyAttempts /\ Sequence.attempts < MaxApplyAttempts
      BY <1>6, AttemptsAssumption DEF ReconcileStateFails, Exhausted, RetryType
    <3>2. Sequence.attempts + 1 \in 0..MaxApplyAttempts
      BY <3>1, AttemptsAssumption
    <3>. QED
      BY <1>6, <3>2 DEF ReconcileStateFails, RetryType
  <2>. QED
    BY <1>0, <2>1, <2>2 DEF TypeOK
<1>. QED
  BY <1>1, <1>2, <1>3, <1>4, <1>5, <1>6 DEF Reconcile

-----------------------------------------------------------------------------
(* What the steps of a transaction leave *)

\* The world stays a world, whatever becomes of a call.
LEMMA CallTypes ==
    ASSUME w \in WorldType, tx \in TxType,
           w' \in {w} \cup Effects \/ Acknowledged
    PROVE  w' \in WorldType
<1>1. CASE w' \in Effects
  BY <1>1, CallEffect
<1>2. CASE Acknowledged
  BY <1>2, OtherEffect
<1>. QED
  BY <1>1, <1>2

\* A call of apply has succeeded.
LEMMA ApplyStepLeaves ==
    ASSUME TypeOK, ApplyStep
    PROVE  /\ w' \in WorldType /\ tx \in TxType /\ tx' \in TxType
           /\ tx.phase = "apply" /\ tx.n <= 12 /\ tx'.n = tx.n + 1
           /\ tx'.changed <=> tx.changed \/ tx.n = 3
           /\ tx'.phase = tx.phase /\ tx'.in = tx.in /\ tx'.cfg = tx.cfg
           /\ tx'.before = tx.before /\ tx'.state = tx.state
           /\ tx'.failed = tx.failed /\ tx'.broken = tx.broken
           /\ left' \in [Disturbances -> Nat] /\ left'["crashes"] = left["crashes"]
           /\ UNCHANGED <<applyFrame>>
<1>1. tx \in TxType /\ tx.phase = "apply" /\ tx # None /\ w \in WorldType
  BY DEF TypeOK, ApplyStep
<1>2. tx.n \in 1..12
  BY <1>1, ApplyAt DEF ApplyStep, TxType
<1>3. w' \in {w} \cup Effects \/ Acknowledged
  BY DEF ApplyStep
<1>4. tx' = [tx EXCEPT !.n = tx.n + 1, !.detached = tx.detached \/ Step = "suspend",
                       !.changed = tx.changed \/ Step = "deregister"]
  BY DEF ApplyStep
<1>5. (tx'.changed <=> tx.changed \/ tx.n = 3) /\ tx'.n = tx.n + 1
  BY <1>1, <1>4, ApplyAt DEF TxType
<1>6. tx' \in TxType
  <2>1. ASSUME NEW n \in 1..13, NEW d \in BOOLEAN, NEW c \in BOOLEAN
        PROVE  [tx EXCEPT !.n = n, !.detached = d, !.changed = c] \in TxType
    BY <1>1, Zenon DEF TxType
  <2>2. tx.n + 1 \in 1..13
    BY <1>2
  <2>. QED
    BY <1>4, <2>1, <2>2
<1>7. /\ tx'.phase = tx.phase /\ tx'.in = tx.in /\ tx'.cfg = tx.cfg
      /\ tx'.before = tx.before /\ tx'.state = tx.state
      /\ tx'.failed = tx.failed /\ tx'.broken = tx.broken
  BY <1>1, <1>4 DEF TxType
<1>8. left' \in [Disturbances -> Nat] /\ left'["crashes"] = left["crashes"]
  BY UseType, DisturbanceKinds DEF TypeOK, ApplyStep
<1>. QED
  BY <1>1, <1>2, <1>3, <1>5, <1>6, <1>7, <1>8, CallTypes DEF ApplyStep

\* A call of apply has failed: the rollback starts, at its commit if nothing was changed.
LEMMA ApplyFailsLeaves ==
    ASSUME TypeOK, ApplyFails
    PROVE  /\ w' \in WorldType /\ tx \in TxType /\ tx' \in TxType
           /\ tx.phase = "apply" /\ tx'.phase = "rollback"
           /\ tx'.n = IF tx.changed THEN 1 ELSE 10
           /\ tx'.changed = tx.changed /\ tx'.in = tx.in
           /\ tx'.before = tx.before /\ tx'.state = tx.state
           /\ tx'.failed = tx.failed /\ tx'.broken = tx.broken
           /\ left' \in [Disturbances -> Nat] /\ left'["crashes"] = left["crashes"]
           /\ UNCHANGED <<applyFrame>>
<1>1. tx \in TxType /\ tx.phase = "apply" /\ tx # None /\ w \in WorldType
  BY DEF TypeOK, ApplyFails
<1>2. tx' = [tx EXCEPT !.phase = "rollback", !.n = IF tx.changed THEN 1 ELSE 10]
  BY DEF ApplyFails, RollbackFrom
<1>3. /\ tx' \in TxType /\ tx'.phase = "rollback"
      /\ tx'.n = IF tx.changed THEN 1 ELSE 10
  <2>1. ASSUME NEW n \in 1..13
        PROVE  /\ [tx EXCEPT !.phase = "rollback", !.n = n] \in TxType
               /\ [tx EXCEPT !.phase = "rollback", !.n = n].phase = "rollback"
               /\ [tx EXCEPT !.phase = "rollback", !.n = n].n = n
    BY <1>1 DEF TxType
  <2>2. (IF tx.changed THEN 1 ELSE 10) \in 1..13
    OBVIOUS
  <2>. QED
    BY <1>2, <2>1, <2>2
<1>4. /\ tx'.changed = tx.changed /\ tx'.in = tx.in
      /\ tx'.before = tx.before /\ tx'.state = tx.state
      /\ tx'.failed = tx.failed /\ tx'.broken = tx.broken
  BY <1>1, <1>2 DEF TxType
<1>5. left' \in [Disturbances -> Nat] /\ left'["crashes"] = left["crashes"]
  BY UseType, DisturbanceKinds DEF TypeOK, ApplyFails
<1>. QED
  BY <1>1, <1>3, <1>4, <1>5, CallTypes DEF ApplyFails

\* The settings are in effect.
LEMMA ApplyCommitLeaves ==
    ASSUME TypeOK, ApplyCommit
    PROVE  /\ w' \in WorldType /\ tx \in TxType /\ tx' = None /\ pending' = None
           /\ tx.phase = "apply" /\ tx.n = 13
           /\ last' \in LastType /\ retry' \in RetryType /\ outcome' \in Outcomes
           /\ outcome' # "error" /\ blocked' \in BlockedType
           /\ UNCHANGED <<inputVars, left>>
<1>1. tx \in TxType /\ tx.phase = "apply" /\ tx # None /\ w \in WorldType
  BY DEF TypeOK, ApplyCommit
<1>2. tx.n = 13
  BY <1>1, ApplyAt DEF ApplyCommit
<1>3. /\ tx.in \in InputType /\ tx.cfg \in Configs /\ tx.clear \in BOOLEAN
      /\ w.cid \in Contexts /\ "applied" \in Outcomes
  BY <1>1 DEF TxType, WorldType, Outcomes
<1>4. last' \in LastType /\ retry' \in RetryType /\ outcome' \in Outcomes
  BY <1>3, SucceedTypes DEF ApplyCommit
<1>5. outcome' # "error"
  BY DEF ApplyCommit, Succeed
<1>6. blocked' \in BlockedType
  BY <1>3 DEF ApplyCommit, TypeOK, BlockedType, InputType
<1>. QED
  BY <1>1, <1>2, <1>4, <1>5, <1>6, CallTypes DEF ApplyCommit

\* apply has returned an error.
LEMMA ReturnLeaves ==
    ASSUME TypeOK, retry.attempts < MaxApplyAttempts, NEW kept \in BOOLEAN, Return(kept)
    PROVE  /\ tx' = None /\ outcome' = "error" /\ outcome' \in Outcomes
           /\ pending' = IF kept THEN pending ELSE None
           /\ retry' \in RetryType
<1>1. retry \in RetryType /\ retry.attempts + 1 \in 0..MaxApplyAttempts
  BY AttemptsAssumption DEF TypeOK, RetryType
<1>. QED
  BY <1>1 DEF Return, RetryType, Outcomes

\* One of the first nine calls of the rollback has been made.
LEMMA GoesOnLeaves ==
    ASSUME TypeOK, tx # None, tx.phase = "rollback", tx.n <= 9,
           retry.attempts < MaxApplyAttempts,
           NEW failed \in BOOLEAN, NEW broken \in BOOLEAN, RollbackGoesOn(failed, broken)
    PROVE  /\ \/ /\ tx.n = 9 /\ failed /\ tx' = None /\ outcome' = "error"
                 /\ pending' = pending /\ retry' \in RetryType
              \/ /\ tx.n = 9 => ~failed
                 /\ tx' \in TxType /\ tx'.phase = "rollback"
                 /\ tx'.n = Following(tx.n, broken) /\ tx'.n <= 10
                 /\ tx'.failed = failed /\ tx'.broken = broken
                 /\ tx'.changed = tx.changed /\ tx'.in = tx.in
                 /\ tx'.before = tx.before /\ tx'.state = tx.state
                 /\ UNCHANGED <<pending, outcome, retry>>
<1>1. tx \in TxType
  BY DEF TypeOK
<1>2. CASE tx.n = 9 /\ failed
  BY <1>2, ReturnLeaves DEF RollbackGoesOn
<1>3. CASE ~(tx.n = 9 /\ failed)
  <2>1. /\ tx' = [tx EXCEPT !.n = Following(tx.n, broken), !.failed = failed, !.broken = broken]
        /\ UNCHANGED <<pending, outcome, retry>>
    BY <1>3 DEF RollbackGoesOn
  <2>2. Following(tx.n, broken) \in 1..10
    BY <1>1 DEF TxType, Following
  <2>3. /\ tx' \in TxType /\ tx'.phase = "rollback"
        /\ tx'.n = Following(tx.n, broken)
        /\ tx'.failed = failed /\ tx'.broken = broken
    <3>1. ASSUME NEW n \in 1..13
          PROVE  LET t == [tx EXCEPT !.n = n, !.failed = failed, !.broken = broken]
                 IN  /\ t \in TxType /\ t.phase = tx.phase /\ t.n = n
                     /\ t.failed = failed /\ t.broken = broken
      BY <1>1 DEF TxType
    <3>2. Following(tx.n, broken) \in 1..13
      BY <2>2
    <3>. QED
      BY <2>1, <3>1, <3>2, Zenon
  <2>4. /\ tx'.changed = tx.changed /\ tx'.in = tx.in
        /\ tx'.before = tx.before /\ tx'.state = tx.state
    BY <1>1, <2>1 DEF TxType
  <2>. QED
    BY <1>3, <2>1, <2>2, <2>3, <2>4
<1>. QED
  BY <1>2, <1>3

\* A call of the rollback has been made, with or without success.
LEMMA RollbackCallLeaves ==
    ASSUME TypeOK, Flags, RollbackStep \/ RollbackStepFails
    PROVE  \E failed, broken \in BOOLEAN :
             /\ RollbackGoesOn(failed, broken)
             /\ w' \in WorldType /\ tx \in TxType /\ tx # None /\ tx.phase = "rollback"
             /\ tx.n <= 9 /\ retry.attempts < MaxApplyAttempts
             /\ \/ RollbackStep /\ failed = tx.failed /\ broken = tx.broken
                \/ /\ RollbackStepFails /\ (failed <=> tx.failed \/ tx.n # 5)
                   /\ (broken <=> tx.broken \/ tx.n <= 3)
             /\ left' \in [Disturbances -> Nat] /\ left'["crashes"] = left["crashes"]
             /\ UNCHANGED rollbackFrame
<1>1. tx \in TxType /\ tx.phase = "rollback" /\ tx # None /\ tx.n <= 9 /\ w \in WorldType
  BY DEF TypeOK, RollbackStep, RollbackStepFails
<1>2. tx.failed \in BOOLEAN /\ tx.broken \in BOOLEAN /\ tx.n \in 1..13
  BY <1>1 DEF TxType
<1>3. retry.attempts < MaxApplyAttempts
  BY <1>1 DEF Flags
<1>4. w' \in WorldType
  BY <1>1, CallTypes DEF RollbackStep, RollbackStepFails
<1>5. left' \in [Disturbances -> Nat] /\ left'["crashes"] = left["crashes"]
  BY UseType, DisturbanceKinds DEF TypeOK, RollbackStep, RollbackStepFails
<1>6. CASE RollbackStep
  BY <1>1, <1>2, <1>3, <1>4, <1>5, <1>6 DEF RollbackStep
<1>7. CASE RollbackStepFails
  <2>1. Step # "writeMM" <=> tx.n # 5
    BY <1>1, <1>2, RollbackAt
  <2>2. RollbackGoesOn(tx.failed \/ tx.n # 5, tx.broken \/ tx.n <= 3)
    <3>1. (tx.failed \/ Step # "writeMM") = (tx.failed \/ tx.n # 5)
      BY <2>1
    <3>2. RollbackGoesOn(tx.failed \/ Step # "writeMM", tx.broken \/ tx.n <= 3)
      BY <1>7 DEF RollbackStepFails
    <3>. QED
      BY <3>1, <3>2
  <2>. QED
    BY <1>1, <1>2, <1>3, <1>4, <1>5, <1>7, <2>2 DEF RollbackStepFails
<1>. QED
  BY <1>6, <1>7

\* The end of the rollback: the snapshot is persisted, and the link comes up again.
LEMMA RollbackEndLeaves ==
    ASSUME TypeOK, Flags, RollbackCommit \/ RollbackReconnect \/ RollbackEndFails
    PROVE  /\ w' \in WorldType /\ tx \in TxType /\ tx # None /\ tx.phase = "rollback"
           /\ tx.n \in 10..12 /\ retry.attempts < MaxApplyAttempts
           /\ \/ /\ tx' = None /\ outcome' = "error" /\ retry' \in RetryType
                 /\ \/ pending' = None /\ ~RollbackEndFails
                    \/ pending' = pending /\ RollbackEndFails
              \/ /\ ~RollbackEndFails
                 /\ tx' \in TxType /\ tx'.phase = "rollback" /\ tx'.n \in 11..12
                 /\ tx'.n = tx.n + 1
                 /\ tx'.failed = tx.failed /\ tx'.broken = tx.broken
                 /\ tx'.changed = tx.changed /\ tx'.in = tx.in
                 /\ tx'.before = tx.before /\ tx'.state = tx.state
                 /\ UNCHANGED <<pending, outcome, retry>>
           /\ left' \in [Disturbances -> Nat] /\ left'["crashes"] = left["crashes"]
           /\ UNCHANGED rollbackFrame
<1>1. tx \in TxType /\ tx.phase = "rollback" /\ tx # None /\ w \in WorldType
  BY DEF TypeOK, RollbackCommit, RollbackReconnect, RollbackEndFails
<1>2. tx.n \in 1..12
  BY <1>1 DEF TxType, Flags, RollingBack
<1>3. retry.attempts < MaxApplyAttempts
  BY <1>1 DEF Flags
<1>4. w' \in WorldType
  BY <1>1, CallTypes DEF RollbackCommit, RollbackReconnect, RollbackEndFails
<1>5. left' \in [Disturbances -> Nat] /\ left'["crashes"] = left["crashes"]
  BY UseType, DisturbanceKinds DEF TypeOK, RollbackCommit, RollbackReconnect, RollbackEndFails
<1>6. UNCHANGED rollbackFrame
  BY DEF RollbackCommit, RollbackReconnect, RollbackEndFails
<1>7. tx.n \in 10..12
  <2>1. Step = "commit" => tx.n = 10
    BY <1>1, <1>2, RollbackAt
  <2>2. RollbackCommit => Step = "commit"
    BY Zenon DEF RollbackCommit
  <2>3. RollbackReconnect => tx.n >= 11
    BY Zenon DEF RollbackReconnect
  <2>4. RollbackEndFails => tx.n >= 10
    BY Zenon DEF RollbackEndFails
  <2>. QED
    BY <1>2, <2>1, <2>2, <2>3, <2>4
<1>8. ASSUME NEW n \in 11..12, tx' = [tx EXCEPT !.n = n]
      PROVE  /\ tx' \in TxType /\ tx'.phase = "rollback" /\ tx'.n \in 11..12
             /\ tx'.failed = tx.failed /\ tx'.broken = tx.broken
             /\ tx'.changed = tx.changed /\ tx'.in = tx.in
             /\ tx'.before = tx.before /\ tx'.state = tx.state
  BY <1>1, <1>8 DEF TxType
<1>9. CASE RollbackEndFails
  <2>1. Return(TRUE)
    BY <1>9 DEF RollbackEndFails
  <2>. QED
    BY <1>1, <1>3, <1>4, <1>5, <1>6, <1>7, <1>9, <2>1, ReturnLeaves
<1>10. CASE ~RollbackEndFails
  <2>1. CASE Return(FALSE)
    BY <1>1, <1>3, <1>4, <1>5, <1>6, <1>7, <1>10, <2>1, ReturnLeaves
  <2>2. CASE ~Return(FALSE)
    <3>1. PICK n \in 11..12 : /\ tx' = [tx EXCEPT !.n = n] /\ n = tx.n + 1
                               /\ UNCHANGED <<pending, outcome, retry>>
      <4>1. CASE RollbackCommit
        <5>1. tx' = [tx EXCEPT !.n = 11] /\ UNCHANGED <<pending, outcome, retry>>
          BY <2>2, <4>1 DEF RollbackCommit
        <5>2. Step = "commit"
          BY <4>1 DEF RollbackCommit
        <5>3. tx.n = 10
          BY <1>1, <1>2, <5>2, RollbackAt
        <5>. QED
          BY <5>1, <5>3
      <4>2. CASE RollbackReconnect
        <5>1. /\ tx' = [tx EXCEPT !.n = 12] /\ tx.n = 11
              /\ UNCHANGED <<pending, outcome, retry>>
          BY <2>2, <4>2 DEF RollbackReconnect
        <5>. QED
          BY <5>1
      <4>. QED
        BY <1>10, <4>1, <4>2
    <3>. QED
      BY <1>1, <1>3, <1>4, <1>5, <1>6, <1>7, <1>8, <1>10, <3>1
  <2>. QED
    BY <2>1, <2>2
<1>. QED
  BY <1>9, <1>10

LEMMA TransactionTypes ==
    ASSUME TypeOK, Flags, Transaction
    PROVE  TypeOK'
<1>1. CASE ApplyStep
  <2>1. /\ w' \in WorldType /\ tx' \in TxType /\ tx'.phase = "apply"
        /\ left' \in [Disturbances -> Nat] /\ UNCHANGED applyFrame
    BY <1>1, ApplyStepLeaves
  <2>. QED
    BY <2>1 DEF TypeOK, applyFrame, inputVars, managerVars
<1>2. CASE ApplyFails
  <2>1. /\ w' \in WorldType /\ tx' \in TxType /\ tx'.n <= 12
        /\ left' \in [Disturbances -> Nat] /\ UNCHANGED applyFrame
    BY <1>2, ApplyFailsLeaves
  <2>. QED
    BY <2>1 DEF TypeOK, applyFrame, inputVars, managerVars
<1>3. CASE ApplyCommit
  BY <1>3, ApplyCommitLeaves DEF TypeOK, inputVars
<1>4. CASE RollbackStep \/ RollbackStepFails
  <2>1. PICK failed, broken \in BOOLEAN :
             /\ RollbackGoesOn(failed, broken)
             /\ w' \in WorldType /\ tx # None /\ tx.phase = "rollback"
             /\ tx.n <= 9 /\ retry.attempts < MaxApplyAttempts
             /\ left' \in [Disturbances -> Nat]
             /\ UNCHANGED rollbackFrame
    BY <1>4, RollbackCallLeaves
  <2>2. /\ pending' = pending /\ retry' \in RetryType /\ outcome' \in Outcomes
        /\ tx' = None \/ (tx' \in TxType /\ tx'.n <= 12)
    <3>1. "error" \in Outcomes /\ retry \in RetryType /\ outcome \in Outcomes
      BY DEF TypeOK, Outcomes
    <3>2. CASE tx' = None /\ outcome' = "error" /\ pending' = pending /\ retry' \in RetryType
      BY <3>1, <3>2
    <3>3. CASE tx' \in TxType /\ tx'.n <= 10 /\ UNCHANGED <<pending, outcome, retry>>
      BY <3>1, <3>3 DEF TxType
    <3>. QED
      BY <2>1, <3>2, <3>3, GoesOnLeaves
  <2>. QED
    BY <2>1, <2>2 DEF TypeOK, rollbackFrame, inputVars
<1>5. CASE RollbackCommit \/ RollbackReconnect \/ RollbackEndFails
  <2>1. /\ w' \in WorldType /\ left' \in [Disturbances -> Nat] /\ UNCHANGED rollbackFrame
    BY <1>5, RollbackEndLeaves
  <2>2. /\ pending' \in {pending, None} /\ retry' \in RetryType /\ outcome' \in Outcomes
        /\ tx' = None \/ (tx' \in TxType /\ tx'.n <= 12)
    <3>1. "error" \in Outcomes /\ retry \in RetryType /\ outcome \in Outcomes
      BY DEF TypeOK, Outcomes
    <3>. QED
      BY <1>5, <3>1, RollbackEndLeaves
  <2>. QED
    BY <2>1, <2>2 DEF TypeOK, rollbackFrame, inputVars
<1>. QED
  BY <1>1, <1>2, <1>3, <1>4, <1>5 DEF Transaction

\* A manager that knows nothing.
LEMMA NewManagerTypes ==
    ASSUME NewManager
    PROVE  /\ pending' = None /\ tx' = None /\ last' \in LastType /\ blocked' \in BlockedType
           /\ retry' \in RetryType /\ outcome' \in Outcomes
<1>1. Empty \in Configs /\ "absent" \in Contexts /\ 0 \in 0..MaxApplyAttempts
  BY ConfigAssumption, AttemptsAssumption DEF Contexts
<1>. QED
  BY <1>1 DEF NewManager, NothingApplied, NotBlocked, NoSequence, LastType, BlockedType,
              RetryType, Outcomes

\* What the world does to itself.
LEMMA WorldLeaves ==
    ASSUME TypeOK, World
    PROVE  /\ w' \in WorldType
           /\ UNCHANGED w \/ Reboot \/ Autoconnect \/ (tx = None /\ tx' = tx)
<1>1. w \in WorldType
  BY DEF TypeOK
<1>2. CASE Reboot
  <2>1. w' = [w EXCEPT !.mem = w.disk, !.auto = w.diskAuto, !.active = FALSE, !.registered = TRUE]
    BY <1>2 DEF Reboot
  <2>. QED
    BY <1>1, <1>2, <2>1 DEF WorldType
<1>3. CASE Autoconnect
  <2>1. PICK c \in {w.cid} \cup (IF w.mem.apn = "" THEN {"operator"} ELSE {}) :
          w' = [w EXCEPT !.active = TRUE, !.registered = TRUE, !.cid = c]
    BY <1>3 DEF Autoconnect
  <2>2. c \in Contexts
    BY <1>1, <2>1 DEF WorldType, Contexts
  <2>3. w' \in WorldType
    BY <1>1, <2>1, <2>2 DEF WorldType
  <2>. QED
    BY <1>3, <2>3
<1>4. CASE \E p \in ModemPaths : Reprobe(p)
  <2>1. /\ w' = [w EXCEPT !.active = FALSE, !.registered = TRUE]
        /\ tx = None /\ tx' = tx
    BY <1>4 DEF Reprobe
  <2>2. w' \in WorldType
    BY <1>1, <2>1 DEF WorldType
  <2>. QED
    BY <2>1, <2>2
<1>5. CASE UNCHANGED w
  BY <1>1, <1>5
<1>. QED
  BY <1>2, <1>3, <1>4, <1>5 DEF World, Crash, SwapSim, ChangeSettings

LEMMA OtherTypes ==
    ASSUME TypeOK, Cancel \/ Remedy \/ ResetRetry \/ RetryDelayPasses \/ World
    PROVE  TypeOK'
<1>1. left' \in [Disturbances -> Nat]
  BY UseType, DisturbanceKinds
     DEF TypeOK, Cancel, Remedy, ResetRetry, RetryDelayPasses, World, Crash, Reboot, Autoconnect,
         Reprobe, SwapSim, ChangeSettings
<1>2. CASE Cancel
  <2>1. tx \in TxType /\ tx # None /\ tx' = [tx EXCEPT !.cancelled = TRUE]
    BY <1>2 DEF TypeOK, Cancel
  <2>2. tx' \in TxType /\ tx'.phase = tx.phase /\ tx'.n = tx.n
    BY <2>1 DEF TxType
  <2>. QED
    BY <1>1, <1>2, <2>1, <2>2 DEF Cancel, TypeOK, inputVars, managerVars
<1>3. CASE Remedy
  <2>1. PICK r \in BOOLEAN : w' = [w EXCEPT !.registered = r] \/ w' = [w EXCEPT !.active = r]
    BY <1>3 DEF Remedy
  <2>2. w' \in WorldType
    BY <2>1 DEF TypeOK, WorldType
  <2>. QED
    BY <1>1, <1>3, <2>2 DEF Remedy, TypeOK, inputVars, managerVars
<1>4. CASE ResetRetry
  <2>1. retry' \in RetryType
    <3>1. 0 \in 0..MaxApplyAttempts
      BY AttemptsAssumption
    <3>. QED
      BY <1>4, <3>1 DEF ResetRetry, TypeOK, RetryType
  <2>2. last' \in LastType
    BY <1>4 DEF ResetRetry, TypeOK, LastType
  <2>. QED
    BY <1>1, <1>4, <2>1, <2>2 DEF ResetRetry, TypeOK, inputVars
<1>5. CASE RetryDelayPasses
  <2>1. retry' \in RetryType
    BY <1>5 DEF RetryDelayPasses, TypeOK, RetryType
  <2>. QED
    BY <1>1, <1>5, <2>1 DEF RetryDelayPasses, TypeOK, inputVars
<1>6. CASE Crash \/ Reboot
  <2>1. NewManager /\ UNCHANGED inputVars /\ w' \in WorldType
    BY <1>6, WorldLeaves DEF World, Crash, Reboot
  <2>. QED
    BY <1>1, <2>1, NewManagerTypes DEF TypeOK, inputVars
<1>7. CASE Autoconnect \/ \E p \in ModemPaths : Reprobe(p)
  <2>1. w' \in WorldType
    BY <1>7, WorldLeaves DEF World
  <2>2. iccid' = iccid /\ path' \in ModemPaths /\ desired' = desired
    BY <1>7 DEF Autoconnect, Reprobe, TypeOK, inputVars
  <2>3. UNCHANGED <<managerVars, tx, outcome>>
    BY <1>7 DEF Autoconnect, Reprobe
  <2>. QED
    BY <1>1, <2>1, <2>2, <2>3 DEF TypeOK, managerVars
<1>8. CASE (\E i \in ICCIDs : SwapSim(i)) \/ \E c \in Configs : ChangeSettings(c)
  <2>1. iccid' \in ICCIDs /\ path' = path /\ desired' \in Configs /\ w' = w
    BY <1>8 DEF SwapSim, ChangeSettings, TypeOK
  <2>2. UNCHANGED <<managerVars, tx, outcome>>
    BY <1>8 DEF SwapSim, ChangeSettings
  <2>. QED
    BY <1>1, <2>1, <2>2 DEF TypeOK, managerVars
<1>. QED
  BY <1>2, <1>3, <1>4, <1>5, <1>6, <1>7, <1>8 DEF World

-----------------------------------------------------------------------------
(* The invariant *)

LEMMA ApnInit ==
    ASSUME Init
    PROVE  ApnInv
<1>1. /\ w \in WorldType /\ last \in LastType /\ blocked \in BlockedType /\ retry \in RetryType
      /\ outcome \in Outcomes /\ left \in [Disturbances -> Nat]
  <2>1. w \in WorldType
    BY ProfilesAssumption DEF Init
  <2>2. Empty \in Configs /\ "absent" \in Contexts /\ 0 \in 0..MaxApplyAttempts
    BY ConfigAssumption, AttemptsAssumption DEF Contexts
  <2>3. left \in [Disturbances -> Nat]
    BY BoundsAssumption DEF Init
  <2>. QED
    BY <2>1, <2>2, <2>3 DEF Init, NothingApplied, NotBlocked, NoSequence, LastType, BlockedType,
       RetryType, Outcomes
<1>2. tx = None /\ pending = None
  BY DEF Init
<1>3. TypeOK
  BY <1>1, <1>2 DEF Init, TypeOK
<1>. QED
  BY <1>2, <1>3 DEF ApnInv, Flags, Quiet, ReadBack, OwnSnapshot, NoForeignCredentials, Applying,
                    RollingBack

\* Without a transaction only the kept snapshot matters.
LEMMA Idle ==
    ASSUME OwnSnapshot, TypeOK', tx' = None, pending' \in {pending, None}
    PROVE  ApnInv'
<1>. QED
  BY DEF ApnInv, Flags, Quiet, ReadBack, OwnSnapshot, NoForeignCredentials, Applying, RollingBack

LEMMA ReconcileKeeps ==
    ASSUME ApnInv, Reconcile
    PROVE  ApnInv'
<1>1. TypeOK /\ TypeOK' /\ OwnSnapshot
  BY ReconcileTypes DEF ApnInv
<1>2. CASE ReconcileApply
  <2>1. /\ tx'.phase = "apply" /\ tx'.n = 1 /\ tx'.failed = FALSE /\ tx'.broken = FALSE
        /\ tx'.changed = (pending # None \/ clearSIM)
        /\ tx'.before = RestorePoint /\ tx'.state = Policy /\ tx'.in.iccid = iccid
    BY <1>2 DEF ReconcileApply, Input
  <2>2. /\ pending' \in PendingType /\ pending'.before = RestorePoint
        /\ pending'.state = Policy /\ pending'.iccid = iccid
    BY <1>1, <1>2, ReconcileOperands DEF ReconcileApply, PendingType, TypeOK
  <2>3. retry'.attempts < MaxApplyAttempts /\ w' = w
    BY <1>1, <1>2, ReconcileOperands, AttemptsAssumption DEF ReconcileApply, Exhausted, RetryType
  <2>4. RestorePoint.of \in {None, iccid}
    BY <1>1 DEF RestorePoint, Written, Snapshot, readCurrent, OwnSnapshot, NoForeignCredentials
  <2>5. ~(pending # None \/ clearSIM) => RestorePoint.nm = w.mem
    BY DEF RestorePoint, Snapshot, readCurrent
  <2>6. Flags'
    BY <2>1, <2>2, <2>3, NoRecordAssumption DEF Flags, Applying, RollingBack
  <2>7. Quiet'
    BY <2>1 DEF Quiet, Applying, RollingBack
  <2>8. ReadBack'
    <3>1. ~tx'.changed => w'.mem = tx'.before.nm
      BY <2>1, <2>3, <2>5
    <3>2. ~RollingBack' /\ ~(tx'.n > 9) /\ ~(tx'.n > 12)
      BY <2>1 DEF RollingBack
    <3>. QED
      BY <3>1, <3>2 DEF ReadBack
  <2>9. OwnSnapshot'
    BY <2>1, <2>2, <2>4 DEF OwnSnapshot, NoForeignCredentials
  <2>. QED
    BY <1>1, <2>6, <2>7, <2>8, <2>9 DEF ApnInv
<1>3. CASE ~ReconcileApply
  <2>1. tx' = None /\ pending' = pending
    BY <1>3 DEF Reconcile, ReconcileRefused, ReconcileBlocked, ReconcileMatches, ReconcileWaits,
                ReconcileStateFails
  <2>. QED
    BY <1>1, <2>1, Idle
<1>. QED
  BY <1>2, <1>3

\* Steps that leave the world and the place in the transaction alone.
LEMMA SamePlace ==
    ASSUME ApnInv, TypeOK', w' = w, pending' = pending, retry'.attempts = retry.attempts,
           tx # None,
           tx'.phase = tx.phase, tx'.n = tx.n, tx'.in = tx.in, tx'.cfg = tx.cfg,
           tx'.before = tx.before, tx'.state = tx.state, tx'.changed = tx.changed,
           tx'.failed = tx.failed, tx'.broken = tx.broken
    PROVE  ApnInv'
<1>1. Flags'
  BY DEF ApnInv, Flags, Applying, RollingBack
<1>2. Quiet'
  BY DEF ApnInv, Quiet, Applying, RollingBack
<1>3. ReadBack'
  BY DEF ApnInv, ReadBack, Applying, RollingBack
<1>4. OwnSnapshot'
  BY DEF ApnInv, OwnSnapshot, NoForeignCredentials
<1>. QED
  BY <1>1, <1>2, <1>3, <1>4 DEF ApnInv

\* NetworkManager acts by itself only where the transaction has not suspended it.
LEMMA AutoconnectKeeps ==
    ASSUME ApnInv, Autoconnect, TypeOK'
    PROVE  ApnInv'
<1>1. /\ w \in WorldType /\ w.auto
      /\ tx' = tx /\ pending' = pending /\ retry' = retry
  BY DEF ApnInv, TypeOK, Autoconnect, managerVars
<1>2. /\ w'.mem = w.mem /\ w'.disk = w.disk /\ w'.auto = w.auto
      /\ w'.diskAuto = w.diskAuto /\ w'.active
  BY <1>1 DEF Autoconnect, WorldType
<1>3. CASE tx = None
  BY <1>1, <1>3, Idle DEF ApnInv
<1>4. CASE tx # None
  <2>1. tx \in TxType /\ tx.n \in 1..13
    BY <1>4 DEF ApnInv, TypeOK, TxType
  <2>2. Applying => tx.n = 1
    BY <1>1, <2>1 DEF ApnInv, Quiet
  <2>3. RollingBack => tx.broken \/ tx.n = 1 \/ (tx.n = 10 /\ ~tx.changed) \/ tx.n > 10
    BY <1>1, <2>1 DEF ApnInv, Quiet
  <2>4. Flags'
    BY <1>1 DEF ApnInv, Flags, Applying, RollingBack
  <2>5. Quiet'
    BY <1>1, <2>1, <2>2, <2>3 DEF Quiet, Applying, RollingBack
  <2>6. ReadBack'
    <3>1. ReadBack /\ Flags /\ (Applying' <=> Applying) /\ (RollingBack' <=> RollingBack)
      BY <1>1 DEF ApnInv, Applying, RollingBack
    <3>2. CASE Applying
      BY <1>1, <1>2, <2>1, <2>2, <3>1, <3>2 DEF ReadBack, Applying, RollingBack
    <3>3. CASE RollingBack
      <4>1. tx.broken => tx.n < 10 /\ tx.failed
        BY <2>1, <3>1, <3>3 DEF Flags
      <4>2. tx.n \notin {2, 3, 4, 5, 6, 7, 8} => tx.n # 9 \/ tx.failed
        BY <2>1, <2>3, <3>3, <4>1
      <4>3. ~(tx.n = 10 /\ tx.changed)
        BY <2>1, <2>3, <3>3, <4>1
      <4>4. tx.n >= 10 => w'.mem = tx.before.nm
        BY <1>2, <3>1, <3>3 DEF ReadBack
      <4>5. tx.n > 10 => /\ w'.disk = tx.before.nm /\ w'.auto = tx.state.autoconnect
                         /\ w'.diskAuto = tx.state.autoconnect /\ w'.active
        BY <1>2, <3>1, <3>3 DEF ReadBack
      <4>6. ~Applying'
        BY <3>1, <3>3 DEF Applying, RollingBack
      <4>. QED
        BY <1>1, <3>1, <4>2, <4>3, <4>4, <4>5, <4>6 DEF ReadBack
    <3>. QED
      BY <3>1, <3>2, <3>3 DEF ReadBack
  <2>7. OwnSnapshot'
    BY <1>1 DEF ApnInv, OwnSnapshot, NoForeignCredentials
  <2>. QED
    BY <2>4, <2>5, <2>6, <2>7 DEF ApnInv
<1>. QED
  BY <1>3, <1>4

LEMMA OtherKeeps ==
    ASSUME ApnInv, Cancel \/ Remedy \/ ResetRetry \/ RetryDelayPasses \/ World
    PROVE  ApnInv'
<1>1. TypeOK /\ TypeOK' /\ OwnSnapshot
  BY OtherTypes DEF ApnInv
<1>2. CASE Autoconnect
  BY <1>1, <1>2, AutoconnectKeeps
<1>3. CASE Crash \/ Reboot
  BY <1>1, <1>3, Idle DEF Crash, Reboot, NewManager
<1>4. CASE Cancel
  <2>1. tx \in TxType /\ tx # None /\ tx' = [tx EXCEPT !.cancelled = TRUE]
    BY <1>1, <1>4 DEF TypeOK, Cancel
  <2>2. /\ tx'.phase = tx.phase /\ tx'.n = tx.n /\ tx'.in = tx.in /\ tx'.cfg = tx.cfg
        /\ tx'.before = tx.before /\ tx'.state = tx.state /\ tx'.changed = tx.changed
        /\ tx'.failed = tx.failed /\ tx'.broken = tx.broken
    BY <2>1 DEF TxType
  <2>3. w' = w /\ pending' = pending /\ retry' = retry
    BY <1>4 DEF Cancel, managerVars
  <2>. QED
    BY <1>1, <2>1, <2>2, <2>3, SamePlace
<1>5. CASE Remedy \/ ResetRetry \/ \E p \in ModemPaths : Reprobe(p)
  BY <1>1, <1>5, Idle DEF Remedy, ResetRetry, Reprobe, managerVars
<1>6. CASE RetryDelayPasses \/ (\E i \in ICCIDs : SwapSim(i)) \/ \E c \in Configs : ChangeSettings(c)
  <2>1. w' = w /\ pending' = pending /\ tx' = tx
    BY <1>6 DEF RetryDelayPasses, SwapSim, ChangeSettings, managerVars
  <2>2. retry'.attempts = retry.attempts
    BY <1>1, <1>6 DEF RetryDelayPasses, SwapSim, ChangeSettings, managerVars, TypeOK, RetryType
  <2>. QED
    BY <1>1, <2>1, <2>2, SamePlace, Idle
<1>. QED
  BY <1>2, <1>3, <1>4, <1>5, <1>6 DEF World

-----------------------------------------------------------------------------
(* The invariant in a transaction *)

\* What a successful call of apply does to the world.
LEMMA ApplyStepWorld ==
    ASSUME TypeOK, ApplyStep
    PROVE  /\ tx.n = 1 => ~w'.auto
           /\ tx.n # 1 => w'.auto = w.auto
           /\ tx.n = 2 => ~w'.active
           /\ tx.n \notin {2, 11} => w'.active = w.active
           /\ tx.n = 3 => ~w'.registered
           /\ tx.n \notin {3, 10} => w'.registered = w.registered
           /\ tx.n # 4 => w'.mem = w.mem
           /\ tx.n \notin {6, 11} => w'.cid = w.cid
           /\ tx.n = 9 => w.mem = Profile(tx.cfg)
           /\ tx.n = 12 => tx.cfg = Empty \/ w.cid = tx.cfg.apn
           /\ w'.disk = w.disk /\ w'.diskAuto = w.diskAuto
<1>1. w \in WorldType /\ tx \in TxType /\ tx.phase = "apply"
  BY DEF TypeOK, ApplyStep
<1>2. tx.n \in 1..12
  BY <1>1, ApplyStepLeaves DEF TxType
<1>3. Target.nm = Profile(tx.cfg) /\ Target.cid = tx.cfg.apn
  BY <1>1 DEF Target, Written, Snapshot
<1>4. /\ tx.n = 9 => w.mem = Profile(tx.cfg)
      /\ tx.n = 12 => tx.cfg = Empty \/ w.cid = tx.cfg.apn
  <2>1. Passes /\ (Step = "readNM" <=> tx.n = 9) /\ (Step = "recheck" <=> tx.n = 12)
    BY <1>1, ApplyAt DEF ApplyStep
  <2>. QED
    BY <1>3, <2>1 DEF Passes
<1>5. /\ w' \in Effects \/ Acknowledged \/ (Step = "writeMM" /\ w' = w)
      /\ Step # "commit"
  BY DEF ApplyStep
<1>6. CASE w' \in Effects
  <2>1. /\ tx.n # 4 => w'.mem = w.mem
        /\ w'.disk = w.disk /\ w'.diskAuto = w.diskAuto
    BY <1>1, <1>2, <1>5, <1>6, CallEffect, ApplyAt
  <2>2. /\ tx.n = 1 => ~w'.auto
        /\ tx.n # 1 => w'.auto = w.auto
    BY <1>1, <1>2, <1>5, <1>6, CallEffect, ApplyAt
  <2>3. /\ tx.n = 2 => ~w'.active
        /\ tx.n \notin {2, 11} => w'.active = w.active
    BY <1>1, <1>2, <1>5, <1>6, CallEffect, ApplyAt
  <2>4. /\ tx.n = 3 => ~w'.registered
        /\ tx.n \notin {3, 10} => w'.registered = w.registered
    BY <1>1, <1>2, <1>5, <1>6, CallEffect, ApplyAt
  <2>5. tx.n \notin {6, 11} => w'.cid = w.cid
    BY <1>1, <1>2, <1>5, <1>6, CallEffect, ApplyAt
  <2>. QED
    BY <1>4, <2>1, <2>2, <2>3, <2>4, <2>5
<1>7. CASE Acknowledged
  <2>1. \/ tx.n \in {4, 6} /\ w' = w
        \/ /\ tx.n = 11 /\ w'.mem = w.mem /\ w'.disk = w.disk /\ w'.auto = w.auto
           /\ w'.diskAuto = w.diskAuto /\ w'.registered = w.registered
    BY <1>1, <1>7, OtherEffect, ApplyAt
  <2>. QED
    BY <1>2, <1>4, <2>1
<1>8. CASE Step = "writeMM" /\ w' = w
  <2>1. tx.n = 5
    BY <1>1, <1>8, ApplyAt
  <2>. QED
    BY <1>8, <2>1
<1>. QED
  BY <1>5, <1>6, <1>7, <1>8

\* What a call of the rollback does to the world, done is whether it succeeded.
LEMMA RollbackWorld ==
    ASSUME TypeOK, tx # None, tx.phase = "rollback", tx.n <= 12,
           w' \in {w} \cup Effects \/ Acknowledged
    PROVE  /\ tx.n \notin {1, 10} => w'.auto = w.auto
           /\ tx.n \notin {2, 12} => w'.active = w.active
           /\ tx.n \notin {3, 11} => w'.registered = w.registered
           /\ tx.n # 4 => w'.mem = w.mem
           /\ tx.n \notin {7, 12} => w'.cid = w.cid
           /\ tx.n # 10 => w'.disk = w.disk /\ w'.diskAuto = w.diskAuto
           /\ tx.n = 10 => /\ w'.disk \in {w.disk, w.mem}
                           /\ \/ UNCHANGED w
                              \/ /\ w'.auto = tx.state.autoconnect
                                 /\ w'.diskAuto = tx.state.autoconnect
           /\ (tx.n = 1 /\ ~w.auto) => ~w'.auto
           /\ (tx.n = 2 /\ ~w.active) => ~w'.active
           /\ (tx.n = 3 /\ ~w.registered) => ~w'.registered
           /\ (w' \in Effects \/ Acknowledged) =>
                 /\ tx.n = 1 => ~w'.auto
                 /\ tx.n = 2 => ~w'.active
                 /\ tx.n = 3 => ~w'.registered
                 /\ tx.n = 10 => /\ w'.disk = w.mem
                                 /\ w'.auto = tx.state.autoconnect
                                 /\ w'.diskAuto = tx.state.autoconnect
                 /\ tx.n = 12 => w'.active
<1>1. w \in WorldType /\ tx \in TxType /\ tx.n \in 1..12
  BY DEF TypeOK, TxType
<1>2. CASE w' \in Effects
  <2>1. /\ tx.n # 4 => w'.mem = w.mem
        /\ tx.n # 10 => w'.disk = w.disk /\ w'.diskAuto = w.diskAuto
        /\ tx.n = 10 => w'.disk = w.mem /\ w'.diskAuto = tx.state.autoconnect
    BY <1>1, <1>2, CallEffect, RollbackAt
  <2>2. /\ tx.n = 1 => ~w'.auto
        /\ tx.n = 10 => w'.auto = tx.state.autoconnect
        /\ tx.n \notin {1, 10} => w'.auto = w.auto
    BY <1>1, <1>2, CallEffect, RollbackAt
  <2>3. /\ tx.n = 2 => ~w'.active
        /\ tx.n = 12 => w'.active
        /\ tx.n \notin {2, 12} => w'.active = w.active
    BY <1>1, <1>2, CallEffect, RollbackAt
  <2>4. /\ tx.n = 3 => ~w'.registered
        /\ tx.n \notin {3, 11} => w'.registered = w.registered
    BY <1>1, <1>2, CallEffect, RollbackAt
  <2>5. tx.n \notin {7, 12} => w'.cid = w.cid
    BY <1>1, <1>2, CallEffect, RollbackAt
  <2>. QED
    BY <2>1, <2>2, <2>3, <2>4, <2>5
<1>3. CASE Acknowledged
  <2>1. \/ tx.n \in {4, 7} /\ w' = w
        \/ /\ tx.n = 12 /\ w'.active /\ w'.mem = w.mem /\ w'.disk = w.disk /\ w'.auto = w.auto
           /\ w'.diskAuto = w.diskAuto /\ w'.registered = w.registered
    BY <1>1, <1>3, OtherEffect, RollbackAt
  <2>. QED
    BY <1>1, <2>1
<1>4. CASE w' = w /\ w' \notin Effects /\ ~Acknowledged
  BY <1>4
<1>. QED
  BY <1>2, <1>3, <1>4

LEMMA ApplyStepKeeps ==
    ASSUME ApnInv, ApplyStep
    PROVE  ApnInv'
<1>1. TypeOK /\ Flags /\ Quiet /\ ReadBack /\ OwnSnapshot
  BY DEF ApnInv
<1>2. /\ tx \in TxType /\ tx # None /\ tx.phase = "apply" /\ tx.n \in 1..12 /\ tx'.n = tx.n + 1
      /\ tx'.changed <=> tx.changed \/ tx.n = 3
      /\ tx'.phase = "apply" /\ tx'.in = tx.in /\ tx'.cfg = tx.cfg
      /\ tx'.before = tx.before /\ tx'.state = tx.state
      /\ tx'.failed = tx.failed /\ tx'.broken = tx.broken
      /\ pending' = pending /\ retry' = retry
  BY <1>1, ApplyStepLeaves DEF ApplyStep, TxType, applyFrame, managerVars
<1>3. Applying /\ ~RollingBack /\ ~RollingBack'
  BY <1>2 DEF Applying, RollingBack
<1>4. TypeOK'
  BY <1>1, TransactionTypes DEF Transaction
<1>5. Flags'
  <2>1. tx'.n > 3 => tx'.changed
    BY <1>1, <1>2, <1>3 DEF Flags
  <2>. QED
    BY <1>1, <1>2, <1>3, <2>1 DEF Flags
<1>6. Quiet'
  <2>1. tx'.n > 1 => ~w'.auto
    BY <1>1, <1>2, <1>3, ApplyStepWorld DEF Quiet
  <2>2. tx'.n \in 3..10 => ~w'.active
    BY <1>1, <1>2, <1>3, ApplyStepWorld DEF Quiet
  <2>3. tx'.n \in 4..10 => ~w'.registered
    BY <1>1, <1>2, <1>3, ApplyStepWorld DEF Quiet
  <2>. QED
    BY <1>3, <2>1, <2>2, <2>3 DEF Quiet
<1>7. ReadBack'
  <2>1. ~tx'.changed => w'.mem = tx'.before.nm
    <3>1. ~tx'.changed => ~tx.changed /\ tx.n # 4
      BY <1>1, <1>2, <1>3 DEF Flags
    <3>. QED
      BY <1>1, <1>2, <1>3, <3>1, ApplyStepWorld DEF ReadBack
  <2>2. tx'.n > 9 => w'.mem = Profile(tx'.cfg)
    BY <1>1, <1>2, <1>3, ApplyStepWorld DEF ReadBack
  <2>3. tx'.n > 12 => tx'.cfg = Empty \/ w'.cid = tx'.cfg.apn
    <3>1. tx'.n > 12 => tx.n = 12
      BY <1>2
    <3>. QED
      BY <1>1, <1>2, <3>1, ApplyStepWorld
  <2>. QED
    BY <1>3, <2>1, <2>2, <2>3 DEF ReadBack
<1>8. OwnSnapshot'
  BY <1>1, <1>2 DEF OwnSnapshot, NoForeignCredentials
<1>. QED
  BY <1>4, <1>5, <1>6, <1>7, <1>8 DEF ApnInv

LEMMA ApplyFailsKeeps ==
    ASSUME ApnInv, ApplyFails
    PROVE  ApnInv'
<1>1. TypeOK /\ Flags /\ Quiet /\ ReadBack /\ OwnSnapshot
  BY DEF ApnInv
<1>2. /\ tx \in TxType /\ tx # None /\ tx.phase = "apply" /\ tx.n \in 1..13
      /\ tx'.n = (IF tx.changed THEN 1 ELSE 10) /\ tx'.changed = tx.changed
      /\ tx'.phase = "rollback" /\ tx'.in = tx.in
      /\ tx'.before = tx.before /\ tx'.state = tx.state
      /\ tx'.failed = tx.failed /\ tx'.broken = tx.broken
      /\ pending' = pending /\ retry' = retry
  BY <1>1, ApplyFailsLeaves DEF ApplyFails, TxType, applyFrame, managerVars
<1>3. Applying /\ ~Applying' /\ ~tx.failed /\ ~tx.broken
  BY <1>1, <1>2 DEF Applying, Flags
<1>4. TypeOK'
  BY <1>1, TransactionTypes DEF Transaction
<1>5. Flags'
  BY <1>1, <1>2, <1>3 DEF Flags
<1>6. Quiet'
  BY <1>2, <1>3 DEF Quiet
<1>7. ~tx.changed => w'.mem = tx.before.nm
  <2>1. ~tx.changed => tx.n <= 3
    BY <1>1, <1>2, <1>3 DEF Flags
  <2>2. w' \in {w} \cup Effects
    BY DEF ApplyFails
  <2>3. w \in WorldType /\ (~tx.changed => Step # "writeNM")
    BY <1>1, <1>2, <2>1, ApplyAt DEF TypeOK
  <2>. QED
    BY <1>1, <1>2, <1>3, <2>2, <2>3, CallEffect DEF ReadBack
<1>8. ReadBack'
  BY <1>2, <1>3, <1>7 DEF ReadBack
<1>9. OwnSnapshot'
  BY <1>1, <1>2 DEF OwnSnapshot, NoForeignCredentials
<1>. QED
  BY <1>4, <1>5, <1>6, <1>8, <1>9 DEF ApnInv

LEMMA RollbackCallKeeps ==
    ASSUME ApnInv, RollbackStep \/ RollbackStepFails
    PROVE  ApnInv'
<1>1. TypeOK /\ Flags /\ Quiet /\ ReadBack /\ OwnSnapshot
  BY DEF ApnInv
<1>2. PICK failed, broken \in BOOLEAN :
         /\ RollbackGoesOn(failed, broken)
         /\ tx \in TxType /\ tx # None /\ tx.phase = "rollback"
         /\ tx.n <= 9 /\ retry.attempts < MaxApplyAttempts
         /\ \/ RollbackStep /\ failed = tx.failed /\ broken = tx.broken
            \/ /\ RollbackStepFails /\ (failed <=> tx.failed \/ tx.n # 5)
               /\ (broken <=> tx.broken \/ tx.n <= 3)
  BY <1>1, RollbackCallLeaves
<1>3. RollingBack /\ ~Applying /\ tx.n \in 1..9 /\ tx.changed
  BY <1>1, <1>2 DEF RollingBack, Applying, Flags, TxType
<1>4. TypeOK'
  BY <1>1, TransactionTypes DEF Transaction
<1>5. CASE tx' = None
  <2>1. pending' = pending
    BY <1>1, <1>2, GoesOnLeaves
  <2>. QED
    BY <1>1, <1>4, <1>5, <2>1, Idle
<1>6. CASE tx' # None
  <2>1. /\ tx.n = 9 => ~failed
        /\ tx'.phase = "rollback" /\ tx'.n = Following(tx.n, broken)
        /\ tx'.failed = failed /\ tx'.broken = broken
        /\ tx'.changed = tx.changed /\ tx'.in = tx.in
        /\ tx'.before = tx.before /\ tx'.state = tx.state
        /\ pending' = pending /\ retry' = retry
    BY <1>1, <1>2, <1>6, GoesOnLeaves
  <2>2. ~Applying' /\ RollingBack'
    BY <1>6, <2>1 DEF Applying, RollingBack
  <2>3. /\ tx.broken => broken
        /\ tx.failed => failed
        /\ broken => failed
        /\ ~broken => ~tx.broken /\ (RollbackStep \/ tx.n > 3)
        /\ ~failed => RollbackStep \/ tx.n = 5
    <3>1. tx.broken => tx.failed
      BY <1>1, <1>3 DEF Flags
    <3>2. CASE RollbackStep /\ failed = tx.failed /\ broken = tx.broken
      BY <3>1, <3>2
    <3>3. CASE RollbackStepFails /\ (failed <=> tx.failed \/ tx.n # 5)
               /\ (broken <=> tx.broken \/ tx.n <= 3)
      BY <1>3, <3>1, <3>3
    <3>. QED
      BY <1>2, <3>2, <3>3
  <2>4. /\ tx'.n \in 2..10
        /\ tx'.n = 10 <=> tx.n = 9 /\ ~broken
        /\ ~broken => tx'.n = tx.n + 1
    BY <1>3, <2>1 DEF Following
  <2>5. w' \in {w} \cup Effects \/ Acknowledged
    BY <1>2 DEF RollbackStep, RollbackStepFails
  <2>6. RollbackStep => w' \in Effects \/ Acknowledged
    BY DEF RollbackStep
  <2>7. RollbackStep => /\ tx.n = 8 => w.cid = tx.before.cid
                        /\ tx.n = 9 => w.mem = tx.before.nm
    <3>1. /\ Step = "readCID" <=> tx.n = 8
          /\ Step = "readNM" <=> tx.n = 9
      BY <1>2, <1>3, RollbackAt
    <3>2. Target = tx.before
      BY <1>2 DEF Target
    <3>. QED
      BY <3>1, <3>2 DEF RollbackStep, Passes
  <2>8. Flags'
    <3>1. tx'.n >= 10 => ~tx'.failed
      BY <1>3, <2>1, <2>4
    <3>2. tx'.n <= 12 /\ tx'.changed /\ (tx'.broken => tx'.failed)
      BY <1>3, <2>1, <2>3, <2>4
    <3>3. retry'.attempts < MaxApplyAttempts /\ pending' # None /\ pending'.state = tx'.state
      BY <1>1, <1>2, <2>1 DEF Flags
    <3>. QED
      BY <2>2, <3>1, <3>2, <3>3 DEF Flags
  <2>9. Quiet'
    <3>1. ~broken => ~w'.auto
      BY <1>1, <1>2, <1>3, <2>3, <2>5, <2>6, RollbackWorld DEF Quiet
    <3>2. ~broken /\ tx'.n \in 3..9 => ~w'.active
      BY <1>1, <1>2, <1>3, <2>3, <2>4, <2>5, <2>6, RollbackWorld DEF Quiet
    <3>3. ~broken /\ tx'.n \in 4..9 => ~w'.registered
      BY <1>1, <1>2, <1>3, <2>3, <2>4, <2>5, <2>6, RollbackWorld DEF Quiet
    <3>. QED
      BY <2>1, <2>2, <3>1, <3>2, <3>3 DEF Quiet
  <2>10. ReadBack'
    <3>1. tx'.n = 9 => failed \/ w'.cid = tx.before.cid
      <4>1. tx'.n = 9 /\ ~failed => RollbackStep /\ tx.n = 8
        BY <1>3, <2>3, <2>4
      <4>. QED
        BY <1>1, <1>2, <1>3, <2>5, <2>7, <4>1, RollbackWorld
    <3>2. tx'.n >= 10 => tx'.n = 10 /\ tx.n = 9 /\ ~failed /\ RollbackStep
      BY <1>3, <2>1, <2>3, <2>4
    <3>3. tx'.n >= 10 => w'.mem = tx.before.nm /\ w'.cid = tx.before.cid
      <4>1. tx.n = 9 /\ ~failed => w.cid = tx.before.cid
        BY <1>1, <1>3, <2>3 DEF ReadBack
      <4>. QED
        BY <1>1, <1>2, <1>3, <2>5, <2>7, <3>2, <4>1, RollbackWorld
    <3>4. tx'.n = 9 => tx'.failed \/ w'.cid = tx'.before.cid
      BY <2>1, <3>1
    <3>5. tx'.n >= 10 => w'.mem = tx'.before.nm /\ w'.cid = tx'.before.cid /\ ~(tx'.n > 10)
      BY <2>1, <2>4, <3>3
    <3>6. ~(tx'.n > 10)
      BY <2>4
    <3>. QED
      BY <2>2, <3>4, <3>5, <3>6 DEF ReadBack
  <2>11. OwnSnapshot'
    BY <1>1, <1>6, <1>2, <2>1 DEF OwnSnapshot, NoForeignCredentials
  <2>. QED
    BY <1>4, <2>8, <2>9, <2>10, <2>11 DEF ApnInv
<1>. QED
  BY <1>5, <1>6

LEMMA RollbackEndKeeps ==
    ASSUME ApnInv, RollbackCommit \/ RollbackReconnect \/ RollbackEndFails
    PROVE  ApnInv'
<1>1. TypeOK /\ Flags /\ Quiet /\ ReadBack /\ OwnSnapshot
  BY DEF ApnInv
<1>2. TypeOK'
  BY <1>1, TransactionTypes DEF Transaction
<1>3. CASE tx' = None
  <2>1. pending' \in {pending, None}
    BY <1>1, RollbackEndLeaves
  <2>. QED
    BY <1>1, <1>2, <1>3, <2>1, Idle
<1>4. CASE tx' # None
  <2>1. /\ tx \in TxType /\ tx # None /\ tx.phase = "rollback" /\ tx.n \in 10..12
        /\ ~RollbackEndFails
        /\ tx'.phase = "rollback" /\ tx'.n \in 11..12 /\ tx'.n = tx.n + 1
        /\ tx'.failed = tx.failed /\ tx'.broken = tx.broken
        /\ tx'.changed = tx.changed /\ tx'.in = tx.in
        /\ tx'.before = tx.before /\ tx'.state = tx.state
        /\ pending' = pending /\ retry' = retry
    BY <1>1, <1>4, RollbackEndLeaves
  <2>2. RollingBack /\ ~Applying /\ RollingBack' /\ ~Applying'
    BY <1>4, <2>1 DEF Applying, RollingBack
  <2>3. w' \in Effects \/ Acknowledged
    BY <2>1 DEF RollbackCommit, RollbackReconnect
  <2>4. Flags'
    BY <1>1, <2>1, <2>2 DEF Flags
  <2>5. Quiet'
    BY <2>1, <2>2 DEF Quiet
  <2>6. ReadBack'
    <3>1. w.mem = tx.before.nm /\ w'.mem = w.mem
      BY <1>1, <2>1, <2>2, <2>3, RollbackWorld DEF ReadBack
    <3>2. /\ w'.disk = tx.before.nm /\ w'.auto = tx.state.autoconnect
          /\ w'.diskAuto = tx.state.autoconnect
      <4>1. CASE tx.n = 10
        BY <1>1, <2>1, <2>3, <3>1, <4>1, RollbackWorld
      <4>2. CASE tx.n = 11
        BY <1>1, <2>1, <2>2, <2>3, <4>2, RollbackWorld DEF ReadBack
      <4>. QED
        BY <2>1, <4>1, <4>2
    <3>3. tx.changed => w'.cid = tx.before.cid \/ w'.active
      <4>1. w'.cid = w.cid /\ w'.active = w.active
        BY <1>1, <2>1, <2>3, RollbackWorld
      <4>2. tx.changed => w.cid = tx.before.cid \/ w.active
        BY <1>1, <2>1, <2>2 DEF ReadBack
      <4>. QED
        BY <4>1, <4>2
    <3>. QED
      BY <2>1, <2>2, <3>1, <3>2, <3>3 DEF ReadBack
  <2>7. OwnSnapshot'
    BY <1>1, <2>1 DEF OwnSnapshot, NoForeignCredentials
  <2>. QED
    BY <1>2, <2>4, <2>5, <2>6, <2>7 DEF ApnInv
<1>. QED
  BY <1>3, <1>4

LEMMA ApnStep ==
    ASSUME ApnInv, [Next]_vars
    PROVE  ApnInv'
<1>1. CASE Reconcile
  BY <1>1, ReconcileKeeps
<1>2. CASE ApplyStep \/ ApplyFails
  BY <1>2, ApplyStepKeeps, ApplyFailsKeeps
<1>3. CASE ApplyCommit
  BY <1>3, ApplyCommitLeaves, TransactionTypes, Idle DEF ApnInv, Transaction
<1>4. CASE RollbackStep \/ RollbackStepFails
  BY <1>4, RollbackCallKeeps
<1>5. CASE RollbackCommit \/ RollbackReconnect \/ RollbackEndFails
  BY <1>5, RollbackEndKeeps
<1>6. CASE Cancel \/ Remedy \/ ResetRetry \/ RetryDelayPasses \/ World
  BY <1>6, OtherKeeps
<1>7. CASE UNCHANGED vars
  <2>1. TypeOK'
    BY <1>7 DEF ApnInv, TypeOK, vars, inputVars, managerVars
  <2>. QED
    BY <1>7, <2>1, SamePlace, Idle DEF ApnInv, vars, managerVars
<1>. QED
  BY <1>1, <1>2, <1>3, <1>4, <1>5, <1>6, <1>7 DEF Next, Transaction

LEMMA ApnInvariant == Spec => []ApnInv
<1>. QED
  BY ApnInit, ApnStep, PTL DEF Spec

-----------------------------------------------------------------------------
(* The user's policy *)

\* What a transaction does to the policy: it may suspend the one in memory, and
\* writes the one it has found to disk.
LEMMA TransactionPolicy ==
    ASSUME ApnInv, Transaction
    PROVE  /\ tx # None /\ pending # None
           /\ w'.diskAuto = w.diskAuto \/ w'.diskAuto = tx.state.autoconnect
           /\ pending' = None => /\ w'.auto = tx.state.autoconnect
                                 /\ \/ w'.diskAuto = tx.state.autoconnect
                                    \/ w'.diskAuto = w.diskAuto
           /\ pending' \in {pending, None}
           /\ left'["crashes"] = left["crashes"]
<1>1. TypeOK /\ Flags /\ ReadBack
  BY DEF ApnInv
<1>2. tx \in TxType /\ tx # None /\ pending # None /\ w \in WorldType
  BY <1>1 DEF TypeOK, Flags, Transaction, ApplyStep, ApplyFails, ApplyCommit, RollbackStep,
              RollbackStepFails, RollbackCommit, RollbackReconnect, RollbackEndFails
<1>3. CASE ApplyStep
  <2>1. pending' = pending /\ left'["crashes"] = left["crashes"]
    BY <1>1, <1>3, ApplyStepLeaves DEF applyFrame, managerVars
  <2>. QED
    BY <1>1, <1>2, <1>3, <2>1, ApplyStepWorld
<1>4. CASE ApplyFails
  <2>1. pending' = pending /\ left'["crashes"] = left["crashes"] /\ w' \in {w} \cup Effects
    BY <1>1, <1>4, ApplyFailsLeaves DEF ApplyFails, applyFrame, managerVars
  <2>. QED
    BY <1>2, <2>1, CallEffect
<1>5. CASE ApplyCommit
  <2>1. Step = "commit" /\ w' \in Effects
    BY <1>5 DEF ApplyCommit
  <2>2. w'.auto = tx.state.autoconnect /\ w'.diskAuto = tx.state.autoconnect
    BY <1>2, <2>1, CallEffect
  <2>. QED
    BY <1>1, <1>2, <1>5, <2>2, ApplyCommitLeaves
<1>6. CASE RollbackStep \/ RollbackStepFails
  <2>1. PICK failed, broken \in BOOLEAN :
             /\ RollbackGoesOn(failed, broken)
             /\ tx.phase = "rollback" /\ tx.n <= 9 /\ retry.attempts < MaxApplyAttempts
             /\ left'["crashes"] = left["crashes"]
    BY <1>1, <1>6, RollbackCallLeaves
  <2>2. pending' = pending
    BY <1>1, <1>2, <2>1, GoesOnLeaves
  <2>3. w' \in {w} \cup Effects \/ Acknowledged
    BY <1>6 DEF RollbackStep, RollbackStepFails
  <2>4. w'.diskAuto = w.diskAuto
    BY <1>1, <1>2, <2>1, <2>3, RollbackWorld DEF TxType
  <2>. QED
    BY <1>2, <2>1, <2>2, <2>4
<1>7. CASE RollbackCommit \/ RollbackReconnect \/ RollbackEndFails
  <2>1. /\ tx.phase = "rollback" /\ tx.n \in 10..12
        /\ pending' = pending \/ (pending' = None /\ ~RollbackEndFails)
        /\ left'["crashes"] = left["crashes"]
    BY <1>1, <1>7, RollbackEndLeaves
  <2>2. w' \in {w} \cup Effects \/ Acknowledged
    BY <1>7 DEF RollbackCommit, RollbackReconnect, RollbackEndFails
  <2>3. ~RollbackEndFails => w' \in Effects \/ Acknowledged
    BY <1>7 DEF RollbackCommit, RollbackReconnect
  <2>4. w'.diskAuto = w.diskAuto \/ w'.diskAuto = tx.state.autoconnect
    BY <1>1, <1>2, <2>1, <2>2, RollbackWorld
  <2>5. ~RollbackEndFails => w'.auto = tx.state.autoconnect
    <3>1. CASE tx.n = 10
      BY <1>1, <1>2, <2>1, <2>2, <2>3, <3>1, RollbackWorld
    <3>2. CASE tx.n > 10
      <4>1. RollingBack
        BY <1>2, <2>1 DEF RollingBack
      <4>. QED
        BY <1>1, <1>2, <2>1, <2>2, <3>2, <4>1, RollbackWorld DEF ReadBack
    <3>. QED
      BY <2>1, <3>1, <3>2
  <2>. QED
    BY <1>2, <2>1, <2>4, <2>5
<1>. QED
  BY <1>3, <1>4, <1>5, <1>6, <1>7 DEF Transaction

\* Nothing else touches the policy, unless the process dies.
LEMMA OtherPolicy ==
    ASSUME ApnInv, Cancel \/ Remedy \/ ResetRetry \/ RetryDelayPasses \/ World
    PROVE  /\ w'.diskAuto = w.diskAuto
           /\ \/ left'["crashes"] < left["crashes"]
              \/ /\ left'["crashes"] = left["crashes"]
                 /\ pending' = pending /\ w'.auto = w.auto
<1>1. TypeOK /\ w \in WorldType
  BY DEF ApnInv, TypeOK
<1>2. CASE Crash \/ Reboot
  <2>1. left'["crashes"] < left["crashes"]
    BY <1>1, <1>2, UseType, DisturbanceKinds DEF TypeOK, Crash, Reboot
  <2>2. w'.diskAuto = w.diskAuto
    BY <1>1, <1>2 DEF Crash, Reboot, WorldType
  <2>. QED
    BY <2>1, <2>2
<1>3. CASE ~(Crash \/ Reboot)
  <2>1. left'["crashes"] = left["crashes"]
    BY <1>1, <1>3, UseType, DisturbanceKinds
       DEF TypeOK, Disturbances, Cancel, Remedy, ResetRetry, RetryDelayPasses, World, Autoconnect,
           Reprobe, SwapSim, ChangeSettings
  <2>2. pending' = pending
    BY <1>3 DEF Cancel, Remedy, ResetRetry, RetryDelayPasses, World, Autoconnect,
                Reprobe, SwapSim, ChangeSettings, managerVars
  <2>3. w'.auto = w.auto /\ w'.diskAuto = w.diskAuto
    <3>1. CASE Autoconnect
      <4>1. PICK c : w' = [w EXCEPT !.active = TRUE, !.registered = TRUE, !.cid = c]
        BY <3>1 DEF Autoconnect
      <4>. QED
        BY <1>1, <4>1 DEF WorldType
    <3>2. CASE Remedy
      <4>1. PICK r : w' = [w EXCEPT !.registered = r] \/ w' = [w EXCEPT !.active = r]
        BY <3>2 DEF Remedy
      <4>. QED
        BY <1>1, <4>1 DEF WorldType
    <3>3. CASE \E p \in ModemPaths : Reprobe(p)
      BY <1>1, <3>3 DEF Reprobe, WorldType
    <3>. QED
      BY <1>3, <3>1, <3>2, <3>3
         DEF Cancel, ResetRetry, RetryDelayPasses, World, SwapSim, ChangeSettings
  <2>. QED
    BY <2>1, <2>2, <2>3
<1>. QED
  BY <1>2, <1>3

\* Reconcile leaves the world alone, and finds the policy before it starts.
LEMMA ReconcilePolicy ==
    ASSUME ApnInv, Reconcile
    PROVE  /\ w' = w /\ left'["crashes"] = left["crashes"]
           /\ \/ pending' = pending
              \/ /\ pending' # None
                 /\ pending'.state.autoconnect =
                      IF pending = None THEN w.auto ELSE pending.state.autoconnect
<1>1. TypeOK
  BY DEF ApnInv
<1>2. w' = w /\ left'["crashes"] = left["crashes"]
  BY <1>1, UseType, DisturbanceKinds
     DEF TypeOK, Disturbances, Reconcile, ReconcileRefused, ReconcileBlocked, ReconcileMatches,
         ReconcileWaits, ReconcileApply, ReconcileStateFails
<1>3. CASE ReconcileApply
  <2>1. pending'.state = Policy
    BY <1>3 DEF ReconcileApply
  <2>2. pending' # None
    BY <1>1, <1>3, ReconcileOperands, NoRecordAssumption
       DEF ReconcileApply, TypeOK, PendingType
  <2>. QED
    BY <1>2, <2>1, <2>2 DEF Policy
<1>4. CASE ~ReconcileApply
  BY <1>2, <1>4
     DEF Reconcile, ReconcileRefused, ReconcileBlocked, ReconcileMatches, ReconcileWaits,
         ReconcileStateFails
<1>. QED
  BY <1>3, <1>4

LEMMA PolicyInit ==
    ASSUME Init, PoliciesAgree
    PROVE  PolicyKept
<1>1. left = Bounds /\ Bounds["crashes"] \in Nat /\ pending = None /\ w \in Profiles
  BY BoundsAssumption, DisturbanceKinds DEF Init
<1>. QED
  BY <1>1 DEF PoliciesAgree, PolicyKept

LEMMA PolicyStep ==
    ASSUME ApnInv, PolicyKept, [Next]_vars
    PROVE  /\ PolicyKept'
           /\ NoCrash => w'.diskAuto = w.diskAuto
<1>1. left["crashes"] \in Nat /\ Bounds["crashes"] \in Nat
  BY BoundsAssumption, DisturbanceKinds DEF ApnInv, TypeOK
<1>2. left'["crashes"] \in Nat
  BY ApnStep, DisturbanceKinds DEF ApnInv, TypeOK
<1>3. CASE Reconcile
  BY <1>3, ReconcilePolicy DEF PolicyKept, NoCrash
<1>4. CASE Transaction
  <2>1. tx.state = pending.state /\ pending # None
    BY <1>4, TransactionPolicy DEF ApnInv, Flags
  <2>. QED
    BY <1>4, <2>1, TransactionPolicy DEF PolicyKept, NoCrash
<1>5. CASE Cancel \/ Remedy \/ ResetRetry \/ RetryDelayPasses \/ World
  BY <1>1, <1>2, <1>5, OtherPolicy DEF PolicyKept, NoCrash
<1>6. CASE UNCHANGED vars
  BY <1>6 DEF vars, managerVars, PolicyKept, NoCrash
<1>. QED
  BY <1>3, <1>4, <1>5, <1>6 DEF Next

-----------------------------------------------------------------------------
(* What is persisted, and what a rollback leaves *)

\* Only the commits write the profile's file, and what they write has been read back.
LEMMA CommitStep ==
    ASSUME ApnInv, [Next]_vars, w'.disk # w.disk
    PROVE  /\ w'.disk = Target.nm
           /\ w.cid # Target.cid => IF tx.phase = "apply" THEN tx.cfg = Empty ELSE ~tx.changed
<1>1. TypeOK /\ Flags /\ Quiet /\ ReadBack /\ w \in WorldType
  BY DEF ApnInv, TypeOK
<1>2. CASE Transaction
  <2>1. tx \in TxType /\ tx # None
    BY <1>1, <1>2 DEF TypeOK, Transaction, ApplyStep, ApplyFails, ApplyCommit, RollbackStep,
              RollbackStepFails, RollbackCommit, RollbackReconnect, RollbackEndFails
  <2>2. ~ApplyStep
    BY <1>1, ApplyStepWorld
  <2>3. CASE tx.phase = "apply"
    <3>1. w' \in {w} \cup Effects
      BY <1>2, <2>2, <2>3 DEF Transaction, ApplyFails, ApplyCommit, RollbackStep,
              RollbackStepFails, RollbackCommit, RollbackReconnect, RollbackEndFails
    <3>2. Step = "commit" /\ w'.disk = w.mem
      BY <1>1, <2>1, <3>1, CallEffect
    <3>3. tx.n = 13 /\ Applying
      BY <2>1, <2>3, <3>2, ApplyAt DEF Applying
    <3>4. Target.nm = Profile(tx.cfg) /\ Target.cid = tx.cfg.apn
      BY <2>3 DEF Target, Written, Snapshot
    <3>. QED
      BY <1>1, <2>3, <3>2, <3>3, <3>4 DEF ReadBack
  <2>4. CASE tx.phase = "rollback"
    <3>1. w' \in {w} \cup Effects \/ Acknowledged
      BY <1>2, <2>4 DEF Transaction, ApplyStep, ApplyFails, ApplyCommit, RollbackStep,
              RollbackStepFails, RollbackCommit, RollbackReconnect, RollbackEndFails
    <3>2. RollingBack /\ ~Applying /\ tx.n <= 12
      BY <1>1, <2>1, <2>4 DEF RollingBack, Applying, Flags
    <3>3. tx.n = 10 /\ w'.disk = w.mem
      BY <1>1, <2>1, <2>4, <3>1, <3>2, RollbackWorld
    <3>4. Target = tx.before
      BY <2>4 DEF Target
    <3>. QED
      BY <1>1, <2>4, <3>2, <3>3, <3>4 DEF ReadBack
  <2>. QED
    BY <2>1, <2>3, <2>4 DEF TxType
<1>3. CASE Reconcile
  BY <1>3, ReconcilePolicy
<1>4. CASE Cancel \/ Remedy \/ ResetRetry \/ RetryDelayPasses \/ World
  <2>1. CASE Autoconnect
    <3>1. PICK c : w' = [w EXCEPT !.active = TRUE, !.registered = TRUE, !.cid = c]
      BY <2>1 DEF Autoconnect
    <3>. QED
      BY <1>1, <3>1 DEF WorldType
  <2>2. CASE Remedy
    <3>1. PICK r : w' = [w EXCEPT !.registered = r] \/ w' = [w EXCEPT !.active = r]
      BY <2>2 DEF Remedy
    <3>. QED
      BY <1>1, <3>1 DEF WorldType
  <2>3. CASE Reboot \/ \E p \in ModemPaths : Reprobe(p)
    BY <1>1, <2>3 DEF Reboot, Reprobe, WorldType
  <2>. QED
    BY <1>4, <2>1, <2>2, <2>3
       DEF Cancel, ResetRetry, RetryDelayPasses, World, Crash, SwapSim, ChangeSettings
<1>5. CASE UNCHANGED vars
  BY <1>5 DEF vars
<1>. QED
  BY <1>2, <1>3, <1>4, <1>5 DEF Next

\* Apart from a crash, only the end of a complete rollback drops the snapshot of
\* a transaction that has failed.
LEMMA RestoreStep ==
    ASSUME ApnInv, [Next]_vars, tx # None, tx' = None, outcome' = "error", pending' = None
    PROVE  /\ w'.mem = tx.before.nm /\ w'.disk = tx.before.nm
           /\ w'.auto = tx.state.autoconnect /\ w'.diskAuto = tx.state.autoconnect
           /\ tx.changed => w'.cid = tx.before.cid \/ w'.active
<1>1. TypeOK /\ Flags /\ ReadBack /\ pending # None
  BY DEF ApnInv, Flags
<1>2. ~Reconcile
  BY DEF Reconcile, ReconcileRefused, ReconcileBlocked, ReconcileMatches, ReconcileWaits,
         ReconcileApply, ReconcileStateFails
<1>3. ~(Cancel \/ Remedy \/ ResetRetry \/ RetryDelayPasses \/ World)
  BY <1>1 DEF Cancel, Remedy, ResetRetry, RetryDelayPasses, World, Crash, Reboot, Autoconnect,
              Reprobe, SwapSim, ChangeSettings, NewManager, managerVars
<1>4. ~UNCHANGED vars
  BY <1>1 DEF vars, managerVars
<1>5. ~ApplyStep /\ ~ApplyFails /\ ~ApplyCommit
  BY <1>1, ApplyCommitLeaves DEF ApplyStep, ApplyFails, applyFrame, managerVars
<1>6. ~(RollbackStep \/ RollbackStepFails)
  <2>1. SUFFICES ASSUME RollbackStep \/ RollbackStepFails PROVE FALSE
    OBVIOUS
  <2>2. PICK failed, broken \in BOOLEAN :
             /\ RollbackGoesOn(failed, broken)
             /\ tx.phase = "rollback" /\ tx.n <= 9 /\ retry.attempts < MaxApplyAttempts
    BY <1>1, <2>1, RollbackCallLeaves
  <2>. QED
    BY <1>1, <2>2, GoesOnLeaves
<1>7. RollbackCommit \/ RollbackReconnect \/ RollbackEndFails
  BY <1>2, <1>3, <1>4, <1>5, <1>6 DEF Next, Transaction
<1>8. ~RollbackEndFails /\ tx.phase = "rollback" /\ tx.n \in 10..12
  BY <1>1, <1>7, RollbackEndLeaves
<1>9. w' \in Effects \/ Acknowledged
  BY <1>7, <1>8 DEF RollbackCommit, RollbackReconnect
<1>10. RollingBack
  BY <1>8 DEF RollingBack
<1>11. w'.mem = tx.before.nm
  BY <1>1, <1>8, <1>9, <1>10, RollbackWorld DEF ReadBack
<1>12. CASE tx.n = 10
  <2>1. /\ w'.disk = w.mem /\ w'.mem = w.mem /\ w'.cid = w.cid
        /\ w'.auto = tx.state.autoconnect /\ w'.diskAuto = tx.state.autoconnect
    BY <1>1, <1>8, <1>9, <1>12, RollbackWorld
  <2>. QED
    BY <1>1, <1>10, <1>11, <1>12, <2>1 DEF ReadBack
<1>13. CASE tx.n > 10
  <2>1. /\ w.disk = tx.before.nm /\ w.auto = tx.state.autoconnect
        /\ w.diskAuto = tx.state.autoconnect
        /\ tx.changed => w.cid = tx.before.cid \/ w.active
    BY <1>1, <1>10, <1>13 DEF ReadBack
  <2>2. w'.disk = w.disk /\ w'.auto = w.auto /\ w'.diskAuto = w.diskAuto
    BY <1>1, <1>8, <1>9, <1>13, RollbackWorld
  <2>3. w'.active \/ (w'.cid = w.cid /\ w'.active = w.active)
    BY <1>1, <1>8, <1>9, <1>13, RollbackWorld
  <2>. QED
    BY <1>11, <2>1, <2>2, <2>3
<1>. QED
  BY <1>8, <1>12, <1>13

-----------------------------------------------------------------------------
(* Theorems *)

\* Type correctness: the transaction never runs past its last call, and no
\* attempt is made beyond maxApplyAttempts (Manager.Reconcile).
THEOREM ApnTypeCorrect == Spec => []TypeOK
<1>1. ApnInv => TypeOK
  BY DEF ApnInv
<1>. QED
  BY <1>1, ApnInvariant, PTL

\* Settings are written only while the connection is down and the modem detached
\* (apply and rollback, after SetAutoconnect, Disconnect and the deregistration).
THEOREM WritesAreQuiet == Spec => []QuietWhileWriting
<1>1. ASSUME ApnInv PROVE QuietWhileWriting
  <2>1. SUFFICES ASSUME tx # None, ~tx.broken,
                        Step \in {"writeNM", "writeMM", "writeCID", "writeAuth", "readCID"}
                 PROVE  ~w.active /\ ~w.registered
    BY DEF QuietWhileWriting
  <2>2. tx \in TxType /\ Quiet /\ (tx.phase = "rollback" => tx.n <= 12)
    BY <1>1, <2>1 DEF ApnInv, TypeOK
  <2>3. tx.n \in 4..8
    <3>1. CASE tx.phase = "apply"
      BY <2>1, <2>2, <3>1, ApplyAt
    <3>2. CASE tx.phase = "rollback"
      BY <2>1, <2>2, <3>2, RollbackAt
    <3>. QED
      BY <2>2, <3>1, <3>2 DEF TxType
  <2>4. Applying \/ RollingBack
    BY <2>1, <2>2 DEF Applying, RollingBack, TxType
  <2>. QED
    BY <2>1, <2>2, <2>3, <2>4 DEF Quiet
<1>2. ApnInv => QuietWhileWriting
  BY <1>1
<1>. QED
  BY <1>2, ApnInvariant, PTL

\* A transaction begins with a snapshot read while its own SIM was inserted, or
\* with the cleared settings, and a snapshot kept by an incomplete rollback is of
\* the SIM it is kept for (Manager.Reconcile, pendingRollback). That the SIM is
\* still inserted when the rollback writes is not claimed: nothing in apply or
\* rollback would notice a swap.
THEOREM SnapshotIsOfItsSim == Spec => []NoForeignCredentials
<1>1. ApnInv => NoForeignCredentials
  BY DEF ApnInv, OwnSnapshot
<1>. QED
  BY <1>1, ApnInvariant, PTL

\* What Commit persists has been read back from the profile and, unless there is
\* nothing to check, from CID1 (apply and rollback).
THEOREM PersistsWhatWasRead == Spec => CommitValidated
<1>1. ASSUME ApnInv, [Next]_vars
      PROVE  [(w'.disk # w.disk) =>
                /\ w'.disk = Target.nm
                /\ w.cid # Target.cid =>
                     IF tx.phase = "apply" THEN tx.cfg = Empty ELSE ~tx.changed]_vars
  BY <1>1, CommitStep
<1>. QED
  BY <1>1, ApnInvariant, PTL DEF Spec, CommitValidated

\* A rollback that reports no failure has restored the profile and its policy, in
\* memory and on disk, and CID1 if it may have been written, unless the connection
\* is up (rollback). ModemManager's attach settings are not restored for sure.
THEOREM CompleteRollbackRestores == Spec => RollbackRestores
<1>1. ASSUME ApnInv, [Next]_vars
      PROVE  [(tx # None /\ tx' = None /\ outcome' = "error" /\ pending' = None) =>
                /\ w'.mem = tx.before.nm /\ w'.disk = tx.before.nm
                /\ w'.auto = tx.state.autoconnect /\ w'.diskAuto = tx.state.autoconnect
                /\ tx.changed => w'.cid = tx.before.cid \/ w'.active]_vars
  BY <1>1, RestoreStep
<1>. QED
  BY <1>1, ApnInvariant, PTL DEF Spec, RollbackRestores

\* The user's autoconnect policy survives every failure and cancellation of
\* transactions that suspend it (SetAutoconnect, Commit, pendingRollback), if
\* the service did not find a suspended profile when it started.
THEOREM PolicySurvives ==
    ASSUME PoliciesAgree
    PROVE  Spec => AutoconnectPreserved
<1>1. Spec => [](ApnInv /\ PolicyKept)
  BY ApnInit, ApnStep, PolicyInit, PolicyStep, PTL DEF Spec
<1>2. ASSUME ApnInv, PolicyKept, [Next]_vars
      PROVE  [left["crashes"] = Bounds["crashes"] => w'.diskAuto = w.diskAuto]_vars
  BY <1>2, PolicyStep DEF NoCrash
<1>. QED
  BY <1>1, <1>2, PTL DEF Spec, AutoconnectPreserved

=============================================================================
