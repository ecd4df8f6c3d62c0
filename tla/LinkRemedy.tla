---------------------------- MODULE LinkRemedy -----------------------------
(***************************************************************************)
(* Assessment of the local connectivity layers (link.Assessor) and the      *)
(* policy that applies remedies (Service.handleAssessment, applyRemedy).    *)
(*                                                                          *)
(* A check of the monitor takes a snapshot, assesses it, publishes and then *)
(* handles the verdict; commands may come in between.  One unit of time is  *)
(* a check interval.  Counters that are only compared with a threshold      *)
(* saturate there.                                                          *)
(***************************************************************************)
EXTENDS Integers, Sequences

CONSTANTS
    Snapshots,           \* local observations a check may make
    StableSession,       \* stableSessionSeconds
    FlapsBeforeFailing,  \* flapsBeforeFailing
    Confirmations,       \* remedyConfirmations
    Cooldown,            \* remedyCooldownFor, a function of the remedy
    MaxAttempts,         \* bound of a run: connection attempts of one bearer
    None                 \* absence of a value

Remedies == {"reattach", "bearer-bounce", "modem-reset"}

\* An observation: "unknown" is a field that could not be read.
SnapshotType ==
    [present : BOOLEAN, port : {"ok", "bad", "unknown"}, power : {"on", "off", "unknown"},
     simLock : BOOLEAN, registered : BOOLEAN, packet : {"attached", "detached", "unknown"},
     bearer : {"up", "down", "suspended", "no-address", "unknown"},
     at : {"unread", "agrees", "inactive", "other-address"},
     netdev : {"up", "no-carrier", "no-route", "unknown"}, address : {"same", "differs", "unknown"},
     session : BOOLEAN]

ASSUME SnapshotAssumption == Snapshots \subseteq SnapshotType
ASSUME ThresholdAssumption ==
    /\ StableSession \in Nat \ {0} /\ FlapsBeforeFailing \in Nat \ {0}
    /\ Confirmations \in Nat \ {0} /\ MaxAttempts \in Nat \ {0}
ASSUME CooldownAssumption == Cooldown \in [Remedies -> Nat \ {0}]

VARIABLES
    enabled, powered,            \* modemEnabled; what the monitor has applied of it
    session,                     \* attempts and duration of the live data session
    prev,                        \* session of the previous snapshot, or None
    flaps, escalation, wantAT,   \* of the Assessor
    pendingLayer, pendingRepeat, \* evidence for a remedy
    cooldown,                    \* time until each remedy may be applied again
    verdict,                     \* assessment still to be handled, or None
    before,                      \* history: layer of the last handled assessment
    bounced                      \* history: a bounce was the remedy of this liveness episode

vars == <<enabled, powered, session, prev, flaps, escalation, wantAT, pendingLayer,
          pendingRepeat, cooldown, verdict, before, bounced>>

AtMost(n, limit) == IF n > limit THEN limit ELSE n

-----------------------------------------------------------------------------
(* The assessor *)

LocalLayers == <<"hardware", "sim", "registration", "packet_service", "bearer", "netdev">>

\* The rules of checkLocal, by layer.
Faulty(s) ==
    [hardware |-> ~s.present \/ s.port = "bad" \/ s.power = "off",
     sim |-> s.simLock,
     registration |-> ~s.registered,
     packet_service |-> s.packet = "detached",
     bearer |-> s.bearer \in {"down", "suspended", "no-address"}
                \/ s.at \in {"inactive", "other-address"},
     netdev |-> s.netdev \in {"no-carrier", "no-route"} \/ s.address = "differs"]

\* checkLocal: the lowest failing layer, or "none".
FailedLocal(s) ==
    LET failing == {i \in DOMAIN LocalLayers : Faulty(s)[LocalLayers[i]]}
    IN  IF failing = {} THEN "none"
        ELSE LocalLayers[CHOOSE i \in failing : \A j \in failing : i <= j]

LocalRemedy ==
    [hardware |-> "modem-reset", sim |-> "none", registration |-> "none",
     packet_service |-> "reattach", bearer |-> "bearer-bounce", netdev |-> "bearer-bounce"]

\* Suspicious: worth an AT cross-check with the next snapshot.
Suspicious(s) ==
    s.bearer \in {"down", "suspended"} \/ s.packet = "detached" \/ s.address = "differs"

livenessLadder == <<"bearer-bounce", "reattach">>

\* sessionFlapped: a reconnect into a session that is still short.
SessionFlapped(cur) ==
    /\ prev # None /\ cur # None
    /\ cur.attempts > prev.attempts /\ cur.duration < StableSession

\* The observed session, or None if its statistics were not readable.
Observed(s) == IF s.session THEN session ELSE None

\* A session seen to be stable ends the episode.
Steady(s) ==
    /\ FailedLocal(s) = "none" /\ Observed(s) # None
    /\ ~SessionFlapped(Observed(s)) /\ session.duration >= StableSession

\* The count of flaps and the rung of the ladder after snapshot s.
Flaps(s) ==
    IF Steady(s) THEN 0
    ELSE IF FailedLocal(s) = "none" /\ SessionFlapped(Observed(s))
         THEN AtMost(flaps + 1, FlapsBeforeFailing) ELSE flaps
Rung(s) == IF Steady(s) THEN 0 ELSE escalation

\* What Assess returns for s.
Assessment(s) ==
    LET local == FailedLocal(s)
        failing == Flaps(s) >= FlapsBeforeFailing
    IN  [layer |-> IF local # "none" THEN local ELSE IF failing THEN "liveness" ELSE "none",
         remedy |-> IF local # "none" THEN LocalRemedy[local]
                    ELSE IF failing THEN livenessLadder[Rung(s) + 1] ELSE "none"]

\* Assess.  The previous snapshot is represented by its session.
Assess(s) ==
    /\ prev' = Observed(s) /\ flaps' = Flaps(s) /\ escalation' = Rung(s)
    /\ wantAT' = (Assessment(s).layer = "liveness" \/ Suspicious(s))
    /\ bounced' = IF Steady(s) THEN FALSE ELSE bounced

\* Mutant: a remedy for any layer advances the ladder.
NoteRemedyAppliedAnyLayer(layer) == escalation' = AtMost(escalation + 1, Len(livenessLadder) - 1)

NoteRemedyApplied(layer) ==
    escalation' = IF layer = "liveness" THEN AtMost(escalation + 1, Len(livenessLadder) - 1)
                  ELSE escalation

-----------------------------------------------------------------------------
(* The monitor *)

\* The part of a check that follows a successful APN reconciliation: Assess
\* and, when the APN is settling, no handling of the verdict.
Check(s) ==
    /\ enabled /\ powered /\ verdict = None
    /\ s.at # "unread" => wantAT
    /\ Assess(s) /\ verdict' = Assessment(s)
    /\ UNCHANGED <<enabled, powered, session, pendingLayer, pendingRepeat, cooldown, before>>

CheckSettling(s) ==
    /\ enabled /\ powered /\ verdict = None
    /\ s.at # "unread" => wantAT
    /\ Assess(s)
    /\ pendingRepeat' = 0
    /\ before' = "settling"
    /\ UNCHANGED <<enabled, powered, session, pendingLayer, cooldown, verdict>>

Handled == verdict' = None /\ before' = verdict.layer

\* Mutant: a healthy assessment leaves the evidence as it is.
HandleHealthyKeeps ==
    /\ verdict # None /\ verdict.remedy = "none"
    /\ Handled
    /\ UNCHANGED <<enabled, powered, session, prev, flaps, escalation, wantAT, pendingLayer,
                   pendingRepeat, cooldown, bounced>>

\* handleAssessment: healthy, or nothing to be done about it.
HandleHealthy ==
    /\ verdict # None /\ verdict.remedy = "none"
    /\ pendingRepeat' = 0
    /\ Handled
    /\ UNCHANGED <<enabled, powered, session, prev, flaps, escalation, wantAT, pendingLayer,
                   cooldown, bounced>>

\* The number of consecutive failures of this layer, this one included.
Repeat == IF verdict.layer # pendingLayer THEN 1 ELSE AtMost(pendingRepeat + 1, Confirmations)

\* Unconfirmed, or suppressed by the cooldown.
HandleSuppressed ==
    /\ verdict # None /\ verdict.remedy # "none"
    /\ Repeat < Confirmations \/ cooldown[verdict.remedy] > 0
    /\ pendingLayer' = verdict.layer /\ pendingRepeat' = Repeat
    /\ Handled
    /\ UNCHANGED <<enabled, powered, session, prev, flaps, escalation, wantAT, cooldown, bounced>>

Reconnected == [attempts |-> session.attempts + 1, duration |-> 0]
NewBearer == [attempts |-> 1, duration |-> 0]

\* applyRemedy: a reset has checks of its own (ModemLifecycle); the others do
\* nothing once the modem is disabled, nor a reattach without a modem object.
\* Whatever runs may leave the session, reconnect it or replace the bearer.
ApplyRemedy(r, ran) ==
    /\ ran => r = "modem-reset" \/ enabled
    /\ (~ran /\ r = "bearer-bounce") => ~enabled
    /\ session' \in {session} \cup
           (IF ran THEN {NewBearer} \cup (IF session.attempts < MaxAttempts THEN {Reconnected} ELSE {})
            ELSE {})

\* Mutant: the cooldown is left alone.
HandleFaultNoCooldown(ran) ==
    LET r == verdict.remedy
    IN  /\ verdict # None /\ r # "none"
        /\ Repeat >= Confirmations /\ cooldown[r] = 0
        /\ pendingLayer' = verdict.layer /\ pendingRepeat' = Repeat
        /\ ApplyRemedy(r, ran)
        /\ NoteRemedyApplied(verdict.layer)
        /\ Handled
        /\ UNCHANGED <<enabled, powered, prev, flaps, wantAT, cooldown, bounced>>

\* The cooldown starts before the remedy, and the ladder advances after it,
\* whether or not it ran.
HandleFault(ran) ==
    LET r == verdict.remedy
    IN  /\ verdict # None /\ r # "none"
        /\ Repeat >= Confirmations /\ cooldown[r] = 0
        /\ pendingLayer' = verdict.layer /\ pendingRepeat' = Repeat
        /\ cooldown' = [cooldown EXCEPT ![r] = Cooldown[r]]
        /\ ApplyRemedy(r, ran)
        /\ NoteRemedyApplied(verdict.layer)
        /\ Handled
        /\ bounced' = (bounced \/ (verdict.layer = "liveness" /\ r = "bearer-bounce"))
        /\ UNCHANGED <<enabled, powered, prev, flaps, wantAT>>

Handle == HandleHealthy \/ HandleSuppressed \/ \E ran \in BOOLEAN : HandleFault(ran)

\* reconcileModemTarget: the modem is powered up, with a new bearer, or down.
Reconcile ==
    /\ verdict = None /\ powered # enabled
    /\ powered' = enabled
    /\ session' = IF enabled THEN NewBearer ELSE session
    /\ UNCHANGED <<enabled, prev, flaps, escalation, wantAT, pendingLayer, pendingRepeat,
                   cooldown, verdict, before, bounced>>

-----------------------------------------------------------------------------
(* The world *)

\* handleModemCommand
Command(on) ==
    /\ enabled # on /\ enabled' = on
    /\ UNCHANGED <<powered, session, prev, flaps, escalation, wantAT, pendingLayer,
                   pendingRepeat, cooldown, verdict, before, bounced>>

Time ==
    /\ session' = [session EXCEPT !.duration = AtMost(@ + 1, StableSession)]
    /\ cooldown' = [r \in Remedies |-> IF cooldown[r] > 0 THEN cooldown[r] - 1 ELSE 0]
    /\ <<session', cooldown'>> # <<session, cooldown>>
    /\ UNCHANGED <<enabled, powered, prev, flaps, escalation, wantAT, pendingLayer,
                   pendingRepeat, verdict, before, bounced>>

\* The data session dies and is connected again.
Reconnect ==
    /\ powered /\ session.attempts < MaxAttempts
    /\ session' = Reconnected
    /\ UNCHANGED <<enabled, powered, prev, flaps, escalation, wantAT, pendingLayer,
                   pendingRepeat, cooldown, verdict, before, bounced>>

-----------------------------------------------------------------------------
Init ==
    /\ enabled = TRUE /\ powered = TRUE /\ session = NewBearer
    /\ prev = None /\ flaps = 0 /\ escalation = 0 /\ wantAT = FALSE
    /\ pendingLayer = "hardware" /\ pendingRepeat = 0
    /\ cooldown = [r \in Remedies |-> 0]
    /\ verdict = None /\ before = "none" /\ bounced = FALSE

Next ==
    \/ \E s \in Snapshots : Check(s) \/ CheckSettling(s)
    \/ HandleHealthy \/ HandleSuppressed \/ \E ran \in BOOLEAN : HandleFault(ran)
    \/ Reconcile \/ Time \/ Reconnect
    \/ \E on \in BOOLEAN : Command(on)

Spec == Init /\ [][Next]_vars

\* The monitor's ticker keeps firing, a check ends and time passes.
Fairness ==
    /\ WF_vars(\E s \in Snapshots : Check(s) \/ CheckSettling(s))
    /\ WF_vars(Handle) /\ WF_vars(Reconcile) /\ WF_vars(Time)

FairSpec == Spec /\ Fairness

-----------------------------------------------------------------------------
(* Properties *)

Layers == {LocalLayers[i] : i \in DOMAIN LocalLayers} \cup {"liveness"}
Sessions == [attempts : 1..MaxAttempts, duration : 0..StableSession]

\* Every variable has its type: the ladder is never climbed past its last rung, and
\* no cooldown exceeds the one of its remedy.
TypeOK ==
    /\ enabled \in BOOLEAN /\ powered \in BOOLEAN /\ wantAT \in BOOLEAN
    /\ session \in Sessions /\ prev \in Sessions \cup {None}
    /\ flaps \in 0..FlapsBeforeFailing /\ escalation \in 0..(Len(livenessLadder) - 1)
    /\ pendingLayer \in Layers /\ pendingRepeat \in 0..Confirmations
    /\ cooldown \in [Remedies -> Nat] /\ \A r \in Remedies : cooldown[r] <= Cooldown[r]
    /\ verdict = None \/ verdict \in [layer : Layers \cup {"none"}, remedy : Remedies \cup {"none"}]
    /\ before \in Layers \cup {"none", "settling"}
    /\ bounced \in BOOLEAN

\* A step that applies remedy r: the only one that raises its cooldown.
Treats(r) == cooldown'[r] > cooldown[r]

\* A remedy needs two failures of one layer in a row: a healthy assessment, a
\* failure of another layer and a settling APN each start the evidence anew.
Confirmed == [][\A r \in Remedies : Treats(r) => before = verdict.layer]_vars

\* A flapping session is reattached only after a bounce was chosen as its remedy
\* and its cooldown started in this episode: bounces and reattaches for other layers
\* do not climb the ladder, and a session seen to be stable climbs down again.
\* That the bounce has run is not claimed: the ladder advances for one that a
\* disable suppressed, too.
CheapestFirst == [][(Treats("reattach") /\ verdict.layer = "liveness") => bounced]_vars

\* A fault that stays is treated again and again: neither the confirmation nor
\* the cooldowns keep its remedy from being applied.
PersistentFaultTreated ==
    \A l \in {"hardware", "packet_service", "bearer", "netdev"} :
        <>[](enabled /\ powered /\ before = l)
            => []<>(cooldown[LocalRemedy[l]] = Cooldown[LocalRemedy[l]])
=============================================================================
