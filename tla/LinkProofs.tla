------------------------------ MODULE LinkProofs ------------------------------
(***************************************************************************)
(* The remedy policy for any observations, thresholds and cooldowns.        *)
(*                                                                          *)
(* The argument: evidence of a layer is evidence that the last handled      *)
(* assessment failed there (Evidence), and whoever stands on a higher rung  *)
(* of the ladder has had a bounce as its remedy since the last steady       *)
(* session, the verdict that is still to be handled included (Ladder).      *)
(***************************************************************************)
EXTENDS LinkRemedy, TLAPS

VerdictType == [layer : Layers \cup {"none"}, remedy : Remedies \cup {"none"}]
Rungs == 0..(Len(livenessLadder) - 1)

Evidence == pendingRepeat > 0 => before = pendingLayer

Ladder ==
    /\ escalation > 0 => bounced
    /\ (verdict # None /\ verdict.remedy # "none") => verdict.layer # "none"
    /\ (verdict # None /\ verdict.layer = "liveness") =>
         /\ verdict.remedy \in {"bearer-bounce", "reattach"}
         /\ verdict.remedy = "reattach" => bounced

LinkInv == TypeOK /\ Evidence /\ Ladder

-----------------------------------------------------------------------------
(* The assessor *)

LEMMA LayerNames ==
    /\ DOMAIN LocalLayers = 1..6
    /\ \A i \in 1..6 : LocalLayers[i] \in Layers \ {"liveness"} /\ LocalLayers[i] \in DOMAIN LocalRemedy
    /\ \A l \in DOMAIN LocalRemedy : LocalRemedy[l] \in Remedies \cup {"none"}
    /\ "liveness" \in Layers /\ "hardware" \in Layers
    /\ "none" \notin Layers /\ "none" \notin Remedies
<1>1. DOMAIN LocalLayers = 1..6
  BY DEF LocalLayers
<1>2. Layers = {LocalLayers[1], LocalLayers[2], LocalLayers[3], LocalLayers[4], LocalLayers[5],
                LocalLayers[6], "liveness"}
  BY <1>1 DEF Layers
<1>3. /\ LocalLayers[1] = "hardware" /\ LocalLayers[2] = "sim" /\ LocalLayers[3] = "registration"
      /\ LocalLayers[4] = "packet_service" /\ LocalLayers[5] = "bearer" /\ LocalLayers[6] = "netdev"
  BY DEF LocalLayers
<1>4. DOMAIN LocalRemedy = {"hardware", "sim", "registration", "packet_service", "bearer", "netdev"}
  BY DEF LocalRemedy
<1>5. \A l \in DOMAIN LocalRemedy : LocalRemedy[l] \in Remedies \cup {"none"}
  BY <1>4 DEF LocalRemedy, Remedies
<1>6. \A i \in 1..6 : LocalLayers[i] \in Layers \ {"liveness"} /\ LocalLayers[i] \in DOMAIN LocalRemedy
  BY <1>2, <1>3, <1>4
<1>7. "none" \notin Layers /\ "none" \notin Remedies /\ "hardware" \in Layers /\ "liveness" \in Layers
  BY <1>2, <1>3 DEF Remedies
<1>. QED
  BY <1>1, <1>5, <1>6, <1>7

\* Of any failing layers there is a lowest.
LEMMA Lowest ==
    ASSUME NEW failing \in SUBSET (1..6), failing # {}
    PROVE  \E i \in failing : \A j \in failing : i <= j
<1>1. CASE 1 \in failing
  BY <1>1
<1>2. CASE 1 \notin failing /\ 2 \in failing
  BY <1>2
<1>3. CASE failing \cap {1, 2} = {} /\ 3 \in failing
  BY <1>3
<1>4. CASE failing \cap {1, 2, 3} = {} /\ 4 \in failing
  BY <1>4
<1>5. CASE failing \cap {1, 2, 3, 4} = {} /\ 5 \in failing
  BY <1>5
<1>6. CASE failing \cap {1, 2, 3, 4, 5} = {}
  <2>1. \A j \in failing : j = 6
    <3>1. SUFFICES ASSUME NEW j \in failing PROVE j = 6
      OBVIOUS
    <3>2. j \in 1..6 /\ j \notin {1, 2, 3, 4, 5}
      BY <1>6
    <3>. QED
      BY <3>2
  <2>2. \A j \in failing : 6 <= j
    BY <2>1
  <2>3. 6 \in failing
    BY <2>1
  <2>. QED
    BY <2>2, <2>3
<1>. QED
  BY <1>1, <1>2, <1>3, <1>4, <1>5, <1>6

LEMMA FailedLocalType ==
    ASSUME NEW s
    PROVE  /\ FailedLocal(s) \in (Layers \ {"liveness"}) \cup {"none"}
           /\ FailedLocal(s) # "none" => FailedLocal(s) \in DOMAIN LocalRemedy
<1> DEFINE failing == {i \in DOMAIN LocalLayers : Faulty(s)[LocalLayers[i]]}
           low == CHOOSE i \in failing : \A j \in failing : i <= j
<1>1. CASE failing = {}
  BY <1>1 DEF FailedLocal
<1>2. CASE failing # {}
  <2>1. failing \in SUBSET (1..6)
    BY LayerNames
  <2>2. \E i \in failing : \A j \in failing : i <= j
    BY <1>2, <2>1, Lowest
  <2>3. low \in failing
    BY <2>2
  <2>4. low \in 1..6
    BY <2>1, <2>3
  <2>5. FailedLocal(s) = LocalLayers[low]
    BY <1>2 DEF FailedLocal
  <2>. QED
    BY <2>4, <2>5, LayerNames
<1>. QED
  BY <1>1, <1>2

LEMMA LadderFacts ==
    /\ Rungs = {0, 1}
    /\ livenessLadder[1] = "bearer-bounce" /\ livenessLadder[2] = "reattach"
    /\ \A n \in Rungs : AtMost(n + 1, Len(livenessLadder) - 1) = 1
<1>1. Len(livenessLadder) = 2 /\ livenessLadder[1] = "bearer-bounce" /\ livenessLadder[2] = "reattach"
  BY DEF livenessLadder
<1>. QED
  BY <1>1 DEF Rungs, AtMost

\* What Assess leaves, and what it returns.
LEMMA AssessLeaves ==
    ASSUME TypeOK, NEW s \in Snapshots, Assess(s)
    PROVE  /\ prev' \in Sessions \cup {None} /\ flaps' \in 0..FlapsBeforeFailing
           /\ escalation' \in Rungs /\ escalation' = Rung(s) /\ wantAT' \in BOOLEAN
           /\ bounced' \in BOOLEAN
           /\ Assessment(s) \in VerdictType
           /\ Assessment(s).remedy # "none" => Assessment(s).layer # "none"
           /\ Assessment(s).layer = "liveness" =>
                Assessment(s).remedy = livenessLadder[Rung(s) + 1]
           /\ escalation' > 0 => escalation' = escalation /\ bounced' = bounced
<1>1. prev' \in Sessions \cup {None}
  BY DEF Assess, Observed, TypeOK
<1>2. flaps' \in 0..FlapsBeforeFailing
  BY ThresholdAssumption DEF Assess, Flaps, AtMost, TypeOK
<1>3. Rung(s) \in Rungs /\ escalation' = Rung(s)
  BY LadderFacts DEF Assess, Rung, TypeOK, Rungs
<1>4. wantAT' \in BOOLEAN
  BY DEF Assess
<1>5. bounced' \in BOOLEAN
  BY DEF Assess, TypeOK
<1>6. escalation' > 0 => escalation' = escalation /\ bounced' = bounced
  <2>1. CASE Steady(s)
    BY <2>1 DEF Assess, Rung
  <2>2. CASE ~Steady(s)
    BY <2>2 DEF Assess, Rung
  <2>. QED
    BY <2>1, <2>2
<1>7. livenessLadder[Rung(s) + 1] \in Remedies
  BY <1>3, LadderFacts DEF Remedies
<1>8. /\ Assessment(s).layer \in Layers \cup {"none"}
      /\ Assessment(s).remedy \in Remedies \cup {"none"}
      /\ Assessment(s).remedy # "none" => Assessment(s).layer # "none"
      /\ Assessment(s).layer = "liveness" => Assessment(s).remedy = livenessLadder[Rung(s) + 1]
  <2>1. CASE FailedLocal(s) # "none"
    BY <2>1, FailedLocalType, LayerNames DEF Assessment
  <2>2. CASE FailedLocal(s) = "none"
    BY <2>2, <1>7, LayerNames DEF Assessment
  <2>. QED
    BY <2>1, <2>2
<1>9. Assessment(s) \in VerdictType
  BY <1>8 DEF Assessment, VerdictType
<1>. QED
  BY <1>1, <1>2, <1>3, <1>4, <1>5, <1>6, <1>8, <1>9

-----------------------------------------------------------------------------
(* The invariant *)

LEMMA LinkInit == ASSUME Init PROVE LinkInv
<1>1. NewBearer \in Sessions
  BY ThresholdAssumption DEF NewBearer, Sessions
<1>2. 0 \in Rungs /\ "hardware" \in Layers
  BY LadderFacts, LayerNames
<1>3. cooldown \in [Remedies -> Nat] /\ \A r \in Remedies : cooldown[r] <= Cooldown[r]
  BY CooldownAssumption DEF Init
<1>4. flaps \in 0..FlapsBeforeFailing /\ pendingRepeat \in 0..Confirmations
  BY ThresholdAssumption DEF Init
<1>5. TypeOK
  BY <1>1, <1>2, <1>3, <1>4 DEF Init, TypeOK, Rungs
<1>. QED
  BY <1>5 DEF Init, LinkInv, Evidence, Ladder

LEMMA CheckKeeps ==
    ASSUME LinkInv, NEW s \in Snapshots, Check(s) \/ CheckSettling(s)
    PROVE  LinkInv'
<1>1. TypeOK /\ Evidence /\ Ladder
  BY DEF LinkInv
<1>2. Assess(s) /\ UNCHANGED <<enabled, powered, session, pendingLayer, cooldown>>
  BY DEF Check, CheckSettling
<1>3. CASE Check(s)
  <2>1. verdict' = Assessment(s) /\ pendingRepeat' = pendingRepeat /\ before' = before
    BY <1>3 DEF Check
  <2>2. TypeOK'
    BY <1>1, <1>2, <2>1, AssessLeaves DEF TypeOK, VerdictType, Rungs
  <2>3. Evidence'
    BY <1>1, <1>2, <2>1 DEF Evidence
  <2>4. Ladder'
    <3>1. escalation' > 0 => bounced'
      BY <1>1, <1>2, AssessLeaves DEF Ladder
    <3>2. Rung(s) = escalation' /\ escalation' \in {0, 1}
      BY <1>1, <1>2, AssessLeaves, LadderFacts
    <3>3. Assessment(s).layer = "liveness" =>
             Assessment(s).remedy = IF escalation' = 0 THEN "bearer-bounce" ELSE "reattach"
      BY <1>1, <1>2, <3>2, AssessLeaves, LadderFacts
    <3>4. Assessment(s).remedy # "none" => Assessment(s).layer # "none"
      BY <1>1, <1>2, AssessLeaves
    <3>. QED
      BY <2>1, <3>1, <3>2, <3>3, <3>4 DEF Ladder
  <2>. QED
    BY <2>2, <2>3, <2>4 DEF LinkInv
<1>4. CASE CheckSettling(s)
  <2>1. verdict' = verdict /\ verdict = None /\ pendingRepeat' = 0 /\ before' = "settling"
    BY <1>4 DEF CheckSettling
  <2>2. TypeOK'
    BY <1>1, <1>2, <2>1, AssessLeaves, ThresholdAssumption DEF TypeOK, Rungs
  <2>3. Evidence'
    BY <2>1 DEF Evidence
  <2>4. Ladder'
    BY <1>1, <1>2, <2>1, AssessLeaves DEF Ladder
  <2>. QED
    BY <2>2, <2>3, <2>4 DEF LinkInv
<1>. QED
  BY <1>3, <1>4

\* What a verdict that calls for a remedy leaves as evidence.
LEMMA RepeatFacts ==
    ASSUME TypeOK, verdict # None, verdict.remedy # "none"
    PROVE  /\ verdict \in VerdictType
           /\ Repeat \in 1..Confirmations
           /\ Repeat > 1 => verdict.layer = pendingLayer /\ pendingRepeat > 0
<1>1. verdict \in VerdictType /\ pendingRepeat \in 0..Confirmations
  BY DEF TypeOK, VerdictType
<1>. QED
  BY <1>1, ThresholdAssumption DEF Repeat, AtMost

LEMMA HandleKeeps ==
    ASSUME LinkInv, HandleSuppressed \/ \E ran \in BOOLEAN : HandleFault(ran)
    PROVE  LinkInv'
<1>1. TypeOK /\ Evidence /\ Ladder
  BY DEF LinkInv
<1>2. /\ verdict # None /\ verdict.remedy # "none" /\ verdict' = None /\ before' = verdict.layer
      /\ pendingLayer' = verdict.layer /\ pendingRepeat' = Repeat
      /\ UNCHANGED <<enabled, powered, prev, flaps, wantAT>>
  BY DEF HandleSuppressed, HandleFault, Handled
<1>3. /\ verdict \in VerdictType /\ verdict.layer \in Layers /\ verdict.remedy \in Remedies
      /\ Repeat \in 0..Confirmations
  <2>1. verdict \in VerdictType /\ Repeat \in 1..Confirmations
    BY <1>1, <1>2, RepeatFacts
  <2>2. verdict.layer # "none"
    BY <1>1, <1>2 DEF Ladder
  <2>. QED
    BY <1>2, <2>1, <2>2, ThresholdAssumption DEF VerdictType
<1>4. Evidence'
  BY <1>2 DEF Evidence
<1>5. CASE HandleSuppressed
  <2>1. UNCHANGED <<session, escalation, cooldown, bounced>>
    BY <1>5 DEF HandleSuppressed
  <2>2. TypeOK'
    BY <1>1, <1>2, <1>3, <2>1 DEF TypeOK
  <2>3. Ladder'
    BY <1>1, <1>2, <2>1 DEF Ladder
  <2>. QED
    BY <1>4, <2>2, <2>3 DEF LinkInv
<1>6. ASSUME NEW ran \in BOOLEAN, HandleFault(ran) PROVE LinkInv'
  <2>1. /\ cooldown' = [cooldown EXCEPT ![verdict.remedy] = Cooldown[verdict.remedy]]
        /\ ApplyRemedy(verdict.remedy, ran) /\ NoteRemedyApplied(verdict.layer)
        /\ bounced' = (bounced \/ (verdict.layer = "liveness" /\ verdict.remedy = "bearer-bounce"))
    BY <1>6 DEF HandleFault
  <2>2. session' \in Sessions
    <3>1. NewBearer \in Sessions /\ session \in Sessions
      BY <1>1, ThresholdAssumption DEF NewBearer, Sessions, TypeOK
    <3>2. session.attempts < MaxAttempts => Reconnected \in Sessions
      BY <3>1, ThresholdAssumption DEF Reconnected, Sessions
    <3>. QED
      BY <2>1, <3>1, <3>2 DEF ApplyRemedy
  <2>3. cooldown' \in [Remedies -> Nat] /\ \A r \in Remedies : cooldown'[r] <= Cooldown[r]
    <3>1. /\ cooldown \in [Remedies -> Nat] /\ \A r \in Remedies : cooldown[r] <= Cooldown[r]
          /\ \A r \in Remedies : Cooldown[r] \in Nat
      BY <1>1, CooldownAssumption DEF TypeOK
    <3>2. \A r \in Remedies : cooldown'[r] = IF r = verdict.remedy THEN Cooldown[r] ELSE cooldown[r]
      BY <2>1, <3>1
    <3>3. cooldown' \in [Remedies -> Nat]
      BY <1>3, <2>1, <3>1
    <3>4. \A r \in Remedies : cooldown'[r] <= Cooldown[r]
      BY <3>1, <3>2
    <3>. QED
      BY <3>3, <3>4
  <2>4. escalation' \in Rungs /\ (escalation' > 0 => escalation > 0 \/ verdict.layer = "liveness")
    BY <1>1, <2>1, LadderFacts DEF NoteRemedyApplied, TypeOK, Rungs
  <2>5. bounced' \in BOOLEAN
    BY <1>1, <2>1 DEF TypeOK
  <2>6. TypeOK'
    BY <1>1, <1>2, <1>3, <2>2, <2>3, <2>4, <2>5 DEF TypeOK, Rungs
  <2>7. Ladder'
    <3>1. escalation' > 0 => bounced'
      BY <1>1, <1>2, <2>1, <2>4 DEF Ladder
    <3>. QED
      BY <1>2, <3>1 DEF Ladder
  <2>. QED
    BY <1>4, <2>6, <2>7 DEF LinkInv
<1>. QED
  BY <1>5, <1>6

LEMMA OtherKeeps ==
    ASSUME LinkInv, HandleHealthy \/ Reconcile \/ Time \/ Reconnect
                    \/ (\E on \in BOOLEAN : Command(on)) \/ UNCHANGED vars
    PROVE  LinkInv'
<1>1. TypeOK /\ Evidence /\ Ladder
  BY DEF LinkInv
<1>2. CASE HandleHealthy
  <2>1. /\ verdict # None /\ verdict' = None /\ before' = verdict.layer /\ pendingRepeat' = 0
        /\ UNCHANGED <<enabled, powered, session, prev, flaps, escalation, wantAT, pendingLayer,
                       cooldown, bounced>>
    BY <1>2 DEF HandleHealthy, Handled
  <2>2. TypeOK'
    BY <1>1, <2>1, ThresholdAssumption DEF TypeOK
  <2>. QED
    BY <1>1, <2>1, <2>2 DEF LinkInv, Evidence, Ladder
<1>3. CASE Reconcile \/ Reconnect
  <2>1. UNCHANGED <<enabled, prev, flaps, escalation, wantAT, pendingLayer, pendingRepeat,
                    cooldown, verdict, before, bounced>>
    BY <1>3 DEF Reconcile, Reconnect
  <2>2. session' \in Sessions /\ powered' \in BOOLEAN
    <3>1. NewBearer \in Sessions /\ session \in Sessions
      BY <1>1, ThresholdAssumption DEF NewBearer, Sessions, TypeOK
    <3>2. session.attempts < MaxAttempts => Reconnected \in Sessions
      BY <3>1, ThresholdAssumption DEF Reconnected, Sessions
    <3>. QED
      BY <1>1, <1>3, <3>1, <3>2 DEF Reconcile, Reconnect, TypeOK
  <2>3. TypeOK'
    BY <1>1, <2>1, <2>2 DEF TypeOK
  <2>. QED
    BY <1>1, <2>1, <2>3 DEF LinkInv, Evidence, Ladder
<1>4. CASE Time
  <2>1. UNCHANGED <<enabled, powered, prev, flaps, escalation, wantAT, pendingLayer,
                    pendingRepeat, verdict, before, bounced>>
    BY <1>4 DEF Time
  <2>2. session' \in Sessions
    <3>1. session' = [session EXCEPT !.duration = AtMost(session.duration + 1, StableSession)]
      BY <1>4 DEF Time
    <3>2. session \in Sessions
      BY <1>1 DEF TypeOK
    <3>3. AtMost(session.duration + 1, StableSession) \in 0..StableSession
      BY <3>2, ThresholdAssumption DEF Sessions, AtMost
    <3>. QED
      BY <3>1, <3>2, <3>3 DEF Sessions
  <2>3. cooldown' \in [Remedies -> Nat] /\ \A r \in Remedies : cooldown'[r] <= Cooldown[r]
    BY <1>1, <1>4, CooldownAssumption DEF Time, TypeOK
  <2>4. TypeOK'
    BY <1>1, <2>1, <2>2, <2>3 DEF TypeOK
  <2>. QED
    BY <1>1, <2>1, <2>4 DEF LinkInv, Evidence, Ladder
<1>5. CASE (\E on \in BOOLEAN : Command(on)) \/ UNCHANGED vars
  <2>1. /\ UNCHANGED <<powered, session, prev, flaps, escalation, wantAT, pendingLayer,
                       pendingRepeat, cooldown, verdict, before, bounced>>
        /\ enabled' \in BOOLEAN
    BY <1>1, <1>5 DEF Command, vars, TypeOK
  <2>2. TypeOK'
    BY <1>1, <2>1 DEF TypeOK
  <2>. QED
    BY <1>1, <2>1, <2>2 DEF LinkInv, Evidence, Ladder
<1>. QED
  BY <1>2, <1>3, <1>4, <1>5

LEMMA LinkStep ==
    ASSUME LinkInv, [Next]_vars
    PROVE  LinkInv'
<1>. QED
  BY CheckKeeps, HandleKeeps, OtherKeeps DEF Next

LEMMA LinkInvariant == Spec => []LinkInv
<1>. QED
  BY LinkInit, LinkStep, PTL DEF Spec

-----------------------------------------------------------------------------
(* Theorems *)

\* Only the application of a remedy starts its cooldown.
LEMMA TreatsOnlyFault ==
    ASSUME LinkInv, [Next]_vars, NEW r \in Remedies, Treats(r)
    PROVE  /\ verdict # None /\ verdict.remedy = r
           /\ Repeat >= Confirmations
<1>1. cooldown \in [Remedies -> Nat]
  BY DEF LinkInv, TypeOK
<1>2. ~Time
  BY <1>1 DEF Time, Treats
<1>3. ~UNCHANGED cooldown
  BY <1>1 DEF Treats
<1>4. PICK ran \in BOOLEAN : HandleFault(ran)
  BY <1>2, <1>3 DEF Next, Check, CheckSettling, HandleHealthy, HandleSuppressed, Reconcile,
                    Reconnect, Command, vars
<1>. QED
  BY <1>1, <1>4 DEF HandleFault, Treats

\* Type correctness: the ladder is never climbed past its last rung, no cooldown
\* exceeds the one of its remedy, and every verdict is one of the assessor's.
THEOREM LinkTypeCorrect == Spec => []TypeOK
<1>1. LinkInv => TypeOK
  BY DEF LinkInv
<1>. QED
  BY <1>1, LinkInvariant, PTL

\* A remedy is applied only if the assessment handled just before failed at the
\* same layer (handleAssessment), if it takes more than one confirmation.
THEOREM RemediesAreConfirmed ==
    ASSUME Confirmations > 1
    PROVE  Spec => Confirmed
<1>1. ASSUME LinkInv, [Next]_vars
      PROVE  [\A r \in Remedies : Treats(r) => before = verdict.layer]_vars
  <2>1. ASSUME NEW r \in Remedies, Treats(r) PROVE before = verdict.layer
    <3>1. /\ verdict # None /\ verdict.remedy # "none" /\ Repeat >= Confirmations
      BY <1>1, <2>1, TreatsOnlyFault, LayerNames
    <3>2. Repeat > 1
      BY <1>1, <3>1, RepeatFacts, ThresholdAssumption DEF LinkInv
    <3>. QED
      BY <1>1, <3>1, <3>2, RepeatFacts DEF LinkInv, Evidence
  <2>. QED
    BY <2>1
<1>. QED
  BY <1>1, LinkInvariant, PTL DEF Spec, Confirmed

\* A flapping session is reattached only after a bounce was chosen as its remedy in
\* the same episode, even if a disable then suppressed it (Assessor.Assess,
\* handleAssessment, NoteRemedyApplied).
THEOREM BounceComesFirst == Spec => CheapestFirst
<1>1. ASSUME LinkInv, [Next]_vars
      PROVE  [(Treats("reattach") /\ verdict.layer = "liveness") => bounced]_vars
  <2>1. "reattach" \in Remedies
    BY DEF Remedies
  <2>. QED
    BY <1>1, <2>1, TreatsOnlyFault DEF LinkInv, Ladder
<1>. QED
  BY <1>1, LinkInvariant, PTL DEF Spec, CheapestFirst
=============================================================================
