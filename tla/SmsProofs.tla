----------------------------- MODULE SmsProofs -----------------------------
(***************************************************************************)
(* First, the receiver implements Mailbox and spares an outbound object in *)
(* flight, for any messages, paths, destinations and bounds, as long as    *)
(* ModemManager does not restart and no two messages look the same.        *)
(*                                                                         *)
(* The argument: whoever touches an object holds mu (Locks, InHand), and   *)
(* what is known of a path, durably or by this process, is about a         *)
(* message on record (Ledger).  So a message that is not recognised is     *)
(* new, and one whose copy is deleted is on record.                        *)
(*                                                                         *)
(* Then, without any such condition, the forwarder sends what is due, once,*)
(* to the destination that is set and within the budget.  The argument: a  *)
(* transaction of the store never puts a row back in the queue (Follows),  *)
(* so a job in hand or sent is not waiting (InTransit, SentStay); its      *)
(* segments are on the account of its day before it is sent (Covered); and *)
(* the memory of the process agrees with the stored configuration, or does *)
(* not forward (Agreement).                                                *)
(***************************************************************************)
EXTENDS SmsService, TLAPS

Identity(m) == Content[m].identity
OnRecord == Range(created)

\* Messages differ in sender, text or timestamp, and objects keep their paths.
Distinct == \A m, n \in Messages : Identity(m) = Identity(n) => m = n
NoRestarts == \A b \in Bounds : b["restarts"] = 0

Types ==
    /\ modem \in [Paths -> Messages \cup Senders \cup {None}]
    /\ arrivedAt \in [Messages -> Nat \cup {None}]
    /\ created \in Seq(Messages)
    /\ pending_modem \in Memory /\ deliveredUndeleted \in Memory
    /\ time \in Nat /\ left \in [Disturbances -> Nat] /\ left["restarts"] = 0
    /\ send \in SendType /\ rcv \in ReceiveType

Locks ==
    /\ rcv.pc # "idle" => mu = "receiver"
    /\ \A c \in Senders : send[c].pc \in {"submit", "delete"} =>
         mu = c /\ send[c].path \in Paths /\ modem[send[c].path] = c

InHand ==
    /\ rcv.pc # "idle" => rcv.path \in Paths
    /\ rcv.pc = "delete" =>
         rcv.message \in Texts \cap OnRecord /\ modem[rcv.path] = rcv.message
    /\ rcv.pc = "forget" => modem[rcv.path] \notin OnRecord

Objects ==
    /\ \A p \in Paths : modem[p] \in Messages => arrivedAt[modem[p]] # None
    /\ \A p, q \in Paths : modem[p] \in Messages /\ modem[p] = modem[q] => p = q

Ledger ==
    /\ \A m \in OnRecord : m \in Texts /\ arrivedAt[m] # None
    /\ \A p \in Paths : modem[p] \in OnRecord => pending_modem[p] = Identity(modem[p])
    /\ \A p \in Paths, m \in Messages :
         pending_modem[p] = Identity(m) \/ deliveredUndeleted[p] = Identity(m) => m \in OnRecord

ReceiveInv == Types /\ Locks /\ InHand /\ Objects /\ Ledger

mailbox == <<modem, arrivedAt, created, pending_modem>>
MailStep == [Promise!Next]_(Promise!mailVars)

LEMMA IdentityFacts == \A m \in Messages : Identity(m) \in Identities /\ Identity(m) # None
BY ContentAssumption, NoneAssumption DEF ContentType, Identity

LEMMA TextFacts == Texts \subseteq Messages
BY DEF Texts

LEMMA InitInv == ASSUME NoRestarts, Init PROVE ReceiveInv
<1>1. created = << >> /\ OnRecord = {}
  BY DEF Init, StoreInit, OnRecord, Range
<1>2. Types
  BY <1>1, ClockAssumption, BoundsAssumption
     DEF Init, StoreInit, VolatileInit, Types, NoRestarts, Memory, SendType, SendPC, Idle,
         IdleReceiver, ReceiveType, Disturbances
<1>3. Locks /\ InHand
  BY DEF Init, VolatileInit, Locks, InHand, Idle, IdleReceiver
<1>4. Objects
  BY NoneAssumption DEF Init, Objects
<1>5. Ledger
  BY <1>1, IdentityFacts, NoneAssumption DEF Init, StoreInit, VolatileInit, Ledger
<1>. QED BY <1>2, <1>3, <1>4, <1>5 DEF ReceiveInv

-----------------------------------------------------------------------------
(* Steps that leave the mailbox alone *)

\* What a step without effect on the mailbox may do to the control.
Quiet ==
    /\ UNCHANGED mailbox
    /\ time' \in Nat /\ left' \in [Disturbances -> Nat] /\ left'["restarts"] = 0

LEMMA UseFact ==
    ASSUME Types, NEW kind \in Disturbances, Use(kind)
    PROVE  left' \in [Disturbances -> Nat] /\ left'["restarts"] = 0
BY DEF Types, Use, Disturbances

LEMMA QuietMail == ASSUME Quiet PROVE UNCHANGED Promise!mailVars
<1>1. Held' = Held
  BY DEF Quiet, mailbox, Held
<1>. QED BY <1>1 DEF Quiet, mailbox, Promise!mailVars, Held

\* No object is taken in hand.
LEMMA QuietStep ==
    ASSUME ReceiveInv, Quiet, UNCHANGED <<deliveredUndeleted, mu, rcv>>, send' \in SendType,
           \A c \in Senders : send'[c].pc \in {"submit", "delete"} =>
              send[c].pc \in {"submit", "delete"} /\ send'[c].path = send[c].path
    PROVE  ReceiveInv'
<1>1. OnRecord' = OnRecord
  BY DEF Quiet, mailbox, OnRecord
<1>2. Types'
  BY DEF ReceiveInv, Types, Quiet, mailbox
<1>3. Locks'
  BY DEF ReceiveInv, Locks, Quiet, mailbox
<1>4. InHand' /\ Objects' /\ Ledger'
  BY <1>1 DEF ReceiveInv, InHand, Objects, Ledger, Quiet, mailbox
<1>. QED BY <1>2, <1>3, <1>4 DEF ReceiveInv

\* The memory of the process is lost.
LEMMA ResetStep ==
    ASSUME ReceiveInv, Quiet, VolatileReset
    PROVE  ReceiveInv'
<1>1. OnRecord' = OnRecord
  BY DEF Quiet, mailbox, OnRecord
<1>2. Types'
  BY DEF ReceiveInv, Types, Quiet, mailbox, VolatileReset, Memory, SendType, SendPC, Idle,
         IdleReceiver, ReceiveType
<1>3. Locks' /\ InHand'
  BY DEF VolatileReset, Locks, InHand, Idle, IdleReceiver
<1>4. Objects'
  BY DEF ReceiveInv, Objects, Quiet, mailbox
<1>5. Ledger'
  BY <1>1, IdentityFacts DEF ReceiveInv, Ledger, Quiet, mailbox, VolatileReset
<1>. QED BY <1>2, <1>3, <1>4, <1>5 DEF ReceiveInv

-----------------------------------------------------------------------------
(* Steps on one object *)

\* What nobody else can disturb while the object at path p goes away.
LEMMA RemoveFacts ==
    ASSUME ReceiveInv, NEW p \in Paths, modem' = [modem EXCEPT ![p] = None],
           UNCHANGED <<arrivedAt, created, pending_modem>>
    PROVE  /\ modem' \in [Paths -> Messages \cup Senders \cup {None}]
           /\ \A q \in Paths : modem'[q] = IF q = p THEN None ELSE modem[q]
           /\ Objects' /\ OnRecord' = OnRecord
           /\ \A q \in Paths : modem'[q] \in OnRecord => pending_modem'[q] = Identity(modem'[q])
<1>1. modem' \in [Paths -> Messages \cup Senders \cup {None}]
  BY DEF ReceiveInv, Types
<1>2. \A q \in Paths : modem'[q] = IF q = p THEN None ELSE modem[q]
  BY DEF ReceiveInv, Types
<1>3. Objects'
  BY <1>2, NoneAssumption DEF ReceiveInv, Objects
<1>4. OnRecord' = OnRecord /\ None \notin OnRecord
  BY NoneAssumption, TextFacts DEF OnRecord, ReceiveInv, Ledger
<1>5. \A q \in Paths : modem'[q] \in OnRecord => pending_modem'[q] = Identity(modem'[q])
  BY <1>2, <1>4 DEF ReceiveInv, Ledger
<1>. QED BY <1>1, <1>2, <1>3, <1>4, <1>5

\* The mailbox sees the removal of a message, or of nothing.
LEMMA RemoveMail ==
    ASSUME ReceiveInv, NEW p \in Paths, modem' = [modem EXCEPT ![p] = None],
           UNCHANGED <<arrivedAt, created>>, modem[p] \in Texts => modem[p] \in OnRecord
    PROVE  MailStep
<1>1. \A q \in Paths : modem'[q] = IF q = p THEN None ELSE modem[q]
  BY DEF ReceiveInv, Types
<1>2. CASE modem[p] \in Messages
  <2>1. Held' = Held \ {modem[p]} /\ modem[p] \in Held
    BY <1>1, <1>2, NoneAssumption DEF Held, ReceiveInv, Objects
  <2>2. Promise!Remove(modem[p])
    BY <1>2, <2>1 DEF Promise!Remove, Promise!Range, Range, OnRecord, Held
  <2>. QED BY <1>2, <2>2 DEF MailStep, Promise!Next
<1>3. CASE modem[p] \notin Messages
  <2>1. Held' = Held
    BY <1>1, <1>3, NoneAssumption DEF Held
  <2>. QED BY <2>1 DEF MailStep, Promise!mailVars, Held
<1>. QED BY <1>2, <1>3

LEMMA ArriveStep ==
    ASSUME ReceiveInv, NEW m \in Messages, NEW p \in Paths, Arrive(m, p)
    PROVE  ReceiveInv' /\ MailStep
<1>1. left' \in [Disturbances -> Nat] /\ left'["restarts"] = 0
  BY UseFact DEF Arrive, Disturbances, ReceiveInv
<1>2. /\ modem[p] = None /\ arrivedAt[m] = None /\ arrivedAt' = [arrivedAt EXCEPT ![m] = time]
      /\ modem' = [modem EXCEPT ![p] = m]
      /\ UNCHANGED <<created, pending_modem, deliveredUndeleted, time, mu, rcv, send>>
  BY DEF Arrive, Free, storeVars, clockVars, procVars
<1>3. /\ \A q \in Paths : modem'[q] = IF q = p THEN m ELSE modem[q]
      /\ \A n \in Messages : arrivedAt'[n] = IF n = m THEN time ELSE arrivedAt[n]
      /\ OnRecord' = OnRecord /\ m \notin OnRecord
      /\ time # None
  BY <1>2, NoneAssumption DEF ReceiveInv, Types, Ledger, OnRecord
<1>4. Types'
  BY <1>1, <1>2 DEF ReceiveInv, Types
<1>5. Locks'
  BY <1>2, <1>3, SenderAssumption DEF ReceiveInv, Locks
<1>6. InHand'
  BY <1>2, <1>3, NoneAssumption, TextFacts DEF ReceiveInv, InHand
<1>7. Objects'
  BY <1>2, <1>3 DEF ReceiveInv, Objects
<1>8. Ledger'
  BY <1>2, <1>3, TextFacts DEF ReceiveInv, Ledger
<1>9. Promise!Arrive(m)
  <2>1. Held' = Held \cup {m}
    BY <1>2, <1>3, NoneAssumption DEF Held
  <2>2. {n \in Messages : arrivedAt'[n] # None} = {n \in Messages : arrivedAt[n] # None} \cup {m}
    BY <1>3
  <2>. QED BY <1>2, <2>1, <2>2 DEF Promise!Arrive, Held
<1>. QED BY <1>4, <1>5, <1>6, <1>7, <1>8, <1>9 DEF ReceiveInv, MailStep, Promise!Next

\* What is left to show of a step that removes the object at path p.
LEMMA RemoveStep ==
    ASSUME ReceiveInv, NEW p \in Paths, modem' = [modem EXCEPT ![p] = None],
           UNCHANGED <<arrivedAt, created, pending_modem, time>>,
           left' \in [Disturbances -> Nat] /\ left'["restarts"] = 0,
           send' \in SendType, rcv' \in ReceiveType, deliveredUndeleted' \in Memory,
           \A q \in Paths, m \in Messages :
             deliveredUndeleted'[q] = Identity(m) => m \in OnRecord,
           Locks', InHand'
    PROVE  ReceiveInv'
<1>1. Types'
  BY RemoveFacts DEF ReceiveInv, Types
<1>2. Objects' /\ OnRecord' = OnRecord
  BY RemoveFacts
<1>3. Ledger'
  BY <1>2, RemoveFacts DEF ReceiveInv, Ledger
<1>. QED BY <1>1, <1>2, <1>3 DEF ReceiveInv

LEMMA DiscardStep ==
    ASSUME ReceiveInv, NEW p \in Paths, ReceiveDiscard(p)
    PROVE  ReceiveInv' /\ MailStep
<1>1. /\ mu = "free" /\ modem[p] \notin Texts
      /\ UNCHANGED <<created, pending_modem, deliveredUndeleted, time, mu, rcv, send>>
  BY SenderAssumption, TextFacts
     DEF ReceiveDiscard, CanReceive, storeVars, receiveFrame, clockVars, Texts
<1>2. left' \in [Disturbances -> Nat] /\ left'["restarts"] = 0
  <2>1. left' = left \/ Use("failures")
    BY DEF ReceiveDiscard
  <2>. QED BY <2>1, UseFact DEF ReceiveInv, Types, Disturbances
<1>3. rcv.pc = "idle" /\ \A c \in Senders : send[c].pc \notin {"submit", "delete"}
  BY <1>1 DEF ReceiveInv, Types, Locks, Senders
<1>4. CASE UNCHANGED worldVars
  <2>1. Quiet
    BY <1>1, <1>2, <1>4 DEF Quiet, mailbox, worldVars, ReceiveInv, Types
  <2>. QED BY <1>1, <2>1, QuietStep, QuietMail DEF ReceiveInv, Types, MailStep
<1>5. CASE modem' = [modem EXCEPT ![p] = None] /\ UNCHANGED arrivedAt
  <2>1. Locks' /\ InHand'
    BY <1>1, <1>3 DEF Locks, InHand
  <2>2. ReceiveInv'
    BY <1>1, <1>2, <1>5, <2>1, RemoveStep DEF ReceiveInv, Types, Ledger
  <2>. QED BY <1>1, <1>5, <2>2, RemoveMail
<1>. QED BY <1>4, <1>5 DEF ReceiveDiscard, DeleteSMS

LEMMA DeliverStep ==
    ASSUME ReceiveInv, Distinct, NEW p \in Paths, ReceiveDeliver(p)
    PROVE  ReceiveInv' /\ MailStep
<1> DEFINE m == modem[p]
<1>1. /\ mu = "free" /\ m \in Texts /\ m \in Messages
      /\ deliveredUndeleted[p] # Identity(m)
      /\ UNCHANGED <<modem, arrivedAt, deliveredUndeleted, time, send>>
  BY DEF ReceiveDeliver, CanReceive, IsText, worldVars, receiveFrame, clockVars, Texts, Identity
<1>2. left' \in [Disturbances -> Nat] /\ left'["restarts"] = 0
  <2>1. left' = left \/ Use("failures")
    BY DEF ReceiveDeliver
  <2>. QED BY <2>1, UseFact DEF ReceiveInv, Types, Disturbances
<1>3. rcv.pc = "idle" /\ \A c \in Senders : send[c].pc \notin {"submit", "delete"}
  BY <1>1 DEF ReceiveInv, Types, Locks, Senders
<1>4. CASE UNCHANGED <<storeVars, mu, rcv>>
  <2>1. Quiet
    BY <1>1, <1>2, <1>4 DEF Quiet, mailbox, storeVars, ReceiveInv, Types
  <2>. QED BY <1>1, <1>4, <2>1, QuietStep, QuietMail DEF ReceiveInv, Types, MailStep
<1>5. CASE Take(p) /\ Recorded(m, p) /\ List(Now)
  <2>1. /\ rcv' = [pc |-> "delete", path |-> p, message |-> m] /\ mu' = "receiver"
        /\ UNCHANGED <<created, pending_modem>> /\ OnRecord' = OnRecord
    BY <1>5 DEF Take, List, OnRecord
  <2>2. m \in OnRecord
    BY <1>1, <1>5 DEF Recorded, ReceiveInv, Ledger, Identity
  <2>3. Types' /\ Objects' /\ Ledger'
    BY <1>1, <1>2, <2>1 DEF ReceiveInv, Types, Objects, Ledger, ReceiveType
  <2>4. Locks' /\ InHand'
    BY <1>1, <1>3, <2>1, <2>2 DEF Locks, InHand
  <2>5. UNCHANGED Promise!mailVars
    BY <1>1, <2>1 DEF Promise!mailVars, Held
  <2>. QED BY <2>3, <2>4, <2>5 DEF ReceiveInv, MailStep
<1>6. CASE Take(p) /\ ~Recorded(m, p) /\ created' = Append(created, m)
           /\ pending_modem' = [pending_modem EXCEPT ![p] = Identity(m)]
  <2>1. rcv' = [pc |-> "delete", path |-> p, message |-> m] /\ mu' = "receiver"
    BY <1>6 DEF Take
  <2>2. m \notin OnRecord
    BY <1>1, <1>6, IdentityFacts DEF Recorded, ReceiveInv, Ledger, Identity
  <2>3. OnRecord' = OnRecord \cup {m}
    <3>1. created \in Seq(Messages) /\ created' = Append(created, m)
      BY <1>6 DEF ReceiveInv, Types
    <3>2. /\ DOMAIN created' = DOMAIN created \cup {Len(created) + 1}
          /\ \A i \in DOMAIN created : created'[i] = created[i]
          /\ created'[Len(created) + 1] = m
      BY <3>1, <1>1
    <3>. QED BY <3>2 DEF OnRecord, Range
  <2>4. \A q \in Paths : pending_modem'[q] = IF q = p THEN Identity(m) ELSE pending_modem[q]
    BY <1>6 DEF ReceiveInv, Types, Memory
  <2>5. Types'
    BY <1>1, <1>2, <1>6, <2>1, IdentityFacts DEF ReceiveInv, Types, ReceiveType, Memory
  <2>6. Objects' /\ Locks' /\ InHand'
    BY <1>1, <1>3, <2>1, <2>3 DEF ReceiveInv, Objects, Locks, InHand
  <2>7. Ledger'
    <3>1. \A n \in OnRecord' : n \in Texts /\ arrivedAt'[n] # None
      BY <1>1, <2>3 DEF ReceiveInv, Ledger, Objects
    <3>2. \A q \in Paths : modem'[q] \in OnRecord' => pending_modem'[q] = Identity(modem'[q])
      BY <1>1, <2>3, <2>4 DEF ReceiveInv, Ledger, Objects
    <3>3. \A q \in Paths, n \in Messages :
            pending_modem'[q] = Identity(n) \/ deliveredUndeleted'[q] = Identity(n)
              => n \in OnRecord'
      BY <1>1, <2>3, <2>4 DEF ReceiveInv, Ledger, Distinct
    <3>. QED BY <3>1, <3>2, <3>3 DEF Ledger
  <2>8. Promise!Record(m)
    BY <1>1, <1>6, <2>2 DEF Promise!Record, Promise!Range, OnRecord, Range, Held
  <2>. QED BY <1>1, <2>5, <2>6, <2>7, <2>8 DEF ReceiveInv, MailStep, Promise!Next
<1>. QED
  BY <1>4, <1>5, <1>6 DEF ReceiveDeliver, RecordWithForwardSince, Identity

LEMMA RetryStep ==
    ASSUME ReceiveInv, NEW p \in Paths, ReceiveRetry(p)
    PROVE  ReceiveInv' /\ MailStep
<1>1. /\ mu = "free" /\ modem[p] \in Texts
      /\ rcv' = [pc |-> "delete", path |-> p, message |-> modem[p]] /\ mu' = "receiver"
      /\ UNCHANGED <<modem, arrivedAt, created, pending_modem, deliveredUndeleted, time, send,
                     left>>
  BY DEF ReceiveRetry, CanReceive, IsText, Take, storeVars, worldVars, receiveFrame, clockVars,
         Texts
<1>2. modem[p] \in OnRecord
  BY TextFacts DEF ReceiveRetry, IsText, ReceiveInv, Ledger, Identity
<1>3. OnRecord' = OnRecord
  BY <1>1 DEF OnRecord
<1>4. Types' /\ Objects' /\ Ledger'
  BY <1>1, <1>3, TextFacts DEF ReceiveInv, Types, Objects, Ledger, ReceiveType
<1>5. \A c \in Senders : send[c].pc \notin {"submit", "delete"}
  BY <1>1 DEF ReceiveInv, Locks, Senders
<1>6. Locks' /\ InHand'
  BY <1>1, <1>2, <1>3, <1>5 DEF Locks, InHand
<1>7. UNCHANGED Promise!mailVars
  BY <1>1 DEF Promise!mailVars, Held
<1>. QED BY <1>4, <1>6, <1>7 DEF ReceiveInv, MailStep

LEMMA DeleteStep ==
    ASSUME ReceiveInv, ReceiveDelete
    PROVE  ReceiveInv' /\ MailStep
<1> DEFINE p == rcv.path
<1>1. /\ rcv.pc = "delete" /\ p \in Paths /\ mu = "receiver"
      /\ modem[p] = rcv.message /\ modem[p] \in Texts /\ modem[p] \in OnRecord
      /\ UNCHANGED <<created, pending_modem, time, send>>
  BY DEF ReceiveDelete, ReceiveInv, Locks, InHand, storeVars, receiveFrame, clockVars
<1>2. left' \in [Disturbances -> Nat] /\ left'["restarts"] = 0
  <2>1. left' = left \/ Use("failures")
    BY DEF ReceiveDelete
  <2>. QED BY <2>1, UseFact DEF ReceiveInv, Types, Disturbances
<1>3. \A c \in Senders : send[c].pc \notin {"submit", "delete"}
  BY <1>1 DEF ReceiveInv, Locks, Senders
<1>4. /\ deliveredUndeleted' \in Memory
      /\ \A q \in Paths, m \in Messages :
           deliveredUndeleted'[q] = Identity(m) => deliveredUndeleted[q] = Identity(m)
                                                   \/ Identity(m) = Identity(modem[p])
  <2>1. \E i \in {None, Identity(modem[p])} :
          deliveredUndeleted' = [deliveredUndeleted EXCEPT ![p] = i]
    BY <1>1 DEF ReceiveDelete, Identity
  <2>. QED BY <1>1, <2>1, IdentityFacts, TextFacts DEF ReceiveInv, Types, Memory
<1>5. \A q \in Paths, m \in Messages :
        deliveredUndeleted'[q] = Identity(m) => m \in OnRecord
  BY <1>1, <1>4, TextFacts DEF ReceiveInv, Ledger
<1>6. CASE modem' = [modem EXCEPT ![p] = None] /\ UNCHANGED arrivedAt
  <2>1. /\ rcv' \in ReceiveType /\ rcv'.pc \in {"idle", "forget"}
        /\ rcv'.pc = "forget" => rcv'.path = p /\ mu' = mu
    <3>1. \/ rcv' = [rcv EXCEPT !.pc = "forget"] /\ mu' = mu
          \/ rcv' = IdleReceiver
      BY DEF ReceiveDelete
    <3>2. rcv \in ReceiveType
      BY DEF ReceiveInv, Types
    <3>. QED BY <3>1, <3>2 DEF IdleReceiver, ReceiveType
  <2>2. modem'[p] \notin OnRecord' /\ OnRecord' = OnRecord
    BY <1>1, <1>6, RemoveFacts, NoneAssumption, TextFacts DEF ReceiveInv, Ledger
  <2>3. Locks' /\ InHand'
    BY <1>1, <1>3, <2>1, <2>2 DEF Locks, InHand
  <2>4. ReceiveInv'
    BY <1>1, <1>2, <1>4, <1>5, <1>6, <2>1, <2>3, RemoveStep DEF ReceiveInv, Types, ReceiveType
  <2>. QED BY <1>1, <1>6, <2>4, RemoveMail
<1>7. CASE UNCHANGED worldVars /\ rcv' = IdleReceiver
  <2>1. OnRecord' = OnRecord
    BY <1>1 DEF OnRecord
  <2>2. Types' /\ Objects'
    BY <1>1, <1>2, <1>4, <1>7 DEF ReceiveInv, Types, Objects, ReceiveType, IdleReceiver, worldVars
  <2>3. Ledger'
    BY <1>1, <1>5, <1>7, <2>1 DEF ReceiveInv, Ledger, worldVars
  <2>4. Locks' /\ InHand'
    BY <1>1, <1>3, <1>7 DEF Locks, InHand, IdleReceiver
  <2>5. UNCHANGED Promise!mailVars
    BY <1>1, <1>7 DEF Promise!mailVars, Held, worldVars
  <2>. QED BY <2>2, <2>3, <2>4, <2>5 DEF ReceiveInv, MailStep
<1>. QED BY <1>6, <1>7 DEF ReceiveDelete, DeleteSMS

LEMMA ForgetStep ==
    ASSUME ReceiveInv, ReceiveForget
    PROVE  ReceiveInv' /\ MailStep
<1>1. /\ rcv.pc = "forget" /\ rcv.path \in Paths /\ mu = "receiver"
      /\ modem[rcv.path] \notin OnRecord /\ rcv' = IdleReceiver
      /\ UNCHANGED <<modem, arrivedAt, created, deliveredUndeleted, time, send>>
  BY DEF ReceiveForget, ReceiveInv, Locks, InHand, ForgetModem, storeVars, worldVars,
         receiveFrame, clockVars
<1>2. left' \in [Disturbances -> Nat] /\ left'["restarts"] = 0
  <2>1. left' = left \/ Use("failures")
    BY DEF ReceiveForget
  <2>. QED BY <2>1, UseFact DEF ReceiveInv, Types, Disturbances
<1>3. \A c \in Senders : send[c].pc \notin {"submit", "delete"}
  BY <1>1 DEF ReceiveInv, Locks, Senders
<1>4. pending_modem' = pending_modem \/ pending_modem' = [pending_modem EXCEPT ![rcv.path] = None]
  BY DEF ReceiveForget, ForgetModem, storeVars
<1>5. /\ pending_modem' \in Memory
      /\ \A q \in Paths : pending_modem'[q] = pending_modem[q]
                            \/ (q = rcv.path /\ pending_modem'[q] = None)
  BY <1>4 DEF ReceiveInv, Types, Memory
<1>6. OnRecord' = OnRecord
  BY <1>1 DEF OnRecord
<1>7. Types' /\ Objects'
  BY <1>1, <1>2, <1>5 DEF ReceiveInv, Types, Objects, ReceiveType, IdleReceiver
<1>8. Ledger'
  BY <1>1, <1>5, <1>6, IdentityFacts DEF ReceiveInv, Ledger
<1>9. Locks' /\ InHand'
  BY <1>1, <1>3 DEF Locks, InHand, IdleReceiver
<1>10. UNCHANGED Promise!mailVars
  BY <1>1 DEF Promise!mailVars, Held
<1>. QED BY <1>7, <1>8, <1>9, <1>10 DEF ReceiveInv, MailStep

-----------------------------------------------------------------------------
(* Sending *)

LEMMA CreateStep ==
    ASSUME ReceiveInv, NEW c \in Senders, SendCreate(c)
    PROVE  ReceiveInv' /\ MailStep
<1>1. /\ mu = "free" /\ send[c].pc = "create" /\ rcv.pc = "idle"
      /\ UNCHANGED <<arrivedAt, created, pending_modem, deliveredUndeleted, time, rcv>>
  BY DEF SendCreate, sendFrame, storeVars, clockVars, ReceiveInv, Locks
<1>2. \A d \in Senders : send[d].pc \notin {"submit", "delete"}
  BY <1>1 DEF ReceiveInv, Locks, Senders
<1>3. left' \in [Disturbances -> Nat] /\ left'["restarts"] = 0
  <2>1. left' = left \/ Use("failures")
    BY DEF SendCreate
  <2>. QED BY <2>1, UseFact DEF ReceiveInv, Types, Disturbances
<1>4. CASE UNCHANGED <<modem, mu>> /\ send' = [send EXCEPT ![c].pc = "finish"]
  <2>1. Quiet
    BY <1>1, <1>3, <1>4 DEF Quiet, mailbox, ReceiveInv, Types
  <2>2. /\ send' \in SendType
        /\ \A d \in Senders : send'[d].pc \notin {"submit", "delete"}
    BY <1>2, <1>4 DEF ReceiveInv, Types, SendType, SendPC
  <2>. QED BY <1>1, <1>4, <2>1, <2>2, QuietStep, QuietMail DEF MailStep
<1>5. ASSUME NEW p \in Paths, Free(p), modem' = [modem EXCEPT ![p] = c], mu' = c,
             send' = [send EXCEPT ![c] = [pc |-> "submit", path |-> p, ok |-> FALSE]]
      PROVE  ReceiveInv' /\ MailStep
  <2>1. /\ modem[p] = None /\ c \notin Messages /\ OnRecord' = OnRecord
        /\ \A q \in Paths : modem'[q] = IF q = p THEN c ELSE modem[q]
    BY <1>1, <1>5, SenderAssumption DEF Free, ReceiveInv, Types, OnRecord
  <2>2. /\ send' \in SendType
        /\ \A d \in Senders : send'[d] = IF d = c THEN [pc |-> "submit", path |-> p, ok |-> FALSE]
                                          ELSE send[d]
    BY <1>5 DEF ReceiveInv, Types, SendType, SendPC
  <2>3. Types' /\ Objects'
    BY <1>1, <1>3, <1>5, <2>1, <2>2 DEF ReceiveInv, Types, Objects
  <2>4. Locks' /\ InHand'
    BY <1>1, <1>2, <1>5, <2>1, <2>2 DEF Locks, InHand
  <2>5. Ledger'
    BY <1>1, <2>1, TextFacts DEF ReceiveInv, Ledger
  <2>6. Held' = Held
    BY <2>1, NoneAssumption DEF Held
  <2>. QED BY <1>1, <2>3, <2>4, <2>5, <2>6 DEF ReceiveInv, MailStep, Promise!mailVars, Held
<1>. QED BY <1>4, <1>5 DEF SendCreate

LEMMA SubmitStep ==
    ASSUME ReceiveInv, NEW c \in Senders, SendSubmit(c)
    PROVE  ReceiveInv' /\ MailStep
<1>1. /\ send[c].pc = "submit"
      /\ send' = [send EXCEPT ![c].pc = "delete"]
         \/ send' = [send EXCEPT ![c] = [pc |-> "delete", path |-> @.path, ok |-> TRUE]]
      /\ UNCHANGED mailbox /\ UNCHANGED time /\ UNCHANGED <<deliveredUndeleted, mu, rcv>>
  BY DEF SendSubmit, sendFrame, storeVars, worldVars, clockVars, mailbox
<1>2. Quiet
  <2>1. left' = left \/ Use("failures")
    BY DEF SendSubmit
  <2>. QED BY <1>1, <2>1, UseFact DEF Quiet, ReceiveInv, Types, Disturbances
<1>3. /\ send' \in SendType
      /\ \A d \in Senders : send'[d].path = send[d].path
                              /\ (d # c => send'[d].pc = send[d].pc)
  <2>1. send \in SendType
    BY DEF ReceiveInv, Types
  <2>2. CASE send' = [send EXCEPT ![c].pc = "delete"]
    BY <2>1, <2>2 DEF SendType, SendPC
  <2>3. CASE send' = [send EXCEPT ![c] = [pc |-> "delete", path |-> @.path, ok |-> TRUE]]
    BY <2>1, <2>3 DEF SendType, SendPC
  <2>. QED BY <1>1, <2>2, <2>3
<1>4. \A d \in Senders : send'[d].pc \in {"submit", "delete"} =>
        send[d].pc \in {"submit", "delete"} /\ send'[d].path = send[d].path
  BY <1>1, <1>3
<1>5. ReceiveInv'
  BY <1>1, <1>2, <1>3, <1>4, QuietStep
<1>6. UNCHANGED Promise!mailVars
  BY <1>2, QuietMail
<1>. QED BY <1>5, <1>6 DEF MailStep

LEMMA SendDeleteStep ==
    ASSUME ReceiveInv, NEW c \in Senders, SendDelete(c)
    PROVE  ReceiveInv' /\ MailStep
<1> DEFINE p == send[c].path
<1>1. /\ send[c].pc = "delete" /\ mu = c /\ p \in Paths /\ modem[p] = c
      /\ send' = [send EXCEPT ![c].pc = "finish"] /\ mu' = "free"
      /\ UNCHANGED <<created, pending_modem, deliveredUndeleted, time, rcv>>
  BY DEF SendDelete, sendFrame, storeVars, clockVars, ReceiveInv, Locks
<1>2. left' \in [Disturbances -> Nat] /\ left'["restarts"] = 0
  <2>1. left' = left \/ Use("failures")
    BY DEF SendDelete
  <2>. QED BY <2>1, UseFact DEF ReceiveInv, Types, Disturbances
<1>3. rcv.pc = "idle" /\ \A d \in Senders \ {c} : send[d].pc \notin {"submit", "delete"}
  BY <1>1 DEF ReceiveInv, Types, Locks, Senders
<1>4. /\ send' \in SendType
      /\ \A d \in Senders : send'[d].pc \notin {"submit", "delete"}
  BY <1>1, <1>3 DEF ReceiveInv, Types, SendType, SendPC
<1>5. Locks' /\ InHand'
  BY <1>1, <1>3, <1>4 DEF Locks, InHand
<1>6. CASE modem' = [modem EXCEPT ![p] = None] /\ UNCHANGED arrivedAt
  <2>1. ReceiveInv'
    BY <1>1, <1>2, <1>4, <1>5, <1>6, RemoveStep DEF ReceiveInv, Types, Ledger
  <2>2. modem[p] \notin Texts
    BY <1>1, SenderAssumption, TextFacts
  <2>. QED BY <1>1, <1>6, <2>1, <2>2, RemoveMail
<1>7. CASE UNCHANGED worldVars
  <2>1. OnRecord' = OnRecord
    BY <1>1 DEF OnRecord
  <2>2. Types' /\ Objects' /\ Ledger'
    BY <1>1, <1>2, <1>4, <1>7, <2>1 DEF ReceiveInv, Types, Objects, Ledger, worldVars
  <2>3. UNCHANGED Promise!mailVars
    BY <1>1, <1>7 DEF Promise!mailVars, Held, worldVars
  <2>. QED BY <1>5, <2>2, <2>3 DEF ReceiveInv, MailStep
<1>. QED BY <1>6, <1>7 DEF SendDelete, DeleteSMS

-----------------------------------------------------------------------------
(* The other steps *)

LEMMA QuietActions ==
    ASSUME ReceiveInv, UNCHANGED <<mailbox, deliveredUndeleted, mu, rcv>>,
           time' \in Nat, left' = left \/ (\E kind \in Disturbances : Use(kind)),
           send' \in SendType,
           \A c \in Senders : send'[c].pc \in {"submit", "delete"} => send'[c] = send[c]
    PROVE  ReceiveInv' /\ MailStep
<1>1. Quiet
  BY UseFact DEF Quiet, ReceiveInv, Types
<1>2. ReceiveInv'
  BY <1>1, QuietStep
<1>. QED BY <1>1, <1>2, QuietMail DEF MailStep

LEMMA ResetActions ==
    ASSUME ReceiveInv, Exit \/ Crash PROVE ReceiveInv' /\ MailStep
<1>1. /\ VolatileReset
      /\ UNCHANGED <<modem, arrivedAt, created, pending_modem, time>>
      /\ left' = left \/ Use("crashes")
  BY DEF Exit, Crash, storeVars, worldVars, clockVars
<1>2. Quiet
  BY <1>1, UseFact DEF Quiet, mailbox, ReceiveInv, Types, Disturbances
<1>. QED BY <1>1, <1>2, ResetStep, QuietMail DEF MailStep

\* A sender's control moves without an object.
LEMMA Control ==
    ASSUME ReceiveInv, NEW c \in Senders, NEW pc \in SendPC \ {"submit", "delete"},
           send' = [send EXCEPT ![c].pc = pc] \/ send' = [send EXCEPT ![c] = Idle]
           \/ send' = send
    PROVE  /\ send' \in SendType
           /\ \A d \in Senders : send'[d].pc \in {"submit", "delete"} => send'[d] = send[d]
<1>1. send \in SendType
  BY DEF ReceiveInv, Types
<1>2. CASE send' = [send EXCEPT ![c].pc = pc]
  BY <1>1, <1>2 DEF SendType
<1>3. CASE send' = [send EXCEPT ![c] = Idle]
  BY <1>1, <1>3 DEF SendType, SendPC, Idle
<1>. QED BY <1>1, <1>2, <1>3

LEMMA WorldStep == ASSUME ReceiveInv, World PROVE ReceiveInv' /\ MailStep
<1>1. CASE \E m \in Messages, p \in Paths : Arrive(m, p)
  BY <1>1, ArriveStep
<1>2. ASSUME NEW f, Renumber(f) PROVE FALSE
  BY <1>2 DEF Renumber, Use, ReceiveInv, Types
<1>3. CASE (\E p \in Paths : Assemble(p)) \/ Tick \/ SyncClock
  <2>1. /\ UNCHANGED <<mailbox, deliveredUndeleted, mu, rcv>> /\ send' = send
        /\ time' \in {time, time + 1}
        /\ left' = left \/ Use("ticks") \/ Use("skews")
    BY <1>3 DEF Assemble, Tick, SyncClock, storeVars, worldVars, procVars, clockVars, mailbox
  <2>2. time' \in Nat /\ send' \in SendType
    BY <2>1 DEF ReceiveInv, Types
  <2>3. left' = left \/ \E kind \in Disturbances : Use(kind)
    BY <2>1 DEF Disturbances
  <2>. QED BY <2>1, <2>2, <2>3, QuietActions
<1>. QED BY <1>1, <1>2, <1>3 DEF World

LEMMA OtherStep ==
    ASSUME ReceiveInv, (Start \/ StartLoops \/ Stop) \/ Forwarder \/ Handlers \/ CommandFinish
    PROVE  ReceiveInv' /\ MailStep
<1>1. UNCHANGED <<mailbox, deliveredUndeleted, mu, rcv, time>>
  <2>1. CASE Start \/ StartLoops \/ Stop
    BY <2>1 DEF Start, StartLoops, Stop, RecoverForward, storeVars, worldVars, clockVars, mailbox
  <2>2. CASE Forwarder
    BY <2>2 DEF Forwarder, ForwardPublish, ForwardFinish, List, FinishForward, storeVars,
                forwardFrame, worldVars, clockVars, mailbox
  <2>3. CASE Handlers
    <3>1. CASE CommandBegin \/ ForwardReserve
      BY <3>1 DEF CommandBegin, ForwardReserve, ReserveNothing, ReserveForward, sendFrame,
                  forwardFrame, storeVars, worldVars, clockVars, mailbox
    <3>2. CASE HandleSetting
      BY <3>2 DEF HandleSetting, ConfigureForward, settingFrame, storeVars, worldVars, clockVars,
                  mailbox
    <3>3. CASE \/ \E value \in Settings : ChangeSetting(value)
               \/ \E id \in DOMAIN inbox : InboxDelete(id)
               \/ PublishInbox \/ QueryOwnMSISDN
      BY <3>3 DEF ChangeSetting, InboxDelete, Delete, PublishInbox, List, QueryOwnMSISDN,
                  storeVars, worldVars, clockVars, procVars, mailbox
    <3>. QED BY <2>3, <3>1, <3>2, <3>3 DEF Handlers
  <2>4. CASE CommandFinish
    BY <2>4 DEF CommandFinish, sendFrame, storeVars, worldVars, clockVars, mailbox
  <2>. QED BY <2>1, <2>2, <2>3, <2>4
<1>2. left' = left \/ \E kind \in Disturbances : Use(kind)
  BY DEF Start, StartLoops, Stop, Forwarder, ForwardPublish, ForwardFinish, Handlers, CommandBegin,
         ForwardReserve, HandleSetting, ChangeSetting, InboxDelete, PublishInbox, QueryOwnMSISDN,
         CommandFinish, settingFrame, Disturbances
<1>3. \E c \in Senders, pc \in SendPC \ {"submit", "delete"} :
        send' = [send EXCEPT ![c].pc = pc] \/ send' = [send EXCEPT ![c] = Idle] \/ send' = send
  <2>1. "forward" \in Senders /\ "command" \in Senders
        /\ {"create", "reserved"} \subseteq SendPC \ {"submit", "delete"}
    BY DEF Senders, SendPC
  <2>2. CASE (Start \/ StartLoops \/ Stop) \/ PublishInbox \/ QueryOwnMSISDN \/ HandleSetting
             \/ (\E value \in Settings : ChangeSetting(value))
             \/ (\E id \in DOMAIN inbox : InboxDelete(id))
    BY <2>1, <2>2 DEF Start, StartLoops, Stop, PublishInbox, QueryOwnMSISDN, HandleSetting,
                      settingFrame, ChangeSetting, InboxDelete, procVars
  <2>3. CASE Forwarder \/ ForwardReserve
    BY <2>1, <2>3 DEF Forwarder, ForwardPublish, ForwardFinish, ForwardReserve
  <2>4. CASE CommandBegin \/ CommandFinish
    BY <2>1, <2>4 DEF CommandBegin, CommandFinish
  <2>. QED BY <2>2, <2>3, <2>4 DEF Handlers
<1>4. /\ send' \in SendType
      /\ \A d \in Senders : send'[d].pc \in {"submit", "delete"} => send'[d] = send[d]
  BY <1>3, Control
<1>. QED BY <1>1, <1>2, <1>4, QuietActions DEF ReceiveInv, Types

LEMMA MailboxStep ==
    ASSUME ReceiveInv, Distinct, [Next]_vars PROVE ReceiveInv' /\ MailStep
<1>1. CASE World
  BY <1>1, WorldStep
<1>2. CASE Receiver
  BY <1>2, DiscardStep, DeliverStep, RetryStep, DeleteStep, ForgetStep DEF Receiver
<1>3. CASE \E c \in Senders : SendCreate(c) \/ SendSubmit(c) \/ SendDelete(c)
  BY <1>3, CreateStep, SubmitStep, SendDeleteStep
<1>4. CASE (Start \/ StartLoops \/ Stop) \/ Forwarder \/ Handlers \/ CommandFinish
  BY <1>4, OtherStep
<1>5. CASE Exit \/ Crash
  BY <1>5, ResetActions
<1>6. CASE UNCHANGED vars
  <2>1. UNCHANGED <<mailbox, deliveredUndeleted, mu, rcv>> /\ UNCHANGED <<time, left, send>>
    BY <1>6 DEF vars, storeVars, worldVars, clockVars, procVars, mailbox
  <2>. QED BY <2>1, QuietActions DEF ReceiveInv, Types
<1>. QED BY <1>1, <1>2, <1>3, <1>4, <1>5, <1>6 DEF Next, Process, Sender

-----------------------------------------------------------------------------
(* Theorems *)

\* The reception of messages implements the abstract mailbox: nothing is deleted
\* from the modem before it is on record, and nothing is recorded twice (processOne,
\* deliverIncomingSMS, RecordWithForwardSince).
THEOREM ReceptionIsMailbox ==
    ASSUME Distinct, NoRestarts PROVE Spec => ImplementsMailbox
<1>1. Init => ReceiveInv
  BY InitInv
<1>2. Init => Promise!Init
  BY NoneAssumption DEF Init, StoreInit, Promise!Init, Held
<1>3. ReceiveInv /\ [Next]_vars => ReceiveInv' /\ MailStep
  BY MailboxStep
<1>. QED BY <1>1, <1>2, <1>3, PTL DEF Spec, ImplementsMailbox, Promise!Spec, MailStep

\* An object that is being sent is never deleted under the sender's hands (mu).
THEOREM SendIsSpared ==
    ASSUME Distinct, NoRestarts PROVE Spec => []InFlightSpared
<1>1. Init => ReceiveInv
  BY InitInv
<1>2. ReceiveInv /\ [Next]_vars => ReceiveInv'
  BY MailboxStep
<1>3. ReceiveInv => InFlightSpared
  BY DEF ReceiveInv, Locks, InFlightSpared
<1>. QED BY <1>1, <1>2, <1>3, PTL DEF Spec

\* What the mailbox promises holds of every implementation of it.
LEMMA MailboxKeeps ==
    ASSUME created \in Seq(Messages), Promise!NothingLost, Promise!RecordedOnce, MailStep
    PROVE  Promise!NothingLost' /\ Promise!RecordedOnce'
<1>1. ASSUME NEW m \in Messages, Promise!Arrive(m) \/ Promise!Remove(m)
      PROVE  Promise!NothingLost' /\ Promise!RecordedOnce'
  <2>1. created' = created
    BY <1>1 DEF Promise!Arrive, Promise!Remove
  <2>. QED
    BY <1>1, <2>1 DEF Promise!Arrive, Promise!Remove, Promise!NothingLost, Promise!RecordedOnce,
                      Promise!Range
<1>2. ASSUME NEW m \in Messages, Promise!Record(m)
      PROVE  Promise!NothingLost' /\ Promise!RecordedOnce'
  <2>1. /\ m \notin Promise!Range(created) /\ created' = Append(created, m)
        /\ UNCHANGED <<Held, {n \in Messages : arrivedAt[n] # None}>>
    BY <1>2 DEF Promise!Record, Held
  <2>2. /\ DOMAIN created' = DOMAIN created \cup {Len(created) + 1}
        /\ Len(created) + 1 \notin DOMAIN created
        /\ \A i \in DOMAIN created : created'[i] = created[i]
        /\ created'[Len(created) + 1] = m
    BY <2>1
  <2>3. \A i \in DOMAIN created : created[i] # m
    BY <2>1 DEF Promise!Range
  <2>4. Promise!RecordedOnce'
    BY <2>2, <2>3 DEF Promise!RecordedOnce
  <2>5. Promise!Range(created) \subseteq Promise!Range(created')
    BY <2>2 DEF Promise!Range
  <2>. QED BY <2>1, <2>4, <2>5 DEF Promise!NothingLost, Held
<1>3. CASE UNCHANGED Promise!mailVars
  BY <1>3 DEF Promise!mailVars, Promise!NothingLost, Promise!RecordedOnce, Promise!Range
<1>. QED BY <1>1, <1>2, <1>3 DEF MailStep, Promise!Next

\* No text message is lost and none is recorded twice, across any number of crashes,
\* failed calls and reused paths (the two sentences of Mailbox, for the receiver).
THEOREM NothingLostOrDoubled ==
    ASSUME Distinct, NoRestarts
    PROVE  Spec => [](Promise!NothingLost /\ Promise!RecordedOnce)
<1> DEFINE Both == ReceiveInv /\ Promise!NothingLost /\ Promise!RecordedOnce
<1>1. Init => Both
  BY InitInv, NoneAssumption
     DEF Init, StoreInit, Promise!NothingLost, Promise!RecordedOnce
<1>2. Both /\ [Next]_vars => Both'
  BY MailboxStep, MailboxKeeps DEF ReceiveInv, Types
<1>. QED BY <1>1, <1>2, PTL DEF Spec
-----------------------------------------------------------------------------
(* Forwarding: the invariant *)

ForwardPC == send["forward"].pc
SentIds == {transmitted[k].id : k \in DOMAIN transmitted}
Waiting == Queued(forward_jobs)

\* The job in hand was reserved for the present destination and left the queue.
InTransit ==
    ForwardPC # "idle" =>
        /\ job \in JobType /\ job.id \in DOMAIN created
        /\ job.destination = forwardDestination /\ job.id \notin Waiting
        /\ ForwardPC \in {"reserved", "create", "submit"} => job.id \notin SentIds

\* What was sent never waits again: the rows are in the history of ids.
SentStay ==
    /\ SentIds \subseteq DOMAIN created /\ SentIds \cap Waiting = {}
    /\ ForwardedAtMostOnce

\* What is sent, or about to be, is on the account of its day.
InFlight(d) ==
    IF ForwardPC \in {"reserved", "create", "submit"} /\ job.budgetDay = d
    THEN Segments(job) ELSE 0
Covered == \A d \in Int : Charged(d) + InFlight(d) <= Spent(d)

\* What the modem holds and what is to be forwarded has arrived.
Arrived ==
    /\ \A p \in Paths : modem[p] \in Messages => arrivedAt[modem[p]] # None
    /\ \A i \in DOMAIN forward_jobs : arrivedAt[forward_jobs[i].message] # None

\* The process has the stored configuration, or does not forward.
Agreement ==
    forwardDestination # "off" =>
        /\ forwardDestination = forward_config.destination
        /\ forwardActivatedAt = forward_config.activatedAt

\* Whatever waits is for the stored destination.
WaitingForIt == \A i \in Waiting : forward_jobs[i].destination = forward_config.destination

\* The receiver has a message in hand while it has one to delete.
Typed == TypeOK /\ (rcv.pc = "delete" => rcv.message \in Messages)

ForwardInv ==
    /\ Typed /\ InTransit /\ SentStay /\ Covered
    /\ Arrived /\ Agreement /\ WaitingForIt /\ QueuedIsDue

-----------------------------------------------------------------------------
(* What the transactions of the store do to the jobs *)

\* The rows of new are rows of old that keep what they are for and never go
\* back to the queue.
Follows(new, old) ==
    /\ DOMAIN new \subseteq DOMAIN old
    /\ \A i \in DOMAIN new :
         /\ new[i] \in RowType
         /\ new[i].message = old[i].message /\ new[i].destination = old[i].destination
         /\ new[i].state = "queued" => old[i].state = "queued"

LEMMA SettingStates ==
    ASSUME NEW jobs, NEW rows, ForwardsOf(jobs, rows), NEW ids,
           NEW state \in JobStates \ {"queued"}
    PROVE  /\ Follows(SetState(jobs, ids, state), jobs)
           /\ \A i \in DOMAIN jobs \cap ids : SetState(jobs, ids, state)[i].state = state
<1> DEFINE new == SetState(jobs, ids, state)
<1>1. /\ DOMAIN new = DOMAIN jobs
      /\ \A i \in DOMAIN jobs :
           new[i] = IF i \in ids THEN [jobs[i] EXCEPT !.state = state] ELSE jobs[i]
  BY DEF SetState
<1>2. ASSUME NEW i \in DOMAIN jobs
      PROVE  /\ new[i] \in RowType
             /\ new[i].message = jobs[i].message /\ new[i].destination = jobs[i].destination
             /\ new[i].state = IF i \in ids THEN state ELSE jobs[i].state
  <2>1. jobs[i] \in RowType
    BY DEF ForwardsOf
  <2>. QED BY <1>1, <2>1 DEF RowType
<1>. QED BY <1>1, <1>2 DEF Follows

LEMMA FollowsOn ==
    ASSUME NEW jobs, NEW old, NEW oldest, Follows(jobs, old), Follows(old, oldest)
    PROVE  Follows(jobs, oldest)
BY DEF Follows

LEMMA FollowsItself == ASSUME NEW jobs, NEW rows, ForwardsOf(jobs, rows) PROVE Follows(jobs, jobs)
BY DEF Follows, ForwardsOf

LEMMA FollowsTypes ==
    ASSUME NEW jobs, NEW old, NEW rows, Follows(jobs, old), ForwardsOf(old, rows)
    PROVE  ForwardsOf(jobs, rows) /\ Queued(jobs) \subseteq Queued(old)
BY DEF Follows, ForwardsOf, Queued

LEMMA Restricting ==
    ASSUME NEW jobs, NEW rows, ForwardsOf(jobs, rows), NEW ids \in SUBSET DOMAIN jobs
    PROVE  Follows(Restrict(jobs, ids), jobs)
BY DEF Restrict, Follows, ForwardsOf

LEMMA KeepingJobs ==
    ASSUME NEW jobs, NEW rows, ForwardsOf(jobs, rows), NEW ids
    PROVE  Follows(JobsOf(jobs, ids), jobs) /\ Queued(JobsOf(jobs, ids)) \subseteq ids
<1>1. JobsOf(jobs, ids) =
        Restrict(jobs, {i \in DOMAIN jobs : i \in ids \/ jobs[i].state = "sending"})
  BY DEF JobsOf, RestrictDomain
<1>2. Follows(JobsOf(jobs, ids), jobs)
  BY <1>1, Restricting
<1>3. Queued(JobsOf(jobs, ids)) \subseteq ids
  BY <1>1 DEF Restrict, Queued
<1>. QED BY <1>2, <1>3

\* The projection: no row is left waiting without its entry.
LEMMA Projecting ==
    ASSUME NEW table, NEW jobs, NEW rows, NEW now \in Int,
           InboxOf(table, rows), ForwardsOf(jobs, rows), Project(table, jobs, now)
    PROVE  /\ InboxOf(inbox', rows) /\ ForwardsOf(forward_jobs', rows)
           /\ Follows(forward_jobs', jobs) /\ Queued(forward_jobs') \subseteq DOMAIN inbox'
<1> DEFINE ids == Recent(table, now)
<1>1. inbox' = Restrict(table, ids) /\ forward_jobs' = JobsOf(jobs, ids)
  BY DEF Project
<1>2. ids \subseteq DOMAIN table
  BY DEF Recent
<1>3. InboxOf(inbox', rows) /\ DOMAIN inbox' = ids
  BY <1>1, <1>2 DEF InboxOf, Restrict
<1>. QED BY <1>1, <1>3, KeepingJobs, FollowsTypes

LEMMA Cancelling ==
    ASSUME NEW jobs, NEW rows, ForwardsOf(jobs, rows), NEW destination
    PROVE  /\ Follows(CancelOthers(jobs, destination), jobs)
           /\ \A i \in Queued(CancelOthers(jobs, destination)) : jobs[i].destination = destination
<1> DEFINE others == {i \in Queued(jobs) : jobs[i].destination # destination}
           left_over == CancelOthers(jobs, destination)
<1>1. left_over = SetState(jobs, others, "cancelled")
  BY DEF CancelOthers
<1>2. /\ Follows(left_over, jobs)
      /\ \A i \in DOMAIN jobs \cap others : left_over[i].state = "cancelled"
  BY <1>1, SettingStates DEF JobStates
<1>3. \A i \in Queued(left_over) : i \in Queued(jobs) /\ i \notin others
  BY <1>2, FollowsTypes DEF Queued
<1>. QED BY <1>2, <1>3

\* ReserveForward's sweep leaves only jobs for the destination in the queue.
LEMMA Sweeping ==
    ASSUME NEW rows, ForwardsOf(forward_jobs, rows), NEW now, NEW destination, NEW number
    PROVE  /\ Follows(Swept(now, destination, number), forward_jobs)
           /\ \A i \in Queued(Swept(now, destination, number)) :
                forward_jobs[i].destination = destination
<1> DEFINE kept == RestrictDomain(forward_jobs,
                       LAMBDA i : \/ forward_jobs[i].createdAt >= now - InboxMaxAge
                                  \/ forward_jobs[i].state = "sending")
           live == SetState(kept, {i \in Queued(kept) : kept[i].expiresAt <= now}, "expired")
           mine == CancelOthers(live, destination)
           jobs == SetState(mine, {i \in Queued(mine) : Content[mine[i].message].from = number},
                            "cancelled")
<1>1. Follows(kept, forward_jobs) /\ ForwardsOf(kept, rows)
  <2>1. Follows(kept, forward_jobs)
    BY Restricting DEF RestrictDomain
  <2>. QED BY <2>1, FollowsTypes
<1>. HIDE DEF kept
<1>2. Follows(live, kept) /\ ForwardsOf(live, rows)
  <2>1. Follows(live, kept)
    BY <1>1, SettingStates DEF JobStates
  <2>. QED BY <1>1, <2>1, FollowsTypes
<1>. HIDE DEF live
<1>3. /\ Follows(mine, live) /\ ForwardsOf(mine, rows)
      /\ \A i \in Queued(mine) : live[i].destination = destination
  <2>1. Follows(mine, live) /\ \A i \in Queued(mine) : live[i].destination = destination
    BY <1>2, Cancelling
  <2>. QED BY <1>2, <2>1, FollowsTypes
<1>. HIDE DEF mine
<1>4. Follows(jobs, mine) /\ ForwardsOf(jobs, rows)
  <2>1. Follows(jobs, mine)
    BY <1>3, SettingStates DEF JobStates
  <2>. QED BY <1>3, <2>1, FollowsTypes
<1>. HIDE DEF jobs
<1>5. Swept(now, destination, number) = mine \/ Swept(now, destination, number) = jobs
  BY DEF Swept, kept, live, mine, jobs
<1>6. Follows(live, forward_jobs)
  BY <1>1, <1>2, FollowsOn
<1>7. Follows(mine, forward_jobs)
  BY <1>3, <1>6, FollowsOn
<1>8. Follows(jobs, forward_jobs)
  BY <1>4, <1>7, FollowsOn
<1>9. \A i \in Queued(mine) : forward_jobs[i].destination = destination
  BY <1>3, <1>6 DEF Follows, Queued
<1>10. Queued(jobs) \subseteq Queued(mine)
  BY <1>3, <1>4, FollowsTypes
<1>. QED BY <1>5, <1>7, <1>8, <1>9, <1>10

-----------------------------------------------------------------------------
(* Types *)

LEMMA ForwardInit == Init => ForwardInv
<1>. SUFFICES ASSUME Init PROVE ForwardInv
  OBVIOUS
<1>1. /\ created = << >> /\ transmitted = << >>
      /\ DOMAIN inbox = {} /\ DOMAIN forward_jobs = {} /\ DOMAIN forward_budget = {}
  BY DEF Init, StoreInit
<1>2. StoreTypes
  BY <1>1 DEF Init, StoreInit, StoreTypes, InboxOf, ForwardsOf, Memory, Settings
<1>3. WorldTypes
  BY ClockAssumption, BoundsAssumption DEF Init, WorldTypes
<1>4. ProcessTypes
  BY <1>1 DEF Init, VolatileInit, ProcessTypes, Memory, Settings, ReceiveType, IdleReceiver,
              SendType, SendPC, Idle
<1>5. InTransit
  BY DEF Init, VolatileInit, InTransit, ForwardPC, Idle, Senders
<1>6. SentStay /\ WaitingForIt /\ QueuedIsDue
  BY <1>1 DEF SentStay, ForwardedAtMostOnce, SentIds, WaitingForIt, Waiting, Queued, QueuedIsDue
<1>7. Arrived /\ Agreement
  BY <1>1, NoneAssumption DEF Init, VolatileInit, Arrived, Agreement
<1>8. rcv.pc # "delete"
  BY DEF Init, VolatileInit, IdleReceiver
<1>9. Covered
  BY <1>1 DEF Init, VolatileInit, Covered, Charged, InFlight, Spent, ForwardPC, Idle, Senders
<1>. QED BY <1>2, <1>3, <1>4, <1>5, <1>6, <1>7, <1>8, <1>9 DEF ForwardInv, Typed, TypeOK

LEMMA NowType == ASSUME WorldTypes PROVE Now \in Int /\ Now' = time' - skew'
BY ClockAssumption DEF WorldTypes, Now

\* A transaction that adds no job.
Shrinks ==
    /\ created' = created /\ Follows(forward_jobs', forward_jobs)
    /\ Queued(forward_jobs') \subseteq DOMAIN inbox'

LEMMA Untouched ==
    ASSUME StoreTypes, QueuedIsDue, UNCHANGED storeVars
    PROVE  StoreTypes' /\ Shrinks /\ UNCHANGED <<forward_config, forward_budget>>
<1>1. StoreTypes' /\ UNCHANGED <<forward_config, forward_budget>>
  BY DEF StoreTypes, storeVars
<1>2. Shrinks
  BY FollowsItself DEF StoreTypes, storeVars, Shrinks, QueuedIsDue
<1>. QED BY <1>1, <1>2

LEMMA Projected ==
    ASSUME StoreTypes, NEW table, NEW jobs, NEW now \in Int,
           InboxOf(table, DOMAIN created), Follows(jobs, forward_jobs),
           Project(table, jobs, now), UNCHANGED <<created, pending_modem, forward_budget>>,
           forward_config' \in [destination : Settings, activatedAt : Int, at : Nat]
    PROVE  StoreTypes' /\ Shrinks
<1>1. ForwardsOf(forward_jobs, DOMAIN created)
  BY DEF StoreTypes
<1>2. ForwardsOf(jobs, DOMAIN created)
  BY <1>1, FollowsTypes
<1>3. /\ InboxOf(inbox', DOMAIN created) /\ ForwardsOf(forward_jobs', DOMAIN created)
      /\ Follows(forward_jobs', jobs) /\ Queued(forward_jobs') \subseteq DOMAIN inbox'
  BY <1>2, Projecting
<1>4. Follows(forward_jobs', forward_jobs)
  BY <1>3, FollowsOn
<1>. QED BY <1>3, <1>4 DEF StoreTypes, Shrinks

LEMMA Transactions ==
    ASSUME StoreTypes, NEW now \in Int,
           \/ List(now) \/ RecoverForward(now) \/ \E id \in DOMAIN inbox : Delete(id, now)
           \/ \E id, sent : FinishForward(id, sent, now)
    PROVE  StoreTypes' /\ Shrinks /\ UNCHANGED <<forward_config, forward_budget>>
<1>1. /\ ForwardsOf(forward_jobs, DOMAIN created) /\ InboxOf(inbox, DOMAIN created)
      /\ forward_config \in [destination : Settings, activatedAt : Int, at : Nat]
  BY DEF StoreTypes
<1>2. Follows(forward_jobs, forward_jobs)
  BY <1>1, FollowsItself
<1>3. CASE List(now)
  BY <1>1, <1>2, <1>3, Projected DEF List
<1>4. CASE RecoverForward(now)
  <2>1. Follows(SetState(forward_jobs, Sending(forward_jobs), "unknown"), forward_jobs)
    BY <1>1, SettingStates DEF JobStates
  <2>. QED BY <1>1, <1>4, <2>1, Projected DEF RecoverForward
<1>5. ASSUME NEW id \in DOMAIN inbox, Delete(id, now)
      PROVE  StoreTypes' /\ Shrinks /\ UNCHANGED <<forward_config, forward_budget>>
  <2>1. Follows(Restrict(forward_jobs, DOMAIN forward_jobs \ {id}), forward_jobs)
    BY <1>1, Restricting
  <2>2. InboxOf(Restrict(inbox, DOMAIN inbox \ {id}), DOMAIN created)
    BY <1>1 DEF InboxOf, Restrict
  <2>. QED BY <1>1, <1>5, <2>1, <2>2, Projected DEF Delete
<1>6. ASSUME NEW id, NEW sent, FinishForward(id, sent, now)
      PROVE  StoreTypes' /\ Shrinks /\ UNCHANGED <<forward_config, forward_budget>>
  <2>1. \A state \in {"sent", "unknown"} :
          Follows(SetState(forward_jobs, Sending(forward_jobs) \cap {id}, state), forward_jobs)
    BY <1>1, SettingStates DEF JobStates
  <2>2. PICK state \in {"sent", "unknown"} :
          Project(inbox, SetState(forward_jobs, Sending(forward_jobs) \cap {id}, state), now)
    BY <1>6 DEF FinishForward
  <2>. QED BY <1>1, <1>6, <2>1, <2>2, Projected DEF FinishForward
<1>. QED BY <1>3, <1>4, <1>5, <1>6

LEMMA Configuring ==
    ASSUME StoreTypes, NEW now \in Int, NEW at \in Nat, NEW destination \in Settings,
           ConfigureForward(destination, now, at)
    PROVE  /\ StoreTypes' /\ Shrinks
           /\ \A i \in Queued(forward_jobs') : forward_jobs[i].destination = destination
<1> DEFINE jobs == CancelOthers(forward_jobs, destination)
<1>1. /\ ForwardsOf(forward_jobs, DOMAIN created) /\ InboxOf(inbox, DOMAIN created)
  BY DEF StoreTypes
<1>2. /\ Follows(jobs, forward_jobs)
      /\ \A i \in Queued(jobs) : forward_jobs[i].destination = destination
  BY <1>1, Cancelling
<1>3. forward_config' \in [destination : Settings, activatedAt : Int, at : Nat]
  BY DEF ConfigureForward, StoreTypes
<1>4. Project(inbox, jobs, now) /\ UNCHANGED <<created, pending_modem, forward_budget>>
  BY DEF ConfigureForward
<1>. HIDE DEF jobs
<1>5. StoreTypes' /\ Shrinks
  BY <1>1, <1>2, <1>3, <1>4, Projected
<1>6. ForwardsOf(jobs, DOMAIN created)
  BY <1>1, <1>2, FollowsTypes
<1>7. Follows(forward_jobs', jobs)
  BY <1>1, <1>4, <1>6, Projecting
<1>8. Queued(forward_jobs') \subseteq Queued(jobs)
  BY <1>6, <1>7, FollowsTypes
<1>. QED BY <1>2, <1>5, <1>8

-----------------------------------------------------------------------------
(* The two transactions that touch a single job *)

\* What recording message m may have queued.
NewJob(i, m, stamp, destination, activatedAt) ==
    /\ i = Len(created) + 1 /\ destination # "off"
    /\ Eligible(m, stamp, activatedAt)
    /\ forward_jobs'[i].message = m /\ forward_jobs'[i].destination = destination

OldJob(i) ==
    /\ i \in DOMAIN forward_jobs
    /\ forward_jobs'[i].message = forward_jobs[i].message
    /\ forward_jobs'[i].destination = forward_jobs[i].destination
    /\ forward_jobs'[i].state = "queued" => forward_jobs[i].state = "queued"

LEMMA Recording ==
    ASSUME StoreTypes, NEW m \in Messages, NEW p \in Paths, NEW stamp, NEW now \in Int,
           NEW destination \in Settings, NEW activatedAt, ~Recorded(m, p),
           RecordWithForwardSince(m, p, stamp, now, destination, activatedAt)
    PROVE  /\ StoreTypes' /\ created' = Append(created, m)
           /\ UNCHANGED <<forward_config, forward_budget>>
           /\ Queued(forward_jobs') \subseteq DOMAIN inbox'
           /\ \A i \in DOMAIN forward_jobs' :
                OldJob(i) \/ NewJob(i, m, stamp, destination, activatedAt)
<1> DEFINE id == Len(created) + 1
           entry == [message |-> m, receivedAt |-> now]
           row == [message |-> m, destination |-> destination, state |-> "queued",
                   createdAt |-> now, expiresAt |-> now + ForwardTTL, budgetDay |-> None]
           table == Put(inbox, id, entry)
           ids == Recent(table, now) \cap Newest(table)
           fits == ForwardText(m, destination) /\ Eligible(m, stamp, activatedAt)
           jobs == IF fits THEN Put(forward_jobs, id, row) ELSE forward_jobs
           rows == 1..(Len(created) + 1)
<1>1. /\ inbox' = Restrict(table, ids) /\ forward_jobs' = JobsOf(jobs, ids)
      /\ pending_modem' = [pending_modem EXCEPT ![p] = Content[m].identity]
      /\ created' = Append(created, m) /\ UNCHANGED <<forward_budget, forward_config>>
  BY DEF RecordWithForwardSince
<1>2. /\ created' \in Seq(Messages) /\ DOMAIN created' = rows
      /\ DOMAIN created = 1..Len(created) /\ DOMAIN created \subseteq rows /\ id \in rows
      /\ Len(created) \in Nat
  BY <1>1 DEF StoreTypes
<1>3. InboxOf(table, rows)
  <2>1. InboxOf(inbox, DOMAIN created) /\ entry \in EntryType
    BY DEF StoreTypes, EntryType
  <2>. HIDE DEF entry
  <2>. QED BY <1>2, <2>1 DEF InboxOf, Put
<1>4. ids \subseteq DOMAIN table
  BY DEF Recent
<1>5. fits => /\ row \in RowType /\ destination # "off"
  BY PeriodAssumption DEF ForwardText, RowType, Settings, JobStates
<1>6. ForwardsOf(jobs, rows)
  <2>1. ForwardsOf(forward_jobs, DOMAIN created)
    BY DEF StoreTypes
  <2>. HIDE DEF row, fits
  <2>. QED BY <1>2, <1>5, <2>1 DEF ForwardsOf, Put
<1>7. \A i \in DOMAIN jobs : \/ i \in DOMAIN forward_jobs /\ jobs[i] = forward_jobs[i]
                             \/ i = id /\ fits /\ jobs[i] = row
  BY DEF Put
<1>. HIDE DEF table, ids, jobs
<1>8. InboxOf(inbox', rows) /\ DOMAIN inbox' = ids
  BY <1>1, <1>3, <1>4 DEF InboxOf, Restrict
<1>9. Follows(forward_jobs', jobs) /\ Queued(forward_jobs') \subseteq ids
  BY <1>1, <1>6, KeepingJobs
<1>10. ForwardsOf(forward_jobs', rows)
  BY <1>6, <1>9, FollowsTypes
<1>11. pending_modem' \in Memory
  BY <1>1, ContentAssumption DEF StoreTypes, Memory, ContentType
<1>12. StoreTypes'
  BY <1>1, <1>2, <1>8, <1>10, <1>11 DEF StoreTypes
<1>13. ASSUME NEW i \in DOMAIN forward_jobs'
       PROVE  OldJob(i) \/ NewJob(i, m, stamp, destination, activatedAt)
  <2>1. /\ i \in DOMAIN jobs
        /\ forward_jobs'[i].message = jobs[i].message
        /\ forward_jobs'[i].destination = jobs[i].destination
        /\ forward_jobs'[i].state = "queued" => jobs[i].state = "queued"
    BY <1>9 DEF Follows
  <2>2. CASE i \in DOMAIN forward_jobs /\ jobs[i] = forward_jobs[i]
    BY <2>1, <2>2 DEF OldJob
  <2>3. CASE i = id /\ fits /\ jobs[i] = row
    BY <1>5, <2>1, <2>3 DEF NewJob
  <2>. QED BY <1>7, <2>1, <2>2, <2>3
<1>. QED BY <1>1, <1>8, <1>9, <1>12, <1>13

LEMMA DayType == ASSUME NEW now \in Int PROVE Day(now) \in Int
BY PeriodAssumption DEF Day

LEMMA Reserving ==
    ASSUME StoreTypes, QueuedIsDue, NEW now \in Int, NEW destination, NEW number,
           NEW id \in DOMAIN forward_jobs, ReserveForward(id, now, destination, number)
    PROVE  /\ StoreTypes' /\ Shrinks /\ forward_config' = forward_config
           /\ id \in Queued(forward_jobs) /\ id \notin Queued(forward_jobs')
           /\ forward_jobs[id] \in RowType /\ forward_jobs[id].destination = destination
           /\ forward_budget' = Put(forward_budget, Day(now),
                                    Spent(Day(now)) + Segments(forward_jobs[id]))
<1> DEFINE jobs == Swept(now, destination, number)
           day == Day(now)
           spent == Spent(day) + Content[jobs[id].message].segments
<1>1. /\ id \in Reservable(jobs, now, destination, number)
      /\ forward_jobs' = [jobs EXCEPT ![id].state = "sending", ![id].budgetDay = day]
      /\ forward_budget' = Put(forward_budget, day, spent)
      /\ UNCHANGED <<inbox, pending_modem, forward_config, created>>
  BY DEF ReserveForward
<1>2. ForwardsOf(forward_jobs, DOMAIN created)
  BY DEF StoreTypes
<1>3. /\ Follows(jobs, forward_jobs)
      /\ \A i \in Queued(jobs) : forward_jobs[i].destination = destination
  BY <1>2, Sweeping
<1>. HIDE DEF jobs
<1>4. ForwardsOf(jobs, DOMAIN created) /\ Queued(jobs) \subseteq Queued(forward_jobs)
  BY <1>2, <1>3, FollowsTypes
<1>5. id \in Queued(jobs) /\ id \in DOMAIN jobs /\ spent <= SegmentLimit
  BY <1>1 DEF Reservable, Oldest, Queued
<1>6. jobs[id] \in RowType /\ forward_jobs[id] \in RowType /\ jobs[id].message \in Messages
  BY <1>2, <1>4, <1>5 DEF ForwardsOf, RowType
<1>7. day \in Int
  BY DayType
<1>. HIDE DEF day
<1>8. Follows(forward_jobs', jobs) /\ id \notin Queued(forward_jobs')
  <2>1. /\ DOMAIN forward_jobs' = DOMAIN jobs
        /\ \A i \in DOMAIN jobs : i # id => forward_jobs'[i] = jobs[i]
        /\ forward_jobs'[id] = [jobs[id] EXCEPT !.state = "sending", !.budgetDay = day]
    BY <1>1, <1>5
  <2>2. /\ forward_jobs'[id] \in RowType /\ forward_jobs'[id].state = "sending"
        /\ forward_jobs'[id].message = jobs[id].message
        /\ forward_jobs'[id].destination = jobs[id].destination
    BY <1>6, <1>7, <2>1 DEF RowType, JobStates
  <2>. QED BY <1>4, <2>1, <2>2 DEF Follows, ForwardsOf, Queued
<1>9. Follows(forward_jobs', forward_jobs)
  BY <1>3, <1>8, FollowsOn
<1>10. ForwardsOf(forward_jobs', DOMAIN created) /\ Queued(forward_jobs') \subseteq Queued(jobs)
  BY <1>4, <1>8, FollowsTypes
<1>11. Spent(day) \in 0..SegmentLimit
  BY LimitAssumption DEF StoreTypes, Spent
<1>12. Content[jobs[id].message].segments \in Nat \ {0}
  BY <1>6, ContentAssumption DEF ContentType
<1>13. spent \in 1..SegmentLimit
  BY <1>5, <1>11, <1>12, LimitAssumption
<1>17. spent = Spent(day) + Segments(forward_jobs[id])
  BY <1>3, <1>5 DEF Follows, Segments
<1>. HIDE DEF spent
<1>14. \A d \in DOMAIN forward_budget' : forward_budget'[d] \in 1..SegmentLimit
  BY <1>1, <1>13 DEF StoreTypes, Put
<1>15. StoreTypes'
  BY <1>1, <1>10, <1>14 DEF StoreTypes
<1>16. Shrinks
  BY <1>1, <1>4, <1>9, <1>10 DEF Shrinks, QueuedIsDue
<1>. QED BY <1>1, <1>3, <1>4, <1>5, <1>6, <1>8, <1>15, <1>16, <1>17 DEF day

LEMMA ReservingNothing ==
    ASSUME StoreTypes, QueuedIsDue, NEW now \in Int, NEW destination, NEW number,
           ReserveNothing(now, destination, number)
    PROVE  StoreTypes' /\ Shrinks /\ UNCHANGED <<forward_config, forward_budget>>
<1>1. /\ forward_jobs' = Swept(now, destination, number)
      /\ UNCHANGED <<inbox, pending_modem, forward_budget, forward_config, created>>
  BY DEF ReserveNothing
<1>2. ForwardsOf(forward_jobs, DOMAIN created)
  BY DEF StoreTypes
<1>3. Follows(forward_jobs', forward_jobs)
  BY <1>1, <1>2, Sweeping
<1>4. /\ ForwardsOf(forward_jobs', DOMAIN created)
      /\ Queued(forward_jobs') \subseteq Queued(forward_jobs)
  BY <1>2, <1>3, FollowsTypes
<1>. QED BY <1>1, <1>3, <1>4 DEF StoreTypes, Shrinks, QueuedIsDue

-----------------------------------------------------------------------------
(* Steps that send nothing and queue nothing *)

\* What has arrived stays so, in the modem as in the history.
MailKept ==
    /\ \A m \in Messages : arrivedAt[m] # None => arrivedAt'[m] = arrivedAt[m]
    /\ \A p \in Paths : modem'[p] \in Messages => arrivedAt'[modem'[p]] # None

\* The forwarder comes to rest, or goes on with the job in hand.
ControlKept ==
    \/ ForwardPC' = "idle"
    \/ /\ ForwardPC # "idle" /\ UNCHANGED <<job, forwardDestination>>
       /\ ForwardPC' \in {"reserved", "create", "submit"} =>
            ForwardPC \in {"reserved", "create", "submit"}

SettingKept == UNCHANGED forwardVars \/ forwardDestination' = "off"

LEMMA RowsKept ==
    ASSUME ForwardInv, Shrinks, MailKept, UNCHANGED historyVars
    PROVE  /\ SentStay' /\ Arrived' /\ Waiting' \subseteq Waiting
           /\ \A i \in Waiting' :
                /\ i \in DOMAIN inbox'
                /\ forward_jobs'[i].destination = forward_jobs[i].destination
                /\ arrivedAt'[forward_jobs'[i].message] = arrivedAt[forward_jobs[i].message]
<1>1. /\ Follows(forward_jobs', forward_jobs) /\ created' = created
      /\ Waiting' \subseteq DOMAIN inbox' /\ SentIds' = SentIds
  BY DEF Shrinks, Waiting, SentIds, historyVars
<1>2. Waiting' \subseteq Waiting
  BY <1>1 DEF Follows, Waiting, Queued
<1>3. SentStay'
  BY <1>1, <1>2 DEF ForwardInv, SentStay, ForwardedAtMostOnce, historyVars
<1>4. \A i \in DOMAIN forward_jobs' :
        /\ i \in DOMAIN forward_jobs /\ forward_jobs[i].message \in Messages
        /\ forward_jobs'[i].message = forward_jobs[i].message
        /\ forward_jobs'[i].destination = forward_jobs[i].destination
  BY <1>1 DEF ForwardInv, Typed, TypeOK, StoreTypes, ForwardsOf, RowType, Follows
<1>5. \A i \in DOMAIN forward_jobs' :
        /\ arrivedAt[forward_jobs[i].message] # None
        /\ arrivedAt'[forward_jobs'[i].message] = arrivedAt[forward_jobs[i].message]
  BY <1>4 DEF ForwardInv, Arrived, MailKept
<1>6. Arrived'
  BY <1>5 DEF Arrived, MailKept
<1>. QED BY <1>1, <1>2, <1>3, <1>4, <1>5, <1>6 DEF Waiting, Queued

LEMMA JobsKept ==
    ASSUME ForwardInv, Shrinks, MailKept, UNCHANGED <<historyVars, forward_config>>
    PROVE  SentStay' /\ Arrived' /\ WaitingForIt' /\ QueuedIsDue' /\ Waiting' \subseteq Waiting
<1>1. /\ SentStay' /\ Arrived' /\ Waiting' \subseteq Waiting
      /\ \A i \in Waiting' :
           /\ i \in DOMAIN inbox'
           /\ forward_jobs'[i].destination = forward_jobs[i].destination
           /\ arrivedAt'[forward_jobs'[i].message] = arrivedAt[forward_jobs[i].message]
  BY RowsKept
<1>2. WaitingForIt'
  BY <1>1 DEF ForwardInv, WaitingForIt
<1>3. QueuedIsDue'
  BY <1>1 DEF ForwardInv, QueuedIsDue, Waiting
<1>. QED BY <1>1, <1>2, <1>3

LEMMA TransitKept ==
    ASSUME ForwardInv, ControlKept, UNCHANGED historyVars,
           DOMAIN created \subseteq DOMAIN created',
           Waiting' \cap DOMAIN created \subseteq Waiting
    PROVE  InTransit'
<1>1. SentIds' = SentIds
  BY DEF SentIds, historyVars
<1>. QED BY <1>1 DEF ForwardInv, InTransit, ControlKept

LEMMA CoveredKept ==
    ASSUME ForwardInv, ControlKept, UNCHANGED <<historyVars, forward_budget>>
    PROVE  Covered'
<1>. SUFFICES ASSUME NEW d \in Int PROVE (Charged(d) + InFlight(d) <= Spent(d))'
  BY DEF Covered
<1>1. Charged(d)' = Charged(d) /\ Spent(d)' = Spent(d)
  BY DEF historyVars, Charged, Spent
<1>2. InFlight(d) \in Nat
  BY ContentAssumption DEF ForwardInv, InTransit, InFlight, Segments, JobType, ContentType
<1>3. InFlight(d)' = 0 \/ InFlight(d)' = InFlight(d)
  BY DEF ControlKept, InFlight
<1>4. Charged(d) \in Int /\ Spent(d) \in Int /\ Charged(d) + InFlight(d) <= Spent(d)
  BY LimitAssumption
     DEF ForwardInv, Covered, Typed, TypeOK, StoreTypes, ProcessTypes, Charged, Spent
<1>. QED BY <1>1, <1>2, <1>3, <1>4

LEMMA CommonStep ==
    ASSUME ForwardInv, Typed', Shrinks, MailKept, ControlKept, SettingKept,
           UNCHANGED <<historyVars, forward_config, forward_budget>>
    PROVE  ForwardInv'
<1>1. SentStay' /\ Arrived' /\ WaitingForIt' /\ QueuedIsDue' /\ Waiting' \subseteq Waiting
  BY JobsKept
<1>2. InTransit'
  BY <1>1, TransitKept DEF Shrinks
<1>3. Agreement'
  BY DEF ForwardInv, Agreement, SettingKept, forwardVars
<1>4. Covered'
  BY CoveredKept
<1>. QED BY <1>1, <1>2, <1>3, <1>4 DEF ForwardInv

\* Nothing happens to the mail.
LEMMA SameMail ==
    ASSUME ForwardInv, arrivedAt' = arrivedAt, \A p \in Paths : modem'[p] \in {modem[p], None}
           \cup Senders
    PROVE  MailKept
BY NoneAssumption, SenderAssumption DEF ForwardInv, Arrived, MailKept

\* The forwarder does not move.
LEMMA SameControl ==
    ASSUME UNCHANGED <<job, forwardDestination>>, ForwardPC' = ForwardPC
    PROVE  ControlKept
BY DEF ControlKept

LEMMA UseType ==
    ASSUME WorldTypes, NEW kind \in Disturbances, left' = left \/ Use(kind)
    PROVE  left' \in [Disturbances -> Nat]
BY DEF WorldTypes, Use

LEMMA WorldForwards == ASSUME ForwardInv, World PROVE ForwardInv'
<1>1. StoreTypes /\ WorldTypes /\ ProcessTypes /\ QueuedIsDue
  BY DEF ForwardInv, Typed, TypeOK
<1>2. UNCHANGED <<storeVars, procVars, settingVars, historyVars>>
  BY DEF World, Arrive, Assemble, Renumber, Tick, SyncClock
<1>3. ProcessTypes' /\ rcv' = rcv /\ ControlKept /\ SettingKept
  <2>1. ForwardPC' = ForwardPC
    BY <1>2 DEF procVars, ForwardPC
  <2>2. UNCHANGED <<forwardVars, job, forwardDestination, rcv>>
    BY <1>2 DEF procVars, forwardVars
  <2>3. ProcessTypes'
    BY <1>1, <1>2 DEF ProcessTypes, procVars, forwardVars, settingVars, historyVars
  <2>. QED BY <2>1, <2>2, <2>3, SameControl DEF SettingKept
<1>4. StoreTypes' /\ Shrinks /\ UNCHANGED <<forward_config, forward_budget>>
  BY <1>1, <1>2, Untouched
<1>5. left' \in [Disturbances -> Nat]
  BY <1>1, UseType DEF World, Arrive, Assemble, Renumber, Tick, SyncClock, Disturbances
<1>6. WorldTypes' /\ MailKept
  <2>1. ASSUME NEW m \in Messages, NEW p \in Paths, Arrive(m, p)
        PROVE  WorldTypes' /\ MailKept
    <3>1. /\ arrivedAt[m] = None /\ arrivedAt' = [arrivedAt EXCEPT ![m] = time]
          /\ modem' = [modem EXCEPT ![p] = m] /\ assembling' \subseteq Paths
          /\ UNCHANGED <<time, skew>>
      BY <1>1, <2>1 DEF Arrive, clockVars, WorldTypes
    <3>2. WorldTypes'
      BY <1>1, <1>5, <3>1 DEF WorldTypes
    <3>3. \A n \in Messages : arrivedAt[n] # None => arrivedAt'[n] = arrivedAt[n]
      BY <1>1, <3>1 DEF WorldTypes
    <3>4. arrivedAt'[m] # None /\ \A n \in Messages : arrivedAt[n] # None => arrivedAt'[n] # None
      BY <1>1, <3>1, <3>3, NoneAssumption DEF WorldTypes
    <3>5. \A q \in Paths : modem'[q] = IF q = p THEN m ELSE modem[q]
      BY <1>1, <3>1 DEF WorldTypes
    <3>. QED BY <3>2, <3>3, <3>4, <3>5 DEF MailKept, ForwardInv, Arrived
  <2>2. ASSUME NEW f \in Bijection(Paths, Paths), Renumber(f)
        PROVE  WorldTypes' /\ MailKept
    <3>1. f \in [Paths -> Paths]
      BY DEF Bijection, Injection
    <3>2. /\ modem' = [p \in Paths |-> modem[f[p]]] /\ assembling' \subseteq Paths
          /\ UNCHANGED <<arrivedAt, time, skew>>
      BY <2>2 DEF Renumber, clockVars
    <3>3. WorldTypes'
      BY <1>1, <1>5, <3>1, <3>2 DEF WorldTypes
    <3>. QED BY <3>1, <3>2, <3>3 DEF MailKept, ForwardInv, Arrived
  <2>3. CASE (\E p \in Paths : Assemble(p)) \/ Tick \/ SyncClock
    <3>1. WorldTypes'
      BY <1>1, <1>5, <2>3, ClockAssumption
         DEF Assemble, Tick, SyncClock, worldVars, clockVars, WorldTypes
    <3>2. UNCHANGED <<modem, arrivedAt>>
      BY <2>3 DEF Assemble, Tick, SyncClock, worldVars
    <3>. QED BY <3>1, <3>2, SameMail
  <2>. QED BY <2>1, <2>2, <2>3 DEF World
<1>7. Typed'
  BY <1>3, <1>4, <1>6 DEF ForwardInv, Typed, TypeOK
<1>. QED BY <1>2, <1>3, <1>4, <1>6, <1>7, CommonStep

-----------------------------------------------------------------------------
(* The process and the receiver *)

LEMMA ProcessForwards == ASSUME ForwardInv, Process PROVE ForwardInv'
<1>1. StoreTypes /\ WorldTypes /\ ProcessTypes /\ QueuedIsDue
  BY DEF ForwardInv, Typed, TypeOK
<1>2. UNCHANGED <<worldVars, clockVars, setting, historyVars>>
  BY DEF Process, Start, StartLoops, Stop, Exit, Crash, settingVars
<1>3. left' \in [Disturbances -> Nat]
  BY <1>1, UseType DEF Process, Start, StartLoops, Stop, Exit, Crash, Disturbances
<1>4. WorldTypes' /\ MailKept
  BY <1>1, <1>2, <1>3, SameMail DEF WorldTypes, worldVars, clockVars
<1>5. StoreTypes' /\ Shrinks /\ UNCHANGED <<forward_config, forward_budget>>
  <2>1. CASE Start
    BY <1>1, <2>1, NowType, Transactions DEF Start
  <2>2. CASE StartLoops \/ Stop \/ Exit \/ Crash
    BY <1>1, <2>2, Untouched DEF StartLoops, Stop, Exit, Crash
  <2>. QED BY <2>1, <2>2 DEF Process
<1>6. ProcessTypes' /\ ControlKept /\ SettingKept
  <2>1. CASE Start \/ StartLoops \/ Stop
    <3>1. /\ UNCHANGED <<deliveredUndeleted, forwardVars, own, mu, rcv, send, job>>
          /\ up' \in {"starting", "running", "stopping"} /\ unhandled' \in BOOLEAN
      BY <1>1, <2>1 DEF Start, StartLoops, Stop, ProcessTypes, settingVars
    <3>2. ProcessTypes'
      BY <1>1, <1>2, <3>1 DEF ProcessTypes, forwardVars, historyVars
    <3>. QED BY <3>1, <3>2, SameControl DEF SettingKept, ForwardPC, forwardVars
  <2>2. CASE Exit \/ Crash
    <3>1. VolatileReset /\ up' = "down" /\ unhandled' = unhandled
      BY <2>2 DEF Exit, Crash, settingVars
    <3>2. ProcessTypes'
      BY <1>1, <1>2, <3>1 DEF VolatileReset, ProcessTypes, Memory, Settings, ReceiveType,
                              IdleReceiver, SendType, SendPC, Idle, historyVars
    <3>. QED BY <3>1, <3>2 DEF VolatileReset, ControlKept, SettingKept, ForwardPC, Idle, Senders
  <2>. QED BY <2>1, <2>2 DEF Process
<1>7. Typed'
  <2>1. rcv' = rcv \/ rcv'.pc = "idle"
    BY DEF Process, Start, StartLoops, Stop, Exit, Crash, VolatileReset, IdleReceiver
  <2>. QED BY <1>4, <1>5, <1>6, <2>1 DEF ForwardInv, Typed, TypeOK
<1>. QED BY <1>2, <1>4, <1>5, <1>6, <1>7, CommonStep

LEMMA Deletion ==
    ASSUME WorldTypes, NEW p, NEW ok, DeleteSMS(p, ok)
    PROVE  /\ modem' \in [Paths -> Messages \cup Senders \cup {None}]
           /\ assembling' \subseteq Paths /\ arrivedAt' = arrivedAt
           /\ \A q \in Paths : modem'[q] \in {modem[q], None}
BY DEF DeleteSMS, worldVars, WorldTypes

\* Recording a message queues at most a job that is due.
LEMMA RecordForwards ==
    ASSUME ForwardInv, Typed', NEW p \in Paths, modem[p] \in Messages,
           ~Recorded(modem[p], p),
           RecordWithForwardSince(modem[p], p, arrivedAt[modem[p]], Now,
                                  forwardDestination, forwardActivatedAt),
           UNCHANGED <<modem, arrivedAt, forwardVars, send, job, historyVars>>
    PROVE  ForwardInv'
<1> DEFINE m == modem[p]
<1>1. /\ StoreTypes /\ WorldTypes /\ ProcessTypes
  BY DEF ForwardInv, Typed, TypeOK
<1>2. /\ arrivedAt[m] \in Nat /\ arrivedAt[m] # None
  BY <1>1 DEF WorldTypes, ForwardInv, Arrived
<1>3. /\ created' = Append(created, m) /\ forward_config' = forward_config
      /\ Queued(forward_jobs') \subseteq DOMAIN inbox'
      /\ \A i \in DOMAIN forward_jobs' :
           OldJob(i) \/ NewJob(i, m, arrivedAt[m], forwardDestination, forwardActivatedAt)
  BY <1>1, NowType, Recording DEF ProcessTypes
<1>4. /\ DOMAIN created \subseteq DOMAIN created' /\ Len(created) + 1 \notin DOMAIN created
  BY <1>1, <1>3 DEF StoreTypes
<1>5. SentIds' = SentIds /\ ForwardPC' = ForwardPC
  BY DEF SentIds, ForwardPC, historyVars
<1>6. \A i \in Waiting' : i \in DOMAIN forward_jobs' /\ (OldJob(i) => i \in Waiting)
  BY DEF Waiting, Queued, OldJob
<1>7. InTransit' /\ SentStay'
  <2>1. \A i \in Waiting' : i \in Waiting \/ i \notin DOMAIN created
    BY <1>3, <1>4, <1>6 DEF NewJob
  <2>2. UNCHANGED <<job, transmitted, forwardDestination>>
    BY DEF forwardVars, historyVars
  <2>3. InTransit'
    BY <1>4, <1>5, <2>1, <2>2 DEF ForwardInv, InTransit
  <2>4. SentStay'
    BY <1>4, <1>5, <2>1, <2>2 DEF ForwardInv, SentStay, ForwardedAtMostOnce, historyVars
  <2>. QED BY <2>3, <2>4
<1>8. Arrived'
  BY <1>2, <1>3 DEF ForwardInv, Arrived, OldJob, NewJob
<1>9. Agreement'
  BY <1>3 DEF ForwardInv, Agreement, forwardVars
<1>10. ASSUME NEW i \in Waiting'
       PROVE  /\ forward_jobs'[i].destination = forward_config.destination
              /\ forward_config.activatedAt = forward_config.at
                   => arrivedAt[forward_jobs'[i].message] >= forward_config.at
  <2>1. CASE OldJob(i)
    BY <1>6, <2>1 DEF OldJob, ForwardInv, WaitingForIt, QueuedIsDue, Waiting
  <2>2. CASE NewJob(i, m, arrivedAt[m], forwardDestination, forwardActivatedAt)
    <3>1. /\ forwardDestination = forward_config.destination
          /\ forwardActivatedAt = forward_config.activatedAt
      BY <2>2 DEF NewJob, ForwardInv, Agreement
    <3>2. forwardActivatedAt = 0 \/ arrivedAt[m] >= forwardActivatedAt
      BY <2>2 DEF NewJob, Eligible
    <3>3. forward_config.at \in Nat /\ forward_config.activatedAt \in Int
      BY <1>1 DEF StoreTypes
    <3>. QED BY <1>2, <2>2, <3>1, <3>2, <3>3 DEF NewJob
  <2>. QED BY <1>3, <1>6, <2>1, <2>2
<1>11. WaitingForIt' /\ QueuedIsDue'
  BY <1>3, <1>10 DEF WaitingForIt, QueuedIsDue, Waiting
<1>12. Covered'
  <2>1. ControlKept /\ forward_budget' = forward_budget
    BY <1>1, <1>5, NowType, Recording, SameControl DEF ProcessTypes, forwardVars
  <2>. QED BY <2>1, CoveredKept
<1>. QED BY <1>7, <1>8, <1>9, <1>11, <1>12 DEF ForwardInv

LEMMA ReceiverForwards == ASSUME ForwardInv, Receiver PROVE ForwardInv'
<1>1. StoreTypes /\ WorldTypes /\ ProcessTypes /\ QueuedIsDue
  BY DEF ForwardInv, Typed, TypeOK
<1>2. UNCHANGED receiveFrame
  BY DEF Receiver, ReceiveDiscard, ReceiveDeliver, ReceiveRetry, ReceiveDelete, ReceiveForget
<1>3. /\ UNCHANGED <<clockVars, up, forwardVars, own, send, job, settingVars, historyVars>>
      /\ ForwardPC' = ForwardPC /\ SettingKept /\ ControlKept
  BY <1>2, SameControl DEF receiveFrame, SettingKept, ForwardPC, forwardVars
<1>4. left' \in [Disturbances -> Nat]
  BY <1>1, UseType DEF Receiver, ReceiveDiscard, ReceiveDeliver, ReceiveRetry, ReceiveDelete,
                       ReceiveForget, Disturbances
<1>5. MailKept /\ WorldTypes'
  <2>1. /\ modem' \in [Paths -> Messages \cup Senders \cup {None}]
        /\ assembling' \subseteq Paths /\ arrivedAt' = arrivedAt
        /\ \A q \in Paths : modem'[q] \in {modem[q], None}
    <3>1. CASE UNCHANGED worldVars
      BY <1>1, <3>1 DEF worldVars, WorldTypes
    <3>2. CASE \E p, ok : DeleteSMS(p, ok)
      BY <1>1, <3>2, Deletion
    <3>. QED BY <3>1, <3>2 DEF Receiver, ReceiveDiscard, ReceiveDeliver, ReceiveRetry,
                               ReceiveDelete, ReceiveForget
  <2>. QED BY <1>1, <1>3, <1>4, <2>1, SameMail DEF WorldTypes, clockVars
<1>6. ProcessTypes' /\ (rcv'.pc = "delete" => rcv'.message \in Messages)
  <2>1. /\ deliveredUndeleted' \in Memory /\ mu' \in {"free", "receiver"} \cup Senders
        /\ rcv' \in ReceiveType
        /\ rcv' = rcv \/ rcv'.pc # "delete" \/ rcv'.message \in Messages
    <3>1. ASSUME NEW p \in Paths, ReceiveDiscard(p)
          PROVE  UNCHANGED <<deliveredUndeleted, mu, rcv>>
      BY <3>1 DEF ReceiveDiscard
    <3>2. ASSUME NEW p \in Paths, ReceiveDeliver(p) \/ ReceiveRetry(p)
          PROVE  /\ deliveredUndeleted' = deliveredUndeleted
                 /\ \/ mu' = mu /\ rcv' = rcv
                    \/ /\ mu' = "receiver" /\ rcv' \in ReceiveType
                       /\ rcv'.message \in Messages
      BY <3>2 DEF ReceiveDeliver, ReceiveRetry, Take, IsText, ReceiveType
    <3>3. CASE ReceiveDelete
      <4>1. /\ mu' \in {mu, "free"}
            /\ rcv' = [rcv EXCEPT !.pc = "forget"] \/ rcv' = IdleReceiver
        BY <3>3 DEF ReceiveDelete
      <4>2. rcv' \in ReceiveType /\ rcv'.pc # "delete"
        BY <1>1, <4>1 DEF ProcessTypes, ReceiveType, IdleReceiver
      <4>3. \/ deliveredUndeleted' = [deliveredUndeleted EXCEPT ![rcv.path] = None]
            \/ deliveredUndeleted' =
                 [deliveredUndeleted EXCEPT ![rcv.path] = Content[rcv.message].identity]
        BY <3>3 DEF ReceiveDelete
      <4>4. Content[rcv.message].identity \in Identities
        BY <3>3, ContentAssumption DEF ReceiveDelete, ContentType, ForwardInv, Typed
      <4>5. deliveredUndeleted' \in Memory
        BY <1>1, <4>3, <4>4 DEF ProcessTypes, Memory
      <4>. QED BY <1>1, <4>1, <4>2, <4>5 DEF ProcessTypes
    <3>4. CASE ReceiveForget
      BY <1>1, <3>4 DEF ReceiveForget, ProcessTypes, ReceiveType, IdleReceiver
    <3>. QED BY <1>1, <3>1, <3>2, <3>3, <3>4 DEF Receiver, ProcessTypes
  <2>. QED BY <1>1, <1>3, <2>1 DEF ProcessTypes, forwardVars, settingVars, historyVars, ForwardInv,
                                      Typed
<1>7. ASSUME StoreTypes', Shrinks, UNCHANGED <<forward_config, forward_budget>> PROVE ForwardInv'
  BY <1>3, <1>5, <1>6, <1>7, CommonStep DEF Typed, TypeOK
<1>8. ASSUME NEW p \in Paths, ReceiveDeliver(p) PROVE ForwardInv'
  <2>1. modem[p] \in Messages /\ UNCHANGED <<modem, arrivedAt>>
    BY <1>8 DEF ReceiveDeliver, IsText, worldVars
  <2>2. CASE UNCHANGED storeVars
    BY <1>1, <1>7, <2>2, Untouched
  <2>3. CASE List(Now)
    BY <1>1, <1>7, <2>3, NowType, Transactions
  <2>4. CASE /\ ~Recorded(modem[p], p)
             /\ RecordWithForwardSince(modem[p], p, arrivedAt[modem[p]], Now,
                                       forwardDestination, forwardActivatedAt)
    <3>1. StoreTypes'
      BY <1>1, <2>1, <2>4, NowType, Recording DEF ProcessTypes
    <3>. QED BY <1>3, <1>5, <1>6, <2>1, <2>4, <3>1, RecordForwards DEF Typed, TypeOK
  <2>. QED BY <1>8, <2>2, <2>3, <2>4 DEF ReceiveDeliver
<1>9. CASE ReceiveForget
  <2>1. CASE UNCHANGED storeVars
    BY <1>1, <1>7, <2>1, Untouched
  <2>2. CASE ForgetModem(rcv.path)
    <3>1. StoreTypes' /\ Shrinks /\ UNCHANGED <<forward_config, forward_budget>>
      BY <1>1, <2>2, FollowsItself DEF ForgetModem, StoreTypes, Memory, Shrinks, QueuedIsDue
    <3>. QED BY <1>7, <3>1
  <2>. QED BY <1>9, <2>1, <2>2 DEF ReceiveForget
<1>10. CASE UNCHANGED storeVars
  BY <1>1, <1>7, <1>10, Untouched
<1>. QED
  BY <1>8, <1>9, <1>10 DEF Receiver, ReceiveDiscard, ReceiveRetry, ReceiveDelete

-----------------------------------------------------------------------------
(* Sending, the forwarder and the handlers *)

\* A sender's control: the forwarder's moves only with its own steps.
LEMMA Stepping ==
    ASSUME send \in SendType, NEW c \in Senders, NEW pc \in SendPC,
           NEW path \in Paths \cup {None}, NEW ok \in BOOLEAN,
           send' = [send EXCEPT ![c] = [pc |-> pc, path |-> path, ok |-> ok]]
    PROVE  /\ send' \in SendType /\ send'[c].pc = pc
           /\ \A d \in Senders \ {c} : send'[d] = send[d]
BY DEF SendType

\* The job in hand reaches the network, for the first time.
LEMMA TransmitForwards ==
    ASSUME ForwardInv, Typed', UNCHANGED <<storeVars, modem, arrivedAt, forwardVars, job>>,
           ForwardPC = "submit", ForwardPC' = "delete", transmitted' = Append(transmitted, job),
           charged' = Put(charged, job.budgetDay, Charged(job.budgetDay) + Segments(job))
    PROVE  /\ ForwardInv' /\ job.destination = forwardDestination
           /\ transmitted'[Len(transmitted')] = job
<1>1. StoreTypes /\ ProcessTypes
  BY DEF ForwardInv, Typed, TypeOK
<1>2. /\ job \in JobType /\ job.id \in DOMAIN created /\ job.destination = forwardDestination
      /\ job.id \notin Waiting /\ job.id \notin SentIds
  BY DEF ForwardInv, InTransit
<1>3. transmitted \in Seq(JobType)
  BY <1>1 DEF ProcessTypes
<1>4. /\ DOMAIN transmitted' = DOMAIN transmitted \cup {Len(transmitted) + 1}
      /\ \A k \in DOMAIN transmitted : transmitted'[k] = transmitted[k]
      /\ transmitted'[Len(transmitted) + 1] = job /\ Len(transmitted') = Len(transmitted) + 1
  BY <1>2, <1>3
<1>5. SentIds' = SentIds \cup {job.id}
  BY <1>4 DEF SentIds
<1>6. UNCHANGED <<created, inbox, forward_jobs, forward_config, Waiting>>
  BY DEF storeVars, Waiting
<1>7. InTransit'
  BY <1>2, <1>6 DEF InTransit, forwardVars
<1>8. SentStay'
  BY <1>2, <1>4, <1>5, <1>6 DEF ForwardInv, SentStay, ForwardedAtMostOnce, SentIds
<1>9. Arrived' /\ Agreement' /\ WaitingForIt' /\ QueuedIsDue'
  BY <1>6 DEF ForwardInv, Arrived, Agreement, WaitingForIt, QueuedIsDue, forwardVars
<1>10. Covered'
  <2>. SUFFICES ASSUME NEW d \in Int PROVE (Charged(d) + InFlight(d) <= Spent(d))'
    BY DEF Covered
  <2>1. Segments(job) \in Int /\ Charged(d) \in Int
    BY <1>1, <1>2, ContentAssumption DEF Segments, JobType, ContentType, ProcessTypes, Charged
  <2>2. InFlight(d) = IF job.budgetDay = d THEN Segments(job) ELSE 0
    BY DEF InFlight
  <2>3. InFlight(d)' = 0 /\ Spent(d)' = Spent(d)
    BY DEF InFlight, Spent, storeVars
  <2>4. Charged(d)' = IF job.budgetDay = d THEN Charged(d) + Segments(job) ELSE Charged(d)
    BY DEF Charged, Put
  <2>5. Charged(d) + InFlight(d) <= Spent(d)
    BY DEF ForwardInv, Covered
  <2>. QED BY <2>1, <2>2, <2>3, <2>4, <2>5
<1>. QED BY <1>2, <1>4, <1>7, <1>8, <1>9, <1>10 DEF ForwardInv

LEMMA SubmitForwards ==
    ASSUME ForwardInv, NEW c \in Senders, SendSubmit(c)
    PROVE  /\ ForwardInv'
           /\ transmitted' # transmitted =>
                transmitted'[Len(transmitted')].destination = forwardDestination
<1>1. StoreTypes /\ WorldTypes /\ ProcessTypes /\ QueuedIsDue /\ send \in SendType
  BY DEF ForwardInv, Typed, TypeOK, ProcessTypes
<1>2. /\ UNCHANGED <<storeVars, clockVars, up, deliveredUndeleted, forwardVars, own, rcv, job,
                     settingVars, worldVars, mu>>
      /\ send[c].pc = "submit"
      /\ \/ UNCHANGED historyVars
         \/ /\ c = "forward" /\ transmitted' = Append(transmitted, job)
            /\ charged' = Put(charged, job.budgetDay, Charged(job.budgetDay) + Segments(job))
  BY DEF SendSubmit, sendFrame, Transmit
<1>3. /\ send' \in SendType /\ send'[c].pc = "delete"
      /\ \A d \in Senders \ {c} : send'[d] = send[d]
  <2>1. \E ok \in BOOLEAN :
          send' = [send EXCEPT ![c] = [pc |-> "delete", path |-> send[c].path, ok |-> ok]]
    <3>1. \/ send' = [send EXCEPT ![c] = [pc |-> "delete", path |-> @.path, ok |-> TRUE]]
          \/ send' = [send EXCEPT ![c].pc = "delete"]
      BY DEF SendSubmit
    <3>2. send[c] \in [pc : SendPC, path : Paths \cup {None}, ok : BOOLEAN]
      BY <1>1 DEF SendType
    <3>3. [send[c] EXCEPT !.pc = "delete"] =
            [pc |-> "delete", path |-> send[c].path, ok |-> send[c].ok]
      BY <3>2
    <3>. QED BY <3>1, <3>2, <3>3
  <2>2. PICK ok \in BOOLEAN :
          send' = [send EXCEPT ![c] = [pc |-> "delete", path |-> send[c].path, ok |-> ok]]
    BY <2>1
  <2>3. send[c].path \in Paths \cup {None}
    BY <1>1 DEF SendType
  <2>4. "delete" \in SendPC
    BY DEF SendPC
  <2>. QED BY <1>1, <2>2, <2>3, <2>4, Stepping
<1>4. left' \in [Disturbances -> Nat]
  BY <1>1, UseType DEF SendSubmit, Disturbances
<1>5. StoreTypes' /\ Shrinks /\ UNCHANGED <<forward_config, forward_budget>>
  BY <1>1, <1>2, Untouched
<1>6. WorldTypes' /\ MailKept
  BY <1>1, <1>2, <1>4, SameMail DEF WorldTypes, worldVars, clockVars
<1>7. CASE UNCHANGED historyVars
  <2>1. ForwardPC' = ForwardPC \/ (ForwardPC = "submit" /\ ForwardPC' = "delete")
    BY <1>2, <1>3 DEF ForwardPC, Senders
  <2>2. ControlKept /\ SettingKept
    BY <1>2, <2>1 DEF ControlKept, SettingKept, forwardVars
  <2>3. Typed'
    BY <1>1, <1>2, <1>3, <1>5, <1>6, <1>7
       DEF ForwardInv, Typed, TypeOK, ProcessTypes, forwardVars, settingVars, historyVars
  <2>4. ForwardInv'
    BY <1>5, <1>6, <1>7, <2>2, <2>3, CommonStep
  <2>. QED BY <1>7, <2>4 DEF historyVars
<1>8. CASE /\ c = "forward" /\ transmitted' = Append(transmitted, job)
           /\ charged' = Put(charged, job.budgetDay, Charged(job.budgetDay) + Segments(job))
  <2>1. job \in JobType
    BY <1>2, <1>8 DEF ForwardInv, InTransit, ForwardPC
  <2>2. transmitted' \in Seq(JobType)
    BY <1>1, <1>8, <2>1 DEF ProcessTypes
  <2>3. Charged(job.budgetDay) \in Nat /\ Segments(job) \in Nat /\ job.budgetDay \in Int
    BY <1>1, <2>1, ContentAssumption DEF ProcessTypes, Charged, Segments, JobType, ContentType
  <2>4. DOMAIN charged' \subseteq Int /\ \A d \in DOMAIN charged' : charged'[d] \in Nat
    BY <1>1, <1>8, <2>3 DEF ProcessTypes, Put
  <2>5. Typed'
    BY <1>1, <1>2, <1>3, <1>5, <1>6, <2>2, <2>4
       DEF ForwardInv, Typed, TypeOK, ProcessTypes, forwardVars, settingVars
  <2>. QED BY <1>2, <1>3, <1>8, <2>5, TransmitForwards DEF ForwardPC, worldVars
<1>. QED BY <1>2, <1>7, <1>8

LEMMA SenderForwards ==
    ASSUME ForwardInv,
           CommandBegin \/ CommandFinish \/ \E c \in Senders : SendCreate(c) \/ SendDelete(c)
    PROVE  ForwardInv'
<1>1. StoreTypes /\ WorldTypes /\ ProcessTypes /\ QueuedIsDue /\ send \in SendType
  BY DEF ForwardInv, Typed, TypeOK, ProcessTypes
<1>2. UNCHANGED <<storeVars, clockVars, up, deliveredUndeleted, forwardVars, own, rcv, job,
                  settingVars, historyVars>>
  BY DEF CommandBegin, CommandFinish, SendCreate, SendDelete, sendFrame
<1>3. left' \in [Disturbances -> Nat]
  BY <1>1, UseType DEF CommandBegin, CommandFinish, SendCreate, SendDelete, Disturbances
<1>4. /\ modem' \in [Paths -> Messages \cup Senders \cup {None}] /\ assembling' \subseteq Paths
      /\ arrivedAt' = arrivedAt /\ mu' \in {"free", "receiver"} \cup Senders
      /\ \A p \in Paths : modem'[p] \in {modem[p], None} \cup Senders
  <2>1. CASE CommandBegin \/ CommandFinish
    BY <1>1, <2>1 DEF CommandBegin, CommandFinish, worldVars, WorldTypes, ProcessTypes
  <2>2. ASSUME NEW c \in Senders, SendCreate(c)
        PROVE  /\ arrivedAt' = arrivedAt /\ assembling' = assembling /\ mu' \in {mu, c}
               /\ modem' = modem \/ \E p \in Paths : modem' = [modem EXCEPT ![p] = c]
    BY <2>2 DEF SendCreate
  <2>3. ASSUME NEW c \in Senders, SendDelete(c)
        PROVE  mu' = "free" /\ \E p, ok : DeleteSMS(p, ok)
    BY <2>3 DEF SendDelete
  <2>4. CASE \E c \in Senders : SendCreate(c)
    <3>1. PICK c \in Senders : SendCreate(c)
      BY <2>4
    <3>2. CASE modem' = modem
      BY <1>1, <2>2, <3>1, <3>2 DEF WorldTypes, ProcessTypes
    <3>3. CASE \E p \in Paths : modem' = [modem EXCEPT ![p] = c]
      BY <1>1, <2>2, <3>1, <3>3 DEF WorldTypes, ProcessTypes
    <3>. QED BY <2>2, <3>1, <3>2, <3>3
  <2>5. CASE \E c \in Senders : SendDelete(c)
    BY <1>1, <2>3, <2>5, Deletion
  <2>. QED BY <2>1, <2>4, <2>5
<1>5. send' \in SendType /\ ControlKept
  <2> DEFINE Moves(c, pc) ==
               /\ pc \in {"reserved", "create", "submit"} =>
                    c = "command" \/ send[c].pc \in {"create", "submit"}
               /\ c = "command" \/ send[c].pc # "idle"
               /\ \E path \in Paths \cup {None}, ok \in BOOLEAN :
                    send' = [send EXCEPT ![c] = [pc |-> pc, path |-> path, ok |-> ok]]
  <2>1. \E c \in Senders, pc \in SendPC : Moves(c, pc)
    <3>1. ASSUME NEW c \in Senders, NEW pc \in SendPC, send' = [send EXCEPT ![c].pc = pc]
          PROVE  \E path \in Paths \cup {None}, ok \in BOOLEAN :
                   send' = [send EXCEPT ![c] = [pc |-> pc, path |-> path, ok |-> ok]]
      <4>1. send[c] \in [pc : SendPC, path : Paths \cup {None}, ok : BOOLEAN]
        BY <1>1 DEF SendType
      <4>2. [send[c] EXCEPT !.pc = pc] = [pc |-> pc, path |-> send[c].path, ok |-> send[c].ok]
        BY <4>1
      <4>. QED BY <3>1, <4>1, <4>2
    <3>2. "command" \in Senders /\ {"create", "finish", "idle", "submit"} \subseteq SendPC
      BY DEF Senders, SendPC
    <3>3. CASE CommandBegin
      <4>1. Moves("command", "create")
        BY <3>1, <3>2, <3>3 DEF CommandBegin
      <4>. QED BY <3>2, <4>1
    <3>4. CASE CommandFinish
      <4>1. send' = [send EXCEPT !["command"] = [pc |-> "idle", path |-> None, ok |-> FALSE]]
        BY <3>4 DEF CommandFinish, Idle
      <4>2. Moves("command", "idle")
        BY <4>1
      <4>. QED BY <3>2, <4>2
    <3>5. ASSUME NEW c \in Senders, SendCreate(c) \/ SendDelete(c)
          PROVE  /\ send[c].pc \in {"create", "delete"}
                 /\ \/ send' = [send EXCEPT ![c].pc = "finish"]
                    \/ send[c].pc = "create" /\ \E p \in Paths :
                         send' = [send EXCEPT ![c] = [pc |-> "submit", path |-> p, ok |-> FALSE]]
      BY <3>5 DEF SendCreate, SendDelete
    <3>6. ASSUME NEW c \in Senders, SendCreate(c) \/ SendDelete(c)
          PROVE  Moves(c, "finish") \/ Moves(c, "submit")
      BY <3>1, <3>2, <3>5, <3>6
    <3>. HIDE DEF Moves
    <3>. QED BY <3>2, <3>3, <3>4, <3>6
  <2>2. PICK c \in Senders, pc \in SendPC, path \in Paths \cup {None}, ok \in BOOLEAN :
          /\ pc \in {"reserved", "create", "submit"} =>
               c = "command" \/ send[c].pc \in {"create", "submit"}
          /\ c = "command" \/ send[c].pc # "idle"
          /\ send' = [send EXCEPT ![c] = [pc |-> pc, path |-> path, ok |-> ok]]
    BY <2>1
  <2>3. /\ send' \in SendType /\ send'[c].pc = pc
        /\ \A d \in Senders \ {c} : send'[d] = send[d]
    BY <1>1, <2>2, Stepping
  <2>4. ForwardPC' = ForwardPC \/ (c = "forward" /\ ForwardPC = send[c].pc /\ ForwardPC' = pc)
    BY <2>3 DEF ForwardPC, Senders
  <2>. QED BY <1>2, <2>2, <2>3, <2>4 DEF ControlKept, forwardVars
<1>6. StoreTypes' /\ Shrinks /\ UNCHANGED <<forward_config, forward_budget>>
  BY <1>1, <1>2, Untouched
<1>7. WorldTypes' /\ MailKept /\ SettingKept
  BY <1>1, <1>2, <1>3, <1>4, SameMail DEF WorldTypes, clockVars, SettingKept
<1>8. Typed'
  BY <1>1, <1>2, <1>4, <1>5, <1>6, <1>7
     DEF ForwardInv, Typed, TypeOK, ProcessTypes, forwardVars, settingVars, historyVars
<1>. QED BY <1>2, <1>5, <1>6, <1>7, <1>8, CommonStep

LEMMA ForwarderForwards == ASSUME ForwardInv, Forwarder \/ ForwardReserve PROVE ForwardInv'
<1>1. /\ StoreTypes /\ WorldTypes /\ ProcessTypes /\ QueuedIsDue /\ send \in SendType
      /\ Now \in Int
  BY NowType DEF ForwardInv, Typed, TypeOK, ProcessTypes
<1>2. UNCHANGED <<worldVars, clockVars, up, deliveredUndeleted, forwardVars, own, mu, rcv,
                  settingVars, historyVars>>
  BY DEF Forwarder, ForwardPublish, ForwardFinish, ForwardReserve, forwardFrame
<1>3. left' \in [Disturbances -> Nat]
  BY <1>1, UseType DEF Forwarder, ForwardPublish, ForwardFinish, ForwardReserve, Disturbances
<1>4. StoreTypes' /\ Shrinks /\ forward_config' = forward_config
  <2>1. CASE ForwardPublish
    BY <1>1, <2>1, Transactions DEF ForwardPublish
  <2>2. CASE ForwardFinish
    BY <1>1, <2>2, Transactions, Untouched DEF ForwardFinish
  <2>3. CASE ForwardReserve
    BY <1>1, <2>3, Reserving, ReservingNothing DEF ForwardReserve
  <2>. QED BY <2>1, <2>2, <2>3 DEF Forwarder
<1>5. WorldTypes' /\ MailKept /\ SettingKept
  BY <1>1, <1>2, <1>3, SameMail DEF WorldTypes, worldVars, clockVars, SettingKept
<1>6. /\ SentStay' /\ Arrived' /\ WaitingForIt' /\ QueuedIsDue' /\ Waiting' \subseteq Waiting
  BY <1>2, <1>4, <1>5, JobsKept
<1>7. Agreement'
  BY <1>2, <1>4 DEF ForwardInv, Agreement, forwardVars
<1>8. /\ send' \in SendType /\ job' \in JobType \cup {None} /\ InTransit' /\ Covered'
  <2>1. ASSUME NEW pc \in SendPC, send' = [send EXCEPT !["forward"].pc = pc]
        PROVE  send' \in SendType /\ ForwardPC' = pc
    BY <1>1, <2>1 DEF SendType, ForwardPC, Senders
  <2>2. ASSUME send' = [send EXCEPT !["forward"] = Idle]
        PROVE  send' \in SendType /\ ForwardPC' = "idle"
    BY <1>1, <2>2 DEF SendType, SendPC, ForwardPC, Senders, Idle
  <2>3. {"reserved", "create"} \subseteq SendPC
    BY DEF SendPC
  <2>4. CASE UNCHANGED <<send, job, forward_budget>>
    <3>1. ControlKept
      BY <1>2, <2>4 DEF ControlKept, ForwardPC, forwardVars
    <3>2. InTransit'
      BY <1>2, <1>4, <1>6, <3>1, TransitKept DEF Shrinks
    <3>. QED BY <1>1, <1>2, <2>4, <3>1, <3>2, CoveredKept DEF ProcessTypes
  <2>5. CASE /\ send' = [send EXCEPT !["forward"] = Idle] /\ job' = None
             /\ forward_budget' = forward_budget
    BY <1>2, <2>2, <2>5, CoveredKept DEF InTransit, ControlKept
  <2>6. CASE /\ ForwardPC = "reserved" /\ send' = [send EXCEPT !["forward"].pc = "create"]
             /\ UNCHANGED <<job, forward_budget>>
    <3>1. ControlKept /\ send' \in SendType
      BY <1>2, <2>1, <2>3, <2>6 DEF ControlKept, forwardVars
    <3>2. InTransit'
      BY <1>2, <1>4, <1>6, <3>1, TransitKept DEF Shrinks
    <3>. QED BY <1>1, <1>2, <2>6, <3>1, <3>2, CoveredKept DEF ProcessTypes
  <2>7. ASSUME NEW id \in DOMAIN forward_jobs, ForwardPC = "idle",
               ReserveForward(id, Now, forwardDestination, own),
               send' = [send EXCEPT !["forward"].pc = "reserved"],
               job' = [id |-> id, message |-> forward_jobs[id].message,
                       destination |-> forward_jobs[id].destination, budgetDay |-> Day(Now)]
        PROVE  /\ send' \in SendType /\ job' \in JobType \cup {None} /\ InTransit' /\ Covered'
    <3>1. /\ id \in Waiting /\ id \notin Waiting' /\ forward_jobs[id] \in RowType
          /\ forward_jobs[id].destination = forwardDestination
      BY <1>1, <2>7, Reserving DEF Waiting
    <3>2. id \in DOMAIN created /\ id \in Nat \ {0}
      BY <1>1, <2>7 DEF StoreTypes, ForwardsOf
    <3>3. job' \in JobType /\ job'.id = id /\ job'.destination = forwardDestination
      BY <1>1, <2>7, <3>1, <3>2, DayType DEF JobType, RowType
    <3>4. id \notin SentIds
      BY <3>1 DEF ForwardInv, SentStay
    <3>5. SentIds' = SentIds /\ created' = created /\ forwardDestination' = forwardDestination
      BY <1>2, <1>4 DEF SentIds, Shrinks, forwardVars, historyVars
    <3>6. InTransit'
      BY <3>1, <3>2, <3>3, <3>4, <3>5 DEF InTransit
    <3>7. forward_budget' = Put(forward_budget, Day(Now), Spent(Day(Now)) + Segments(job'))
      BY <1>1, <2>7, Reserving DEF Segments
    <3>8. ASSUME NEW d \in Int PROVE (Charged(d) + InFlight(d) <= Spent(d))'
      <4>1. Segments(job') \in Int /\ Charged(d) \in Int /\ Spent(d) \in Int
        BY <1>1, <3>3, ContentAssumption, LimitAssumption
           DEF Segments, JobType, ContentType, ProcessTypes, Charged, StoreTypes, Spent
      <4>2. InFlight(d)' = IF d = Day(Now) THEN Segments(job') ELSE 0
        BY <2>1, <2>3, <2>7 DEF InFlight, Segments
      <4>3. Spent(d)' = IF d = Day(Now) THEN Spent(d) + Segments(job') ELSE Spent(d)
        BY <3>7 DEF Spent, Put
      <4>4. InFlight(d) = 0 /\ Charged(d) <= Spent(d)
        BY <2>7, <4>1 DEF ForwardInv, Covered, InFlight
      <4>5. Charged(d)' = Charged(d)
        BY <1>2 DEF Charged, historyVars
      <4>. QED BY <4>1, <4>2, <4>3, <4>4, <4>5
    <3>. QED BY <2>1, <2>3, <2>7, <3>3, <3>6, <3>8 DEF Covered
  <2>. QED BY <2>4, <2>5, <2>6, <2>7
         DEF Forwarder, ForwardPublish, ForwardFinish, ForwardReserve, ForwardPC, ReserveNothing,
             List, FinishForward, storeVars
<1>9. Typed'
  BY <1>1, <1>2, <1>4, <1>5, <1>8
     DEF ForwardInv, Typed, TypeOK, ProcessTypes, forwardVars, settingVars, historyVars
<1>. QED BY <1>6, <1>7, <1>8, <1>9 DEF ForwardInv

LEMMA SettingForwards == ASSUME ForwardInv, HandleSetting PROVE ForwardInv'
<1>1. /\ StoreTypes /\ WorldTypes /\ ProcessTypes /\ QueuedIsDue
      /\ Now \in Int /\ setting \in Settings /\ time \in Nat
  BY NowType DEF ForwardInv, Typed, TypeOK, ProcessTypes, WorldTypes
<1>2. /\ UNCHANGED <<worldVars, clockVars, up, deliveredUndeleted, own, mu, rcv, send, job,
                     setting, historyVars>>
      /\ unhandled' = FALSE /\ ForwardPC = "idle" /\ ForwardPC' = "idle"
  BY DEF HandleSetting, settingFrame, ForwardPC
<1>3. WorldTypes' /\ MailKept /\ ControlKept /\ InTransit'
  <2>1. left' \in [Disturbances -> Nat]
    BY <1>1, UseType DEF HandleSetting, Disturbances
  <2>. QED BY <1>1, <1>2, <2>1, SameMail
         DEF WorldTypes, worldVars, clockVars, ControlKept, InTransit
<1>4. CASE /\ UNCHANGED <<storeVars, forwardActivatedAt>> /\ forwardDestination' = "off"
  <2>1. StoreTypes' /\ Shrinks /\ UNCHANGED <<forward_config, forward_budget>>
    BY <1>1, <1>4, Untouched
  <2>2. Typed'
    BY <1>1, <1>2, <1>3, <1>4, <2>1
       DEF ForwardInv, Typed, TypeOK, ProcessTypes, Settings, historyVars
  <2>. QED BY <1>2, <1>3, <1>4, <2>1, <2>2, CommonStep DEF SettingKept
<1>5. CASE /\ ConfigureForward(setting, Now, time) /\ forwardDestination' = setting
           /\ forwardActivatedAt' = forward_config'.activatedAt
  <2>1. /\ StoreTypes' /\ Shrinks
        /\ \A i \in Waiting' : forward_jobs[i].destination = setting
    BY <1>1, <1>5, Configuring DEF Waiting
  <2>2. /\ SentStay' /\ Arrived' /\ Waiting' \subseteq Waiting
        /\ \A i \in Waiting' :
             /\ i \in DOMAIN inbox'
             /\ forward_jobs'[i].destination = forward_jobs[i].destination
             /\ arrivedAt'[forward_jobs'[i].message] = arrivedAt[forward_jobs[i].message]
    BY <1>2, <1>3, <2>1, RowsKept
  <2>3. /\ forward_config'.destination = setting
        /\ forward_config.destination = setting => forward_config' = forward_config
    BY <1>5 DEF ConfigureForward
  <2>4. Typed'
    <3>1. forwardActivatedAt' \in Int
      BY <1>5, <2>1 DEF StoreTypes
    <3>. QED BY <1>1, <1>2, <1>3, <1>5, <2>1, <3>1
           DEF ForwardInv, Typed, TypeOK, ProcessTypes, historyVars
  <2>5. WaitingForIt' /\ Agreement'
    BY <1>5, <2>1, <2>2, <2>3 DEF WaitingForIt, Agreement
  <2>6. QueuedIsDue'
    <3>1. CASE forward_config.destination = setting
      BY <2>2, <2>3, <3>1 DEF ForwardInv, QueuedIsDue, Waiting
    <3>2. CASE forward_config.destination # setting
      <4>1. Waiting' = {}
        BY <2>1, <2>2, <3>2 DEF ForwardInv, WaitingForIt
      <4>. QED BY <4>1 DEF QueuedIsDue, Waiting
    <3>. QED BY <3>1, <3>2
  <2>7. Covered'
    BY <1>2, <1>3, <1>5, CoveredKept DEF ConfigureForward
  <2>. QED BY <1>3, <2>2, <2>4, <2>5, <2>6, <2>7 DEF ForwardInv
<1>. QED BY <1>4, <1>5 DEF HandleSetting

LEMMA HandlerForwards ==
    ASSUME ForwardInv,
           \/ \E value \in Settings : ChangeSetting(value)
           \/ \E id \in DOMAIN inbox : InboxDelete(id)
           \/ PublishInbox \/ QueryOwnMSISDN
    PROVE  ForwardInv'
<1>1. StoreTypes /\ WorldTypes /\ ProcessTypes /\ QueuedIsDue /\ Now \in Int
  BY NowType DEF ForwardInv, Typed, TypeOK
<1>2. UNCHANGED <<worldVars, clockVars, up, deliveredUndeleted, forwardVars, mu, rcv, send, job,
                  historyVars>>
  BY DEF ChangeSetting, InboxDelete, PublishInbox, QueryOwnMSISDN, procVars
<1>3. left' \in [Disturbances -> Nat]
  BY <1>1, UseType DEF ChangeSetting, InboxDelete, PublishInbox, QueryOwnMSISDN, Disturbances
<1>4. own' \in {own, OwnNumber} /\ setting' \in Settings /\ unhandled' \in BOOLEAN
  BY <1>1 DEF ChangeSetting, InboxDelete, PublishInbox, QueryOwnMSISDN, procVars, settingVars,
              ProcessTypes
<1>5. StoreTypes' /\ Shrinks /\ UNCHANGED <<forward_config, forward_budget>>
  <2>1. CASE (\E value \in Settings : ChangeSetting(value)) \/ QueryOwnMSISDN
    BY <1>1, <2>1, Untouched DEF ChangeSetting, QueryOwnMSISDN
  <2>2. CASE (\E id \in DOMAIN inbox : InboxDelete(id)) \/ PublishInbox
    BY <1>1, <2>2, Transactions DEF InboxDelete, PublishInbox
  <2>. QED BY <2>1, <2>2
<1>6. WorldTypes' /\ MailKept /\ SettingKept
  BY <1>1, <1>2, <1>3, SameMail DEF WorldTypes, worldVars, clockVars, SettingKept
<1>7. ControlKept
  BY <1>2, SameControl DEF ForwardPC, forwardVars
<1>8. Typed'
  BY <1>1, <1>2, <1>4, <1>5, <1>6
     DEF ForwardInv, Typed, TypeOK, ProcessTypes, forwardVars, historyVars
<1>. QED BY <1>2, <1>5, <1>6, <1>7, <1>8, CommonStep

LEMMA ForwardStep ==
    ASSUME ForwardInv, [Next]_vars
    PROVE  /\ ForwardInv'
           /\ transmitted' # transmitted =>
                transmitted'[Len(transmitted')].destination = forwardDestination
<1>1. CASE \E c \in Senders : SendSubmit(c)
  BY <1>1, SubmitForwards
<1>2. CASE UNCHANGED vars
  <2>1. StoreTypes /\ QueuedIsDue
    BY DEF ForwardInv, Typed, TypeOK
  <2>2. UNCHANGED <<storeVars, worldVars, clockVars, procVars, settingVars, historyVars, left>>
    BY <1>2 DEF vars
  <2>3. StoreTypes' /\ Shrinks /\ UNCHANGED <<forward_config, forward_budget>>
    BY <2>1, <2>2, Untouched
  <2>4. MailKept /\ ControlKept /\ SettingKept
    BY <2>2, SameMail, SameControl DEF worldVars, procVars, forwardVars, SettingKept, ForwardPC
  <2>5. Typed'
    BY <2>2, <2>3 DEF ForwardInv, Typed, TypeOK, WorldTypes, ProcessTypes, worldVars, clockVars,
                      procVars, settingVars, forwardVars, historyVars
  <2>6. ForwardInv'
    BY <2>2, <2>3, <2>4, <2>5, CommonStep
  <2>. QED BY <2>2, <2>6 DEF historyVars
<1>3. CASE World \/ Process \/ Receiver
  BY <1>3, WorldForwards, ProcessForwards, ReceiverForwards
     DEF World, Arrive, Assemble, Renumber, Tick, SyncClock, Process, Start, StartLoops, Stop,
         Exit, Crash, Receiver, ReceiveDiscard, ReceiveDeliver, ReceiveRetry, ReceiveDelete,
         ReceiveForget, receiveFrame, historyVars
<1>4. CASE CommandBegin \/ CommandFinish \/ \E c \in Senders : SendCreate(c) \/ SendDelete(c)
  BY <1>4, SenderForwards DEF CommandBegin, CommandFinish, SendCreate, SendDelete, historyVars
<1>5. CASE Forwarder \/ ForwardReserve
  BY <1>5, ForwarderForwards
     DEF Forwarder, ForwardPublish, ForwardFinish, ForwardReserve, forwardFrame, historyVars
<1>6. CASE HandleSetting
  BY <1>6, SettingForwards DEF HandleSetting, settingFrame, historyVars
<1>7. CASE \/ \E value \in Settings : ChangeSetting(value)
           \/ \E id \in DOMAIN inbox : InboxDelete(id)
           \/ PublishInbox \/ QueryOwnMSISDN
  BY <1>7, HandlerForwards DEF ChangeSetting, InboxDelete, PublishInbox, QueryOwnMSISDN,
                              historyVars
<1>. QED BY <1>1, <1>2, <1>3, <1>4, <1>5, <1>6, <1>7 DEF Next, Sender, Handlers

-----------------------------------------------------------------------------
(* Theorems about forwarding *)

\* Rows, jobs and their states, the modem's objects and the control of every
\* goroutine stay within their types, and no day's account exceeds the limit
\* (ReserveForward), whatever is lost or restarted.
THEOREM SmsTypeCorrect == Spec => []TypeOK
<1>1. ForwardInv /\ [Next]_vars => ForwardInv'
  BY ForwardStep
<1>2. ForwardInv => TypeOK
  BY DEF ForwardInv, Typed
<1>. QED BY <1>1, <1>2, ForwardInit, PTL DEF Spec

\* A reserved attempt is never repeated: no crash, restart, failed call or change
\* of the setting sends a forwarded message twice (ReserveForward, RecoverForward).
THEOREM NeverForwardedTwice == Spec => []ForwardedAtMostOnce
<1>1. ForwardInv /\ [Next]_vars => ForwardInv'
  BY ForwardStep
<1>2. ForwardInv => ForwardedAtMostOnce
  BY DEF ForwardInv, SentStay
<1>. QED BY <1>1, <1>2, ForwardInit, PTL DEF Spec

\* Everything that is sent on a day's account was entered in it beforehand, also
\* after a restart or once the entry is deleted, within the limit (ReserveForward).
THEOREM SendsAreBudgeted == Spec => []BudgetCoversSends
<1>1. ForwardInv /\ [Next]_vars => ForwardInv'
  BY ForwardStep
<1>2. ForwardInv => BudgetCoversSends
  <2>. SUFFICES ASSUME ForwardInv, NEW d \in DOMAIN charged
                PROVE  charged[d] <= Spent(d) /\ Spent(d) <= SegmentLimit
    BY DEF BudgetCoversSends
  <2>1. d \in Int /\ Charged(d) = charged[d] /\ charged[d] \in Nat
    BY DEF ForwardInv, Typed, TypeOK, ProcessTypes, Charged
  <2>2. Spent(d) \in 0..SegmentLimit
    BY LimitAssumption DEF ForwardInv, Typed, TypeOK, StoreTypes, Spent
  <2>3. InFlight(d) \in Nat
    BY ContentAssumption DEF ForwardInv, InTransit, InFlight, Segments, JobType, ContentType
  <2>4. Charged(d) + InFlight(d) <= Spent(d)
    BY <2>1 DEF ForwardInv, Covered
  <2>. QED BY <2>1, <2>2, <2>3, <2>4, LimitAssumption
<1>. QED BY <1>1, <1>2, ForwardInit, PTL DEF Spec

\* What waits to be sent has its inbox entry and arrived after forwarding was turned
\* on to this destination (JobsOf, RecordWithForwardSince, configureForward).
THEOREM WaitingIsDue == Spec => []QueuedIsDue
<1>1. ForwardInv /\ [Next]_vars => ForwardInv'
  BY ForwardStep
<1>2. ForwardInv => QueuedIsDue
  BY DEF ForwardInv
<1>. QED BY <1>1, <1>2, ForwardInit, PTL DEF Spec

\* A message goes to the destination that is set when it is sent (forwardMu).
THEOREM SentToTheSetting == Spec => ForwardToCurrent
<1>1. ForwardInv /\ [Next]_vars => ForwardInv'
  BY ForwardStep
<1>2. ForwardInv /\ [Next]_vars =>
        [transmitted' # transmitted =>
           transmitted'[Len(transmitted')].destination = forwardDestination]_vars
  BY ForwardStep
<1>. QED BY <1>1, <1>2, ForwardInit, PTL DEF Spec, ForwardToCurrent
=============================================================================
