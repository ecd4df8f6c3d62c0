----------------------------- MODULE SmsService -----------------------------
(***************************************************************************)
(* SMS reception, the durable inbox, sending and forwarding.               *)
(*                                                                         *)
(* Goroutines: the receiver (the periodic drain and the Added signal, which*)
(* sms.Manager serialises), the forwarder, the scooter:sms command handler,*)
(* the settings watcher and the inbox command handler.  Manager.mu is mu;  *)
(* forwardMu is held exactly while the forwarder is not idle; a critical   *)
(* section of inboxMu is one step.  The process may crash, stop and start  *)
(* at any point between two steps; only the store and the modem survive.   *)
(***************************************************************************)
EXTENDS SmsStore

CONSTANTS
    Destinations,  \* valid values of sms.forward-to other than "off"
    OwnNumber,     \* MSISDN of the SIM, or None when it has none stored
    ClockSkew,     \* how far the wall clock may lag until it is synchronised
    StoreSize,     \* objects the modem's store holds
    Bounds         \* bounds: how often each disturbance may occur, one per scenario

Disturbances == {"arrivals", "failures", "crashes", "restarts", "settings", "sends",
                 "deletes", "skews", "ticks"}

ASSUME DestinationAssumption == Destinations \subseteq Numbers /\ OwnNumber \in Numbers \cup {None}
ASSUME StoreSizeAssumption == StoreSize \in Nat
ASSUME ClockAssumption == ClockSkew \in Nat
ASSUME BoundsAssumption == Bounds \subseteq [Disturbances -> Nat]

VARIABLES
    modem,               \* path -> message, or sender whose object it is, or None
    assembling,          \* paths of messages with parts still missing
    arrivedAt,           \* message -> network timestamp, None before it arrives
    time, skew,          \* true time, and by how much the wall clock lags
    up,                  \* phase of the process
    deliveredUndeleted,  \* path -> identity delivered whose deletion failed, or None
    forwardDestination, forwardActivatedAt,  \* the atomics of Service
    own,                 \* ownMSISDN
    mu,                  \* holder of Manager.mu
    rcv,                 \* receiver: control, path and message in hand
    send,                \* sender -> control, path of its object, outcome
    job,                 \* the job the forwarder has reserved, or None
    setting, unhandled,  \* sms.forward-to in Redis; the watcher has yet to see it
    transmitted,         \* history: jobs whose message reached the network, in order
    charged,             \* history: day -> segments sent on its account
    left                 \* what is left of the scenario's bounds

worldVars == <<modem, assembling, arrivedAt>>
clockVars == <<time, skew>>
forwardVars == <<forwardDestination, forwardActivatedAt>>
settingVars == <<setting, unhandled>>
procVars == <<up, deliveredUndeleted, forwardVars, own, mu, rcv, send, job>>
historyVars == <<transmitted, charged>>
vars == <<storeVars, worldVars, clockVars, procVars, settingVars, historyVars, left>>

Senders == {"forward", "command"}
ASSUME SenderAssumption == Messages \cap Senders = {} /\ None \notin Senders
Idle == [pc |-> "idle", path |-> None, ok |-> FALSE]
IdleReceiver == [pc |-> "idle", path |-> None, message |-> None]

Now == time - skew
Use(kind) == left[kind] > 0 /\ left' = [left EXCEPT ![kind] = @ - 1]
Settings == Destinations \cup {"off"}

\* What a new process starts from (New and the zero values of its fields).
VolatileInit ==
    /\ deliveredUndeleted = [p \in Paths |-> None]
    /\ forwardDestination = "off" /\ forwardActivatedAt = 0 /\ own = None
    /\ mu = "free" /\ rcv = IdleReceiver
    /\ send = [c \in Senders |-> Idle] /\ job = None

\* The process is gone and a new one has yet to start.
VolatileReset ==
    /\ deliveredUndeleted' = [p \in Paths |-> None]
    /\ forwardDestination' = "off" /\ forwardActivatedAt' = 0 /\ own' = None
    /\ mu' = "free" /\ rcv' = IdleReceiver
    /\ send' = [c \in Senders |-> Idle] /\ job' = None

Init ==
    /\ StoreInit /\ VolatileInit
    /\ modem = [p \in Paths |-> None] /\ assembling = {}
    /\ arrivedAt = [m \in Messages |-> None]
    /\ left \in Bounds
    /\ time = 1 + ClockSkew /\ skew = IF left["skews"] = 0 THEN 0 ELSE ClockSkew
    /\ up = "down" /\ setting = "off" /\ unhandled = TRUE
    /\ transmitted = << >> /\ charged = [d \in {} |-> 0]

-----------------------------------------------------------------------------
(* The network, ModemManager and the clock *)

Free(p) ==
    /\ modem[p] = None /\ Cardinality({q \in Paths : modem[q] # None}) < StoreSize

Arrive(m, p) ==
    /\ arrivedAt[m] = None /\ Free(p) /\ Use("arrivals")
    /\ arrivedAt' = [arrivedAt EXCEPT ![m] = time]
    /\ modem' = [modem EXCEPT ![p] = m]
    /\ assembling' = IF Content[m].multipart THEN assembling \cup {p} ELSE assembling
    /\ UNCHANGED <<storeVars, clockVars, procVars, settingVars, historyVars>>

Assemble(p) ==
    /\ p \in assembling /\ assembling' = assembling \ {p}
    /\ UNCHANGED <<storeVars, modem, arrivedAt, clockVars, procVars, settingVars, historyVars,
                   left>>

\* ModemManager restarts and numbers the objects anew.
Renumber(f) ==
    /\ Use("restarts")
    /\ modem' = [p \in Paths |-> modem[f[p]]]
    /\ assembling' = {p \in Paths : f[p] \in assembling}
    /\ UNCHANGED <<storeVars, arrivedAt, clockVars, procVars, settingVars, historyVars>>

\* DeleteSMS: an error may hide a deletion that took place.
DeleteSMS(p, ok) ==
    \/ /\ modem' = [modem EXCEPT ![p] = None] /\ assembling' = assembling \ {p}
       /\ UNCHANGED arrivedAt
    \/ ~ok /\ UNCHANGED worldVars

Tick ==
    /\ Use("ticks") /\ time' = time + 1
    /\ UNCHANGED <<storeVars, worldVars, skew, procVars, settingVars, historyVars>>

\* The clock coordinator steps the wall clock to GPS or network time.
SyncClock ==
    /\ skew # 0 /\ skew' = 0 /\ Use("skews")
    /\ UNCHANGED <<storeVars, worldVars, time, procVars, settingVars, historyVars>>

World ==
    \/ \E m \in Messages, p \in Paths : Arrive(m, p)
    \/ \E p \in Paths : Assemble(p)
    \/ \E f \in Bijection(Paths, Paths) : Renumber(f)
    \/ Tick \/ SyncClock

-----------------------------------------------------------------------------
(* The process *)

\* Run opens the store and marks interrupted sends before it starts a handler.
Start ==
    /\ up = "down" /\ up' = "starting"
    /\ RecoverForward(Now)
    /\ unhandled' = TRUE
    /\ UNCHANGED <<worldVars, clockVars, deliveredUndeleted, forwardVars, own, mu, rcv, send,
                   job, setting, historyVars, left>>

StartLoops ==
    /\ up = "starting" /\ up' = "running"
    /\ UNCHANGED <<storeVars, worldVars, clockVars, deliveredUndeleted, forwardVars, own, mu,
                   rcv, send, job, settingVars, historyVars, left>>

\* SIGTERM cancels the context.
Stop ==
    /\ up = "running" /\ up' = "stopping" /\ Use("crashes")
    /\ UNCHANGED <<storeVars, worldVars, clockVars, deliveredUndeleted, forwardVars, own, mu,
                   rcv, send, job, settingVars, historyVars>>

\* Run waits for the forwarder only: the receiver may be cut off.
Exit ==
    /\ up = "stopping" /\ send["forward"].pc = "idle"
    /\ up' = "down" /\ VolatileReset
    /\ UNCHANGED <<storeVars, worldVars, clockVars, settingVars, historyVars, left>>

Crash ==
    /\ up # "down" /\ Use("crashes")
    /\ up' = "down" /\ VolatileReset
    /\ UNCHANGED <<storeVars, worldVars, clockVars, settingVars, historyVars>>

Process == Start \/ StartLoops \/ Stop \/ Exit \/ Crash

-----------------------------------------------------------------------------
(* Receiving: processOne, with mu held from the first step to the last *)

receiveFrame == <<clockVars, up, forwardVars, own, send, job, settingVars, historyVars>>

CanReceive(p) ==
    /\ up \in {"running", "stopping"} /\ mu = "free"
    /\ p \notin assembling

IsText(p) == modem[p] \in Messages /\ Content[modem[p]].kind = "text"

\* Status reports, and outbound objects a failed deletion has left behind.
ReceiveDiscard(p) ==
    /\ CanReceive(p)
    /\ modem[p] \in Senders \/ (modem[p] \in Messages /\ Content[modem[p]].kind = "report")
    /\ \/ DeleteSMS(p, TRUE) /\ UNCHANGED left
       \/ DeleteSMS(p, FALSE) /\ Use("failures")
    /\ UNCHANGED <<storeVars, receiveFrame, deliveredUndeleted, mu, rcv>>

Take(p) == mu' = "receiver" /\ rcv' = [pc |-> "delete", path |-> p, message |-> modem[p]]

\* deliverIncomingSMS: the message is committed, or stays in the modem.
ReceiveDeliver(p) ==
    /\ CanReceive(p) /\ IsText(p) /\ deliveredUndeleted[p] # Content[modem[p]].identity
    /\ \/ /\ IF Recorded(modem[p], p) THEN List(Now)
             ELSE RecordWithForwardSince(modem[p], p, arrivedAt[modem[p]], Now,
                                         forwardDestination, forwardActivatedAt)
          /\ Take(p) /\ UNCHANGED left
       \/ Use("failures") /\ UNCHANGED <<storeVars, mu, rcv>>
    /\ UNCHANGED <<worldVars, receiveFrame, deliveredUndeleted>>

\* Already delivered by this process: only the deletion is tried again.
ReceiveRetry(p) ==
    /\ CanReceive(p) /\ IsText(p) /\ deliveredUndeleted[p] = Content[modem[p]].identity
    /\ Take(p)
    /\ UNCHANGED <<storeVars, worldVars, receiveFrame, deliveredUndeleted, left>>

ReceiveDelete ==
    /\ rcv.pc = "delete"
    /\ \/ /\ DeleteSMS(rcv.path, TRUE)
          /\ deliveredUndeleted' = [deliveredUndeleted EXCEPT ![rcv.path] = None]
          /\ rcv' = [rcv EXCEPT !.pc = "forget"] /\ UNCHANGED <<mu, left>>
       \/ /\ DeleteSMS(rcv.path, FALSE) /\ Use("failures")
          /\ deliveredUndeleted' =
               [deliveredUndeleted EXCEPT ![rcv.path] = Content[rcv.message].identity]
          /\ rcv' = IdleReceiver /\ mu' = "free"
    /\ UNCHANGED <<storeVars, receiveFrame>>

\* Mutant: the early return on an error does not unlock.
ReceiveForgetKeepsLock ==
    /\ rcv.pc = "forget"
    /\ \/ ForgetModem(rcv.path) /\ mu' = "free" /\ UNCHANGED left
       \/ UNCHANGED <<storeVars, mu>> /\ Use("failures")
    /\ rcv' = IdleReceiver
    /\ UNCHANGED <<worldVars, receiveFrame, deliveredUndeleted>>

\* forgetDeleted: the durable identity is released, unless the store fails.
ReceiveForget ==
    /\ rcv.pc = "forget"
    /\ \/ ForgetModem(rcv.path) /\ UNCHANGED left
       \/ UNCHANGED storeVars /\ Use("failures")
    /\ rcv' = IdleReceiver /\ mu' = "free"
    /\ UNCHANGED <<worldVars, receiveFrame, deliveredUndeleted>>

Receiver ==
    \/ \E p \in Paths : ReceiveDiscard(p) \/ ReceiveDeliver(p) \/ ReceiveRetry(p)
    \/ ReceiveDelete \/ ReceiveForget

-----------------------------------------------------------------------------
(* Manager.Send, for the forwarder and for the command handler *)

sendFrame == <<storeVars, clockVars, up, deliveredUndeleted, forwardVars, own, rcv, job, settingVars>>

\* Mutant: Send does not take the manager's mutex.
SendCreateUnlocked(c) ==
    /\ send[c].pc = "create" /\ mu # c
    /\ \E p \in Paths :
         /\ Free(p) /\ modem' = [modem EXCEPT ![p] = c]
         /\ send' = [send EXCEPT ![c] = [pc |-> "submit", path |-> p, ok |-> FALSE]]
    /\ UNCHANGED <<sendFrame, mu, left, assembling, arrivedAt, historyVars>>

\* The object is created under mu; without one Send returns at once.
SendCreate(c) ==
    /\ send[c].pc = "create" /\ mu = "free"
    /\ \/ \E p \in Paths :
            /\ Free(p) /\ modem' = [modem EXCEPT ![p] = c]
            /\ send' = [send EXCEPT ![c] = [pc |-> "submit", path |-> p, ok |-> FALSE]]
            /\ mu' = c /\ UNCHANGED left
       \/ /\ Use("failures") /\ UNCHANGED <<modem, mu>>
          /\ send' = [send EXCEPT ![c].pc = "finish"]
    /\ UNCHANGED <<sendFrame, assembling, arrivedAt, historyVars>>

Charged(day) == IF day \in DOMAIN charged THEN charged[day] ELSE 0
Segments(row) == Content[row.message].segments

\* What reaches the network: forwarded messages are kept in the history.
Transmit(c) ==
    IF c = "forward"
    THEN /\ transmitted' = Append(transmitted, job)
         /\ charged' = Put(charged, job.budgetDay, Charged(job.budgetDay) + Segments(job))
    ELSE UNCHANGED historyVars

\* SendSMS: an error may hide a message that went out.
SendSubmit(c) ==
    /\ send[c].pc = "submit"
    /\ \/ /\ modem[send[c].path] = c /\ Transmit(c) /\ UNCHANGED left
          /\ send' = [send EXCEPT ![c] = [pc |-> "delete", path |-> @.path, ok |-> TRUE]]
       \/ /\ Use("failures") /\ send' = [send EXCEPT ![c].pc = "delete"]
          /\ (modem[send[c].path] = c /\ Transmit(c)) \/ UNCHANGED historyVars
       \/ /\ modem[send[c].path] # c /\ send' = [send EXCEPT ![c].pc = "delete"]
          /\ UNCHANGED <<left, historyVars>>
    /\ UNCHANGED <<sendFrame, worldVars, mu>>

\* The deferred deletion, whatever SendSMS returned, and the unlock.
SendDelete(c) ==
    /\ send[c].pc = "delete" /\ send' = [send EXCEPT ![c].pc = "finish"]
    /\ \/ DeleteSMS(send[c].path, TRUE) /\ UNCHANGED left
       \/ DeleteSMS(send[c].path, FALSE) /\ Use("failures")
    /\ mu' = "free"
    /\ UNCHANGED <<sendFrame, historyVars>>

\* handleSMSCommand and, once Send has returned, recordSendResult.
CommandBegin ==
    /\ up # "down" /\ send["command"].pc = "idle" /\ Use("sends")
    /\ send' = [send EXCEPT !["command"].pc = "create"]
    /\ UNCHANGED <<sendFrame, worldVars, mu, historyVars>>

CommandFinish ==
    /\ send["command"].pc = "finish" /\ send' = [send EXCEPT !["command"] = Idle]
    /\ UNCHANGED <<sendFrame, worldVars, mu, historyVars, left>>

Sender ==
    \/ \E c \in Senders : SendCreate(c) \/ SendSubmit(c) \/ SendDelete(c)
    \/ CommandFinish

-----------------------------------------------------------------------------
(* Forwarding: forwardOne *)

forwardFrame == <<worldVars, clockVars, up, deliveredUndeleted, forwardVars, own, mu, rcv,
                  settingVars, historyVars>>

\* The modem is enabled, its SIM present and the registration at home: conditions
\* of the environment, read before the reservation and not again.
ForwardReserve ==
    /\ up = "running" /\ send["forward"].pc = "idle" /\ forwardDestination # "off"
    /\ \/ /\ ReserveNothing(Now, forwardDestination, own)
          /\ UNCHANGED <<send, job>>
       \/ \E id \in DOMAIN forward_jobs :
            /\ ReserveForward(id, Now, forwardDestination, own)
            /\ send' = [send EXCEPT !["forward"].pc = "reserved"]
            /\ job' = [id |-> id, message |-> forward_jobs[id].message,
                       destination |-> forward_jobs[id].destination, budgetDay |-> Day(Now)]
    /\ UNCHANGED <<forwardFrame, left>>

\* publishInbox, then the check of the context.
ForwardPublish ==
    /\ send["forward"].pc = "reserved"
    /\ \/ /\ up = "running" /\ List(Now) /\ send' = [send EXCEPT !["forward"].pc = "create"]
          /\ UNCHANGED job
       \/ /\ up = "stopping" /\ FinishForward(job.id, FALSE, Now)
          /\ send' = [send EXCEPT !["forward"] = Idle] /\ job' = None
    /\ UNCHANGED <<forwardFrame, left>>

\* The outcome is recorded, unless the store fails.
ForwardFinish ==
    /\ send["forward"].pc = "finish"
    /\ \/ FinishForward(job.id, send["forward"].ok, Now) /\ UNCHANGED left
       \/ UNCHANGED storeVars /\ Use("failures")
    /\ send' = [send EXCEPT !["forward"] = Idle] /\ job' = None
    /\ UNCHANGED forwardFrame

Forwarder == ForwardPublish \/ ForwardFinish

-----------------------------------------------------------------------------
(* Settings, inbox commands and the periodic projection *)

ChangeSetting(value) ==
    /\ value # setting /\ Use("settings")
    /\ setting' = value /\ unhandled' = TRUE
    /\ UNCHANGED <<storeVars, worldVars, clockVars, procVars, historyVars>>

settingFrame == <<worldVars, clockVars, up, deliveredUndeleted, own, mu, rcv, send, job, setting,
                  historyVars>>

\* Mutant: the watcher does not take forwardMu.
HandleSettingUnlocked ==
    /\ up # "down" /\ unhandled /\ unhandled' = FALSE
    /\ ConfigureForward(setting, Now, time) /\ UNCHANGED left
    /\ forwardDestination' = setting
    /\ forwardActivatedAt' = forward_config'.activatedAt
    /\ UNCHANGED settingFrame

\* The sms.forward-to watcher, under forwardMu; an error turns forwarding off.
HandleSetting ==
    /\ up # "down" /\ unhandled /\ unhandled' = FALSE
    /\ send["forward"].pc = "idle"
    /\ \/ /\ ConfigureForward(setting, Now, time) /\ UNCHANGED left
          /\ forwardDestination' = setting
          /\ forwardActivatedAt' = forward_config'.activatedAt
       \/ /\ Use("failures") /\ forwardDestination' = "off"
          /\ UNCHANGED <<storeVars, forwardActivatedAt>>
    /\ UNCHANGED settingFrame

\* handleInboxCommand with action delete.
InboxDelete(id) ==
    /\ up # "down" /\ Use("deletes") /\ Delete(id, Now)
    /\ UNCHANGED <<worldVars, clockVars, procVars, settingVars, historyVars>>

\* The monitor's tick publishes the inbox.
PublishInbox ==
    /\ up \in {"running", "stopping"} /\ List(Now)
    /\ UNCHANGED <<worldVars, clockVars, procVars, settingVars, historyVars, left>>

\* startSMSWatch learns the modem's own number.
QueryOwnMSISDN ==
    /\ up = "running" /\ own = None /\ own' = OwnNumber
    /\ UNCHANGED <<storeVars, worldVars, clockVars, up, deliveredUndeleted, forwardVars, mu, rcv,
                   send, job, settingVars, historyVars, left>>

Handlers ==
    \/ CommandBegin \/ ForwardReserve \/ HandleSetting
    \/ \E value \in Settings : ChangeSetting(value)
    \/ \E id \in DOMAIN inbox : InboxDelete(id)
    \/ PublishInbox \/ QueryOwnMSISDN

-----------------------------------------------------------------------------
Next == World \/ Process \/ Receiver \/ Sender \/ Forwarder \/ Handlers
Spec == Init /\ [][Next]_vars

\* systemd restarts the process, the monitor's tick drains the store again and
\* again, a call to ModemManager returns, and the parts of a message arrive.
Fairness ==
    /\ WF_vars(Start \/ StartLoops \/ Exit)
    /\ WF_vars(Receiver) /\ WF_vars(Sender) /\ WF_vars(Forwarder)
    /\ \A p \in Paths : WF_vars(Assemble(p))
FairSpec == Spec /\ Fairness

-----------------------------------------------------------------------------
(* Properties *)

Texts == {m \in Messages : Content[m].kind = "text"}
Copies(m) == {i \in DOMAIN created : created[i] = m}
JobType == [id : Nat \ {0}, message : Messages, destination : Destinations, budgetDay : Int]
EntryType == [message : Messages, receivedAt : Int]
RowType == [message : Messages, destination : Destinations, state : JobStates,
            createdAt : Int, expiresAt : Int, budgetDay : Int \cup {None}]
Memory == [Paths -> Identities \cup {None}]
ReceiveType ==
    [pc : {"idle", "delete", "forget"}, path : Paths \cup {None}, message : Messages \cup {None}]
SendPC == {"idle", "reserved", "create", "submit", "delete", "finish"}
SendType == [Senders -> [pc : SendPC, path : Paths \cup {None}, ok : BOOLEAN]]

InboxOf(table, rows) ==
    DOMAIN table \subseteq rows /\ \A i \in DOMAIN table : table[i] \in EntryType
ForwardsOf(jobs, rows) ==
    DOMAIN jobs \subseteq rows /\ \A i \in DOMAIN jobs : jobs[i] \in RowType

StoreTypes ==
    /\ created \in Seq(Messages)
    /\ InboxOf(inbox, DOMAIN created) /\ ForwardsOf(forward_jobs, DOMAIN created)
    /\ pending_modem \in Memory
    /\ \A d \in DOMAIN forward_budget : forward_budget[d] \in 1..SegmentLimit
    /\ forward_config \in [destination : Settings, activatedAt : Int, at : Nat]

WorldTypes ==
    /\ modem \in [Paths -> Messages \cup Senders \cup {None}] /\ assembling \subseteq Paths
    /\ arrivedAt \in [Messages -> Nat \cup {None}]
    /\ time \in Nat /\ skew \in {0, ClockSkew}
    /\ left \in [Disturbances -> Nat]

ProcessTypes ==
    /\ up \in {"down", "starting", "running", "stopping"}
    /\ deliveredUndeleted \in Memory
    /\ forwardDestination \in Settings /\ forwardActivatedAt \in Int
    /\ own \in {None, OwnNumber} /\ mu \in {"free", "receiver"} \cup Senders
    /\ rcv \in ReceiveType /\ send \in SendType
    /\ job \in JobType \cup {None}
    /\ setting \in Settings /\ unhandled \in BOOLEAN
    /\ transmitted \in Seq(JobType)
    /\ DOMAIN charged \subseteq Int /\ \A d \in DOMAIN charged : charged[d] \in Nat

\* Every variable stays within its type: rows, jobs and their states, the
\* modem's objects, the control of every goroutine and the bounds.
TypeOK == StoreTypes /\ WorldTypes /\ ProcessTypes

\* The receiver implements the mailbox: a text message leaves the modem only once it
\* is committed to the inbox, and is committed once, however often its copy is read
\* again after a failed deletion, a failed release of its identity or a restart.
Held == {m \in Messages : \E p \in Paths : modem[p] = m}
Promise == INSTANCE Mailbox WITH
    Texts <- Texts, arrived <- {m \in Messages : arrivedAt[m] # None}, held <- Held,
    recorded <- created
ImplementsMailbox == Promise!Spec

\* A forwarded message reaches the network once: an attempt that was reserved
\* is never repeated, not by a restart nor after a failure (ReserveForward).
ForwardedAtMostOnce ==
    \A i, j \in DOMAIN transmitted : transmitted[i].id = transmitted[j].id => i = j

\* The segments reserved on a day cover everything that is sent on that day's
\* account, also after a restart or once the inbox entry is deleted, and stay
\* within the limit (ReserveForward).
BudgetCoversSends ==
    \A d \in DOMAIN charged : charged[d] <= Spent(d) /\ Spent(d) <= SegmentLimit

\* A message goes to the destination that is set when it is sent: no change of
\* the setting comes between the reservation and the transmission (forwardMu).
ForwardToCurrent ==
    [][transmitted' # transmitted =>
         transmitted'[Len(transmitted')].destination = forwardDestination]_vars

\* A job that waits to be sent has its inbox entry, and is for a message that arrived
\* after forwarding to this destination was turned on, however late it was read
\* from the modem and whatever the wall clock did since, if it was right at that time
\* (JobsOf, RecordWithForwardSince).
QueuedIsDue ==
    \A i \in Queued(forward_jobs) :
        /\ i \in DOMAIN inbox
        /\ (/\ forward_jobs[i].destination = forward_config.destination
            /\ forward_config.activatedAt = forward_config.at)
           => arrivedAt[forward_jobs[i].message] >= forward_config.at

\* The object of a send in progress is not deleted by a drain: an outbound
\* object the receiver meets is always a leftover (Manager.mu).
InFlightSpared ==
    \A c \in Senders : send[c].pc = "submit" => modem[send[c].path] = c

\* Every complete text message is recorded in the end, and the modem's small
\* store is drained of it, once failures and crashes stop.
ReceivedEventually ==
    \A m \in Texts : arrivedAt[m] # None ~>
        (Copies(m) # {} /\ \A p \in Paths : modem[p] # m)
=============================================================================
