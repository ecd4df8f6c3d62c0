------------------------------ MODULE SmsStore ------------------------------
(***************************************************************************)
(* The durable SMS store (sms.Store, an SQLite database).  Each table is a  *)
(* variable and each transaction an operator that says what the tables are  *)
(* after its commit; a transaction that fails is rolled back and leaves     *)
(* them alone, so its callers model failure as UNCHANGED storeVars.         *)
(*                                                                          *)
(* One unit of time is a second: activated_at is truncated to it and it is  *)
(* the resolution of a network timestamp, so two events of one unit may     *)
(* come in either order.  The row id of an inbox entry stands for its       *)
(* random id as well: it grows with every insertion.                        *)
(***************************************************************************)
EXTENDS Integers, Sequences, FiniteSets, Functions

CONSTANTS
    Messages,      \* the messages the network delivers, each once
    Content,       \* what the code looks at in each of them (see ContentType)
    Identities,    \* fingerprints of sender, text and raw timestamp
    Paths,         \* D-Bus object paths of SMS objects
    Numbers,       \* telephone numbers other than "off"
    InboxLimit,    \* inboxLimit (100 in the code)
    InboxMaxAge,   \* inboxMaxAge (30 days)
    ForwardTTL,    \* life of a queued job (24 hours)
    DayLength,     \* a UTC day, in units of time
    SegmentLimit,  \* segments forwarded per day and per message (10)
    None           \* absence of a value

\* from: sender; identity: what the fingerprint depends on; segments: of the
\* forwarded text; marked: carries the forwarding marker; stamped: has a
\* parsable network timestamp; multipart: arrives in several parts.
ContentType ==
    [identity : Identities, from : Numbers, kind : {"text", "binary", "report"},
     segments : Nat \ {0}, marked : BOOLEAN, stamped : BOOLEAN, multipart : BOOLEAN]

ASSUME ContentAssumption == Content \in [Messages -> ContentType]
ASSUME LimitAssumption == InboxLimit \in Nat \ {0} /\ SegmentLimit \in Nat \ {0}
ASSUME PeriodAssumption ==
    InboxMaxAge \in Nat \ {0} /\ ForwardTTL \in Nat \ {0} /\ DayLength \in Nat \ {0}
ASSUME NumberAssumption == "off" \notin Numbers /\ None \notin Numbers
ASSUME NoneAssumption == None \notin Messages /\ None \notin Identities /\ None \notin Int

VARIABLES
    inbox,           \* row id -> entry
    pending_modem,   \* path -> modem copy recorded and not known to be deleted, or None
    forward_jobs,    \* row id -> job
    forward_budget,  \* day -> segments reserved
    forward_config,  \* destination and activation time
    created          \* history: message of each row id handed out

storeVars == <<inbox, pending_modem, forward_jobs, forward_budget, forward_config, created>>

JobStates == {"queued", "sending", "sent", "unknown", "cancelled", "expired"}

\* Tables created by OpenStore on the first start.
StoreInit ==
    /\ inbox = [i \in {} |-> 0] /\ forward_jobs = [i \in {} |-> 0]
    /\ pending_modem = [p \in Paths |-> None]
    /\ forward_budget = [d \in {} |-> 0]
    /\ forward_config = [destination |-> "off", activatedAt |-> 0, at |-> 0]
    /\ created = << >>

Put(f, k, v) == [x \in DOMAIN f \cup {k} |-> IF x = k THEN v ELSE f[x]]
Day(now) == now \div DayLength
Spent(day) == IF day \in DOMAIN forward_budget THEN forward_budget[day] ELSE 0

-----------------------------------------------------------------------------
(* Retention *)

\* Entries no older than the maximal age.
Recent(table, now) == {i \in DOMAIN table : table[i].receivedAt >= now - InboxMaxAge}

\* The first InboxLimit entries, latest receipt first and then latest row first.
Newest(table) ==
    LET later(j, i) == \/ table[j].receivedAt > table[i].receivedAt
                       \/ table[j].receivedAt = table[i].receivedAt /\ j > i
    IN  {i \in DOMAIN table : Cardinality({j \in DOMAIN table : later(j, i)}) < InboxLimit}

\* Jobs whose entry is gone go too, except one that is being sent.
JobsOf(jobs, ids) == RestrictDomain(jobs, LAMBDA i : i \in ids \/ jobs[i].state = "sending")

\* The tables after a transaction that leaves table and jobs, once List has
\* purged them for the projection to Redis that follows under the same lock.
Project(table, jobs, now) ==
    LET ids == Recent(table, now)
    IN  /\ inbox' = Restrict(table, ids)
        /\ forward_jobs' = JobsOf(jobs, ids)

\* List, and publishInbox, which only reads what List returns.
List(now) ==
    /\ Project(inbox, forward_jobs, now)
    /\ UNCHANGED <<pending_modem, forward_budget, forward_config, created>>

\* Delete, as handleInboxCommand calls it.
Delete(id, now) ==
    /\ Project(Restrict(inbox, DOMAIN inbox \ {id}),
               Restrict(forward_jobs, DOMAIN forward_jobs \ {id}), now)
    /\ UNCHANGED <<pending_modem, forward_budget, forward_config, created>>

-----------------------------------------------------------------------------
(* Recording a message *)

\* ForwardText: no job for a message from the destination itself, a forwarded
\* one, or one whose forwarded text is too long.
ForwardText(m, destination) ==
    /\ destination # "off" /\ Content[m].from # destination
    /\ ~Content[m].marked /\ Content[m].segments <= SegmentLimit

\* Mutant: the activation time is not looked at.
EligibleAlways(m, stamp, activatedAt) == TRUE

\* stamp is the network timestamp of m.
Eligible(m, stamp, activatedAt) ==
    activatedAt = 0 \/ (Content[m].stamped /\ stamp >= activatedAt)

\* Mutant: only the memory of the process recognises a modem copy.
RecordedNever(m, p) == FALSE

Recorded(m, p) == pending_modem[p] # None /\ pending_modem[p] = Content[m].identity

RecordWithForwardSince(m, p, stamp, now, destination, activatedAt) ==
    LET id == Len(created) + 1
        entry == [message |-> m, receivedAt |-> now]
        job == [message |-> m, destination |-> destination, state |-> "queued",
                createdAt |-> now, expiresAt |-> now + ForwardTTL, budgetDay |-> None]
        table == Put(inbox, id, entry)
        ids == Recent(table, now) \cap Newest(table)
        jobs == IF ForwardText(m, destination) /\ Eligible(m, stamp, activatedAt)
                THEN Put(forward_jobs, id, job) ELSE forward_jobs
    IN  IF Recorded(m, p) THEN UNCHANGED storeVars
        ELSE /\ inbox' = Restrict(table, ids)
             /\ pending_modem' = [pending_modem EXCEPT ![p] = Content[m].identity]
             /\ forward_jobs' = JobsOf(jobs, ids)
             /\ created' = Append(created, m)
             /\ UNCHANGED <<forward_budget, forward_config>>

ForgetModem(p) ==
    /\ pending_modem' = [pending_modem EXCEPT ![p] = None]
    /\ UNCHANGED <<inbox, forward_jobs, forward_budget, forward_config, created>>

-----------------------------------------------------------------------------
(* Forwarding jobs *)

SetState(jobs, ids, state) ==
    [i \in DOMAIN jobs |-> IF i \in ids THEN [jobs[i] EXCEPT !.state = state] ELSE jobs[i]]

Sending(jobs) == {i \in DOMAIN jobs : jobs[i].state = "sending"}
Queued(jobs) == {i \in DOMAIN jobs : jobs[i].state = "queued"}

\* Mutant: an interrupted send is put back in the queue.
RecoverForwardRequeues(now) ==
    /\ Project(inbox, SetState(forward_jobs, Sending(forward_jobs), "queued"), now)
    /\ UNCHANGED <<pending_modem, forward_budget, forward_config, created>>

\* A send interrupted by a crash or never finished, then the first projection.
RecoverForward(now) ==
    /\ Project(inbox, SetState(forward_jobs, Sending(forward_jobs), "unknown"), now)
    /\ UNCHANGED <<pending_modem, forward_budget, forward_config, created>>

\* CancelOthers: queued jobs for another destination.
CancelOthers(jobs, destination) ==
    SetState(jobs, {i \in Queued(jobs) : jobs[i].destination # destination}, "cancelled")

\* at is the true time of the change, a history of the configuration.
ConfigureForward(destination, now, at) ==
    /\ forward_config' = IF forward_config.destination = destination THEN forward_config
                         ELSE [destination |-> destination, activatedAt |-> now, at |-> at]
    /\ Project(inbox, CancelOthers(forward_jobs, destination), now)
    /\ UNCHANGED <<pending_modem, forward_budget, created>>

\* The queued jobs that are left once ReserveForward has dropped, expired and
\* cancelled what it must.  own is the modem's own number, or None.
Swept(now, destination, own) ==
    LET kept == RestrictDomain(forward_jobs,
                    LAMBDA i : \/ forward_jobs[i].createdAt >= now - InboxMaxAge
                               \/ forward_jobs[i].state = "sending")
        live == SetState(kept, {i \in Queued(kept) : kept[i].expiresAt <= now}, "expired")
        mine == CancelOthers(live, destination)
    IN  IF own = None \/ own = destination THEN mine
        ELSE SetState(mine, {i \in Queued(mine) : Content[mine[i].message].from = own}, "cancelled")

\* ORDER BY created_at, id: the ids are random, so ties are broken either way.
Oldest(jobs) ==
    {i \in Queued(jobs) : \A j \in Queued(jobs) : jobs[i].createdAt <= jobs[j].createdAt}

\* The job ReserveForward may pick: none for the own number or over budget.
Reservable(jobs, now, destination, own) ==
    {i \in Oldest(jobs) : /\ own # destination
                          /\ Spent(Day(now)) + Content[jobs[i].message].segments <= SegmentLimit}

\* ReserveForward that returns no job.  A tie may hide the affordable one.
ReserveNothing(now, destination, own) ==
    LET jobs == Swept(now, destination, own)
    IN  /\ Oldest(jobs) = {} \/ Oldest(jobs) # Reservable(jobs, now, destination, own)
        /\ forward_jobs' = jobs
        /\ UNCHANGED <<inbox, pending_modem, forward_budget, forward_config, created>>

\* Mutant: the segments of the job are not entered.
ReserveForwardUnbudgeted(id, now, destination, own) ==
    LET jobs == Swept(now, destination, own)
    IN  /\ id \in Reservable(jobs, now, destination, own)
        /\ forward_jobs' = [jobs EXCEPT ![id].state = "sending", ![id].budgetDay = Day(now)]
        /\ UNCHANGED <<inbox, pending_modem, forward_budget, forward_config, created>>

\* ReserveForward that returns job id: the attempt and its segments are
\* committed before the modem is asked to send anything.
ReserveForward(id, now, destination, own) ==
    LET jobs == Swept(now, destination, own)
    IN  /\ id \in Reservable(jobs, now, destination, own)
        /\ forward_jobs' = [jobs EXCEPT ![id].state = "sending", ![id].budgetDay = Day(now)]
        /\ forward_budget' =
             Put(forward_budget, Day(now), Spent(Day(now)) + Content[jobs[id].message].segments)
        /\ UNCHANGED <<inbox, pending_modem, forward_config, created>>

FinishForward(id, sent, now) ==
    /\ Project(inbox, SetState(forward_jobs, Sending(forward_jobs) \cap {id},
                               IF sent THEN "sent" ELSE "unknown"), now)
    /\ UNCHANGED <<pending_modem, forward_budget, forward_config, created>>
=============================================================================
