----------------------------- MODULE DataUsage -----------------------------
(***************************************************************************)
(* The cellular byte totals (datausage.Counter): one reading of the live    *)
(* bearer per monitor tick is folded into totals, which a restart resumes   *)
(* from a file together with the reading they were computed from.           *)
(*                                                                          *)
(* The program sees a bearer path and two counters; session and carried are *)
(* the truth it has to account for.  A session is one life of the counters: *)
(* a new bearer object, or a reconnect of the same one where ModemManager   *)
(* reports counters per connection only.  The roaming share and the Since   *)
(* label do not influence the totals and are left out.                      *)
(***************************************************************************)
EXTENDS Integers, Sequences, Functions

CONSTANTS
    Paths,             \* bearer object paths
    BackstopInterval,  \* backstopInterval (6 hours), in ticks of the clock
    None,              \* absence of a value
    Bounds             \* bounds of a run: bytes, sessions, crashes, failures

ASSUME BackstopAssumption == BackstopInterval \in Nat \ {0}
ASSUME BoundsAssumption ==
    Bounds \in [bytes : Nat, sessions : Nat \ {0}, crashes : Nat, failures : Nat]

VARIABLES
    running,    \* whether the process runs
    counter,    \* totals, last, dirty of the Counter
    idle,       \* ticks since lastFlush, saturating
    file,       \* what the data-usage file holds, or None
    path,       \* path of the live bearer
    live,       \* its counters
    past,       \* history: paths of earlier sessions
    carried,    \* history: bytes carried in all sessions
    ledger,     \* history: the last readings in totals, of this and all earlier sessions
    fileLedger, \* history: the last readings in the file
    crashes, failures

vars == <<running, counter, idle, file, path, live, past, carried, ledger, fileLedger,
          crashes, failures>>

Bytes == [rx : Nat, tx : Nat]
Zero == [rx |-> 0, tx |-> 0]
Plus(a, b) == [rx |-> a.rx + b.rx, tx |-> a.tx + b.tx]
Minus(a, b) == [rx |-> a.rx - b.rx, tx |-> a.tx - b.tx]
Leq(a, b) == a.rx <= b.rx /\ a.tx <= b.tx

Readings == [path : Paths, bytes : Bytes]
CounterType == [totals : Bytes, last : Readings \cup {None}, dirty : BOOLEAN]
FileType == [totals : Bytes, last : Readings \cup {None}]
ASSUME NoneAssumption == None \notin Readings \cup FileType
Fresh == [totals |-> Zero, last |-> None, dirty |-> FALSE]
Session == Len(past) + 1

\* A ledger: the last reading of this session, and of all earlier ones together.
Ledgers == [earlier : Bytes, now : Bytes]
Blank == [earlier |-> Zero, now |-> Zero]
Total(l) == Plus(l.earlier, l.now)
Closed(l) == [earlier |-> Total(l), now |-> Zero]

-----------------------------------------------------------------------------
(* The Counter *)

\* The session of the previous reading goes on.
Continuing(last, p, bytes) ==
    last # None /\ last.path = p /\ Leq(last.bytes, bytes)

\* Mutant: the first reading of a session only sets the baseline.
DeltaFromBaseline(last, p, bytes) ==
    IF Continuing(last, p, bytes) THEN Minus(bytes, last.bytes) ELSE Zero

\* What the next reading adds.
Delta(last, p, bytes) ==
    IF Continuing(last, p, bytes) THEN Minus(bytes, last.bytes) ELSE bytes

\* Mutant: a reading that adds nothing leaves the totals clean.
ObserveOnlyTraffic(c, p, bytes) ==
    [totals |-> Plus(c.totals, Delta(c.last, p, bytes)),
     last |-> [path |-> p, bytes |-> bytes],
     dirty |-> c.dirty \/ Delta(c.last, p, bytes) # Zero]

\* Observe: a changed baseline is dirty even if no bytes are added.
Observe(c, p, bytes) ==
    [totals |-> Plus(c.totals, Delta(c.last, p, bytes)),
     last |-> [path |-> p, bytes |-> bytes],
     dirty |-> c.dirty \/ c.last # [path |-> p, bytes |-> bytes]]

\* Mutant: the reading the totals were computed from is not stored.
PersistedTotalsOnly(c) == [totals |-> c.totals, last |-> None]

\* writeAtomic: totals and baseline are replaced together by a rename.
Persisted(c) == [totals |-> c.totals, last |-> c.last]

\* flushLocked of c: nothing to write, a write, or a write that fails.
Flush(c, seen) ==
    \/ /\ ~c.dirty
       /\ counter' = c /\ UNCHANGED <<idle, file, fileLedger, failures>>
    \/ /\ c.dirty
       /\ file' = Persisted(c) /\ fileLedger' = seen
       /\ counter' = [c EXCEPT !.dirty = FALSE] /\ idle' = 0
       /\ UNCHANGED failures
    \/ /\ c.dirty /\ failures < Bounds.failures
       /\ failures' = failures + 1
       /\ counter' = c /\ UNCHANGED <<idle, file, fileLedger>>

\* Backstop of c, at the end of a tick.
Backstop(c, seen) ==
    IF idle < BackstopInterval
    THEN counter' = c /\ UNCHANGED <<idle, file, fileLedger, failures>>
    ELSE Flush(c, seen)

-----------------------------------------------------------------------------
(* Steps of the program *)

\* A monitor tick whose bearer read succeeded.
Poll ==
    LET seen == [ledger EXCEPT !.now = live]
    IN  /\ running
        /\ ledger' = seen
        /\ Backstop(Observe(counter, path, live), seen)
        /\ UNCHANGED <<running, path, live, past, carried, crashes>>

\* A monitor tick without a readable bearer: nothing is observed.
PollUnreadable ==
    /\ running
    /\ Backstop(counter, ledger)
    /\ UNCHANGED <<running, path, live, past, carried, ledger, crashes>>

\* disableModem, and the end of Run, which also ends the process.
FlushNow(stopping) ==
    /\ running
    /\ Flush(counter, ledger)
    /\ running' = ~stopping
    /\ UNCHANGED <<path, live, past, carried, ledger, crashes>>

\* load: a missing or unreadable file starts from zero, without a baseline.
Start ==
    /\ ~running
    /\ running' = TRUE /\ idle' = 0
    /\ counter' = IF file = None THEN Fresh
                  ELSE [totals |-> file.totals, last |-> file.last, dirty |-> FALSE]
    /\ ledger' = fileLedger
    /\ UNCHANGED <<file, path, live, past, carried, fileLedger, crashes, failures>>

-----------------------------------------------------------------------------
(* The world *)

Crash ==
    /\ running /\ crashes < Bounds.crashes
    /\ running' = FALSE /\ counter' = Fresh /\ crashes' = crashes + 1
    /\ UNCHANGED <<idle, file, path, live, past, carried, ledger, fileLedger, failures>>

\* The file is lost while the process is down (a new partition, a manual reset).
LoseFile ==
    /\ ~running /\ file # None /\ crashes < Bounds.crashes
    /\ crashes' = crashes + 1
    /\ file' = None /\ fileLedger' = Blank
    /\ UNCHANGED <<running, counter, idle, path, live, past, carried, ledger, failures>>

Carry(more) ==
    /\ Leq(Plus(carried, more), [rx |-> Bounds.bytes, tx |-> Bounds.bytes])
    /\ live' = Plus(live, more) /\ carried' = Plus(carried, more)
    /\ UNCHANGED <<running, counter, idle, file, path, past, ledger, fileLedger, crashes, failures>>

NewSession(p) ==
    /\ Session < Bounds.sessions
    /\ path' = p /\ live' = Zero /\ past' = Append(past, path)
    /\ ledger' = Closed(ledger) /\ fileLedger' = Closed(fileLedger)
    /\ UNCHANGED <<running, counter, idle, file, carried, crashes, failures>>

Tick ==
    /\ running /\ idle < BackstopInterval
    /\ idle' = idle + 1
    /\ UNCHANGED <<running, counter, file, path, live, past, carried, ledger, fileLedger,
                   crashes, failures>>

-----------------------------------------------------------------------------
Init ==
    /\ running = TRUE /\ counter = Fresh /\ idle = 0 /\ file = None
    /\ path \in Paths /\ live = Zero /\ past = << >> /\ carried = Zero
    /\ ledger = Blank /\ fileLedger = Blank
    /\ crashes = 0 /\ failures = 0

Next ==
    \/ Poll \/ PollUnreadable \/ Start \/ Crash \/ LoseFile \/ Tick
    \/ \E stopping \in BOOLEAN : FlushNow(stopping)
    \/ Carry([rx |-> 1, tx |-> 0]) \/ Carry([rx |-> 0, tx |-> 1])
    \/ \E p \in Paths : NewSession(p)

Spec == Init /\ [][Next]_vars

-----------------------------------------------------------------------------
(* Properties *)

\* Every variable has its type: the totals stay natural numbers whatever order the
\* readings come in, and the sessions, crashes and failures within their bounds.
TypeOK ==
    /\ running \in BOOLEAN
    /\ counter \in CounterType
    /\ idle \in 0..BackstopInterval
    /\ file \in FileType \cup {None}
    /\ path \in Paths /\ live \in Bytes /\ carried \in Bytes
    /\ past \in Seq(Paths) /\ Session <= Bounds.sessions
    /\ ledger \in Ledgers /\ fileLedger \in Ledgers
    /\ crashes \in 0..Bounds.crashes /\ failures \in 0..Bounds.failures

\* No byte is counted twice: whatever crashes, failed writes, lost files and
\* reused paths come in between, neither the totals nor the file ever show
\* more than the bearers carried.
NeverOvercounts ==
    /\ Leq(counter.totals, carried)
    /\ file # None => Leq(file.totals, carried)

\* Where sessions have paths of their own, the totals are exactly the sum of
\* the last reading taken in each session and, after a crash, of the last one
\* that was persisted: a restart against the same bearer neither loses nor
\* repeats a byte of it.
Exact ==
    (running /\ IsInjective(Append(past, path))) =>
        counter.totals = Total(ledger)

\* Clean totals are what a restart would resume with: no flush is skipped that
\* a crash would miss, the one of a reset to a reading of zero bytes included.
CleanIsPersisted ==
    (running /\ ~counter.dirty) =>
        IF file = None THEN counter = Fresh ELSE Persisted(counter) = file
=============================================================================
