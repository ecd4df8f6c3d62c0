-------------------------- MODULE DataUsageProofs --------------------------
(***************************************************************************)
(* NeverOvercounts for every number of bytes, sessions, crashes and failed  *)
(* writes.  The totals alone are not inductive: the invariant adds what the *)
(* next reading would add to them, of the running Counter and of the one a  *)
(* restart would load from the file.                                        *)
(***************************************************************************)
EXTENDS DataUsage, TLAPS

LEMMA ZeroBytes == Zero \in Bytes
BY DEF Zero, Bytes

LEMMA PlusBytes == \A a, b \in Bytes : Plus(a, b) \in Bytes
BY DEF Plus, Bytes

LEMMA DeltaBytes ==
    ASSUME NEW last \in Readings \cup {None}, NEW p \in Paths, NEW b \in Bytes
    PROVE  Delta(last, p, b) \in Bytes /\ Leq(Delta(last, p, b), b)
<1>1. CASE Continuing(last, p, b)
  <2>1. last \in Readings
    BY <1>1 DEF Continuing
  <2>. QED
    BY <1>1, <2>1 DEF Delta, Continuing, Minus, Leq, Bytes, Readings
<1>2. CASE ~Continuing(last, p, b)
  BY <1>2 DEF Delta, Leq, Bytes
<1>. QED BY <1>1, <1>2

\* The end of a session leaves what is in a ledger unchanged.
LEMMA ClosedLedgers ==
    ASSUME NEW l \in Ledgers
    PROVE  Closed(l) \in Ledgers /\ Total(Closed(l)) = Total(l) /\ Closed(l).now = Zero
<1>1. Total(l) \in Bytes
  BY PlusBytes DEF Ledgers, Total
<1>2. Plus(Total(l), Zero) = Total(l)
  BY <1>1 DEF Plus, Bytes, Zero
<1>. QED
  BY <1>1, <1>2, ZeroBytes DEF Closed, Ledgers, Total

\* Once a reading has been folded in, the same reading adds nothing.
LEMMA DeltaOfSelf ==
    ASSUME NEW p \in Paths, NEW b \in Bytes
    PROVE  Delta([path |-> p, bytes |-> b], p, b) = Zero
<1>1. [path |-> p, bytes |-> b] # None
  BY NoneAssumption DEF Readings
<1>. QED
  BY <1>1 DEF Delta, Continuing, Minus, Leq, Bytes, Zero

\* A session that has just begun has nothing to add.
LEMMA DeltaOfZero ==
    ASSUME NEW last \in Readings \cup {None}, NEW p \in Paths
    PROVE  Delta(last, p, Zero) = Zero
<1>1. CASE last = None
  BY <1>1 DEF Delta, Continuing
<1>2. CASE last \in Readings
  BY <1>2 DEF Delta, Continuing, Minus, Leq, Bytes, Readings, Zero
<1>. QED BY <1>1, <1>2

\* Traffic adds at most itself to what the next reading will add.
LEMMA DeltaGrows ==
    ASSUME NEW last \in Readings \cup {None}, NEW p \in Paths,
           NEW b \in Bytes, NEW more \in Bytes
    PROVE  Leq(Delta(last, p, Plus(b, more)), Plus(Delta(last, p, b), more))
<1>1. CASE last = None
  BY <1>1 DEF Delta, Continuing, Plus, Leq, Bytes
<1>2. CASE last \in Readings
  BY <1>2 DEF Delta, Continuing, Minus, Plus, Leq, Bytes, Readings
<1>. QED BY <1>1, <1>2

-----------------------------------------------------------------------------
(* Types *)

LEMMA FlushType ==
    ASSUME TypeOK, NEW c \in CounterType,
           NEW seen \in Ledgers, Flush(c, seen)
    PROVE  /\ counter' \in CounterType
           /\ idle' \in 0..BackstopInterval
           /\ file' \in FileType \cup {None}
           /\ fileLedger' \in Ledgers
           /\ failures' \in 0..Bounds.failures
<1>1. Persisted(c) \in FileType
  BY DEF Persisted, CounterType, FileType
<1>2. [c EXCEPT !.dirty = FALSE] \in CounterType
  BY DEF CounterType
<1>3. failures \in 0..Bounds.failures /\ Bounds.failures \in Nat
  BY BoundsAssumption DEF TypeOK
<1>4. idle \in 0..BackstopInterval /\ 0 \in 0..BackstopInterval
  BY BackstopAssumption DEF TypeOK
<1>5. CASE c.dirty /\ file' = Persisted(c) /\ fileLedger' = seen
           /\ counter' = [c EXCEPT !.dirty = FALSE] /\ idle' = 0 /\ UNCHANGED failures
  BY <1>1, <1>2, <1>3, <1>4, <1>5
<1>6. CASE counter' = c /\ UNCHANGED <<idle, file, fileLedger>>
           /\ (UNCHANGED failures \/ (failures < Bounds.failures /\ failures' = failures + 1))
  <2>1. failures' \in 0..Bounds.failures
    BY <1>3, <1>6
  <2>. QED
    BY <1>4, <1>6, <2>1 DEF TypeOK
<1>. QED
  BY <1>5, <1>6 DEF Flush

LEMMA BackstopType ==
    ASSUME TypeOK, NEW c \in CounterType,
           NEW seen \in Ledgers, Backstop(c, seen)
    PROVE  /\ counter' \in CounterType
           /\ idle' \in 0..BackstopInterval
           /\ file' \in FileType \cup {None}
           /\ fileLedger' \in Ledgers
           /\ failures' \in 0..Bounds.failures
BY FlushType DEF Backstop, TypeOK

LEMMA ObserveType ==
    ASSUME TypeOK
    PROVE  Observe(counter, path, live)
             \in CounterType
<1>1. [path |-> path, bytes |-> live] \in Readings
  BY DEF TypeOK, Readings
<1>2. Plus(counter.totals, Delta(counter.last, path, live)) \in Bytes
  BY DeltaBytes, PlusBytes DEF TypeOK, CounterType
<1>. QED
  BY <1>1, <1>2 DEF Observe, TypeOK, CounterType

LEMMA TypeStep == TypeOK /\ [Next]_vars => TypeOK'
<1>. SUFFICES ASSUME TypeOK, [Next]_vars PROVE TypeOK'
  OBVIOUS
<1>0. Session \in 1..Bounds.sessions /\ Session = Len(past) + 1 /\ past \in Seq(Paths)
  BY BoundsAssumption DEF TypeOK, Session
<1>1. CASE Poll
  <2>1. [ledger EXCEPT !.now = live] \in Ledgers
    BY <1>0 DEF TypeOK, Ledgers
  <2>. QED
    BY <1>1, <2>1, ObserveType, BackstopType DEF Poll, TypeOK, Session
<1>2. CASE PollUnreadable
  <2>1. Backstop(counter, ledger)
    BY <1>2 DEF PollUnreadable
  <2>2. counter \in CounterType
    BY DEF TypeOK
  <2>. QED
    BY <1>2, <2>1, <2>2, BackstopType DEF PollUnreadable, TypeOK, Session
<1>3. CASE \E stopping \in BOOLEAN : FlushNow(stopping)
  <2>1. counter \in CounterType
    BY DEF TypeOK
  <2>2. running' \in BOOLEAN
    BY <1>3 DEF FlushNow
  <2>. QED
    BY <1>3, <2>1, <2>2, FlushType DEF FlushNow, TypeOK, Session
<1>4. CASE Start
  <2>1. 0 \in 0..BackstopInterval
    BY BackstopAssumption
  <2>2. counter' \in CounterType
    BY <1>4, ZeroBytes DEF Start, TypeOK, Fresh, CounterType, FileType
  <2>. QED
    BY <1>4, <2>1, <2>2 DEF Start, TypeOK, Session
<1>5. CASE Crash
  <2>1. crashes' \in 0..Bounds.crashes
    BY <1>5, BoundsAssumption DEF Crash, TypeOK
  <2>. QED
    BY <1>5, <2>1, ZeroBytes DEF Crash, TypeOK, Session, Fresh, CounterType
<1>6. CASE LoseFile
  <2>1. crashes' \in 0..Bounds.crashes
    BY <1>6, BoundsAssumption DEF LoseFile, TypeOK
  <2>2. fileLedger' \in Ledgers
    BY <1>6, ZeroBytes DEF LoseFile, TypeOK, Ledgers, Blank
  <2>. QED
    BY <1>6, <2>1, <2>2 DEF LoseFile, TypeOK, Session
<1>7. CASE Tick
  BY <1>7, BackstopAssumption DEF Tick, TypeOK, Session
<1>8. ASSUME NEW more \in Bytes, Carry(more) PROVE TypeOK'
  BY <1>8, PlusBytes DEF Carry, TypeOK, Session
<1>9. ASSUME NEW p \in Paths, NewSession(p) PROVE TypeOK'
  <2>1. past' \in Seq(Paths) /\ Len(past') = Len(past) + 1
    BY <1>9 DEF NewSession, TypeOK
  <2>2. ledger' \in Ledgers /\ fileLedger' \in Ledgers
    BY <1>9, ClosedLedgers DEF NewSession, TypeOK
  <2>. QED
    BY <1>9, <1>0, <2>1, <2>2, ZeroBytes, BoundsAssumption DEF NewSession, TypeOK, Session
<1>10. CASE UNCHANGED vars
  BY <1>10 DEF vars, TypeOK, Session
<1>11. [rx |-> 1, tx |-> 0] \in Bytes /\ [rx |-> 0, tx |-> 1] \in Bytes
  BY DEF Bytes
<1>. QED
  BY <1>1, <1>2, <1>3, <1>4, <1>5, <1>6, <1>7, <1>8, <1>9, <1>10, <1>11 DEF Next

\* The totals, the file and the counters of every reachable state have the
\* types TypeOK gives them, whatever the bounds.
THEOREM UsageTypeCorrect == Spec => []TypeOK
<1>1. Init => TypeOK
  <2>. SUFFICES ASSUME Init PROVE TypeOK
    OBVIOUS
  <2>1. 0 \in 0..BackstopInterval /\ 0 \in 0..Bounds.crashes /\ 0 \in 0..Bounds.failures
    BY BackstopAssumption, BoundsAssumption
  <2>2. past \in Seq(Paths) /\ Session <= Bounds.sessions
    BY BoundsAssumption DEF Init, Session
  <2>. QED
    BY <2>1, <2>2, ZeroBytes DEF Init, TypeOK, Fresh, CounterType, Ledgers, Blank
<1>. QED
  BY <1>1, TypeStep, PTL DEF Spec

-----------------------------------------------------------------------------
(* Accounting *)

\* Even with the next reading folded in, nothing is counted twice.
Accounted(totals, last) == Leq(Plus(totals, Delta(last, path, live)), carried)

NoOvercountInv ==
    /\ Leq(live, carried)
    /\ Accounted(counter.totals, counter.last)
    /\ file # None => Accounted(file.totals, file.last)

LEMMA FlushAccounted ==
    ASSUME TypeOK, NoOvercountInv, UNCHANGED <<path, live, carried>>,
           NEW c \in CounterType,
           Accounted(c.totals, c.last), NEW seen, Flush(c, seen) \/ Backstop(c, seen)
    PROVE  NoOvercountInv'
<1>1. CASE c.dirty /\ file' = Persisted(c) /\ counter' = [c EXCEPT !.dirty = FALSE]
  <2>1. counter'.totals = c.totals /\ counter'.last = c.last
    BY <1>1
  <2>2. file'.totals = c.totals /\ file'.last = c.last
    BY <1>1 DEF Persisted
  <2>. QED
    BY <2>1, <2>2 DEF NoOvercountInv, Accounted
<1>2. CASE counter' = c /\ UNCHANGED file
  BY <1>2 DEF NoOvercountInv, Accounted
<1>. QED
  BY <1>1, <1>2 DEF Flush, Backstop

LEMMA ObserveAccounted ==
    ASSUME TypeOK, NoOvercountInv
    PROVE  Accounted(Observe(counter, path, live).totals, Observe(counter, path, live).last)
<1>1. Delta(Observe(counter, path, live).last, path, live) = Zero
  BY DeltaOfSelf DEF Observe, TypeOK
<1>2. Observe(counter, path, live).totals = Plus(counter.totals, Delta(counter.last, path, live))
  BY DEF Observe
<1>3. Plus(counter.totals, Delta(counter.last, path, live)) \in Bytes
  BY DeltaBytes, PlusBytes DEF TypeOK, CounterType
<1>4. \A a \in Bytes : Plus(a, Zero) = a
  BY DEF Plus, Zero, Bytes
<1>. QED
  BY <1>1, <1>2, <1>3, <1>4 DEF NoOvercountInv, Accounted

LEMMA CarryAccounted ==
    ASSUME TypeOK, NEW more \in Bytes, Carry(more),
           NEW totals \in Bytes, NEW last \in Readings \cup {None}, Accounted(totals, last)
    PROVE  Leq(Plus(totals, Delta(last, path', live')), carried')
<1>1. Leq(Delta(last, path, Plus(live, more)), Plus(Delta(last, path, live), more))
  BY DeltaGrows DEF TypeOK
<1>2. Delta(last, path, Plus(live, more)) \in Bytes /\ Delta(last, path, live) \in Bytes
  BY DeltaBytes, PlusBytes DEF TypeOK
<1>3. \A a, b, t, d \in Bytes :
        Leq(a, Plus(b, more)) /\ Leq(Plus(t, b), d) => Leq(Plus(t, a), Plus(d, more))
  BY DEF Leq, Plus, Bytes
<1>4. path' = path /\ live' = Plus(live, more) /\ carried' = Plus(carried, more)
  BY DEF Carry
<1>. QED
  BY <1>1, <1>2, <1>3, <1>4 DEF Accounted, TypeOK

\* Nothing to come: totals that are below the traffic stay so.
LEMMA DropDelta ==
    ASSUME TypeOK, NEW totals \in Bytes, NEW last \in Readings \cup {None},
           Accounted(totals, last)
    PROVE  Leq(totals, carried) /\ Leq(Plus(totals, Zero), carried)
<1>1. Delta(last, path, live) \in Bytes
  BY DeltaBytes DEF TypeOK
<1>2. \A t, d, c \in Bytes : Leq(Plus(t, d), c) => Leq(t, c) /\ Leq(Plus(t, Zero), c)
  BY DEF Leq, Plus, Bytes, Zero
<1>. QED
  BY <1>1, <1>2 DEF Accounted, TypeOK

LEMMA FreshAccounted ==
    ASSUME TypeOK, NoOvercountInv
    PROVE  Accounted(Fresh.totals, Fresh.last)
<1>1. Delta(None, path, live) = live
  BY DEF Delta, Continuing
<1>2. Plus(Zero, live) = live
  BY DEF Plus, Zero, TypeOK, Bytes
<1>. QED
  BY <1>1, <1>2 DEF Fresh, Accounted, NoOvercountInv

LEMMA AccountedStep == TypeOK /\ NoOvercountInv /\ [Next]_vars => NoOvercountInv'
<1>. SUFFICES ASSUME TypeOK, NoOvercountInv, [Next]_vars PROVE NoOvercountInv'
  OBVIOUS
<1>0. counter \in CounterType
  BY DEF TypeOK
<1>1. CASE Poll
  <2>1. UNCHANGED <<path, live, carried>>
    BY <1>1 DEF Poll
  <2>2. PICK seen : Backstop(Observe(counter, path, live), seen)
    BY <1>1 DEF Poll
  <2>. QED
    BY <2>1, <2>2, ObserveType, ObserveAccounted, FlushAccounted
<1>2. CASE PollUnreadable \/ \E stopping \in BOOLEAN : FlushNow(stopping)
  <2>1. UNCHANGED <<path, live, carried>>
    BY <1>2 DEF PollUnreadable, FlushNow
  <2>2. Flush(counter, ledger) \/ Backstop(counter, ledger)
    BY <1>2 DEF PollUnreadable, FlushNow
  <2>3. Accounted(counter.totals, counter.last)
    BY DEF NoOvercountInv
  <2>. QED
    BY <1>0, <2>1, <2>2, <2>3, FlushAccounted
<1>3. CASE Start
  <2>1. UNCHANGED <<path, live, carried, file>>
    BY <1>3 DEF Start
  <2>2. CASE file = None
    BY <1>3, <2>1, <2>2, FreshAccounted DEF Start, NoOvercountInv, Accounted
  <2>3. CASE file # None
    <3>1. counter'.totals = file.totals /\ counter'.last = file.last
      BY <1>3, <2>3 DEF Start
    <3>. QED
      BY <2>1, <2>3, <3>1 DEF NoOvercountInv, Accounted
  <2>. QED BY <2>2, <2>3
<1>4. CASE Crash
  BY <1>4, FreshAccounted DEF Crash, NoOvercountInv, Accounted
<1>5. CASE LoseFile \/ Tick \/ UNCHANGED vars
  BY <1>5 DEF LoseFile, Tick, vars, NoOvercountInv, Accounted
<1>6. ASSUME NEW more \in Bytes, Carry(more) PROVE NoOvercountInv'
  <2>1. UNCHANGED <<counter, file>>
    BY <1>6 DEF Carry
  <2>2. Leq(live', carried')
    <3>1. live' = Plus(live, more) /\ carried' = Plus(carried, more)
      BY <1>6 DEF Carry
    <3>. QED
      BY <3>1 DEF NoOvercountInv, TypeOK, Leq, Plus, Bytes
  <2>3. Accounted(counter.totals, counter.last)'
    BY <1>0, <1>6, <2>1, CarryAccounted DEF NoOvercountInv, Accounted, CounterType
  <2>4. file # None => Accounted(file.totals, file.last)'
    <3>. SUFFICES ASSUME file # None PROVE Accounted(file.totals, file.last)'
      OBVIOUS
    <3>1. file.totals \in Bytes /\ file.last \in Readings \cup {None}
      BY DEF TypeOK, FileType
    <3>. QED
      BY <1>6, <2>1, <3>1, CarryAccounted DEF NoOvercountInv, Accounted
  <2>. QED
    BY <2>1, <2>2, <2>3, <2>4 DEF NoOvercountInv
<1>7. ASSUME NEW p \in Paths, NewSession(p) PROVE NoOvercountInv'
  <2>1. UNCHANGED <<counter, file, carried>> /\ path' = p /\ live' = Zero
    BY <1>7 DEF NewSession
  <2>2. Leq(Zero, carried)
    BY DEF TypeOK, Leq, Zero, Bytes
  <2>3. Accounted(counter.totals, counter.last)'
    BY <1>0, <2>1, DropDelta, DeltaOfZero DEF NoOvercountInv, Accounted, CounterType
  <2>4. file # None => Accounted(file.totals, file.last)'
    <3>. SUFFICES ASSUME file # None PROVE Accounted(file.totals, file.last)'
      OBVIOUS
    <3>1. file.totals \in Bytes /\ file.last \in Readings \cup {None}
      BY DEF TypeOK, FileType
    <3>. QED
      BY <2>1, <3>1, DropDelta, DeltaOfZero DEF NoOvercountInv, Accounted
  <2>. QED
    BY <2>1, <2>2, <2>3, <2>4 DEF NoOvercountInv
<1>8. [rx |-> 1, tx |-> 0] \in Bytes /\ [rx |-> 0, tx |-> 1] \in Bytes
  BY DEF Bytes
<1>. QED
  BY <1>1, <1>2, <1>3, <1>4, <1>5, <1>6, <1>7, <1>8 DEF Next

\* No byte is ever counted twice, in memory or in the file, across any number
\* of restarts, crashes, failed writes, lost files and reused bearer paths.
THEOREM UsageNeverOvercounts == Spec => []NeverOvercounts
<1>1. Init => NoOvercountInv
  <2>. SUFFICES ASSUME Init PROVE NoOvercountInv
    OBVIOUS
  <2>1. Delta(None, path, Zero) = Zero
    BY DEF Delta, Continuing
  <2>. QED
    BY <2>1 DEF Init, NoOvercountInv, Accounted, Fresh, Plus, Leq, Zero
<1>2. TypeOK /\ NoOvercountInv => NeverOvercounts
  BY DropDelta DEF TypeOK, NoOvercountInv, NeverOvercounts, CounterType, FileType
<1>. QED
  BY <1>1, <1>2, AccountedStep, UsageTypeCorrect, PTL DEF Spec

-----------------------------------------------------------------------------
(* Clean totals *)

\* The totals c are what a restart would resume with, unless they are dirty.
Resumable(c) == ~c.dirty => IF file = None THEN c = Fresh ELSE Persisted(c) = file

LEMMA FlushResumable ==
    ASSUME TypeOK, NEW c \in CounterType, Resumable(c),
           NEW seen, Flush(c, seen) \/ Backstop(c, seen)
    PROVE  Resumable(counter)'
<1>1. CASE c.dirty /\ file' = Persisted(c) /\ counter' = [c EXCEPT !.dirty = FALSE]
  <2>1. Persisted(counter') = Persisted(c)
    BY <1>1 DEF Persisted, CounterType
  <2>2. Persisted(c) # None
    BY NoneAssumption DEF Persisted, CounterType, FileType
  <2>. QED
    BY <1>1, <2>1, <2>2 DEF Resumable
<1>2. CASE counter' = c /\ UNCHANGED file
  BY <1>2 DEF Resumable, Persisted
<1>. QED
  BY <1>1, <1>2 DEF Flush, Backstop

\* A reading that leaves the totals clean is the one they were computed from.
LEMMA ObserveResumable ==
    ASSUME TypeOK, Resumable(counter)
    PROVE  Resumable(Observe(counter, path, live))
<1> DEFINE c == Observe(counter, path, live)
<1>. SUFFICES ASSUME ~c.dirty PROVE c = counter
  BY DEF Resumable
<1>1. counter.last = [path |-> path, bytes |-> live] /\ ~counter.dirty
  BY DEF Observe
<1>2. Delta(counter.last, path, live) = Zero
  BY <1>1, DeltaOfSelf DEF TypeOK
<1>3. Plus(counter.totals, Zero) = counter.totals
  BY DEF TypeOK, CounterType, Bytes, Plus, Zero
<1>. QED
  BY <1>1, <1>2, <1>3 DEF Observe, TypeOK, CounterType

LEMMA CleanStep ==
    ASSUME TypeOK, CleanIsPersisted, [Next]_vars
    PROVE  CleanIsPersisted'
<1>0. running => Resumable(counter)
  BY DEF CleanIsPersisted, Resumable
<1>1. CASE Poll
  <2>1. PICK seen : Backstop(Observe(counter, path, live), seen)
    BY <1>1 DEF Poll
  <2>2. Resumable(Observe(counter, path, live))
    BY <1>0, <1>1, ObserveResumable DEF Poll
  <2>3. Resumable(counter)'
    BY <2>1, <2>2, ObserveType, FlushResumable
  <2>. QED
    BY <2>3 DEF CleanIsPersisted, Resumable
<1>2. CASE PollUnreadable \/ \E stopping \in BOOLEAN : FlushNow(stopping)
  <2>1. running /\ (Flush(counter, ledger) \/ Backstop(counter, ledger))
    BY <1>2 DEF PollUnreadable, FlushNow
  <2>2. Resumable(counter)'
    BY <1>0, <2>1, FlushResumable DEF TypeOK
  <2>. QED
    BY <2>2 DEF CleanIsPersisted, Resumable
<1>3. CASE Start
  BY <1>3 DEF Start, CleanIsPersisted, Persisted, TypeOK, FileType
<1>4. CASE Crash \/ LoseFile
  BY <1>4 DEF Crash, LoseFile, CleanIsPersisted
<1>5. CASE ~(Poll \/ PollUnreadable \/ (\E stopping \in BOOLEAN : FlushNow(stopping)) \/ Start
             \/ Crash \/ LoseFile)
  <2>1. UNCHANGED <<running, counter, file>>
    BY <1>5 DEF Next, Tick, Carry, NewSession, vars
  <2>. QED
    BY <2>1 DEF CleanIsPersisted, Persisted
<1>. QED
  BY <1>1, <1>2, <1>3, <1>4, <1>5

\* Totals that are not dirty are what a restart resumes with: no flush is skipped
\* that a crash would miss (Observe, flushLocked).
THEOREM CleanTotalsArePersisted == Spec => []CleanIsPersisted
<1>1. Init => CleanIsPersisted
  BY DEF Init, CleanIsPersisted
<1>. QED
  BY <1>1, CleanStep, UsageTypeCorrect, PTL DEF Spec

-----------------------------------------------------------------------------
(* Exact totals *)

OwnPaths == IsInjective(Append(past, path))

\* A baseline is of a path that has been seen.
Known(last) == last # None => last.path = path \/ \E s \in DOMAIN past : past[s] = last.path

\* The totals are what ledger l holds, and the baseline is this session's entry.
Tally(totals, last, l) ==
    /\ totals = Total(l)
    /\ IF last # None /\ last.path = path THEN l.now = last.bytes /\ Leq(l.now, live)
       ELSE l.now = Zero

ExactInv ==
    /\ Known(counter.last)
    /\ file # None => Known(file.last)
    /\ file = None => fileLedger = Blank
    /\ OwnPaths => /\ running => Tally(counter.totals, counter.last, ledger)
                   /\ file # None => Tally(file.totals, file.last, fileLedger)

LEMMA LedgerFacts ==
    ASSUME NEW l \in Ledgers, NEW b \in Bytes
    PROVE  /\ Total(l) = Plus(l.earlier, l.now)
           /\ Leq(l.now, b) => Plus(Total(l), Minus(b, l.now)) = Total([l EXCEPT !.now = b])
           /\ l.now = Zero => Plus(Total(l), b) = Total([l EXCEPT !.now = b])
           /\ [l EXCEPT !.now = b].now = b
<1>1. l.earlier \in Bytes /\ l.now \in Bytes
  BY DEF Ledgers
<1>2. [l EXCEPT !.now = b].earlier = l.earlier /\ [l EXCEPT !.now = b].now = b
  BY DEF Ledgers
<1>3. ASSUME NEW e \in Bytes, NEW n \in Bytes
      PROVE  /\ Leq(n, b) => Plus(Plus(e, n), Minus(b, n)) = Plus(e, b)
             /\ Plus(Plus(e, Zero), b) = Plus(e, b)
  BY <1>3 DEF Bytes, Leq, Plus, Minus, Zero
<1>. QED
  BY <1>1, <1>2, <1>3 DEF Total

\* A reading that is folded in makes the ledger's entry of this session current.
LEMMA ObserveTally ==
    ASSUME TypeOK, Tally(counter.totals, counter.last, ledger)
    PROVE  LET c == Observe(counter, path, live)
           IN  Tally(c.totals, c.last, [ledger EXCEPT !.now = live])
<1> DEFINE c == Observe(counter, path, live)
<1>1. ledger \in Ledgers /\ live \in Bytes
  BY DEF TypeOK
<1>2. c.totals = Plus(Total(ledger), Delta(counter.last, path, live))
  BY DEF Observe, Tally
<1>3. c.last = [path |-> path, bytes |-> live] /\ c.last # None
  <2>1. [path |-> path, bytes |-> live] \in Readings
    BY DEF TypeOK, Readings
  <2>. QED
    BY <2>1, NoneAssumption DEF Observe
<1>4. c.totals = Total([ledger EXCEPT !.now = live])
  <2>1. CASE counter.last # None /\ counter.last.path = path
    <3>1. ledger.now = counter.last.bytes /\ Leq(ledger.now, live)
      BY <2>1 DEF Tally
    <3>2. Delta(counter.last, path, live) = Minus(live, ledger.now)
      BY <2>1, <3>1 DEF Delta, Continuing
    <3>. QED
      BY <1>1, <1>2, <3>1, <3>2, LedgerFacts
  <2>2. CASE ~(counter.last # None /\ counter.last.path = path)
    <3>1. ledger.now = Zero
      BY <2>2 DEF Tally
    <3>2. Delta(counter.last, path, live) = live
      BY <2>2 DEF Delta, Continuing
    <3>. QED
      BY <1>1, <1>2, <3>1, <3>2, LedgerFacts
  <2>. QED
    BY <2>1, <2>2
<1>5. Leq(live, live)
  BY <1>1 DEF Leq, Bytes
<1>. QED
  BY <1>1, <1>3, <1>4, <1>5, LedgerFacts DEF Tally

\* A flush writes the totals and the ledger together.
LEMMA FlushTally ==
    ASSUME TypeOK, ExactInv, UNCHANGED <<path, live, past>>,
           NEW c \in CounterType, NEW seen \in Ledgers,
           Known(c.last), OwnPaths => Tally(c.totals, c.last, seen),
           ledger' = seen, Flush(c, seen) \/ Backstop(c, seen)
    PROVE  ExactInv'
<1>0. OwnPaths' = OwnPaths
  BY DEF OwnPaths
<1>1. CASE c.dirty /\ file' = Persisted(c) /\ fileLedger' = seen /\ counter' = [c EXCEPT !.dirty = FALSE]
  <2>1. /\ counter'.totals = c.totals /\ counter'.last = c.last
        /\ file'.totals = c.totals /\ file'.last = c.last
    BY <1>1 DEF Persisted, CounterType
  <2>2. file' # None
    BY <1>1, NoneAssumption DEF Persisted, CounterType, FileType
  <2>. QED
    BY <1>0, <1>1, <2>1, <2>2 DEF ExactInv, Known, Tally
<1>2. CASE counter' = c /\ UNCHANGED <<file, fileLedger>>
  BY <1>0, <1>2 DEF ExactInv, Known, Tally
<1>. QED
  BY <1>1, <1>2 DEF Flush, Backstop

\* A session of its own path is unknown to every baseline.
LEMMA NewPath ==
    ASSUME TypeOK, NEW p \in Paths, past' = Append(past, path), path' = p
    PROVE  /\ OwnPaths' => OwnPaths /\ p # path /\ \A s \in DOMAIN past : past[s] # p
           /\ \A last : Known(last) => Known(last)'
<1>1. past \in Seq(Paths) /\ path \in Paths
  BY DEF TypeOK
<1>2. /\ DOMAIN past = 1..Len(past) /\ DOMAIN past' = 1..(Len(past) + 1)
      /\ past'[Len(past) + 1] = path
      /\ \A s \in DOMAIN past : past'[s] = past[s]
      /\ Len(past') = Len(past) + 1 /\ past' \in Seq(Paths) /\ Len(past) \in Nat
  BY <1>1
<1>3. \A last : Known(last) => Known(last)'
  <2>1. Len(past) + 1 \in DOMAIN past' /\ DOMAIN past \subseteq DOMAIN past'
    BY <1>2
  <2>. QED
    BY <1>2, <2>1 DEF Known
<1> DEFINE old == Append(past, path)
           new == Append(past', p)
<1>4. /\ DOMAIN old = 1..(Len(past) + 1) /\ old = past'
      /\ DOMAIN new = 1..(Len(past) + 2) /\ new[Len(past) + 2] = p
      /\ \A s \in DOMAIN old : new[s] = past'[s]
  BY <1>1, <1>2
<1>5. ASSUME IsInjective(new)
      PROVE  /\ IsInjective(old) /\ p # path
             /\ \A s \in DOMAIN past : past[s] # p
  <2>1. \A a, b \in 1..(Len(past) + 2) : new[a] = new[b] => a = b
    BY <1>4, <1>5 DEF IsInjective
  <2>2. \A a, b \in 1..(Len(past) + 1) : old[a] = old[b] => a = b
    <3>1. \A a \in 1..(Len(past) + 1) : a \in 1..(Len(past) + 2) /\ old[a] = new[a]
      BY <1>2, <1>4
    <3>. QED
      BY <2>1, <3>1
  <2>3. \A s \in 1..(Len(past) + 1) : past'[s] # p
    <3>1. \A s \in 1..(Len(past) + 1) : new[s] = past'[s] /\ s # Len(past) + 2 /\ s \in 1..(Len(past) + 2)
      BY <1>2, <1>4
    <3>2. Len(past) + 2 \in 1..(Len(past) + 2)
      BY <1>2
    <3>. QED
      BY <1>4, <2>1, <3>1, <3>2
  <2>4. p # path
    BY <1>2, <2>3
  <2>5. \A s \in DOMAIN past : past[s] # p
    BY <1>2, <2>3
  <2>. QED
    BY <1>4, <2>2, <2>4, <2>5 DEF IsInjective
<1>. QED
  BY <1>3, <1>5 DEF OwnPaths

LEMMA ExactStep ==
    ASSUME TypeOK, ExactInv, [Next]_vars
    PROVE  ExactInv'
<1>0. counter \in CounterType /\ ledger \in Ledgers /\ fileLedger \in Ledgers
  BY DEF TypeOK
<1>1. CASE Poll
  <2>1. /\ ledger' = [ledger EXCEPT !.now = live] /\ UNCHANGED <<path, live, past>> /\ running
        /\ Backstop(Observe(counter, path, live), [ledger EXCEPT !.now = live])
    BY <1>1 DEF Poll
  <2>2. [ledger EXCEPT !.now = live] \in Ledgers
    BY DEF TypeOK, Ledgers
  <2>3. Known(Observe(counter, path, live).last)
    BY DEF Known, Observe
  <2>4. OwnPaths => LET c == Observe(counter, path, live)
                    IN  Tally(c.totals, c.last, [ledger EXCEPT !.now = live])
    BY <2>1, ObserveTally DEF ExactInv
  <2>. QED
    BY <2>1, <2>2, <2>3, <2>4, ObserveType, FlushTally
<1>2. CASE PollUnreadable \/ \E stopping \in BOOLEAN : FlushNow(stopping)
  <2>1. /\ ledger' = ledger /\ UNCHANGED <<path, live, past>> /\ running
        /\ Flush(counter, ledger) \/ Backstop(counter, ledger)
    BY <1>2 DEF PollUnreadable, FlushNow
  <2>. QED
    BY <1>0, <2>1, FlushTally DEF ExactInv
<1>3. CASE Start
  <2>1. UNCHANGED <<path, live, past, file, fileLedger>> /\ ledger' = fileLedger
    BY <1>3 DEF Start
  <2>2. OwnPaths' = OwnPaths
    BY <2>1 DEF OwnPaths
  <2>3. CASE file = None
    <3>1. counter' = Fresh /\ ledger' = Blank
      BY <1>3, <2>1, <2>3 DEF Start, ExactInv
    <3>2. Total(Blank) = Zero
      BY DEF Total, Blank, Plus, Zero
    <3>3. Tally(Fresh.totals, Fresh.last, Blank)'
      BY <3>2 DEF Tally, Fresh, Blank
    <3>4. Known(Fresh.last)'
      BY DEF Known, Fresh
    <3>. QED
      BY <2>1, <2>2, <2>3, <3>1, <3>3, <3>4 DEF ExactInv
  <2>4. CASE file # None
    <3>1. counter'.totals = file.totals /\ counter'.last = file.last
      BY <1>3, <2>4 DEF Start
    <3>. QED
      BY <2>1, <2>2, <2>4, <3>1 DEF ExactInv, Known, Tally
  <2>. QED
    BY <2>3, <2>4
<1>4. CASE Crash \/ LoseFile
  <2>1. UNCHANGED <<path, live, past>> /\ ~running'
    BY <1>4 DEF Crash, LoseFile
  <2>2. OwnPaths' = OwnPaths
    BY <2>1 DEF OwnPaths
  <2>3. CASE Crash
    BY <2>1, <2>2, <2>3 DEF Crash, ExactInv, Known, Tally, Fresh
  <2>4. CASE LoseFile
    BY <2>1, <2>2, <2>4 DEF LoseFile, ExactInv, Known
  <2>. QED
    BY <1>4, <2>3, <2>4
<1>5. ASSUME NEW more \in Bytes, Carry(more) PROVE ExactInv'
  <2>1. /\ UNCHANGED <<running, counter, file, path, past, ledger, fileLedger>>
        /\ live' = Plus(live, more)
    BY <1>5 DEF Carry
  <2>2. OwnPaths' = OwnPaths
    BY <2>1 DEF OwnPaths
  <2>3. \A b \in Bytes : Leq(b, live) => Leq(b, live')
    BY <2>1 DEF TypeOK, Bytes, Leq, Plus
  <2>4. ledger.now \in Bytes /\ fileLedger.now \in Bytes
    BY <1>0 DEF Ledgers
  <2>. QED
    BY <2>1, <2>2, <2>3, <2>4 DEF ExactInv, Known, Tally
<1>6. ASSUME NEW p \in Paths, NewSession(p) PROVE ExactInv'
  <2>1. /\ UNCHANGED <<running, counter, file>> /\ path' = p /\ past' = Append(past, path)
        /\ ledger' = Closed(ledger) /\ fileLedger' = Closed(fileLedger)
    BY <1>6 DEF NewSession
  <2>2. Known(counter.last)' /\ (file # None => Known(file.last)')
    BY <2>1, NewPath DEF ExactInv
  <2>3. file = None => fileLedger' = Blank
    BY <2>1 DEF ExactInv, Closed, Total, Blank, Plus, Zero
  <2>4. ASSUME OwnPaths', NEW totals, NEW last, NEW l \in Ledgers, Known(last),
               Tally(totals, last, l), NEW m, m = Closed(l)
        PROVE  Tally(totals, last, m)'
    <3>1. ~(last # None /\ last.path = path')
      BY <2>1, <2>4, NewPath DEF Known
    <3>2. Total(m) = Total(l) /\ m.now = Zero
      BY <2>4, ClosedLedgers
    <3>. QED
      BY <2>4, <3>1, <3>2 DEF Tally
  <2>5. ASSUME OwnPaths', running'
        PROVE  Tally(counter.totals, counter.last, ledger)'
    <3>1. Known(counter.last) /\ Tally(counter.totals, counter.last, ledger)
      BY <2>1, <2>5, NewPath DEF ExactInv
    <3>. QED
      BY <1>0, <2>1, <2>4, <2>5, <3>1 DEF Tally
  <2>6. ASSUME OwnPaths', file' # None
        PROVE  Tally(file.totals, file.last, fileLedger)'
    <3>1. Known(file.last) /\ Tally(file.totals, file.last, fileLedger)
      BY <2>1, <2>6, NewPath DEF ExactInv
    <3>. QED
      BY <1>0, <2>1, <2>4, <2>6, <3>1 DEF Tally
  <2>. QED
    BY <2>1, <2>2, <2>3, <2>5, <2>6 DEF ExactInv
<1>7. CASE Tick \/ UNCHANGED vars
  <2>1. UNCHANGED <<running, counter, file, path, live, past, ledger, fileLedger>>
    BY <1>7 DEF Tick, vars
  <2>2. OwnPaths' = OwnPaths
    BY <2>1 DEF OwnPaths
  <2>. QED
    BY <2>1, <2>2 DEF ExactInv, Known, Tally
<1>8. [rx |-> 1, tx |-> 0] \in Bytes /\ [rx |-> 0, tx |-> 1] \in Bytes
  BY DEF Bytes
<1>. QED
  BY <1>1, <1>2, <1>3, <1>4, <1>5, <1>6, <1>7, <1>8 DEF Next

\* Where sessions have paths of their own, the totals are exactly what the last
\* readings of all sessions add up to, the last persisted ones after a crash
\* (Observe, flushLocked, load).
THEOREM UsageIsExact == Spec => []Exact
<1>1. ASSUME Init PROVE ExactInv
  <2>1. Total(Blank) = Zero
    BY DEF Total, Blank, Plus, Zero
  <2>. QED
    BY <1>1, <2>1 DEF Init, ExactInv, Known, Tally, Fresh, Blank
<1>2. ExactInv => Exact
  BY DEF ExactInv, Exact, Tally, OwnPaths
<1>3. Init => ExactInv
  BY <1>1
<1>. QED
  BY <1>2, <1>3, ExactStep, UsageTypeCorrect, PTL DEF Spec
=============================================================================
