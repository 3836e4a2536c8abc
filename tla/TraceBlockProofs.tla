--------------------------- MODULE TraceBlockProofs ---------------------------
(***************************************************************************)
(* What TraceBlock guarantees for every number of traces and consumers,    *)
(* every valid Config and every delay MaxStall.                            *)
(***************************************************************************)
EXTENDS TraceBlock, TLAPS

\* A consumer that waits for the lock has a span with a trace id in its hand.
LockOK ==
  \A c \in Consumer : pc[c] = "lock" => spans[c] # <<>> /\ Head(spans[c]) \in Trace

\* The inductive invariant.  BlockedOnlyLong needs AgesOK, which bounds what a
\* stale time can do to an entry.
BlockInv == TypeOK /\ LockOK /\ StatsOK /\ AgesOK /\ BlockedOnlyLong

\* The constants as numbers, and how far apart Cap keeps them.
LEMMA CapBounds ==
  /\ IdleTTL \in Nat /\ BlockThreshold \in Nat /\ BlockedIdleTTL \in Nat /\ MaxStall \in Nat
  /\ Cap \in Nat
  /\ MaxStall <= Cap
  /\ BlockThreshold + MaxStall <= Cap
  /\ BlockedIdleTTL + MaxStall <= Cap
  /\ IdleTTL + MaxStall <= Cap
BY ConfigAssumption, BoundAssumption DEF Cap

\* Getting older stays within Age, keeps the order of two ages, and lets
\* their distance grow no further.
LEMMA OlderFacts ==
  ASSUME NEW a \in Age, NEW b \in Age
  PROVE  /\ Older(a) \in Age
         /\ a <= Older(a)
         /\ a <= b => Older(a) <= Older(b)
         /\ a <= b + MaxStall => Older(a) <= Older(b) + MaxStall
BY CapBounds DEF Older, Age

\* The processor starts with an empty map: newTraceBlockProcessor.
LEMMA InitBlockInv == Init => BlockInv
<1> SUFFICES ASSUME Init
             PROVE  BlockInv
  OBVIOUS
<1> USE CapBounds DEF Init
<1>1. 0 \in Age /\ 0 \in 0 .. MaxStall /\ <<>> \in Seq(Trace \cup {NoTrace})
  BY DEF Age
<1>2. TypeOK
  BY <1>1 DEF TypeOK
<1>3. LockOK
  BY DEF LockOK
<1>4. StatsOK /\ AgesOK /\ BlockedOnlyLong
  BY DEF StatsOK, AgesOK, BlockedOnlyLong
<1>. QED BY <1>2, <1>3, <1>4 DEF BlockInv

\* shouldDrop keeps the invariant, however late its goroutine is.
LEMMA DecideInv ==
  ASSUME BlockInv, NEW c \in Consumer, Decide(c)
  PROVE  BlockInv'
<1> DEFINE t == Head(spans[c])
           drop == t \in known /\ IsLong(t, now[c])
<1> USE CapBounds
<1>1. /\ pc[c] = "lock" /\ spans[c] # <<>> /\ t \in Trace
      /\ spans[c] \in Seq(Trace \cup {NoTrace})
      /\ now[c] \in 0 .. MaxStall /\ now[c] \in Age
  <2>1. pc[c] = "lock"
    BY DEF Decide
  <2>2. spans[c] # <<>> /\ t \in Trace
    BY <2>1 DEF BlockInv, LockOK
  <2>3. spans[c] \in Seq(Trace \cup {NoTrace}) /\ now[c] \in 0 .. MaxStall
    BY DEF BlockInv, TypeOK
  <2>. QED BY <2>1, <2>2, <2>3 DEF Age
<1>2. TypeOK'
  <2>1. /\ known' \in SUBSET Trace
        /\ isBlocked' \in SUBSET known'
    BY <1>1 DEF BlockInv, TypeOK, Decide
  <2>2. /\ firstSeen' \in [Trace -> Age] /\ lastSeen' \in [Trace -> Age]
        /\ seen' \in [Trace -> Age] /\ since' \in [Trace -> Age]
    BY <1>1, SMTT(30) DEF BlockInv, TypeOK, Decide, Touch, Age
  <2>3. spans' \in [Consumer -> Seq(Trace \cup {NoTrace})]
    <3>1. Tail(spans[c]) \in Seq(Trace \cup {NoTrace})
      BY <1>1
    <3>. QED BY <3>1 DEF BlockInv, TypeOK, Decide
  <2>4. /\ pc' \in [Consumer -> {"idle", "loop", "lock"}]
        /\ now' \in [Consumer -> 0 .. MaxStall]
        /\ total' \in [Consumer -> Nat]
        /\ remaining' \in [Consumer -> Nat]
    BY <1>1 DEF BlockInv, TypeOK, Decide
  <2>. QED BY <2>1, <2>2, <2>3, <2>4 DEF BlockInv, TypeOK, Decide, statVars, taskVars
<1>3. LockOK'
  BY <1>1 DEF BlockInv, TypeOK, LockOK, Decide
<1>4. StatsOK'
  BY <1>1 DEF BlockInv, TypeOK, StatsOK, Decide, statVars
<1>5. ASSUME NEW u \in known'
      PROVE  /\ since'[u] <= firstSeen'[u]
             /\ firstSeen'[u] <= since'[u] + MaxStall
             /\ lastSeen'[u] <= seen'[u] + MaxStall
             /\ seen'[u] <= since'[u]
  <2>1. CASE u # t
    BY <1>1, <2>1 DEF BlockInv, TypeOK, AgesOK, Decide, Touch, Age
  <2>2. CASE u = t /\ t \in known
    BY <1>1, <2>2 DEF BlockInv, TypeOK, AgesOK, Decide, Touch, Age
  <2>3. CASE u = t /\ t \notin known
    BY <1>1, <2>3 DEF BlockInv, TypeOK, AgesOK, Decide, Touch, Age
  <2>. QED BY <2>1, <2>2, <2>3
<1>6. AgesOK'
  BY <1>5 DEF AgesOK
<1>7. ASSUME NEW u \in isBlocked'
      PROVE  since'[u] >= BlockThreshold - MaxStall
  <2>1. CASE u \in isBlocked
    <3>1. u \in known /\ u \in Trace
      BY <2>1 DEF BlockInv, TypeOK
    <3>2. since'[u] = since[u]
      BY <3>1, <1>1 DEF BlockInv, TypeOK, Decide
    <3>. QED BY <2>1, <3>2 DEF BlockInv, BlockedOnlyLong
  <2>2. CASE u \notin isBlocked
    <3>1. u = t /\ t \in known /\ IsLong(t, now[c])
      BY <2>2, <1>7 DEF Decide
    <3>2. since'[u] = since[u]
      BY <3>1, <1>1 DEF BlockInv, TypeOK, Decide
    <3>3. firstSeen[u] >= BlockThreshold
      BY <3>1, <2>2, <1>1 DEF BlockInv, TypeOK, IsLong, Age
    <3>. QED BY <3>1, <3>2, <3>3, <1>1 DEF BlockInv, TypeOK, AgesOK, Age
  <2>. QED BY <2>1, <2>2
<1>. QED BY <1>2, <1>3, <1>4, <1>6, <1>7 DEF BlockInv, BlockedOnlyLong

\* The passing of time keeps the invariant: the ages of an entry stay as far
\* apart as they were, also when they reach Cap.
LEMMA TickInv ==
  ASSUME BlockInv, Tick
  PROVE  BlockInv'
<1> USE CapBounds
<1>1. TypeOK'
  <2>1. /\ firstSeen' \in [Trace -> Age] /\ lastSeen' \in [Trace -> Age]
        /\ seen' \in [Trace -> Age] /\ since' \in [Trace -> Age]
    BY OlderFacts DEF BlockInv, TypeOK, Tick
  <2>2. now' \in [Consumer -> 0 .. MaxStall] /\ taskNow' \in 0 .. MaxStall
    BY DEF BlockInv, TypeOK, Tick
  <2>. QED BY <2>1, <2>2 DEF BlockInv, TypeOK, Tick, statVars
<1>2. LockOK' /\ StatsOK'
  BY DEF BlockInv, LockOK, StatsOK, Tick, statVars
<1>3. ASSUME NEW t \in known'
      PROVE  /\ t \in known /\ t \in Trace
             /\ firstSeen[t] \in Age /\ firstSeen'[t] = Older(firstSeen[t])
             /\ lastSeen[t] \in Age /\ lastSeen'[t] = Older(lastSeen[t])
             /\ seen[t] \in Age /\ seen'[t] = Older(seen[t])
             /\ since[t] \in Age /\ since'[t] = Older(since[t])
  BY DEF BlockInv, TypeOK, Tick
<1>4. AgesOK'
  BY <1>3, OlderFacts DEF BlockInv, AgesOK
<1>5. ASSUME NEW t \in isBlocked'
      PROVE  since'[t] >= BlockThreshold - MaxStall
  <2>1. t \in known' /\ t \in isBlocked
    BY DEF BlockInv, TypeOK, Tick
  <2>2. since[t] \in Age /\ since'[t] \in Age /\ since[t] <= since'[t]
    BY <2>1, <1>3, OlderFacts
  <2>. QED BY <2>1, <2>2 DEF BlockInv, BlockedOnlyLong, Age
<1>. QED BY <1>1, <1>2, <1>4, <1>5 DEF BlockInv, BlockedOnlyLong

\* cleanExpired keeps the invariant.
LEMMA CleanInv ==
  ASSUME BlockInv, CleanExpired
  PROVE  BlockInv'
<1> USE CapBounds
<1>1. TypeOK'
  BY DEF BlockInv, TypeOK, CleanExpired, statVars, consumerVars, Age
<1>2. LockOK' /\ StatsOK'
  BY DEF BlockInv, LockOK, StatsOK, CleanExpired, statVars, consumerVars
<1>3. ASSUME NEW t \in known'
      PROVE  /\ t \in known
             /\ firstSeen'[t] = firstSeen[t] /\ lastSeen'[t] = lastSeen[t]
             /\ seen'[t] = seen[t] /\ since'[t] = since[t]
  BY DEF BlockInv, TypeOK, CleanExpired
<1>4. isBlocked' \subseteq isBlocked /\ isBlocked' \subseteq known'
  BY DEF BlockInv, TypeOK, CleanExpired
<1>5. AgesOK' /\ BlockedOnlyLong'
  BY <1>3, <1>4 DEF BlockInv, AgesOK, BlockedOnlyLong
<1>. QED BY <1>1, <1>2, <1>5 DEF BlockInv

\* Every step keeps the invariant.
LEMMA StepBlockInv == BlockInv /\ [Next]_vars => BlockInv'
<1> SUFFICES ASSUME BlockInv, [Next]_vars
             PROVE  BlockInv'
  OBVIOUS
<1> USE CapBounds
<1>1. ASSUME NEW c \in Consumer, NEW batch \in Batches, ConsumeTraces(c, batch)
      PROVE  BlockInv'
  <2>1. batch \in Seq(Trace \cup {NoTrace})
    BY BoundAssumption DEF Batches
  <2>2. TypeOK'
    BY <1>1, <2>1 DEF BlockInv, TypeOK, ConsumeTraces, stateVars, statVars, taskVars
  <2>3. LockOK' /\ StatsOK' /\ AgesOK' /\ BlockedOnlyLong'
    BY <1>1 DEF BlockInv, TypeOK, LockOK, StatsOK, AgesOK, BlockedOnlyLong, ConsumeTraces,
                stateVars, statVars
  <2>. QED BY <2>2, <2>3 DEF BlockInv
<1>2. ASSUME NEW c \in Consumer, PassEmptyId(c)
      PROVE  BlockInv'
  <2>1. Tail(spans[c]) \in Seq(Trace \cup {NoTrace})
    BY <1>2 DEF BlockInv, TypeOK, PassEmptyId
  <2>2. TypeOK'
    BY <1>2, <2>1, SMTT(30) DEF BlockInv, TypeOK, PassEmptyId, stateVars, statVars, taskVars
  <2>3. LockOK' /\ StatsOK' /\ AgesOK' /\ BlockedOnlyLong'
    BY <1>2 DEF BlockInv, TypeOK, LockOK, StatsOK, AgesOK, BlockedOnlyLong, PassEmptyId,
                stateVars, statVars
  <2>. QED BY <2>2, <2>3 DEF BlockInv
<1>3. ASSUME NEW c \in Consumer, ReadNow(c)
      PROVE  BlockInv'
  <2>1. Head(spans[c]) \in Trace
    BY <1>3 DEF BlockInv, TypeOK, ReadNow
  <2>2. TypeOK'
    BY <1>3 DEF BlockInv, TypeOK, ReadNow, stateVars, statVars, taskVars
  <2>3. LockOK' /\ StatsOK' /\ AgesOK' /\ BlockedOnlyLong'
    BY <1>3, <2>1 DEF BlockInv, TypeOK, LockOK, StatsOK, AgesOK, BlockedOnlyLong, ReadNow,
                stateVars, statVars
  <2>. QED BY <2>2, <2>3 DEF BlockInv
<1>4. ASSUME NEW c \in Consumer, CountBatch(c)
      PROVE  BlockInv'
  <2>1. total[c] \in Nat /\ remaining[c] \in Nat /\ remaining[c] <= total[c]
    BY <1>4 DEF BlockInv, TypeOK, StatsOK
  <2>2. TypeOK'
    <3>1. receivedSpans' \in Nat /\ droppedSpans' \in Nat
      BY <1>4, <2>1 DEF BlockInv, TypeOK, CountBatch
    <3>2. /\ pc' \in [Consumer -> {"idle", "loop", "lock"}]
          /\ total' \in [Consumer -> Nat] /\ remaining' \in [Consumer -> Nat]
      BY <1>4 DEF BlockInv, TypeOK, CountBatch
    <3>. QED BY <1>4, <3>1, <3>2 DEF BlockInv, TypeOK, CountBatch, stateVars, taskVars
  <2>3. LockOK' /\ StatsOK' /\ AgesOK' /\ BlockedOnlyLong'
    BY <1>4, <2>1 DEF BlockInv, TypeOK, LockOK, StatsOK, AgesOK, BlockedOnlyLong, CountBatch,
                stateVars
  <2>. QED BY <2>2, <2>3 DEF BlockInv
<1>5. CASE ReportStats
  BY <1>5 DEF BlockInv, TypeOK, LockOK, StatsOK, AgesOK, BlockedOnlyLong, ReportStats,
              stateVars, consumerVars
<1>6. CASE Start \/ Minute \/ TaskReturns \/ Shutdown \/ ShutdownReturns
  <2>1. UNCHANGED <<stateVars, statVars, consumerVars>>
    BY <1>6 DEF Start, Minute, TaskReturns, Shutdown, ShutdownReturns
  <2>2. /\ task' \in {"none", "select", "clean", "report", "done"}
        /\ taskNow' \in 0 .. MaxStall
        /\ shutdown' \in {"no", "waiting", "returned"}
    BY <1>6 DEF BlockInv, TypeOK, Start, Minute, TaskReturns, Shutdown, ShutdownReturns
  <2>3. stopped' \in BOOLEAN
    BY <1>6 DEF BlockInv, TypeOK, Start, Minute, TaskReturns, Shutdown, ShutdownReturns
  <2>4. TypeOK'
    BY <2>1, <2>2, <2>3 DEF BlockInv, TypeOK, stateVars, statVars, consumerVars
  <2>5. LockOK' /\ StatsOK' /\ AgesOK' /\ BlockedOnlyLong'
    BY <2>1 DEF BlockInv, LockOK, StatsOK, AgesOK, BlockedOnlyLong, stateVars, statVars,
                consumerVars
  <2>. QED BY <2>4, <2>5 DEF BlockInv
<1>7. CASE UNCHANGED vars
  BY <1>7 DEF BlockInv, TypeOK, LockOK, StatsOK, AgesOK, BlockedOnlyLong, vars, stateVars,
              statVars, consumerVars, taskVars
<1>. QED BY <1>1, <1>2, <1>3, <1>4, <1>5, <1>6, <1>7, DecideInv, TickInv, CleanInv
         DEF Next, Consume, Task

\* The types of the processor's state, the statistics, the bounds on what a
\* stale time does, and the claim that only long traces are blocked are
\* invariants of every behaviour of the processor.
THEOREM BlockInvariant == Spec => [](TypeOK /\ StatsOK /\ AgesOK /\ BlockedOnlyLong)
<1>1. Spec => []BlockInv
  BY InitBlockInv, StepBlockInv, PTL DEF Spec
<1>2. BlockInv => TypeOK /\ StatsOK /\ AgesOK /\ BlockedOnlyLong
  BY DEF BlockInv
<1>. QED BY <1>1, <1>2, PTL

\* shouldDrop never unblocks a trace, and cleanExpired removes an entry only
\* when no span of the trace came for its TTL, less MaxStall.
THEOREM NeverForgottenEarly == Spec => ForgottenOnlyIdle
<1> DEFINE Kept == /\ \A t \in known \ known' : seen[t] >= TTL(t) - MaxStall
                   /\ \A t \in isBlocked \ isBlocked' : t \notin known'
<1>1. BlockInv /\ [Next]_vars => [Kept]_vars
  <2> SUFFICES ASSUME BlockInv, Next
               PROVE  Kept
    OBVIOUS
  <2>1. CASE CleanExpired
    <3>1. ASSUME NEW t \in known \ known'
          PROVE  seen[t] >= TTL(t) - MaxStall
      <4>1. /\ lastSeen[t] - taskNow >= TTL(t)
            /\ lastSeen[t] \in Int /\ seen[t] \in Int /\ TTL(t) \in Int
            /\ taskNow \in Nat /\ MaxStall \in Nat
        BY <2>1, CapBounds DEF CleanExpired, BlockInv, TypeOK, TTL, Age
      <4>. QED BY <4>1 DEF BlockInv, AgesOK
    <3>2. ASSUME NEW t \in isBlocked \ isBlocked'
          PROVE  t \notin known'
      BY <2>1, <3>2 DEF CleanExpired
    <3>. QED BY <3>1, <3>2
  <2>2. ASSUME NEW c \in Consumer, Decide(c)
        PROVE  Kept
    <3>1. known \subseteq known'
      BY <2>2 DEF Decide
    <3>2. isBlocked \subseteq isBlocked'
      BY <2>2 DEF Decide, IsLong, BlockInv, TypeOK
    <3>. QED BY <3>1, <3>2
  <2>3. CASE known' = known /\ isBlocked' = isBlocked
    BY <2>3
  <2>. QED
    BY <2>1, <2>2, <2>3
    DEF Next, Consume, Task, ConsumeTraces, PassEmptyId, ReadNow, CountBatch, Start, Minute,
        ReportStats, TaskReturns, Shutdown, ShutdownReturns, Tick, stateVars
<1>2. Spec => []BlockInv
  BY InitBlockInv, StepBlockInv, PTL DEF Spec
<1>. QED BY <1>1, <1>2, PTL DEF Spec, ForgottenOnlyIdle

\* A trace that was tracked for BlockThreshold and MaxStall gets no further
\* span to the next consumer.
THEOREM LongTracesAreDropped == Spec => LongTracesDropped
<1> DEFINE Stopped ==
      \A c \in Consumer :
        pc[c] = "lock" /\ remaining'[c] > remaining[c] /\ Head(spans[c]) \in known
          => since[Head(spans[c])] < BlockThreshold + MaxStall
<1>1. BlockInv /\ [Next]_vars => [Stopped]_vars
  <2> SUFFICES ASSUME BlockInv, Next, NEW c \in Consumer,
                      pc[c] = "lock", remaining'[c] > remaining[c], Head(spans[c]) \in known
               PROVE  since[Head(spans[c])] < BlockThreshold + MaxStall
    OBVIOUS
  <2> DEFINE t == Head(spans[c])
  <2>1. remaining \in [Consumer -> Nat]
    BY DEF BlockInv, TypeOK
  <2>2. Decide(c)
    BY <2>1 DEF Next, Consume, Task, ConsumeTraces, PassEmptyId, ReadNow, Decide, CountBatch,
        Start, Minute, CleanExpired, ReportStats, TaskReturns, Shutdown, ShutdownReturns, Tick,
        consumerVars
  <2>3. ~IsLong(t, now[c])
    BY <2>1, <2>2 DEF Decide
  <2>4. /\ t \in Trace /\ firstSeen[t] \in Int /\ since[t] \in Int
        /\ now[c] \in 0 .. MaxStall
    BY DEF BlockInv, TypeOK, Age
  <2>5. firstSeen[t] < BlockThreshold + MaxStall
    BY <2>3, <2>4, CapBounds DEF IsLong
  <2>. QED BY <2>4, <2>5, CapBounds DEF BlockInv, AgesOK
<1>2. Spec => []BlockInv
  BY InitBlockInv, StepBlockInv, PTL DEF Spec
<1>. QED BY <1>1, <1>2, PTL DEF Spec, LongTracesDropped
=============================================================================
