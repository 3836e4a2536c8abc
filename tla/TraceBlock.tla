------------------------------ MODULE TraceBlock ------------------------------
(***************************************************************************)
(* pkg/processor/traceblockprocessor: traces that go on for too long are   *)
(* blocked.                                                                *)
(*                                                                         *)
(* Consumer goroutines run ConsumeTraces: for every span shouldDrop reads  *)
(* the time FIRST and takes the lock p.mu afterwards, so a goroutine that  *)
(* is delayed in between works with an old time and lastSeen may go        *)
(* backwards.  The minute goroutine (runMinuteTask) does the same in       *)
(* cleanExpired.                                                           *)
(*                                                                         *)
(* There is no clock: a time.Time is represented by how long ago it was,   *)
(* up to Cap, and Tick makes every one of them older.                      *)
(***************************************************************************)
EXTENDS Integers, Sequences

CONSTANTS
  Trace,            \* trace ids
  NoTrace,          \* the empty trace id
  Consumer,         \* goroutines that call ConsumeTraces
  IdleTTL, BlockThreshold, BlockedIdleTTL,   \* Config
  MaxStall,         \* assumption: how long a goroutine waits for p.mu at most
  MaxBatch,         \* bound: spans of one ConsumeTraces
  MaxSpans          \* bound: a batch comes while fewer spans are unreported

\* Config.Validate.
ASSUME ConfigAssumption ==
  /\ IdleTTL \in Nat \ {0}
  /\ BlockedIdleTTL \in Nat /\ BlockedIdleTTL > IdleTTL
  /\ BlockThreshold \in Nat /\ BlockThreshold > IdleTTL

ASSUME BoundAssumption ==
  /\ MaxStall \in Nat
  /\ MaxBatch \in Nat
  /\ MaxSpans \in Nat
  /\ NoTrace \notin Trace

\* Longer ago than any comparison of the code can tell apart.
Cap == BlockThreshold + BlockedIdleTTL + MaxStall

Age == 0 .. Cap

VARIABLES
  known,       \* the keys of p.traces
  firstSeen, lastSeen, isBlocked,   \* traceState of these keys
  receivedSpans, droppedSpans,
  pc,          \* where a consumer is in ConsumeTraces
  spans,       \* the trace ids of the spans it has not looked at
  now,         \* its local now in shouldDrop
  total, remaining,   \* its totalSpans and the spans it lets through
  task,        \* where the minute goroutine is
  taskNow,     \* its local now in cleanExpired
  stopped,     \* stopCh is closed
  shutdown,    \* "no", "waiting" for doneCh, or "returned"
  seen,        \* observer: the last time a span of the trace was decided on
  since        \* observer: the time the entry of the trace was created

stateVars == <<known, firstSeen, lastSeen, isBlocked, seen, since>>
statVars == <<receivedSpans, droppedSpans>>
consumerVars == <<pc, spans, now, total, remaining>>
taskVars == <<task, taskNow, stopped, shutdown>>
vars == <<stateVars, statVars, consumerVars, taskVars>>

TypeOK ==
  /\ known \in SUBSET Trace
  /\ firstSeen \in [Trace -> Age]
  /\ lastSeen \in [Trace -> Age]
  /\ isBlocked \in SUBSET known
  /\ receivedSpans \in Nat
  /\ droppedSpans \in Nat
  /\ pc \in [Consumer -> {"idle", "loop", "lock"}]
  /\ spans \in [Consumer -> Seq(Trace \cup {NoTrace})]
  /\ now \in [Consumer -> 0 .. MaxStall]
  /\ total \in [Consumer -> Nat]
  /\ remaining \in [Consumer -> Nat]
  /\ task \in {"none", "select", "clean", "report", "done"}
  /\ taskNow \in 0 .. MaxStall
  /\ stopped \in BOOLEAN
  /\ shutdown \in {"no", "waiting", "returned"}
  /\ seen \in [Trace -> Age]
  /\ since \in [Trace -> Age]

Init ==
  /\ known = {}
  /\ firstSeen = [t \in Trace |-> 0]
  /\ lastSeen = [t \in Trace |-> 0]
  /\ isBlocked = {}
  /\ receivedSpans = 0
  /\ droppedSpans = 0
  /\ pc = [c \in Consumer |-> "idle"]
  /\ spans = [c \in Consumer |-> <<>>]
  /\ now = [c \in Consumer |-> 0]
  /\ total = [c \in Consumer |-> 0]
  /\ remaining = [c \in Consumer |-> 0]
  /\ task = "none"
  /\ taskNow = 0
  /\ stopped = FALSE
  /\ shutdown = "no"
  /\ seen = [t \in Trace |-> 0]
  /\ since = [t \in Trace |-> 0]

-----------------------------------------------------------------------------
(***************************************************************************)
(* Consumers.                                                              *)
(***************************************************************************)

Batches == UNION {[1 .. n -> Trace \cup {NoTrace}] : n \in 0 .. MaxBatch}

\* ConsumeTraces is called with a batch of spans.
ConsumeTraces(c, batch) ==
  /\ pc[c] = "idle"
  /\ receivedSpans < MaxSpans
  /\ pc' = [pc EXCEPT ![c] = "loop"]
  /\ spans' = [spans EXCEPT ![c] = batch]
  /\ UNCHANGED <<stateVars, statVars, now, total, remaining, taskVars>>

\* A span without a trace id is let through.
PassEmptyId(c) ==
  /\ pc[c] = "loop"
  /\ spans[c] # <<>>
  /\ Head(spans[c]) = NoTrace
  /\ spans' = [spans EXCEPT ![c] = Tail(@)]
  /\ total' = [total EXCEPT ![c] = @ + 1]
  /\ remaining' = [remaining EXCEPT ![c] = @ + 1]
  /\ UNCHANGED <<stateVars, statVars, pc, now, taskVars>>

\* shouldDrop: now := time.Now(), before the lock.
ReadNow(c) ==
  /\ pc[c] = "loop"
  /\ spans[c] # <<>>
  /\ Head(spans[c]) # NoTrace
  /\ pc' = [pc EXCEPT ![c] = "lock"]
  /\ now' = [now EXCEPT ![c] = 0]
  /\ UNCHANGED <<stateVars, statVars, spans, total, remaining, taskVars>>

\* A slip to be noticed: the block is taken back when the time is older.
IsLongOnly(t, n) == firstSeen[t] - n >= BlockThreshold

\* A slip to be noticed: the age of the last span is compared.
IsLongSinceLast(t, n) == t \in isBlocked \/ lastSeen[t] - n >= BlockThreshold

\* A slip to be noticed: the wrong limit.
IsLongIdle(t, n) == t \in isBlocked \/ firstSeen[t] - n >= IdleTTL

\* The trace is blocked already, or this span shows that it is too long.
IsLong(t, n) == t \in isBlocked \/ firstSeen[t] - n >= BlockThreshold

\* lastSeen = now, for every span.
Touch(t, n) == lastSeen' = [lastSeen EXCEPT ![t] = n]

\* shouldDrop under the lock.  The first span of a trace makes an entry.
Decide(c) ==
  LET t == Head(spans[c])
      drop == t \in known /\ IsLong(t, now[c])
  IN  /\ pc[c] = "lock"
      /\ known' = known \cup {t}
      /\ firstSeen' = IF t \in known THEN firstSeen ELSE [firstSeen EXCEPT ![t] = now[c]]
      /\ since' = IF t \in known THEN since ELSE [since EXCEPT ![t] = 0]
      /\ Touch(t, now[c])
      /\ seen' = [seen EXCEPT ![t] = 0]
      /\ isBlocked' = IF drop THEN isBlocked \cup {t} ELSE isBlocked \ {t}
      /\ pc' = [pc EXCEPT ![c] = "loop"]
      /\ spans' = [spans EXCEPT ![c] = Tail(@)]
      /\ now' = [now EXCEPT ![c] = 0]
      /\ total' = [total EXCEPT ![c] = @ + 1]
      /\ remaining' = [remaining EXCEPT ![c] = IF drop THEN @ ELSE @ + 1]
      /\ UNCHANGED <<statVars, taskVars>>

\* The statistics of the batch; what remains goes to the next consumer.
CountBatch(c) ==
  /\ pc[c] = "loop"
  /\ spans[c] = <<>>
  /\ receivedSpans' = receivedSpans + total[c]
  /\ droppedSpans' = droppedSpans + (total[c] - remaining[c])
  /\ pc' = [pc EXCEPT ![c] = "idle"]
  /\ total' = [total EXCEPT ![c] = 0]
  /\ remaining' = [remaining EXCEPT ![c] = 0]
  /\ UNCHANGED <<stateVars, spans, now, taskVars>>

Consume(c) == PassEmptyId(c) \/ ReadNow(c) \/ Decide(c) \/ CountBatch(c)

-----------------------------------------------------------------------------
(***************************************************************************)
(* The minute goroutine.                                                   *)
(***************************************************************************)

Start ==
  /\ task = "none"
  /\ shutdown = "no"
  /\ task' = "select"
  /\ UNCHANGED <<stateVars, statVars, consumerVars, taskNow, stopped, shutdown>>

\* The ticker fires, and cleanExpired reads the time.
Minute ==
  /\ task = "select"
  /\ task' = "clean"
  /\ taskNow' = 0
  /\ UNCHANGED <<stateVars, statVars, consumerVars, stopped, shutdown>>

\* A slip to be noticed: a blocked trace is never forgotten.
TTLForever(t) == IF t \in isBlocked THEN Cap + 1 ELSE IdleTTL

\* How long an entry is kept when no span comes.
TTL(t) == IF t \in isBlocked THEN BlockedIdleTTL ELSE IdleTTL

\* cleanExpired under the lock.
CleanExpired ==
  LET gone == {t \in known : lastSeen[t] - taskNow >= TTL(t)}
      Keep(age) == [t \in Trace |-> IF t \in gone THEN 0 ELSE age[t]]
  IN  /\ task = "clean"
      /\ known' = known \ gone
      /\ isBlocked' = isBlocked \ gone
      /\ firstSeen' = Keep(firstSeen)
      /\ lastSeen' = Keep(lastSeen)
      /\ seen' = Keep(seen)
      /\ since' = Keep(since)
      /\ task' = "report"
      /\ taskNow' = 0
      /\ UNCHANGED <<statVars, consumerVars, stopped, shutdown>>

\* reportStats.
ReportStats ==
  /\ task = "report"
  /\ receivedSpans' = 0
  /\ droppedSpans' = 0
  /\ task' = "select"
  /\ UNCHANGED <<stateVars, consumerVars, taskNow, stopped, shutdown>>

\* A slip to be noticed: doneCh is not closed when the goroutine returns.
TaskLeaves ==
  /\ task = "select"
  /\ stopped
  /\ task' = "none"
  /\ UNCHANGED <<stateVars, statVars, consumerVars, taskNow, stopped, shutdown>>

\* <-stopCh: the goroutine returns and closes doneCh.
TaskReturns ==
  /\ task = "select"
  /\ stopped
  /\ task' = "done"
  /\ UNCHANGED <<stateVars, statVars, consumerVars, taskNow, stopped, shutdown>>

\* Shutdown closes stopCh, if Start made one, and waits for doneCh.
Shutdown ==
  /\ shutdown = "no"
  /\ stopped' = (task # "none")
  /\ shutdown' = IF task = "none" THEN "returned" ELSE "waiting"
  /\ UNCHANGED <<stateVars, statVars, consumerVars, task, taskNow>>

\* <-doneCh.
ShutdownReturns ==
  /\ shutdown = "waiting"
  /\ task = "done"
  /\ shutdown' = "returned"
  /\ UNCHANGED <<stateVars, statVars, consumerVars, task, taskNow, stopped>>

-----------------------------------------------------------------------------
Older(age) == IF age < Cap THEN age + 1 ELSE age

\* Time passes.  Nobody waits longer than MaxStall between time.Now() and its
\* lock: p.mu is held for one map operation or one pass over the map.
Tick ==
  /\ \A c \in Consumer : pc[c] = "lock" => now[c] < MaxStall
  /\ task = "clean" => taskNow < MaxStall
  /\ now' = [c \in Consumer |-> IF pc[c] = "lock" THEN now[c] + 1 ELSE now[c]]
  /\ taskNow' = IF task = "clean" THEN taskNow + 1 ELSE taskNow
  /\ firstSeen' = [t \in Trace |-> IF t \in known THEN Older(firstSeen[t]) ELSE firstSeen[t]]
  /\ lastSeen' = [t \in Trace |-> IF t \in known THEN Older(lastSeen[t]) ELSE lastSeen[t]]
  /\ seen' = [t \in Trace |-> IF t \in known THEN Older(seen[t]) ELSE seen[t]]
  /\ since' = [t \in Trace |-> IF t \in known THEN Older(since[t]) ELSE since[t]]
  /\ UNCHANGED <<known, isBlocked, statVars, pc, spans, total, remaining, task,
                 stopped, shutdown>>

Task == Minute \/ CleanExpired \/ ReportStats \/ TaskReturns

Next ==
  \/ \E c \in Consumer : (\E batch \in Batches : ConsumeTraces(c, batch)) \/ Consume(c)
  \/ Start
  \/ Task
  \/ Shutdown
  \/ ShutdownReturns
  \/ Tick

Spec == Init /\ [][Next]_vars

\* The collector starts its processors (or shuts them down), time passes,
\* goroutines run, and a select that finds stopCh closed again
\* and again takes it in the end (Go picks a ready case at random).
FairSpec ==
  /\ Spec
  /\ WF_vars(Start)
  /\ WF_vars(Tick)
  /\ WF_vars(Task)
  /\ SF_vars(TaskReturns)
  /\ WF_vars(ShutdownReturns)
  /\ \A c \in Consumer : WF_vars(Consume(c))

-----------------------------------------------------------------------------
(***************************************************************************)
(* Properties.                                                             *)
(***************************************************************************)

\* The statistics never claim more dropped spans than received ones, in a
\* batch or in total.
StatsOK ==
  /\ droppedSpans <= receivedSpans
  /\ \A c \in Consumer : remaining[c] <= total[c]

\* However stale the time a goroutine uses, the ages an entry holds are wrong
\* by at most MaxStall, and always towards "older".
AgesOK ==
  \A t \in known : /\ since[t] <= firstSeen[t]
                   /\ firstSeen[t] <= since[t] + MaxStall
                   /\ lastSeen[t] <= seen[t] + MaxStall
                   /\ seen[t] <= since[t]

\* Only long traces lose spans: an entry is blocked only when the trace has
\* been tracked for BlockThreshold, less the time a goroutine may be late.
BlockedOnlyLong == \A t \in isBlocked : since[t] >= BlockThreshold - MaxStall

\* A block is not taken back while spans keep coming: shouldDrop never
\* unblocks, and cleanExpired forgets a blocked trace only when none of its
\* spans came for BlockedIdleTTL (IdleTTL if it is not blocked), less MaxStall.
ForgottenOnlyIdle ==
  [][/\ \A t \in known \ known' : seen[t] >= TTL(t) - MaxStall
     /\ \A t \in isBlocked \ isBlocked' : t \notin known']_vars

\* A trace that has been tracked for longer than BlockThreshold, and the time
\* a goroutine may be late, gets no span through ConsumeTraces any more.
LongTracesDropped ==
  [][\A c \in Consumer :
       pc[c] = "lock" /\ remaining'[c] > remaining[c] /\ Head(spans[c]) \in known
         => since[Head(spans[c])] < BlockThreshold + MaxStall]_vars

\* The entry of a trace leaves the map unless its spans keep coming or the
\* processor is shut down: p.traces does not leak.
QuietTracesLeave ==
  \A t \in Trace :
    \/ []<>(t \notin known)
    \/ []<>(\E c \in Consumer : pc[c] = "lock" /\ Head(spans[c]) = t)
    \/ <>(shutdown # "no")

\* Shutdown does not block for ever on doneCh, whether Start was called or not
\* and whatever the minute goroutine was doing.
ShutdownTerminates == (shutdown = "waiting") ~> (shutdown = "returned")
=============================================================================
