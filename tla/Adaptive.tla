------------------------------- MODULE Adaptive -------------------------------
(***************************************************************************)
(* The adaptive branch of the backsampling processor: ConsumeTraces with   *)
(* internal/adaptive/adaptive.go (AdaptiveSampler) in front and            *)
(* internal/cache/trace_cache.go (OtelTraceSampler) behind.                *)
(*                                                                         *)
(* A batch is split by trace id; each part, a group, is kept for the tail  *)
(* based decision when the low bits of its trace id say so, is sent at     *)
(* once when it is slow, belongs to a trace known to be slow or to a url   *)
(* that is seldom seen, and is dropped otherwise.  Groups kept wait in a   *)
(* SpanCache until their trace is in sampledIds.  Consumers, the second    *)
(* ticker (cleanOtelTraceOnTick), the sampling ticker and the sample value *)
(* ticker meet in sync.Maps and atomics; none of them takes a lock.        *)
(*                                                                         *)
(* One service: the keys "service-trace" and "service-url" are the trace   *)
(* and the url; of other services only the counters they add to            *)
(* serviceUrlCount matter.  Whether the samplers profile an entry span is  *)
(* an input.                                                               *)
(***************************************************************************)
EXTENDS Integers, Sequences

CONSTANTS
  Key,          \* trace ids
  Data,         \* groups: the spans of one trace in one batch
  Size,         \* SampleWaitTime: seconds a group is cached
  TraceOf,      \* the trace id of a group
  Groups,       \* what a group can be: its spans, slow or not, and the url of an
                \* entry span
  Bits,         \* the two bytes of a trace id CheckAdaptiveSampleValue reads
  Url,          \* names of entry spans
  Values,       \* the answers of GetSampleValue
  HoldTime,     \* TraceIdHoldTime, in seconds
  Window,       \* ServiceSampleWindow, in seconds
  WindowCount,  \* ServiceSampleCount
  UrlLimit,     \* 10000: urls are taken not to converge
  Counter,      \* the atomic.Int32 objects that count the groups of a url; there
                \* are more of them than consumers, urls and the tick can refer to
  NoUrl, NoCounter

ASSUME AdaptiveAssumption ==
  /\ Size \in Nat \ {0} /\ Window \in Nat /\ WindowCount \in Nat /\ UrlLimit \in Nat
  /\ HoldTime \in Nat \ {0, 1}
  /\ TraceOf \in [Data -> Key]
  /\ Bits \in [Key -> 0 .. 2 ^ 16 - 1]
  /\ NoUrl \notin Url /\ NoCounter \notin Counter
  /\ Groups \subseteq Seq([slow : BOOLEAN, url : Url \cup {NoUrl}])

VARIABLES
  writeCache, batch, cache, buckets, readIndex, writeIndex, picked, phase,
  sampleValue,      \* AdaptiveSampler.sampleValue
  singleIds,        \* age of the singleIds; Absent when there is none
  serviceTps,       \* the counter of a url, or NoCounter
  tps,              \* what a counter stands at
  held,             \* the counter a consumer has in hand
  ranged,           \* the counters Reset's Range has read
  serviceUrlCount,  \* counters ever made, saturated at UrlLimit
  currentWindow,
  sampledIds,       \* age of the OtelTraceSampler's sampledIds, or Absent
  pc, result,       \* where the consumer of a group is, and what Sample returned
  spans, left,      \* the spans of a group, and those Sample has not looked at
  step, doomed,     \* where the ticker is, and the ids it is about to delete
  sent,             \* the groups given to the next consumer
  admitted, raced,  \* observers: groups let through per url and window; urls
                    \* that lost a counter in this window, or lost one before
                    \* that a consumer still had in hand when it began
  slowAge, wasSlow, \* observers: seconds since the trace was found slow; the
                    \* groups that came while it was remembered
  owed, lingering   \* observers: groups whose id was sampled in time;
                    \* consumers still busy when the last tick ended

cacheVars == <<writeCache, batch, cache, buckets, readIndex, writeIndex, picked, phase>>
tpsVars == <<serviceTps, tps, held, serviceUrlCount, admitted, raced>>
singleVars == <<singleIds, slowAge>>
sampledVars == <<sampledIds, owed>>
groupVars == <<spans, left>>
consumerVars == <<pc, result, groupVars, wasSlow>>
tickVars == <<currentWindow, step, doomed, ranged, lingering>>
vars == <<cacheVars, tpsVars, singleVars, sampledVars, consumerVars, tickVars, sampleValue, sent>>

SC == INSTANCE SpanCache

Absent == -1

Span == [slow : BOOLEAN, url : Url \cup {NoUrl}]

\* Where a consumer is in Sample's loop over the spans.
Undecided == {"spans", "counter", "count", "add"}

SamplerTypeOK ==
  /\ sampleValue \in 0 .. 19
  /\ singleIds \in [Key -> Absent .. HoldTime]
  /\ serviceTps \in [Url -> Counter \cup {NoCounter}] /\ ranged \in [Url -> Counter \cup {NoCounter}]
  /\ held \in [Data -> Counter \cup {NoCounter}] /\ tps \in [Counter -> Nat]
  /\ serviceUrlCount \in 0 .. UrlLimit
  /\ currentWindow \in 0 .. Window
  /\ pc \in [Data -> {"new", "build", "forward", "done"} \cup Undecided]
  /\ result \in [Data -> {"none", "sampled", "slow", "low", "drop"}]
  /\ spans \in [Data -> Seq(Span)] /\ left \in [Data -> Seq(Span)]
  /\ step \in {"idle", "copy", "pick", "delete", "reset", "drop", "zero", "singles"}
  /\ doomed \in SUBSET Key
  /\ admitted \in [Url -> Nat] /\ raced \in SUBSET Url
  /\ slowAge \in [Key -> Absent .. HoldTime - 1] /\ wasSlow \in SUBSET Data
  /\ lingering \in SUBSET Data

TypeOK ==
  /\ SC!TypeOK
  /\ SamplerTypeOK
  /\ sampledIds \in [Key -> Absent .. HoldTime]
  /\ sent \in SUBSET Data /\ owed \in SUBSET Data

\* newTracesProcessor with adaptive.enable.
Init ==
  /\ SC!Init
  /\ sampleValue = 0
  /\ singleIds = [k \in Key |-> Absent]
  /\ sampledIds = [k \in Key |-> Absent]
  /\ serviceTps = [u \in Url |-> NoCounter] /\ ranged = [u \in Url |-> NoCounter]
  /\ held = [g \in Data |-> NoCounter] /\ tps = [c \in Counter |-> 0]
  /\ serviceUrlCount = 0
  /\ currentWindow = 0
  /\ pc = [g \in Data |-> "new"]
  /\ result = [g \in Data |-> "none"]
  /\ spans = [g \in Data |-> <<>>]
  /\ left = [g \in Data |-> <<>>]
  /\ step = "idle"
  /\ doomed = {}
  /\ sent = {}
  /\ admitted = [u \in Url |-> 0]
  /\ raced = {}
  /\ slowAge = [k \in Key |-> Absent]
  /\ wasSlow = {}
  /\ owed = {}
  /\ lingering = {}

-----------------------------------------------------------------------------
(***************************************************************************)
(* Consumers: AdaptiveSampler.Sample.                                      *)
(***************************************************************************)

\* The low sampleValue bits of the trace id are 0.
CheckAdaptiveSampleValue(trace) == Bits[trace] % 2 ^ sampleValue = 0

Decide(g, r) ==
  /\ result' = [result EXCEPT ![g] = r]
  /\ pc' = [pc EXCEPT ![g] = IF r = "drop" THEN "done" ELSE "build"]

\* The sample value, then the traces that are stored one by one.
Sample(g) ==
  /\ pc[g] = "new"
  /\ IF CheckAdaptiveSampleValue(TraceOf[g]) THEN Decide(g, "sampled")
     ELSE IF singleIds[TraceOf[g]] # Absent THEN Decide(g, "low")
     ELSE pc' = [pc EXCEPT ![g] = "spans"] /\ UNCHANGED result
  /\ \E group \in Groups : /\ spans' = [spans EXCEPT ![g] = group]
                           /\ left' = [left EXCEPT ![g] = group]
  /\ wasSlow' = IF slowAge[TraceOf[g]] # Absent THEN wasSlow \cup {g} ELSE wasSlow
  /\ UNCHANGED <<cacheVars, tpsVars, singleVars, sampledVars, tickVars, sampleValue, sent>>

\* One turn of Sample's loop over the spans: a slow span, an entry span whose
\* url has a counter or has none (serviceTps.Load), another span.
SampleSpan(g) ==
  /\ pc[g] = "spans" /\ left[g] # <<>>
  /\ LET span == Head(left[g])
         counted == ~span.slow /\ WindowCount > 0 /\ span.url # NoUrl
     IN
       \/ /\ span.slow
          /\ singleIds' = [singleIds EXCEPT ![TraceOf[g]] = 0]
          /\ slowAge' = [slowAge EXCEPT ![TraceOf[g]] = 0]
          /\ Decide(g, "slow")
          /\ UNCHANGED <<left, held>>
       \/ /\ ~span.slow /\ ~counted
          /\ left' = [left EXCEPT ![g] = Tail(@)]
          /\ UNCHANGED <<singleVars, pc, result, held>>
       \/ /\ counted /\ serviceTps[span.url] # NoCounter
          /\ held' = [held EXCEPT ![g] = serviceTps[span.url]]
          /\ pc' = [pc EXCEPT ![g] = "add"]
          /\ UNCHANGED <<singleVars, result, left>>
       \/ /\ counted /\ serviceTps[span.url] = NoCounter
          /\ pc' = [pc EXCEPT ![g] = "counter"]
          /\ UNCHANGED <<singleVars, result, left, held>>
  /\ UNCHANGED <<cacheVars, serviceTps, tps, serviceUrlCount, admitted, raced, sampledVars, spans, wasSlow,
                 tickVars, sampleValue, sent>>

\* The url CheckLowUrl is at.
UrlOf(g) == Head(left[g]).url

\* Objects nobody refers to.
Fresh ==
  Counter \ ({serviceTps[u] : u \in Url} \cup {held[g] : g \in Data} \cup {ranged[u] : u \in Url})

\* serviceTps.Store of a new counter, over one another consumer stored since.
StoreCounter(g) ==
  /\ pc[g] = "counter"
  /\ Fresh # {}
  /\ LET u == UrlOf(g)
         c == CHOOSE c \in Fresh : TRUE
     IN  /\ serviceTps' = [serviceTps EXCEPT ![u] = c]
         /\ tps' = [tps EXCEPT ![c] = 0]
         /\ held' = [held EXCEPT ![g] = c]
         /\ raced' = IF serviceTps[u] # NoCounter THEN raced \cup {u} ELSE raced
  /\ pc' = [pc EXCEPT ![g] = "count"]
  /\ UNCHANGED <<cacheVars, serviceUrlCount, admitted, singleVars, sampledVars, result, groupVars, wasSlow,
                 tickVars, sampleValue, sent>>

\* serviceUrlCount.Add(1).
AddUrlCount(g) ==
  /\ pc[g] = "count"
  /\ serviceUrlCount' = IF serviceUrlCount < UrlLimit THEN serviceUrlCount + 1 ELSE UrlLimit
  /\ pc' = [pc EXCEPT ![g] = "add"]
  /\ UNCHANGED <<cacheVars, serviceTps, tps, held, admitted, raced, singleVars, sampledVars, result, groupVars,
                 wasSlow, tickVars, sampleValue, sent>>

\* A slip to be noticed: one group too many.
CountUrlLoose(n) == n <= WindowCount + 1

\* tps.Add(1) <= serviceWindowCount.
CountUrl(n) == n <= WindowCount

\* tps.Add(1), on a counter that may not be in serviceTps any more.  A group
\* that is let through stores its url, not its trace, in singleIds; nothing
\* ever looks a url up there, so these entries are left out.
AddTps(g) ==
  /\ pc[g] = "add"
  /\ tps' = [tps EXCEPT ![held[g]] = @ + 1]
  /\ held' = [held EXCEPT ![g] = NoCounter]
  /\ IF CountUrl(tps[held[g]] + 1)
     THEN /\ admitted' = [admitted EXCEPT ![UrlOf(g)] = @ + 1]
          /\ Decide(g, "low")
          /\ UNCHANGED left
     ELSE /\ left' = [left EXCEPT ![g] = Tail(@)]
          /\ pc' = [pc EXCEPT ![g] = "spans"]
          /\ UNCHANGED <<admitted, result>>
  /\ UNCHANGED <<cacheVars, serviceTps, serviceUrlCount, raced, singleVars, sampledVars, spans, wasSlow,
                 tickVars, sampleValue, sent>>

\* No span was slow or seldom: SampleDrop.
Drop(g) ==
  /\ pc[g] = "spans" /\ left[g] = <<>>
  /\ Decide(g, "drop")
  /\ UNCHANGED <<cacheVars, tpsVars, singleVars, sampledVars, groupVars, wasSlow, tickVars, sampleValue, sent>>

-----------------------------------------------------------------------------
(***************************************************************************)
(* Consumers: the rest of ConsumeTraces.                                   *)
(***************************************************************************)

Waiting(g) == g \in writeCache[TraceOf[g]] \cup batch[TraceOf[g]] \cup cache[TraceOf[g]].datas

\* The running tick has picked its traces and is going to drop the group.
LeavingNow(g) ==
  /\ step = "delete"
  /\ g \in cache[TraceOf[g]].datas
  /\ cache[TraceOf[g]].index = readIndex

\* SetSampledTraceId.  The groups of the trace that wait, or are about to, are
\* to be sent; unless the ticker is just deleting the id under its key.
SetSampledTraceId(id) ==
  /\ sampledIds' = [sampledIds EXCEPT ![id] = 0]
  /\ owed' = IF id \in doomed THEN owed
             ELSE owed \cup {g \in Data : /\ TraceOf[g] = id
                                          /\ \/ Waiting(g) /\ ~LeavingNow(g)
                                             \/ pc[g] \in {"build", "forward"} /\ result[g] = "sampled"}

HasEntry(g) == \E i \in 1 .. Len(spans[g]) : spans[g][i].url # NoUrl

\* buildSpanTrace of the spans of the group: when one of them is profiled,
\* its trace id is sampled before the group is cached.
BuildSpanTrace(g) ==
  /\ pc[g] = "build"
  /\ \/ HasEntry(g) /\ SetSampledTraceId(TraceOf[g])
     \/ UNCHANGED sampledVars
  /\ pc' = [pc EXCEPT ![g] = "forward"]
  /\ UNCHANGED <<cacheVars, tpsVars, singleVars, result, groupVars, wasSlow, tickVars, sampleValue, sent>>

\* IsSingleStore: the group goes on at once.
ForwardSingle(g) ==
  /\ pc[g] = "forward" /\ result[g] \in {"slow", "low"}
  /\ sent' = sent \cup {g}
  /\ pc' = [pc EXCEPT ![g] = "done"]
  /\ UNCHANGED <<cacheVars, tpsVars, singleVars, sampledVars, result, groupVars, wasSlow, tickVars, sampleValue>>

\* A slip to be noticed: a group of a sampled trace does not wait to be picked.
CacheUnsampled(g) ==
  IF sampledIds[TraceOf[g]] = Absent THEN SC!Write(TraceOf[g], g) ELSE UNCHANGED cacheVars

\* OtelTraceSampler.Cache.
Cache(g) == SC!Write(TraceOf[g], g)

\* The group waits for its trace to be sampled.  Its id is held long enough when
\* a whole tick is still to come.
CacheGroup(g) ==
  /\ pc[g] = "forward" /\ result[g] = "sampled"
  /\ Cache(g)
  /\ pc' = [pc EXCEPT ![g] = "done"]
  /\ owed' = IF /\ sampledIds[TraceOf[g]] # Absent
                /\ TraceOf[g] \notin doomed
                /\ step = "idle" \/ sampledIds[TraceOf[g]] + 1 < HoldTime
             THEN owed \cup {g} ELSE owed
  /\ UNCHANGED <<tpsVars, singleVars, sampledIds, result, groupVars, wasSlow, tickVars, sampleValue, sent>>

Consume(g) ==
  \/ Sample(g) \/ SampleSpan(g) \/ StoreCounter(g) \/ AddUrlCount(g) \/ AddTps(g) \/ Drop(g)
  \/ BuildSpanTrace(g) \/ ForwardSingle(g) \/ CacheGroup(g)

\* Consumers have made the counters of urls of other services, so many that the
\* limit is reached; as long as it is not, they change nothing.
OtherService ==
  /\ serviceUrlCount < UrlLimit
  /\ serviceUrlCount' = UrlLimit
  /\ UNCHANGED <<cacheVars, serviceTps, tps, held, admitted, raced, singleVars, sampledVars, consumerVars, tickVars,
                 sampleValue, sent>>

\* samplingOnTick: an id of the controller's answer.
SamplingOnTick(id) ==
  /\ SetSampledTraceId(id)
  /\ UNCHANGED <<cacheVars, tpsVars, singleVars, consumerVars, tickVars, sampleValue, sent>>

\* querySampleValueOnTick: only values in range are taken.
QuerySampleValueOnTick(value) ==
  /\ value \in 0 .. 19 /\ value # sampleValue
  /\ sampleValue' = value
  /\ UNCHANGED <<cacheVars, tpsVars, singleVars, sampledVars, consumerVars, tickVars, sent>>

-----------------------------------------------------------------------------
(***************************************************************************)
(* The second ticker: cleanOtelTraceOnTick.                                *)
(***************************************************************************)

\* Scheduling assumption: no consumer is still at the same group after the
\* pause, about a second, between two ticks.
Busy == {g \in Data : pc[g] \notin {"new", "done"}}

\* PickSampledTraces: GetAndReset ...
TakeGroups ==
  /\ step = "idle"
  /\ lingering \cap Busy = {}
  /\ SC!GetAndReset
  /\ step' = "copy"
  /\ UNCHANGED <<tpsVars, singleVars, sampledVars, consumerVars, currentWindow, doomed, ranged, lingering, sampleValue, sent>>

\* ... and Copy.
CopyGroups ==
  /\ step = "copy"
  /\ SC!Copy
  /\ step' = "pick"
  /\ UNCHANGED <<tpsVars, singleVars, sampledVars, consumerVars, currentWindow, doomed, ranged, lingering, sampleValue, sent>>

\* A slip to be noticed: the age is compared before it is raised to the limit.
OlderEarly(age) == IF age = Absent THEN Absent ELSE age + 2

\* holdTime.Add(1).
Older(age) == IF age = Absent THEN Absent ELSE age + 1

\* The range over sampledIds: the groups of every id are picked, then the ids
\* age, and those that reach the limit are going to be deleted.
PickSampled ==
  /\ step = "pick"
  /\ SC!PickMatchDatas({k \in Key : sampledIds[k] # Absent})
  /\ sent' = sent \cup picked'
  /\ sampledIds' = [k \in Key |-> Older(sampledIds[k])]
  /\ doomed' = {k \in Key : sampledIds'[k] >= HoldTime}
  /\ step' = "delete"
  /\ UNCHANGED <<tpsVars, singleVars, owed, consumerVars, currentWindow, ranged, lingering, sampleValue>>

\* sampledIds.Delete of whatever the keys have by now, and CleanExpireDatas.
DeleteSampled ==
  /\ step = "delete"
  /\ sampledIds' = [k \in Key |-> IF k \in doomed THEN Absent ELSE sampledIds[k]]
  /\ doomed' = {}
  /\ SC!CleanExpireDatas
  /\ step' = "reset"
  /\ UNCHANGED <<tpsVars, singleVars, owed, consumerVars, currentWindow, ranged, lingering, sampleValue, sent>>

\* The range over singleIds: they age, and those that reach the limit are going
\* to be deleted.
AgeSingles ==
  /\ singleIds' = [k \in Key |-> Older(singleIds[k])]
  /\ doomed' = {k \in Key : singleIds'[k] >= HoldTime}
  /\ slowAge' = [k \in Key |-> IF slowAge[k] \in {Absent, HoldTime - 1} THEN Absent ELSE slowAge[k] + 1]
  /\ step' = "singles"

\* AdaptiveSampler.Reset.  At the end of a window a Range reads the counters,
\* to delete them when there are too many and to set them to 0 otherwise.
Reset ==
  /\ step = "reset"
  /\ \/ /\ currentWindow + 1 >= Window
        /\ currentWindow' = 0
        /\ ranged' = serviceTps
        /\ step' = IF serviceUrlCount >= UrlLimit THEN "drop" ELSE "zero"
        /\ UNCHANGED <<singleVars, doomed>>
     \/ /\ currentWindow + 1 < Window
        /\ currentWindow' = currentWindow + 1
        /\ AgeSingles
        /\ UNCHANGED ranged
  /\ UNCHANGED <<cacheVars, tpsVars, sampledVars, consumerVars, lingering, sampleValue, sent>>

\* serviceTps.Delete of whatever the keys have by now, or Store(0) in the
\* counters that were read; the new window begins.
ResetCounters ==
  /\ step \in {"drop", "zero"}
  /\ serviceTps' = [u \in Url |-> IF step = "drop" /\ ranged[u] # NoCounter THEN NoCounter ELSE serviceTps[u]]
  /\ tps' = [c \in Counter |-> IF step = "zero" /\ \E u \in Url : c = ranged[u] THEN 0 ELSE tps[c]]
  /\ ranged' = [u \in Url |-> NoCounter]
  /\ admitted' = [u \in Url |-> 0]
  /\ raced' = {u \in Url : \E g \in Data : held[g] # NoCounter /\ UrlOf(g) = u /\ held[g] # serviceTps'[u]}
  /\ AgeSingles
  /\ UNCHANGED <<cacheVars, held, serviceUrlCount, sampledVars, consumerVars, currentWindow, lingering,
                 sampleValue, sent>>

\* singleIds.Delete of whatever the keys have by now.
DeleteSingles ==
  /\ step = "singles"
  /\ singleIds' = [k \in Key |-> IF k \in doomed THEN Absent ELSE singleIds[k]]
  /\ doomed' = {}
  /\ step' = "idle"
  /\ lingering' = Busy
  /\ UNCHANGED <<cacheVars, tpsVars, slowAge, sampledVars, consumerVars, currentWindow, ranged, sampleValue, sent>>

CleanOtelTraceOnTick ==
  TakeGroups \/ CopyGroups \/ PickSampled \/ DeleteSampled \/ Reset \/ ResetCounters \/ DeleteSingles

Next ==
  \/ (\E g \in Data : Consume(g)) \/ OtherService
  \/ \E id \in Key : SamplingOnTick(id)
  \/ \E value \in Values : QuerySampleValueOnTick(value)
  \/ CleanOtelTraceOnTick

Spec == Init /\ [][Next]_vars

\* The ticker runs and a consumer that has started finishes its group.
FairSpec ==
  /\ Spec
  /\ WF_vars(CleanOtelTraceOnTick)
  /\ \A g \in Data : WF_vars(pc[g] # "new" /\ Consume(g))

-----------------------------------------------------------------------------
(***************************************************************************)
(* Properties.                                                             *)
(***************************************************************************)

\* service_sample_count: in one window a url lets at most that many groups
\* through, wherever Reset comes between the Load, the Store and the Add of its
\* consumers.  Except when a counter gets lost: two consumers made one at the
\* same time, or Reset deleted one a consumer had in hand, which counts on
\* beside its successor.
LowUrlBounded == \A u \in Url \ raced : admitted[u] <= WindowCount

\* traceid_holdtime: once a trace was found slow, no part of it that comes in
\* the next HoldTime seconds is dropped, whatever the sample value does.
SlowTracesKept == \A g \in wasSlow : result[g] # "drop"

\* A group whose trace is sampled while it waits, or was sampled shortly
\* before it was cached, reaches the next consumer: the pick of a tick comes
\* before the id is deleted, and the id outlives the tick it is stored in.
\* What is owed stays owed, so it is enough that again and again all of it has
\* been sent.
SampledGroupsSent == []<>(owed \subseteq sent)

-----------------------------------------------------------------------------
(***************************************************************************)
(* The inductive invariant behind the safety properties.                   *)
(***************************************************************************)

\* A consumer that counts is at an entry span and has the counter in hand.
CountersHeld ==
  \A g \in Data :
    /\ pc[g] \in {"counter", "count", "add"} => left[g] # <<>> /\ UrlOf(g) \in Url
    /\ held[g] # NoCounter <=> pc[g] \in {"count", "add"}

\* While a url loses no counter, everyone counts in the one it has, which counts
\* at least the groups let through.
CountersCount ==
  /\ \A g \in Data : held[g] # NoCounter /\ UrlOf(g) \notin raced => held[g] = serviceTps[UrlOf(g)]
  /\ \A u \in Url \ raced :
       /\ admitted[u] <= WindowCount
       /\ admitted[u] <= IF serviceTps[u] = NoCounter THEN 0 ELSE tps[serviceTps[u]]

\* singleIds knows the slow traces, and those it is about to forget.
SlowRemembered ==
  \A k \in Key : IF step = "singles" /\ k \in doomed
                 THEN singleIds[k] # Absent /\ slowAge[k] = Absent
                 ELSE slowAge[k] = singleIds[k]

\* A consumer that found its trace unknown is at work for less than two ticks,
\* so that a trace it finds slow is not one that is about to be forgotten.
UndecidedYoung ==
  \A g \in Data : pc[g] \in Undecided =>
    /\ singleIds[TraceOf[g]] <= IF step = "singles" \/ g \in lingering THEN 1 ELSE 0
    /\ ~(step = "singles" /\ TraceOf[g] \in doomed)

LingeringBusy ==
  /\ \A g \in lingering : pc[g] # "new"
  /\ step # "idle" => lingering \cap Busy = {}

SlowDecided ==
  \A g \in wasSlow : result[g] \in {"sampled", "low"} /\ pc[g] \in {"build", "forward", "done"}

AdaptiveInv ==
  /\ SamplerTypeOK /\ CountersHeld /\ CountersCount
  /\ SlowRemembered /\ UndecidedYoung /\ LingeringBusy /\ SlowDecided
=============================================================================
