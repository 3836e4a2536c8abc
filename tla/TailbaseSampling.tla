--------------------------- MODULE TailbaseSampling ---------------------------
(***************************************************************************)
(* Tail-based sampling of the backsampling processor: which spans end up   *)
(* stored.  Three parties work on the same data without a common lock:     *)
(*                                                                         *)
(*  - consumer goroutines, one per span here: TailbaseSamplers.Sample      *)
(*    looks the trace id up in three sync.Maps of sampled ids, one after   *)
(*    the other, and buildSpanTrace stores or caches the span accordingly; *)
(*    a span that is itself sampled registers its trace id;                *)
(*  - the clean ticker (cleanCacheOnTick): it takes the cached spans, ages *)
(*    and collects the sampled ids, then picks the spans of these ids out  *)
(*    of the cache and stores them;                                        *)
(*  - the sampling ticker, which stores the ids the controller returned.   *)
(*                                                                         *)
(* The caches are those of SpanCache.  Whether a span is slow, an error or *)
(* a normal sample (CheckSlow, Silent, NoramlSampler) is an input here.    *)
(***************************************************************************)
EXTENDS Naturals, Sequences

CONSTANTS
  Key,       \* trace ids
  Data,      \* spans
  Size,      \* SampleWaitTime: size of tailbaseCache and traceHoldTime alike
  TraceOf    \* the trace id of every span

ASSUME TraceAssumption ==
  /\ Size \in Nat \ {0, 1}
  /\ TraceOf \in [Data -> Key]

VARIABLES
  writeCache, batch, cache, buckets, readIndex, writeIndex, picked, phase,
  pc,        \* where the consumer of a span is
  todo,      \* the samplers a sampled span still has to notify
  held,      \* the keys of sampledTraceIds, per sampler
  count,     \* traceIdHoldTime.count of these keys
  scan,      \* the sampler cleanSampledIds ranges over, or where the tick is
  must,      \* the keys that Range has to reach still
  visited,   \* the keys that Range has reached
  doomed,    \* the key Range found expired and is about to delete
  ids,       \* what cleanSampledIds returned, per sampler
  toStore,   \* errorTraces, slowTraces and normalTraces of the tick
  stored,    \* how often a span was handed to storeTrace
  expired,   \* observer: the spans CleanExpireDatas dropped
  owed,      \* observer: the spans whose id was sampled while they waited
  lingering  \* observer: the consumers in their window when the last tick ended

cacheVars == <<writeCache, batch, cache, buckets, readIndex, writeIndex, picked, phase>>
consumerVars == <<pc, todo>>
idVars == <<held, count>>
tickVars == <<scan, must, visited, doomed, ids, toStore>>
observers == <<expired, owed, lingering>>
vars == <<cacheVars, consumerVars, idVars, tickVars, stored, observers>>

SC == INSTANCE SpanCache

Kind == {"error", "slow", "normal"}

\* The sampler that is asked after kind; after the last one, what follows.
After(kind) ==
  CASE kind = "error" -> "slow" [] kind = "slow" -> "normal" [] OTHER -> "end"

\* The samplers TailbaseSamplers.Sample notifies for a sampled span: slow and
\* error, slow, error, or normal; none for a span that is not sampled.
Notified == {<<"slow", "error">>, <<"slow">>, <<"error">>, <<"normal">>}

\* The consumer has looked its id up in kind and not found it, and its span
\* is not in the cache yet.
Missed(s, kind) ==
  \/ pc[s] = "cache"
  \/ pc[s] = "slow" /\ kind = "error"
  \/ pc[s] = "normal" /\ kind \in {"error", "slow"}

InWindow(s) == \E kind \in Kind : Missed(s, kind)

Waiting(s) == s \in writeCache[TraceOf[s]] \cup batch[TraceOf[s]] \cup cache[TraceOf[s]].datas

\* The running tick is going to drop the span, whatever is sampled now.
LeavingNow(s) ==
  /\ phase # "idle"
  /\ s \in cache[TraceOf[s]].datas
  /\ cache[TraceOf[s]].index = readIndex
  /\ batch[TraceOf[s]] = {}

TypeOK ==
  /\ SC!TypeOK
  /\ pc \in [Data -> {"new", "notify", "register", "cache", "cached", "done"} \cup Kind]
  /\ todo \in [Data -> Notified \cup {<<>>}]
  /\ held \in [Kind -> SUBSET Key]
  /\ count \in [Kind -> [Key -> 0 .. Size]]
  /\ scan \in Kind \cup {"idle", "end"}
  /\ must \in SUBSET Key
  /\ visited \in SUBSET Key
  /\ doomed \in SUBSET Key
  /\ ids \in [Kind -> SUBSET Key]
  /\ toStore \in SUBSET Data
  /\ stored \in [Data -> 0 .. 2]
  /\ expired \in SUBSET Data
  /\ owed \in SUBSET Data
  /\ lingering \in SUBSET Data

Init ==
  /\ SC!Init
  /\ pc = [s \in Data |-> "new"]
  /\ todo = [s \in Data |-> <<>>]
  /\ held = [kind \in Kind |-> {}]
  /\ count = [kind \in Kind |-> [k \in Key |-> 0]]
  /\ scan = "idle"
  /\ must = {}
  /\ visited = {}
  /\ doomed = {}
  /\ ids = [kind \in Kind |-> {}]
  /\ toStore = {}
  /\ stored = [s \in Data |-> 0]
  /\ expired = {}
  /\ owed = {}
  /\ lingering = {}

-----------------------------------------------------------------------------
(***************************************************************************)
(* sampledTraceIds.Store(id, &traceIdHoldTime{count: 0}), by a consumer or *)
(* by the sampling ticker.  From here on the spans of the trace that wait  *)
(* in the caches, or missed the id a moment ago, are owed to the user.     *)
(***************************************************************************)
StoreId(kind, id) ==
  /\ held' = [held EXCEPT ![kind] = @ \cup {id}]
  /\ count' = [count EXCEPT ![kind][id] = 0]
  /\ owed' = owed \cup {s \in Data : /\ TraceOf[s] = id
                                     /\ Missed(s, kind) \/ Waiting(s)
                                     /\ ~LeavingNow(s)}
  /\ UNCHANGED <<expired, lingering>>

\* storeTrace.
StoreTrace(spans) ==
  stored' = [s \in Data |-> IF s \in spans THEN stored[s] + 1 ELSE stored[s]]

-----------------------------------------------------------------------------
(***************************************************************************)
(* Consumers: buildSpanTrace with TailbaseSamplers.Sample.                 *)
(***************************************************************************)

\* A span arrives; GetSampleResult has found out whether it is sampled.
Arrive(s) ==
  /\ pc[s] = "new"
  /\ \/ /\ pc' = [pc EXCEPT ![s] = "error"]
        /\ UNCHANGED todo
     \/ /\ pc' = [pc EXCEPT ![s] = "notify"]
        /\ \E kinds \in Notified : todo' = [todo EXCEPT ![s] = kinds]
  /\ UNCHANGED <<cacheVars, idVars, tickVars, stored, observers>>

\* isTailBaseSampled of one sampler.  A hit stores the span; a miss goes on
\* to the next sampler and after the last one to CacheTrace.
Load(s, kind) ==
  /\ pc[s] = kind
  /\ IF TraceOf[s] \in held[kind]
     THEN /\ StoreTrace({s})
          /\ pc' = [pc EXCEPT ![s] = "done"]
     ELSE /\ pc' = [pc EXCEPT ![s] = IF kind = "normal" THEN "cache" ELSE After(kind)]
          /\ UNCHANGED stored
  /\ UNCHANGED <<cacheVars, todo, idVars, tickVars, observers>>

\* SampleCache.CacheTrace.
CacheTrace(s) ==
  /\ pc[s] = "cache"
  /\ SC!Write(TraceOf[s], s)
  /\ pc' = [pc EXCEPT ![s] = "cached"]
  /\ UNCHANGED <<todo, idVars, tickVars, stored, observers>>

\* notifyTailbase, its Load: the id is known already, or is to be registered.
NotifyLoad(s) ==
  /\ pc[s] = "notify"
  /\ todo[s] # <<>>
  /\ IF TraceOf[s] \in held[Head(todo[s])]
     THEN /\ todo' = [todo EXCEPT ![s] = Tail(@)]
          /\ UNCHANGED pc
     ELSE /\ pc' = [pc EXCEPT ![s] = "register"]
          /\ UNCHANGED todo
  /\ UNCHANGED <<cacheVars, idVars, tickVars, stored, observers>>

\* notifyTailbase, its Store.
NotifyStore(s) ==
  /\ pc[s] = "register"
  /\ StoreId(Head(todo[s]), TraceOf[s])
  /\ todo' = [todo EXCEPT ![s] = Tail(@)]
  /\ pc' = [pc EXCEPT ![s] = "notify"]
  /\ UNCHANGED <<cacheVars, tickVars, stored>>

\* The sampled span itself is stored once its samplers are notified.
StoreSampled(s) ==
  /\ pc[s] = "notify"
  /\ todo[s] = <<>>
  /\ StoreTrace({s})
  /\ pc' = [pc EXCEPT ![s] = "done"]
  /\ UNCHANGED <<cacheVars, todo, idVars, tickVars, observers>>

Consume(s) ==
  \/ Arrive(s)
  \/ \E kind \in Kind : Load(s, kind)
  \/ CacheTrace(s)
  \/ NotifyLoad(s)
  \/ NotifyStore(s)
  \/ StoreSampled(s)

-----------------------------------------------------------------------------
\* updateSampledTraceIds for one id of the controller's answer.
UpdateSampledTraceId(kind, id) ==
  /\ StoreId(kind, id)
  /\ UNCHANGED <<cacheVars, consumerVars, tickVars, stored>>

-----------------------------------------------------------------------------
(***************************************************************************)
(* The clean ticker: cleanCacheOnTick.                                     *)
(***************************************************************************)

\* Scheduling assumption: no consumer stays between its lookups and its write
\* for the whole pause, about a second, between two ticks.
PromptConsumers == \A s \in lingering : ~InWindow(s)

\* A range over the sampled ids of kind begins: it has to reach every key
\* that is there now.
BeginRange(kind) ==
  /\ scan' = kind
  /\ must' = IF kind = "end" THEN {} ELSE held[kind]
  /\ visited' = {}

\* GetAndCleanTailbaseTraces takes the trace cache before it looks at the ids.
TakeTraceCache ==
  /\ scan = "idle"
  /\ PromptConsumers
  /\ SC!GetAndReset
  /\ BeginRange("error")
  /\ ids' = [kind \in Kind |-> {}]
  /\ UNCHANGED <<consumerVars, idVars, doomed, toStore, stored, expired, owed, lingering>>

\* A slip to be noticed: checkSampled returns an id for one tick only.
CheckSampledOnce(n) == n <= 1

\* checkSampled returns an id for the first two ticks.
CheckSampled(n) == n <= 2

\* isExpired.
IsExpired(n) == n >= Size

\* cleanSampledIds reaches one id: expired ones are going to be deleted, the
\* others get older.  sync.Map.Range may or may not reach a key stored since.
Visit(id) ==
  /\ scan \in Kind
  /\ doomed = {}
  /\ id \in held[scan] \ visited
  /\ visited' = visited \cup {id}
  /\ must' = must \ {id}
  /\ IF IsExpired(count[scan][id])
     THEN /\ doomed' = {id}
          /\ UNCHANGED <<count, ids>>
     ELSE /\ count' = [count EXCEPT ![scan][id] = @ + 1]
          /\ ids' = [ids EXCEPT ![scan] =
                       IF CheckSampled(count[scan][id] + 1) THEN @ \cup {id} ELSE @]
          /\ UNCHANGED doomed
  /\ UNCHANGED <<cacheVars, consumerVars, held, scan, toStore, stored, observers>>

\* sampledTraceIds.Delete(k): whatever is stored under the key by now.
DeleteExpired ==
  /\ doomed # {}
  /\ held' = [held EXCEPT ![scan] = @ \ doomed]
  /\ count' = [count EXCEPT ![scan] = [k \in Key |-> IF k \in doomed THEN 0 ELSE @[k]]]
  /\ doomed' = {}
  /\ UNCHANGED <<cacheVars, consumerVars, scan, must, visited, ids, toStore, stored, observers>>

\* The range is over; the next sampler is cleaned.
EndRange ==
  /\ scan \in Kind
  /\ must = {}
  /\ doomed = {}
  /\ BeginRange(After(scan))
  /\ UNCHANGED <<cacheVars, consumerVars, idVars, doomed, ids, toStore, stored,
                 expired, owed, lingering>>

\* tailbaseCache.Copy.
CopyTraces ==
  /\ scan = "end"
  /\ SC!Copy
  /\ UNCHANGED <<consumerVars, idVars, tickVars, stored, observers>>

\* The three PickMatchDatas: a trace that is in several lists is picked for
\* the first one, in the order error, slow, normal.
PickTraces(kind) ==
  /\ scan = "end"
  /\ ids[kind] # {}
  /\ \A other \in Kind : ids[other] # {} =>
       other = kind \/ kind = "error" \/ (kind = "slow" /\ other = "normal")
  /\ SC!PickMatchDatas(ids[kind])
  /\ toStore' = toStore \cup picked'
  /\ ids' = [ids EXCEPT ![kind] = {}]
  /\ UNCHANGED <<consumerVars, idVars, scan, must, visited, doomed, stored, observers>>

\* CleanExpireDatas, then storeTrace for everything that was picked.
CleanAndStore ==
  /\ scan = "end"
  /\ \A kind \in Kind : ids[kind] = {}
  /\ SC!CleanExpireDatas
  /\ expired' = expired \cup UNION {cache[k].datas : k \in SC!Expiring}
  /\ StoreTrace(toStore)
  /\ toStore' = {}
  /\ scan' = "idle"
  /\ lingering' = {s \in Data : InWindow(s)}
  /\ UNCHANGED <<consumerVars, idVars, must, visited, doomed, ids, owed>>

CleanTick ==
  \/ TakeTraceCache
  \/ \E id \in Key : Visit(id)
  \/ DeleteExpired
  \/ EndRange
  \/ CopyTraces
  \/ \E kind \in Kind : PickTraces(kind)
  \/ CleanAndStore

Next ==
  \/ \E s \in Data : Consume(s)
  \/ \E kind \in Kind, id \in Key : UpdateSampledTraceId(kind, id)
  \/ CleanTick

Spec == Init /\ [][Next]_vars

-----------------------------------------------------------------------------
(***************************************************************************)
(* Properties.                                                             *)
(***************************************************************************)

\* storeTrace gets a span at most once, whether it is stored by its consumer
\* or picked by a tick, for one sampler or for several.
StoredAtMostOnce == \A s \in Data : stored[s] <= 1

\* A span that was waiting when its trace id was sampled is never dropped by
\* CleanExpireDatas: the order GetAndReset, then cleanSampledIds, and the two
\* ticks of checkSampled leave no gap between the lookup of a consumer, its
\* write, and the range of the ticker.
OwedSpansSurvive == owed \cap expired = {}

\* No span disappears: a cached span is stored, waiting, or has expired.
NoSpanLost ==
  \A s \in Data : pc[s] = "cached" =>
    stored[s] = 1 \/ s \in toStore \/ Waiting(s) \/ s \in expired

-----------------------------------------------------------------------------
(***************************************************************************)
(* The inductive invariant behind the properties.                          *)
(***************************************************************************)

Located(s, k) == s \in writeCache[k] \cup batch[k] \cup cache[k].datas

\* A span is in one place: with its consumer, in one of the three maps under
\* its own trace id, among the spans picked for storing, or stored.
SpansPlaced ==
  /\ \A s \in Data, k \in Key : Located(s, k) => k = TraceOf[s] /\ pc[s] = "cached"
  /\ \A s \in toStore : pc[s] = "cached"
  /\ \A s \in expired : pc[s] = "cached"
  /\ \A s \in Data : pc[s] = "done" => stored[s] = 1
  /\ \A s \in Data : stored[s] # 0 => pc[s] \in {"cached", "done"}

\* The maps, toStore and what was stored or expired have no span in common.
SpansApart ==
  /\ \A k \in Key : /\ writeCache[k] \cap batch[k] = {}
                    /\ (writeCache[k] \cup batch[k]) \cap cache[k].datas = {}
  /\ \A s \in Data : Waiting(s) => s \notin toStore /\ s \notin expired /\ stored[s] = 0
  /\ \A s \in toStore : s \notin expired /\ stored[s] = 0
  /\ \A s \in expired : stored[s] = 0

\* scan and phase tell the same story, and a batch lives from GetAndReset to
\* Copy only.
TickOrder ==
  /\ scan = "idle" <=> phase = "idle"
  /\ scan \in Kind => phase = "reset"
  /\ phase # "reset" => batch = SC!NoDatas
  /\ scan = "idle" => \A kind \in Kind : ids[kind] = {}
  /\ \A s \in Data : pc[s] = "register" => todo[s] # <<>>

\* In the running tick the range over kind is behind id.
Over(kind) ==
  \/ scan = "end"
  \/ scan = "slow" /\ kind = "error"
  \/ scan = "normal" /\ kind \in {"error", "slow"}
Reached(kind, id) == Over(kind) \/ (scan = kind /\ id \in visited)

\* An id the running range need not reach was stored since it began.
RangeComplete ==
  scan \in Kind => \A id \in held[scan] : id \in must \cup visited \/ count[scan][id] = 0

\* While a span of its trace waits or has just missed it, an id is young: the
\* next range returns it, and never finds it expired.
IdsYoung ==
  \A s \in Data, kind \in Kind : TraceOf[s] \in held[kind] =>
    LET n == count[kind][TraceOf[s]]
        reached == Reached(kind, TraceOf[s])
    IN  /\ Missed(s, kind) \/ s \in writeCache[TraceOf[s]] =>
             n <= 1 /\ (scan # "idle" /\ ~reached => n = 0)
        /\ scan = "idle" /\ Missed(s, kind) /\ s \notin lingering => n = 0
        /\ s \in batch[TraceOf[s]] =>
             IF reached THEN TraceOf[s] \in ids[kind] \/ n = 0 ELSE n <= 1
        /\ s \in cache[TraceOf[s]].datas =>
             (reached /\ TraceOf[s] \in ids[kind]) \/ n = 0

\* The id about to be deleted is one no span counts on.
DoomedUnused ==
  \A id \in doomed :
    /\ scan \in Kind
    /\ id \in held[scan] \cap visited
    /\ \A s \in Data : TraceOf[s] = id => ~Missed(s, scan) /\ ~Waiting(s)

\* An owed span that is not stored yet has a sampled id to be picked by; when
\* the running tick is its last one, the range still reaches that id, or has.
OwedHaveIds ==
  \A s \in owed :
    /\ InWindow(s) \/ pc[s] \in {"cached", "done"}
    /\ InWindow(s) => \E kind \in Kind : Missed(s, kind) /\ TraceOf[s] \in held[kind]
    /\ Waiting(s) => \E kind \in Kind : TraceOf[s] \in held[kind]
    /\ LeavingNow(s) => \E kind \in Kind :
         /\ TraceOf[s] \in held[kind]
         /\ Over(kind) \/ (scan = kind /\ TraceOf[s] \notin must) => TraceOf[s] \in ids[kind]

TailInv ==
  /\ TypeOK
  /\ SC!RingOK
  /\ SpansPlaced
  /\ SpansApart
  /\ TickOrder
  /\ RangeComplete
  /\ IdsYoung
  /\ DoomedUnused
  /\ OwedHaveIds
  /\ StoredAtMostOnce
  /\ OwedSpansSurvive
  /\ NoSpanLost
=============================================================================
