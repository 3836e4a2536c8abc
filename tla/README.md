# Verification of apo-otel-collector

TLA+ models of the stateful parts of the APO OpenTelemetry collector, checked with
TLC on small instances, with theorems checked by TLAPS for every value of the
constants. Every module is written from the Go source; `PROJECT.json` gives, per
definition, the lines it stands for.

## The system

The collector receives traces and metrics, fills in which process they come from, and a
pipeline of processors and one connector decides which spans are stored, tells a receiver
(the APO controller) about sampled traces, and derives RED metrics from spans. `B` is
`src/pkg/processor/backsamplingprocessor`, `C` is `src/pkg/connector/redmetricsconnector`,
`R` is `src/pkg/receiver`.

| part | state | operations | interacts with |
| --- | --- | --- | --- |
| span cache, `B/internal/cache/cache.go` | a write batch under a mutex; a map of entries and a ring of buckets owned by one ticker | Write, GetAndReset, Copy, PickMatchData(s), CleanExpireDatas | consumers write, the clean tick does the rest |
| tail-based samplers, `B/internal/sampler/{tailbase_sampler,sampler,sample_cache}.go` | three tables (error, slow, normal) of sampled trace ids with ages | Sample, notifyTailbase, updateSampledTraceIds, cleanSampledIds | consumers, sample tick, clean tick |
| sample query, `tailbase_sampler.go` (unSendIds, RetryList), `processor.go` samplingOnTick | queue of ids to report, ring of per-call counts | cacheIds, markSent, markUnSent | consumers append, the sample tick sends |
| silent sampler, `B/internal/sampler/silent.go` | per url a remaining count and the time of the last admitted span | IsSilent, CheckAndResetSilent | consumers, clean tick |
| normal and single samplers, slow thresholds, `normal_sampler.go`, `single_sampler.go`, `sample_cache.go` | per url when it was last collected; thresholds | Sample, UpdateTime, Check, updateSlowThreshold | consumers, clean tick, threshold tick |
| otel trace sampler, `B/internal/cache/trace_cache.go` | a span cache and a table of sampled ids | Cache, SetSampledTraceId, PickSampledTraces | adaptive branch of ConsumeTraces, its own tick |
| adaptive sampler, `B/internal/adaptive` | sample value, counts per service and url, ids stored singly | Sample, Reset, SetSampleValue | consumers, two ticks |
| outgoing queues, `uds_notify.go`, `profile_api.go`, `sample_api.go` | slices of signals, profiles, traces under a mutex; registered clients | add, take over and send, register | consumers and ticks add, one tick each sends |
| tickers, `ticker_helper.go` | a stop channel | Start, OnTick, Stop | all ticks above |
| trace block processor, `src/pkg/processor/traceblockprocessor` | first seen, last seen and blocked per trace; statistics | ConsumeTraces, minute task, Start, Shutdown | consumers, minute goroutine |
| RED metrics connector, `C/connector.go`, `C/internal/cache/cache.go` | four histogram maps with LRU caches of dimensions | ConsumeTraces, exportMetrics, cleanUnMatcheOnTick, Start, Shutdown | consumers, two tickers |
| entry url cache, `C/internal/cache/{entry_url_mapping,bucket}.go` | entry span names and parents per trace, unmatched exit spans, ring of id batches | GetMatchedResourceSpans, CleanExpireBuckets, CleanUnMatchedSpans | consumers, clean tick |
| fill proc extension, `src/pkg/extension/fillprocextension` | peers to look up, known processes, matched sockets | GetMatchPidAndContainerId, the match tick, ScanProc, FindNetSocket | receivers ask, one ticker matches, /proc changes |
| otlp receiver, `R/otlpreceiver` | one object per configuration, two servers | create, Start, Shutdown, Export | the collector's host, agents, fill proc |
| skywalking receiver, `R/skywalkingreceiver` | the same; halves of Undertow requests, component tables | the same; Collect, handle, ProtoToTraces | the same |
| prometheus receiver, `R/prometheusremotewritereceiver` | a channel of metrics, a draining goroutine, counters | Start, Shutdown, Push, flush | senders, the next consumer |
| metadata processor, sql prune, attribute parsers, histograms | none, or a value per histogram | pure conversions | - |

What is hard: consumers are called concurrently and share state with tickers without a
common lock. A look up in a `sync.Map` and the action based on it, `time.Now()` and the
lock taken after it, the length of a queue and the slice cut off it, `Range` and
`Delete`, are separate steps. Rings of buckets wrap. Answers of the APO controller come late,
fail and are retried. `/proc` changes between two reads of it. A Start fails half way;
Shutdown waits for goroutines. `PROJECT.json` lists these as
hazards with their lines and the properties that cover them.

## Modules

Backsampling processor:

* **RetentionCache** - what a span cache promises: an entry is handed out on demand and
  otherwise leaves exactly `Size` ticks after its last write.
* **SpanCache** - `cache.go` as it is: the write batch, the merged entries with their
  bucket index, the ring with its read and write index. One action per method; a tick is
  GetAndReset, Copy, any number of picks, CleanExpireDatas, in the order of
  `cleanCacheOnTick` and `PickSampledTraces`. Copy, the picks and CleanExpireDatas run in one
  goroutine, so each is one step.
* **TailbaseSampling** - composes three tables of sampled ids with SpanCache (INSTANCE).
  Every span has its own consumer, which looks the id up in one table after the other
  and then stores the span or writes it to the cache; a sampled span registers its id.
  The clean tick ranges over the tables one record at a time, with the expiry check and
  the Delete as separate steps. Which kind of sample a span is (slow, error, normal, none)
  is an input here. A result without effect (`SampleResultNoOp`, spans dropped by the early
  returns of buildSpanTrace) changes no state and has no action.
* **SampleQuery** - one sampler's `unSendIds` and `RetryList` with `samplingOnTick`. The
  query is two steps, so ids are appended while it is under way. `retryNum` is chosen
  in the initial state. `observers` remember which ids were delivered, given up, and how
  many failed calls carried them.
* **Silent** - `silent.go` with overlapping calls of IsSilent: Load, Store of a fresh
  record, the unlocked read of leftCount and the decrement, which is a data race and may
  start from the value read before or from the current one. `silentTime` and
  `nextWindowTime` are kept as distances from the clock. `silent_count` 0 and
  `silent_period` 0 return at once and are not modelled.
* **NormalSampler** - how a span gets its kind: CheckSlow against the thresholds the APO
  controller sends, and the two normal samplers (`top`, once per window; `any`, after
  a quiet time), under SampleCache or SingleSampler. Load and Store of a consumer, and the range and deletes of
  the check, are separate steps. A slow or erroneous span goes on to Silent.
* **Adaptive** - the other branch of ConsumeTraces: AdaptiveSampler in front, OtelTraceSampler
  behind, which composes SpanCache with a table of sampled ids. Each group (the spans of one
  trace in one batch) has a consumer whose loads, stores and counter increments are steps;
  the ticks of Reset, of PickSampledTraces and of the sample value run between them. That a sampler
  profiles an entry span is an input. A url's counter is an object of its own (`Counter`): Load or Store puts one into a consumer's hand (`held`), Add counts in it, and Reset reads
  the counters before it deletes them or sets them to 0, so a consumer may count in one that is no longer in the map. Urls of other services matter only once they bring `serviceUrlCount` to its limit (`OtherService`). `memory_check.go` only reads the process's memory for the query.
* **OutgoingQueue** - the three take-over loops (signals, profiles, traces), each under a
  PolicyTicker with its select, its stop channel and its ticker; registration and health of
  clients. The length is read before the lock is taken, and a failed post is not repeated. Registration has no lock: a request looks its component up in `udsClients`, reads
  the slice and writes it back longer, each a step, so requests that overlap append a component twice or lose another's append. That the appends may share a backing array is not modelled: it
  lets one of two clients replace the other, which is a lost registration here too. A request that found its component may come again.

Other processors and the connector:

* **TraceBlock** - traceblockprocessor: consumers that read the clock, then take the lock;
  the minute task; Start and Shutdown. Times are ages, capped where no comparison
  can tell them apart. The log statistic `activeCount` is left out.
* **RedMetrics** - connector.go with internal/cache/cache.go: every span of every consumer is
  one step, as `p.lock` is taken per span; an export is the building of the metrics under the
  lock and the call of the next consumer after it. Four tables (server, db, external, mq)
  have a cache of dimensions each; a metric key carries its table, since keys of different
  tables have different labels. A histogram is its count. `Use` is Get followed by Add:
  it revives an evicted key or adds a new one, and some other key makes room. `simplelru`
  is outside the repository; its order is abstracted to "any key but those just used", which contains what
  it does. `Collected` says the same of the look ups an export makes itself. Spans come
  as records of what the parsers make of them; spans without effect (end before start, no pid) have no action.
* **EntryUrl** - entry_url_mapping.go and bucket.go: which exit spans are handed to RedMetrics,
  under which url and when. A consumer's batch is one step (it holds `cache.lock`);
  PickBatch has a lock of its own, but a tick that takes over half of a batch's trace ids does what it does
  when the batch comes in two parts. The tick is a step per access to shared state. `CleanUnMatchedSpans` reads
  the queue without the lock, so the model has the cells of the array the slices share: deleting from the
  middle shifts them, appending overwrites or moves them, and the tick's slice of expired spans sees it. A panic ends
  the process. Times are ages; an entry's url is the entry span itself.

Receivers and the extension:

* **FillProc** - the fillproc extension with the receivers' use of it. The world (processes that start, exec, exit, connect,
  close, and take over pids and addresses) is external and moves between any two reads of
  `/proc`; the ticker takes the peers, scans new processes, matches the sockets of the host and then
  of every container, and stores the result. `owned` remembers, per peer, who has held the connection since it was
  last asked for; a resource is filled as fillPidAndContainerId and ProtoToTraces do. An address is whose it is, its kind (`Form`: IPv4, ::1, another IPv6 one) and whether it is written in
  brackets: net/http and grpc write them, `Key` takes them off for ::1 only, SockAddr.String never writes them, and the two must be equal for the socket to be found. A peer is listed with
  the port its request names, which is the connection's own over gRPC and what the Host header says over HTTP, and the socket must go to that port. The peers have one server port. Load of
  CachedSockets and the listing are one step: a match stored in between lists a peer that is cached, and the tick matches it again. The extension is enabled and
  the collector runs in the host's network namespace.
* **SharedReceiver** - how the collector's host creates, starts and shuts down the otlp and the skywalking
  receiver of several pipelines through the shared component, with a failure at every step of Start (an unknown extension,
  a port in use, a server that cannot be built), goroutines of the servers, requests being served and their
  answers. Which protocols are configured and which pipelines use the receiver is chosen in the initial state.
* **SwConversion** - pure: what the skywalking receiver makes of a segment. Ids are folded as in the code, with the XOR
  of words as a parameter (TLC takes words of two bits); an id that is not hex gives what was decoded of it, unfolded; tags are members of small sets; the order of tags matters where the code lets a later one win.
* **SkywalkingTrace** - its calls: converting, filling the component tables without a lock (a concurrent use of a
  map ends the process), pairing the I/O and the task segment of an Undertow request in two maps, delivering.
* **PrometheusReceiver** - handlers that parse, put into a bounded channel and answer; the goroutine that drains it until
  the first error; Start (twice), and Shutdown. The parser's counters are read and written by several handlers. A series
  without `__name__` is an error; one whose `__name__` is empty is skipped and counted as one bad metric, and the request is accepted.

Proof modules: **SpanCacheProofs**, **TailbaseSamplingProofs**, **OutgoingProofs** (SampleQuery and OutgoingQueue),
**SamplerProofs** (Silent and NormalSampler), **AdaptiveProofs**, **TraceBlockProofs**, **ConnectorProofs** (RedMetrics and EntryUrl), **ReceiverProofs**
(FillProc, SharedReceiver, SkywalkingTrace and PrometheusReceiver), see below. The inductive invariant of a component stands at the end of its own module, so that TLC can check it too.

**MC...** modules instantiate these for TLC. MCSilent (Silent, NormalSampler), MCOutgoing
(SampleQuery, OutgoingQueue) and Receivers (SharedReceiver, SkywalkingTrace, PrometheusReceiver; MCReceivers gives it its values) put modules that share no
state into one run: `part`, chosen in the initial state, says which of them takes steps, and the variables
of the others stay as they are. That is the disjoint sum of their behaviours, not a composition.

Every module with state of its own gives its type invariant, `TypeOK` (`PromTypeOK` in PrometheusReceiver); it is proved where the
module has theorems.

Operators commented "A slip to be noticed" are plausible mistakes in the code next to the
definition they would replace. They are used by no specification: replacing the original
by the slip must make TLC report the property named for it in `PROJECT.json`.

## Runs

| run | instance | distinct states | shows |
| --- | --- | --- | --- |
| span_cache | 2 keys, 2 spans, a ring of 3 buckets | 22 839 | the ring implements RetentionCache: an entry is kept exactly Size ticks after its last write |
| tailbase | 1 trace, 2 spans, hold time 2 | 1 129 866 | a span is stored at most once; a span that was waiting, or between look up and write, when its trace was sampled is not expired; no span disappears |
| outgoing | 5 ids, retryNum 0, 1 and 3; 2 items, 2 components, 2 registration requests, three queues | 382 479 | no id is lost; exact retries and draining for at most one retry; nothing is posted twice unless it came while the length was read or to a component whose registrations overlapped, nothing is cut unsent, everything leaves |
| silent | 1 url, 2 consumers, silent_count 3, both modes; three normal samplers, wait 2 | 382 331 | the bound on admissions between resets, silence ends, normal samples are spaced |
| silent_wait_one | 1 url, 1 consumer, silent_count 1, wait mode | - | VIOLATION: silence never ends (finding) |
| adaptive | 1 trace, 2 groups, sample values 0, 3, 20, cached for 1, window 2, 4 counters, 2 urls at most | 945 342 | a url lets at most its count through per window unless a counter gets lost, a slow trace is kept, a group whose trace is sampled in time is sent on |
| trace_block | 2 consumers, 1 trace, thresholds 1/3/3, a stall of 1 | 125 952 | blocked only when long, forgotten only when idle, long traces dropped, quiet traces leave, Shutdown returns |
| red_metrics | 3 services, 3 call keys, caches of 1 key, limits 0, 2 spans per key | 57 192 | dimensions are found, evicted keys are reported before they are deleted, counts restart only after an eviction, every span is exported, Shutdown returns |
| red_metrics_external | the same | - | VIOLATION: external counts restart at every export (finding) |
| entry_url | 2 traces, 5 spans, both times 1 | 34 408 | every span is counted once or waits, none waits although its url is known, mappings are kept for their time, all exit spans are settled; except when a waiting span is matched while the tick reads the queue |
| fill_proc | 2 pids, 1 address, 1 container and the host, 3 kinds of address, 2 ports | 758 620 | a cached process had the connection, a resource that names a container gets a pid of it, an application over IPv4 or ::1 that keeps sending to the port it names is found |
| receivers | 2 pipelines, 1 request, 2 configurations; 4 segments, 2 calls; 3 writes, a channel of 1, 2 Starts | 322 638 | Shutdown releases everything after every partial Start; a segment is in one place and the halves of a request are paired unless they miss each other; parents resolve; samples and series that are dropped are counted, accepted requests consumed, all answered |

Bounds. In SpanCache two keys are enough for one to share, leave or outlive the other's
bucket, and a ring of three wraps several times. Traces do not interact in
TailbaseSampling except through the ring, which span_cache covers, so one trace with two
spans shows merging, double storing and look up races. Five ids let the count ring of three wrap
and be overwritten. Of two items one is in the tick and one comes during it; of two clients one fails. Two registration requests, of one component or of two, overlap, overtake each other or come one after the other. In Silent and NormalSampler urls are independent; three objects are all that two
callers and the map can refer to, so Store never lacks one. In Adaptive a trace id with an odd low bit is kept at sample value 0 and
not at the others; two groups exceed a window count of 1, and the hold time exceeds the caching time. Four counters are all that
two consumers, the map and Reset can refer to, so Store never lacks one; with a limit of two urls (10000 in the code) Reset takes both of its branches. In TraceBlock traces are
independent, and thresholds of 1 and 3 with a stall of 1 separate idle, long and late;
the theorems lift these bounds. In RedMetrics a cache of one key evicts at every
second service, two spans per key let an evicted key be counted again and revived before the export, and limits of 0
are exceeded by the second service. In EntryUrl one trace has a chain of three spans, which
come in any order, the other an exit span that is never matched; two spans wait at once, and the ring of two buckets wraps.
In FillProc two pids let a pid or an address pass to another process, on the host or in a container, between any two reads; every kind of address, and the right and the wrong port, come up. Two
configurations show that the second receiver can bind what the first released. The segments are the two halves of an Undertow request, and two that reach every kind
of tag and component; three writes fill the goroutine's hand, a channel of one and a handler that waits, and a second Start replaces the channel while it is full.

Scheduling assumptions, stated in the models: no consumer stays between its look ups and
its write for a whole tick of a second (`PromptConsumers` in TailbaseSampling; a consumer
delayed longer does lose an owed span; the same in Adaptive, where no consumer is at the same group at two ticks), and no goroutine waits longer than `MaxStall` for
the mutex of traceblockprocessor (the properties carry `MaxStall` as their margin).

Fairness. Tickers fire and their goroutines run (weak fairness of the tick actions): they
block only on mutexes held for a bounded time. A consumer that has started finishes. A
query ends, in success or failure: the connection has a keepalive, though the call itself
has no deadline, which is listed as a hazard. A post ends too, and Stop runs to its end. Go's select picks a ready case at random, so a closed stop channel
seen again and again is taken in the end (strong fairness of `TaskReturns`). The RED
metrics ticker is stopped before the stop signal, so weak fairness is enough there; the
next consumer is assumed to return from ConsumeMetrics. In EntryUrl the clock stands still during a scan, which compares with one reading of it, so time needs strong fairness.
In FillProc the ticker runs and a read of `/proc` or of a socket table that is tried again and again succeeds now and then (strong fairness):
files can vanish under the reader, but not always. In PrometheusReceiver every handler and draining goroutine runs, the next consumer returns, and a Start or Shutdown that began goes
on. Nothing makes spans, requests, answers or Shutdown happen.

Deadlock is not checked where the system really stops: after Shutdown (red_metrics, outgoing, receivers), and after a panic (entry_url).

## Findings

* In wait mode with `silent_count` 1 the first span leaves `leftCount` 0 and
  `silentTime` 0, and the url is never reset (run silent_wait_one).
* `buildMetrics` prunes the external histograms by the db cache: every export deletes them
  all, and counts that are exported as cumulative restart (run red_metrics_external).

Also seen while modelling. The models do all of this where the state is theirs, and the passing properties name these cases as
their exceptions.

Backsampling processor:
* `RetryList.getToRemoveSize` overwrites the slot at `fromIndex`, shifts the slice and
  advances `fromIndex` (tailbase_sampler.go:182-184): with two or more retries (the default is 3) the oldest record is not the one
  removed, so ids are given up early and others stay queued as long as calls fail. `RetriesExact` is about at most one retry.
* With `sample_trace_repeat_num` 4 the same bookkeeping lets getToRemoveSize return more than the queue holds, and the slice expression of
  markUnSent panics: one id fails five calls and is given up, a second one fails, two more come and fail with it, the next failed call removes
  two of the three, and the one after it wants to remove two of one. Found by the attempt to prove `RemovesOnlyQueued` for every number of
  retries; TLC finds it for 4 and 6, and nothing for 1, 2, 3 and 5 with five ids. `MarkUnSent` has the slice's bound as its guard.
* Overlapping calls of IsSilent can exceed `silent_count`, and in wait mode two racing decrements can silence a url for ever.
* `cleanSampledIds` checks a record's age and then deletes by key, so a record stored in between is deleted at age 0, which affects no span that was waiting.
* `GetReportType` has `case SampleSlow | SampleLow`, one value, so SampleSlow has no report type of its own.
* `CheckLowUrl` shadows `key`, so the single ids it stores are urls; `serviceUrlCount` is never reset.
* A url's counter can get lost: two consumers that miss it both store one, or Reset deletes the one a consumer has loaded or just stored (adaptive.go:115-122, 136-141). What is counted in the lost one is let
  through on top of what its successor lets through. `LowUrlBounded` excepts these urls until the window ends.
* Registration is not locked (uds_notify.go:98-107): overlapping requests can register a component twice, and every signal is then posted to it twice, or lose the registration of another. `PostedOnceUnlessRaced`
  excepts the components that were overtaken in between.
* Two consumers that find a trace unsampled both queue its id for the receiver, which is asked about it twice.
* BatchSendSignals posts signals that came after the length was read and posts them again at the next tick. A batch that fails is lost.

Other processors and the connector:
* `block_threshold` defaults to 30 minutes where the readme says one hour.
* Once the limit of services is exceeded, services already tracked are counted as `overflow_service` too; `buildServerKey` computes the overflow operation and then builds the key from
  the span's own name, so the limit of operations bounds nothing; spans counted after the last export are dropped at Shutdown.
* `CleanUnMatchedSpans` reads the queue of waiting exit spans without the lock (entry_url_mapping.go:138-151). A span that is matched
  meanwhile is counted under its url and as `_unknown_`, and another one is cut off
  uncounted; if the queue becomes shorter than what was read, the tick indexes it out of range and the process panics. An exit span below another exit
  span is never matched, because AddMapping keeps no parents of exit spans.

Receivers and extension:
* GetContainerIdByPid with the extension disabled uses a cache that was never made. Whether a process is ignored, and its container, are read once per pid and survive exec
  and reuse of the pid. Matched sockets are never evicted.
* Of IPv6 addresses only ::1 is ever matched (socket_proc.go:90): another peer's key keeps its brackets, which SockAddr.String does not write, so it is listed again at every request and never found. The same
  holds of an HTTP request whose Host header names another port than the connection has, or none (netstat.go:77). `PeersMatched` is about the others.
* The XOR folding gives different segments the same span id, which the comment on line 118 of skywalkingproto_to_traces.go ("unique otel-span") excludes. A reference is taken as `Refs[0]` without asking
  whether there is one; SetName is called on the first span of the list; only the last span's tags reach the resource.
* The component tables are filled without a lock. An I/O segment without a task segment is withheld for ever, both halves of a request
  may miss each other, and the two maps never expire.
* The skywalking http port stays bound when its server cannot be built. With only a metrics pipeline and the extension configured, Start uses a traces receiver that is nil. The agent is not told that the
  next consumer failed.
* The comment in otlpreceiver/internal/trace/otlp.go:69-70 says a permanent error is answered InvalidArgument or 400; the code answers Internal or 500.
* A remote write series with an empty `__name__` is answered 202 and dropped; its samples are counted as one bad metric however many they are, although the metric is called total_bad_datapoints
  (prometheus_to_otel.go:142, 169-172).
* The prometheus goroutine ends at the first error of the next consumer and its channel fills up; a request without series gives time bounds of MaxInt64 and MinInt64;
  newPrometheusRemoteWriteServer sets the server's address before it checks the error.

## Proofs

TLC checks the instances above; the theorems hold for every value of the constants that meets the named assumptions: any number of
consumers, traces, spans, urls, clients and processes, and every configuration. Each component has one inductive invariant, checked with TLC before it was
proved. A proof module has a lemma for the initial states, one per action or group of like actions, and the theorems at its end.

**SpanCacheProofs**, assuming only `Size \in Nat \ {0}`: `CacheInv` is inductive. It says that the
variables have their types, that the write index is one behind the read index
between ticks and equal to it within one (`RingOK`), that every cached entry is listed in the bucket its index names
(`NoOrphan`) and that no entry refers to the bucket written next (`WriteBucketFree`).
None of the last two holds by itself: Copy keeps NoOrphan only because the bucket it
overwrites is free, and the bucket becomes free only because CleanExpireDatas finds every entry of it listed.
`NothingOrphaned` states both for every reachable state (no run repeats it: the refinement fails without it); `CacheRefinement` uses the invariant to show that each step is a step of
RetentionCache under the mapping that turns a bucket index into the distance to the
read index.

**TailbaseSamplingProofs**, assuming a hold time (`Size`) of at least 2: in `TailInv`, `SpansPlaced` and `SpansApart` say in which one of the maps,
`toStore`, stored and expired a span is, as its consumer's place tells, which gives `StoredOnce` and `SpansAccounted`. The rest is for `SampledSpansKept`. A span is
owed because an id was sampled while it waited or had just missed the id. `IdsYoung` says that such an id is at most one tick old, and returned by the next range
before it ages, as long as a span counts on it; `RangeComplete` that a range skips only ids stored since it began; `DoomedUnused` that an id found expired, which is deleted a step later, is
one no span counts on, even if it is stored again in between (`DeletedUnused` is the step property); `OwedHaveIds` that in the last tick of an owed span its id
is still to be reached or already among those to pick. The assumption is needed: with a hold time of 1 TLC finds an owed span
that expires. The scheduling assumption `PromptConsumers` is used by IdsYoung.

**OutgoingProofs**. For SampleQuery, assuming nothing of the retry numbers: `QueueRecent` (the queue is the youngest ids in order) and `CountsBounded` (RetryList has counted, and a call carries, a
prefix of the queue) give `IdsKept`. `RetriesCounted` needs `AttemptsCounted`, which relates the single record to the failed calls of each queued id; `NoSlicePanic` needs
`RecordsFit`, what the records of a ring of up to three sum to. `RecordsFit` is false for four retries, see above.
For OutgoingQueue: `PostedOnceUnlessRaced` is not inductive, since it only looks at what was posted. `Registered` says that a component nobody overtook has one client in every slice that is held (`OncePerComponent`), and that
a request between its look and its append still sees its component missing. `QueuedFresh` adds that what is queued was neither taken nor posted, `LengthRead` that only late items come after
the length that was read, `TakenFresh` which of the taken items each of the remaining clients has got already. `CutOnlyTaken` is a property of steps and follows from LengthRead.

**SamplerProofs**. For Silent, assuming `Count` and `Period` positive: `AdmissionBounded` alone does not
survive a Decrement, which writes a value read in an earlier step. `LeftCounts` says that what is left and what was admitted make up at most the count; `ReadsFresh` that a caller
nobody overlaps has read what is still there, or works on a record the ticker has taken out of the map; `ObjectsApart` that it is a record of its own url. For NormalSampler, assuming only a natural wait time: `TimeStored`
relates the stored time to the time since a trace was stored, `DeletesExpired` says that what the check is about to delete is still expired, `StoringFree` that a url is still free
when it is stored; together `FreeUrls`, from which `SamplesSpaced` follows. Each has the raced urls as its exception.

**AdaptiveProofs**, assuming a `traceid_holdtime` of at least 2 seconds: `CountersHeld` says that a consumer which counts has a counter in hand, and `CountersCount` that, while its url has lost none, it is the one in the map,
which is at least the number of groups let through. That is why Reset's Store(0) is harmless and its Delete makes an exception of the urls that are being counted. `SlowKept` needs that Reset does not
forget a trace that was found slow again after the check: `UndecidedYoung` says that a consumer which found its trace unknown sees
an id of at most age 1, so it is not among those doomed, and `LingeringBusy` is the scheduling assumption behind it.
With a hold time of 1 second and three groups TLC finds a part of a slow trace that is dropped.

**TraceBlockProofs**, assuming what Config.Validate checks: `BlockInv` adds to the type invariant and to AgesOK, StatsOK and BlockedOnlyLong
that a goroutine holding an old time is at most MaxStall late (`LockOK`). From it follow
`NeverForgottenEarly` and `LongTracesAreDropped`, properties of single steps, for every
number of traces and consumers, every batch and every threshold.

**ConnectorProofs**. For RedMetrics, assuming finitely many metric keys and a positive cache size: `RedInv` is
TypeOK (with the sizes of the caches), DimensionsKnown, that every server metric is of a
tracked service, and `OnlyOverflowBeyond`: at most one service more than the limit,
or two if one is the overflow service. ServicesBounded is not inductive, because it does not say that
it is the overflow service that came last. DimensionsKnown is kept by a span because what
makes room is remembered, and by an export because every histogram it leaves is in the
cache.
For EntryUrl, assuming that both times are natural and that parents make no cycle: `ListedByAge` says that a trace id in the batch, in bucket i of the ring or among the
ids to clean has a mapping of exactly the age that list stands for, and `MappingsListed` that every mapping is in one of these lists. Together they give `MappingsKeptForTheirTime`; that the bucket written next is empty
is a consequence of the ages. `CountedOrWaits` says that a span was counted once if it came and does not wait; for the tick it needs `WaitingOnce` (no span has two places in the queue) and `ReadsAhead`: without a race
the cells a tick has seen are still in front of the queue, so what it counts as unknown is what it cuts off. The deletion from the middle of the array is an increasing renumbering of the
places that stay, and the proof that it keeps a prefix in place counts places below a bound. `NoSpanWaitsInVain` is about the recursive look up: a span found by a mapping is found by a larger one under
the same name, and one that a batch makes findable is either in the batch's trace, so tried again, or was findable before. Both are shown by the least number of a span for which they fail, with the numbering
that says that there is no cycle; the theorem on least elements is one about sets and can be used where an induction schema can not.

**ReceiverProofs**. For FillProc, assuming that the host is no container: `OwnersRecorded` says that the owners of a peer's connection are recorded as long as it is
listed or looked for, `ResultsPending` that results live within a tick, and `PlacesLived` that every table remembers a container of a pid only if a process of that pid has run in it. The last holds
although the world moves between any two reads, because `lived` only grows; `FilledFromContainer` follows. `CachedWereOwners` is the step property for the cache itself.
`BracketsUnfound` says that an IPv6 address other than ::1 is never in a result or in the cache; it is inductive, since `Key` differs from the name in every table, and `OtherAddressesUnfound` states it.
The proof showed that the observer `owned` was not cleared for peers whose tick ended early; it now is (`Forget`).
For SharedReceiver, assuming a traces pipeline and at least one receiver: `ReleasedWhenDown` only speaks of the end. `OneAtATime` says that every receiver but the last one is released, and the last one from its Shutdown on; `PhaseOfLast`
which receiver each phase of the host is about, and that Shutdown's `sync.Once` is used up exactly when it began; `PortsServed` that a bound port has a server goroutine, with the skywalking http port before its server is built as the exception
named above; `BuiltBeforeBound` that the steps a Start has left keep it so; `Stopped` that a protocol whose stop is done has no goroutine and no request. The exception is part of ReleasedWhenDown: that port does stay bound.
For PrometheusReceiver, assuming a capacity, requests of finitely many samples and at least one Start: `ParsedCounted` says that a server's counters are at least what the requests that are parsed have added, NaN samples and series
without a name, which holds in spite of the loads that overlap because each request adds before it loads. `LoadedCounted` adds that one request has loaded at least what all that loaded have added: the last to load saw all of them.
`MetricsOfParsed` ties the metrics of a request to its own points, so that a sample of a named series without a data point is one that is no number, and `LastServes` ties handlers to the last server. The cardinality of a union of sets of samples needs only that each is finite. `PromTypeOK` includes that the channel never holds more than its capacity.

For SkywalkingTrace, assuming that agents send segments with an id of their own and at least one span, whose numbers differ within the segment (`Configured`): `TraceInv` has two halves. `PlacesInv` gives `SegmentsInOnePlace`. `OnePlace`
says of every segment, received or not, where it is; `CallsSound` and `CacheSound` say that traces hold a segment whole or not at all, that a call has only its own segment until it has looked into the cache, and that what is withheld under a key is the I/O segment of that key.
The last is why storing overwrites nothing: what it would overwrite is the segment the call itself carries, which would then be in two places. `TasksWait` and `IosWait` give `HalvesPaired`: `PairedUnlessMissed` only speaks of the end, so
they say for every stage of the two calls what the one that looked first has left or is about to leave for the other. Only the call of the I/O segment takes a route out of its map, so a route is there until that call looks.
`ParentsFound` follows from `PlacesInv` and from what is assumed of XOR (`XorCancels`: an operand is known from the other and the result), by which the spans of a segment get different ids. Its hypothesis `IdsWellFormed` is about the agents: an id that is too short gives all spans the empty id; nor may the folding give the empty id by chance. TLC evaluates it for the segments of the run (`IdsAssumption`). Ids of spans of different segments may coincide, see Findings.

EntryUrl, SharedReceiver, SkywalkingTrace and PrometheusReceiver are instances, and the prover does not take over the assumptions of an instance. Each has its assumptions as the formula `Configured`, which MCEntryUrl and Receivers assume by name
(`EntryUrlAssumption`, `SharedAssumption`, `SegmentsAssumption`, `XorAssumption`, `WritesAssumption`); the proof modules extend these two, and TLC evaluates the assumptions on the runs.

Proved and not run: AgesOK, StatsOK, ServicesBounded, RemovesOnlyQueued, DeletesUnused, CacheStep, MappingsListed, BracketsUnfound.

Only model-checked: liveness (QueueDrains, ItemsLeave, SilenceEnds, SampledGroupsSent, QuietTracesLeave, SpansExported, ExitSpansSettle,
PeersMatched, AcceptedConsumed, RequestsAnswered, ShutdownTerminates), which needs fairness, and what ProtoToTraces makes of the tags of a span, which is a fold over a list.

## Not modelled

Generated protobuf code; attribute parsing and histogram arithmetic on floats, and the conversion of JVM
metrics, which keep no state; the metadata
library, the SQL parser, the collector's gRPC and HTTP servers, which are outside the repository (SharedReceiver has what the receivers
see of the servers); memory readings and the text of `/proc` files, which are I/O; the command, which only lists factories.

## Plan

All components with state are modelled, and every safety property the runs check is proved. What is left is out of the prover's reach (liveness) or has no state (parsers, histograms).
