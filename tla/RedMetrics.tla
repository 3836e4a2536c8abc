------------------------------ MODULE RedMetrics ------------------------------
(***************************************************************************)
(* pkg/connector/redmetricsconnector: request metrics derived from spans.  *)
(*                                                                         *)
(* Consumer goroutines add every span to the histograms of its metric keys *)
(* (aggregateMetricsForSpan); a ticker goroutine exports all of them       *)
(* (exportMetrics).  Both hold p.lock, span by span and for the building   *)
(* of the metrics.  The dimensions of a metric key live in a cache of      *)
(* DimensionsCacheSize keys per table, which evicts; what it evicted is    *)
(* kept until the next export (internal/cache/cache.go), and a histogram   *)
(* is deleted after an export when its dimensions are gone.                *)
(*                                                                         *)
(* A metric key is tagged with its table: keys of different tables are     *)
(* built from different labels and are never equal.  A histogram is        *)
(* represented by its count.  Which key hashicorp's simplelru evicts does  *)
(* not matter here: any one but the one just used.                         *)
(***************************************************************************)
EXTENDS Integers, FiniteSets

CONSTANTS
  Service,       \* service names
  Name,          \* span names
  CallKey,       \* the metric keys of db, external and mq calls
  Span,          \* the spans that can come, see SpanAssumption
  CacheSize,     \* DimensionsCacheSize
  MaxServices,   \* MaxServicesToTrack
  MaxOperations, \* MaxOperationsToTrackPerService
  Overflow,      \* overflow_service and overflow_operation
  MaxCount       \* bound: spans counted per metric key

Table == {"server", "db", "external", "mq"}
ServerKey == {"server"} \X (Service \cup {Overflow}) \X Name
MetricKey == ServerKey \cup CallKey

\* The metric keys of a table.
Of(t, keys) == {k \in keys : k[1] = t}

ASSUME SizeAssumption ==
  /\ CacheSize \in Nat \ {0}
  /\ MaxServices \in Nat
  /\ MaxOperations \in Nat
  /\ MaxCount \in Nat
  /\ IsFiniteSet(MetricKey)

\* isServer: a span of kind server or consumer.  calls: the metric keys the
\* parsers find, at most one of a table.
ASSUME SpanAssumption ==
  /\ Overflow \notin Service \cup Name
  /\ \A k \in CallKey : k[1] \in Table \ {"server"}
  /\ Span \subseteq [isServer : BOOLEAN, service : Service, name : Name, calls : SUBSET CallKey]
  /\ \A s \in Span, t \in Table : Cardinality(Of(t, s.calls)) <= 1

VARIABLES
  lru,        \* the keys of the four dimension caches
  evicted,    \* their evictedItems
  histogram,  \* the counts of the histograms; 0: there is none
  serviceToOperations,   \* pairs of a service and an operation
  exporter,   \* where the export goroutine is: "none", "select", "send", "done"
  tick,       \* the ticker's channel holds a tick
  built,      \* the counts in the metrics under way to the next consumer
  shutdown    \* "no", "stopping" or "returned"

dataVars == <<lru, evicted, histogram, serviceToOperations>>
vars == <<dataVars, exporter, tick, built, shutdown>>

Counts == [MetricKey -> 0 .. MaxCount]
NoCounts == [k \in MetricKey |-> 0]

TypeOK ==
  /\ lru \in SUBSET MetricKey
  /\ \A t \in Table : Cardinality(Of(t, lru)) <= CacheSize
  /\ evicted \in SUBSET MetricKey
  /\ histogram \in Counts
  /\ serviceToOperations \in SUBSET ((Service \cup {Overflow}) \X (Name \cup {Overflow}))
  /\ exporter \in {"none", "select", "send", "done"}
  /\ tick \in BOOLEAN
  /\ built \in Counts
  /\ shutdown \in {"no", "stopping", "returned"}

Init ==
  /\ lru = {}
  /\ evicted = {}
  /\ histogram = NoCounts
  /\ serviceToOperations = {}
  /\ exporter = "none"
  /\ tick = FALSE
  /\ built = NoCounts
  /\ shutdown = "no"

\* The keys that have a histogram.
Histograms == {k \in MetricKey : histogram[k] > 0}

-----------------------------------------------------------------------------
(***************************************************************************)
(* aggregateMetricsForSpan, under p.lock.                                  *)
(***************************************************************************)

Services == {p[1] : p \in serviceToOperations}
Operations(service) == {p[2] : p \in {q \in serviceToOperations : q[1] = service}}

\* buildServerKey: the service a span is counted under.
TrackedService(s) ==
  IF Cardinality(Services) > MaxServices THEN Overflow ELSE s.service

\* ... and the operation it is tracked as; the metric key has the span's name.
TrackedOperation(s) ==
  IF Cardinality(Operations(TrackedService(s))) > MaxOperations THEN Overflow ELSE s.name

\* The metric keys of a span.
KeysOf(s) ==
  s.calls \cup IF s.isServer THEN {<<"server", TrackedService(s), s.name>>} ELSE {}

\* Every table keeps as many keys as fit.
Fits(all, kept) ==
  \A t \in Table : LET n == Cardinality(Of(t, all))
                   IN  Cardinality(Of(t, kept)) = IF n < CacheSize THEN n ELSE CacheSize

\* A slip to be noticed: what the caches evict is not remembered.
UseForgets(keys) ==
  \E out \in SUBSET (lru \ keys) :
    /\ Fits(lru \cup keys, (lru \cup keys) \ out)
    /\ lru' = (lru \cup keys) \ out
    /\ evicted' = evicted \ keys

\* Cache.Get, which revives an evicted key, and Cache.Add when it finds none:
\* other keys make room and become evictedItems.
Use(keys) ==
  \E out \in SUBSET (lru \ keys) :
    /\ Fits(lru \cup keys, (lru \cup keys) \ out)
    /\ lru' = (lru \cup keys) \ out
    /\ evicted' = (evicted \cup out) \ keys

\* updateHistogram for every key of the span.
Aggregate(s) ==
  /\ \A k \in KeysOf(s) : histogram[k] < MaxCount
  /\ Use(KeysOf(s))
  /\ histogram' = [k \in MetricKey |-> IF k \in KeysOf(s) THEN histogram[k] + 1 ELSE histogram[k]]
  /\ serviceToOperations' = IF s.isServer
                            THEN serviceToOperations \cup {<<TrackedService(s), TrackedOperation(s)>>}
                            ELSE serviceToOperations
  /\ UNCHANGED <<exporter, tick, built, shutdown>>

-----------------------------------------------------------------------------
(***************************************************************************)
(* The export goroutine.                                                   *)
(***************************************************************************)

\* Start.
Start ==
  /\ exporter = "none"
  /\ shutdown = "no"
  /\ exporter' = "select"
  /\ UNCHANGED <<dataVars, tick, built, shutdown>>

\* The ticker fires, unless Shutdown stopped it.
Fire ==
  /\ shutdown = "no"
  /\ tick' = TRUE
  /\ UNCHANGED <<dataVars, exporter, built, shutdown>>

\* collectLatencyMetrics looks the dimensions of every histogram up, in any
\* order: these keys are the recent ones of their caches afterwards.
Collected(kept) ==
  LET all == lru \cup Histograms
  IN  /\ Fits(all, kept)
      /\ \A t \in Table : \/ Of(t, Histograms) \subseteq kept
                          \/ Of(t, kept) \subseteq Histograms

\* A slip to be noticed: mq histograms are looked up in the db cache as well.
PrunedByCalls(t) == IF t \in {"external", "mq"} THEN "db" ELSE t

\* The table whose cache decides which histograms of t are deleted.
PrunedBy(t) == IF t = "external" THEN "db" ELSE t

\* A slip to be noticed: histograms without cached dimensions are deleted
\* before the metrics are built.
BuildPrunesFirst ==
  /\ Histograms \subseteq lru \cup evicted
  /\ \E kept \in SUBSET (lru \cup Histograms) :
       /\ Collected(kept)
       /\ lru' = kept
       /\ histogram' = [k \in MetricKey |-> IF k \in Of(PrunedBy(k[1]), lru)
                                            THEN histogram[k] ELSE 0]
  /\ evicted' = {}
  /\ built' = histogram'
  /\ UNCHANGED serviceToOperations

\* buildMetrics, under p.lock: collect, RemoveEvictedItems, and delete the
\* histograms whose key is not in the cache.  (A histogram without dimensions
\* would make it fail: DimensionsKnown.)
BuildMetrics ==
  /\ Histograms \subseteq lru \cup evicted
  /\ \E kept \in SUBSET (lru \cup Histograms) :
       /\ Collected(kept)
       /\ lru' = kept
       /\ histogram' = [k \in MetricKey |-> IF k \in Of(PrunedBy(k[1]), kept)
                                            THEN histogram[k] ELSE 0]
  /\ evicted' = {}
  /\ built' = histogram
  /\ UNCHANGED serviceToOperations

\* A slip to be noticed: the goroutine takes one tick and ends.
SentOnce ==
  /\ exporter = "send"
  /\ exporter' = "done"
  /\ built' = NoCounts
  /\ UNCHANGED <<dataVars, tick, shutdown>>

\* exportMetrics begins.
ExportMetrics ==
  /\ exporter = "select"
  /\ tick
  /\ tick' = FALSE
  /\ BuildMetrics
  /\ exporter' = "send"
  /\ UNCHANGED shutdown

\* ConsumeMetrics of the next consumer returns, with or without an error.
Sent ==
  /\ exporter = "send"
  /\ exporter' = "select"
  /\ built' = NoCounts
  /\ UNCHANGED <<dataVars, tick, shutdown>>

\* Shutdown stops the ticker and blocks on p.done, if Start was called.
Shutdown ==
  /\ shutdown = "no"
  /\ shutdown' = IF exporter = "none" THEN "returned" ELSE "stopping"
  /\ UNCHANGED <<dataVars, exporter, tick, built>>

\* A slip to be noticed: the goroutine stays in its loop.
DoneIgnored ==
  /\ shutdown = "stopping"
  /\ exporter = "select"
  /\ exporter' = "done"
  /\ UNCHANGED <<dataVars, tick, built, shutdown>>

\* p.done <- struct{}{} and <-p.done: the channel has no buffer.
Done ==
  /\ shutdown = "stopping"
  /\ exporter = "select"
  /\ exporter' = "done"
  /\ shutdown' = "returned"
  /\ UNCHANGED <<dataVars, tick, built>>

Export == ExportMetrics \/ Sent

Next ==
  \/ \E s \in Span : Aggregate(s)
  \/ Start
  \/ Fire
  \/ Export
  \/ Shutdown
  \/ Done

Spec == Init /\ [][Next]_vars

\* The collector starts the connector or shuts it down, the ticker fires, the
\* goroutines run and the next consumer answers.
FairSpec ==
  /\ Spec
  /\ WF_vars(Start)
  /\ WF_vars(Fire)
  /\ WF_vars(Export)
  /\ WF_vars(Done)

-----------------------------------------------------------------------------
(***************************************************************************)
(* Properties.                                                             *)
(***************************************************************************)

\* "all the cached items can be retrieved either from the LRU cache or the
\* evictedItems map": between two exports the dimensions of every histogram
\* are there, so buildMetrics never fails half way with nothing to send.
DimensionsKnown == Histograms \subseteq lru \cup evicted

\* The last count of a histogram is in the metrics that are built before the
\* histogram is deleted: an eviction loses no spans.
ReportedBeforeDeleted ==
  [][\A k \in Histograms : histogram'[k] < histogram[k] => built'[k] = histogram[k]]_vars

\* A count of one of the tables falls only when its key is evicted.
FallsOnlyEvicted(tables) ==
  \A k \in Histograms : k[1] \in tables /\ histogram'[k] < histogram[k] => k \notin lru'

\* The counts of server, db and mq metrics only grow while their dimensions
\* stay cached: downstream sees counters, which may restart only when a key
\* was evicted and comes back.
CountsCumulative == [][FallsOnlyEvicted({"server", "db", "mq"})]_vars

\* And so it should be for the external ones: all are exported with
\* AggregationTemporalityCumulative and one startTimestamp.
AllCountsCumulative == [][FallsOnlyEvicted(Table)]_vars

\* MaxServicesToTrack bounds the services metrics are kept for: the limit is
\* tested after it is exceeded, and the overflow service comes on top.
ServicesBounded ==
  /\ {k[2] : k \in Of("server", Histograms)} \subseteq Services
  /\ Cardinality(Services) <= MaxServices + 2

\* Every span that is counted gets into the metrics of an export, whether its
\* key is evicted meanwhile or not, unless the connector is shut down.
SpansExported ==
  \A k \in MetricKey, n \in 1 .. MaxCount :
    (histogram[k] >= n) ~> (built[k] >= n \/ shutdown # "no")

\* Shutdown returns, whatever the export goroutine is doing.
ShutdownTerminates == (shutdown = "stopping") ~> (shutdown = "returned")
=============================================================================
