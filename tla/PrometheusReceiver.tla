-------------------------- MODULE PrometheusReceiver --------------------------
(***************************************************************************)
(* The prometheus remote write receiver: receiver.go, server.go and        *)
(* prometheus_to_otel.go.                                                  *)
(*                                                                         *)
(* A handler per HTTP request parses it, puts the metrics into a bounded   *)
(* channel and answers 202; one goroutine takes them out and gives them to *)
(* the next consumer, until the first error.  Start may be called again    *)
(* and then replaces server, channel and goroutine; a generation is the    *)
(* server, channel and goroutine of one Start.                             *)
(*                                                                         *)
(* A request is its list of series and whether it can be decoded; a series *)
(* has the value of its label __name__, which may be empty, or Nothing     *)
(* when the label is missing; a sample is "nan", "int" or "float", with a  *)
(* time.                                                                   *)
(***************************************************************************)
EXTENDS Integers, Sequences, FiniteSets

CONSTANTS
  Request,      \* write requests
  Content,      \* what the requests may hold: [Request -> [decodes, metadata, series]]
  BufferSize,   \* of the channel
  MaxStarts,    \* bound: generations
  Nothing

VARIABLES
  gen,          \* the generation of receiver.server; 0 before Start
  life,         \* where Start or Shutdown is
  listener,     \* per generation: "none", "starting", "serving", "deaf", "closed"
  channel, open, \* per generation: Mc, and whether it is open
  cancelled,    \* generations whose context is cancelled
  drainer, hand, \* per generation: manageServerLifecycle and its metrics
  content,      \* per request: what is in it
  handler, of,  \* per request: its handler and its generation
  total,        \* per generation, of its parser: totalInvalidRequests, totalNans, totalBadMetrics
  metrics,      \* per request: its data points and what its error metrics say
  consumed, flushFailed

serverVars == <<gen, life, listener, cancelled>>
chanVars == <<channel, open>>
drainVars == <<drainer, hand, consumed, flushFailed>>
handlerVars == <<content, handler, of, total, metrics>>
promVars == <<serverVars, chanVars, drainVars, handlerVars>>

Gen == 1..MaxStarts
Blank == [invalid |-> 0, nans |-> 0, bad |-> 0]

\* What the constants are: finitely many requests, each with its list of series.
Configured ==
  /\ IsFiniteSet(Request) /\ Nothing \notin Request
  /\ BufferSize \in Nat /\ MaxStarts \in Nat \ {0}
  /\ \A c \in Content, r \in Request :
       c[r].series \in Seq([name : {Nothing} \cup STRING, label : STRING,
                          samples : Seq([v : {"nan", "int", "float"}, t : Int])])

\* The type invariant: only the current generation serves, one that is not
\* started has nothing, and the channel keeps its bound.
PromTypeOK ==
  /\ gen \in 0..MaxStarts /\ life \in {"idle", "restart", "shutdown"}
  /\ cancelled \subseteq 1..gen /\ flushFailed \subseteq 1..gen /\ consumed \subseteq Request
  /\ listener \in [Gen -> {"none", "starting", "serving", "deaf", "closed"}]
  /\ channel \in [Gen -> Seq(Request)] /\ open \in [Gen -> BOOLEAN]
  /\ drainer \in [Gen -> {"none", "select", "flush", "done"}] /\ hand \in [Gen -> Request \cup {Nothing}]
  /\ content \in Content
  /\ handler \in [Request -> {"new", "decode", "report", "send", "202", "204", "400", "panicked"}]
  /\ of \in [Request -> 0..gen]
  /\ total \in [Gen -> [invalid : Nat, nans : Nat, bad : Nat]]
  /\ metrics = [r \in Request |-> metrics[r]]
  /\ \A g \in Gen :
       /\ listener[g] = "serving" => g = gen
       /\ Len(channel[g]) <= BufferSize
       /\ drainer[g] = "none" <=> g > gen
       /\ hand[g] # Nothing <=> drainer[g] = "flush"
  /\ \A r \in Request : of[r] = 0 <=> handler[r] = "new"

\* newReceiver.
PromInit ==
  /\ gen = 0 /\ life = "idle"
  /\ listener = [g \in Gen |-> "none"]
  /\ channel = [g \in Gen |-> <<>>] /\ open = [g \in Gen |-> FALSE]
  /\ cancelled = {}
  /\ drainer = [g \in Gen |-> "none"] /\ hand = [g \in Gen |-> Nothing]
  /\ content \in Content
  /\ handler = [r \in Request |-> "new"] /\ of = [r \in Request |-> 0]
  /\ total = [g \in Gen |-> Blank] /\ metrics = [r \in Request |-> Nothing]
  /\ consumed = {} /\ flushFailed = {}

-----------------------------------------------------------------------------
(***************************************************************************)
(* prometheus_to_otel.go.                                                  *)
(***************************************************************************)

Count(S) == Cardinality(S)
Series(r) == DOMAIN content[r].series
Samples(r, i) == content[r].series[i].samples

\* ExtractMetricNameLabel: without the label __name__ the name is empty, and
\* that is an error; a label that is there and empty is none.
MetricName(s) == IF s.name = Nothing THEN "" ELSE s.name
NameMissing(r) == {i \in Series(r) : content[r].series[i].name = Nothing}

\* The series addGaugeMetrics and addCounterMetrics skip, their samples unseen.
Unnamed(r) == {i \in Series(r) : MetricName(content[r].series[i]) = ""}

\* DetermineMetricTypeByConvention, by suffix and label; the labels "le" and
\* "quantile" go before the suffix.
MetricType(s) ==
  CASE s.label = "le"                              -> "HISTOGRAM"
    [] s.label = "quantile"                        -> "SUMMARY"
    [] s.label = "" /\ MetricName(s) \in {"_total", "_count"} -> "COUNTER"
    [] s.label = "" /\ MetricName(s) = "_bucket"   -> "HISTOGRAM"
    [] OTHER                                       -> "GAUGE"

\* partitionWriteRequest: a series without samples or without the label __name__
\* is an error.
NoSamples(r) == {i \in Series(r) : Samples(r, i) = <<>>}
TranslationError(r) == NoSamples(r) \cup NameMissing(r) # {}

\* addMetrics: counters and histograms become sums, the others gauges.
Kind(s) == IF MetricType(s) \in {"COUNTER", "HISTOGRAM"} THEN "sum" ELSE "gauge"

\* The samples of some series, by series and place; those of the series that
\* have a name.
SamplesIn(r, I) == UNION {{<<i, j>> : j \in DOMAIN Samples(r, i)} : i \in I}
SamplesOf(r) == SamplesIn(r, Series(r) \ Unnamed(r))
Sample(r, at) == Samples(r, at[1])[at[2]]

\* addGaugeMetrics and addCounterMetrics skip the samples that are no number,
\* setFloatOrInt keeps whole numbers as integers.
Points(r) ==
  {[at |-> at, kind |-> Kind(content[r].series[at[1]]), t |-> Sample(r, at).t,
    value |-> IF Sample(r, at).v = "int" THEN "int" ELSE "double"] :
     at \in {x \in SamplesOf(r) : Sample(r, x).v # "nan"}}
Nans(r) == {at \in SamplesOf(r) : Sample(r, at).v = "nan"}

\* getWriteRequestTimestampBounds: the first and the last time; a request with
\* metadata alone has none.
Bounds(r) ==
  LET times == {Sample(r, at).t : at \in SamplesIn(r, Series(r))}
  IN  [start |-> IF times = {} THEN Nothing ELSE CHOOSE t \in times : \A u \in times : t <= u,
       end   |-> IF times = {} THEN Nothing ELSE CHOOSE t \in times : \A u \in times : t >= u]

-----------------------------------------------------------------------------
(***************************************************************************)
(* Handlers.                                                               *)
(***************************************************************************)

\* A request reaches the server.
Arrive(r) ==
  /\ gen > 0 /\ listener[gen] = "serving" /\ handler[r] = "new"
  /\ handler' = [handler EXCEPT ![r] = "decode"]
  /\ of' = [of EXCEPT ![r] = gen]
  /\ UNCHANGED <<serverVars, chanVars, drainVars, content, total, metrics>>

\* newHandler, DecodeWriteRequest: 400 and 204.
Refuse(r) ==
  /\ handler[r] = "decode"
  /\ \/ ~content[r].decodes /\ handler' = [handler EXCEPT ![r] = "400"]
     \/ content[r].decodes /\ Series(r) = {} /\ ~content[r].metadata
        /\ handler' = [handler EXCEPT ![r] = "204"]
  /\ UNCHANGED <<serverVars, chanVars, drainVars, content, of, total, metrics>>

\* A slip to be noticed: only the errors of the request are counted.
CountedInvalid(r) == [total[of[r]] EXCEPT !.invalid = @ + Count(NoSamples(r))]

\* The counters of the parser a request adds to.
Counted(r) == [invalid |-> total[of[r]].invalid + Count(NoSamples(r)),
               nans    |-> total[of[r]].nans + Count(Nans(r)),
               bad     |-> total[of[r]].bad + Count(Unnamed(r))]

\* fromPrometheusWriteRequestMetrics: its series are counted ...
Parse(r) ==
  /\ handler[r] = "decode" /\ content[r].decodes /\ (Series(r) # {} \/ content[r].metadata)
  /\ total' = [total EXCEPT ![of[r]] = Counted(r)]
  /\ handler' = [handler EXCEPT ![r] = "report"]
  /\ UNCHANGED <<serverVars, chanVars, drainVars, content, of, metrics>>

\* ... and addBadRequests, addNanDataPoints and addMetricsWithMissingName load
\* the counters, those of other requests included.  An error is a 400.
Report(r) ==
  /\ handler[r] = "report"
  /\ IF TranslationError(r)
     THEN handler' = [handler EXCEPT ![r] = "400"] /\ UNCHANGED metrics
     ELSE /\ handler' = [handler EXCEPT ![r] = "send"]
          /\ metrics' = [metrics EXCEPT ![r] = [points |-> Points(r), totals |-> total[of[r]], bounds |-> Bounds(r)]]
  /\ UNCHANGED <<serverVars, chanVars, drainVars, content, of, total>>

\* A slip to be noticed: the send does not wait for room.
SendAnyway(r) ==
  /\ handler[r] = "send" /\ open[of[r]]
  /\ channel' = IF Len(channel[of[r]]) < BufferSize
                THEN [channel EXCEPT ![of[r]] = Append(@, r)] ELSE channel
  /\ handler' = [handler EXCEPT ![r] = "202"]
  /\ UNCHANGED <<serverVars, open, drainVars, content, of, total, metrics>>

\* mc <- results waits for room, then 202.
Send(r) ==
  /\ handler[r] = "send" /\ open[of[r]] /\ Len(channel[of[r]]) < BufferSize
  /\ channel' = [channel EXCEPT ![of[r]] = Append(@, r)]
  /\ handler' = [handler EXCEPT ![r] = "202"]
  /\ UNCHANGED <<serverVars, open, drainVars, content, of, total, metrics>>

\* The channel is closed: the send panics, and net/http recovers.
SendPanics(r) ==
  /\ handler[r] = "send" /\ ~open[of[r]]
  /\ handler' = [handler EXCEPT ![r] = "panicked"]
  /\ UNCHANGED <<serverVars, chanVars, drainVars, content, of, total, metrics>>

-----------------------------------------------------------------------------
(***************************************************************************)
(* manageServerLifecycle.                                                  *)
(***************************************************************************)

Drain(g) ==
  /\ drainer[g] = "select" /\ channel[g] # <<>>
  /\ hand' = [hand EXCEPT ![g] = Head(channel[g])]
  /\ channel' = [channel EXCEPT ![g] = Tail(@)]
  /\ drainer' = [drainer EXCEPT ![g] = "flush"]
  /\ UNCHANGED <<serverVars, open, consumed, flushFailed, handlerVars>>

\* A slip to be noticed: an empty channel is taken for a closed one.
DrainedEmpty(g) == channel[g] = <<>> \/ g \in cancelled

\* The channel is closed and empty, or the context is done.
Drained(g) == (channel[g] = <<>> /\ ~open[g]) \/ g \in cancelled

EndDrain(g) ==
  /\ drainer[g] = "select" /\ Drained(g)
  /\ drainer' = [drainer EXCEPT ![g] = "done"]
  /\ UNCHANGED <<serverVars, chanVars, hand, consumed, flushFailed, handlerVars>>

\* flush succeeds, or fails and ends the goroutine.
Flush(g, ok) ==
  /\ drainer[g] = "flush"
  /\ drainer' = [drainer EXCEPT ![g] = IF ok THEN "select" ELSE "done"]
  /\ consumed' = IF ok THEN consumed \cup {hand[g]} ELSE consumed
  /\ flushFailed' = IF ok THEN flushFailed ELSE flushFailed \cup {g}
  /\ hand' = [hand EXCEPT ![g] = Nothing]
  /\ UNCHANGED <<serverVars, chanVars, handlerVars>>

-----------------------------------------------------------------------------
(***************************************************************************)
(* Start and Shutdown.                                                     *)
(***************************************************************************)

\* Start of a new server, its channel and its goroutine.
NewServer(g) ==
  /\ gen' = g
  /\ listener' = [listener EXCEPT ![g] = "starting"]
  /\ open' = [open EXCEPT ![g] = TRUE]
  /\ drainer' = [drainer EXCEPT ![g] = "select"]
  /\ life' = "idle"
  /\ UNCHANGED <<channel, hand, consumed, flushFailed, handlerVars>>

FirstStart == life = "idle" /\ gen = 0 /\ NewServer(1) /\ UNCHANGED cancelled

\* listenAndServe: the port can be bound, or not.
Listen(g, ok) ==
  /\ listener[g] = "starting"
  /\ listener' = [listener EXCEPT ![g] = IF ok THEN "serving" ELSE "deaf"]
  /\ UNCHANGED <<gen, life, cancelled, chanVars, drainVars, handlerVars>>

\* Start again, or Shutdown: http.Server.Close, which does not wait for
\* handlers, then close(Mc), once.
CloseServer(why) ==
  /\ life = "idle" /\ gen > 0
  /\ why = "restart" => gen < MaxStarts
  /\ listener' = [listener EXCEPT ![gen] = "closed"]
  /\ life' = why
  /\ UNCHANGED <<gen, cancelled, chanVars, drainVars, handlerVars>>

CloseChannel ==
  /\ life \in {"restart", "shutdown"} /\ open[gen]
  /\ open' = [open EXCEPT ![gen] = FALSE]
  /\ UNCHANGED <<serverVars, channel, drainVars, handlerVars>>

\* Start goes on with cancel and a new server.
Restart ==
  /\ life = "restart" /\ ~open[gen]
  /\ cancelled' = cancelled \cup {gen}
  /\ NewServer(gen + 1)

\* Shutdown ends with the deferred cancel.
Cancel ==
  /\ life = "shutdown" /\ ~open[gen]
  /\ cancelled' = cancelled \cup {gen}
  /\ life' = "idle"
  /\ UNCHANGED <<gen, listener, chanVars, drainVars, handlerVars>>

HandlerStep(r) == Refuse(r) \/ Parse(r) \/ Report(r) \/ Send(r) \/ SendPanics(r)
DrainStep(g) == Drain(g) \/ EndDrain(g) \/ \E ok \in BOOLEAN : Flush(g, ok)
LifeStep == CloseChannel \/ Restart \/ Cancel

PromNext ==
  \/ \E r \in Request : Arrive(r) \/ HandlerStep(r)
  \/ \E g \in Gen : DrainStep(g) \/ \E ok \in BOOLEAN : Listen(g, ok)
  \/ FirstStart \/ LifeStep
  \/ \E why \in {"restart", "shutdown"} : CloseServer(why)

PromSpec == PromInit /\ [][PromNext]_promVars

\* Every goroutine runs, the next consumer returns, and a Start or Shutdown
\* that began goes on.
PromFairness ==
  /\ \A r \in Request : WF_promVars(HandlerStep(r))
  /\ \A g \in Gen : WF_promVars(DrainStep(g))
  /\ WF_promVars(LifeStep)

-----------------------------------------------------------------------------
(***************************************************************************)
(* Properties.                                                             *)
(***************************************************************************)

\* Requests that were answered 202 reach the next consumer, unless the
\* goroutine of their server met an error or their server was closed: the
\* answer is given before the metrics are passed on.
AcceptedConsumed ==
  []<>(\A r \in Request : handler[r] = "202" =>
         r \in consumed \/ of[r] \in flushFailed \/ of[r] \in {g \in Gen : ~open[g]})

\* No handler waits for ever, however full the channel is, unless the goroutine
\* ended with an error: then nobody makes room, and the handlers wait until the
\* server is closed.
RequestsAnswered ==
  []<>(\A r \in Request : handler[r] \in {"decode", "report", "send"} => of[r] \in flushFailed)

\* The requests that loaded the counters of a parser.  Of some requests: the
\* series without a name, and the samples of the others that became no data
\* point.
Loaded(g) == {r \in Request : metrics[r] # Nothing /\ of[r] = g}
UnnamedOf(R) == UNION {{r} \X Unnamed(r) : r \in R}
Dropped(r) == {at \in SamplesOf(r) : \A p \in metrics[r].points : p.at # at}
DroppedOf(R) == UNION {{r} \X Dropped(r) : r \in R}

\* Nothing is dropped without a trace: over all requests a server accepted so
\* far, the error metrics of one of them count every sample that became no data
\* point, and every series that was skipped for its empty __name__, although
\* each request loads the counters of the parser while others add to them.  The
\* samples of a skipped series, which is answered 202 all the same, are not
\* counted one by one: totalBadMetrics counts series.
SamplesAccounted ==
  \A g \in Gen : Loaded(g) # {} =>
    \E r \in Loaded(g) :
      /\ metrics[r].totals.nans >= Cardinality(DroppedOf(Loaded(g)))
      /\ metrics[r].totals.bad >= Cardinality(UnnamedOf(Loaded(g)))

-----------------------------------------------------------------------------
(***************************************************************************)
(* The inductive invariant.                                                *)
(***************************************************************************)

\* Only the last server is about to serve, and only between Start and Shutdown;
\* there is one to close, and room for another.
LastServes ==
  /\ \A g \in Gen : listener[g] \in {"starting", "serving"} => g = gen /\ life = "idle"
  /\ life # "idle" => gen > 0
  /\ life = "restart" => gen < MaxStarts

\* The requests of a server whose samples are counted, and their counts: a request
\* that loads them afterwards sees what all of them have added.
NansOf(R) == UNION {{r} \X Nans(r) : r \in R}
Parsed(g) == {r \in Request : of[r] = g /\ handler[r] \in {"report", "send", "202", "panicked"}}
ParsedCounted ==
  \A g \in Gen : /\ total[g].nans >= Cardinality(NansOf(Parsed(g)))
                 /\ total[g].bad >= Cardinality(UnnamedOf(Parsed(g)))

\* One request that loaded the counters saw what all that loaded them added.
LoadedCounted ==
  \A g \in Gen : Loaded(g) # {} =>
    \E r \in Loaded(g) : /\ metrics[r].totals.nans >= Cardinality(NansOf(Loaded(g)))
                         /\ metrics[r].totals.bad >= Cardinality(UnnamedOf(Loaded(g)))

\* The metrics of a request are its own data points; they are built once it is
\* counted.
MetricsOfParsed ==
  \A r \in Request : metrics[r] # Nothing =>
    handler[r] \in {"send", "202", "panicked"} /\ metrics[r].points = Points(r)

PromInv == PromTypeOK /\ LastServes /\ ParsedCounted /\ MetricsOfParsed /\ LoadedCounted
=============================================================================
