--------------------------- MODULE SkywalkingTrace ---------------------------
(***************************************************************************)
(* The trace part of the skywalking receiver: the report service           *)
(* (tracing_report_service.go), the conversion it calls (SwConversion),    *)
(* the lazily filled component tables (componment_mapping.go) and the      *)
(* Undertow cache (undertow_trace.go).                                     *)
(*                                                                         *)
(* Undertow serves a request on two threads, so two segments: the I/O      *)
(* segment, which knows no route, is withheld until the task segment that  *)
(* refers to it names the route.  The segments come in any order, over     *)
(* gRPC streams and HTTP requests that run at the same time.               *)
(***************************************************************************)
EXTENDS SwConversion, FiniteSets

CONSTANTS
  Call,        \* streams and requests that are served at the same time
  Segment,     \* the segments agents send, each once
  None         \* no segment, no traces, no route

\* The constants of undertow_trace.go: components and the name of a dispatch.
Undertow == "Undertow"
SpringMVC == "SpringMVC"
UndertowDispatch == "UndertowDispatch"

\* What agents send: segments with an id of their own and at least one span,
\* whose ids are unique in the segment.
Configured ==
  /\ None \notin Segment
  /\ \A s \in Segment :
       /\ s.spans \in Seq({s.spans[i] : i \in DOMAIN s.spans}) /\ s.spans # <<>>
       /\ \A i, j \in DOMAIN s.spans : s.spans[i].id = s.spans[j].id => i = j
  /\ \A s, t \in Segment : s.id = t.id => s = t

VARIABLES
  pc, segment, ptd,    \* what each call does, its segment and its traces
  sent,                \* segments that were received
  ioTraceMap,          \* key -> traces of an I/O segment
  routeUrlMap,         \* key -> route of a task segment
  table,               \* componentIdMap and nameToServerMap: "empty", "filling", "full"
  crashed,             \* the Go runtime found a concurrent use of a map
  delivered,           \* traces given to the next consumer, in order
  failed,              \* segments whose ConsumeTraces failed
  missed               \* observer: keys both sides of which missed each other

callVars == <<pc, segment, ptd>>
cacheVars == <<ioTraceMap, routeUrlMap>>
vars == <<callVars, sent, cacheVars, table, crashed, delivered, failed, missed>>

Table == {"component", "server"}

TypeOK ==
  /\ pc \in [Call -> {"idle", "convert", "fill", "load", "store", "consume"}]
  /\ segment \in [Call -> sent \cup {None}]
  /\ \A c \in Call : segment[c] = None <=> pc[c] = "idle"
  /\ DOMAIN ptd = Call
  /\ sent \subseteq Segment /\ failed \subseteq sent
  /\ table \in [Table -> {"empty", "filling", "full"}]
  /\ crashed \in BOOLEAN
  /\ delivered \in Seq({delivered[i] : i \in DOMAIN delivered})

\* NewReceiver.
Init ==
  /\ pc = [c \in Call |-> "idle"]
  /\ segment = [c \in Call |-> None] /\ ptd = [c \in Call |-> None]
  /\ sent = {} /\ failed = {} /\ delivered = <<>>
  /\ ioTraceMap = <<>> /\ routeUrlMap = <<>>
  /\ table = [t \in Table |-> "empty"]
  /\ crashed = FALSE /\ missed = {}

-----------------------------------------------------------------------------
(***************************************************************************)
(* The component tables.  The first call that needs a table fills it,      *)
(* without a lock.                                                         *)
(***************************************************************************)

SpansOf(s) == {s.spans[i] : i \in DOMAIN s.spans}
TagsOf(span) == {span.tags[i] : i \in DOMAIN span.tags}

\* The tables the conversion of a segment looks up.
Needs(s) ==
  {t \in Table : \E span \in SpansOf(s) :
     \/ /\ t = "component"
        /\ \/ span.type = "Exit" /\ span.layer = "RPC"
           \/ span.type \in {"Exit", "Entry"} /\ span.layer = "MQ" /\ span.tags # <<>>
     \/ /\ t = "server" /\ span.type # "Local"
        /\ \E tag \in TagsOf(span) : tag.key = "cache.type"}

\* Collect, CollectInSync and HTTPHandler hand a segment to consumeTraces.
Receive(c, s) ==
  /\ ~crashed /\ pc[c] = "idle" /\ s \notin sent
  /\ segment' = [segment EXCEPT ![c] = s]
  /\ sent' = sent \cup {s}
  /\ pc' = [pc EXCEPT ![c] = "convert"]
  /\ UNCHANGED <<ptd, cacheVars, table, crashed, delivered, failed, missed>>

\* A table the segment needs is empty, or another call has made it and put no
\* entry in it yet: it is made and filled entry by entry.
StartFill(c) ==
  /\ ~crashed /\ pc[c] = "convert"
  /\ \E t \in Needs(segment[c]) : table[t] # "full" /\ table' = [table EXCEPT ![t] = "filling"]
  /\ pc' = [pc EXCEPT ![c] = "fill"]
  /\ UNCHANGED <<segment, ptd, sent, cacheVars, crashed, delivered, failed, missed>>

\* The last call that fills a table leaves it full.
EndFill(c) ==
  /\ ~crashed /\ pc[c] = "fill"
  /\ table' = IF \E d \in Call \ {c} : pc[d] = "fill" THEN table
              ELSE [t \in Table |-> IF table[t] = "filling" THEN "full" ELSE table[t]]
  /\ pc' = [pc EXCEPT ![c] = "convert"]
  /\ UNCHANGED <<segment, ptd, sent, cacheVars, crashed, delivered, failed, missed>>

\* ProtoToTraces, with its tables; a table another call fills may lack the entry.
ConvertSegment(c) ==
  /\ ~crashed /\ pc[c] = "convert"
  /\ \A t \in Needs(segment[c]) : table[t] # "empty"
  /\ \E partial \in BOOLEAN :
       /\ partial => \E t \in Needs(segment[c]) : table[t] = "filling"
       /\ ptd' = [ptd EXCEPT ![c] = ProtoToTraces(segment[c], 0, partial)]
  /\ pc' = [pc EXCEPT ![c] = "load"]
  /\ UNCHANGED <<segment, sent, cacheVars, table, crashed, delivered, failed, missed>>

\* The runtime may notice that a map is used while it is written, and end the
\* process.
ConcurrentMapUse(c) ==
  /\ ~crashed /\ pc[c] \in {"convert", "fill"}
  /\ \E d \in Call \ {c} : pc[d] = "fill" /\ \E t \in Needs(segment[c]) : table[t] = "filling"
  /\ crashed' = TRUE
  /\ UNCHANGED <<callVars, sent, cacheVars, table, delivered, failed, missed>>

-----------------------------------------------------------------------------
(***************************************************************************)
(* CheckUndertow.                                                          *)
(***************************************************************************)

\* The segment is one of Undertow.
IsUndertow(s) == \E span \in SpansOf(s) : span.component = Undertow /\ span.id = 0

\* The route the segment knows, of its last SpringMVC entry.
RouteUrl(s) ==
  LET mvc == {i \in DOMAIN s.spans : s.spans[i].type = "Entry" /\ s.spans[i].component = SpringMVC}
  IN  IF mvc = {} THEN None ELSE s.spans[Max(mvc)].name

\* The segment the dispatch of a task refers to; none if it was not dispatched.
ParentSegment(s) ==
  LET dispatch == {span \in SpansOf(s) : /\ span.component = Undertow /\ span.id = 0
                                         /\ span.name = UndertowDispatch}
  IN  IF dispatch = {} THEN None ELSE (CHOOSE span \in dispatch : TRUE).refs[1].segment

\* A slip to be noticed: a task is filed under its own segment.
UndertowKeyOwn(s) == <<s.trace, s.id>>

\* The key: an I/O segment is filed under itself, a task under its parent.
UndertowKey(s) == <<s.trace, IF RouteUrl(s) = None THEN s.id ELSE ParentSegment(s)>>

With(map, key, value) == [k \in DOMAIN map \cup {key} |-> IF k = key THEN value ELSE map[k]]
Without(map, key) == [k \in DOMAIN map \ {key} |-> map[k]]

\* A slip to be noticed: Load in place of LoadAndDelete.
WithAll(map, key) == map

\* LoadAndDelete.
LoadAndDelete(map, key) == Without(map, key)

\* SetName of the first span.
Named(traces, url) ==
  [traces EXCEPT !.spans = [traces.spans EXCEPT ![1] = [traces.spans[1] EXCEPT !.name = url]]]

\* The spans of the I/O segment move to the traces of the task.
MoveAndAppendTo(traces, io) == [traces EXCEPT !.spans = @ \o io.spans]

\* CheckUndertow up to LoadAndDelete: the other half of the pair was there, or
\* this half has to be stored.
CheckUndertow(c) ==
  LET s == segment[c]  key == UndertowKey(s)  url == RouteUrl(s) IN
  /\ ~crashed /\ pc[c] = "load"
  /\ \/ /\ ~IsUndertow(s)
        /\ pc' = [pc EXCEPT ![c] = "consume"]
        /\ UNCHANGED <<ptd, cacheVars>>
     \/ /\ IsUndertow(s) /\ url = None
        /\ IF key \in DOMAIN routeUrlMap
           THEN /\ ptd' = [ptd EXCEPT ![c] = Named(@, routeUrlMap[key])]
                /\ routeUrlMap' = LoadAndDelete(routeUrlMap, key)
                /\ pc' = [pc EXCEPT ![c] = "consume"]
           ELSE /\ pc' = [pc EXCEPT ![c] = "store"]
                /\ UNCHANGED <<ptd, routeUrlMap>>
        /\ UNCHANGED ioTraceMap
     \/ /\ IsUndertow(s) /\ url # None
        /\ IF key \in DOMAIN ioTraceMap
           THEN /\ ptd' = [ptd EXCEPT ![c] = MoveAndAppendTo(@, Named(ioTraceMap[key], url))]
                /\ ioTraceMap' = LoadAndDelete(ioTraceMap, key)
                /\ pc' = [pc EXCEPT ![c] = "consume"]
           ELSE /\ pc' = [pc EXCEPT ![c] = "store"]
                /\ UNCHANGED <<ptd, ioTraceMap>>
        /\ UNCHANGED routeUrlMap
  /\ UNCHANGED <<segment, sent, table, crashed, delivered, failed, missed>>

\* CheckUndertow after a miss: an I/O segment is withheld, a task leaves its
\* route and goes on.
StoreUndertow(c) ==
  LET s == segment[c]  key == UndertowKey(s)  url == RouteUrl(s) IN
  /\ ~crashed /\ pc[c] = "store"
  /\ IF url = None
     THEN /\ ioTraceMap' = With(ioTraceMap, key, ptd[c])
          /\ pc' = [pc EXCEPT ![c] = "idle"]
          /\ segment' = [segment EXCEPT ![c] = None] /\ ptd' = [ptd EXCEPT ![c] = None]
          /\ UNCHANGED routeUrlMap
     ELSE /\ routeUrlMap' = With(routeUrlMap, key, url)
          /\ pc' = [pc EXCEPT ![c] = "consume"]
          /\ UNCHANGED <<segment, ptd, ioTraceMap>>
  /\ missed' = IF \E d \in Call \ {c} : pc[d] = "store" /\ UndertowKey(segment[d]) = key
               THEN missed \cup {key} ELSE missed
  /\ UNCHANGED <<sent, table, crashed, delivered, failed>>

\* A span of the segment is among the traces.
Holds(traces, s) == \E j \in DOMAIN traces.spans : traces.spans[j].sw.segment = s.id

\* ConsumeTraces succeeds, or fails: Collect closes its stream, CollectInSync
\* and HTTPHandler log; nobody tries again.
Consume(c, ok) ==
  /\ ~crashed /\ pc[c] = "consume"
  /\ delivered' = IF ok THEN Append(delivered, ptd[c]) ELSE delivered
  /\ failed' = IF ok THEN failed
               ELSE failed \cup {s \in sent : Holds(ptd[c], s)}
  /\ pc' = [pc EXCEPT ![c] = "idle"]
  /\ segment' = [segment EXCEPT ![c] = None] /\ ptd' = [ptd EXCEPT ![c] = None]
  /\ UNCHANGED <<sent, cacheVars, table, crashed, missed>>

Next ==
  \E c \in Call :
    \/ \E s \in Segment : Receive(c, s)
    \/ StartFill(c) \/ EndFill(c) \/ ConvertSegment(c) \/ ConcurrentMapUse(c)
    \/ CheckUndertow(c) \/ StoreUndertow(c)
    \/ \E ok \in BOOLEAN : Consume(c, ok)

Spec == Init /\ [][Next]_vars

-----------------------------------------------------------------------------
(***************************************************************************)
(* Properties.                                                             *)
(***************************************************************************)

\* What a call is at: the segment it converts, or its traces, to which those of
\* an I/O segment may have moved.
Carries(c, s) ==
  \/ pc[c] \in {"convert", "fill"} /\ segment[c] = s
  \/ pc[c] \in {"load", "store", "consume"} /\ Holds(ptd[c], s)

\* Where a segment is: with calls, withheld under keys, delivered or failed.
Callers(s) == {c \in Call : Carries(c, s)}
Keys(s) == {k \in DOMAIN ioTraceMap : Holds(ioTraceMap[k], s)}
Deliveries(s) == {i \in DOMAIN delivered : Holds(delivered[i], s)}
Places(s) ==
  {<<"call", c>> : c \in Callers(s)} \cup {<<"withheld", k>> : k \in Keys(s)}
  \cup {<<"delivered", i>> : i \in Deliveries(s)} \cup {<<"failed", f>> : f \in {s} \cap failed}

\* Traces hold every span of a segment, and none twice.
Whole(traces, s) ==
  \A x \in SpansOf(s) : \E j \in DOMAIN traces.spans : \A l \in DOMAIN traces.spans :
    traces.spans[l].sw = [segment |-> s.id, span |-> x.id] <=> l = j

\* A segment that was received is in one place, and never in two, and it is
\* delivered whole: the Undertow cache neither loses nor doubles the traces that
\* pass through it.
SegmentInOnePlace ==
  \A s \in sent :
    /\ \E p \in Places(s) : Places(s) = {p}
    /\ \A i \in Deliveries(s) : Whole(delivered[i], s)

\* The two halves of an Undertow request.
IsIo(s) == IsUndertow(s) /\ RouteUrl(s) = None
IsTask(s) == IsUndertow(s) /\ RouteUrl(s) # None
Pair(io, task) ==
  IsIo(io) /\ IsTask(task) /\ task.trace = io.trace /\ ParentSegment(task) = io.id

\* A span of the I/O segment has the name of the route of a task of it.
HasRoute(traces, io) ==
  \E task \in Segment : \E j \in DOMAIN traces.spans :
    /\ Pair(io, task)
    /\ traces.spans[j].sw.segment = io.id /\ traces.spans[j].name = RouteUrl(task)

\* The I/O half of a pair, once both halves are through: delivered under the name
\* of the route, unless the two calls missed each other, each looking before the
\* other stored, or the consumer refused it.
PairedUnlessMissed ==
  \A io, task \in sent :
    Pair(io, task) /\ (\A c \in Call : ~Carries(c, io) /\ ~Carries(c, task))
    => \/ <<io.trace, io.id>> \in missed
       \/ io \in failed
       \/ \E i \in DOMAIN delivered : HasRoute(delivered[i], io)

\* Ids of segments are not too short, numbers of spans are words and not
\* negative, no span is its own parent, and the folding gives none the empty id.
IdsWellFormed ==
  \A s \in Segment :
    /\ s.id.form \in {"start", "full"} /\ s.id.start[1] \in Word /\ s.id.start[3] \in Word
    /\ s.id.form = "full" => s.id.last[1] \in Word
    /\ \A x \in SpansOf(s) : /\ x.id \in Word /\ x.id # -1 /\ x.parent # x.id
                             /\ SegmentIDToSpanID(s.id, x.id) # NoParent

\* Every span of a delivered segment keeps its place in the trace: no other
\* span of the segment has its id, and its parent id is that of the span the
\* agent says, in this segment or in the one it refers to.
ParentsResolve ==
  \A i \in DOMAIN delivered : \A j \in DOMAIN delivered[i].spans :
    LET d == delivered[i].spans[j]
        s == CHOOSE x \in sent : x.id = d.sw.segment
        span == CHOOSE x \in SpansOf(s) : x.id = d.sw.span
        Id(seg, sp) == SegmentIDToSpanID(seg, sp)
    IN  /\ \A x \in SpansOf(s) \ {span} : Id(s.id, x.id) # d.id
        /\ \A x \in SpansOf(s) : x.id = span.parent => d.parent = Id(s.id, x.id) /\ d.parent # d.id
        /\ \A t \in Segment : \A x \in SpansOf(t) :
             span.parent = -1 /\ Len(span.refs) = 1 /\ span.refs[1].segment = t.id /\ span.refs[1].span = x.id
               => d.parent = Id(t.id, x.id) /\ d.parent # NoParent

-----------------------------------------------------------------------------
(***************************************************************************)
(* The inductive invariant.                                                *)
(***************************************************************************)

\* A span is the conversion of one of a segment, under its own name
\* or that of a route.
Converted(d) ==
  /\ {"id", "parent", "name", "sw"} \subseteq DOMAIN d
  /\ \E s \in Segment : \E x \in SpansOf(s) :
       /\ d.sw = [segment |-> s.id, span |-> x.id]
       /\ d.id = SegmentIDToSpanID(s.id, x.id)
       /\ d.parent = ParentSpanID(s.id, x)

\* Traces have spans, all converted, and hold a segment whole or not at all.
Sound(traces) ==
  /\ "spans" \in DOMAIN traces
  /\ traces.spans \in Seq({traces.spans[j] : j \in DOMAIN traces.spans}) /\ traces.spans # <<>>
  /\ \A j \in DOMAIN traces.spans : Converted(traces.spans[j])
  /\ \A s \in Segment : Holds(traces, s) => Whole(traces, s)

\* Traces hold no other segment.
Only(traces, s) == \A j \in DOMAIN traces.spans : traces.spans[j].sw.segment = s.id

\* The traces of calls; until they have looked into the cache these are those of
\* their own segment.  Only Undertow segments are stored.
CallsSound ==
  \A c \in Call :
    /\ pc[c] \in {"load", "store", "consume"} => Sound(ptd[c])
    /\ pc[c] \in {"load", "store"} => Only(ptd[c], segment[c])
    /\ pc[c] = "store" => IsUndertow(segment[c])

\* What is withheld under a key is the I/O segment of that key, and the routes are
\* those of tasks.
CacheSound ==
  /\ \A k \in DOMAIN ioTraceMap :
       /\ Sound(ioTraceMap[k])
       /\ \E s \in Segment : IsIo(s) /\ UndertowKey(s) = k /\ Only(ioTraceMap[k], s)
  /\ \A k \in DOMAIN routeUrlMap :
       \E s \in Segment : IsTask(s) /\ UndertowKey(s) = k /\ routeUrlMap[k] = RouteUrl(s)

DeliveredSound == \A i \in DOMAIN delivered : Sound(delivered[i])

\* A segment is in one place once it was received, and in none before.
OnePlace ==
  \A s \in Segment :
    IF s \in sent THEN \E p \in Places(s) : Places(s) = {p} ELSE Places(s) = {}

\* How far a segment is: its call has looked into the cache, or is about to
\* store.
Looked(s) == s \in sent /\ \A c \in Call : segment[c] = s => pc[c] \in {"store", "consume"}
Stores(s) == \E c \in Call : segment[c] = s /\ pc[c] = "store"

\* The I/O segment has got its route, or has failed.
Settled(io) ==
  \/ io \in failed
  \/ \E c \in Call : pc[c] = "consume" /\ HasRoute(ptd[c], io)
  \/ \E i \in DOMAIN delivered : HasRoute(delivered[i], io)

\* A task that looked before its I/O segment did leaves a route for it; one that
\* looked, but stores or has stored while the I/O segment does, has missed it.
TasksWait ==
  \A io, task \in Segment : Pair(io, task) /\ Looked(task) =>
    /\ ~Looked(io) => Stores(task) \/ UndertowKey(io) \in DOMAIN routeUrlMap
    /\ Stores(io) => Stores(task) \/ UndertowKey(io) \in missed
    /\ UndertowKey(io) \in DOMAIN ioTraceMap => UndertowKey(io) \in missed

\* An I/O segment that has looked is stored, withheld or settled.
IosWait ==
  \A io \in Segment : IsIo(io) /\ Looked(io) =>
    Stores(io) \/ UndertowKey(io) \in DOMAIN ioTraceMap \/ Settled(io)

PlacesInv == TypeOK /\ CallsSound /\ CacheSound /\ DeliveredSound /\ OnePlace
TraceInv == PlacesInv /\ TasksWait /\ IosWait
=============================================================================
