---------------------------- MODULE SwConversion ----------------------------
(***************************************************************************)
(* What the skywalking receiver makes of a segment:                        *)
(* skywalkingproto_to_traces.go.  Pure operators, no state.                *)
(*                                                                         *)
(* A segment is a sequence of spans.  Keys and values of tags are members  *)
(* of small sets; an id is the words the code folds it from.               *)
(***************************************************************************)
EXTENDS Integers, Sequences, SequencesExt

CONSTANTS
  Word,             \* the words ids are made of
  WordXor(_, _)     \* ^ of two words

\* What is used of ^: it gives a word, and either operand is known from the
\* other and the result.
XorCancels ==
  \A x, y \in Word :
    /\ WordXor(x, y) \in Word
    /\ \A z \in Word : /\ WordXor(x, y) = WordXor(x, z) => y = z
                       /\ WordXor(y, x) = WordXor(z, x) => y = z

\* The empty map of attributes, and PutStr.
NoAttributes == <<>>
Put(attrs, key, value) == (key :> value) @@ attrs

-----------------------------------------------------------------------------
(***************************************************************************)
(* Ids.  "full" is 32 hex digits, a thread and a sequence number, "start"  *)
(* only the digits; the start of "nohex" is not all digits: it is what     *)
(* hex.Decode reads before it stops, zero from there on, and long says     *)
(* whether more than 4 characters follow; "short" and "bad" ids are of     *)
(* none of these forms.                                                    *)
(***************************************************************************)

Zero == <<0, 0, 0, 0>>

\* swStringToUUID: the digits, with `extra`, the thread and the sequence
\* number (a low and a high word) folded in.  When the digits cannot be decoded,
\* what was decoded of them is returned, and nothing is folded in.
SwStringToUUID(s, extra) ==
  CASE s.form = "full"  -> << WordXor(s.start[1], extra), WordXor(s.start[2], s.mid),
                              WordXor(s.start[3], s.last[1]), WordXor(s.start[4], s.last[2]) >>
    [] s.form = "start" -> << WordXor(s.start[1], extra), s.start[2], s.start[3], s.start[4] >>
    [] s.form = "nohex" -> s.start
    [] OTHER            -> Zero

\* uuidTo8Bytes: the high half XOR the low half.
UuidTo8Bytes(u) == << WordXor(u[1], u[3]), WordXor(u[2], u[4]) >>

\* A slip to be noticed: the id of a span is that of its segment.
SegmentOnlyToSpanID(segmentID, spanID) == UuidTo8Bytes(SwStringToUUID(segmentID, 0))

\* segmentIDToSpanID; an id that is too short gives the empty span id.
SegmentIDToSpanID(segmentID, spanID) == UuidTo8Bytes(SwStringToUUID(segmentID, spanID))

\* swTraceIDToTraceID: an id of at most 36 characters is parsed as a uuid, which
\* gives 32 digits as they are and nothing for others; a longer one is folded.
SwTraceIDToTraceID(traceID) ==
  IF traceID.form \in {"start", "full"} \/ (traceID.form = "nohex" /\ traceID.long)
  THEN SwStringToUUID(traceID, 0) ELSE Zero

-----------------------------------------------------------------------------
(***************************************************************************)
(* Tags and attributes.  In a statement "sql" an operation and a table are *)
(* found.                                                                  *)
(***************************************************************************)

\* GetComponent and GetServerName: a name is found in its table, or taken for
\* unknown in one that is only partly filled.
Component(partial, c) == IF partial THEN "unknown" ELSE c
Server(partial, v) == IF partial THEN v ELSE "server"

CacheKey == {"cache.type", "cache.cmd", "cache.op", "cache.other"}
DbKey == {"db.type", "db.instance", "db.statement", "db.other"}
MqKey == {"mq.queue", "mq.topic", "mq.broker", "mq.other"}

\* otSpanTagsMapping, for the keys that reach it.
OtSpanTagsMapping(key) == IF key = "url" THEN "http.url" ELSE key

\* setCacheAttribute.
SetCacheAttribute(attrs, tag, type, partial) ==
  CASE type = "Local"           -> Put(attrs, tag.key, tag.value)
    [] tag.key = "cache.type"   -> Put(attrs, "db.system", Server(partial, tag.value))
    [] tag.key = "cache.cmd"    -> Put(attrs, "db.statement", tag.value)
    [] tag.key = "cache.op"     -> Put(attrs, "db.operation", tag.value)
    [] OTHER                    -> Put(attrs, tag.key, tag.value)

\* setDbAttribute.
SetDbAttribute(attrs, tag) ==
  CASE tag.key = "db.type"      -> Put(attrs, "db.system", tag.value)
    [] tag.key = "db.instance"  -> Put(attrs, "db.name", tag.value)
    [] tag.key = "db.statement" ->
         IF tag.value = "sql"
         THEN Put(Put(Put(attrs, "db.statement", tag.value), "db.operation", "operation"),
                  "db.sql.table", "table")
         ELSE Put(attrs, "db.statement", tag.value)
    [] OTHER                    -> Put(attrs, tag.key, tag.value)

\* setMqAttribute: a topic does not replace a queue.
SetMqAttribute(attrs, tag) ==
  CASE tag.key = "mq.queue"  -> Put(attrs, "messaging.destination.name", tag.value)
    [] tag.key = "mq.topic"  -> IF "messaging.destination.name" \in DOMAIN attrs THEN attrs
                                ELSE Put(attrs, "messaging.destination.name", tag.value)
    [] tag.key = "mq.broker" -> Put(attrs, "net.peer.name", tag.value)
    [] OTHER                 -> Put(attrs, tag.key, tag.value)

\* swToTags: what the span itself says, then its tags in order.
SwToTags(span, partial) ==
  LET peer == IF span.type = "Exit" THEN Put(NoAttributes, "net.peer.name", span.peer) ELSE NoAttributes
      rpc  == IF span.type = "Exit" /\ span.layer = "RPC"
              THEN Put(peer, "rpc.system", Component(partial, span.component)) ELSE peer
      mq   == IF span.layer = "MQ" /\ span.type \in {"Exit", "Entry"} /\ span.tags # <<>>
              THEN Put(rpc, "messaging.system", Component(partial, span.component)) ELSE rpc
      Set(attrs, tag) ==
        CASE tag.key \in CacheKey -> SetCacheAttribute(attrs, tag, span.type, partial)
          [] tag.key \in DbKey    -> SetDbAttribute(attrs, tag)
          [] tag.key \in MqKey    -> SetMqAttribute(attrs, tag)
          [] OTHER                -> Put(attrs, OtSpanTagsMapping(tag.key), tag.value)
  IN  FoldLeft(Set, mq, span.tags)

\* swTagsToInternalResource for every span: each clears what the ones before
\* it put, so the last span gives the resource its tags.
SwTagsToInternalResource(spans) ==
  LET Mapped(attrs, tag) ==
        CASE tag.key = "url"         -> Put(attrs, "http.url", tag.value)
          [] tag.key = "status_code" -> Put(attrs, "http.status_code", tag.value)
          [] OTHER                   -> attrs
  IN  FoldLeft(Mapped, NoAttributes, Last(spans).tags)

-----------------------------------------------------------------------------
(***************************************************************************)
(* Spans.                                                                  *)
(***************************************************************************)

\* The kind of a span; a local span of a message queue gets none.
SpanKind(span) ==
  CASE span.layer = "MQ" /\ span.type = "Entry" -> "Consumer"
    [] span.layer = "MQ" /\ span.type = "Exit"  -> "Producer"
    [] span.layer = "MQ" /\ span.type = "Local" -> "Unspecified"
    [] span.layer # "MQ" /\ span.type = "Exit"  -> "Client"
    [] span.layer # "MQ" /\ span.type = "Entry" -> "Server"
    [] OTHER                                    -> "Internal"

\* The empty span id: no parent.
NoParent == <<0, 0>>

\* The parent is in the segment, or the only reference, or unknown.
ParentSpanID(segmentID, span) ==
  IF span.parent # -1 THEN SegmentIDToSpanID(segmentID, span.parent)
  ELSE IF Len(span.refs) = 1
       THEN SegmentIDToSpanID(span.refs[1].segment, span.refs[1].span)
       ELSE NoParent

\* swReferencesToSpanLinks.
SwReferencesToSpanLinks(refs) ==
  [i \in DOMAIN refs |-> [trace |-> SwTraceIDToTraceID(refs[i].trace),
                          span |-> SegmentIDToSpanID(refs[i].segment, refs[i].span)]]

\* swLogsToSpanEvents: an event per log, with its pairs as attributes.
SwLogsToSpanEvents(logs) ==
  [i \in DOMAIN logs |-> FoldLeft(LAMBDA attrs, kv : Put(attrs, kv.key, kv.value), NoAttributes, logs[i])]

\* setInternalSpanStatus.
SpanStatus(span) == IF span.isError THEN "Error" ELSE "Ok"

\* swSpanToSpan, with setSwSpanIDToAttributes.
SwSpanToSpan(segment, span, partial) ==
  [ trace  |-> SwTraceIDToTraceID(segment.trace),
    id     |-> SegmentIDToSpanID(segment.id, span.id),
    parent |-> ParentSpanID(segment.id, span),
    name   |-> span.name,
    kind   |-> SpanKind(span),
    status |-> SpanStatus(span),
    events |-> SwLogsToSpanEvents(span.logs),
    links  |-> SwReferencesToSpanLinks(span.refs),
    attrs  |-> SwToTags(span, partial),
    sw     |-> [segment |-> segment.id, span |-> span.id] ]

\* ProtoToTraces and swSpansToSpanSlice: a resource and its spans.
ProtoToTraces(segment, pid, partial) ==
  [ resource |-> [tags |-> SwTagsToInternalResource(segment.spans), pid |-> pid],
    spans    |-> [i \in DOMAIN segment.spans |->
                    SwSpanToSpan(segment, segment.spans[i], partial)] ]
=============================================================================
