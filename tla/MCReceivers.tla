----------------------------- MODULE MCReceivers -----------------------------
(***************************************************************************)
(* The receivers for TLC: the segments and the write requests.             *)
(***************************************************************************)
EXTENDS Receivers, Sequences, TLC, Bitwise

\* Words of two bits.
MCWord == 0 .. 3
MCXor(x, y) == x ^^ y

(***************************************************************************)
(* The segments: the two of an Undertow request, one of a message queue    *)
(* whose topic tag comes before and after the queue, and one of a cache, a *)
(* database and an rpc client.                                             *)
(***************************************************************************)
Id(thread, number) ==
  [form |-> "full", start |-> <<1, 2, 3, 0>>, mid |-> thread, last |-> <<number, 1>>]

T == [form |-> "start", start |-> <<3, 1, 2, 2>>]

Ref(id, span) == [trace |-> T, segment |-> id, span |-> span]

Span(id, parent, type, layer, component, name, refs, tags) ==
  [ id |-> id, parent |-> parent, type |-> type, layer |-> layer, component |-> component,
    name |-> name, peer |-> "peer", refs |-> refs, tags |-> tags, isError |-> FALSE,
    logs |-> <<tags>> ]

Tag(key, value) == [key |-> key, value |-> value]

Queue == Tag("mq.queue", "queue")
Topic == Tag("mq.topic", "topic")

io == [trace |-> T, id |-> Id(0, 0), spans |-> <<
  Span(0, -1, "Entry", "Http", "Undertow", "/", <<>>, <<Tag("url", "/")>>) >>]

task == [trace |-> T, id |-> Id(1, 0), spans |-> <<
  Span(1, 0, "Entry", "Http", "SpringMVC", "/route", <<>>, <<>>),
  Span(0, -1, "Local", "Http", "Undertow", "UndertowDispatch", <<Ref(io.id, 0)>>, <<>>) >>]

mq == [trace |-> T, id |-> Id(2, 1), spans |-> <<
  Span(1, 0, "Exit", "MQ", "Kafka", "send", <<>>, <<Topic, Queue, Tag("mq.broker", "b")>>),
  Span(2, 0, "Exit", "MQ", "Kafka", "send", <<>>, <<Queue, Topic>>),
  Span(0, -1, "Entry", "MQ", "Kafka", "receive", <<Ref(task.id, 1), Ref(io.id, 0)>>, <<>>) >>]

client == [trace |-> T, id |-> Id(2, 3), spans |-> <<
  Span(1, 0, "Exit", "Cache", "Jedis", "get", <<>>,
       <<Tag("cache.type", "Redis"), Tag("cache.cmd", "get"), Tag("cache.op", "read")>>),
  Span(2, 0, "Exit", "Db", "Mysql", "query", <<>>, <<Tag("db.type", "sql"), Tag("db.statement", "sql")>>),
  Span(0, -1, "Exit", "RPC", "Dubbo", "call", <<Ref(task.id, 1)>>, <<>>) >>]

MCSegment == {io, task, mq, client}

\* Their ids are such that spans get ids of their own.
ASSUME IdsAssumption == SW!IdsWellFormed

(***************************************************************************)
(* The write requests: three with enough samples to fill hand, channel and *)
(* a handler that waits, or three that are refused.                        *)
(***************************************************************************)
TimeSeries(name, label, samples) == [name |-> name, label |-> label, samples |-> samples]
Sample(v, t) == [v |-> v, t |-> t]

Good == [decodes |-> TRUE, metadata |-> FALSE, series |->
  << TimeSeries("_total", "", <<Sample("int", 1), Sample("nan", 2)>>), TimeSeries("g", "", <<Sample("float", 3)>>) >>]
\* No number, and a series whose name is there and empty.
NoNumber == [Good EXCEPT !.series =
  << TimeSeries("q", "quantile", <<Sample("nan", 1)>>), TimeSeries("", "le", <<Sample("float", 2), Sample("nan", 2)>>) >>]
Wrong == [Good EXCEPT !.series =
  << TimeSeries(NoOne, "", <<Sample("nan", 1)>>), TimeSeries("_bucket", "le", <<>>) >>]
Empty == [Good EXCEPT !.series = <<>>]

MCWrite == {"w1", "w2", "w3"}
MCContent ==
  { ("w1" :> Good) @@ ("w2" :> Good) @@ ("w3" :> NoNumber),
    ("w1" :> Empty) @@ ("w2" :> [Empty EXCEPT !.decodes = FALSE]) @@ ("w3" :> Wrong) }
=============================================================================
