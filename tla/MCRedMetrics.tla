---------------------------- MODULE MCRedMetrics ----------------------------
(***************************************************************************)
(* RedMetrics for TLC.  Spans: server spans of three services, which       *)
(* exceed the cache and the limit of tracked services; one of them is a    *)
(* consumer span that counts for the mq table too; one db and one external *)
(* call.                                                                   *)
(***************************************************************************)
EXTENDS RedMetrics

Server(service, calls) ==
  [isServer |-> TRUE, service |-> service, name |-> "op", calls |-> calls]
Client(key) == [isServer |-> FALSE, service |-> "a", name |-> "op", calls |-> {key}]

DbKey == <<"db", "select">>
ExternalKey == <<"external", "get">>
MqKey == <<"mq", "topic">>

CallKeys == {DbKey, ExternalKey, MqKey}
Spans == {Server("a", {}), Server("b", {}), Server("c", {MqKey}),
          Client(DbKey), Client(ExternalKey)}
=============================================================================
