------------------------------ MODULE MCEntryUrl ------------------------------
(***************************************************************************)
(* EntryUrl for TLC, as a part of the connector: its spans are those of    *)
(* the traces, its tick is the one that cleans, so that its names are      *)
(* apart from those of RedMetrics.                                         *)
(***************************************************************************)
EXTENDS Naturals

CONSTANTS
  Trace, TraceSpan, TraceOf, KindOf, ParentOf, Attributed, NoSpan, Unknown,
  CacheUrlTime, ExpireTime

VARIABLES
  entryUrlMap, idBatch, idBuckets, writeIndex, array, len, cleanTick, toCleanIds,
  size, expireIndex, view, aliased, arrived, counted, held, raced

EU == INSTANCE EntryUrl WITH Span <- TraceSpan, tick <- cleanTick

ASSUME EntryUrlAssumption == EU!Configured

EntryUrlSpec == EU!FairSpec

\* The properties of EntryUrl: no span waits although its url is known, each
\* is counted once unless a match races the tick, mappings are kept for their
\* time, and every exit span is settled.
NoneWaitsInVain == EU!NoneWaitsInVain
CountedOnceUnlessRaced == EU!CountedOnceUnlessRaced
MappingsKept == EU!MappingsKept
ExitSpansSettle == EU!ExitSpansSettle

(***************************************************************************)
(* Trace t1: entry e, which has no pid, the inner span i below it and the  *)
(* exit span x below i.  Trace t2: the exit span r as root and the exit    *)
(* span z below it, which has no entry.                                    *)
(***************************************************************************)
MCTrace == {"t1", "t2"}
MCSpan == {"e", "i", "x", "r", "z"}
MCAttributed == MCSpan \ {"e"}
MCTraceOf == [s \in MCSpan |-> IF s \in {"r", "z"} THEN "t2" ELSE "t1"]
MCKindOf == [s \in MCSpan |-> CASE s = "e" -> "entry" [] s = "i" -> "inner" [] OTHER -> "exit"]
MCParentOf ==
  [s \in MCSpan |-> CASE s = "i" -> "e" [] s = "x" -> "i" [] s = "z" -> "r" [] OTHER -> NoSpan]
=============================================================================
