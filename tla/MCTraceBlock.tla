---------------------------- MODULE MCTraceBlock ----------------------------
(***************************************************************************)
(* TraceBlock for TLC: consumers that meet at one trace.                   *)
(***************************************************************************)
EXTENDS TraceBlock
=============================================================================
