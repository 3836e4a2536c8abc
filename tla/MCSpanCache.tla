---------------------------- MODULE MCSpanCache ----------------------------
(***************************************************************************)
(* SpanCache for TLC.  Two keys share a bucket or not, and with Size = 2   *)
(* the ring of three buckets wraps while entries are merged, picked and    *)
(* expired.                                                                *)
(***************************************************************************)
EXTENDS SpanCache
=============================================================================
