----------------------------- MODULE MCFillProc -----------------------------
(***************************************************************************)
(* FillProc for TLC: two pids, so that a pid and an address can pass from  *)
(* one process to another while the ticker reads.                          *)
(***************************************************************************)
EXTENDS FillProc
=============================================================================
