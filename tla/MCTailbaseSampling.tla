-------------------------- MODULE MCTailbaseSampling --------------------------
(***************************************************************************)
(* TailbaseSampling for TLC: spans of one trace, which is where lookups,   *)
(* writes and samples meet.  That traces do not disturb each other in the  *)
(* shared ring of buckets is what MCSpanCache checks.                      *)
(***************************************************************************)
EXTENDS TailbaseSampling, TLC

OneTrace == [s \in Data |-> CHOOSE k \in Key : TRUE]

Symmetry == Permutations(Data)
=============================================================================
