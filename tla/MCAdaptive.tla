----------------------------- MODULE MCAdaptive -----------------------------
(***************************************************************************)
(* Adaptive for TLC: groups of one trace and one url, where everything     *)
(* meets.  The trace id ends in a 1 bit: it is kept at sample value 0 and  *)
(* not at any other.                                                       *)
(***************************************************************************)
EXTENDS Adaptive

CONSTANT u1

OneTrace == [g \in Data |-> CHOOSE k \in Key : TRUE]

OddBits == [k \in Key |-> 1]

\* A slow span, an entry span, an inner one.
SomeGroups ==
  LET span(slow, url) == [slow |-> slow, url |-> url]
  IN  {<<span(TRUE, NoUrl)>>, <<span(FALSE, u1)>>, <<span(FALSE, NoUrl)>>}
=============================================================================
