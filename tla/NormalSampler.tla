---------------------------- MODULE NormalSampler ----------------------------
(***************************************************************************)
(* Which spans are normal samples: SampleCache.GetSampleResult             *)
(* (internal/sampler/sample_cache.go) and SingleSampler.Sample             *)
(* (single_sampler.go) up to the two NoramlSamplers of normal_sampler.go.  *)
(*                                                                         *)
(* A span that is neither slow nor an error is sampled once per url: in    *)
(* every window by TopNormalTraceSampler, or when no trace of its url was  *)
(* stored for Wait seconds by AnyNormalTraceSampler.  Consumers load, then *)
(* store; the clean ticker ranges and deletes; nothing is locked.          *)
(*                                                                         *)
(* The url thresholds come from the receiver.  Times are kept relative to  *)
(* the clock.  A slow or erroneous span goes to Silent, which is modelled  *)
(* in its own module.                                                      *)
(***************************************************************************)
EXTENDS Integers

CONSTANTS
  Url,        \* pidUrls
  Caller,     \* consumer goroutines
  Samplers,   \* "top" and "any" of SampleCache, "single" for SingleSampler
  Duration,   \* durations of spans
  Threshold,  \* the values of the receiver's SlowThresholdData
  Ignore,     \* ignoreThreshold
  Default,    \* defaultSlowThreshold
  Wait        \* NormalSampleWaitTime, in seconds, > 0

VARIABLES
  sampler,          \* which of the samplers this is
  thresholdValues,  \* threshold per url; 0 when there is none
  collected,        \* collectedPidUrls: Absent, or seconds until the stored time
  nextWindow,       \* seconds until nextWindow; Absent when it is 0
  pc, url,          \* where a caller is, and the url of its span
  doomed,           \* the urls Check is about to delete
  taken,            \* observer: urls sampled in this window
  since,            \* observer: seconds since a trace of the url was stored
  raced             \* observer: urls with overlapping calls, or stored during Check

vars == <<sampler, thresholdValues, collected, nextWindow, pc, url, doomed, taken, since, raced>>

Absent == -2

\* The stored time has passed.
Past == -1

TypeOK ==
  /\ sampler \in Samplers
  /\ thresholdValues \in [Url -> Threshold \cup {0}]
  /\ collected \in [Url -> Absent .. Wait]
  /\ nextWindow \in {Absent} \cup 0 .. Wait
  /\ pc \in [Caller -> {"idle", "store"}]
  /\ url \in [Caller -> Url]
  /\ since \in [Url -> 0 .. Wait + 1]
  /\ doomed \in SUBSET Url /\ taken \in SUBSET Url /\ raced \in SUBSET Url

\* NewSampleCache, WithNormalSampler, NewSingleSampler and their parts.
Init ==
  /\ sampler \in Samplers
  /\ thresholdValues = [u \in Url |-> 0]
  /\ collected = [u \in Url |-> Absent]
  /\ nextWindow = Absent
  /\ pc = [c \in Caller |-> "idle"]
  /\ url = [c \in Caller |-> CHOOSE u \in Url : TRUE]
  /\ doomed = {} /\ taken = {} /\ raced = {}
  /\ since = [u \in Url |-> Wait + 1]

-----------------------------------------------------------------------------
\* getSlowThreshold.
SlowThreshold(u) == IF thresholdValues[u] = 0 THEN Default ELSE thresholdValues[u]

\* CheckSlow; SingleSampler never calls it and its spans are never slow.
IsSlow(u, duration) ==
  sampler # "single" /\ duration >= SlowThreshold(u) /\ duration >= Ignore

\* The span goes to the normal sampler: it is not ignored, not an error, not
\* slow, and the entry of its trace where only entries are sampled.
ToNormal(u, span) ==
  /\ ~span.isError
  /\ span.topSpan \/ span.duration >= Ignore
  /\ ~IsSlow(u, span.duration)
  /\ sampler = "top" => span.topSpan

Storing(u) == {c \in Caller : pc[c] = "store" /\ url[c] = u}

\* NoramlSampler.Sample, its Load: a collected url is not sampled again.
Sample(c, u, span) ==
  /\ pc[c] = "idle"
  /\ ToNormal(u, span)
  /\ collected[u] = Absent
  /\ pc' = [pc EXCEPT ![c] = "store"]
  /\ url' = [url EXCEPT ![c] = u]
  /\ raced' = IF Storing(u) = {} THEN raced ELSE raced \cup {u}
  /\ UNCHANGED <<sampler, thresholdValues, collected, nextWindow, doomed, taken, since>>

\* A slip to be noticed: the url is not stored by the sample itself.
StoreNothing(u) == collected[u]

\* What is stored for a url: true in the windows of TopNormalTraceSampler,
\* now + waitTime in AnyNormalTraceSampler.
StoreTime(u) == IF sampler = "any" THEN Wait ELSE 0

\* collectedPidUrls.Store by Sample or, after it, by UpdateTime.
Store(c) ==
  /\ pc[c] = "store"
  /\ LET u == url[c] IN
       /\ collected' = [collected EXCEPT ![u] = StoreTime(u)]
       /\ taken' = taken \cup {u}
       /\ since' = [since EXCEPT ![u] = 0]
       /\ raced' = IF u \in doomed \/ Storing(u) # {c} THEN raced \cup {u} ELSE raced \ {u}
  /\ pc' = [pc EXCEPT ![c] = "idle"]
  /\ UNCHANGED <<sampler, thresholdValues, nextWindow, url, doomed>>

\* UpdateTime for a trace that is stored for another reason: sampled as slow
\* or error, or picked by a tail-based sampler.
UpdateTime(u) ==
  /\ sampler = "any"
  /\ collected' = [collected EXCEPT ![u] = Wait]
  /\ since' = [since EXCEPT ![u] = 0]
  /\ raced' = IF u \in doomed \/ Storing(u) # {} THEN raced \cup {u} ELSE raced
  /\ UNCHANGED <<sampler, thresholdValues, nextWindow, pc, url, doomed, taken>>

\* updateSlowThreshold: only positive values are taken.
UpdateSlowThreshold(u, value) ==
  /\ value > 0
  /\ thresholdValues' = [thresholdValues EXCEPT ![u] = value]
  /\ UNCHANGED <<sampler, collected, nextWindow, pc, url, doomed, taken, since, raced>>

-----------------------------------------------------------------------------
\* A slip to be noticed: a url is free in the second it was stored for.
ExpiredEarly(u) == collected[u] \in {0, Past}

\* checkTime < now.
Expired(u) == collected[u] = Past

\* nextWindow = displayWindow + now, at first and when the window is over.
NextWindow == IF nextWindow \in {Absent, 0} THEN Wait ELSE nextWindow

\* NoramlSampler.Check, in CheckWindow of the tickers: its range ...
Check ==
  /\ doomed = {}
  /\ IF sampler = "any"
     THEN /\ doomed' = {u \in Url : Expired(u)}
          /\ UNCHANGED nextWindow
     ELSE /\ nextWindow' = NextWindow
          /\ doomed' = IF nextWindow = 0 THEN {u \in Url : collected[u] # Absent} ELSE {}
  /\ UNCHANGED <<sampler, thresholdValues, collected, pc, url, taken, since, raced>>

\* ... and its deletes.
Delete ==
  /\ doomed # {}
  /\ collected' = [u \in Url |-> IF u \in doomed THEN Absent ELSE collected[u]]
  /\ taken' = taken \ doomed
  /\ doomed' = {}
  /\ UNCHANGED <<sampler, thresholdValues, nextWindow, pc, url, since, raced>>

\* A second passes.
Second ==
  /\ nextWindow' = IF nextWindow > 0 THEN nextWindow - 1 ELSE nextWindow
  /\ collected' = [u \in Url |-> IF sampler = "any" /\ collected[u] >= 0 THEN collected[u] - 1 ELSE collected[u]]
  /\ since' = [u \in Url |-> IF since[u] <= Wait THEN since[u] + 1 ELSE since[u]]
  /\ UNCHANGED <<sampler, thresholdValues, pc, url, doomed, taken, raced>>

Span == [isError : BOOLEAN, topSpan : BOOLEAN, duration : Duration]

Next ==
  \/ \E c \in Caller, u \in Url, span \in Span : Sample(c, u, span)
  \/ \E c \in Caller : Store(c)
  \/ \E u \in Url : UpdateTime(u)
  \/ \E u \in Url, value \in Threshold : UpdateSlowThreshold(u, value)
  \/ Check \/ Delete \/ Second

Spec == Init /\ [][Next]_vars

-----------------------------------------------------------------------------
(***************************************************************************)
(* Properties.                                                             *)
(***************************************************************************)

\* A url gets one normal sample per window, or one after Wait seconds without
\* a stored trace, wherever the ticker comes between Load, Store, Range and
\* Delete; calls that overlap, and a Store while Check deletes the url, are
\* the exceptions.
NormalSpaced ==
  [][\A c \in Caller : Store(c) =>
       url[c] \in raced \/ IF sampler = "any" THEN since[url[c]] > Wait ELSE url[c] \notin taken]_vars

-----------------------------------------------------------------------------
(***************************************************************************)
(* The inductive invariant behind it.                                      *)
(***************************************************************************)

\* The time stored for a url says when a trace of it was stored.
TimeStored == sampler = "any" => \A u \in Url : collected[u] # Absent => since[u] = Wait - collected[u]

\* A url that is free was not sampled in this window, or not for Wait seconds.
FreeUrls ==
  \A u \in Url \ raced : collected[u] = Absent =>
    IF sampler = "any" THEN since[u] > Wait ELSE u \notin taken

\* What Check deletes is what it found expired.
DeletesExpired == sampler = "any" => \A u \in doomed \ raced : Expired(u)

\* The url of a sample that is about to be stored is still free.
StoringFree == \A c \in Caller : pc[c] = "store" => collected[url[c]] = Absent \/ url[c] \in raced

NormalInv == TypeOK /\ TimeStored /\ FreeUrls /\ DeletesExpired /\ StoringFree
=============================================================================
