------------------------------- MODULE EntryUrl -------------------------------
(***************************************************************************)
(* redmetricsconnector with client_entry_url_enabled: an exit span (client *)
(* or producer) is counted under the url of the entry span (server or      *)
(* consumer) above it, entry_url_mapping.go and bucket.go.                 *)
(*                                                                         *)
(* A consumer records the entry and inner spans of its batch per trace and *)
(* hands out the exit spans that are matched; the others wait in           *)
(* unMatchedSpans.  All that happens under cache.lock (one step here), and *)
(* the spans handed out are counted after it.                              *)
(*                                                                         *)
(* A tick (cleanUnMatcheOnTick) drops the mappings of the traces recorded  *)
(* CacheUrlTime ticks ago and counts the exit spans that waited too long   *)
(* as "_unknown_".  It reads unMatchedSpans without the lock while         *)
(* consumers delete from the middle of the same array.  array stands for   *)
(* the cells of that array, of which the first len are the slice; the view *)
(* unMatchedSpans[0:expireIndex] shares them until an append moves the     *)
(* slice to a larger array.  A read of the slice header sees one written   *)
(* before: the words of two headers differ in no cell that is read.        *)
(***************************************************************************)
EXTENDS Integers, Sequences, FiniteSets, SequencesExt

CONSTANTS
  Trace,         \* trace ids
  Span,          \* spans
  TraceOf,       \* the trace of a span
  KindOf,        \* "entry", "inner" or "exit"
  ParentOf,      \* the parent of a span, or NoSpan for a root
  Attributed,    \* the spans whose resource has a pid and a service name
  NoSpan,
  Unknown,       \* "_unknown_"
  CacheUrlTime,  \* cache_entry_url_time, in ticks
  ExpireTime     \* unmatch_url_expire_time, in seconds

\* What the constants are.  Parents make no cycle: the spans can be numbered
\* upwards.
Configured ==
  /\ CacheUrlTime \in Nat
  /\ ExpireTime \in Nat
  /\ IsFiniteSet(Span)
  /\ TraceOf \in [Span -> Trace]
  /\ KindOf \in [Span -> {"entry", "inner", "exit"}]
  /\ ParentOf \in [Span -> Span \cup {NoSpan}]
  /\ Attributed \subseteq Span
  /\ NoSpan \notin Span /\ Unknown \notin Span
  /\ \E number \in [Span \cup {NoSpan} -> 0 .. Cardinality(Span)] :
       \A s \in Span : number[ParentOf[s]] < number[s]

Entry == {s \in Span : KindOf[s] = "entry"}
Exit == {s \in Span : KindOf[s] = "exit"}

VARIABLES
  entryUrlMap,   \* per trace with a mapping: its entry and inner spans
  idBatch,       \* trace ids recorded since the last tick
  idBuckets, writeIndex,
  array, len,    \* unMatchedSpans: waiting spans with their age in seconds
  tick,          \* where the tick is
  toCleanIds,
  size, expireIndex,     \* of CleanUnMatchedSpans
  view, aliased, \* unknownSpans, and whether it still shares the array
  arrived,       \* the spans that have come
  counted,       \* observer: what a span was counted under, in order
  held,          \* observer: ticks begun since a trace was recorded
  raced          \* observer: a waiting span was matched while a tick read

mapVars == <<entryUrlMap, idBatch, idBuckets, writeIndex, toCleanIds, held>>
queueVars == <<array, len, size, expireIndex, view, aliased>>
observers == <<arrived, counted, raced>>
vars == <<mapVars, queueVars, tick, observers>>

Waiting == [span : Exit, age : 0 .. ExpireTime + 1]

TypeOK ==
  /\ DOMAIN entryUrlMap \subseteq Trace
  /\ \A t \in DOMAIN entryUrlMap : entryUrlMap[t] \subseteq Span \ Exit
  /\ idBatch \subseteq Trace
  /\ idBuckets \in [0 .. CacheUrlTime -> SUBSET Trace]
  /\ writeIndex \in 0 .. CacheUrlTime
  /\ toCleanIds \subseteq Trace
  /\ array \in Seq(Waiting) /\ view \in Seq(Waiting)
  /\ len \in 0 .. Len(array)
  /\ tick \in {"idle", "delete", "begin", "scan", "view", "cut", "panic"}
  /\ size \in Nat /\ expireIndex \in 0 .. size
  /\ aliased \in BOOLEAN /\ raced \in BOOLEAN
  /\ arrived \subseteq Span
  /\ counted \in [Span -> Seq(Entry \cup Exit \cup {Unknown})]
  /\ held \in [DOMAIN entryUrlMap -> 0 .. CacheUrlTime + 1]

Init ==
  /\ entryUrlMap = [t \in {} |-> {}]
  /\ idBatch = {}
  /\ idBuckets = [i \in 0 .. CacheUrlTime |-> {}]
  /\ writeIndex = CacheUrlTime
  /\ toCleanIds = {}
  /\ held = [t \in {} |-> 0]
  /\ array = << >> /\ len = 0
  /\ size = 0 /\ expireIndex = 0
  /\ view = << >> /\ aliased = FALSE
  /\ tick = "idle"
  /\ arrived = {}
  /\ counted = [s \in Span |-> << >>]
  /\ raced = FALSE

-----------------------------------------------------------------------------
(***************************************************************************)
(* GetMatchedResourceSpans and the counting of what it returns.            *)
(***************************************************************************)

\* groupSpansByTraceId.
OfTrace(batch, t) == {s \in batch : TraceOf[s] = t}

\* AddMapping: entry spans with their name, inner spans with their parent.
AddMapping(mapping, spans) == mapping \cup (spans \ Exit)

\* The mappings with the spans of a batch.
Recorded(batch) ==
  [t \in DOMAIN entryUrlMap \cup {TraceOf[s] : s \in batch} |->
     AddMapping(IF t \in DOMAIN entryUrlMap THEN entryUrlMap[t] ELSE {}, OfTrace(batch, t))]

\* GetEntrySpanName: up through the inner spans that are recorded.  The url
\* is represented by the entry span, "" by NoSpan.
GetEntrySpanName(mapping, spanId) ==
  LET entry[s \in Span \cup {NoSpan}] ==
        IF s \notin mapping THEN NoSpan
        ELSE IF s \in Entry THEN s ELSE entry[ParentOf[s]]
  IN  entry[spanId]

\* The url of an exit span as far as the mappings m know.
UrlIn(m, s) == GetEntrySpanName(m[TraceOf[s]], ParentOf[s])

\* A slip to be noticed: only the parents that come with the batch are tried.
FoundDirectly(m, batch, s) == ParentOf[s] \in batch /\ UrlIn(m, s) # NoSpan

\* Whether a waiting span is matched: its trace is in the batch and its url is
\* known by now.
Found(m, batch, s) == OfTrace(batch, TraceOf[s]) # {} /\ UrlIn(m, s) # NoSpan

\* The slice, and the places in it that stay when the matched spans go.
Slice == SubSeq(array, 1, len)
Stay(matched) == {i \in 1 .. len : array[i].span \notin matched}

\* The elements of a set of places in order.
Places(S) ==
  {place \in Bijection(1 .. Cardinality(S), S) :
     \A i, j \in 1 .. Cardinality(S) : i < j => place[i] < place[j]}

\* The cells after all matched spans were deleted: each deletion shifts the
\* rest, and the cells left behind keep the last span.
Deleted(place) ==
  [i \in DOMAIN array |-> CASE i \in DOMAIN place -> array[place[i]]
                            [] i \in 1 .. len \ DOMAIN place -> array[len]
                            [] OTHER -> array[i]]

\* append: overwrites the cells behind the first n, and goes on behind them.
Appended(cells, n, new) ==
  [i \in DOMAIN cells \cup n + 1 .. n + Len(new) |->
     IF i \in n + 1 .. n + Len(new) THEN new[i - n] ELSE cells[i]]

\* CleanUnMatchedSpans is between its first read and its cut.
Reading == tick \in {"scan", "view", "cut"}

\* The cells behind the slice matter to a tick that is reading only.
SetSlice(cells, n) ==
  /\ array' = IF Reading THEN cells ELSE SubSeq(cells, 1, n)
  /\ len' = n
  /\ aliased' \in IF aliased /\ Len(cells) > Len(array) THEN BOOLEAN ELSE {aliased}
  /\ view' = IF aliased THEN SubSeq(cells, 1, Len(view)) ELSE view
  /\ UNCHANGED <<size, expireIndex>>

\* The waiting spans that are matched now.
Matched(m, batch) == {w.span : w \in {v \in Range(Slice) : Found(m, batch, v.span)}}

\* The spans of a batch that have to wait.
Late(m, batch) ==
  {s \in batch \cap Attributed \cap Exit : ParentOf[s] # NoSpan /\ UrlIn(m, s) = NoSpan}

\* The spans handed out, and what they are counted under: entry spans and exit
\* spans without a parent under their own name, the others under their url.
HandedOut(m, batch) ==
  Matched(m, batch) \cup ((batch \cap Attributed \cap (Entry \cup Exit)) \ Late(m, batch))
NameOf(m, s) == IF s \in Entry \/ ParentOf[s] = NoSpan THEN s ELSE UrlIn(m, s)

\* The matched spans leave the slice, then the late ones join it, in the order
\* of the batch.
Requeue(matched, late) ==
  \E place \in Places(Stay(matched)), order \in Bijection(1 .. Cardinality(late), late) :
    LET new == [i \in 1 .. Cardinality(late) |-> [span |-> order[i], age |-> 0]]
    IN  SetSlice(Appended(Deleted(place), Len(place), new), Len(place) + Len(new))

\* A batch of spans comes.  Traces seen for the first time are recorded for
\* the buckets (AddToBatch).  Waiting spans that are matched now are handed
\* out, then the spans of the batch that need not wait, and counted.
Consume(batch) ==
  LET m == Recorded(batch)
      matched == Matched(m, batch)
  IN  /\ batch # {} /\ batch \subseteq Span \ arrived
      /\ tick # "panic"
      /\ entryUrlMap' = m
      /\ held' = [t \in DOMAIN m |-> IF t \in DOMAIN held THEN held[t] ELSE 0]
      /\ idBatch' = idBatch \cup (DOMAIN m \ DOMAIN entryUrlMap)
      /\ Requeue(matched, Late(m, batch))
      /\ counted' = [s \in Span |-> IF s \in HandedOut(m, batch) THEN Append(counted[s], NameOf(m, s))
                                                                 ELSE counted[s]]
      /\ arrived' = arrived \cup batch
      /\ raced' = (raced \/ (Reading /\ matched # {}))
      /\ UNCHANGED <<idBuckets, writeIndex, toCleanIds, tick>>

-----------------------------------------------------------------------------
(***************************************************************************)
(* cleanUnMatcheOnTick.                                                    *)
(***************************************************************************)

\* A slip to be noticed: the index wraps at the configured time.
NextIndexShort == IF writeIndex + 1 >= CacheUrlTime THEN 0 ELSE writeIndex + 1

\* writeIndex of the next tick.
NextIndex == IF writeIndex + 1 > CacheUrlTime THEN 0 ELSE writeIndex + 1

\* "Clean Data in buckets."
Emptied(buckets) == [buckets EXCEPT ![NextIndex] = {}]

\* CopyAndGetBatch.
CopyAndGetBatch ==
  LET buckets == [idBuckets EXCEPT ![writeIndex] = idBatch]
  IN  /\ toCleanIds' = buckets[NextIndex]
      /\ idBuckets' = Emptied(buckets)
      /\ writeIndex' = NextIndex

\* PickBatch: the recorded ids are taken over, under a lock of their own.
PickBatch == idBatch' = {}

\* CleanExpireBuckets up to the lock.
CleanExpireBuckets ==
  /\ tick = "idle"
  /\ PickBatch
  /\ CopyAndGetBatch
  /\ held' = [t \in DOMAIN held |-> held[t] + 1]
  /\ tick' = IF toCleanIds' = {} THEN "begin" ELSE "delete"
  /\ UNCHANGED <<entryUrlMap, queueVars, observers>>

\* The traces that keep their mapping.
Kept == DOMAIN entryUrlMap \ toCleanIds

\* ... and under the lock.
DeleteMappings ==
  /\ tick = "delete"
  /\ entryUrlMap' = [t \in Kept |-> entryUrlMap[t]]
  /\ held' = [t \in Kept |-> held[t]]
  /\ toCleanIds' = {}
  /\ tick' = "begin"
  /\ UNCHANGED <<idBatch, idBuckets, writeIndex, queueVars, observers>>

\* A slip to be noticed: a single waiting span is left alone.
AtMostOneWaits == len <= 1

\* len(unMatchedSpans) == 0
NothingWaits == len = 0

\* CleanUnMatchedSpans reads the number of waiting spans, without the lock.
BeginScan ==
  /\ tick = "begin"
  /\ tick' = IF NothingWaits THEN "idle" ELSE "scan"
  /\ size' = len
  /\ expireIndex' = 0
  /\ UNCHANGED <<mapVars, array, len, view, aliased, observers>>

\* The end of a tick; what is behind the slice does not matter any more.
EndTick(slice) ==
  /\ array' = slice
  /\ len' = Len(slice)
  /\ size' = 0 /\ expireIndex' = 0
  /\ view' = << >> /\ aliased' = FALSE
  /\ tick' = "idle"
  /\ UNCHANGED mapVars

\* The process ends: a slice is indexed out of its range.
Panic ==
  /\ tick' = "panic"
  /\ UNCHANGED <<mapVars, queueVars, observers>>

\* ExpireTime < now.
IsExpired(w) == w.age > ExpireTime

\* One round of the loop: the next span is read, without the lock.
ScanNext ==
  /\ tick = "scan"
  /\ expireIndex < size
  /\ \/ /\ expireIndex >= len
        /\ Panic
     \/ /\ expireIndex < len
        /\ IsExpired(array[expireIndex + 1])
        /\ expireIndex' = expireIndex + 1
        /\ UNCHANGED <<mapVars, tick, array, len, size, view, aliased, observers>>

\* The loop ends after size spans or at the first one that may wait on.
EndScan ==
  /\ tick = "scan"
  /\ expireIndex = size \/ (expireIndex < len /\ ~IsExpired(array[expireIndex + 1]))
  /\ \/ /\ expireIndex = 0
        /\ EndTick(Slice)
     \/ /\ expireIndex > 0
        /\ tick' = "view"
        /\ UNCHANGED <<mapVars, queueVars>>
  /\ UNCHANGED observers

\* unknownSpans := unMatchedSpans[0:expireIndex], cells behind the slice too.
TakeView ==
  /\ tick = "view"
  /\ view' = SubSeq(array, 1, expireIndex)
  /\ aliased' = TRUE
  /\ tick' = "cut"
  /\ UNCHANGED <<mapVars, array, len, size, expireIndex, observers>>

\* A slip to be noticed: the spans counted as unknown stay in the queue.
NothingCut == Slice

\* unMatchedSpans[expireIndex:]
Remaining == SubSeq(array, expireIndex + 1, len)

\* The places of a span in the view.
At(s) == {i \in DOMAIN view : view[i].span = s}

\* Under the lock the slice is cut; the spans of the view, which nobody else
\* refers to now, are counted as unknown.
Cut ==
  /\ tick = "cut"
  /\ \/ /\ expireIndex > len
        /\ Panic
     \/ /\ expireIndex <= len
        /\ EndTick(Remaining)
        /\ counted' = [s \in Span |-> counted[s] \o [n \in 1 .. Cardinality(At(s)) |-> Unknown]]
        /\ UNCHANGED <<arrived, raced>>

Tick == CleanExpireBuckets \/ DeleteMappings \/ BeginScan \/ ScanNext \/ EndScan \/ TakeView \/ Cut

\* A second passes.  A scan compares with the time read before it.
Second ==
  /\ tick \notin {"scan", "panic"}
  /\ array' = [i \in DOMAIN array |->
                 [array[i] EXCEPT !.age = IF @ <= ExpireTime THEN @ + 1 ELSE @]]
  /\ UNCHANGED <<mapVars, tick, len, size, expireIndex, view, aliased, observers>>

Next ==
  \/ \E batch \in SUBSET Span : Consume(batch)
  \/ Tick
  \/ Second

Spec == Init /\ [][Next]_vars

\* The ticker fires, its goroutine runs and time passes, if not within a scan
\* then after it.
FairSpec == Spec /\ WF_vars(Tick) /\ SF_vars(Second)

-----------------------------------------------------------------------------
(***************************************************************************)
(* Properties.                                                             *)
(***************************************************************************)

\* A mapping serves late exit spans for cache_entry_url_time ticks after the
\* one that picked its id up, and goes then.
MappingsKept ==
  [][\A t \in DOMAIN entryUrlMap :
       t \notin DOMAIN entryUrlMap' => held[t] = CacheUrlTime + 1]_vars

\* No exit span waits although its url is known.
NoneWaitsInVain ==
  \A w \in Range(Slice) :
    TraceOf[w.span] \in DOMAIN entryUrlMap => UrlIn(entryUrlMap, w.span) = NoSpan

\* The spans of entry and exit kind that came with a pid and a service.
Countable == arrived \cap Attributed \cap (Entry \cup Exit)

\* How often a span was counted or is waiting to be.
Accounted(s) == Len(counted[s]) + Cardinality({i \in 1 .. len : array[i].span = s})

\* Every span is counted exactly once, under a url or as unknown, or waits -
\* unless a waiting span is matched while a tick is reading the queue.
CountedOnceUnlessRaced ==
  ~raced => \A s \in Span : Accounted(s) = IF s \in Countable THEN 1 ELSE 0

\* Every exit span is counted in the end, with the same exception.
ExitSpansSettle ==
  \A s \in Exit \cap Attributed : (s \in arrived) ~> (counted[s] # << >> \/ raced)

-----------------------------------------------------------------------------
(***************************************************************************)
(* The inductive invariants: of the mappings, and of the queue.            *)
(***************************************************************************)

\* How many ticks ago the ids of a bucket were picked up.
Picked(i) == IF i < writeIndex THEN writeIndex - i ELSE writeIndex - i + CacheUrlTime + 1

\* Every mapping is listed, where its age says: it can be found again when its
\* time is over.
MappingsListed ==
  \A t \in DOMAIN entryUrlMap :
    t \in idBatch \/ t \in toCleanIds \/ \E i \in 0 .. CacheUrlTime : t \in idBuckets[i]

\* An id is listed once, as one of a mapping of the age its list stands for.
ListedByAge ==
  /\ \A t \in idBatch : t \in DOMAIN entryUrlMap /\ held[t] = 0
  /\ \A i \in 0 .. CacheUrlTime : \A t \in idBuckets[i] :
       i # writeIndex /\ t \in DOMAIN entryUrlMap /\ held[t] = Picked(i)
  /\ \A t \in toCleanIds : t \in DOMAIN entryUrlMap /\ held[t] = CacheUrlTime + 1
  /\ toCleanIds # {} => tick = "delete"

\* A span waits once, and only exit spans that have come wait.
WaitingOnce ==
  /\ \A i, j \in 1 .. len : array[i].span = array[j].span => i = j
  /\ \A i \in 1 .. len : array[i].span \in arrived \cap Attributed

\* A tick that reads has not seen more than there is, and unless a match
\* raced it, it still is there.
ReadsAhead ==
  /\ Reading => size <= Len(array)
  /\ Reading /\ ~raced => size <= len
  /\ tick \notin {"cut", "panic"} => view = << >> /\ ~aliased
  /\ tick = "cut" =>
       /\ Len(view) = expireIndex
       /\ ~raced => \A i \in 1 .. expireIndex : view[i].span = array[i].span

\* Without a race a span that is not waiting was counted once.
Waits(s) == \E i \in 1 .. len : array[i].span = s
CountedOrWaits ==
  ~raced => \A s \in Span : Len(counted[s]) = IF s \in Countable /\ ~Waits(s) THEN 1 ELSE 0

MappingInv == MappingsListed /\ ListedByAge
QueueInv == WaitingOnce /\ ReadsAhead /\ CountedOrWaits /\ NoneWaitsInVain
EntryUrlInv == TypeOK /\ MappingInv /\ QueueInv
=============================================================================
