------------------------------ MODULE SpanCache ------------------------------
(***************************************************************************)
(* The two-stage cache of pkg/processor/backsamplingprocessor/internal/    *)
(* cache/cache.go.                                                         *)
(*                                                                         *)
(* A WriteableCache collects what the consumer goroutines write, under a   *)
(* mutex.  Once per second ONE ticker goroutine takes everything           *)
(* (GetAndReset), copies it into a ReadableCache (Copy), picks the entries *)
(* of the sampled trace ids out of it (PickMatchData, PickMatchDatas) and  *)
(* throws the oldest entries away (CleanExpireDatas).  The ReadableCache   *)
(* has no lock: only that goroutine touches it.  cleanCacheOnTick and      *)
(* PickSampledTraces both call the operations in this order, which the     *)
(* variable phase records.                                                 *)
(*                                                                         *)
(* A ReadableCache finds its oldest entries through a ring of Size + 1     *)
(* buckets of keys: every entry remembers in index the bucket of its last  *)
(* write, and a bucket may still list keys that were picked or written     *)
(* again since.                                                            *)
(*                                                                         *)
(* A Go slice []T of a key is modelled by the set of its data: a datum is  *)
(* a pointer to one span, written once.  A key is in a Go map iff its set  *)
(* is not empty (Write never leaves an empty slice behind).                *)
(***************************************************************************)
EXTENDS Naturals

CONSTANTS
  Key,    \* trace ids
  Data,   \* spans (*model.TraceLabels or *OtelTrace)
  Size    \* the argument size of NewReadableCache: seconds to hold an entry

ASSUME SizeAssumption == Size \in Nat

VARIABLES
  writeCache,   \* WriteableCache.cache
  batch,        \* the map GetAndReset returned, until Copy has read it
  cache,        \* ReadableCache.cache
  buckets,      \* ReadableCache.buckets
  readIndex,    \* ReadableCache.readIndex
  writeIndex,   \* ReadableCache.writeIndex
  picked,       \* what the last PickMatchDatas returned
  phase         \* where the ticker goroutine is

vars == <<writeCache, batch, cache, buckets, readIndex, writeIndex, picked, phase>>

Index == 0 .. Size

\* CacheData: the data of a key and the bucket of its last write.
CacheData == [datas : SUBSET Data, index : Index]

\* A key that is not in the map.
NoData == [datas |-> {}, index |-> 0]

Cached(k) == cache[k].datas # {}

NoDatas == [k \in Key |-> {}]

\* c.writeIndex++ and c.readIndex++ with their wrap-around.
NextIndex(i) == IF i + 1 >= Size + 1 THEN 0 ELSE i + 1

\* A span that is nowhere in the caches: the next one a consumer writes.
Fresh(d) == \A k \in Key : d \notin writeCache[k] \cup batch[k] \cup cache[k].datas

TypeOK ==
  /\ writeCache \in [Key -> SUBSET Data]
  /\ batch \in [Key -> SUBSET Data]
  /\ cache \in [Key -> CacheData]
  /\ buckets \in [Index -> SUBSET Key]
  /\ readIndex \in Index
  /\ writeIndex \in Index
  /\ picked \in SUBSET Data
  /\ phase \in {"idle", "reset", "copied"}

-----------------------------------------------------------------------------
\* NewWriteableCache and NewReadableCache.
Init ==
  /\ writeCache = NoDatas
  /\ batch = NoDatas
  /\ cache = [k \in Key |-> NoData]
  /\ buckets = [i \in Index |-> {}]
  /\ readIndex = 0
  /\ writeIndex = Size
  /\ picked = {}
  /\ phase = "idle"

\* WriteableCache.Write, by any consumer goroutine at any time.
Write(key, data) ==
  /\ Fresh(data)
  /\ writeCache' = [writeCache EXCEPT ![key] = @ \cup {data}]
  /\ UNCHANGED <<batch, cache, buckets, readIndex, writeIndex, picked, phase>>

\* WriteableCache.GetAndReset: the ticker goroutine starts its work.
GetAndReset ==
  /\ phase = "idle"
  /\ batch' = writeCache
  /\ writeCache' = NoDatas
  /\ phase' = "reset"
  /\ UNCHANGED <<cache, buckets, readIndex, writeIndex, picked>>

\* A slip to be noticed: merge forgets cache.index = index.
MergeKeepsIndex(cacheData, datas) ==
  [datas |-> cacheData.datas \cup datas,
   index |-> IF cacheData.datas = {} THEN writeIndex ELSE cacheData.index]

\* A slip to be noticed: the new data replace the old ones.
MergeOverwrites(cacheData, datas) == [datas |-> datas, index |-> writeIndex]

\* newCacheData and CacheData.merge: the data join those of the key, the
\* entry moves to the bucket being written.
Merge(cacheData, datas) ==
  [datas |-> cacheData.datas \cup datas, index |-> writeIndex]

\* ReadableCache.Copy.
Copy ==
  /\ phase = "reset"
  /\ cache' = [k \in Key |-> IF batch[k] # {} THEN Merge(cache[k], batch[k]) ELSE cache[k]]
  /\ buckets' = [buckets EXCEPT ![writeIndex] = {k \in Key : batch[k] # {}}]
  /\ writeIndex' = NextIndex(writeIndex)
  /\ batch' = NoDatas
  /\ phase' = "copied"
  /\ UNCHANGED <<writeCache, readIndex, picked>>

\* A slip to be noticed: what was picked stays in the map.
PickKeepsEntries(keys) ==
  /\ phase = "copied"
  /\ picked' = UNION {cache[k].datas : k \in keys}
  /\ UNCHANGED <<writeCache, batch, cache, buckets, readIndex, writeIndex, phase>>

\* ReadableCache.PickMatchDatas, and PickMatchData for a single key.
PickMatchDatas(keys) ==
  /\ phase = "copied"
  /\ picked' = UNION {cache[k].datas : k \in keys}
  /\ cache' = [k \in Key |-> IF k \in keys THEN NoData ELSE cache[k]]
  /\ UNCHANGED <<writeCache, batch, buckets, readIndex, writeIndex, phase>>

\* The keys of the oldest bucket whose last write really was that bucket.
Expiring == {k \in buckets[readIndex] : Cached(k) /\ cache[k].index = readIndex}

\* ReadableCache.CleanExpireDatas.
CleanExpireDatas ==
  /\ phase = "copied"
  /\ cache' = [k \in Key |-> IF k \in Expiring THEN NoData ELSE cache[k]]
  /\ readIndex' = NextIndex(readIndex)
  /\ picked' = {}
  /\ phase' = "idle"
  /\ UNCHANGED <<writeCache, batch, buckets, writeIndex>>

Next ==
  \/ \E k \in Key, d \in Data : Write(k, d)
  \/ GetAndReset
  \/ Copy
  \/ \E keys \in SUBSET Key : PickMatchDatas(keys)
  \/ CleanExpireDatas

Spec == Init /\ [][Next]_vars

\* The steps of the ticker goroutine besides the picks.
Tick == GetAndReset \/ Copy \/ CleanExpireDatas

-----------------------------------------------------------------------------
(***************************************************************************)
(* Properties.                                                             *)
(***************************************************************************)

\* Write and read position of the ring never lose each other: between ticks
\* the bucket written next is the one cleaned last, within a tick it is the
\* one about to be cleaned.
RingOK ==
  IF phase = "copied"
  THEN writeIndex = readIndex
  ELSE writeIndex = IF readIndex = 0 THEN Size ELSE readIndex - 1

\* Every entry is listed in the bucket its index names, so that
\* CleanExpireDatas finds it when its turn comes: nothing stays in the map
\* for ever because the bucket that listed it was overwritten.
NoOrphan == \A k \in Key : Cached(k) => k \in buckets[cache[k].index]

\* Copy overwrites only a bucket no entry refers to any more.
WriteBucketFree ==
  phase # "copied" => \A k \in Key : Cached(k) => cache[k].index # writeIndex

\* The inductive invariant behind the refinement.
CacheInv == TypeOK /\ RingOK /\ NoOrphan /\ WriteBucketFree

\* The number of ticks until the bucket i is cleaned.
Distance(i) == IF i >= readIndex THEN i - readIndex ELSE i + Size + 1 - readIndex

\* The cache keeps the promise of RetentionCache: an entry survives exactly
\* Size ticks after its last write (Copy, CleanExpireDatas, NextIndex).
Retention == INSTANCE RetentionCache WITH
  inbox <- writeCache,
  hand  <- batch,
  kept  <- [k \in Key |-> cache[k].datas],
  ttl   <- [k \in Key |-> IF Cached(k) THEN Distance(cache[k].index) ELSE 0],
  out   <- picked,
  stage <- phase

KeepsExactlySizeTicks == Retention!Spec

=============================================================================
