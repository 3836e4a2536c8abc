--------------------------- MODULE SpanCacheProofs ---------------------------
(***************************************************************************)
(* Proofs about SpanCache, for every set of keys and data and every size   *)
(* of the ring: the inductive invariant CacheInv, and that the ring of     *)
(* buckets implements RetentionCache.                                      *)
(***************************************************************************)
EXTENDS SpanCache, TLAPS

\* NextIndex stays inside the ring.
LEMMA NextIndexType ==
  ASSUME NEW i \in Index
  PROVE  NextIndex(i) \in Index
BY SizeAssumption DEF Index, NextIndex

\* The invariant holds in the empty cache of NewReadableCache.
LEMMA InitInv == Init => CacheInv
<1> SUFFICES ASSUME Init PROVE CacheInv
  OBVIOUS
<1> USE SizeAssumption DEF Init, Index
<1>1. TypeOK
  BY DEF TypeOK, NoDatas, NoData, CacheData
<1>2. RingOK
  BY DEF RingOK
<1>3. \A k \in Key : ~Cached(k)
  BY DEF Cached, NoData
<1> QED
  BY <1>1, <1>2, <1>3 DEF CacheInv, NoOrphan, WriteBucketFree

\* Every operation of the two caches preserves the invariant.
LEMMA StepInv == CacheInv /\ [Next]_vars => CacheInv'
<1> SUFFICES ASSUME CacheInv, [Next]_vars PROVE CacheInv'
  OBVIOUS
<1>0. TypeOK /\ RingOK /\ NoOrphan /\ WriteBucketFree
  BY DEF CacheInv
<1> USE SizeAssumption
<1>1. ASSUME NEW k \in Key, NEW d \in Data, Write(k, d)
      PROVE  CacheInv'
  <2>1. TypeOK'
    BY <1>0, <1>1 DEF TypeOK, Write
  <2>2. RingOK' /\ NoOrphan' /\ WriteBucketFree'
    BY <1>0, <1>1 DEF Write, RingOK, NoOrphan, WriteBucketFree, Cached
  <2> QED BY <2>1, <2>2 DEF CacheInv
<1>2. CASE GetAndReset
  <2>1. TypeOK'
    BY <1>0, <1>2 DEF TypeOK, GetAndReset, NoDatas
  <2>2. RingOK' /\ NoOrphan' /\ WriteBucketFree'
    BY <1>0, <1>2 DEF GetAndReset, RingOK, NoOrphan, WriteBucketFree, Cached
  <2> QED BY <2>1, <2>2 DEF CacheInv
<1>3. CASE Copy
  <2>1. writeIndex' \in Index /\ readIndex' \in Index
    BY <1>0, <1>3, NextIndexType DEF TypeOK, Copy
  <2>2. cache' \in [Key -> CacheData]
    BY <1>0, <1>3 DEF TypeOK, Copy, Merge, CacheData
  <2>3. buckets' \in [Index -> SUBSET Key]
    BY <1>0, <1>3 DEF TypeOK, Copy
  <2>4. TypeOK'
    BY <1>0, <1>3, <2>1, <2>2, <2>3 DEF TypeOK, Copy, NoDatas
  <2>5. RingOK'
    BY <1>0, <1>3 DEF TypeOK, Copy, RingOK, NextIndex, Index
  <2>6. NoOrphan'
    <3> SUFFICES ASSUME NEW k \in Key, Cached(k)'
                 PROVE  k \in buckets'[cache'[k].index]
      BY DEF NoOrphan
    <3>1. CASE batch[k] # {}
      <4>1. cache'[k].index = writeIndex
        BY <1>3, <3>1 DEF Copy, Merge
      <4>2. k \in buckets'[writeIndex]
        BY <1>0, <1>3, <3>1 DEF TypeOK, Copy
      <4> QED BY <4>1, <4>2
    <3>2. CASE batch[k] = {}
      <4>1. cache'[k] = cache[k] /\ Cached(k)
        BY <1>3, <3>2 DEF Copy, Cached
      <4>2. cache[k].index # writeIndex /\ k \in buckets[cache[k].index]
        BY <1>0, <1>3, <4>1 DEF NoOrphan, WriteBucketFree, Copy
      <4>3. cache[k].index \in Index
        BY <1>0 DEF TypeOK, CacheData
      <4> QED BY <1>0, <1>3, <4>1, <4>2, <4>3 DEF TypeOK, Copy
    <3> QED BY <3>1, <3>2
  <2>7. WriteBucketFree'
    BY <1>3 DEF Copy, WriteBucketFree
  <2> QED BY <2>4, <2>5, <2>6, <2>7 DEF CacheInv
<1>4. ASSUME NEW keys \in SUBSET Key, PickMatchDatas(keys)
      PROVE  CacheInv'
  <2>1. cache' \in [Key -> CacheData]
    BY <1>0, <1>4 DEF TypeOK, PickMatchDatas, CacheData, NoData, Index
  <2>2. picked' \in SUBSET Data
    BY <1>0, <1>4 DEF TypeOK, PickMatchDatas, CacheData
  <2>3. TypeOK'
    BY <1>0, <1>4, <2>1, <2>2 DEF TypeOK, PickMatchDatas
  <2>4. \A k \in Key : Cached(k)' => Cached(k) /\ cache'[k] = cache[k]
    BY <1>4 DEF PickMatchDatas, Cached, NoData
  <2>5. RingOK' /\ NoOrphan' /\ WriteBucketFree'
    BY <1>0, <1>4, <2>4 DEF PickMatchDatas, RingOK, NoOrphan, WriteBucketFree
  <2> QED BY <2>3, <2>5 DEF CacheInv
<1>5. CASE CleanExpireDatas
  <2>1. cache' \in [Key -> CacheData]
    BY <1>0, <1>5 DEF TypeOK, CleanExpireDatas, CacheData, NoData, Index
  <2>2. TypeOK'
    BY <1>0, <1>5, <2>1, NextIndexType DEF TypeOK, CleanExpireDatas
  <2>3. RingOK'
    BY <1>0, <1>5 DEF TypeOK, CleanExpireDatas, RingOK, NextIndex, Index
  <2>4. \A k \in Key : Cached(k)' => /\ Cached(k)
                                     /\ cache'[k] = cache[k]
                                     /\ k \notin Expiring
    BY <1>5 DEF CleanExpireDatas, Cached, NoData
  <2>5. NoOrphan'
    BY <1>0, <1>5, <2>4 DEF CleanExpireDatas, NoOrphan
  <2>6. \A k \in Key : Cached(k)' => cache[k].index # readIndex
    BY <1>0, <2>4 DEF NoOrphan, Expiring
  <2>7. writeIndex' = readIndex
    BY <1>0, <1>5 DEF CleanExpireDatas, RingOK
  <2>8. WriteBucketFree'
    BY <2>4, <2>6, <2>7 DEF WriteBucketFree
  <2> QED BY <2>2, <2>3, <2>5, <2>8 DEF CacheInv
<1>6. CASE UNCHANGED vars
  BY <1>0, <1>6 DEF vars, CacheInv, TypeOK, RingOK, NoOrphan, WriteBucketFree, Cached
<1> QED
  BY <1>1, <1>2, <1>3, <1>4, <1>5, <1>6 DEF Next

\* The invariant holds in every reachable state of the caches.
THEOREM CacheInvariant == Spec => []CacheInv
BY InitInv, StepInv, PTL DEF Spec

\* No cached entry is missing from the bucket its index names, so every entry
\* is found when its bucket expires, and Copy always writes into a free bucket.
THEOREM NothingOrphaned == Spec => [](NoOrphan /\ WriteBucketFree)
<1>1. CacheInv => NoOrphan /\ WriteBucketFree
  BY DEF CacheInv
<1> QED
  BY <1>1, CacheInvariant, PTL

-----------------------------------------------------------------------------
(***************************************************************************)
(* Refinement.                                                             *)
(***************************************************************************)

\* The empty cache is the empty RetentionCache.
LEMMA InitRefines == Init => Retention!Init
BY DEF Init, Retention!Init, Retention!Nothing, NoDatas, NoData, Cached

\* Under the invariant, every step of the caches is a step of RetentionCache
\* or leaves what it can see unchanged.
LEMMA StepRefines == CacheInv /\ [Next]_vars => [Retention!Next]_Retention!rvars
<1> SUFFICES ASSUME CacheInv, [Next]_vars
             PROVE  Retention!Next \/ UNCHANGED Retention!rvars
  OBVIOUS
<1>0. TypeOK /\ RingOK /\ NoOrphan /\ WriteBucketFree
  BY DEF CacheInv
<1> USE SizeAssumption
<1> DEFINE Kept == [k \in Key |-> cache[k].datas]
           Ttl  == [k \in Key |-> IF Cached(k) THEN Distance(cache[k].index) ELSE 0]
<1>a. \A k \in Key : cache[k].index \in Index
  BY <1>0 DEF TypeOK, CacheData
<1>1. ASSUME NEW k \in Key, NEW d \in Data, Write(k, d)
      PROVE  Retention!Put(k, d)
  BY <1>1 DEF Write, Retention!Put, Cached, Distance
<1>2. CASE GetAndReset
  <2>1. Retention!Collect
    BY <1>2 DEF GetAndReset, Retention!Collect, Retention!Nothing, NoDatas, Cached, Distance
  <2> QED BY <2>1 DEF Retention!Next
<1>3. CASE Copy
  <2>1. phase = "reset" /\ phase' = "copied" /\ batch' = NoDatas
        /\ UNCHANGED <<writeCache, readIndex, picked>>
    BY <1>3 DEF Copy
  <2>2. \A k \in Key : cache'[k].datas = cache[k].datas \cup batch[k]
    BY <1>3 DEF Copy, Merge
  <2>3. Distance(writeIndex) = Size
    BY <1>0, <2>1 DEF TypeOK, RingOK, Distance, Index
  <2>4. ASSUME NEW k \in Key
        PROVE  Ttl'[k] = IF batch[k] # {} THEN Size ELSE Ttl[k]
    <3>1. CASE batch[k] # {}
      BY <1>3, <2>1, <2>3, <3>1 DEF Copy, Merge, Cached, Distance
    <3>2. CASE batch[k] = {}
      BY <1>3, <2>1, <3>2 DEF Copy, Cached, Distance
    <3> QED BY <3>1, <3>2
  <2>5. Kept' = [k \in Key |-> Kept[k] \cup batch[k]]
    BY <2>2
  <2>6. Ttl' = [k \in Key |-> IF batch[k] # {} THEN Size ELSE Ttl[k]]
    BY <2>4
  <2>7. Retention!Keep
    BY <2>1, <2>5, <2>6 DEF Retention!Keep, Retention!Nothing, NoDatas
  <2> QED BY <2>7 DEF Retention!Next
<1>4. ASSUME NEW keys \in SUBSET Key, PickMatchDatas(keys)
      PROVE  Retention!HandOut(keys)
  <2>1. Kept' = [k \in Key |-> IF k \in keys THEN {} ELSE Kept[k]]
    BY <1>4 DEF PickMatchDatas, NoData
  <2>2. ASSUME NEW k \in Key
        PROVE  Ttl'[k] = IF k \in keys THEN 0 ELSE Ttl[k]
    BY <1>4 DEF PickMatchDatas, NoData, Cached, Distance
  <2>3. Ttl' = [k \in Key |-> IF k \in keys THEN 0 ELSE Ttl[k]]
    BY <2>2
  <2>4. picked' = UNION {Kept[k] : k \in keys}
    BY <1>4 DEF PickMatchDatas
  <2> QED BY <1>4, <2>1, <2>3, <2>4 DEF PickMatchDatas, Retention!HandOut
<1>5. CASE CleanExpireDatas
  <2>1. phase = "copied" /\ phase' = "idle" /\ picked' = {}
        /\ UNCHANGED <<writeCache, batch>>
    BY <1>5 DEF CleanExpireDatas
  <2>2. ASSUME NEW k \in Key
        PROVE  k \in Expiring <=> Cached(k) /\ Ttl[k] = 0
    BY <1>0, <1>a DEF NoOrphan, Expiring, TypeOK, Distance, Index
  <2>3. ASSUME NEW k \in Key, Ttl[k] # 0
        PROVE  Cached(k) /\ cache'[k] = cache[k] /\ Ttl'[k] = Ttl[k] - 1
    <3>1. Cached(k) /\ cache'[k] = cache[k] /\ Cached(k)'
      BY <1>5, <2>2, <2>3 DEF CleanExpireDatas, Cached
    <3>2. Distance(cache[k].index) # 0
      BY <2>3
    <3>3. /\ cache[k].index \in 0 .. Size
          /\ readIndex \in 0 .. Size
          /\ cache'[k].index = cache[k].index
      BY <1>0, <1>a, <3>1 DEF TypeOK, Index
    <3>4. readIndex' = IF readIndex = Size THEN 0 ELSE readIndex + 1
      BY <1>5, <3>3 DEF CleanExpireDatas, NextIndex
    <3>5. cache[k].index # readIndex
      BY <3>2, <3>3 DEF Distance
    <3>6. (Distance(cache[k].index))' = Distance(cache[k].index) - 1
      BY <3>3, <3>4, <3>5 DEF Distance
    <3> QED BY <3>1, <3>6
  <2>4. ASSUME NEW k \in Key, Ttl[k] = 0
        PROVE  ~Cached(k)' /\ cache'[k].datas = {}
    BY <1>5, <2>2, <2>4 DEF CleanExpireDatas, Cached, NoData
  <2>5. Kept' = [k \in Key |-> IF Ttl[k] = 0 THEN {} ELSE Kept[k]]
    BY <2>3, <2>4
  <2>6. Ttl' = [k \in Key |-> IF Ttl[k] = 0 THEN 0 ELSE Ttl[k] - 1]
    BY <2>3, <2>4
  <2>7. Retention!Expire
    BY <2>1, <2>5, <2>6 DEF Retention!Expire
  <2> QED BY <2>7 DEF Retention!Next
<1>6. CASE UNCHANGED vars
  BY <1>6 DEF vars, Retention!rvars, Cached, Distance
<1> QED
  BY <1>1, <1>2, <1>3, <1>4, <1>5, <1>6 DEF Next, Retention!Next

\* The ring of buckets keeps every entry for exactly Size ticks after its
\* last write, whatever is merged, picked and written again in between.
THEOREM CacheRefinement == Spec => KeepsExactlySizeTicks
<1>1. Spec => Retention!Init
  BY InitRefines DEF Spec
<1>2. Spec => [][Retention!Next]_Retention!rvars
  BY CacheInvariant, StepRefines, PTL DEF Spec
<1> QED
  BY <1>1, <1>2 DEF KeepsExactlySizeTicks, Retention!Spec
=============================================================================
