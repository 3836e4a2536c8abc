------------------------ MODULE TailbaseSamplingProofs ------------------------
(***************************************************************************)
(* Proofs about TailbaseSampling, for every set of traces and spans and    *)
(* every SampleWaitTime of at least two ticks: whatever the interleaving   *)
(* of consumers, sampling ticker and clean ticker, a span is stored at     *)
(* most once, never disappears, and is not dropped once its trace has been *)
(* sampled in time.                                                        *)
(***************************************************************************)
EXTENDS TailbaseSampling, TLAPS

\* The invariant holds before the first span arrives.
LEMMA InitInv == Init => TailInv
<1> SUFFICES ASSUME Init PROVE TailInv
  OBVIOUS
<1> USE TraceAssumption
<1>0. /\ \A s \in Data, k \in Key : ~Located(s, k)
      /\ \A s \in Data : ~Waiting(s)
      /\ \A s \in Data, kind \in Kind : ~Missed(s, kind)
  BY DEF Init, SC!Init, SC!NoDatas, SC!NoData, Located, Waiting, Missed, Kind
<1>1. SC!TypeOK /\ SC!RingOK
  BY DEF Init, SC!Init, SC!TypeOK, SC!RingOK, SC!NoDatas, SC!NoData, SC!CacheData, SC!Index
<1>2. TypeOK
  BY <1>1 DEF Init, TypeOK, Kind
<1>3. SpansPlaced /\ SpansApart
  BY <1>0 DEF Init, SC!Init, SC!NoDatas, SC!NoData, SpansPlaced, SpansApart
<1>4. TickOrder /\ RangeComplete /\ IdsYoung /\ DoomedUnused
  BY DEF Init, SC!Init, TickOrder, RangeComplete, IdsYoung, DoomedUnused, Kind
<1>5. OwedHaveIds /\ StoredAtMostOnce /\ OwedSpansSurvive /\ NoSpanLost
  BY DEF Init, OwedHaveIds, StoredAtMostOnce, OwedSpansSurvive, NoSpanLost
<1> QED BY <1>1, <1>2, <1>3, <1>4, <1>5 DEF TailInv

\* The consumer of s goes on without a lookup that misses: it is decided that
\* the span is sampled or to be looked up, or the span is stored.
LEMMA ConsumerMoves ==
  ASSUME TailInv, NEW s \in Data, NEW to \in {"error", "notify", "register", "done"},
         pc[s] \in {"new", "notify"} \/ (pc[s] \in Kind /\ to = "done"),
         pc' = [pc EXCEPT ![s] = to],
         todo' \in [Data -> Notified \cup {<<>>}],
         \A r \in Data : r # s => todo'[r] = todo[r],
         to = "register" => todo'[s] # <<>>,
         IF to = "done" THEN StoreTrace({s}) ELSE stored' = stored,
         UNCHANGED <<cacheVars, idVars, tickVars, observers>>
  PROVE  TailInv'
<1> USE DEF cacheVars, idVars, tickVars, observers
<1>0. TypeOK /\ SpansPlaced /\ SpansApart /\ StoredAtMostOnce
  BY DEF TailInv
<1>1. /\ \A r \in Data : r # s => pc'[r] = pc[r] /\ stored'[r] = stored[r]
      /\ pc'[s] = to /\ pc[s] \notin {"cached", "done", "cache", "register"}
      /\ stored[s] = 0 /\ stored'[s] = IF to = "done" THEN 1 ELSE 0
  BY <1>0 DEF TypeOK, SpansPlaced, StoreTrace, Kind
<1>2. \A r \in Data : /\ Waiting(r)' <=> Waiting(r)
                      /\ LeavingNow(r)' <=> LeavingNow(r)
                      /\ \A k \in Key : Located(r, k)' <=> Located(r, k)
  BY DEF Waiting, LeavingNow, Located
<1>3. \A kind \in Kind : /\ ~Missed(s, kind)'
                         /\ \A r \in Data : r # s => (Missed(r, kind)' <=> Missed(r, kind))
  BY <1>1 DEF Missed
<1>4. TypeOK'
  <2>1. stored' \in [Data -> 0 .. 2]
    <3>1. \A r \in Data : stored'[r] \in 0 .. 2
      BY <1>0, <1>1 DEF TypeOK
    <3> QED BY <1>0, <3>1 DEF TypeOK, StoreTrace
  <2>2. pc' \in [Data -> {"new", "notify", "register", "cache", "cached", "done"} \cup Kind]
    BY <1>0 DEF TypeOK, Kind
  <2> QED
    BY <1>0, <2>1, <2>2 DEF TypeOK, SC!TypeOK, SC!CacheData, SC!Index
<1>5. SC!RingOK'
  BY DEF TailInv, SC!RingOK
<1>6. SpansPlaced' /\ ~Waiting(s) /\ s \notin toStore \cup expired
  BY <1>0, <1>1, <1>2, TraceAssumption DEF SpansPlaced, TypeOK, Waiting, Located
<1>7. SpansApart'
  BY <1>0, <1>1, <1>2, <1>6 DEF SpansApart, TypeOK
<1>8. TickOrder'
  BY <1>0, <1>1 DEF TailInv, TickOrder, SC!NoDatas
<1>9. RangeComplete'
  BY DEF TailInv, RangeComplete
<1>10. IdsYoung'
  BY <1>3 DEF TailInv, IdsYoung, Reached, Over
<1>11. DoomedUnused'
  BY <1>2, <1>3 DEF TailInv, DoomedUnused
<1>12. OwedHaveIds'
  <2>1. \A r \in owed : r \in Data /\ (r = s => to = "done")
    BY <1>0, <1>1 DEF TailInv, TypeOK, OwedHaveIds, InWindow, Missed, Kind
  <2> QED
    BY <1>1, <1>2, <1>3, <1>6, <2>1 DEF TailInv, OwedHaveIds, InWindow, Over, LeavingNow
<1>13. StoredAtMostOnce' /\ OwedSpansSurvive' /\ NoSpanLost'
  BY <1>0, <1>1, <1>2 DEF TailInv, StoredAtMostOnce, OwedSpansSurvive, NoSpanLost
<1> QED
  BY <1>4, <1>5, <1>6, <1>7, <1>8, <1>9, <1>10, <1>11, <1>12, <1>13 DEF TailInv

\* A lookup misses: from now on the consumer of s does not know the id.
LEMMA LookupMisses ==
  ASSUME TailInv, NEW s \in Data, NEW kind \in Kind, Load(s, kind), TraceOf[s] \notin held[kind]
  PROVE  TailInv'
<1> USE DEF cacheVars, idVars, tickVars, observers
<1>0. TypeOK /\ SpansPlaced /\ SpansApart
  BY DEF TailInv
<1>1. /\ pc' = [pc EXCEPT ![s] = IF kind = "normal" THEN "cache" ELSE After(kind)]
      /\ pc[s] = kind
      /\ UNCHANGED <<cacheVars, todo, idVars, tickVars, stored, observers>>
  BY DEF Load
<1>2. /\ \A r \in Data : r # s => pc'[r] = pc[r]
      /\ pc'[s] \in {"slow", "normal", "cache"} /\ pc[s] \in Kind
  BY <1>0, <1>1 DEF TypeOK, Kind, After
<1>3. \A r \in Data : /\ Waiting(r)' <=> Waiting(r)
                      /\ LeavingNow(r)' <=> LeavingNow(r)
                      /\ \A k \in Key : Located(r, k)' <=> Located(r, k)
  BY <1>1 DEF Waiting, LeavingNow, Located
<1>4. \A k \in Kind : /\ Missed(s, k)' <=> Missed(s, k) \/ k = kind
                      /\ \A r \in Data : r # s => (Missed(r, k)' <=> Missed(r, k))
  BY <1>0, <1>1, <1>2 DEF TypeOK, Missed, Kind, After
<1>5. TypeOK'
  BY <1>0, <1>1 DEF TypeOK, SC!TypeOK, SC!CacheData, SC!Index, Kind, After
<1>6. SC!RingOK'
  BY <1>1 DEF TailInv, SC!RingOK
<1>7. SpansPlaced'
  <2>1. pc[s] \notin {"cached", "done"} /\ pc'[s] \notin {"cached", "done"}
    BY <1>2 DEF Kind
  <2> QED BY <1>0, <1>1, <1>2, <1>3, <2>1 DEF SpansPlaced, TypeOK
<1>8. SpansApart'
  BY <1>0, <1>1, <1>3 DEF SpansApart
<1>9. TickOrder'
  BY <1>0, <1>1, <1>2 DEF TailInv, TickOrder, SC!NoDatas
<1>10. RangeComplete'
  BY <1>1 DEF TailInv, RangeComplete
<1>11. IdsYoung'
  BY <1>1, <1>4 DEF TailInv, IdsYoung, Reached, Over
<1>12. DoomedUnused'
  <2>1. \A id \in doomed : id = TraceOf[s] => scan # kind
    BY DEF TailInv, DoomedUnused
  <2> QED BY <1>1, <1>3, <1>4, <2>1 DEF TailInv, DoomedUnused
<1>13. OwedHaveIds'
  <2>1. \A r \in owed : r \in Data /\ (r = s => InWindow(s))
    BY <1>0, <1>2 DEF TailInv, TypeOK, OwedHaveIds, Kind
  <2>2. \A r \in Data : InWindow(r) => InWindow(r)'
    BY <1>4 DEF InWindow
  <2>3. \A r \in Data : InWindow(r)' /\ r \in owed => InWindow(r)
    BY <1>4, <2>1 DEF InWindow
  <2> QED
    BY <1>1, <1>2, <1>3, <1>4, <2>1, <2>2, <2>3 DEF TailInv, OwedHaveIds, Over
<1>14. StoredAtMostOnce' /\ OwedSpansSurvive' /\ NoSpanLost'
  BY <1>0, <1>1, <1>2, <1>3 DEF TailInv, StoredAtMostOnce, OwedSpansSurvive, NoSpanLost
<1> QED
  BY <1>5, <1>6, <1>7, <1>8, <1>9, <1>10, <1>11, <1>12, <1>13, <1>14 DEF TailInv

\* A span whose three lookups missed is written to the cache.
LEMMA SpanCached ==
  ASSUME TailInv, NEW s \in Data, CacheTrace(s)
  PROVE  TailInv'
<1> USE DEF idVars, tickVars, observers
<1>0. TypeOK /\ SpansPlaced /\ SpansApart
  BY DEF TailInv
<1>1. /\ pc[s] = "cache"
      /\ pc' = [pc EXCEPT ![s] = "cached"]
      /\ writeCache' = [writeCache EXCEPT ![TraceOf[s]] = @ \cup {s}]
      /\ UNCHANGED <<batch, cache, buckets, readIndex, writeIndex, picked, phase>>
      /\ UNCHANGED <<todo, idVars, tickVars, stored, observers>>
  BY DEF CacheTrace, SC!Write
<1>2. /\ TraceOf[s] \in Key
      /\ \A r \in Data : r # s => pc'[r] = pc[r]
      /\ pc'[s] = "cached"
      /\ \A k \in Key : writeCache'[k] = IF k = TraceOf[s] THEN writeCache[k] \cup {s} ELSE writeCache[k]
  BY <1>0, <1>1, TraceAssumption DEF TypeOK, SC!TypeOK
<1>3. /\ ~Waiting(s) /\ s \notin toStore \cup expired /\ stored[s] = 0
      /\ \A k \in Key : ~Located(s, k)
  BY <1>0, <1>1, TraceAssumption DEF SpansPlaced, Waiting, Located
<1>4. /\ Waiting(s)'
      /\ \A r \in Data : r # s => (Waiting(r)' <=> Waiting(r))
      /\ \A r \in Data : LeavingNow(r)' <=> LeavingNow(r)
      /\ \A r \in Data, k \in Key : Located(r, k)' <=> Located(r, k) \/ (r = s /\ k = TraceOf[s])
  BY <1>1, <1>2, TraceAssumption DEF Waiting, LeavingNow, Located
<1>5. /\ ~LeavingNow(s)
      /\ \A k \in Kind : Missed(s, k) /\ ~Missed(s, k)'
      /\ \A r \in Data, k \in Kind : r # s => (Missed(r, k)' <=> Missed(r, k))
  BY <1>1, <1>2, <1>3 DEF Missed, LeavingNow, Waiting
<1>6. TypeOK'
  <2>1. writeCache' \in [Key -> SUBSET Data]
    BY <1>0, <1>1, <1>2 DEF TypeOK, SC!TypeOK
  <2> QED BY <1>0, <1>1, <2>1 DEF TypeOK, SC!TypeOK, SC!CacheData, SC!Index
<1>7. SC!RingOK'
  BY <1>1 DEF TailInv, SC!RingOK
<1>8. SpansPlaced'
  BY <1>0, <1>1, <1>2, <1>3, <1>4 DEF SpansPlaced, TypeOK
<1>9. SpansApart'
  BY <1>0, <1>1, <1>2, <1>3, <1>4 DEF SpansApart, Located
<1>10. TickOrder'
  BY <1>0, <1>1, <1>2 DEF TailInv, TickOrder, SC!NoDatas
<1>11. RangeComplete'
  BY <1>1 DEF TailInv, RangeComplete
<1>12. IdsYoung'
  BY <1>1, <1>2, <1>5 DEF TailInv, IdsYoung, Reached, Over
<1>13. DoomedUnused'
  BY <1>1, <1>4, <1>5 DEF TailInv, DoomedUnused
<1>14. OwedHaveIds'
  <2>1. \A r \in owed : r \in Data /\ (r # s => (InWindow(r)' <=> InWindow(r)))
    BY <1>0, <1>5 DEF TypeOK, InWindow
  <2>2. s \in owed => \E k \in Kind : TraceOf[s] \in held[k]
    BY <1>5 DEF TailInv, OwedHaveIds, InWindow, Kind
  <2>3. ~InWindow(s)'
    BY <1>5 DEF InWindow
  <2> QED
    BY <1>1, <1>2, <1>4, <1>5, <2>1, <2>2, <2>3 DEF TailInv, OwedHaveIds, Over
<1>15. StoredAtMostOnce' /\ OwedSpansSurvive' /\ NoSpanLost'
  BY <1>0, <1>1, <1>2, <1>4 DEF TailInv, StoredAtMostOnce, OwedSpansSurvive, NoSpanLost
<1> QED
  BY <1>6, <1>7, <1>8, <1>9, <1>10, <1>11, <1>12, <1>13, <1>14, <1>15 DEF TailInv

\* A trace id is stored, by a consumer that is done with it or by the sampling
\* ticker.
LEMMA IdStored ==
  ASSUME TailInv, NEW kind \in Kind, NEW id \in Key, StoreId(kind, id),
         pc' \in [Data -> {"new", "notify", "register", "cache", "cached", "done"} \cup Kind],
         todo' \in [Data -> Notified \cup {<<>>}],
         \A s \in Data : \/ pc'[s] = pc[s] /\ todo'[s] = todo[s]
                         \/ pc[s] = "register" /\ pc'[s] = "notify",
         UNCHANGED <<cacheVars, tickVars, stored>>
  PROVE  TailInv'
<1> USE DEF cacheVars, tickVars
<1>0. TypeOK /\ SpansPlaced /\ SpansApart
  BY DEF TailInv
<1>1. /\ held' = [held EXCEPT ![kind] = @ \cup {id}]
      /\ count' = [count EXCEPT ![kind][id] = 0]
      /\ owed' = owed \cup {s \in Data : /\ TraceOf[s] = id
                                         /\ Missed(s, kind) \/ Waiting(s)
                                         /\ ~LeavingNow(s)}
      /\ UNCHANGED <<expired, lingering>>
  BY DEF StoreId
<1>2. /\ held' \in [Kind -> SUBSET Key]
      /\ count' \in [Kind -> [Key -> 0 .. Size]]
      /\ \A k \in Kind : held[k] \subseteq held'[k]
      /\ id \in held'[kind]
      /\ \A k \in Kind, i \in Key : i \in held'[k] => i \in held[k] \/ (k = kind /\ i = id)
      /\ \A k \in Kind, i \in Key : count'[k][i] = IF k = kind /\ i = id THEN 0 ELSE count[k][i]
  BY <1>0, <1>1, TraceAssumption DEF TypeOK
<1>3. \A s \in Data : /\ Waiting(s)' <=> Waiting(s)
                      /\ LeavingNow(s)' <=> LeavingNow(s)
                      /\ \A k \in Key : Located(s, k)' <=> Located(s, k)
  BY DEF Waiting, LeavingNow, Located
<1>4. \A s \in Data : /\ \A k \in Kind : Missed(s, k)' <=> Missed(s, k)
                      /\ InWindow(s)' <=> InWindow(s)
  BY DEF Missed, InWindow
<1>5. TypeOK'
  BY <1>0, <1>1, <1>2 DEF TypeOK, SC!TypeOK, SC!CacheData, SC!Index
<1>6. SC!RingOK'
  BY DEF TailInv, SC!RingOK
<1>7. SpansPlaced'
  BY <1>0, <1>1, <1>3 DEF SpansPlaced, TypeOK
<1>8. SpansApart'
  BY <1>0, <1>1, <1>3 DEF SpansApart
<1>9. TickOrder'
  BY <1>0 DEF TailInv, TickOrder, SC!NoDatas
<1>10. RangeComplete'
  BY <1>0, <1>2 DEF TailInv, TypeOK, RangeComplete
<1>11. IdsYoung'
  <2>1. TraceOf \in [Data -> Key]
    BY TraceAssumption
  <2> QED
    BY <1>1, <1>2, <1>4, <2>1 DEF TailInv, IdsYoung, Reached, Over
<1>12. DoomedUnused'
  BY <1>0, <1>2, <1>3, <1>4 DEF TailInv, TypeOK, DoomedUnused
<1>13. \A s \in owed' \ owed : /\ s \in Data /\ TraceOf[s] = id /\ ~LeavingNow(s)
                               /\ Missed(s, kind) \/ (Waiting(s) /\ pc[s] = "cached")
  BY <1>0, <1>1, TraceAssumption DEF SpansPlaced, Waiting, Located
<1>14. \A s \in owed' \ owed : InWindow(s) => Missed(s, kind)
  BY <1>13 DEF InWindow, Missed, Kind
<1>15. OwedHaveIds'
  <2>1. \A s \in owed : s \in Data
    BY <1>0 DEF TypeOK
  <2>2. \A s \in owed : OwedHaveIds!(s)
    BY DEF TailInv, OwedHaveIds
  <2> SUFFICES ASSUME NEW s \in owed', s \in Data
               PROVE  OwedHaveIds!(s)'
    BY <1>13, <2>1 DEF OwedHaveIds
  <2>3. CASE s \in owed
    <3>1. InWindow(s)' \/ pc'[s] \in {"cached", "done"}
      BY <1>4, <2>2, <2>3
    <3>2. InWindow(s)' => \E k \in Kind : Missed(s, k)' /\ TraceOf[s] \in held'[k]
      BY <1>2, <1>4, <2>2, <2>3
    <3>3. Waiting(s)' => \E k \in Kind : TraceOf[s] \in held'[k]
      BY <1>2, <1>3, <2>2, <2>3
    <3>4. LeavingNow(s)' => \E k \in Kind :
            /\ TraceOf[s] \in held'[k]
            /\ Over(k)' \/ (scan' = k /\ TraceOf[s] \notin must') => TraceOf[s] \in ids'[k]
      BY <1>2, <1>3, <2>2, <2>3 DEF Over
    <3> QED BY <3>1, <3>2, <3>3, <3>4
  <2>4. CASE s \notin owed
    BY <1>2, <1>3, <1>4, <1>13, <1>14, <2>4, SMTT(30) DEF InWindow, Missed
  <2> QED BY <2>3, <2>4
<1>16. OwedSpansSurvive'
  BY <1>0, <1>1, <1>13 DEF TailInv, OwedSpansSurvive, SpansPlaced, SpansApart, Missed
<1>17. StoredAtMostOnce' /\ NoSpanLost'
  BY <1>0, <1>1, <1>3 DEF TailInv, StoredAtMostOnce, NoSpanLost
<1> QED
  BY <1>5, <1>6, <1>7, <1>8, <1>9, <1>10, <1>11, <1>12, <1>15, <1>16, <1>17 DEF TailInv

\* What is left of the samplers to notify is again such a list.
LEMMA NotifiedTail ==
  ASSUME NEW kinds \in Notified
  PROVE  Head(kinds) \in Kind /\ Tail(kinds) \in Notified \cup {<<>>}
<1>1. CASE kinds = <<"slow", "error">>
  <2>1. Head(kinds) = "slow" /\ Tail(kinds) = <<"error">>
    BY <1>1
  <2> QED BY <2>1 DEF Notified, Kind
<1>2. ASSUME NEW kind \in Kind, kinds = <<kind>>
      PROVE  Head(kinds) \in Kind /\ Tail(kinds) \in Notified \cup {<<>>}
  <2>1. Head(kinds) = kind /\ Tail(kinds) = <<>>
    BY <1>2
  <2> QED BY <2>1
<1> QED BY <1>1, <1>2 DEF Notified, Kind

\* Every step of a consumer.
LEMMA ConsumeInv ==
  ASSUME TailInv, NEW s \in Data, Consume(s)
  PROVE  TailInv'
<1>0. TypeOK /\ TickOrder
  BY DEF TailInv
<1> DEFINE Points == {"new", "notify", "register", "cache", "cached", "done"} \cup Kind
<1>1. CASE Arrive(s)
  <2>1. todo' \in [Data -> Notified \cup {<<>>}] /\ \A r \in Data : r # s => todo'[r] = todo[r]
    BY <1>0, <1>1 DEF TypeOK, Arrive
  <2>2. stored' = stored /\ UNCHANGED <<cacheVars, idVars, tickVars, observers>>
    BY <1>1 DEF Arrive
  <2>3. pc[s] = "new" /\ \E to \in {"error", "notify"} : pc' = [pc EXCEPT ![s] = to]
    BY <1>1 DEF Arrive
  <2> QED BY <2>1, <2>2, <2>3, ConsumerMoves
<1>2. ASSUME NEW kind \in Kind, Load(s, kind)
      PROVE  TailInv'
  <2>1. CASE TraceOf[s] \notin held[kind]
    BY <1>2, <2>1, LookupMisses
  <2>2. CASE TraceOf[s] \in held[kind]
    <3>1. /\ StoreTrace({s}) /\ pc' = [pc EXCEPT ![s] = "done"] /\ pc[s] \in Kind
          /\ todo' = todo /\ UNCHANGED <<cacheVars, idVars, tickVars, observers>>
      BY <1>2, <2>2 DEF Load
    <3> QED BY <1>0, <3>1, ConsumerMoves DEF TypeOK
  <2> QED BY <2>1, <2>2
<1>3. CASE CacheTrace(s)
  BY <1>3, SpanCached
<1>4. CASE NotifyLoad(s)
  <2>1. /\ pc[s] = "notify" /\ todo[s] # <<>>
        /\ stored' = stored /\ UNCHANGED <<cacheVars, idVars, tickVars, observers>>
    BY <1>4 DEF NotifyLoad
  <2>2. CASE TraceOf[s] \in held[Head(todo[s])]
    <3>1. pc' = [pc EXCEPT ![s] = "notify"] /\ todo' = [todo EXCEPT ![s] = Tail(@)]
      BY <1>0, <1>4, <2>1, <2>2 DEF TypeOK, NotifyLoad
    <3>2. Tail(todo[s]) \in Notified \cup {<<>>}
      <4>1. todo[s] \in Notified
        BY <1>0, <2>1 DEF TypeOK
      <4> QED BY <4>1, NotifiedTail
    <3>3. todo' \in [Data -> Notified \cup {<<>>}] /\ \A r \in Data : r # s => todo'[r] = todo[r]
      BY <1>0, <3>1, <3>2 DEF TypeOK
    <3> QED BY <2>1, <3>1, <3>3, ConsumerMoves
  <2>3. CASE TraceOf[s] \notin held[Head(todo[s])]
    <3>1. pc' = [pc EXCEPT ![s] = "register"] /\ todo' = todo
      BY <1>4, <2>3 DEF NotifyLoad
    <3> QED BY <1>0, <2>1, <3>1, ConsumerMoves DEF TypeOK
  <2> QED BY <2>2, <2>3
<1>5. CASE NotifyStore(s)
  <2>1. /\ pc[s] = "register" /\ StoreId(Head(todo[s]), TraceOf[s])
        /\ todo' = [todo EXCEPT ![s] = Tail(@)]
        /\ pc' = [pc EXCEPT ![s] = "notify"]
        /\ UNCHANGED <<cacheVars, tickVars, stored>>
    BY <1>5 DEF NotifyStore
  <2>2. todo[s] \in Notified
    BY <1>0, <2>1 DEF TypeOK, TickOrder
  <2>3. Head(todo[s]) \in Kind /\ Tail(todo[s]) \in Notified \cup {<<>>}
    BY <2>2, NotifiedTail
  <2>4. /\ pc' \in [Data -> Points]
        /\ \A r \in Data : \/ pc'[r] = pc[r] /\ todo'[r] = todo[r]
                           \/ pc[r] = "register" /\ pc'[r] = "notify"
    BY <1>0, <2>1 DEF TypeOK
  <2>5. todo' \in [Data -> Notified \cup {<<>>}]
    BY <1>0, <2>1, <2>3 DEF TypeOK
  <2> QED BY <2>1, <2>3, <2>4, <2>5, IdStored, TraceAssumption
<1>6. CASE StoreSampled(s)
  <2>1. /\ pc[s] = "notify" /\ StoreTrace({s}) /\ pc' = [pc EXCEPT ![s] = "done"]
        /\ todo' = todo /\ UNCHANGED <<cacheVars, idVars, tickVars, observers>>
    BY <1>6 DEF StoreSampled
  <2> QED BY <1>0, <2>1, ConsumerMoves DEF TypeOK
<1> QED BY <1>1, <1>2, <1>3, <1>4, <1>5, <1>6 DEF Consume

-----------------------------------------------------------------------------
(***************************************************************************)
(* The clean tick.                                                         *)
(***************************************************************************)

\* The tick begins: the batch is taken and the first range starts.
LEMMA TakeInv ==
  ASSUME TailInv, TakeTraceCache
  PROVE  TailInv'
<1> USE DEF consumerVars, idVars
<1>0. TypeOK /\ SpansPlaced /\ SpansApart /\ TickOrder
  BY DEF TailInv
<1>1. /\ scan = "idle" /\ phase = "idle" /\ PromptConsumers
      /\ batch' = writeCache /\ writeCache' = SC!NoDatas /\ phase' = "reset"
      /\ scan' = "error" /\ must' = held["error"] /\ visited' = {}
      /\ ids' = [kind \in Kind |-> {}]
      /\ UNCHANGED <<cache, buckets, readIndex, writeIndex, picked>>
      /\ UNCHANGED <<pc, todo, held, count, doomed, toStore, stored, expired, owed, lingering>>
  BY DEF TakeTraceCache, SC!GetAndReset, BeginRange
<1>2. \A k \in Key : batch[k] = {} /\ writeCache'[k] = {}
  BY <1>0, <1>1 DEF TickOrder, SC!NoDatas
<1>3. \A s \in Data : /\ Waiting(s)' <=> Waiting(s)
                      /\ \A k \in Key : Located(s, k)' <=> Located(s, k)
  BY <1>1, <1>2, TraceAssumption DEF Waiting, Located
<1>4. \A s \in Data : /\ \A k \in Kind : Missed(s, k)' <=> Missed(s, k)
                      /\ InWindow(s)' <=> InWindow(s)
  BY <1>1 DEF Missed, InWindow
<1>5. TypeOK'
  <2>1. writeCache' \in [Key -> SUBSET Data] /\ ids' \in [Kind -> SUBSET Key] /\ must' \in SUBSET Key
    BY <1>0, <1>1 DEF TypeOK, SC!NoDatas, Kind
  <2> QED BY <1>0, <1>1, <2>1 DEF TypeOK, SC!TypeOK, SC!CacheData, SC!Index, Kind
<1>6. SC!RingOK'
  BY <1>1 DEF TailInv, SC!RingOK
<1>7. SpansPlaced'
  BY <1>0, <1>1, <1>3 DEF SpansPlaced
<1>8. SpansApart'
  BY <1>0, <1>1, <1>2, <1>3 DEF SpansApart
<1>9. TickOrder'
  BY <1>0, <1>1 DEF TickOrder
<1>10. RangeComplete'
  BY <1>1 DEF RangeComplete, Kind
<1>11. IdsYoung'
  <2>1. \A kind \in Kind, id \in Key : ~Reached(kind, id) /\ ~Reached(kind, id)'
    BY <1>1 DEF Reached, Over, Kind
  <2>2. \A s \in Data, kind \in Kind : Missed(s, kind) => s \notin lingering
    BY <1>1 DEF PromptConsumers, InWindow
  <2>3. TraceOf \in [Data -> Key]
    BY TraceAssumption
  <2> QED BY <1>1, <1>2, <1>4, <2>1, <2>2, <2>3 DEF TailInv, IdsYoung
<1>12. DoomedUnused'
  BY <1>1 DEF TailInv, DoomedUnused, Kind
<1>13. OwedHaveIds'
  <2>1. \A s \in owed : s \in Data /\ OwedHaveIds!(s)
    BY <1>0 DEF TailInv, TypeOK, OwedHaveIds
  <2> SUFFICES ASSUME NEW s \in owed, s \in Data
               PROVE  OwedHaveIds!(s)'
    BY <1>1, <2>1 DEF OwedHaveIds
  <2>2. LeavingNow(s)' => Waiting(s)
    BY <1>1, <1>3 DEF LeavingNow, Waiting
  <2>3. LeavingNow(s)' => \E kind \in Kind :
          /\ TraceOf[s] \in held'[kind]
          /\ Over(kind)' \/ (scan' = kind /\ TraceOf[s] \notin must') => TraceOf[s] \in ids'[kind]
    BY <1>1, <2>1, <2>2 DEF Over
  <2>4. InWindow(s)' \/ pc'[s] \in {"cached", "done"}
    BY <1>1, <1>4, <2>1
  <2>5. InWindow(s)' => \E kind \in Kind : Missed(s, kind)' /\ TraceOf[s] \in held'[kind]
    BY <1>1, <1>4, <2>1
  <2>6. Waiting(s)' => \E kind \in Kind : TraceOf[s] \in held'[kind]
    BY <1>1, <1>3, <2>1
  <2> QED BY <2>3, <2>4, <2>5, <2>6
<1>14. StoredAtMostOnce' /\ OwedSpansSurvive' /\ NoSpanLost'
  BY <1>0, <1>1, <1>3 DEF TailInv, StoredAtMostOnce, OwedSpansSurvive, NoSpanLost
<1> QED
  BY <1>5, <1>6, <1>7, <1>8, <1>9, <1>10, <1>11, <1>12, <1>13, <1>14 DEF TailInv

\* A range reaches an id.
LEMMA VisitInv ==
  ASSUME TailInv, NEW id \in Key, Visit(id)
  PROVE  TailInv'
<1> USE DEF consumerVars, cacheVars, observers
<1>0. TypeOK /\ SpansPlaced /\ SpansApart /\ TickOrder
  BY DEF TailInv
<1>1. /\ scan \in Kind /\ doomed = {} /\ id \in held[scan] /\ id \notin visited
      /\ visited' = visited \cup {id} /\ must' = must \ {id}
      /\ UNCHANGED <<cacheVars, consumerVars, held, scan, toStore, stored, observers>>
  BY DEF Visit
<1> DEFINE old == IsExpired(count[scan][id])
<1>2. old => doomed' = {id} /\ count' = count /\ ids' = ids
  BY DEF Visit
<1>3. ~old => /\ doomed' = {}
              /\ count' = [count EXCEPT ![scan][id] = @ + 1]
              /\ ids' = [ids EXCEPT ![scan] =
                           IF CheckSampled(count[scan][id] + 1) THEN @ \cup {id} ELSE @]
  BY <1>1 DEF Visit
<1>4. \A s \in Data : /\ Waiting(s)' <=> Waiting(s)
                      /\ LeavingNow(s)' <=> LeavingNow(s)
                      /\ \A k \in Key : Located(s, k)' <=> Located(s, k)
                      /\ \A k \in Kind : Missed(s, k)' <=> Missed(s, k)
                      /\ InWindow(s)' <=> InWindow(s)
  BY <1>1 DEF Waiting, LeavingNow, Located, Missed, InWindow
<1>5. /\ \A k \in Kind, i \in Key : k # scan \/ i # id => count'[k][i] = count[k][i]
      /\ count'[scan][id] = IF old THEN count[scan][id] ELSE count[scan][id] + 1
      /\ \A k \in Kind : ids[k] \subseteq ids'[k]
      /\ ~old /\ count[scan][id] <= 1 => id \in ids'[scan]
      /\ count[scan][id] \in 0 .. Size
      /\ count' \in [Kind -> [Key -> 0 .. Size]]
      /\ ids' \in [Kind -> SUBSET Key]
  <2>1. count[scan] \in [Key -> 0 .. Size] /\ count[scan][id] \in 0 .. Size
    BY <1>0, <1>1 DEF TypeOK
  <2>2. CASE old
    BY <1>0, <1>2, <2>1, <2>2 DEF TypeOK
  <2>3. CASE ~old
    <3>1. count[scan][id] + 1 \in 0 .. Size
      BY <2>1, <2>3, TraceAssumption DEF IsExpired
    <3>2. count' \in [Kind -> [Key -> 0 .. Size]]
      <4> DEFINE aged == [count[scan] EXCEPT ![id] = @ + 1]
      <4>1. aged \in [Key -> 0 .. Size]
        BY <2>1, <3>1
      <4>2. count' = [count EXCEPT ![scan] = aged]
        BY <1>3, <2>3
      <4> HIDE DEF aged
      <4> QED BY <1>0, <4>1, <4>2 DEF TypeOK
    <3>3. /\ \A k \in Kind, i \in Key : k # scan \/ i # id => count'[k][i] = count[k][i]
          /\ count'[scan][id] = count[scan][id] + 1
      BY <1>0, <1>1, <1>3, <2>3 DEF TypeOK
    <3>4. ids' \in [Kind -> SUBSET Key] /\ \A k \in Kind : ids[k] \subseteq ids'[k]
      <4> DEFINE found == IF CheckSampled(count[scan][id] + 1) THEN ids[scan] \cup {id} ELSE ids[scan]
      <4>1. found \in SUBSET Key /\ ids[scan] \subseteq found
        BY <1>0, <1>1 DEF TypeOK
      <4>2. ids' = [ids EXCEPT ![scan] = found]
        BY <1>3, <2>3
      <4> HIDE DEF found
      <4> QED BY <1>0, <4>1, <4>2 DEF TypeOK
    <3>5. count[scan][id] <= 1 => id \in ids'[scan]
      BY <1>0, <1>1, <1>3, <2>1, <2>3 DEF TypeOK, CheckSampled
    <3> QED BY <2>1, <2>3, <3>2, <3>3, <3>4, <3>5
  <2> QED BY <2>2, <2>3
<1>6. \A s \in Data : TraceOf[s] = id =>
        /\ Missed(s, scan) \/ s \in writeCache[id] \/ s \in cache[id].datas => count[scan][id] = 0
        /\ s \in batch[id] => count[scan][id] <= 1
  BY <1>0, <1>1 DEF TailInv, IdsYoung, Reached, Over, Kind
<1>7. \A s \in Data : TraceOf[s] = id /\ (Missed(s, scan) \/ Waiting(s)) =>
        ~old /\ id \in ids'[scan]
  BY <1>5, <1>6, TraceAssumption DEF Waiting, IsExpired
<1>8. TypeOK'
  <2>1. doomed' \in SUBSET Key
    BY <1>2, <1>3
  <2> QED BY <1>0, <1>1, <1>5, <2>1 DEF TypeOK, SC!TypeOK, SC!CacheData, SC!Index
<1>9. SC!RingOK'
  BY <1>1 DEF TailInv, SC!RingOK
<1>10. SpansPlaced' /\ SpansApart'
  BY <1>0, <1>1, <1>4 DEF SpansPlaced, SpansApart
<1>11. TickOrder'
  BY <1>0, <1>1 DEF TickOrder, SC!NoDatas, Kind
<1>12. RangeComplete'
  BY <1>0, <1>1, <1>5 DEF TailInv, TypeOK, RangeComplete
<1>13. \A kind \in Kind, i \in Key :
         Reached(kind, i)' <=> Reached(kind, i) \/ (kind = scan /\ i = id)
  BY <1>1 DEF Reached, Over
<1>14. IdsYoung'
  <2>1. TraceOf \in [Data -> Key]
    BY TraceAssumption
  <2>2. ~Reached(scan, id)
    BY <1>1 DEF Reached, Over, Kind
  <2> SUFFICES ASSUME NEW s \in Data, NEW kind \in Kind, TraceOf[s] \in held[kind]
               PROVE  IdsYoung!(s, kind)'
    BY <1>1 DEF IdsYoung
  <2>3. CASE kind = scan /\ TraceOf[s] = id
    BY <1>1, <1>4, <1>5, <1>6, <1>7, <1>13, <2>1, <2>3 DEF Kind, Waiting
  <2>4. CASE kind # scan \/ TraceOf[s] # id
    BY <1>1, <1>4, <1>5, <1>13, <2>1, <2>4 DEF TailInv, IdsYoung
  <2> QED BY <2>3, <2>4
<1>15. DoomedUnused'
  BY <1>1, <1>2, <1>3, <1>4, <1>7 DEF DoomedUnused
<1>16. OwedHaveIds'
  <2>1. \A s \in owed : s \in Data /\ OwedHaveIds!(s)
    BY <1>0 DEF TailInv, TypeOK, OwedHaveIds
  <2> SUFFICES ASSUME NEW s \in owed, s \in Data
               PROVE  OwedHaveIds!(s)'
    BY <1>1, <2>1 DEF OwedHaveIds
  <2>2. ASSUME LeavingNow(s)'
        PROVE  \E kind \in Kind :
          /\ TraceOf[s] \in held'[kind]
          /\ Over(kind)' \/ (scan' = kind /\ TraceOf[s] \notin must') => TraceOf[s] \in ids'[kind]
    <3>1. PICK kind \in Kind :
            /\ TraceOf[s] \in held[kind]
            /\ Over(kind) \/ (scan = kind /\ TraceOf[s] \notin must) => TraceOf[s] \in ids[kind]
      BY <1>4, <2>1, <2>2
    <3>2. Waiting(s)
      BY <1>4, <2>2 DEF LeavingNow, Waiting
    <3>3. scan = kind /\ TraceOf[s] = id => TraceOf[s] \in ids'[kind]
      BY <1>7, <3>2
    <3>4. Over(kind)' <=> Over(kind)
      BY <1>1 DEF Over
    <3> WITNESS kind \in Kind
    <3> QED BY <1>1, <1>5, <3>1, <3>3, <3>4
  <2>3. InWindow(s)' \/ pc'[s] \in {"cached", "done"}
    BY <1>1, <1>4, <2>1
  <2>4. InWindow(s)' => \E kind \in Kind : Missed(s, kind)' /\ TraceOf[s] \in held'[kind]
    BY <1>1, <1>4, <2>1
  <2>5. Waiting(s)' => \E kind \in Kind : TraceOf[s] \in held'[kind]
    BY <1>1, <1>4, <2>1
  <2> QED BY <2>2, <2>3, <2>4, <2>5
<1>17. StoredAtMostOnce' /\ OwedSpansSurvive' /\ NoSpanLost'
  BY <1>0, <1>1, <1>4 DEF TailInv, StoredAtMostOnce, OwedSpansSurvive, NoSpanLost
<1> QED
  BY <1>8, <1>9, <1>10, <1>11, <1>12, <1>14, <1>15, <1>16, <1>17 DEF TailInv

\* The expired id is deleted.
LEMMA DeleteInv ==
  ASSUME TailInv, DeleteExpired
  PROVE  TailInv'
<1> USE DEF consumerVars, cacheVars, observers
<1>0. TypeOK /\ SpansPlaced /\ SpansApart /\ TickOrder /\ DoomedUnused
  BY DEF TailInv
<1>1. /\ doomed # {} /\ doomed' = {}
      /\ held' = [held EXCEPT ![scan] = @ \ doomed]
      /\ count' = [count EXCEPT ![scan] = [k \in Key |-> IF k \in doomed THEN 0 ELSE @[k]]]
      /\ UNCHANGED <<cacheVars, consumerVars, scan, must, visited, ids, toStore, stored, observers>>
  BY DEF DeleteExpired
<1>2. scan \in Kind
  BY <1>0, <1>1 DEF DoomedUnused
<1>3. \A s \in Data : /\ Waiting(s)' <=> Waiting(s)
                      /\ LeavingNow(s)' <=> LeavingNow(s)
                      /\ \A k \in Key : Located(s, k)' <=> Located(s, k)
                      /\ \A k \in Kind : Missed(s, k)' <=> Missed(s, k)
                      /\ InWindow(s)' <=> InWindow(s)
  BY <1>1 DEF Waiting, LeavingNow, Located, Missed, InWindow
<1>4. /\ held' \in [Kind -> SUBSET Key]
      /\ count' \in [Kind -> [Key -> 0 .. Size]]
      /\ \A k \in Kind, i \in Key : i \in held'[k] <=> i \in held[k] /\ ~(k = scan /\ i \in doomed)
      /\ \A k \in Kind, i \in Key : i \in held'[k] => count'[k][i] = count[k][i]
  <2> DEFINE kept == [k \in Key |-> IF k \in doomed THEN 0 ELSE count[scan][k]]
  <2>1. kept \in [Key -> 0 .. Size]
    BY <1>0, <1>2, TraceAssumption DEF TypeOK
  <2>2. count' = [count EXCEPT ![scan] = kept]
    BY <1>1
  <2>3. \A k \in Key : k \notin doomed => kept[k] = count[scan][k]
    OBVIOUS
  <2> HIDE DEF kept
  <2> QED BY <1>0, <1>1, <1>2, <2>1, <2>2, <2>3 DEF TypeOK
<1>5. TypeOK'
  BY <1>0, <1>1, <1>4 DEF TypeOK, SC!TypeOK, SC!CacheData, SC!Index
<1>6. SC!RingOK'
  BY <1>1 DEF TailInv, SC!RingOK
<1>7. SpansPlaced' /\ SpansApart'
  BY <1>0, <1>1, <1>3 DEF SpansPlaced, SpansApart
<1>8. TickOrder' /\ DoomedUnused'
  BY <1>0, <1>1 DEF TickOrder, SC!NoDatas, DoomedUnused
<1>9. RangeComplete'
  BY <1>0, <1>1, <1>4 DEF TailInv, TypeOK, RangeComplete
<1>10. IdsYoung'
  <2>1. TraceOf \in [Data -> Key]
    BY TraceAssumption
  <2> QED BY <1>1, <1>3, <1>4, <2>1 DEF TailInv, IdsYoung, Reached, Over
<1>11. OwedHaveIds'
  <2>1. \A s \in owed : s \in Data /\ OwedHaveIds!(s)
    BY <1>0 DEF TailInv, TypeOK, OwedHaveIds
  <2> SUFFICES ASSUME NEW s \in owed, s \in Data
               PROVE  OwedHaveIds!(s)'
    BY <1>1, <2>1 DEF OwedHaveIds
  <2>2. TraceOf[s] \in Key
    BY TraceAssumption
  <2>3. \A k \in Kind : TraceOf[s] \in held[k] /\ (Missed(s, k) \/ Waiting(s)) => TraceOf[s] \in held'[k]
    BY <1>0, <1>4, <2>2 DEF DoomedUnused
  <2>4. LeavingNow(s) => Waiting(s)
    BY DEF LeavingNow, Waiting
  <2>5. LeavingNow(s)' => \E kind \in Kind :
          /\ TraceOf[s] \in held'[kind]
          /\ Over(kind)' \/ (scan' = kind /\ TraceOf[s] \notin must') => TraceOf[s] \in ids'[kind]
    BY <1>1, <1>3, <2>1, <2>3, <2>4 DEF Over
  <2>6. InWindow(s)' \/ pc'[s] \in {"cached", "done"}
    BY <1>1, <1>3, <2>1
  <2>7. InWindow(s)' => \E kind \in Kind : Missed(s, kind)' /\ TraceOf[s] \in held'[kind]
    BY <1>3, <2>1, <2>3
  <2>8. Waiting(s)' => \E kind \in Kind : TraceOf[s] \in held'[kind]
    BY <1>3, <2>1, <2>3
  <2> QED BY <2>5, <2>6, <2>7, <2>8
<1>12. StoredAtMostOnce' /\ OwedSpansSurvive' /\ NoSpanLost'
  BY <1>0, <1>1, <1>3 DEF TailInv, StoredAtMostOnce, OwedSpansSurvive, NoSpanLost
<1> QED
  BY <1>5, <1>6, <1>7, <1>8, <1>9, <1>10, <1>11, <1>12 DEF TailInv

\* A range is over and the next one begins.
LEMMA EndRangeInv ==
  ASSUME TailInv, EndRange
  PROVE  TailInv'
<1> USE DEF consumerVars, cacheVars, idVars
<1>0. TypeOK /\ SpansPlaced /\ SpansApart /\ TickOrder
  BY DEF TailInv
<1>1. /\ scan \in Kind /\ must = {} /\ doomed = {} /\ visited' = {}
      /\ scan' = After(scan)
      /\ must' = IF After(scan) = "end" THEN {} ELSE held[After(scan)]
      /\ UNCHANGED <<cacheVars, consumerVars, idVars, doomed, ids, toStore, stored,
                     expired, owed, lingering>>
  BY DEF EndRange, BeginRange
<1>2. scan' \in {"slow", "normal", "end"} /\ (scan' # "end" => scan' \in Kind /\ must' = held[scan'])
  BY <1>1 DEF After, Kind
<1>3. \A s \in Data : /\ Waiting(s)' <=> Waiting(s)
                      /\ LeavingNow(s)' <=> LeavingNow(s)
                      /\ \A k \in Key : Located(s, k)' <=> Located(s, k)
                      /\ \A k \in Kind : Missed(s, k)' <=> Missed(s, k)
                      /\ InWindow(s)' <=> InWindow(s)
  BY <1>1 DEF Waiting, LeavingNow, Located, Missed, InWindow
<1>4. \A kind \in Kind : Over(kind)' <=> Over(kind) \/ kind = scan
  BY <1>1 DEF Over, After, Kind
<1>5. TypeOK'
  <2>1. must' \in SUBSET Key
    BY <1>0, <1>1, <1>2 DEF TypeOK
  <2> QED BY <1>0, <1>1, <1>2, <2>1 DEF TypeOK, SC!TypeOK, SC!CacheData, SC!Index, Kind
<1>6. SC!RingOK'
  BY <1>1 DEF TailInv, SC!RingOK
<1>7. SpansPlaced' /\ SpansApart'
  BY <1>0, <1>1, <1>3 DEF SpansPlaced, SpansApart
<1>8. TickOrder'
  BY <1>0, <1>1, <1>2 DEF TickOrder, SC!NoDatas, Kind
<1>9. DoomedUnused'
  BY <1>1 DEF DoomedUnused
<1>10. RangeComplete'
  BY <1>1, <1>2 DEF RangeComplete, Kind
<1>11. IdsYoung'
  <2>1. TraceOf \in [Data -> Key]
    BY TraceAssumption
  <2>2. \A id \in held[scan] : Reached(scan, id) \/ count[scan][id] = 0
    BY <1>1 DEF TailInv, RangeComplete, Reached
  <2>3. \A kind \in Kind, id \in Key : Reached(kind, id)' <=> Over(kind) \/ kind = scan
    BY <1>1, <1>4 DEF Reached
  <2>4. \A kind \in Kind, id \in Key : kind # scan => (Reached(kind, id) <=> Over(kind))
    BY DEF Reached
  <2>5. scan # "idle" /\ scan' # "idle"
    BY <1>1, <1>2 DEF Kind
  <2> SUFFICES ASSUME NEW s \in Data, NEW kind \in Kind, TraceOf[s] \in held[kind]
               PROVE  IdsYoung!(s, kind)'
    BY <1>1 DEF IdsYoung
  <2>6. CASE kind = scan
    BY <1>1, <1>3, <2>1, <2>2, <2>3, <2>5, <2>6 DEF TailInv, IdsYoung
  <2>7. CASE kind # scan
    BY <1>1, <1>3, <2>1, <2>3, <2>4, <2>5, <2>7 DEF TailInv, IdsYoung
  <2> QED BY <2>6, <2>7
<1>12. OwedHaveIds'
  <2>1. \A s \in owed : s \in Data /\ OwedHaveIds!(s)
    BY <1>0 DEF TailInv, TypeOK, OwedHaveIds
  <2> SUFFICES ASSUME NEW s \in owed, s \in Data
               PROVE  OwedHaveIds!(s)'
    BY <1>1, <2>1 DEF OwedHaveIds
  <2>2. LeavingNow(s)' => \E kind \in Kind :
          /\ TraceOf[s] \in held'[kind]
          /\ Over(kind)' \/ (scan' = kind /\ TraceOf[s] \notin must') => TraceOf[s] \in ids'[kind]
    <3> SUFFICES ASSUME LeavingNow(s)'
                 PROVE  \E kind \in Kind :
                          /\ TraceOf[s] \in held'[kind]
                          /\ Over(kind)' \/ (scan' = kind /\ TraceOf[s] \notin must')
                               => TraceOf[s] \in ids'[kind]
      OBVIOUS
    <3>1. PICK kind \in Kind :
            /\ TraceOf[s] \in held[kind]
            /\ Over(kind) \/ (scan = kind /\ TraceOf[s] \notin must) => TraceOf[s] \in ids[kind]
      BY <1>3, <2>1
    <3>2. Over(kind)' => TraceOf[s] \in ids[kind]
      BY <1>1, <1>4, <3>1
    <3>3. scan' = kind => must' = held[kind]
      BY <1>2 DEF Kind
    <3> WITNESS kind \in Kind
    <3> QED BY <1>1, <3>1, <3>2, <3>3
  <2>3. InWindow(s)' \/ pc'[s] \in {"cached", "done"}
    BY <1>1, <1>3, <2>1
  <2>4. InWindow(s)' => \E kind \in Kind : Missed(s, kind)' /\ TraceOf[s] \in held'[kind]
    BY <1>1, <1>3, <2>1
  <2>5. Waiting(s)' => \E kind \in Kind : TraceOf[s] \in held'[kind]
    BY <1>1, <1>3, <2>1
  <2> QED BY <2>2, <2>3, <2>4, <2>5
<1>13. StoredAtMostOnce' /\ OwedSpansSurvive' /\ NoSpanLost'
  BY <1>0, <1>1, <1>3 DEF TailInv, StoredAtMostOnce, OwedSpansSurvive, NoSpanLost
<1> QED
  BY <1>5, <1>6, <1>7, <1>8, <1>9, <1>10, <1>11, <1>12, <1>13 DEF TailInv

\* The batch is merged into the readable cache.
LEMMA CopyInv ==
  ASSUME TailInv, CopyTraces
  PROVE  TailInv'
<1> USE DEF consumerVars, idVars, tickVars, observers
<1>0. TypeOK /\ SpansPlaced /\ SpansApart /\ TickOrder /\ SC!RingOK
  BY DEF TailInv
<1>1. /\ scan = "end" /\ phase = "reset" /\ phase' = "copied"
      /\ cache' = [k \in Key |-> IF batch[k] # {} THEN SC!Merge(cache[k], batch[k]) ELSE cache[k]]
      /\ buckets' = [buckets EXCEPT ![writeIndex] = {k \in Key : batch[k] # {}}]
      /\ writeIndex' = SC!NextIndex(writeIndex)
      /\ batch' = SC!NoDatas
      /\ UNCHANGED <<writeCache, readIndex, picked>>
      /\ UNCHANGED <<consumerVars, idVars, tickVars, stored, observers>>
  BY DEF CopyTraces, SC!Copy
<1>2. \A k \in Key : /\ batch'[k] = {}
                     /\ cache'[k].datas = cache[k].datas \cup batch[k]
                     /\ cache'[k].index = IF batch[k] # {} THEN writeIndex ELSE cache[k].index
  BY <1>0, <1>1 DEF TypeOK, SC!TypeOK, SC!CacheData, SC!Merge, SC!NoDatas
<1>3. writeIndex # readIndex
  BY <1>0, <1>1, TraceAssumption DEF TypeOK, SC!TypeOK, SC!RingOK, SC!Index
<1>4. \A s \in Data : /\ Waiting(s)' <=> Waiting(s)
                      /\ LeavingNow(s)' => LeavingNow(s)
                      /\ \A k \in Key : Located(s, k)' <=> Located(s, k)
                      /\ \A k \in Kind : Missed(s, k)' <=> Missed(s, k)
                      /\ InWindow(s)' <=> InWindow(s)
  BY <1>1, <1>2, <1>3, TraceAssumption DEF Waiting, LeavingNow, Located, Missed, InWindow
<1>5. TypeOK' /\ SC!RingOK'
  <2>1. writeIndex' \in SC!Index
    BY <1>0, <1>1, TraceAssumption DEF TypeOK, SC!TypeOK, SC!Index, SC!NextIndex
  <2>2. cache' \in [Key -> SC!CacheData]
    BY <1>0, <1>1 DEF TypeOK, SC!TypeOK, SC!CacheData, SC!Merge
  <2>3. buckets' \in [SC!Index -> SUBSET Key] /\ batch' \in [Key -> SUBSET Data]
    BY <1>0, <1>1 DEF TypeOK, SC!TypeOK, SC!NoDatas
  <2>4. SC!TypeOK'
    BY <1>0, <1>1, <2>1, <2>2, <2>3 DEF TypeOK, SC!TypeOK, SC!CacheData, SC!Index
  <2>5. SC!RingOK'
    BY <1>0, <1>1, TraceAssumption DEF TypeOK, SC!TypeOK, SC!RingOK, SC!NextIndex, SC!Index
  <2> QED BY <1>0, <1>1, <2>4, <2>5 DEF TypeOK
<1>6. SpansPlaced'
  BY <1>0, <1>1, <1>4 DEF SpansPlaced
<1>7. SpansApart'
  BY <1>0, <1>1, <1>2, <1>4 DEF SpansApart
<1>8. TickOrder'
  BY <1>0, <1>1 DEF TickOrder, SC!NoDatas, Kind
<1>9. DoomedUnused' /\ RangeComplete'
  BY <1>1, <1>4 DEF TailInv, DoomedUnused, RangeComplete, Kind
<1>10. IdsYoung'
  <2>1. TraceOf \in [Data -> Key]
    BY TraceAssumption
  <2>2. \A kind \in Kind, id \in Key : Reached(kind, id) /\ Reached(kind, id)'
    BY <1>1 DEF Reached, Over
  <2> QED BY <1>1, <1>2, <1>4, <2>1, <2>2 DEF TailInv, IdsYoung
<1>11. OwedHaveIds'
  BY <1>0, <1>1, <1>4 DEF TailInv, TypeOK, OwedHaveIds, Over
<1>12. StoredAtMostOnce' /\ OwedSpansSurvive' /\ NoSpanLost'
  BY <1>0, <1>1, <1>4 DEF TailInv, StoredAtMostOnce, OwedSpansSurvive, NoSpanLost
<1> QED
  BY <1>5, <1>6, <1>7, <1>8, <1>9, <1>10, <1>11, <1>12 DEF TailInv

\* The spans of the sampled ids of one sampler are picked.
LEMMA PickInv ==
  ASSUME TailInv, NEW kind \in Kind, PickTraces(kind)
  PROVE  TailInv'
<1> USE DEF consumerVars, idVars, observers
<1>0. TypeOK /\ SpansPlaced /\ SpansApart /\ TickOrder
  BY DEF TailInv
<1>1. /\ scan = "end" /\ phase = "copied"
      /\ picked' = UNION {cache[k].datas : k \in ids[kind]}
      /\ cache' = [k \in Key |-> IF k \in ids[kind] THEN SC!NoData ELSE cache[k]]
      /\ UNCHANGED <<writeCache, batch, buckets, readIndex, writeIndex, phase>>
      /\ toStore' = toStore \cup picked'
      /\ ids' = [ids EXCEPT ![kind] = {}]
      /\ UNCHANGED <<consumerVars, idVars, scan, must, visited, doomed, stored, observers>>
  BY DEF PickTraces, SC!PickMatchDatas
<1>2. /\ ids[kind] \subseteq Key
      /\ ids' \in [Kind -> SUBSET Key]
      /\ \A k \in Kind : ids'[k] = IF k = kind THEN {} ELSE ids[k]
  BY <1>0, <1>1 DEF TypeOK
<1>3. \A k \in Key : /\ batch[k] = {}
                     /\ k \in ids[kind] => cache'[k].datas = {}
                     /\ k \notin ids[kind] => cache'[k] = cache[k]
  BY <1>0, <1>1 DEF TickOrder, SC!NoDatas, SC!NoData
<1>4. \A s \in picked' : /\ s \in Data /\ TraceOf[s] \in ids[kind]
                         /\ s \in cache[TraceOf[s]].datas
  <2> SUFFICES ASSUME NEW k \in ids[kind], NEW s \in cache[k].datas
               PROVE  s \in Data /\ TraceOf[s] = k
    BY <1>1
  <2>1. k \in Key /\ s \in Data
    BY <1>0, <1>2 DEF TypeOK, SC!TypeOK, SC!CacheData
  <2> QED BY <1>0, <2>1 DEF SpansPlaced, Located
<1>5. \A s \in picked' : Waiting(s) /\ ~Waiting(s)' /\ pc[s] = "cached" /\ stored[s] = 0
                         /\ s \notin expired /\ s \notin toStore
  <2> SUFFICES ASSUME NEW s \in picked'
               PROVE  Waiting(s) /\ ~Waiting(s)' /\ pc[s] = "cached" /\ stored[s] = 0
                         /\ s \notin expired /\ s \notin toStore
    OBVIOUS
  <2>1. s \in Data /\ TraceOf[s] \in Key /\ TraceOf[s] \in ids[kind] /\ s \in cache[TraceOf[s]].datas
    BY <1>2, <1>4
  <2>2. Waiting(s) /\ Located(s, TraceOf[s])
    BY <2>1 DEF Waiting, Located
  <2>3. ~Waiting(s)'
    BY <1>0, <1>1, <1>3, <2>1 DEF SpansApart, Waiting
  <2> QED BY <1>0, <2>1, <2>2, <2>3 DEF SpansPlaced, SpansApart
<1>6. \A s \in Data : Waiting(s) => s \in picked' \/ Waiting(s)'
  BY <1>1, <1>3, TraceAssumption DEF Waiting
<1>7. \A s \in Data : /\ Waiting(s)' => Waiting(s)
                      /\ LeavingNow(s)' => LeavingNow(s) /\ TraceOf[s] \notin ids[kind]
                      /\ \A k \in Key : Located(s, k)' => Located(s, k)
                      /\ \A k \in Kind : Missed(s, k)' <=> Missed(s, k)
                      /\ InWindow(s)' <=> InWindow(s)
  BY <1>1, <1>3, TraceAssumption DEF Waiting, LeavingNow, Located, Missed, InWindow
<1>8. TypeOK'
  <2>1. cache' \in [Key -> SC!CacheData]
    BY <1>0, <1>1, TraceAssumption DEF TypeOK, SC!TypeOK, SC!CacheData, SC!NoData, SC!Index
  <2>2. picked' \in SUBSET Data /\ toStore' \in SUBSET Data
    BY <1>0, <1>1, <1>4 DEF TypeOK
  <2>3. SC!TypeOK'
    BY <1>0, <1>1, <2>1, <2>2 DEF TypeOK, SC!TypeOK, SC!CacheData, SC!Index
  <2> QED BY <1>0, <1>1, <1>2, <2>2, <2>3 DEF TypeOK
<1>9. SC!RingOK'
  BY <1>1 DEF TailInv, SC!RingOK
<1>10. SpansPlaced'
  BY <1>0, <1>1, <1>5, <1>7 DEF SpansPlaced
<1>11. SpansApart'
  BY <1>0, <1>1, <1>3, <1>5, <1>7 DEF SpansApart
<1>12. TickOrder'
  BY <1>0, <1>1 DEF TickOrder, SC!NoDatas, Kind
<1>13. DoomedUnused' /\ RangeComplete'
  BY <1>1, <1>7 DEF TailInv, DoomedUnused, RangeComplete, Kind
<1>14. IdsYoung'
  <2>1. TraceOf \in [Data -> Key]
    BY TraceAssumption
  <2>2. \A k \in Kind, id \in Key : Reached(k, id) /\ Reached(k, id)'
    BY <1>1 DEF Reached, Over
  <2>3. \A s \in Data : s \in cache'[TraceOf[s]].datas =>
          s \in cache[TraceOf[s]].datas /\ TraceOf[s] \notin ids[kind]
    BY <1>3, <2>1
  <2> QED BY <1>1, <1>2, <1>3, <1>7, <2>1, <2>2, <2>3 DEF TailInv, IdsYoung
<1>15. OwedHaveIds'
  <2>1. \A s \in owed : s \in Data /\ OwedHaveIds!(s)
    BY <1>0 DEF TailInv, TypeOK, OwedHaveIds
  <2> SUFFICES ASSUME NEW s \in owed, s \in Data
               PROVE  OwedHaveIds!(s)'
    BY <1>1, <2>1 DEF OwedHaveIds
  <2>2. LeavingNow(s)' => \E k \in Kind :
          /\ TraceOf[s] \in held'[k]
          /\ Over(k)' \/ (scan' = k /\ TraceOf[s] \notin must') => TraceOf[s] \in ids'[k]
    BY <1>1, <1>2, <1>7, <2>1 DEF Over
  <2>3. InWindow(s)' \/ pc'[s] \in {"cached", "done"}
    BY <1>1, <1>7, <2>1
  <2>4. InWindow(s)' => \E k \in Kind : Missed(s, k)' /\ TraceOf[s] \in held'[k]
    BY <1>1, <1>7, <2>1
  <2>5. Waiting(s)' => \E k \in Kind : TraceOf[s] \in held'[k]
    BY <1>1, <1>7, <2>1
  <2> QED BY <2>2, <2>3, <2>4, <2>5
<1>16. StoredAtMostOnce' /\ OwedSpansSurvive' /\ NoSpanLost'
  BY <1>0, <1>1, <1>6 DEF TailInv, StoredAtMostOnce, OwedSpansSurvive, NoSpanLost
<1> QED
  BY <1>8, <1>9, <1>10, <1>11, <1>12, <1>13, <1>14, <1>15, <1>16 DEF TailInv

\* The tick ends: what is too old is dropped, what was picked is stored.
LEMMA CleanInv ==
  ASSUME TailInv, CleanAndStore
  PROVE  TailInv'
<1> USE DEF consumerVars, idVars
<1>0. TypeOK /\ SpansPlaced /\ SpansApart /\ TickOrder /\ SC!RingOK /\ OwedHaveIds
  BY DEF TailInv
<1>1. /\ scan = "end" /\ phase = "copied" /\ phase' = "idle" /\ scan' = "idle"
      /\ \A kind \in Kind : ids[kind] = {}
      /\ cache' = [k \in Key |-> IF k \in SC!Expiring THEN SC!NoData ELSE cache[k]]
      /\ readIndex' = SC!NextIndex(readIndex)
      /\ picked' = {} /\ toStore' = {}
      /\ UNCHANGED <<writeCache, batch, buckets, writeIndex>>
      /\ expired' = expired \cup UNION {cache[k].datas : k \in SC!Expiring}
      /\ stored' = [s \in Data |-> IF s \in toStore THEN stored[s] + 1 ELSE stored[s]]
      /\ lingering' = {s \in Data : InWindow(s)}
      /\ UNCHANGED <<consumerVars, idVars, must, visited, doomed, ids, owed>>
  BY DEF CleanAndStore, SC!CleanExpireDatas, StoreTrace
<1>2. /\ SC!Expiring \subseteq Key
      /\ \A k \in SC!Expiring : cache[k].index = readIndex
  BY <1>0 DEF TypeOK, SC!TypeOK, SC!Expiring
<1>3. \A k \in Key : /\ batch[k] = {}
                     /\ k \in SC!Expiring => cache'[k].datas = {}
                     /\ k \notin SC!Expiring => cache'[k] = cache[k]
  BY <1>0, <1>1 DEF TickOrder, SC!NoDatas, SC!NoData
<1>4. \A s \in expired' \ expired :
        s \in Data /\ TraceOf[s] \in SC!Expiring /\ s \in cache[TraceOf[s]].datas
  <2> SUFFICES ASSUME NEW k \in SC!Expiring, NEW s \in cache[k].datas
               PROVE  s \in Data /\ TraceOf[s] = k
    BY <1>1
  <2>1. k \in Key /\ s \in Data
    BY <1>0, <1>2 DEF TypeOK, SC!TypeOK, SC!CacheData
  <2> QED BY <1>0, <2>1 DEF SpansPlaced, Located
<1>5. \A s \in expired' \ expired : /\ Waiting(s) /\ ~Waiting(s)' /\ LeavingNow(s)
                                    /\ pc[s] = "cached" /\ stored[s] = 0 /\ s \notin toStore
  <2> SUFFICES ASSUME NEW s \in expired' \ expired
               PROVE  /\ Waiting(s) /\ ~Waiting(s)' /\ LeavingNow(s)
                      /\ pc[s] = "cached" /\ stored[s] = 0 /\ s \notin toStore
    OBVIOUS
  <2>1. s \in Data /\ TraceOf[s] \in Key /\ TraceOf[s] \in SC!Expiring /\ s \in cache[TraceOf[s]].datas
    BY <1>2, <1>4
  <2>2. Waiting(s) /\ Located(s, TraceOf[s])
    BY <2>1 DEF Waiting, Located
  <2>3. ~Waiting(s)'
    BY <1>0, <1>1, <1>3, <2>1 DEF SpansApart, Waiting
  <2>4. LeavingNow(s)
    BY <1>1, <1>2, <1>3, <2>1 DEF LeavingNow
  <2> QED BY <1>0, <2>1, <2>2, <2>3, <2>4 DEF SpansPlaced, SpansApart
<1>6. \A s \in Data : Waiting(s) => s \in expired' \/ Waiting(s)'
  BY <1>1, <1>3, TraceAssumption DEF Waiting
<1>7. \A s \in Data : /\ Waiting(s)' => Waiting(s)
                      /\ ~LeavingNow(s)'
                      /\ \A k \in Key : Located(s, k)' => Located(s, k)
                      /\ \A k \in Kind : Missed(s, k)' <=> Missed(s, k)
                      /\ InWindow(s)' <=> InWindow(s)
  BY <1>1, <1>3, TraceAssumption DEF Waiting, LeavingNow, Located, Missed, InWindow
<1>8. \A s \in Data : /\ s \in toStore => stored[s] = 0 /\ stored'[s] = 1
                      /\ s \notin toStore => stored'[s] = stored[s]
  BY <1>0, <1>1 DEF SpansApart
<1>9. TypeOK' /\ SC!RingOK'
  <2>1. readIndex' \in SC!Index
    BY <1>0, <1>1, TraceAssumption DEF TypeOK, SC!TypeOK, SC!Index, SC!NextIndex
  <2>2. cache' \in [Key -> SC!CacheData]
    BY <1>0, <1>1, TraceAssumption DEF TypeOK, SC!TypeOK, SC!CacheData, SC!NoData, SC!Index
  <2>3. SC!TypeOK'
    BY <1>0, <1>1, <2>1, <2>2 DEF TypeOK, SC!TypeOK, SC!CacheData, SC!Index
  <2>4. SC!RingOK'
    BY <1>0, <1>1, TraceAssumption DEF TypeOK, SC!TypeOK, SC!RingOK, SC!NextIndex, SC!Index
  <2>5. stored' \in [Data -> 0 .. 2]
    <3>1. \A s \in Data : stored'[s] \in 0 .. 2
      BY <1>0, <1>8 DEF TypeOK
    <3> QED BY <1>1, <3>1
  <2>6. expired' \in SUBSET Data
    BY <1>0, <1>4 DEF TypeOK
  <2> QED BY <1>0, <1>1, <2>3, <2>4, <2>5, <2>6 DEF TypeOK
<1>10. SpansPlaced'
  BY <1>0, <1>1, <1>5, <1>7, <1>8 DEF SpansPlaced, TypeOK
<1>11. SpansApart'
  <2>1. \A k \in Key : /\ writeCache'[k] \cap batch'[k] = {}
                       /\ (writeCache'[k] \cup batch'[k]) \cap cache'[k].datas = {}
    BY <1>0, <1>1, <1>3 DEF SpansApart
  <2>2. \A s \in Data : Waiting(s)' => s \notin expired' /\ stored'[s] = 0
    BY <1>0, <1>5, <1>7, <1>8 DEF SpansApart
  <2>3. \A s \in expired' : s \in Data /\ s \notin toStore /\ stored[s] = 0
    BY <1>0, <1>4, <1>5 DEF TypeOK, SpansApart
  <2> QED BY <1>1, <1>8, <2>1, <2>2, <2>3 DEF SpansApart
<1>12. TickOrder'
  BY <1>0, <1>1 DEF TickOrder, SC!NoDatas, Kind
<1>13. DoomedUnused' /\ RangeComplete'
  BY <1>1 DEF TailInv, DoomedUnused, RangeComplete, Kind
<1>14. IdsYoung'
  <2>1. TraceOf \in [Data -> Key]
    BY TraceAssumption
  <2>2. \A kind \in Kind, id \in Key : Reached(kind, id) /\ ~Reached(kind, id)'
    BY <1>1 DEF Reached, Over, Kind
  <2>3. \A s \in Data, kind \in Kind : Missed(s, kind) => s \in lingering'
    BY <1>1 DEF InWindow
  <2>4. \A s \in Data : s \in cache'[TraceOf[s]].datas => s \in cache[TraceOf[s]].datas
    BY <1>3, <2>1
  <2> QED BY <1>1, <1>3, <1>7, <2>1, <2>2, <2>3, <2>4 DEF TailInv, IdsYoung
<1>15. \A s \in owed : s \in Data /\ ~LeavingNow(s)
  BY <1>0, <1>1 DEF TypeOK, OwedHaveIds, Over
<1>16. OwedHaveIds'
  BY <1>0, <1>1, <1>7, <1>15 DEF OwedHaveIds
<1>17. OwedSpansSurvive'
  BY <1>1, <1>5, <1>15 DEF TailInv, OwedSpansSurvive
<1>18. StoredAtMostOnce' /\ NoSpanLost'
  BY <1>0, <1>1, <1>6, <1>8 DEF TailInv, StoredAtMostOnce, NoSpanLost
<1> QED
  BY <1>9, <1>10, <1>11, <1>12, <1>13, <1>14, <1>16, <1>17, <1>18 DEF TailInv

\* Every step preserves the invariant.
LEMMA StepInv == TailInv /\ [Next]_vars => TailInv'
<1> SUFFICES ASSUME TailInv, [Next]_vars PROVE TailInv'
  OBVIOUS
<1>1. ASSUME NEW s \in Data, Consume(s)
      PROVE  TailInv'
  BY <1>1, ConsumeInv
<1>2. ASSUME NEW kind \in Kind, NEW id \in Key, UpdateSampledTraceId(kind, id)
      PROVE  TailInv'
  <2>1. /\ StoreId(kind, id) /\ pc' = pc /\ todo' = todo
        /\ UNCHANGED <<cacheVars, tickVars, stored>>
    BY <1>2 DEF UpdateSampledTraceId, consumerVars
  <2> QED BY <2>1, IdStored DEF TailInv, TypeOK
<1>3. CASE CleanTick
  BY <1>3, TakeInv, VisitInv, DeleteInv, EndRangeInv, CopyInv, PickInv, CleanInv DEF CleanTick
<1>4. CASE UNCHANGED vars
  <2> USE <1>4 DEF vars, cacheVars, consumerVars, idVars, tickVars, observers
  <2>0. \A s \in Data : /\ Waiting(s)' <=> Waiting(s)
                        /\ LeavingNow(s)' <=> LeavingNow(s)
                        /\ \A k \in Key : Located(s, k)' <=> Located(s, k)
                        /\ \A k \in Kind : Missed(s, k)' <=> Missed(s, k)
                        /\ InWindow(s)' <=> InWindow(s)
    BY DEF Waiting, LeavingNow, Located, Missed, InWindow
  <2>1. TypeOK' /\ SC!RingOK'
    BY DEF TailInv, TypeOK, SC!TypeOK, SC!CacheData, SC!Index, SC!RingOK
  <2>2. SpansPlaced' /\ SpansApart' /\ StoredAtMostOnce' /\ OwedSpansSurvive' /\ NoSpanLost'
    BY <2>0 DEF TailInv, TypeOK, SpansPlaced, SpansApart, StoredAtMostOnce, OwedSpansSurvive, NoSpanLost
  <2>3. TickOrder' /\ RangeComplete' /\ DoomedUnused'
    BY <2>0 DEF TailInv, TickOrder, RangeComplete, DoomedUnused, SC!NoDatas
  <2>4. IdsYoung'
    BY <2>0 DEF TailInv, IdsYoung, Reached, Over
  <2>5. OwedHaveIds'
    BY <2>0 DEF TailInv, TypeOK, OwedHaveIds, Over
  <2> QED BY <2>1, <2>2, <2>3, <2>4, <2>5 DEF TailInv
<1> QED
  BY <1>1, <1>2, <1>3, <1>4 DEF Next

\* The invariant holds in every reachable state.
THEOREM TailInvariant == Spec => []TailInv
BY InitInv, StepInv, PTL DEF Spec

\* storeTrace gets a span at most once: from its consumer, from one of the
\* three picks of one tick, or not at all (buildSpanTrace, cleanCacheOnTick).
THEOREM StoredOnce == Spec => []StoredAtMostOnce
<1>1. TailInv => StoredAtMostOnce
  BY DEF TailInv
<1> QED
  BY <1>1, TailInvariant, PTL

\* A span that waited, or had just missed the id, when its trace was sampled is
\* never dropped by CleanExpireDatas.
THEOREM SampledSpansKept == Spec => []OwedSpansSurvive
<1>1. TailInv => OwedSpansSurvive
  BY DEF TailInv
<1> QED
  BY <1>1, TailInvariant, PTL

\* A cached span is stored, about to be stored, waiting, or has expired.
THEOREM SpansAccounted == Spec => []NoSpanLost
<1>1. TailInv => NoSpanLost
  BY DEF TailInv
<1> QED
  BY <1>1, TailInvariant, PTL

\* A sampled id is deleted (sampledTraceIds.Delete) only when no span of its
\* trace waits in the caches or has just missed it: Delete never takes away an
\* id stored again since the ticker found it expired that a span counts on.
DeletesUnused ==
  [][\A kind \in Kind : \A id \in held[kind] \ held'[kind] :
       \A s \in Data : TraceOf[s] = id => ~Missed(s, kind) /\ ~Waiting(s)]_vars

\* cleanSampledIds deletes such ids only, in every behaviour.
THEOREM DeletedUnused == Spec => DeletesUnused
<1>1. ASSUME TailInv, [Next]_vars, NEW kind \in Kind, NEW id \in held[kind] \ held'[kind],
             NEW s \in Data, TraceOf[s] = id
      PROVE  ~Missed(s, kind) /\ ~Waiting(s)
  <2>0. held \in [Kind -> SUBSET Key] /\ DoomedUnused
    BY <1>1 DEF TailInv, TypeOK
  <2>1. ASSUME NEW k \in Kind, NEW i \in Key, StoreId(k, i)
        PROVE  FALSE
    BY <1>1, <2>0, <2>1 DEF StoreId
  <2>2. ASSUME NEW r \in Data, NotifyStore(r)
        PROVE  FALSE
    <3>1. todo[r] \in Notified
      BY <1>1, <2>2 DEF TailInv, TypeOK, TickOrder, NotifyStore
    <3> QED BY <2>1, <2>2, <3>1, NotifiedTail, TraceAssumption DEF NotifyStore
  <2>3. CASE held' = held
    BY <1>1, <2>3
  <2>4. CASE DeleteExpired
    <3>1. held' = [held EXCEPT ![scan] = @ \ doomed]
      BY <2>4 DEF DeleteExpired
    <3>2. kind = scan /\ id \in doomed
      BY <1>1, <2>0, <3>1
    <3> QED BY <1>1, <2>0, <3>2 DEF DoomedUnused
  <2>5. ASSUME NEW r \in Data, Consume(r), ~NotifyStore(r)
        PROVE  held' = held
    BY <2>5 DEF Consume, Arrive, Load, CacheTrace, NotifyLoad, StoreSampled, idVars
  <2>6. ASSUME CleanTick, ~DeleteExpired
        PROVE  held' = held
    BY <2>6 DEF CleanTick, TakeTraceCache, Visit, EndRange, CopyTraces, PickTraces, CleanAndStore, idVars
  <2>7. CASE UNCHANGED vars
    BY <2>3, <2>7 DEF vars, idVars
  <2> QED
    BY <1>1, <2>1, <2>2, <2>3, <2>4, <2>5, <2>6, <2>7 DEF Next, UpdateSampledTraceId
<1>2. TailInv /\ [Next]_vars =>
        [\A kind \in Kind : \A id \in held[kind] \ held'[kind] :
           \A s \in Data : TraceOf[s] = id => ~Missed(s, kind) /\ ~Waiting(s)]_vars
  BY <1>1
<1> QED
  BY <1>2, TailInvariant, PTL DEF Spec, DeletesUnused
=============================================================================
