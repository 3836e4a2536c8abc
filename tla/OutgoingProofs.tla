---------------------------- MODULE OutgoingProofs ----------------------------
(***************************************************************************)
(* Proofs about what leaves the backsampling processor: the retried ids of *)
(* SampleQuery, for every number of ids and every set of retry numbers,    *)
(* and the queues of OutgoingQueue, for every set of items and clients.    *)
(***************************************************************************)
EXTENDS MCOutgoing, TLAPS

-----------------------------------------------------------------------------
(***************************************************************************)
(* SampleQuery.                                                            *)
(***************************************************************************)

\* A slice s[n:] within the range of s.
LEMMA SliceFacts ==
  ASSUME NEW S, NEW s \in Seq(S), NEW n \in 0 .. Len(s)
  PROVE  /\ From(s, n) \in Seq(S)
         /\ Len(From(s, n)) = Len(s) - n
         /\ \A i \in 1 .. Len(s) - n : From(s, n)[i] = s[n + i]
BY DEF From

\* The counters are numbers.
LEMMA Counters ==
  ASSUME TypeOK
  PROVE  /\ Len(toSendIds) \in Nat /\ nextId \in Nat /\ MaxIds \in Nat /\ sent \in Nat
         /\ retryNum \in Nat /\ lastNum \in Int /\ size \in Nat /\ fromIndex \in Nat
         /\ Id \subseteq Nat
BY QueryAssumption DEF TypeOK, Id

\* The invariant holds before the first id is sampled.
LEMMA QueryInitInv == Init => QueryInv
<1> SUFFICES ASSUME Init PROVE QueryInv
  OBVIOUS
<1> USE QueryAssumption
<1>1. retryNum \in Nat /\ Len(counts) = retryNum /\ counts \in Seq(Nat)
  BY DEF Init
<1>2. TypeOK
  <2>1. toSendIds \in Seq(Id) /\ nextId \in 1 .. MaxIds + 1 /\ retryNum \in RetryNums
    BY DEF Init
  <2>2. attempts \in [Id -> 0 .. MaxAttempts]
    BY <1>1 DEF Init, MaxAttempts
  <2>3. fromIndex \in 0 .. IF retryNum = 0 THEN 0 ELSE retryNum - 1
    BY <1>1 DEF Init
  <2>4. size \in 0 .. retryNum /\ lastNum \in Int /\ sent \in 0 .. MaxIds
    BY <1>1 DEF Init
  <2>5. calling \in BOOLEAN
    BY Zenon DEF Init
  <2> QED BY <1>1, <2>1, <2>2, <2>3, <2>4, <2>5 DEF Init, TypeOK
<1>3. QueueRecent /\ CountsBounded /\ AttemptsCounted
  BY DEF Init, QueueRecent, CountsBounded, AttemptsCounted
<1>4. RecordsFit
  BY DEF Init, RecordsFit
<1>5. NoIdForgotten /\ GivenUpOnlyAfterRetries
  BY DEF Init, NoIdForgotten, GivenUpOnlyAfterRetries
<1> QED BY <1>2, <1>3, <1>4, <1>5 DEF QueryInv

\* The ids at the front of the queue are the oldest of it.
LEMMA FrontFacts ==
  ASSUME QueryInv, NEW n \in 0 .. Len(toSendIds)
  PROVE  /\ \A id \in Front(n) : /\ id \in Id
                                 /\ id >= nextId - Len(toSendIds)
                                 /\ id < nextId - Len(toSendIds) + n
         /\ \A i \in 1 .. Len(toSendIds) : toSendIds[i] \in Front(n) <=> i <= n
<1>0. TypeOK /\ QueueRecent
  BY DEF QueryInv
<1>1. Len(toSendIds) \in Nat /\ nextId \in Nat
  BY <1>0, Counters
<1>2. \A i \in 1 .. Len(toSendIds) : toSendIds[i] \in Id /\ toSendIds[i] = nextId - 1 - Len(toSendIds) + i
  BY <1>0 DEF TypeOK, QueueRecent
<1>3. \A id \in Front(n) : \E i \in 1 .. n : id = toSendIds[i]
  BY DEF Front
<1>4. \A i \in 1 .. n : toSendIds[i] \in Front(n) /\ i \in 1 .. Len(toSendIds)
  BY <1>1 DEF Front
<1>5. \A i, j \in 1 .. Len(toSendIds) : toSendIds[i] = toSendIds[j] => i = j
  BY <1>1, <1>2
<1> QED BY <1>1, <1>2, <1>3, <1>4, <1>5

\* An id is sampled.
LEMMA CacheIdsInv ==
  ASSUME QueryInv, CacheIds
  PROVE  QueryInv'
<1> USE DEF retryVars, observers
<1>0. TypeOK /\ QueueRecent /\ CountsBounded /\ RecordsFit /\ AttemptsCounted /\ NoIdForgotten
  BY DEF QueryInv
<1>1. /\ nextId <= MaxIds /\ nextId' = nextId + 1
      /\ toSendIds' = Append(toSendIds, nextId)
      /\ UNCHANGED <<retryNum, retryVars, calling, sent, observers>>
  BY DEF CacheIds
<1>2. /\ nextId \in Id /\ toSendIds' \in Seq(Id)
      /\ Len(toSendIds) \in Nat /\ Len(toSendIds') = Len(toSendIds) + 1
      /\ \A i \in 1 .. Len(toSendIds) : toSendIds'[i] = toSendIds[i]
      /\ toSendIds'[Len(toSendIds) + 1] = nextId
  BY <1>0, <1>1, QueryAssumption, SMTT(30) DEF TypeOK, Id
<1>3. TypeOK'
  <2>1. nextId' \in 1 .. MaxIds + 1
    BY <1>0, <1>1, Counters DEF TypeOK
  <2> QED BY <1>0, <1>1, <1>2, <2>1 DEF TypeOK, MaxAttempts
<1>4. QueueRecent'
  <2> DEFINE n == Len(toSendIds)
  <2>1. /\ n \in Nat /\ nextId \in Nat /\ n < nextId /\ dropped' = dropped /\ dropped \subseteq Nat
        /\ Len(toSendIds') = n + 1 /\ nextId' = nextId + 1
        /\ \A i \in 1 .. n : toSendIds'[i] = nextId - 1 - n + i
        /\ toSendIds'[n + 1] = nextId
        /\ \A id \in dropped : id < nextId - n
    BY <1>0, <1>1, <1>2, Counters DEF TypeOK, QueueRecent
  <2> HIDE DEF n
  <2>2. \A i \in 1 .. n + 1 : i \in 1 .. n \/ i = n + 1
    BY <2>1
  <2>3. \A i \in 1 .. n + 1 : toSendIds'[i] = (nextId + 1) - 1 - (n + 1) + i
    BY <2>1, <2>2
  <2>4. (nextId + 1) - (n + 1) = nextId - n
    BY <2>1
  <2> QED BY <2>1, <2>3, <2>4 DEF QueueRecent
<1>5. CountsBounded' /\ RecordsFit'
  BY <1>0, <1>1, <1>2, SMTT(30) DEF TypeOK, CountsBounded, RecordsFit, Slot
<1>6. AttemptsCounted'
  BY <1>0, <1>1, <1>2 DEF TypeOK, AttemptsCounted, CountsBounded, Id
<1>7. NoIdForgotten'
  <2>1. \A id \in Queued : id \in Queued'
    BY <1>2 DEF Queued
  <2>2. nextId \in Queued'
    BY <1>2 DEF Queued
  <2> QED BY <1>0, <1>1, <2>1, <2>2, Counters DEF NoIdForgotten
<1>8. (GivenUpOnlyAfterRetries \/ retryNum > 1)'
  BY <1>1 DEF QueryInv, GivenUpOnlyAfterRetries
<1> QED BY <1>3, <1>4, <1>5, <1>6, <1>7, <1>8 DEF QueryInv

\* A call begins.
LEMMA QueryStartInv ==
  ASSUME QueryInv, Query
  PROVE  QueryInv'
<1> USE DEF retryVars, observers
<1>0. TypeOK /\ QueueRecent /\ CountsBounded /\ RecordsFit /\ AttemptsCounted /\ NoIdForgotten
  BY DEF QueryInv
<1>1. /\ calling' = TRUE /\ sent' = Len(toSendIds)
      /\ UNCHANGED <<retryNum, toSendIds, retryVars, nextId, observers>>
  BY DEF Query
<1>2. Len(toSendIds) \in 0 .. MaxIds
  BY <1>0, Counters DEF TypeOK, QueueRecent
<1>3. TypeOK'
  BY <1>0, <1>1, <1>2 DEF TypeOK, MaxAttempts
<1>4. QueueRecent' /\ CountsBounded'
  BY <1>0, <1>1, <1>2 DEF QueueRecent, CountsBounded
<1>5. RecordsFit' /\ AttemptsCounted' /\ NoIdForgotten'
  BY <1>0, <1>1 DEF RecordsFit, Slot, AttemptsCounted, NoIdForgotten, Queued
<1>6. (GivenUpOnlyAfterRetries \/ retryNum > 1)'
  BY <1>1 DEF QueryInv, GivenUpOnlyAfterRetries
<1> QED BY <1>3, <1>4, <1>5, <1>6 DEF QueryInv

\* n ids leave the front of the queue: those left are still in order, and none
\* is forgotten if the front was delivered or dropped.
LEMMA QueueCut ==
  ASSUME QueryInv, NEW n \in 0 .. Len(toSendIds),
         toSendIds' = From(toSendIds, n), nextId' = nextId,
         dropped' \subseteq dropped \cup Front(n), dropped \subseteq dropped',
         delivered \subseteq delivered',
         Front(n) \subseteq delivered' \cup dropped'
  PROVE  /\ toSendIds' \in Seq(Id) /\ Len(toSendIds') = Len(toSendIds) - n
         /\ \A i \in 1 .. Len(toSendIds) - n : toSendIds'[i] = toSendIds[n + i]
         /\ QueueRecent' /\ NoIdForgotten'
<1>0. TypeOK /\ QueueRecent /\ NoIdForgotten
  BY DEF QueryInv
<1>1. /\ toSendIds' \in Seq(Id) /\ Len(toSendIds') = Len(toSendIds) - n
      /\ \A i \in 1 .. Len(toSendIds) - n : toSendIds'[i] = toSendIds[n + i]
  BY <1>0, SliceFacts DEF TypeOK
<1>2. Len(toSendIds) \in Nat /\ nextId \in Nat /\ dropped \subseteq Nat
  BY <1>0, Counters DEF TypeOK
<1>3. QueueRecent'
  <2>1. \A id \in Front(n) : id \in Nat /\ id < nextId - Len(toSendIds) + n
    BY <1>0, FrontFacts, Counters
  <2> QED BY <1>0, <1>1, <1>2, <2>1 DEF QueueRecent
<1>4. NoIdForgotten'
  <2> SUFFICES ASSUME NEW id \in 1 .. nextId - 1, id \notin delivered' \cup dropped'
               PROVE  id \in Queued'
    BY DEF NoIdForgotten
  <2>1. id \in Queued /\ id \notin Front(n)
    BY <1>0 DEF NoIdForgotten
  <2>2. PICK i \in 1 .. Len(toSendIds) : toSendIds[i] = id
    BY <2>1 DEF Queued
  <2>3. i > n
    BY <1>2, <2>1, <2>2 DEF Front
  <2>4. i - n \in 1 .. Len(toSendIds') /\ toSendIds'[i - n] = id
    BY <1>1, <1>2, <2>2, <2>3
  <2> QED BY <2>4 DEF Queued
<1> QED BY <1>1, <1>3, <1>4

\* A call succeeds.
LEMMA QuerySucceedsInv ==
  ASSUME QueryInv, QuerySucceeds
  PROVE  QueryInv'
<1> USE DEF retryVars
<1>0. TypeOK /\ QueueRecent /\ CountsBounded /\ RecordsFit /\ AttemptsCounted /\ NoIdForgotten
  BY DEF QueryInv
<1>1. /\ calling /\ calling' = FALSE /\ sent' = 0
      /\ delivered' = delivered \cup Front(sent)
      /\ UNCHANGED <<retryNum, nextId, attempts, dropped>>
  BY DEF QuerySucceeds
<1>2. sent \in 0 .. Len(toSendIds) /\ Len(toSendIds) \in Nat /\ lastNum <= sent
  BY <1>0, <1>1 DEF TypeOK, CountsBounded
<1>3. delivered' \in SUBSET Id
  BY <1>0, <1>1, <1>2 DEF TypeOK, Front
<1>4. CASE sent > 0
  <2>1. /\ toSendIds' = From(toSendIds, sent) /\ size' = 0 /\ lastNum' = 0
        /\ UNCHANGED <<counts, fromIndex>>
    BY <1>4 DEF QuerySucceeds, MarkSent
  <2>2. /\ toSendIds' \in Seq(Id) /\ Len(toSendIds') = Len(toSendIds) - sent
        /\ \A i \in 1 .. Len(toSendIds) - sent : toSendIds'[i] = toSendIds[sent + i]
        /\ QueueRecent' /\ NoIdForgotten'
    BY <1>1, <1>2, <2>1, QueueCut
  <2>3. TypeOK'
    <3>1. size' \in 0 .. retryNum /\ lastNum' \in Int /\ sent' \in 0 .. MaxIds
      BY <1>0, <1>1, <2>1, <2>2, Counters DEF TypeOK
    <3>2. counts' \in Seq(Nat) /\ Len(counts') = retryNum
      BY <1>0, <2>1, <2>2 DEF TypeOK
    <3>3. calling' \in BOOLEAN
      BY <1>1, Zenon
    <3> QED BY <1>0, <1>1, <1>3, <2>1, <2>2, <3>1, <3>2, <3>3 DEF TypeOK, MaxAttempts
  <2>4. CountsBounded' /\ RecordsFit'
    BY <1>0, <1>1, <1>2, <2>1, <2>2 DEF CountsBounded, RecordsFit
  <2>5. AttemptsCounted'
    <3>1. \A i \in 1 .. Len(toSendIds') : sent + i \in 1 .. Len(toSendIds) /\ ~(sent + i <= lastNum)
      BY <1>0, <1>2, <2>2, Counters, SMTT(30)
    <3>2. \A i \in 1 .. Len(toSendIds') : ~(i <= lastNum')
      BY <2>1
    <3> QED BY <1>0, <1>1, <2>1, <2>2, <3>1, <3>2 DEF AttemptsCounted
  <2>6. (GivenUpOnlyAfterRetries \/ retryNum > 1)'
    BY <1>1 DEF QueryInv, GivenUpOnlyAfterRetries
  <2> QED BY <2>2, <2>3, <2>4, <2>5, <2>6 DEF QueryInv
<1>5. CASE sent = 0
  <2>1. UNCHANGED <<toSendIds, retryVars>>
    BY <1>0, <1>5 DEF TypeOK, QuerySucceeds
  <2>2. TypeOK'
    <3>1. size' \in 0 .. retryNum /\ lastNum' \in Int /\ sent' \in 0 .. MaxIds
      BY <1>0, <1>1, <2>1, Counters DEF TypeOK
    <3>2. counts' \in Seq(Nat) /\ Len(counts') = retryNum
      BY <1>0, <2>1 DEF TypeOK
    <3>3. calling' \in BOOLEAN
      BY <1>1, Zenon
    <3> QED BY <1>0, <1>1, <1>3, <2>1, <3>1, <3>2, <3>3 DEF TypeOK, MaxAttempts
  <2>3. QueueRecent' /\ CountsBounded' /\ RecordsFit' /\ AttemptsCounted'
    BY <1>0, <1>1, <2>1 DEF QueueRecent, CountsBounded, RecordsFit, Slot, AttemptsCounted
  <2>4. NoIdForgotten'
    BY <1>0, <1>1, <2>1 DEF NoIdForgotten, Queued
  <2>5. (GivenUpOnlyAfterRetries \/ retryNum > 1)'
    BY <1>1 DEF QueryInv, GivenUpOnlyAfterRetries
  <2> QED BY <2>2, <2>3, <2>4, <2>5 DEF QueryInv
<1> QED BY <1>2, <1>4, <1>5

\* Positions in a ring of at most three slots.
LEMMA RingPosition ==
  ASSUME NEW k \in 0 .. 5, NEW n \in 1 .. 3, k < 2 * n
  PROVE  k % n = IF k < n THEN k ELSE k - n
<1>1. CASE n = 1
  BY <1>1
<1>2. CASE n = 2
  BY <1>2
<1>3. CASE n = 3
  BY <1>3
<1> QED BY <1>1, <1>2, <1>3

\* The j-th position after f in such a ring.
LEMMA RingStep ==
  ASSUME NEW n \in 1 .. 3, NEW f \in 0 .. n - 1, NEW j \in 0 .. n - 1
  PROVE  /\ (f + j) % n = IF f + j < n THEN f + j ELSE f + j - n
         /\ (f + 0) % n = f
<1>1. f + j \in 0 .. 5 /\ f + j < 2 * n /\ f + 0 = f /\ f \in 0 .. 5 /\ f < 2 * n /\ f < n
  OBVIOUS
<1>2. \A k \in 0 .. 5, m \in 1 .. 3 : k < 2 * m => k % m = IF k < m THEN k ELSE k - m
  BY RingPosition
<1> QED BY <1>1, <1>2

\* Which slot of a ring of at most three slots the j-th record is.
LEMMA SlotFacts ==
  ASSUME TypeOK, retryNum \in 1 .. 3
  PROVE  /\ fromIndex \in 0 .. retryNum - 1
         /\ \A j \in 0 .. retryNum - 1 :
              (fromIndex + j) % retryNum = IF fromIndex + j < retryNum THEN fromIndex + j
                                           ELSE fromIndex + j - retryNum
         /\ Slot(0) = counts[fromIndex + 1]
<1>1. fromIndex \in 0 .. retryNum - 1
  BY DEF TypeOK
<1>2. \A j \in 0 .. retryNum - 1 :
        (fromIndex + j) % retryNum = IF fromIndex + j < retryNum THEN fromIndex + j
                                     ELSE fromIndex + j - retryNum
  BY <1>1, RingStep
<1>3. (fromIndex + 0) % retryNum = fromIndex
  BY <1>1, RingStep
<1> QED BY <1>1, <1>2, <1>3 DEF Slot

\* getToRemoveSize while the list fills.
LEMMA RecordCountFacts ==
  ASSUME QueryInv, calling, sent > 0, size < retryNum, RecordCount(sent), retryNum' = retryNum
  PROVE  /\ counts' \in Seq(Nat) /\ Len(counts') = retryNum
         /\ size' \in 0 .. retryNum /\ lastNum' = sent /\ fromIndex' = fromIndex
         /\ RecordsFit'
         /\ retryNum = 1 => counts'[1] = sent - lastNum
<1> DEFINE index == (fromIndex + size) % retryNum
<1>0. TypeOK /\ CountsBounded /\ RecordsFit
  BY DEF QueryInv
<1>1. /\ counts' = [counts EXCEPT ![index + 1] = sent - lastNum]
      /\ size' = size + 1 /\ lastNum' = sent /\ fromIndex' = fromIndex
  BY DEF RecordCount
<1>2. sent - lastNum \in Nat /\ index \in 0 .. retryNum - 1
  BY <1>0, Counters, SMTT(30) DEF CountsBounded
<1> HIDE DEF index
<1>3. /\ counts' \in Seq(Nat) /\ Len(counts') = retryNum
      /\ \A i \in 1 .. retryNum : counts[i] \in Nat
                                 /\ counts'[i] = IF i = index + 1 THEN sent - lastNum ELSE counts[i]
  <2> DEFINE d == sent - lastNum
  <2>1. d \in Nat /\ counts' = [counts EXCEPT ![index + 1] = d] /\ index + 1 \in 1 .. retryNum
    BY <1>0, <1>1, <1>2, Counters, SMTT(30)
  <2>2. counts \in Seq(Nat) /\ Len(counts) = retryNum /\ retryNum \in Nat
    BY <1>0, Counters DEF TypeOK
  <2> HIDE DEF d
  <2>3. /\ counts' \in Seq(Nat) /\ Len(counts') = retryNum
        /\ \A i \in 1 .. retryNum : counts[i] \in Nat /\ counts'[i] = IF i = index + 1 THEN d ELSE counts[i]
    BY <2>1, <2>2
  <2> QED BY <2>3 DEF d
<1>4. size' \in 0 .. retryNum
  BY <1>0, <1>1, Counters, SMTT(30)
<1>5. ASSUME retryNum \in 1 .. 3
      PROVE  RecordsFit'
  <2>0. sent \in Nat /\ size \in 0 .. 2 /\ lastNum \in Int /\ lastNum >= 0 /\ lastNum <= sent
    BY <1>0, <1>5, Counters, SMTT(30) DEF CountsBounded, RecordsFit
  <2>1. /\ fromIndex \in 0 .. retryNum - 1
        /\ \A j \in 0 .. retryNum - 1 :
             (fromIndex + j) % retryNum = IF fromIndex + j < retryNum THEN fromIndex + j
                                          ELSE fromIndex + j - retryNum
    BY <1>0, <1>5, SlotFacts
  <2>2. Slot(0) = counts[fromIndex + 1] /\ Slot(0)' = counts'[fromIndex + 1]
    BY <1>0, <1>1, <1>5, <2>1, SlotFacts DEF Slot
  <2> USE DEF index
  <2>3. CASE size = 0
    BY <1>1, <1>3, <1>5, <2>0, <2>1, <2>2, <2>3, SMTT(30) DEF RecordsFit
  <2>4. CASE size = 1
    <3>1. counts'[fromIndex + 1] = counts[fromIndex + 1] /\ counts[fromIndex + 1] <= lastNum
      BY <1>0, <1>3, <1>5, <2>1, <2>2, <2>4 DEF RecordsFit
    <3>2. retryNum = 3 => Slot(1)' = sent - lastNum
      BY <1>1, <1>3, <1>5, <2>1, <2>4 DEF Slot
    <3> QED BY <1>0, <1>1, <1>3, <1>5, <2>0, <2>1, <2>2, <2>4, <3>1, <3>2, SMTT(30) DEF RecordsFit
  <2>5. CASE size = 2
    <3>1. retryNum = 3 /\ size' = 3
      BY <1>1, <1>5, <2>5
    <3>2. Slot(0) + Slot(1) <= lastNum
      BY <1>0, <2>5, <3>1 DEF RecordsFit
    <3>3. fromIndex \in {0, 1, 2} /\ \A i \in {1, 2, 3} : counts[i] \in Nat /\ counts'[i] \in Nat
      BY <1>3, <2>1, <3>1, <1>2
    <3>4. counts'[1] + counts'[2] + counts'[3] <= sent
      <4>1. CASE fromIndex = 0
        BY <1>3, <2>0, <2>1, <2>2, <2>5, <3>1, <3>2, <3>3, <4>1 DEF Slot
      <4>2. CASE fromIndex = 1
        BY <1>3, <2>0, <2>1, <2>2, <2>5, <3>1, <3>2, <3>3, <4>2 DEF Slot
      <4>3. CASE fromIndex = 2
        BY <1>3, <2>0, <2>1, <2>2, <2>5, <3>1, <3>2, <3>3, <4>3 DEF Slot
      <4> QED BY <3>3, <4>1, <4>2, <4>3
    <3>5. Slot(0)' <= sent
      BY <2>0, <2>2, <3>3, <3>4
    <3> QED BY <1>1, <2>0, <3>1, <3>3, <3>4, <3>5 DEF RecordsFit
  <2> QED BY <2>0, <2>3, <2>4, <2>5
<1>6. RecordsFit'
  BY <1>5 DEF RecordsFit
<1>7. retryNum = 1 => counts'[1] = sent - lastNum
  BY <1>2, <1>3
<1> QED BY <1>1, <1>3, <1>4, <1>6, <1>7

\* getToRemoveSize once the list is full.
LEMMA ReplaceOldestFacts ==
  ASSUME QueryInv, calling, sent > 0, retryNum > 0, size = retryNum, ReplaceOldest(sent),
         retryNum' = retryNum
  PROVE  /\ ToRemoveSize \in Nat
         /\ counts' \in Seq(Nat) /\ Len(counts') = retryNum
         /\ fromIndex' \in 0 .. retryNum - 1 /\ lastNum' = sent - ToRemoveSize /\ size' = size
         /\ RecordsFit'
         /\ retryNum = 1 => counts'[1] = sent - lastNum
<1>0. TypeOK /\ CountsBounded /\ RecordsFit
  BY DEF QueryInv
<1> DEFINE d == sent - lastNum
           written == [counts EXCEPT ![fromIndex + 1] = d]
<1>1. /\ counts' = Append(Tail(written), d)
      /\ lastNum' = sent - ToRemoveSize
      /\ fromIndex' = IF fromIndex = retryNum - 1 THEN 0 ELSE fromIndex + 1
      /\ size' = size
  BY DEF ReplaceOldest
<1>2. d \in Nat /\ fromIndex \in 0 .. retryNum - 1 /\ retryNum \in Nat
  BY <1>0, Counters DEF CountsBounded, TypeOK
<1>3. /\ written \in Seq(Nat) /\ Len(written) = retryNum
      /\ \A i \in 1 .. retryNum : counts[i] \in Nat
                                 /\ written[i] = IF i = fromIndex + 1 THEN d ELSE counts[i]
  BY <1>0, <1>2 DEF TypeOK
<1>4. ToRemoveSize \in Nat
  BY <1>2, <1>3 DEF ToRemoveSize
<1> HIDE DEF d, written
<1>5. /\ Tail(written) \in Seq(Nat) /\ Len(Tail(written)) = retryNum - 1
      /\ \A i \in 1 .. retryNum - 1 : Tail(written)[i] = written[i + 1]
  BY <1>2, <1>3
<1>6. /\ counts' \in Seq(Nat) /\ Len(counts') = retryNum
      /\ \A i \in 1 .. retryNum - 1 : counts'[i] = written[i + 1]
      /\ counts'[retryNum] = d
  BY <1>1, <1>2, <1>5, SMTT(30)
<1>7. fromIndex' \in 0 .. retryNum - 1
  BY <1>1, <1>2
<1>8. ASSUME retryNum \in 1 .. 3
      PROVE  RecordsFit'
  <2>0. /\ sent \in Nat /\ lastNum \in Int /\ lastNum >= 0 /\ lastNum <= sent /\ d = sent - lastNum
        /\ ToRemoveSize = counts[fromIndex + 1]
    BY <1>0, <1>8, Counters DEF CountsBounded, RecordsFit, d, ToRemoveSize
  <2>1. (fromIndex' + 0) % retryNum = fromIndex'
    BY <1>7, <1>8, RingStep
  <2>2. Slot(0) = counts[fromIndex + 1] /\ Slot(0)' = counts'[fromIndex' + 1]
    BY <1>0, <1>8, <2>1, SlotFacts DEF Slot
  <2>3. counts[fromIndex + 1] <= lastNum
    BY <1>0, <1>8, <2>2 DEF RecordsFit
  <2>4. lastNum' >= 0 /\ lastNum' >= d
    BY <1>1, <1>2, <1>4, <2>0, <2>3, SMTT(30)
  <2>5. CASE retryNum = 1
    BY <1>1, <1>2, <1>6, <2>2, <2>4, <2>5 DEF RecordsFit
  <2>6. CASE retryNum = 2
    <3>1. counts'[1] = (IF fromIndex = 1 THEN d ELSE counts[2]) /\ counts'[2] = d
      BY <1>2, <1>3, <1>6, <2>6
    <3>2. fromIndex' = 1 - fromIndex /\ fromIndex \in {0, 1}
      BY <1>1, <1>2, <2>6
    <3>3. Slot(0)' = d
      BY <2>2, <3>1, <3>2
    <3> QED BY <1>1, <1>2, <2>4, <2>6, <3>3 DEF RecordsFit
  <2>7. CASE retryNum = 3
    <3>1. /\ counts'[1] = (IF fromIndex = 1 THEN d ELSE counts[2])
          /\ counts'[2] = (IF fromIndex = 2 THEN d ELSE counts[3])
          /\ counts'[3] = d
      BY <1>2, <1>3, <1>6, <2>7
    <3>2. counts[3] + (IF fromIndex = 0 THEN counts[1] ELSE counts[2]) <= lastNum
      BY <1>0, <2>7 DEF RecordsFit
    <3>3. fromIndex \in {0, 1, 2} /\ counts[1] \in Nat /\ counts[2] \in Nat /\ counts[3] \in Nat
      BY <1>2, <1>3, <2>7
    <3> DEFINE Fits == /\ counts'[3] + (IF fromIndex' = 0 THEN counts'[1] ELSE counts'[2]) <= lastNum'
                       /\ counts'[fromIndex' + 1] <= lastNum'
    <3>0. fromIndex' = IF fromIndex = retryNum - 1 THEN 0 ELSE fromIndex + 1
      BY <1>1
    <3>4. lastNum' = sent - counts[fromIndex + 1] /\ d = sent - lastNum
      BY <1>1, <2>0
    <3>5. ASSUME fromIndex = 0 PROVE Fits
      <4>1. fromIndex' = 1 /\ counts'[2] = counts[3] /\ counts'[3] = d /\ counts[3] + counts[1] <= lastNum
        BY <2>7, <3>0, <3>1, <3>2, <3>5
      <4>2. lastNum' = sent - counts[1]
        BY <3>4, <3>5
      <4> QED BY <1>2, <2>0, <3>3, <3>4, <4>1, <4>2
    <3>6. ASSUME fromIndex = 1 PROVE Fits
      <4>1. fromIndex' = 2 /\ counts'[2] = counts[3] /\ counts'[3] = d /\ counts[3] + counts[2] <= lastNum
        BY <2>7, <3>0, <3>1, <3>2, <3>6
      <4>2. lastNum' = sent - counts[2]
        BY <3>4, <3>6
      <4> QED BY <1>2, <2>0, <3>3, <3>4, <4>1, <4>2
    <3>7. ASSUME fromIndex = 2 PROVE Fits
      <4>1. fromIndex' = 0 /\ counts'[1] = counts[2] /\ counts'[3] = d /\ counts[3] + counts[2] <= lastNum
        BY <2>7, <3>0, <3>1, <3>2, <3>7
      <4>2. lastNum' = sent - counts[3]
        BY <3>4, <3>7
      <4> QED BY <1>2, <2>0, <3>3, <3>4, <4>1, <4>2
    <3>8. Fits
      BY <3>3, <3>5, <3>6, <3>7
    <3>9. retryNum' = 3 /\ size' = 3
      BY <1>1, <2>7
    <3>10. Slot(0)' <= lastNum'
      BY <2>2, <3>8
    <3> QED BY <2>4, <3>8, <3>9, <3>10 DEF RecordsFit
  <2> QED BY <1>8, <2>5, <2>6, <2>7
<1>9. RecordsFit'
  BY <1>8 DEF RecordsFit
<1> QED BY <1>1, <1>4, <1>6, <1>7, <1>9 DEF d

\* A call fails: the ids it carried have one more attempt, and those that were
\* given up on before are none of them.
LEMMA AttemptFacts ==
  ASSUME QueryInv, calling,
         attempts' = [id \in Id |-> IF id \in Front(sent) /\ attempts[id] < MaxAttempts
                                    THEN attempts[id] + 1 ELSE attempts[id]]
  PROVE  /\ attempts' \in [Id -> 0 .. MaxAttempts]
         /\ \A id \in Id : id \notin Front(sent) => attempts'[id] = attempts[id]
         /\ \A id \in Front(sent) : /\ id \in Id /\ id < nextId /\ id \notin dropped
                                    /\ attempts[id] <= retryNum => attempts'[id] = attempts[id] + 1
         /\ \A i \in 1 .. Len(toSendIds) : toSendIds[i] \in Id /\ (toSendIds[i] \in Front(sent) <=> i <= sent)
<1>0. TypeOK /\ QueueRecent /\ CountsBounded
  BY DEF QueryInv
<1>1. /\ sent \in 0 .. Len(toSendIds) /\ Len(toSendIds) \in Nat /\ nextId \in Nat
      /\ retryNum \in Nat /\ Id \subseteq Nat
  BY <1>0, Counters DEF CountsBounded
<1>2. /\ \A id \in Front(sent) : /\ id \in Id
                                 /\ id >= nextId - Len(toSendIds)
                                 /\ id < nextId - Len(toSendIds) + sent
      /\ \A i \in 1 .. Len(toSendIds) : toSendIds[i] \in Front(sent) <=> i <= sent
  BY <1>1, FrontFacts
<1>3. attempts \in [Id -> 0 .. retryNum + 2] /\ MaxAttempts = retryNum + 2
  BY <1>0 DEF TypeOK, MaxAttempts
<1>4. attempts' \in [Id -> 0 .. MaxAttempts]
  <2>1. \A id \in Id : attempts'[id] \in 0 .. MaxAttempts
    BY <1>1, <1>3
  <2> QED BY <2>1
<1>5. ASSUME NEW id \in Front(sent)
      PROVE  id < nextId /\ id \notin dropped
  <2>1. id \in Nat /\ id >= nextId - Len(toSendIds) /\ id < nextId - Len(toSendIds) + sent
    BY <1>1, <1>2
  <2>2. id \in dropped => id < nextId - Len(toSendIds)
    BY <1>0 DEF QueueRecent
  <2>3. id < nextId
    BY <1>1, <2>1
  <2>4. ~(id < nextId - Len(toSendIds))
    BY <1>1, <2>1
  <2> QED BY <2>2, <2>3, <2>4
<1>6. \A i \in 1 .. Len(toSendIds) : toSendIds[i] \in Id
  BY <1>0 DEF TypeOK
<1>7. \A id \in Front(sent) : attempts[id] <= retryNum => attempts'[id] = attempts[id] + 1
  BY <1>1, <1>2, <1>3, SMTT(30)
<1> QED BY <1>2, <1>4, <1>5, <1>6, <1>7

\* A call fails.
LEMMA QueryFailsInv ==
  ASSUME QueryInv, QueryFails
  PROVE  QueryInv'
<1> USE DEF retryVars
<1>0. TypeOK /\ QueueRecent /\ CountsBounded /\ RecordsFit /\ AttemptsCounted /\ NoIdForgotten
  BY DEF QueryInv
<1>1. /\ calling /\ calling' = FALSE /\ sent' = 0
      /\ attempts' = [id \in Id |-> IF id \in Front(sent) /\ attempts[id] < MaxAttempts
                                    THEN attempts[id] + 1 ELSE attempts[id]]
      /\ UNCHANGED <<retryNum, nextId, delivered>>
      /\ sent > 0 => MarkUnSent(sent)
      /\ ~(sent > 0) => UNCHANGED <<toSendIds, retryVars, dropped>>
  BY DEF QueryFails
<1>2. /\ sent \in 0 .. Len(toSendIds) /\ Len(toSendIds) \in Nat /\ lastNum \in Int /\ lastNum <= sent
      /\ retryNum \in Nat /\ size \in 0 .. retryNum /\ nextId \in Nat /\ MaxIds \in Nat /\ Id \subseteq Nat
  BY <1>0, <1>1, Counters DEF TypeOK, CountsBounded
<1>3. /\ attempts' \in [Id -> 0 .. MaxAttempts]
      /\ \A id \in Id : id \notin Front(sent) => attempts'[id] = attempts[id]
      /\ \A id \in Front(sent) : /\ id \in Id /\ id < nextId /\ id \notin dropped
                                 /\ attempts[id] <= retryNum => attempts'[id] = attempts[id] + 1
      /\ \A i \in 1 .. Len(toSendIds) : toSendIds[i] \in Id /\ (toSendIds[i] \in Front(sent) <=> i <= sent)
  BY <1>1, AttemptFacts
<1>4. calling' \in BOOLEAN /\ sent' \in 0 .. MaxIds
  <2>1. calling' \in BOOLEAN
    BY <1>1, Zenon
  <2> QED BY <1>1, <1>2, <2>1
<1>5. retryNum <= 1 => \A id \in Id : id >= nextId => attempts'[id] = 0
  BY <1>0, <1>2, <1>3 DEF AttemptsCounted
<1>6. retryNum <= 1 => \A id \in dropped : id \in Id /\ attempts'[id] = retryNum + 1
  <2>1. \A id \in dropped : id \in Id /\ id \notin Front(sent)
    BY <1>0, <1>3 DEF TypeOK
  <2>2. retryNum <= 1 => GivenUpOnlyAfterRetries
    BY <1>2 DEF QueryInv
  <2>3. retryNum <= 1 => \A id \in dropped : attempts[id] = retryNum + 1
    BY <2>2 DEF GivenUpOnlyAfterRetries
  <2>4. \A id \in dropped : attempts'[id] = attempts[id]
    BY <1>3, <2>1
  <2> QED BY <2>1, <2>3, <2>4
<1>7. CASE ~(sent > 0)
  <2>1. UNCHANGED <<toSendIds, retryVars, dropped>>
    BY <1>1, <1>7
  <2>2. sent = 0
    BY <1>2, <1>7
  <2>3. TypeOK'
    BY <1>0, <1>1, <1>3, <1>4, <2>1 DEF TypeOK, MaxAttempts
  <2>4. QueueRecent' /\ CountsBounded' /\ RecordsFit'
    BY <1>0, <1>1, <2>1 DEF QueueRecent, CountsBounded, RecordsFit, Slot
  <2>5. AttemptsCounted'
    BY <1>0, <1>1, <1>3, <1>5, <2>1, <2>2 DEF AttemptsCounted
  <2>6. NoIdForgotten'
    BY <1>0, <1>1, <2>1 DEF NoIdForgotten, Queued
  <2>7. (GivenUpOnlyAfterRetries \/ retryNum > 1)'
    <3>1. retryNum' = retryNum /\ dropped' = dropped
      BY <1>1, <2>1
    <3>2. retryNum <= 1 => GivenUpOnlyAfterRetries'
      BY <1>6, <3>1 DEF GivenUpOnlyAfterRetries
    <3> QED BY <1>2, <3>1, <3>2
  <2> QED BY <2>3, <2>4, <2>5, <2>6, <2>7 DEF QueryInv
<1>8. CASE sent > 0 /\ retryNum = 0 /\ toSendIds' = From(toSendIds, sent)
                    /\ dropped' = dropped \cup Front(sent) /\ UNCHANGED retryVars
  <2>1. /\ toSendIds' \in Seq(Id) /\ Len(toSendIds') = Len(toSendIds) - sent
        /\ \A i \in 1 .. Len(toSendIds) - sent : toSendIds'[i] = toSendIds[sent + i]
        /\ QueueRecent' /\ NoIdForgotten'
    BY <1>1, <1>2, <1>8, QueueCut
  <2>2. dropped' \in SUBSET Id
    BY <1>0, <1>3, <1>8 DEF TypeOK
  <2>3. TypeOK'
    BY <1>0, <1>1, <1>3, <1>4, <1>8, <2>1, <2>2 DEF TypeOK, MaxAttempts
  <2>4. lastNum = 0 /\ size = 0
    BY <1>0, <1>2, <1>8 DEF AttemptsCounted
  <2>5. CountsBounded' /\ RecordsFit'
    BY <1>1, <1>2, <1>8, <2>1, <2>4 DEF CountsBounded, RecordsFit
  <2>6. \A i \in 1 .. Len(toSendIds') : attempts'[toSendIds'[i]] = 0
    <3>1. \A i \in 1 .. Len(toSendIds') : sent + i \in 1 .. Len(toSendIds) /\ ~(sent + i <= sent)
                                          /\ ~(sent + i <= lastNum)
      BY <1>2, <2>1
    <3> QED BY <1>0, <1>3, <1>8, <2>1, <3>1 DEF AttemptsCounted
  <2>7. AttemptsCounted'
    BY <1>1, <1>2, <1>5, <1>8, <2>4, <2>6 DEF AttemptsCounted
  <2>8. \A id \in Front(sent) : attempts'[id] = 1
    <3>1. ASSUME NEW i \in 1 .. sent
          PROVE  attempts'[toSendIds[i]] = 1
      <4>1. i \in 1 .. Len(toSendIds) /\ ~(i <= lastNum)
        BY <1>2, <2>4
      <4>2. attempts[toSendIds[i]] = 0 /\ toSendIds[i] \in Front(sent)
        BY <1>0, <1>3, <1>8, <4>1 DEF AttemptsCounted
      <4> QED BY <1>3, <1>8, <4>2
    <3> QED BY <3>1 DEF Front
  <2>9. (GivenUpOnlyAfterRetries \/ retryNum > 1)'
    BY <1>1, <1>6, <1>8, <2>8 DEF GivenUpOnlyAfterRetries
  <2> QED BY <2>1, <2>3, <2>5, <2>7, <2>9 DEF QueryInv
<1>9. CASE sent > 0 /\ size < retryNum /\ RecordCount(sent) /\ UNCHANGED <<toSendIds, dropped>>
  <2>1. /\ counts' \in Seq(Nat) /\ Len(counts') = retryNum
        /\ size' \in 0 .. retryNum /\ lastNum' = sent /\ fromIndex' = fromIndex
        /\ RecordsFit'
        /\ retryNum = 1 => counts'[1] = sent - lastNum
    BY <1>1, <1>9, RecordCountFacts
  <2>2. TypeOK'
    BY <1>0, <1>1, <1>2, <1>3, <1>4, <1>9, <2>1 DEF TypeOK, MaxAttempts
  <2>3. QueueRecent' /\ CountsBounded'
    BY <1>0, <1>1, <1>2, <1>9, <2>1 DEF QueueRecent, CountsBounded
  <2>4. AttemptsCounted'
    <3> SUFFICES ASSUME retryNum <= 1
                 PROVE  AttemptsCounted'
      BY <1>1 DEF AttemptsCounted
    <3>1. retryNum = 1 /\ size = 0 /\ lastNum = 0 /\ size' = 1
      BY <1>0, <1>2, <1>9 DEF AttemptsCounted, RecordCount
    <3>2. \A i \in 1 .. Len(toSendIds) : attempts[toSendIds[i]] = 0
      BY <1>0, <1>2, <3>1 DEF AttemptsCounted
    <3>3. \A i \in 1 .. Len(toSendIds) : attempts'[toSendIds[i]] = IF i <= sent THEN 1 ELSE 0
      BY <1>3, <3>1, <3>2
    <3> QED BY <1>1, <1>2, <1>5, <1>9, <2>1, <3>1, <3>3 DEF AttemptsCounted
  <2>5. NoIdForgotten'
    BY <1>0, <1>1, <1>9 DEF NoIdForgotten, Queued
  <2>6. (GivenUpOnlyAfterRetries \/ retryNum > 1)'
    BY <1>1, <1>2, <1>6, <1>9 DEF GivenUpOnlyAfterRetries
  <2> QED BY <2>1, <2>2, <2>3, <2>4, <2>5, <2>6 DEF QueryInv
<1>10. CASE /\ sent > 0 /\ retryNum > 0 /\ size = retryNum /\ ToRemoveSize <= Len(toSendIds)
            /\ toSendIds' = From(toSendIds, ToRemoveSize)
            /\ dropped' = dropped \cup Front(ToRemoveSize)
            /\ ReplaceOldest(sent)
  <2> DEFINE n == ToRemoveSize
  <2>1. /\ n \in Nat
        /\ counts' \in Seq(Nat) /\ Len(counts') = retryNum
        /\ fromIndex' \in 0 .. retryNum - 1 /\ lastNum' = sent - n /\ size' = size
        /\ RecordsFit'
        /\ retryNum = 1 => counts'[1] = sent - lastNum
    BY <1>1, <1>10, ReplaceOldestFacts
  <2>2. n \in 0 .. Len(toSendIds)
    BY <1>2, <1>10, <2>1
  <2> HIDE DEF n
  <2>3. /\ toSendIds' \in Seq(Id) /\ Len(toSendIds') = Len(toSendIds) - n
        /\ \A i \in 1 .. Len(toSendIds) - n : toSendIds'[i] = toSendIds[n + i]
        /\ QueueRecent' /\ NoIdForgotten'
    BY <1>1, <1>10, <2>2, QueueCut DEF n
  <2>4. Front(n) \subseteq Id /\ dropped' = dropped \cup Front(n)
    BY <1>10, <2>2, FrontFacts DEF n
  <2>5. TypeOK'
    <3>1. dropped' \in SUBSET Id
      BY <1>0, <2>4 DEF TypeOK
    <3>2. fromIndex' \in 0 .. (IF retryNum' = 0 THEN 0 ELSE retryNum' - 1) /\ lastNum' \in Int
      BY <1>1, <1>2, <1>10, <2>1
    <3> QED BY <1>0, <1>1, <1>3, <1>4, <2>1, <2>3, <3>1, <3>2 DEF TypeOK, MaxAttempts
  <2>6. CountsBounded'
    BY <1>1, <1>2, <2>1, <2>2, <2>3 DEF CountsBounded
  <2>7. ASSUME retryNum <= 1
        PROVE  AttemptsCounted' /\ GivenUpOnlyAfterRetries'
    <3>1. retryNum = 1 /\ size = 1 /\ size' = 1 /\ lastNum >= 0
      BY <1>0, <1>2, <1>10, <2>1, <2>7 DEF AttemptsCounted
    <3>2. n = lastNum
      BY <1>0, <2>7, <3>1 DEF AttemptsCounted, TypeOK, ToRemoveSize, n
    <3>3. \A i \in 1 .. Len(toSendIds) : attempts[toSendIds[i]] = IF i <= n THEN 1 ELSE 0
      BY <1>0, <2>7, <3>2 DEF AttemptsCounted
    <3>4. \A i \in 1 .. Len(toSendIds) :
            attempts'[toSendIds[i]] = IF i <= n THEN 2 ELSE IF i <= sent THEN 1 ELSE 0
      <4> SUFFICES ASSUME NEW i \in 1 .. Len(toSendIds)
                   PROVE  attempts'[toSendIds[i]] = IF i <= n THEN 2 ELSE IF i <= sent THEN 1 ELSE 0
        OBVIOUS
      <4>1. toSendIds[i] \in Id /\ (toSendIds[i] \in Front(sent) <=> i <= sent)
        BY <1>3
      <4>2. attempts[toSendIds[i]] = (IF i <= n THEN 1 ELSE 0)
        BY <3>3
      <4>3. attempts[toSendIds[i]] <= retryNum
        BY <3>1, <4>2
      <4>4. i <= sent => attempts'[toSendIds[i]] = attempts[toSendIds[i]] + 1
        BY <1>3, <4>1, <4>3
      <4>5. ~(i <= sent) => attempts'[toSendIds[i]] = attempts[toSendIds[i]]
        BY <1>3, <4>1
      <4>6. i <= n => i <= sent
        BY <1>2, <2>2, <3>2
      <4> QED BY <4>2, <4>4, <4>5, <4>6
    <3>5. \A i \in 1 .. Len(toSendIds') : attempts'[toSendIds'[i]] = IF i <= lastNum' THEN 1 ELSE 0
      <4>1. \A i \in 1 .. Len(toSendIds') : /\ n + i \in 1 .. Len(toSendIds) /\ ~(n + i <= n)
                                            /\ n + i <= sent <=> i <= lastNum'
        BY <1>2, <2>1, <2>2, <2>3
      <4> QED BY <2>3, <3>4, <4>1
    <3>6. \A id \in Front(n) : attempts'[id] = 2
      <4>1. \A i \in 1 .. n : i \in 1 .. Len(toSendIds) /\ i <= n
        BY <1>2, <2>2
      <4>2. \A i \in 1 .. n : attempts'[toSendIds[i]] = 2
        BY <3>4, <4>1
      <4> QED BY <4>2 DEF Front
    <3>7. GivenUpOnlyAfterRetries'
      BY <1>1, <1>6, <2>4, <3>1, <3>6 DEF GivenUpOnlyAfterRetries
    <3>8. lastNum' >= 0 /\ counts'[1] = lastNum'
      BY <1>2, <2>1, <3>1, <3>2
    <3> QED BY <1>1, <1>5, <2>7, <3>1, <3>5, <3>7, <3>8 DEF AttemptsCounted
  <2>8. AttemptsCounted' /\ (GivenUpOnlyAfterRetries \/ retryNum > 1)'
    BY <1>1, <1>2, <2>7 DEF AttemptsCounted
  <2> QED BY <2>1, <2>3, <2>5, <2>6, <2>8 DEF QueryInv
<1> QED
  BY <1>1, <1>7, <1>8, <1>9, <1>10 DEF MarkUnSent

\* Every step of consumers and ticker.
LEMMA QueryStepInv == QueryInv /\ [Next]_vars => QueryInv'
<1> SUFFICES ASSUME QueryInv, [Next]_vars PROVE QueryInv'
  OBVIOUS
<1>1. CASE UNCHANGED vars
  <2> USE <1>1 DEF vars, retryVars, observers
  <2>1. TypeOK' /\ QueueRecent' /\ CountsBounded'
    BY DEF QueryInv, TypeOK, QueueRecent, CountsBounded, MaxAttempts
  <2>2. RecordsFit' /\ AttemptsCounted'
    BY DEF QueryInv, RecordsFit, AttemptsCounted, Slot
  <2>3. NoIdForgotten' /\ (GivenUpOnlyAfterRetries \/ retryNum > 1)'
    BY DEF QueryInv, NoIdForgotten, GivenUpOnlyAfterRetries, Queued
  <2> QED BY <2>1, <2>2, <2>3 DEF QueryInv
<1> QED
  BY <1>1, CacheIdsInv, QueryStartInv, QuerySucceedsInv, QueryFailsInv DEF Next

\* The invariant holds in every reachable state.
THEOREM QueryInvariant == Spec => []QueryInv
BY QueryInitInv, QueryStepInv, PTL DEF Spec

\* No sampled id is forgotten by markSent or markUnSent, whatever is appended
\* while QueryProfiles is under way and however often it fails.
THEOREM IdsKept == Spec => []NoIdForgotten
<1>1. QueryInv => NoIdForgotten
  BY DEF QueryInv
<1> QED
  BY <1>1, QueryInvariant, PTL

\* With at most one retry RetryList gives an id up by exactly the failed call
\* after its last retry.
THEOREM RetriesCounted == Spec => []RetriesExact
<1>1. QueryInv => RetriesExact
  <2> SUFFICES ASSUME QueryInv, retryNum <= 1
               PROVE  GivenUpOnlyAfterRetries /\ \A id \in Queued : attempts[id] <= retryNum
    BY DEF RetriesExact
  <2>0. TypeOK /\ AttemptsCounted /\ CountsBounded
    BY DEF QueryInv
  <2>1. retryNum \in {0, 1} /\ size \in 0 .. retryNum /\ lastNum \in Int
    BY <2>0, Counters DEF TypeOK
  <2>2. GivenUpOnlyAfterRetries
    BY <2>1 DEF QueryInv
  <2>3. \A i \in 1 .. Len(toSendIds) : attempts[toSendIds[i]] <= retryNum
    BY <2>0, <2>1, Counters DEF AttemptsCounted
  <2> QED BY <2>2, <2>3 DEF Queued
<1> QED
  BY <1>1, QueryInvariant, PTL

\* With at most three retries, the default, the slice of markUnSent is never
\* out of range.
THEOREM NoSlicePanic == Spec => []RemovesOnlyQueued
<1>1. QueryInv => RemovesOnlyQueued
  <2> SUFFICES ASSUME QueryInv, retryNum \in 1 .. 3, size = retryNum, calling, sent > 0
               PROVE  ToRemoveSize <= Len(toSendIds)
    BY DEF RemovesOnlyQueued
  <2>0. TypeOK /\ RecordsFit /\ CountsBounded
    BY DEF QueryInv
  <2>1. Slot(0) = counts[fromIndex + 1] /\ fromIndex \in 0 .. retryNum - 1
    BY <2>0, SlotFacts
  <2>2. counts[fromIndex + 1] <= lastNum /\ counts[fromIndex + 1] \in Nat
    BY <2>0, <2>1 DEF RecordsFit, TypeOK
  <2> QED BY <2>0, <2>2, Counters DEF CountsBounded, ToRemoveSize
<1> QED
  BY <1>1, QueryInvariant, PTL

-----------------------------------------------------------------------------
(***************************************************************************)
(* OutgoingQueue.                                                          *)
(***************************************************************************)

\* The elements of a sequence are those at its positions.
LEMMA ElementsOf ==
  ASSUME NEW S, NEW s \in Seq(S)
  PROVE  /\ OQ!Range(s) = {s[i] : i \in 1 .. Len(s)}
         /\ OQ!Range(s) \subseteq S
         /\ OQ!IsInjective(s) <=> \A i, j \in 1 .. Len(s) : s[i] = s[j] => i = j
<1>1. DOMAIN s = 1 .. Len(s) /\ \A i \in 1 .. Len(s) : s[i] \in S
  OBVIOUS
<1>2. OQ!Range(s) = {s[i] : i \in 1 .. Len(s)}
  BY <1>1 DEF OQ!Range
<1>3. OQ!IsInjective(s) <=> \A i, j \in 1 .. Len(s) : s[i] = s[j] => i = j
  BY <1>1 DEF OQ!IsInjective
<1> QED BY <1>1, <1>2, <1>3

\* The empty sequence.
LEMMA NoElements == OQ!Range(<<>>) = {} /\ OQ!IsInjective(<<>>)
<1>1. DOMAIN <<>> = {}
  OBVIOUS
<1> QED BY <1>1 DEF OQ!Range, OQ!IsInjective

\* One element more at the end.
LEMMA AppendElements ==
  ASSUME NEW S, NEW s \in Seq(S), NEW e \in S
  PROVE  /\ Append(s, e) \in Seq(S)
         /\ OQ!Range(Append(s, e)) = OQ!Range(s) \cup {e}
         /\ OQ!IsInjective(s) /\ e \notin OQ!Range(s) => OQ!IsInjective(Append(s, e))
<1> DEFINE t == Append(s, e)
<1>1. /\ t \in Seq(S) /\ Len(s) \in Nat /\ Len(t) = Len(s) + 1 /\ t[Len(s) + 1] = e
      /\ \A i \in 1 .. Len(s) : t[i] = s[i]
  OBVIOUS
<1> HIDE DEF t
<1>2. \A i \in 1 .. Len(t) : i \in 1 .. Len(s) \/ i = Len(s) + 1
  BY <1>1
<1>3. \A i \in 1 .. Len(s) : i \in 1 .. Len(t) /\ i # Len(s) + 1
  BY <1>1
<1>4. OQ!Range(t) = {t[i] : i \in 1 .. Len(t)} /\ OQ!Range(s) = {s[i] : i \in 1 .. Len(s)}
  BY <1>1, ElementsOf
<1>5. OQ!Range(t) = OQ!Range(s) \cup {e}
  <2>1. Len(s) + 1 \in 1 .. Len(t)
    BY <1>1
  <2> QED BY <1>1, <1>2, <1>3, <1>4, <2>1
<1>6. ASSUME OQ!IsInjective(s), e \notin OQ!Range(s)
      PROVE  OQ!IsInjective(t)
  <2>1. \A i, j \in 1 .. Len(s) : s[i] = s[j] => i = j
    BY <1>6, ElementsOf
  <2>2. \A i \in 1 .. Len(s) : s[i] # e
    BY <1>4, <1>6
  <2>3. \A i, j \in 1 .. Len(t) : t[i] = t[j] => i = j
    BY <1>1, <1>2, <2>1, <2>2
  <2> QED BY <1>1, <2>3, ElementsOf
<1> QED BY <1>1, <1>5, <1>6 DEF t

\* A part of a sequence.
LEMMA PartElements ==
  ASSUME NEW S, NEW s \in Seq(S), NEW m \in 1 .. Len(s) + 1, NEW n \in 0 .. Len(s), m <= n + 1
  PROVE  /\ SubSeq(s, m, n) \in Seq(S)
         /\ Len(SubSeq(s, m, n)) = n - m + 1
         /\ \A i \in 1 .. n - m + 1 : SubSeq(s, m, n)[i] = s[m - 1 + i]
         /\ OQ!Range(SubSeq(s, m, n)) = {s[i] : i \in m .. n}
         /\ OQ!IsInjective(s) => OQ!IsInjective(SubSeq(s, m, n))
<1> DEFINE t == SubSeq(s, m, n)
<1>1. /\ t \in Seq(S) /\ Len(t) = n - m + 1 /\ Len(s) \in Nat
      /\ \A i \in 1 .. n - m + 1 : t[i] = s[m - 1 + i]
  OBVIOUS
<1> HIDE DEF t
<1>2. \A i \in 1 .. Len(t) : m - 1 + i \in m .. n /\ m - 1 + i \in 1 .. Len(s)
  BY <1>1
<1>3. \A i \in m .. n : i - m + 1 \in 1 .. Len(t) /\ m - 1 + (i - m + 1) = i
  BY <1>1
<1>4. OQ!Range(t) = {t[i] : i \in 1 .. Len(t)}
  BY <1>1, ElementsOf
<1>5. OQ!Range(t) = {s[i] : i \in m .. n}
  <2>1. \A i \in m .. n : s[i] = t[i - m + 1] /\ i - m + 1 \in 1 .. Len(t)
    BY <1>1, <1>3
  <2>2. \A i \in 1 .. Len(t) : t[i] = s[m - 1 + i] /\ m - 1 + i \in m .. n
    BY <1>1, <1>2
  <2>3. {t[i] : i \in 1 .. Len(t)} \subseteq {s[i] : i \in m .. n}
    BY <2>2
  <2>4. {s[i] : i \in m .. n} \subseteq {t[i] : i \in 1 .. Len(t)}
    BY <2>1
  <2> QED BY <1>4, <2>3, <2>4
<1>6. ASSUME OQ!IsInjective(s)
      PROVE  OQ!IsInjective(t)
  <2>1. \A i, j \in 1 .. Len(s) : s[i] = s[j] => i = j
    BY <1>6, ElementsOf
  <2>2. \A i, j \in 1 .. Len(t) : t[i] = t[j] => m - 1 + i = m - 1 + j
    BY <1>1, <1>2, <2>1, SMTT(30)
  <2>3. \A i, j \in 1 .. Len(t) : t[i] = t[j] => i = j
    BY <1>1, <2>2
  <2> QED BY <1>1, <2>3, ElementsOf
<1> QED BY <1>1, <1>5, <1>6 DEF t

\* One sequence after another.
LEMMA JoinedElements ==
  ASSUME NEW S, NEW s \in Seq(S), NEW t \in Seq(S)
  PROVE  /\ s \o t \in Seq(S)
         /\ OQ!Range(s \o t) = OQ!Range(s) \cup OQ!Range(t)
         /\ \A i \in 1 .. Len(s \o t) :
              \/ i \in 1 .. Len(s) /\ (s \o t)[i] = s[i]
              \/ i - Len(s) \in 1 .. Len(t) /\ (s \o t)[i] = t[i - Len(s)]
<1> DEFINE u == s \o t
<1>1. /\ u \in Seq(S) /\ Len(s) \in Nat /\ Len(t) \in Nat /\ Len(u) = Len(s) + Len(t)
      /\ \A i \in 1 .. Len(u) : u[i] = IF i <= Len(s) THEN s[i] ELSE t[i - Len(s)]
  OBVIOUS
<1> HIDE DEF u
<1>2. \A i \in 1 .. Len(u) : \/ i \in 1 .. Len(s) /\ u[i] = s[i]
                             \/ i - Len(s) \in 1 .. Len(t) /\ u[i] = t[i - Len(s)]
  BY <1>1
<1>3. \A i \in 1 .. Len(s) : i \in 1 .. Len(u) /\ u[i] = s[i]
  BY <1>1
<1>4. \A i \in 1 .. Len(t) : i + Len(s) \in 1 .. Len(u) /\ u[i + Len(s)] = t[i]
  <2> SUFFICES ASSUME NEW i \in 1 .. Len(t)
               PROVE  i + Len(s) \in 1 .. Len(u) /\ u[i + Len(s)] = t[i]
    OBVIOUS
  <2>1. i + Len(s) \in 1 .. Len(u) /\ ~(i + Len(s) <= Len(s)) /\ (i + Len(s)) - Len(s) = i
    BY <1>1
  <2> QED BY <1>1, <2>1
<1>5. /\ OQ!Range(u) = {u[i] : i \in 1 .. Len(u)} /\ OQ!Range(s) = {s[i] : i \in 1 .. Len(s)}
      /\ OQ!Range(t) = {t[i] : i \in 1 .. Len(t)}
  <2>1. OQ!Range(u) = {u[i] : i \in 1 .. Len(u)}
    BY <1>1, ElementsOf
  <2>2. OQ!Range(s) = {s[i] : i \in 1 .. Len(s)}
    BY ElementsOf
  <2>3. OQ!Range(t) = {t[i] : i \in 1 .. Len(t)}
    BY ElementsOf
  <2> QED BY <2>1, <2>2, <2>3
<1>6. OQ!Range(u) = OQ!Range(s) \cup OQ!Range(t)
  BY <1>2, <1>3, <1>4, <1>5
<1> QED BY <1>1, <1>2, <1>6 DEF u

\* The invariant holds when the queue is created.
LEMMA QueueInitInv == OQ!Init => OQ!QueueInv
<1> SUFFICES ASSUME OQ!Init PROVE OQ!QueueInv
  OBVIOUS
<1> USE DEF OQ!Init
<1>1. OQ!TypeOK
  <2>1. /\ stopCh \in BOOLEAN /\ ticker \in BOOLEAN /\ fired \in BOOLEAN
    BY Zenon
  <2>2. /\ queue \in Seq(Item) /\ sending \in Seq(Item) /\ late \in SUBSET Item
        /\ udsClients \in Seq(Request) /\ targets \in Seq(Request) /\ isHealth \in SUBSET Request
        /\ raced \in SUBSET Component /\ saw \in [Request -> Seq(Request)]
        /\ handler \in [Request -> {"free", "looked", "append", "done"}]
    OBVIOUS
  <2>3. posted \in [Component \cup {Endpoint} -> Seq(Item)]
    OBVIOUS
  <2> QED BY <2>1, <2>2, <2>3 DEF OQ!TypeOK
<1>2. OQ!Distinct
  BY NoElements DEF OQ!Distinct
<1>6. OQ!Registered
  BY DEF OQ!Registered, OQ!OncePerComponent, OQ!Underway
<1>3. OQ!QueuedFresh
  BY NoElements DEF OQ!QueuedFresh
<1>4. OQ!LengthRead /\ OQ!TakenFresh
  BY DEF OQ!LengthRead, OQ!TakenFresh
<1>5. OQ!PostedOnceUnlessRaced
  BY DEF OQ!PostedOnceUnlessRaced
<1> QED BY <1>1, <1>2, <1>3, <1>4, <1>5, <1>6 DEF OQ!QueueInv

\* A step that neither moves an item nor lets the goroutine go on.
LEMMA QueueFrame ==
  ASSUME OQ!QueueInv, UNCHANGED <<kind, queue, late, pc, queueSize, sending, targets, next, posted, component>>,
         handler' \in [Request -> {"free", "looked", "append", "done"}], saw' \in [Request -> Seq(Request)],
         udsClients' \in Seq(Request), isHealth' \in SUBSET Request, raced' \in SUBSET Component,
         raced \subseteq raced', OQ!Registered',
         stopCh' \in BOOLEAN, ticker' \in BOOLEAN, fired' \in BOOLEAN
  PROVE  OQ!QueueInv'
<1>1. OQ!TypeOK'
  BY DEF OQ!QueueInv, OQ!TypeOK
<1>2. OQ!Distinct' /\ OQ!QueuedFresh'
  BY DEF OQ!QueueInv, OQ!Distinct, OQ!QueuedFresh, OQ!Repeatable
<1>3. OQ!LengthRead'
  BY DEF OQ!QueueInv, OQ!LengthRead
<1>5. OQ!TakenFresh'
  <2>1. ASSUME kind = "signals", NEW k \in 1 .. Len(targets), NEW i \in 1 .. Len(sending),
               sending[i] \in OQ!Range(posted[component[targets[k]]])
        PROVE  sending[i] \in late \/ component[targets[k]] \in raced' \/ (k = 1 /\ i < next)
    BY <2>1 DEF OQ!QueueInv, OQ!TakenFresh
  <2> QED BY <2>1 DEF OQ!QueueInv, OQ!TakenFresh
<1>4. OQ!PostedOnceUnlessRaced'
  BY DEF OQ!QueueInv, OQ!PostedOnceUnlessRaced
<1> QED BY <1>1, <1>2, <1>3, <1>4, <1>5 DEF OQ!QueueInv

\* A step that leaves the registrations alone.
LEMMA RegisteredFrame ==
  ASSUME OQ!Registered, UNCHANGED <<component, handler, saw, udsClients, raced>>,
         OQ!OncePerComponent(targets)'
  PROVE  OQ!Registered'
BY DEF OQ!Registered, OQ!OncePerComponent, OQ!Underway

\* A request looks for its component.
LEMMA LookInv ==
  ASSUME OQ!QueueInv, NEW r \in Request, OQ!Look(r)
  PROVE  OQ!QueueInv'
<1> USE DEF OQ!queueVars, OQ!tickerVars, OQ!loopVars
<1>0. OQ!TypeOK /\ OQ!Registered
  BY DEF OQ!QueueInv
<1>1. UNCHANGED <<kind, queue, late, pc, queueSize, sending, targets, next, posted, component, saw, udsClients, raced>>
  BY DEF OQ!Look
<1>2. stopCh' \in BOOLEAN /\ ticker' \in BOOLEAN /\ fired' \in BOOLEAN
  BY <1>0, Zenon DEF OQ!TypeOK, OQ!Look
<1>3. /\ handler' \in [Request -> {"free", "looked", "append", "done"}] /\ saw' \in [Request -> Seq(Request)]
      /\ udsClients' \in Seq(Request) /\ raced' \in SUBSET Component /\ raced \subseteq raced'
  BY <1>0, <1>1 DEF OQ!TypeOK, OQ!Look
<1>4. isHealth' \in SUBSET Request
  BY <1>0 DEF OQ!TypeOK, OQ!Look, OQ!Matches
<1>5. OQ!Registered'
  <2>1. CASE OQ!Matches(r) = {} /\ handler' = [handler EXCEPT ![r] = "looked"]
    <3>1. \A i \in 1 .. Len(udsClients) : component[udsClients[i]] # component[r]
      BY <2>1 DEF OQ!Matches
    <3>2. \A q \in OQ!Underway' :
            \/ q \in OQ!Underway /\ handler'[q] = handler[q]
            \/ q = r /\ handler'[q] = "looked"
      BY <1>0, <2>1 DEF OQ!Underway, OQ!TypeOK
    <3> QED BY <1>0, <1>1, <3>1, <3>2 DEF OQ!Registered, OQ!OncePerComponent
  <2>2. CASE handler' = handler
    BY <1>0, <1>1, <2>2 DEF OQ!Registered, OQ!OncePerComponent, OQ!Underway
  <2> QED BY <2>1, <2>2 DEF OQ!Look
<1> QED BY <1>1, <1>2, <1>3, <1>4, <1>5, QueueFrame

\* append reads the slice.
LEMMA ReadClientsInv ==
  ASSUME OQ!QueueInv, NEW r \in Request, OQ!ReadClients(r)
  PROVE  OQ!QueueInv'
<1> USE DEF OQ!queueVars, OQ!tickerVars, OQ!loopVars
<1>0. OQ!TypeOK /\ OQ!Registered
  BY DEF OQ!QueueInv
<1>1. /\ UNCHANGED <<kind, queue, late, pc, queueSize, sending, targets, next, posted, component, udsClients, raced>>
      /\ handler[r] = "looked" /\ handler' = [handler EXCEPT ![r] = "append"]
      /\ saw' = [saw EXCEPT ![r] = udsClients] /\ isHealth' = isHealth \cup {r}
  BY DEF OQ!ReadClients
<1>2. stopCh' \in BOOLEAN /\ ticker' \in BOOLEAN /\ fired' \in BOOLEAN
  BY <1>0, Zenon DEF OQ!TypeOK, OQ!ReadClients
<1>3. /\ handler' \in [Request -> {"free", "looked", "append", "done"}] /\ saw' \in [Request -> Seq(Request)]
      /\ udsClients' \in Seq(Request) /\ raced' \in SUBSET Component /\ raced \subseteq raced'
      /\ isHealth' \in SUBSET Request
  BY <1>0, <1>1 DEF OQ!TypeOK
<1>4. OQ!Registered'
  <2>1. OQ!Underway' = OQ!Underway /\ r \in OQ!Underway
    BY <1>0, <1>1 DEF OQ!Underway, OQ!TypeOK
  <2>2. \A q \in Request : q # r => handler'[q] = handler[q] /\ saw'[q] = saw[q]
    BY <1>0, <1>1 DEF OQ!TypeOK
  <2>3. saw'[r] = udsClients
    BY <1>0, <1>1 DEF OQ!TypeOK
  <2>4. \A q \in Request : OQ!OncePerComponent(saw[q])'
    BY <1>0, <1>1, <2>2, <2>3 DEF OQ!Registered, OQ!OncePerComponent
  <2>5. OQ!OncePerComponent(udsClients)' /\ OQ!OncePerComponent(targets)'
    BY <1>0, <1>1 DEF OQ!Registered, OQ!OncePerComponent
  <2>6. ASSUME NEW q \in OQ!Underway', component[q] \notin raced
        PROVE  /\ \A i \in 1 .. Len(udsClients) : component[udsClients[i]] # component[q]
               /\ handler'[q] = "append" => saw'[q] = udsClients
    BY <1>0, <2>1, <2>2, <2>3, <2>6 DEF OQ!Registered, OQ!Underway
  <2> QED BY <1>1, <2>4, <2>5, <2>6 DEF OQ!Registered
<1> QED BY <1>1, <1>2, <1>3, <1>4, QueueFrame

\* The longer slice is written.
LEMMA WriteClientsInv ==
  ASSUME OQ!QueueInv, NEW r \in Request, OQ!WriteClients(r)
  PROVE  OQ!QueueInv'
<1> USE DEF OQ!queueVars, OQ!tickerVars, OQ!loopVars
<1>0. OQ!TypeOK /\ OQ!Registered
  BY DEF OQ!QueueInv
<1>1. /\ UNCHANGED <<kind, queue, late, pc, queueSize, sending, targets, next, posted, component, isHealth>>
      /\ handler[r] = "append" /\ handler' = [handler EXCEPT ![r] = "done"]
      /\ saw' = [saw EXCEPT ![r] = <<>>] /\ udsClients' = Append(saw[r], r)
      /\ raced' = raced \cup {component[q] : q \in OQ!Underway \ {r}}
  BY DEF OQ!WriteClients
<1>2. stopCh' \in BOOLEAN /\ ticker' \in BOOLEAN /\ fired' \in BOOLEAN
  BY <1>0, Zenon DEF OQ!TypeOK, OQ!WriteClients
<1>3. raced' \in SUBSET Component /\ raced \subseteq raced'
  BY <1>0, <1>1 DEF OQ!TypeOK, OQ!Underway
<1>4. /\ handler' \in [Request -> {"free", "looked", "append", "done"}] /\ saw' \in [Request -> Seq(Request)]
      /\ isHealth' \in SUBSET Request
  BY <1>0, <1>1 DEF OQ!TypeOK
<1> DEFINE s == saw[r]
<1>5. /\ s \in Seq(Request) /\ Len(s) \in Nat /\ udsClients' \in Seq(Request) /\ Len(udsClients') = Len(s) + 1
      /\ \A i \in 1 .. Len(s) : udsClients'[i] = s[i]
      /\ udsClients'[Len(s) + 1] = r
  BY <1>0, <1>1 DEF OQ!TypeOK
<1>6. /\ \A i, j \in 1 .. Len(s) : i # j /\ component[s[i]] = component[s[j]] => component[s[i]] \in raced
      /\ component[r] \notin raced => \A i \in 1 .. Len(s) : component[s[i]] # component[r]
  BY <1>0, <1>1 DEF OQ!Registered, OQ!OncePerComponent, OQ!Underway
<1> HIDE DEF s
<1>7. OQ!OncePerComponent(udsClients)'
  <2>1. ASSUME NEW i \in 1 .. Len(s) + 1, NEW j \in 1 .. Len(s) + 1, i # j,
               component[udsClients'[i]] = component[udsClients'[j]]
        PROVE  component[udsClients'[i]] \in raced'
    <3>1. CASE i = Len(s) + 1
      <4>1. j \in 1 .. Len(s)
        BY <1>5, <2>1, <3>1
      <4> QED BY <1>3, <1>5, <1>6, <2>1, <3>1, <4>1
    <3>2. CASE j = Len(s) + 1
      <4>1. i \in 1 .. Len(s)
        BY <1>5, <2>1, <3>2
      <4> QED BY <1>3, <1>5, <1>6, <2>1, <3>2, <4>1
    <3>3. CASE i # Len(s) + 1 /\ j # Len(s) + 1
      <4>1. i \in 1 .. Len(s) /\ j \in 1 .. Len(s)
        BY <1>5, <3>3
      <4> QED BY <1>3, <1>5, <1>6, <2>1, <4>1
    <3> QED BY <3>1, <3>2, <3>3
  <2> QED BY <1>1, <1>5, <2>1 DEF OQ!OncePerComponent
<1>8. OQ!OncePerComponent(targets)'
  BY <1>0, <1>1, <1>3 DEF OQ!Registered, OQ!OncePerComponent
<1>9. \A q \in Request : OQ!OncePerComponent(saw[q])'
  <2>1. \A q \in Request : saw'[q] = saw[q] \/ saw'[q] = <<>>
    BY <1>0, <1>1 DEF OQ!TypeOK
  <2> QED BY <1>0, <1>1, <1>3, <2>1 DEF OQ!Registered, OQ!OncePerComponent
<1>10. \A q \in OQ!Underway' : component'[q] \in raced'
  <2>1. OQ!Underway' = OQ!Underway \ {r}
    BY <1>0, <1>1 DEF OQ!Underway, OQ!TypeOK
  <2> QED BY <1>1, <2>1
<1>11. OQ!Registered'
  BY <1>7, <1>8, <1>9, <1>10 DEF OQ!Registered
<1> QED BY <1>1, <1>2, <1>3, <1>4, <1>5, <1>11, QueueFrame

\* The ticker fires, and is stopped.
LEMMA TickerInv ==
  ASSUME OQ!QueueInv, OQ!Fire \/ OQ!Stop \/ OQ!StopTicker \/ UNCHANGED OQ!vars
  PROVE  OQ!QueueInv'
<1> USE DEF OQ!Fire, OQ!Stop, OQ!StopTicker, OQ!vars, OQ!queueVars, OQ!clientVars, OQ!tickerVars, OQ!loopVars
<1>0. OQ!TypeOK /\ OQ!Registered
  BY DEF OQ!QueueInv
<1>1. UNCHANGED <<kind, queue, late, pc, queueSize, sending, targets, next, posted, component, handler, saw, udsClients,
                  isHealth, raced>>
  OBVIOUS
<1>2. stopCh' \in BOOLEAN /\ ticker' \in BOOLEAN /\ fired' \in BOOLEAN
  BY <1>0, Zenon DEF OQ!TypeOK
<1>3. OQ!Registered'
  BY <1>0, <1>1 DEF OQ!Registered, OQ!OncePerComponent, OQ!Underway
<1>4. /\ handler' \in [Request -> {"free", "looked", "append", "done"}] /\ saw' \in [Request -> Seq(Request)]
      /\ udsClients' \in Seq(Request) /\ raced' \in SUBSET Component /\ raced \subseteq raced'
      /\ isHealth' \in SUBSET Request
  BY <1>0, <1>1 DEF OQ!TypeOK
<1> QED BY <1>1, <1>2, <1>3, <1>4, QueueFrame

\* The goroutine returns, or reads the length.
LEMMA SelectInv ==
  ASSUME OQ!QueueInv, OQ!Return \/ OQ!ReadLength
  PROVE  OQ!QueueInv'
<1> USE DEF OQ!Return, OQ!ReadLength, OQ!queueVars, OQ!clientVars, OQ!tickerVars, OQ!loopVars
<1>0. OQ!TypeOK /\ OQ!Distinct /\ OQ!QueuedFresh /\ OQ!TakenFresh /\ OQ!PostedOnceUnlessRaced
  BY DEF OQ!QueueInv
<1>1. UNCHANGED <<kind, queue, late, sending, targets, next, posted, component, handler, saw, udsClients, raced, isHealth>>
  OBVIOUS
<1>8. OQ!Registered'
  BY <1>1, RegisteredFrame DEF OQ!QueueInv, OQ!Registered, OQ!OncePerComponent
<1>2. /\ pc = "select" /\ pc' \in {"select", "length", "ended"} /\ queueSize' \in Nat
      /\ pc' = "length" => queue # <<>> /\ queueSize' = Len(queue)
  BY <1>0 DEF OQ!TypeOK
<1>3. OQ!TypeOK'
  <2>1. stopCh' \in BOOLEAN /\ ticker' \in BOOLEAN /\ fired' \in BOOLEAN
    BY <1>0, Zenon DEF OQ!TypeOK
  <2> QED BY <1>0, <1>1, <1>2, <2>1 DEF OQ!TypeOK
<1>4. OQ!Distinct' /\ OQ!QueuedFresh'
  BY <1>0, <1>1 DEF OQ!Distinct, OQ!QueuedFresh, OQ!Repeatable
<1>5. OQ!LengthRead'
  <2>1. Len(queue) \in Nat /\ (queue # <<>> => Len(queue) >= 1)
    BY <1>0 DEF OQ!TypeOK
  <2>2. pc' = "length" => queueSize' \in 1 .. Len(queue') /\ queueSize' + 1 > Len(queue')
    BY <1>1, <1>2, <2>1
  <2>3. pc' = "length" => queueSize' + 1 .. Len(queue') = {}
    BY <1>1, <1>2, <2>1
  <2> QED BY <2>2, <2>3 DEF OQ!LengthRead
<1>6. OQ!TakenFresh'
  BY <1>0, <1>1, <1>2 DEF OQ!TakenFresh
<1>7. OQ!PostedOnceUnlessRaced'
  BY <1>0, <1>1 DEF OQ!PostedOnceUnlessRaced
<1> QED BY <1>3, <1>4, <1>5, <1>6, <1>7, <1>8 DEF OQ!QueueInv

\* A consumer hands over an item.
LEMMA AddInv ==
  ASSUME OQ!QueueInv, NEW item \in Item, OQ!Add(item)
  PROVE  OQ!QueueInv'
<1> USE DEF OQ!queueVars, OQ!clientVars, OQ!tickerVars, OQ!loopVars
<1>0. OQ!TypeOK /\ OQ!Distinct /\ OQ!QueuedFresh /\ OQ!LengthRead /\ OQ!TakenFresh /\ OQ!PostedOnceUnlessRaced
  BY DEF OQ!QueueInv
<1>1. /\ UNCHANGED <<kind, component, handler, saw, udsClients, raced, isHealth, stopCh, ticker, fired, pc, queueSize,
                      sending, targets, next, posted>>
      /\ queue' = Append(queue, item)
      /\ late' = IF pc = "length" THEN late \cup {item} ELSE late
  BY DEF OQ!Add
<1>2. /\ item \notin OQ!Range(queue) /\ item \notin OQ!Range(sending)
      /\ \A r \in DOMAIN posted : item \notin OQ!Range(posted[r])
  BY DEF OQ!Add, OQ!Known
<1>3. /\ queue' \in Seq(Item) /\ OQ!Range(queue') = OQ!Range(queue) \cup {item} /\ OQ!IsInjective(queue')
  BY <1>0, <1>1, <1>2, AppendElements DEF OQ!TypeOK, OQ!Distinct
<1>4. late' \in SUBSET Item /\ late \subseteq late' /\ OQ!Repeatable \subseteq OQ!Repeatable'
  BY <1>0, <1>1 DEF OQ!TypeOK, OQ!Repeatable
<1>5. OQ!TypeOK'
  BY <1>0, <1>1, <1>3, <1>4 DEF OQ!TypeOK
<1>6. OQ!Distinct'
  BY <1>0, <1>1, <1>3 DEF OQ!Distinct
<1>7. OQ!QueuedFresh'
  BY <1>0, <1>1, <1>2, <1>3, <1>4 DEF OQ!QueuedFresh
<1>8. OQ!LengthRead'
  <2> SUFFICES ASSUME pc = "length"
               PROVE  /\ queueSize \in 1 .. Len(queue')
                      /\ \A i \in queueSize + 1 .. Len(queue') : queue'[i] \in late'
    BY <1>1 DEF OQ!LengthRead
  <2>1. /\ Len(queue) \in Nat /\ Len(queue') = Len(queue) + 1 /\ queue'[Len(queue) + 1] = item
        /\ \A i \in 1 .. Len(queue) : queue'[i] = queue[i]
    BY <1>0, <1>1 DEF OQ!TypeOK
  <2>2. queueSize \in 1 .. Len(queue) /\ \A i \in queueSize + 1 .. Len(queue) : queue[i] \in late
    BY <1>0 DEF OQ!LengthRead
  <2>3. item \in late'
    BY <1>1
  <2>4. \A i \in queueSize + 1 .. Len(queue') :
          i = Len(queue) + 1 \/ (i \in queueSize + 1 .. Len(queue) /\ i \in 1 .. Len(queue))
    BY <2>1, <2>2
  <2>5. queueSize \in 1 .. Len(queue')
    BY <2>1, <2>2
  <2> QED BY <1>4, <2>1, <2>2, <2>3, <2>4, <2>5
<1>9. OQ!TakenFresh'
  BY <1>0, <1>1, <1>4 DEF OQ!TakenFresh
<1>10. OQ!PostedOnceUnlessRaced'
  BY <1>0, <1>1, <1>4 DEF OQ!PostedOnceUnlessRaced
<1>11. OQ!Registered'
  BY <1>1, RegisteredFrame DEF OQ!QueueInv, OQ!Registered, OQ!OncePerComponent
<1> QED BY <1>5, <1>6, <1>7, <1>8, <1>9, <1>10, <1>11 DEF OQ!QueueInv

\* The goroutine takes the items: those it leaves in the queue came late, or
\* are not taken.
LEMMA TakeInv ==
  ASSUME OQ!QueueInv, OQ!Take
  PROVE  OQ!QueueInv'
<1> USE DEF OQ!queueVars, OQ!clientVars, OQ!tickerVars, OQ!loopVars
<1>0. OQ!TypeOK /\ OQ!Distinct /\ OQ!QueuedFresh /\ OQ!LengthRead /\ OQ!TakenFresh /\ OQ!PostedOnceUnlessRaced
  BY DEF OQ!QueueInv
<1> DEFINE n == queueSize
<1>1. /\ UNCHANGED <<kind, late, component, handler, saw, udsClients, raced, isHealth, stopCh, ticker, fired, posted>>
      /\ pc = "length" /\ pc' = "send" /\ queueSize' = 0 /\ next' = 1 /\ targets' = udsClients
      /\ sending' = (IF kind = "signals" THEN queue ELSE SubSeq(queue, 1, n))
      /\ queue' = SubSeq(queue, n + 1, Len(queue))
  BY DEF OQ!Take, OQ!Taken, OQ!Cut
<1>2. /\ n \in 1 .. Len(queue) /\ Len(queue) \in Nat /\ queue \in Seq(Item) /\ OQ!IsInjective(queue)
      /\ \A i \in n + 1 .. Len(queue) : queue[i] \in late
      /\ \A i, j \in 1 .. Len(queue) : queue[i] = queue[j] => i = j
      /\ OQ!Range(queue) = {queue[i] : i \in 1 .. Len(queue)}
  <2>1. queue \in Seq(Item) /\ OQ!IsInjective(queue)
    BY <1>0 DEF OQ!TypeOK, OQ!Distinct
  <2> QED BY <1>0, <1>1, <2>1, ElementsOf DEF OQ!LengthRead
<1> HIDE DEF n
<1>3. /\ queue' \in Seq(Item) /\ OQ!IsInjective(queue')
      /\ OQ!Range(queue') = {queue[i] : i \in n + 1 .. Len(queue)}
  <2>1. n + 1 \in 1 .. Len(queue) + 1 /\ Len(queue) \in 0 .. Len(queue) /\ n + 1 <= Len(queue) + 1
    BY <1>2
  <2>2. /\ SubSeq(queue, n + 1, Len(queue)) \in Seq(Item)
        /\ OQ!IsInjective(SubSeq(queue, n + 1, Len(queue)))
        /\ OQ!Range(SubSeq(queue, n + 1, Len(queue))) = {queue[i] : i \in n + 1 .. Len(queue)}
    BY <1>2, <2>1, PartElements
  <2> QED BY <1>1, <2>2
<1>4. /\ sending' \in Seq(Item) /\ OQ!IsInjective(sending') /\ Len(sending') >= 1
      /\ kind # "signals" => OQ!Range(sending') = {queue[i] : i \in 1 .. n}
      /\ OQ!Range(sending') \subseteq OQ!Range(queue)
  <2>1. CASE kind = "signals"
    BY <1>1, <1>2, <2>1
  <2>2. CASE kind # "signals"
    <3>1. /\ sending' \in Seq(Item) /\ OQ!IsInjective(sending') /\ Len(sending') = n - 1 + 1
          /\ OQ!Range(sending') = {queue[i] : i \in 1 .. n}
      <4>1. 1 \in 1 .. Len(queue) + 1 /\ n \in 0 .. Len(queue) /\ 1 <= n + 1
        BY <1>2
      <4>2. /\ SubSeq(queue, 1, n) \in Seq(Item) /\ OQ!IsInjective(SubSeq(queue, 1, n))
            /\ Len(SubSeq(queue, 1, n)) = n - 1 + 1
            /\ OQ!Range(SubSeq(queue, 1, n)) = {queue[i] : i \in 1 .. n}
        BY <1>2, <4>1, PartElements
      <4> QED BY <1>1, <2>2, <4>2
    <3>2. \A i \in 1 .. n : i \in 1 .. Len(queue)
      BY <1>2
    <3>3. OQ!Range(sending') \subseteq OQ!Range(queue)
      BY <1>2, <3>1, <3>2
    <3> QED BY <1>2, <2>2, <3>1, <3>3
  <2> QED BY <2>1, <2>2
<1>5. OQ!Range(queue') \subseteq OQ!Range(queue) /\ OQ!Range(queue') \subseteq late
  <2>1. \A i \in n + 1 .. Len(queue) : i \in 1 .. Len(queue)
    BY <1>2
  <2> QED BY <1>2, <1>3, <2>1
<1>6. OQ!TypeOK'
  BY <1>0, <1>1, <1>3, <1>4 DEF OQ!TypeOK
<1>7. OQ!Distinct'
  BY <1>0, <1>1, <1>3, <1>4 DEF OQ!Distinct
<1>8. OQ!QueuedFresh'
  <2>1. OQ!Repeatable' = OQ!Repeatable
    BY <1>1 DEF OQ!Repeatable
  <2>2. \A r \in DOMAIN posted : OQ!Range(queue') \cap OQ!Range(posted[r]) \subseteq OQ!Repeatable
    BY <1>0, <1>5 DEF OQ!QueuedFresh
  <2>3. OQ!Range(queue') \cap OQ!Range(sending') \subseteq OQ!Repeatable
    <3>1. CASE kind = "signals"
      BY <1>5, <3>1 DEF OQ!Repeatable
    <3>2. CASE kind # "signals"
      <4>1. \A i \in n + 1 .. Len(queue), j \in 1 .. n : i # j /\ i \in 1 .. Len(queue) /\ j \in 1 .. Len(queue)
        BY <1>2
      <4>2. \A i \in n + 1 .. Len(queue), j \in 1 .. n : queue[i] # queue[j]
        BY <1>2, <4>1
      <4>3. OQ!Range(queue') \cap OQ!Range(sending') = {}
        BY <1>3, <1>4, <3>2, <4>2
      <4> QED BY <4>3
    <3> QED BY <3>1, <3>2
  <2> QED BY <1>1, <2>1, <2>2, <2>3 DEF OQ!QueuedFresh
<1>9. OQ!LengthRead'
  BY <1>1 DEF OQ!LengthRead
<1>10. OQ!TakenFresh'
  <2>1. \A r \in DOMAIN posted : OQ!Range(sending') \cap OQ!Range(posted[r]) \subseteq OQ!Repeatable
    BY <1>0, <1>4 DEF OQ!QueuedFresh
  <2>2. DOMAIN posted = Component \cup {Endpoint}
    BY <1>0 DEF OQ!TypeOK
  <2>3. kind # "signals" => OQ!Range(sending') \cap OQ!Range(posted[Endpoint]) = {}
    BY <2>1, <2>2 DEF OQ!Repeatable
  <2>4. next' \in 1 .. Len(sending')
    BY <1>1, <1>4
  <2>5. ASSUME kind = "signals", NEW k \in 1 .. Len(targets'), NEW i \in 1 .. Len(sending'),
               sending'[i] \in OQ!Range(posted[component[targets'[k]]])
        PROVE  sending'[i] \in late
    <3>1. component[targets'[k]] \in DOMAIN posted
      BY <1>0, <1>1, <2>2 DEF OQ!TypeOK
    <3>2. sending'[i] \in OQ!Range(sending')
      BY <1>4, ElementsOf
    <3> QED BY <2>1, <2>5, <3>1, <3>2 DEF OQ!Repeatable
  <2> QED BY <1>1, <2>3, <2>4, <2>5 DEF OQ!TakenFresh
<1>11. OQ!PostedOnceUnlessRaced'
  BY <1>0, <1>1 DEF OQ!PostedOnceUnlessRaced
<1>12. OQ!Registered'
  BY <1>1, RegisteredFrame DEF OQ!QueueInv, OQ!Registered, OQ!OncePerComponent
<1> QED BY <1>6, <1>7, <1>8, <1>9, <1>10, <1>11, <1>12 DEF OQ!QueueInv

\* The tick is over.
LEMMA EndTickInv ==
  ASSUME OQ!QueueInv, OQ!EndTick, UNCHANGED <<kind, queue, late, OQ!clientVars, stopCh, ticker, fired, queueSize>>,
         posted' \in [Component \cup {Endpoint} -> Seq(Item)],
         \A r \in DOMAIN posted' : OQ!Range(queue) \cap OQ!Range(posted'[r]) \subseteq OQ!Repeatable,
         OQ!PostedOnceUnlessRaced'
  PROVE  OQ!QueueInv'
<1> USE DEF OQ!clientVars
<1>0. OQ!TypeOK /\ OQ!Distinct
  BY DEF OQ!QueueInv
<1>1. pc' = "select" /\ sending' = <<>> /\ targets' = <<>> /\ next' = 1
  BY DEF OQ!EndTick
<1>2. OQ!TypeOK'
  BY <1>0, <1>1 DEF OQ!TypeOK
<1>3. OQ!Distinct'
  BY <1>0, <1>1, NoElements DEF OQ!Distinct
<1>4. OQ!QueuedFresh'
  BY <1>1, NoElements DEF OQ!QueuedFresh, OQ!Repeatable
<1>5. OQ!LengthRead' /\ OQ!TakenFresh'
  BY <1>1 DEF OQ!LengthRead, OQ!TakenFresh
<1>6. OQ!Registered'
  BY <1>1, RegisteredFrame DEF OQ!QueueInv, OQ!Registered, OQ!OncePerComponent
<1> QED BY <1>2, <1>3, <1>4, <1>5, <1>6 DEF OQ!QueueInv

\* A batch of profiles or traces is posted, or is lost.
LEMMA PostBatchInv ==
  ASSUME OQ!QueueInv, NEW ok \in BOOLEAN, OQ!PostBatch(ok)
  PROVE  OQ!QueueInv'
<1> USE DEF OQ!queueVars, OQ!clientVars, OQ!tickerVars, OQ!loopVars
<1>0. OQ!TypeOK /\ OQ!Distinct /\ OQ!QueuedFresh /\ OQ!TakenFresh /\ OQ!PostedOnceUnlessRaced
  BY DEF OQ!QueueInv
<1>1. /\ UNCHANGED <<kind, queue, late, OQ!clientVars, stopCh, ticker, fired, queueSize>>
      /\ pc = "send" /\ kind # "signals" /\ OQ!EndTick
      /\ posted' = posted \/ posted' = [posted EXCEPT ![Endpoint] = posted[Endpoint] \o sending]
  BY DEF OQ!PostBatch
<1>2. CASE posted' = posted
  <2>1. OQ!PostedOnceUnlessRaced'
    BY <1>0, <1>1, <1>2 DEF OQ!PostedOnceUnlessRaced
  <2> QED BY <1>0, <1>1, <1>2, <2>1, EndTickInv DEF OQ!TypeOK, OQ!QueuedFresh
<1>3. CASE posted' = [posted EXCEPT ![Endpoint] = posted[Endpoint] \o sending]
  <2> DEFINE p == posted[Endpoint]
             q == posted'[Endpoint]
  <2>1. /\ posted \in [Component \cup {Endpoint} -> Seq(Item)] /\ sending \in Seq(Item) /\ p \in Seq(Item)
        /\ q = p \o sending /\ \A r \in Component \cup {Endpoint} : r # Endpoint => posted'[r] = posted[r]
    BY <1>0, <1>3 DEF OQ!TypeOK
  <2>2. DOMAIN posted' = Component \cup {Endpoint} /\ DOMAIN posted = Component \cup {Endpoint}
    BY <1>3, <2>1
  <2> HIDE DEF p, q
  <2>3. /\ q \in Seq(Item) /\ OQ!Range(q) = OQ!Range(p) \cup OQ!Range(sending)
        /\ \A i \in 1 .. Len(q) : \/ i \in 1 .. Len(p) /\ q[i] = p[i]
                                  \/ i - Len(p) \in 1 .. Len(sending) /\ q[i] = sending[i - Len(p)]
    BY <2>1, JoinedElements
  <2>4. posted' \in [Component \cup {Endpoint} -> Seq(Item)]
    <3>1. \A r \in Component \cup {Endpoint} : posted'[r] \in Seq(Item)
      BY <2>1, <2>3 DEF q
    <3> QED BY <1>3, <2>1, <3>1
  <2>5. OQ!Repeatable = {} /\ OQ!Range(sending) \cap OQ!Range(p) = {}
    BY <1>0, <1>1 DEF OQ!Repeatable, OQ!TakenFresh, p
  <2>6. \A r \in DOMAIN posted' : OQ!Range(queue) \cap OQ!Range(posted'[r]) \subseteq OQ!Repeatable
    <3>1. OQ!Range(queue) \cap OQ!Range(q) \subseteq OQ!Repeatable
      <4>1. OQ!Range(queue) \cap OQ!Range(p) \subseteq OQ!Repeatable
        BY <1>0, <2>2 DEF OQ!QueuedFresh, p
      <4>2. OQ!Range(queue) \cap OQ!Range(sending) \subseteq OQ!Repeatable
        BY <1>0 DEF OQ!QueuedFresh
      <4> QED BY <2>3, <4>1, <4>2
    <3>2. \A r \in DOMAIN posted' : r # Endpoint => OQ!Range(queue) \cap OQ!Range(posted'[r]) \subseteq OQ!Repeatable
      BY <1>0, <2>1, <2>2 DEF OQ!QueuedFresh
    <3> QED BY <3>1, <3>2 DEF q
  <2>7. \A i, j \in 1 .. Len(q) : q[i] = q[j] => i = j
    <3> SUFFICES ASSUME NEW i \in 1 .. Len(q), NEW j \in 1 .. Len(q), q[i] = q[j]
                 PROVE  i = j
      OBVIOUS
    <3>1. \A k, l \in 1 .. Len(p) : p[k] = p[l] => k = l
      BY <1>0, <1>1, <2>2 DEF OQ!PostedOnceUnlessRaced, p
    <3>2. \A k, l \in 1 .. Len(sending) : sending[k] = sending[l] => k = l
      BY <1>0, <2>1, ElementsOf DEF OQ!Distinct
    <3>3. \A k \in 1 .. Len(p), l \in 1 .. Len(sending) : p[k] # sending[l]
      <4>1. OQ!Range(p) = {p[k] : k \in 1 .. Len(p)}
        BY <2>1, ElementsOf
      <4>2. OQ!Range(sending) = {sending[k] : k \in 1 .. Len(sending)}
        BY <2>1, ElementsOf
      <4> QED BY <2>5, <4>1, <4>2
    <3>4. Len(p) \in Nat /\ i \in Int /\ j \in Int
      BY <2>1, <2>3
    <3>5. i - Len(p) = j - Len(p) => i = j
      BY <3>4
    <3> QED BY <2>3, <3>1, <3>2, <3>3, <3>5
  <2>8. OQ!PostedOnceUnlessRaced'
    BY <1>0, <1>1, <2>1, <2>2, <2>7 DEF OQ!PostedOnceUnlessRaced, q
  <2> QED BY <1>1, <2>4, <2>6, <2>8, EndTickInv
<1> QED BY <1>1, <1>2, <1>3

\* All clients are served.
LEMMA EndSignalsInv ==
  ASSUME OQ!QueueInv, OQ!EndSignals
  PROVE  OQ!QueueInv'
<1> USE DEF OQ!queueVars, OQ!clientVars, OQ!tickerVars, OQ!loopVars
<1>0. OQ!TypeOK /\ OQ!QueuedFresh /\ OQ!PostedOnceUnlessRaced
  BY DEF OQ!QueueInv
<1>1. /\ UNCHANGED <<kind, queue, late, OQ!clientVars, stopCh, ticker, fired, queueSize>>
      /\ OQ!EndTick /\ posted' = posted
  BY DEF OQ!EndSignals
<1>2. OQ!PostedOnceUnlessRaced'
  BY <1>0, <1>1 DEF OQ!PostedOnceUnlessRaced
<1> QED BY <1>0, <1>1, <1>2, EndTickInv DEF OQ!TypeOK, OQ!QueuedFresh

\* The loop goes on with the next signal, or with the next client.
LEMMA AdvanceFacts ==
  ASSUME OQ!QueueInv, pc = "send", targets # <<>>, OQ!Advance
  PROVE  /\ targets' \in Seq(Request) /\ next' \in 1 .. Len(sending)
         /\ \/ targets' = targets /\ next' = next + 1
            \/ /\ Len(targets') = Len(targets) - 1
               /\ \A k \in 1 .. Len(targets') : k + 1 \in 1 .. Len(targets) /\ k + 1 # 1 /\ targets'[k] = targets[k + 1]
<1>0. OQ!TypeOK /\ OQ!TakenFresh
  BY DEF OQ!QueueInv
<1>1. /\ targets \in Seq(Request) /\ Len(targets) \in Nat /\ Len(targets) >= 1
      /\ sending \in Seq(Item) /\ Len(sending) \in Nat /\ next \in 1 .. Len(sending)
  BY <1>0 DEF OQ!TypeOK, OQ!TakenFresh
<1>2. CASE next < Len(sending)
  BY <1>1, <1>2 DEF OQ!Advance
<1>3. CASE ~(next < Len(sending))
  <2>1. targets' = Tail(targets) /\ next' = 1
    BY <1>3 DEF OQ!Advance
  <2>2. /\ targets' \in Seq(Request) /\ Len(targets') = Len(targets) - 1
        /\ \A k \in 1 .. Len(targets') : targets'[k] = targets[k + 1]
    BY <1>1, <2>1
  <2>3. \A k \in 1 .. Len(targets') : k + 1 \in 1 .. Len(targets) /\ k + 1 # 1
    BY <1>1, <2>2
  <2>4. next' \in 1 .. Len(sending)
    BY <1>1, <2>1
  <2> QED BY <2>2, <2>3, <2>4
<1> QED BY <1>2, <1>3

\* One signal is posted to one client, is skipped or is lost.
LEMMA PostSignalInv ==
  ASSUME OQ!QueueInv, NEW ok \in BOOLEAN, OQ!PostSignal(ok)
  PROVE  OQ!QueueInv'
<1> USE DEF OQ!queueVars, OQ!clientVars, OQ!tickerVars, OQ!loopVars
<1>0. OQ!TypeOK /\ OQ!Distinct /\ OQ!Registered /\ OQ!QueuedFresh /\ OQ!TakenFresh /\ OQ!PostedOnceUnlessRaced
  BY DEF OQ!QueueInv
<1> DEFINE c == component[Head(targets)]
           x == sending[next]
           p == posted[c]
           q == posted'[c]
<1>1. /\ UNCHANGED <<kind, queue, late, component, handler, saw, udsClients, raced, stopCh, ticker, fired, pc, queueSize, sending>>
      /\ pc = "send" /\ kind = "signals" /\ targets # <<>> /\ OQ!Advance
      /\ posted' = posted \/ posted' = [posted EXCEPT ![c] = Append(posted[c], x)]
      /\ isHealth' \subseteq isHealth
  BY DEF OQ!PostSignal
<1>2. /\ targets' \in Seq(Request) /\ next' \in 1 .. Len(sending)
      /\ \/ targets' = targets /\ next' = next + 1
         \/ /\ Len(targets') = Len(targets) - 1
            /\ \A k \in 1 .. Len(targets') : k + 1 \in 1 .. Len(targets) /\ k + 1 # 1 /\ targets'[k] = targets[k + 1]
  BY <1>1, AdvanceFacts
<1>3. /\ targets \in Seq(Request) /\ Len(targets) \in Nat /\ 1 \in 1 .. Len(targets) /\ c = component[targets[1]]
      /\ component \in [Request -> Component] /\ c \in Component
      /\ sending \in Seq(Item) /\ Len(sending) \in Nat /\ next \in 1 .. Len(sending)
      /\ x \in Item /\ p \in Seq(Item) /\ DOMAIN posted = Component \cup {Endpoint}
  BY <1>0, <1>1 DEF OQ!TypeOK, OQ!TakenFresh
<1> HIDE DEF c, x
<1>4. /\ \A k \in 1 .. Len(targets), i \in 1 .. Len(sending) :
           sending[i] \in OQ!Range(posted[component[targets[k]]]) =>
             sending[i] \in late \/ component[targets[k]] \in raced \/ (k = 1 /\ i < next)
      /\ x \in OQ!Range(sending)
      /\ \A i \in 1 .. Len(sending) : sending[i] = x => i = next
  <2>1. OQ!Range(sending) = {sending[i] : i \in 1 .. Len(sending)}
    BY <1>3, ElementsOf
  <2>2. \A i, j \in 1 .. Len(sending) : sending[i] = sending[j] => i = j
    BY <1>0, <1>3, ElementsOf DEF OQ!Distinct
  <2> QED BY <1>0, <1>1, <1>3, <2>1, <2>2 DEF OQ!TakenFresh, x
<1>5. /\ posted' \in [Component \cup {Endpoint} -> Seq(Item)]
      /\ \A d \in Component \cup {Endpoint} : d # c => posted'[d] = posted[d]
      /\ q = p \/ q = Append(p, x)
  <2>1. posted \in [Component \cup {Endpoint} -> Seq(Item)] /\ c \in Component \cup {Endpoint}
    BY <1>0, <1>3 DEF OQ!TypeOK
  <2>2. Append(p, x) \in Seq(Item)
    BY <1>3
  <2> QED BY <1>1, <2>1, <2>2
<1>6. DOMAIN posted' = Component \cup {Endpoint}
  BY <1>5
<1>7. /\ OQ!Range(q) = OQ!Range(p) \/ (q = Append(p, x) /\ OQ!Range(q) = OQ!Range(p) \cup {x})
      /\ \A i \in 1 .. Len(q) : (i \in 1 .. Len(p) /\ q[i] = p[i]) \/ (i = Len(p) + 1 /\ q[i] = x)
  <2> HIDE DEF p, q
  <2>1. CASE q = p
    BY <2>1
  <2>2. CASE q = Append(p, x)
    <3>1. OQ!Range(Append(p, x)) = OQ!Range(p) \cup {x}
      BY <1>3, AppendElements
    <3>2. ASSUME NEW i \in 1 .. Len(Append(p, x))
          PROVE  \/ i \in 1 .. Len(p) /\ Append(p, x)[i] = p[i]
                 \/ i = Len(p) + 1 /\ Append(p, x)[i] = x
      <4>1. p \in Seq(Item) /\ Len(p) \in Nat /\ Len(Append(p, x)) = Len(p) + 1
        BY <1>3
      <4>2. i \in 1 .. Len(p) \/ i = Len(p) + 1
        BY <4>1
      <4> QED BY <1>3, <4>1, <4>2
    <3> QED BY <2>2, <3>1, <3>2
  <2> QED BY <1>5, <2>1, <2>2
<1>8. x \in OQ!Range(p) => x \in late \/ c \in raced
  <2>1. sending[next] \in OQ!Range(posted[component[targets[1]]]) =>
          sending[next] \in late \/ component[targets[1]] \in raced \/ next < next
    BY <1>3, <1>4
  <2> QED BY <1>3, <2>1 DEF x
<1> HIDE DEF p, q
<1>9. OQ!TypeOK'
  <2>1. isHealth' \in SUBSET Request
    BY <1>0, <1>1 DEF OQ!TypeOK
  <2>2. next' \in Nat
    BY <1>2, <1>3
  <2>3. stopCh' \in BOOLEAN /\ ticker' \in BOOLEAN /\ fired' \in BOOLEAN
    BY <1>0, <1>1 DEF OQ!TypeOK
  <2> QED BY <1>0, <1>1, <1>2, <1>5, <2>1, <2>2, <2>3 DEF OQ!TypeOK
<1>10. OQ!Distinct'
  BY <1>0, <1>1 DEF OQ!Distinct
<1>15. \A k, l \in 1 .. Len(targets) :
         k # l /\ component[targets[k]] = component[targets[l]] => component[targets[k]] \in raced
  BY <1>0 DEF OQ!Registered, OQ!OncePerComponent
<1>16. OQ!Registered'
  <2>1. OQ!OncePerComponent(targets)'
    <3>1. CASE targets' = targets
      BY <1>1, <1>15, <3>1 DEF OQ!OncePerComponent
    <3>2. CASE \A k \in 1 .. Len(targets') : k + 1 \in 1 .. Len(targets) /\ targets'[k] = targets[k + 1]
      <4>1. \A k, l \in 1 .. Len(targets') : k # l => k + 1 # l + 1
        OBVIOUS
      <4> QED BY <1>1, <1>15, <3>2, <4>1, SMTT(30) DEF OQ!OncePerComponent
    <3> QED BY <1>2, <3>1, <3>2
  <2> QED BY <1>0, <1>1, <2>1, RegisteredFrame
<1>11. OQ!QueuedFresh'
  <2>1. OQ!Repeatable' = OQ!Repeatable /\ OQ!Range(queue) \cap OQ!Range(sending) \subseteq OQ!Repeatable
    BY <1>0, <1>1 DEF OQ!Repeatable, OQ!QueuedFresh
  <2>2. \A d \in DOMAIN posted' : OQ!Range(queue) \cap OQ!Range(posted'[d]) \subseteq OQ!Repeatable
    <3>1. OQ!Range(queue) \cap OQ!Range(p) \subseteq OQ!Repeatable
      BY <1>0, <1>3 DEF OQ!QueuedFresh, p
    <3>2. OQ!Range(queue) \cap OQ!Range(q) \subseteq OQ!Repeatable
      BY <1>4, <1>7, <2>1, <3>1
    <3>3. \A d \in DOMAIN posted' : d # c => OQ!Range(queue) \cap OQ!Range(posted'[d]) \subseteq OQ!Repeatable
      BY <1>0, <1>3, <1>5, <1>6 DEF OQ!QueuedFresh
    <3> QED BY <3>2, <3>3 DEF q
  <2> QED BY <1>1, <2>1, <2>2 DEF OQ!QueuedFresh
<1>12. OQ!LengthRead'
  BY <1>1 DEF OQ!LengthRead
<1>13. OQ!TakenFresh'
  <2>1. ASSUME NEW k \in 1 .. Len(targets'), NEW i \in 1 .. Len(sending),
               sending[i] \in OQ!Range(posted'[component[targets'[k]]]), component[targets'[k]] \notin raced
        PROVE  sending[i] \in late \/ (k = 1 /\ i < next')
    <3>1. CASE targets' = targets /\ next' = next + 1
      <4>1. k \in 1 .. Len(targets) /\ component[targets[k]] \in Component
        BY <1>3, <3>1
      <4>2. CASE component[targets[k]] # c
        <5>1. posted'[component[targets'[k]]] = posted[component[targets[k]]] /\ k # 1
          BY <1>3, <1>5, <3>1, <4>1, <4>2
        <5> QED BY <1>4, <2>1, <3>1, <4>1, <5>1
      <4>3. CASE component[targets[k]] = c
        <5>1. k = 1
          BY <1>3, <1>15, <2>1, <3>1, <4>1, <4>3
        <5>2. sending[i] \in OQ!Range(q)
          BY <2>1, <3>1, <4>3 DEF q
        <5>3. sending[i] \in OQ!Range(p) => sending[i] \in late \/ i < next
          BY <1>3, <1>4, <2>1, <3>1, <4>3 DEF p
        <5>4. sending[i] \in OQ!Range(p) \/ i = next
          BY <1>4, <1>7, <5>2
        <5>5. i < next \/ i = next => i < next'
          BY <1>3, <3>1
        <5> QED BY <5>1, <5>3, <5>4, <5>5
      <4> QED BY <4>2, <4>3
    <3>2. CASE k + 1 \in 1 .. Len(targets) /\ k + 1 # 1 /\ targets'[k] = targets[k + 1]
      <4>1. component[targets[k + 1]] \in Component
        BY <1>3, <3>2
      <4>2. component[targets[k + 1]] # c
        BY <1>3, <1>15, <2>1, <3>2
      <4>3. posted'[component[targets'[k]]] = posted[component[targets[k + 1]]]
        BY <1>5, <3>2, <4>1, <4>2
      <4> QED BY <1>4, <2>1, <3>2, <4>3
    <3> QED BY <1>2, <3>1, <3>2
  <2> QED BY <1>1, <1>2, <2>1 DEF OQ!TakenFresh
<1>14. OQ!PostedOnceUnlessRaced'
  <2>1. ASSUME NEW i \in 1 .. Len(q), NEW j \in 1 .. Len(q), i # j, q[i] = q[j]
        PROVE  q[i] \in late \/ c \in raced
    <3>1. \A k, l \in 1 .. Len(p) : k # l /\ p[k] = p[l] => p[k] \in late \/ c \in raced
      BY <1>0, <1>3 DEF OQ!PostedOnceUnlessRaced, p
    <3>2. \A k \in 1 .. Len(p) : p[k] \in OQ!Range(p)
      BY <1>3, ElementsOf
    <3> QED BY <1>7, <1>8, <2>1, <3>1, <3>2
  <2>2. \A d \in DOMAIN posted' : d # c => posted'[d] = posted[d] /\ d \in DOMAIN posted
    BY <1>3, <1>5, <1>6
  <2> QED BY <1>0, <1>1, <2>1, <2>2 DEF OQ!PostedOnceUnlessRaced, q
<1> QED BY <1>9, <1>10, <1>11, <1>12, <1>13, <1>14, <1>16 DEF OQ!QueueInv

\* Every step of consumers, clients and ticker.
LEMMA QueueStepInv == OQ!QueueInv /\ [OQ!Next]_OQ!vars => OQ!QueueInv'
BY AddInv, LookInv, ReadClientsInv, WriteClientsInv, TickerInv, SelectInv, TakeInv, EndSignalsInv, PostBatchInv, PostSignalInv
   DEF OQ!Next, OQ!Goroutine, OQ!Registry

\* The invariant holds in every reachable state.
THEOREM QueueInvariant == OQ!Spec => []OQ!QueueInv
BY QueueInitInv, QueueStepInv, PTL DEF OQ!Spec

\* Of BatchSendSignals, ConsumeProfileSignals and SendTraces only the first
\* posts anything twice, and only what was appended between its reading of the
\* length and its lock, or to a component whose registration was overtaken by
\* another one between its look at udsClients and its append.
THEOREM PostedOnce == OQ!Spec => []PostedOnceUnlessRaced
<1>1. OQ!QueueInv => PostedOnceUnlessRaced
  BY DEF OQ!QueueInv, PostedOnceUnlessRaced
<1> QED BY <1>1, QueueInvariant, PTL

\* The cut by a length read before the lock removes nothing that is not taken.
THEOREM CutOnlyTaken == OQ!Spec => NeverCutUnsent
<1> USE DEF OQ!queueVars, OQ!clientVars, OQ!tickerVars, OQ!loopVars
<1> DEFINE Kept == \A item \in OQ!Range(queue) : item \in OQ!Range(queue') \cup OQ!Range(sending')
<1>1. ASSUME OQ!QueueInv, OQ!Next
      PROVE  Kept
  <2>0. OQ!TypeOK /\ OQ!LengthRead
    BY <1>1 DEF OQ!QueueInv
  <2>1. ASSUME NEW item \in Item, OQ!Add(item)
        PROVE  Kept
    BY <2>0, <2>1, AppendElements DEF OQ!Add, OQ!TypeOK
  <2>2. CASE OQ!Take
    <3>1. /\ queueSize \in 1 .. Len(queue) /\ Len(queue) \in Nat /\ queue \in Seq(Item)
      BY <2>0, <2>2 DEF OQ!TypeOK, OQ!LengthRead, OQ!Take
    <3>2. /\ queue' = SubSeq(queue, queueSize + 1, Len(queue))
          /\ sending' = (IF kind = "signals" THEN queue ELSE SubSeq(queue, 1, queueSize))
      BY <2>2 DEF OQ!Take, OQ!Cut, OQ!Taken
    <3>3. OQ!Range(queue) = {queue[i] : i \in 1 .. Len(queue)}
      BY <3>1, ElementsOf
    <3>4. OQ!Range(queue') = {queue[i] : i \in queueSize + 1 .. Len(queue)}
      <4>1. /\ queueSize + 1 \in 1 .. Len(queue) + 1 /\ Len(queue) \in 0 .. Len(queue)
            /\ queueSize + 1 <= Len(queue) + 1
        BY <3>1
      <4> QED BY <3>1, <3>2, <4>1, PartElements, ZenonT(60)
    <3>5. OQ!Range(SubSeq(queue, 1, queueSize)) = {queue[i] : i \in 1 .. queueSize}
      <4>1. 1 \in 1 .. Len(queue) + 1 /\ queueSize \in 0 .. Len(queue) /\ 1 <= queueSize + 1
        BY <3>1
      <4> QED BY <3>1, <4>1, PartElements
    <3>6. \A i \in 1 .. Len(queue) : i \in queueSize + 1 .. Len(queue) \/ i \in 1 .. queueSize
      BY <3>1
    <3> QED BY <3>2, <3>3, <3>4, <3>5, <3>6
  <2>3. queue' = queue => Kept
    OBVIOUS
  <2> QED
    BY <1>1, <2>1, <2>2, <2>3
       DEF OQ!Next, OQ!Goroutine, OQ!Registry, OQ!Look, OQ!ReadClients, OQ!WriteClients, OQ!Fire, OQ!Stop, OQ!StopTicker, OQ!Return, OQ!ReadLength,
           OQ!EndSignals, OQ!PostBatch, OQ!PostSignal
<1>2. OQ!QueueInv /\ [OQ!Next]_OQ!vars => [Kept]_OQ!vars
  BY <1>1
<1>3. OQ!Spec => [][Kept]_OQ!vars
  BY <1>2, QueueInvariant, PTL DEF OQ!Spec
<1> QED BY <1>3 DEF NeverCutUnsent, OQ!NeverCutUnsent
=============================================================================
