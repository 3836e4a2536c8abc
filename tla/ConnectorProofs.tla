---------------------------- MODULE ConnectorProofs ----------------------------
(***************************************************************************)
(* Proofs about the connector.                                             *)
(*                                                                         *)
(* RedMetrics, for every set of services, names, keys and spans, every     *)
(* cache size and every limit: dimensions are found when metrics are       *)
(* built, the tracked services are bounded, no count is deleted unreported *)
(* and counts of server, db and mq metrics restart only after an eviction. *)
(*                                                                         *)
(* EntryUrl, for every set of traces and spans whose parents make no cycle *)
(* and all times: mappings live exactly as long as they should, no span    *)
(* waits although its url is known, and every span is counted once unless  *)
(* a match races the tick.                                                 *)
(***************************************************************************)
EXTENDS RedMetrics, MCEntryUrl, Sequences, FiniteSetTheorems, SequenceTheorems, WellFoundedInduction, TLAPS

\* The overflow service is the only one that is added beyond the limit.
OnlyOverflowBeyond ==
  /\ IsFiniteSet(Services)
  /\ \/ Cardinality(Services) <= MaxServices + 1
     \/ Overflow \in Services /\ Cardinality(Services) <= MaxServices + 2

\* Every server metric is of a tracked service.
ServerKeysTracked == {k[2] : k \in Of("server", Histograms)} \subseteq Services

\* The inductive invariant.
RedInv ==
  /\ TypeOK
  /\ DimensionsKnown
  /\ ServerKeysTracked
  /\ OnlyOverflowBeyond

-----------------------------------------------------------------------------

\* A cache holds no more than its size, whatever it was asked to take.
LEMMA FittingIsBounded ==
  ASSUME NEW all \in SUBSET MetricKey, NEW kept, Fits(all, kept), NEW t \in Table
  PROVE  Cardinality(Of(t, kept)) <= CacheSize
<1>1. IsFiniteSet(Of(t, all))
  <2>1. Of(t, all) \subseteq MetricKey
    BY DEF Of
  <2> QED
    BY <2>1, SizeAssumption, FS_Subset
<1>2. Cardinality(Of(t, all)) \in Nat
  BY <1>1, FS_CardinalityType
<1> QED
  BY <1>2, SizeAssumption DEF Fits

\* The metric keys of a span are metric keys.
LEMMA KeysOfType ==
  ASSUME NEW s \in Span
  PROVE  /\ KeysOf(s) \in SUBSET MetricKey
         /\ s.service \in Service
         /\ s.name \in Name
         /\ TrackedService(s) \in Service \cup {Overflow}
         /\ TrackedOperation(s) \in Name \cup {Overflow}
         /\ s.calls \in SUBSET CallKey
<1>1. s \in [isServer : BOOLEAN, service : Service, name : Name, calls : SUBSET CallKey]
  BY SpanAssumption
<1>2. /\ TrackedService(s) \in Service \cup {Overflow}
      /\ TrackedOperation(s) \in Name \cup {Overflow}
  BY <1>1 DEF TrackedService, TrackedOperation
<1>3. <<"server", TrackedService(s), s.name>> \in ServerKey
  BY <1>1, <1>2 DEF ServerKey
<1> QED
  BY <1>1, <1>2, <1>3 DEF KeysOf, MetricKey

\* A server span adds the service it is tracked under, and nothing else does.
LEMMA ServicesGrow ==
  ASSUME NEW s \in Span, Aggregate(s)
  PROVE  Services' = IF s.isServer THEN Services \cup {TrackedService(s)} ELSE Services
<1>1. CASE s.isServer
  <2> DEFINE new == <<TrackedService(s), TrackedOperation(s)>>
  <2>1. serviceToOperations' = serviceToOperations \cup {new}
    BY <1>1 DEF Aggregate
  <2>2. new[1] = TrackedService(s)
    OBVIOUS
  <2> HIDE DEF new
  <2>3. Services' = Services \cup {new[1]}
    BY <2>1, Zenon DEF Services
  <2> QED
    BY <1>1, <2>2, <2>3
<1>2. CASE ~s.isServer
  <2>1. serviceToOperations' = serviceToOperations
    BY <1>2 DEF Aggregate
  <2> QED
    BY <1>2, <2>1 DEF Services
<1> QED
  BY <1>1, <1>2

\* The limit holds after a span, and only the overflow service exceeds it.
LEMMA AggregateBounded ==
  ASSUME NEW s \in Span, Aggregate(s), OnlyOverflowBeyond
  PROVE  OnlyOverflowBeyond'
<1>1. CASE ~s.isServer
  <2>1. Services' = Services
    BY <1>1, ServicesGrow
  <2> QED
    BY <2>1 DEF OnlyOverflowBeyond
<1>2. CASE s.isServer
  <2>1. Services' = Services \cup {TrackedService(s)}
    BY <1>2, ServicesGrow
  <2>2. IsFiniteSet(Services')
    BY <2>1, FS_AddElement DEF OnlyOverflowBeyond
  <2>3. /\ Cardinality(Services) \in Nat
        /\ Cardinality(Services') \in Nat
        /\ \/ Services' = Services
           \/ Cardinality(Services') = Cardinality(Services) + 1
    BY <2>1, <2>2, FS_AddElement, FS_CardinalityType DEF OnlyOverflowBeyond
  <2>4. CASE Cardinality(Services) <= MaxServices
    BY <2>2, <2>3, <2>4, SizeAssumption DEF OnlyOverflowBeyond
  <2>5. CASE ~(Cardinality(Services) <= MaxServices)
    <3>1. TrackedService(s) = Overflow
      BY <2>3, <2>5, SizeAssumption DEF TrackedService
    <3>2. CASE Overflow \in Services
      <4>1. Services' = Services
        BY <2>1, <3>1, <3>2
      <4> QED
        BY <4>1 DEF OnlyOverflowBeyond
    <3>3. CASE Overflow \notin Services
      BY <2>1, <2>2, <2>3, <3>1, <3>3, SizeAssumption DEF OnlyOverflowBeyond
    <3> QED
      BY <3>2, <3>3
  <2> QED
    BY <2>4, <2>5
<1> QED
  BY <1>1, <1>2

\* What a span changes, with types.
LEMMA AggregateType ==
  ASSUME NEW s \in Span, Aggregate(s), TypeOK
  PROVE  TypeOK'
<1>1. KeysOf(s) \in SUBSET MetricKey
  BY KeysOfType
<1>2. lru' \in SUBSET MetricKey /\ evicted' \in SUBSET MetricKey
  BY <1>1 DEF Aggregate, Use, TypeOK
<1>3. \A t \in Table : Cardinality(Of(t, lru')) <= CacheSize
  <2>1. lru \cup KeysOf(s) \in SUBSET MetricKey
    BY <1>1 DEF TypeOK
  <2>2. Fits(lru \cup KeysOf(s), lru')
    BY DEF Aggregate, Use
  <2> QED
    BY <2>1, <2>2, FittingIsBounded
<1>4. histogram' \in Counts
  BY <1>1, SizeAssumption DEF Aggregate, TypeOK, Counts
<1>5. serviceToOperations' \in SUBSET ((Service \cup {Overflow}) \X (Name \cup {Overflow}))
  BY KeysOfType DEF Aggregate, TypeOK
<1> QED
  BY <1>2, <1>3, <1>4, <1>5 DEF Aggregate, TypeOK, Of

\* A span is counted in an order in which its dimensions are there.
LEMMA AggregateKnown ==
  ASSUME NEW s \in Span, Aggregate(s), TypeOK, DimensionsKnown
  PROVE  DimensionsKnown'
<1>1. Histograms' \subseteq Histograms \cup KeysOf(s)
  BY DEF Aggregate, Histograms
<1>2. lru \cup evicted \cup KeysOf(s) \subseteq lru' \cup evicted'
  BY DEF Aggregate, Use
<1> QED
  BY <1>1, <1>2 DEF DimensionsKnown

\* The service of a new server metric is tracked from now on.
LEMMA AggregateTracked ==
  ASSUME NEW s \in Span, Aggregate(s), TypeOK, ServerKeysTracked
  PROVE  ServerKeysTracked'
<1> SUFFICES ASSUME NEW k \in Histograms', k[1] = "server"
             PROVE  k[2] \in Services'
  BY DEF ServerKeysTracked, Of
<1>1. Services \subseteq Services'
  BY ServicesGrow
<1>2. CASE k \in Histograms
  BY <1>1, <1>2 DEF ServerKeysTracked, Of
<1>3. CASE k \notin Histograms
  <2>1. k \in KeysOf(s)
    BY <1>3 DEF Aggregate, Histograms
  <2>2. k \notin s.calls
    BY KeysOfType, SpanAssumption
  <2>3. s.isServer /\ k = <<"server", TrackedService(s), s.name>>
    BY <2>1, <2>2 DEF KeysOf
  <2>4. TrackedService(s) \in Services'
    BY <2>3, ServicesGrow
  <2> QED
    BY <2>3, <2>4
<1> QED
  BY <1>2, <1>3

\* An export leaves every histogram with its dimensions in the cache.
LEMMA ExportKeeps ==
  ASSUME ExportMetrics, RedInv
  PROVE  RedInv'
<1>1. PICK kept \in SUBSET (lru \cup Histograms) :
        /\ Collected(kept)
        /\ lru' = kept
        /\ histogram' = [k \in MetricKey |-> IF k \in Of(PrunedBy(k[1]), kept)
                                             THEN histogram[k] ELSE 0]
  BY DEF ExportMetrics, BuildMetrics
<1>2. /\ lru \cup Histograms \in SUBSET MetricKey
      /\ lru' \in SUBSET MetricKey
  BY <1>1 DEF RedInv, TypeOK, Histograms
<1>3. \A t \in Table : Cardinality(Of(t, kept)) <= CacheSize
  BY <1>1, <1>2, FittingIsBounded DEF Collected
<1>4. histogram' \in Counts
  BY <1>1, SizeAssumption DEF RedInv, TypeOK, Counts
<1>5. TypeOK'
  BY <1>1, <1>2, <1>3, <1>4 DEF ExportMetrics, BuildMetrics, RedInv, TypeOK, Of
<1>6. Histograms' \subseteq Histograms /\ Histograms' \subseteq lru'
  BY <1>1 DEF Histograms, Of
<1>7. Services' = Services
  BY DEF ExportMetrics, BuildMetrics, Services
<1>8. DimensionsKnown'
  BY <1>6 DEF DimensionsKnown
<1>9. ServerKeysTracked'
  BY <1>6, <1>7 DEF RedInv, ServerKeysTracked, Of
<1>10. OnlyOverflowBeyond'
  BY <1>7 DEF RedInv, OnlyOverflowBeyond
<1> QED
  BY <1>5, <1>8, <1>9, <1>10 DEF RedInv

\* Nothing is counted in the beginning.
LEMMA InitRedInv ==
  ASSUME Init
  PROVE  RedInv
<1>1. Histograms = {} /\ Services = {}
  BY DEF Init, Histograms, Services, NoCounts
<1>2. \A t \in Table : Of(t, lru) = {}
  BY DEF Init, Of
<1>3. TypeOK
  <2>1. Cardinality({}) = 0
    BY FS_EmptySet
  <2>2. \A t \in Table : Cardinality(Of(t, lru)) <= CacheSize
    BY <1>2, <2>1, SizeAssumption
  <2>3. NoCounts \in Counts
    BY SizeAssumption DEF NoCounts, Counts
  <2> QED
    BY <2>2, <2>3 DEF Init, TypeOK
<1> QED
  BY <1>1, <1>3, FS_EmptySet, SizeAssumption
  DEF RedInv, DimensionsKnown, ServerKeysTracked, OnlyOverflowBeyond, Of

\* The steps that leave keys, counts and services alone.
LEMMA OtherStepsKeep ==
  ASSUME RedInv, UNCHANGED dataVars,
         exporter' \in {"none", "select", "send", "done"}, tick' \in BOOLEAN,
         built' \in Counts, shutdown' \in {"no", "stopping", "returned"}
  PROVE  RedInv'
<1>1. Histograms' = Histograms /\ Services' = Services /\ lru' = lru /\ evicted' = evicted
  BY DEF dataVars, Histograms, Services
<1> QED
  BY <1>1 DEF RedInv, TypeOK, DimensionsKnown, ServerKeysTracked, OnlyOverflowBeyond, dataVars, Of

\* Every step keeps the invariant.
LEMMA NextRedInv ==
  ASSUME RedInv, [Next]_vars
  PROVE  RedInv'
<1>1. ASSUME NEW s \in Span, Aggregate(s)
      PROVE  RedInv'
  BY <1>1, AggregateType, AggregateKnown, AggregateTracked, AggregateBounded DEF RedInv
<1>2. CASE ExportMetrics
  BY <1>2, ExportKeeps
<1>3. CASE Start
  BY <1>3, OtherStepsKeep DEF Start, RedInv, TypeOK
<1>4. CASE Fire
  BY <1>4, OtherStepsKeep DEF Fire, RedInv, TypeOK
<1>5. CASE Sent
  <2>1. NoCounts \in Counts
    BY SizeAssumption DEF NoCounts, Counts
  <2> QED
    BY <1>5, <2>1, OtherStepsKeep DEF Sent, RedInv, TypeOK
<1>6. CASE Shutdown
  BY <1>6, OtherStepsKeep DEF Shutdown, RedInv, TypeOK
<1>7. CASE Done
  BY <1>7, OtherStepsKeep DEF Done, RedInv, TypeOK
<1>8. CASE UNCHANGED vars
  BY <1>8, OtherStepsKeep DEF vars, RedInv, TypeOK
<1> QED
  BY <1>1, <1>2, <1>3, <1>4, <1>5, <1>6, <1>7, <1>8 DEF Next, Export

\* The invariant holds in every reachable state.
THEOREM RedInvariant == Spec => []RedInv
<1>1. Init => RedInv
  BY InitRedInv
<1>2. RedInv /\ [Next]_vars => RedInv'
  BY NextRedInv
<1> QED
  BY <1>1, <1>2, PTL DEF Spec

\* buildMetrics finds the dimensions of every histogram, for every cache size:
\* an evicted key stays in evictedItems until an export deletes its histogram.
THEOREM DimensionsAlwaysKnown == Spec => []DimensionsKnown
<1>1. RedInv => DimensionsKnown
  BY DEF RedInv
<1> QED
  BY <1>1, RedInvariant, PTL

\* At most MaxServicesToTrack + 2 services are tracked, the overflow service
\* among them, and server metrics are kept for no others.
THEOREM ServicesAlwaysBounded == Spec => []ServicesBounded
<1>1. RedInv => ServicesBounded
  <2> SUFFICES ASSUME RedInv
               PROVE  Cardinality(Services) <= MaxServices + 2
    BY DEF ServicesBounded, RedInv, ServerKeysTracked
  <2>1. Cardinality(Services) \in Nat
    BY FS_CardinalityType DEF RedInv, OnlyOverflowBeyond
  <2> QED
    BY <2>1, SizeAssumption DEF RedInv, OnlyOverflowBeyond
<1> QED
  BY <1>1, RedInvariant, PTL

\* An export reports the last count of what it deletes.
THEOREM NothingDeletedUnreported == Spec => ReportedBeforeDeleted
<1>1. RedInv /\ [Next]_vars
      => [\A k \in Histograms : histogram'[k] < histogram[k] => built'[k] = histogram[k]]_vars
  <2> SUFFICES ASSUME RedInv, Next, NEW k \in Histograms, histogram'[k] < histogram[k]
               PROVE  built'[k] = histogram[k]
    OBVIOUS
  <2>1. k \in MetricKey /\ histogram[k] \in Nat
    BY SizeAssumption DEF Histograms, RedInv, TypeOK, Counts
  <2>2. CASE ExportMetrics
    BY <2>2 DEF ExportMetrics, BuildMetrics
  <2>3. CASE UNCHANGED histogram
    BY <2>1, <2>3
  <2>4. ASSUME NEW s \in Span, Aggregate(s)
        PROVE  FALSE
    BY <2>1, <2>4 DEF Aggregate
  <2> QED
    BY <2>2, <2>3, <2>4 DEF Next, Export, Start, Fire, Sent, Shutdown, Done, dataVars
<1> QED
  BY <1>1, RedInvariant, PTL DEF Spec, ReportedBeforeDeleted

\* A server, db or mq count falls only in the export after its key was
\* evicted.
THEOREM CountsRestartOnlyEvicted == Spec => CountsCumulative
<1>1. RedInv /\ [Next]_vars => [FallsOnlyEvicted({"server", "db", "mq"})]_vars
  <2> SUFFICES ASSUME RedInv, Next, NEW k \in Histograms, k[1] \in {"server", "db", "mq"},
                      histogram'[k] < histogram[k]
               PROVE  k \notin lru'
    BY DEF FallsOnlyEvicted
  <2>1. k \in MetricKey /\ histogram[k] \in Nat
    BY SizeAssumption DEF Histograms, RedInv, TypeOK, Counts
  <2>2. CASE ExportMetrics
    <3>1. PrunedBy(k[1]) = k[1]
      BY DEF PrunedBy
    <3> QED
      BY <2>1, <2>2, <3>1 DEF ExportMetrics, BuildMetrics, Of
  <2>3. CASE UNCHANGED histogram
    BY <2>1, <2>3
  <2>4. ASSUME NEW s \in Span, Aggregate(s)
        PROVE  FALSE
    BY <2>1, <2>4 DEF Aggregate
  <2> QED
    BY <2>2, <2>3, <2>4 DEF Next, Export, Start, Fire, Sent, Shutdown, Done, dataVars
<1> QED
  BY <1>1, RedInvariant, PTL DEF Spec, CountsCumulative

-----------------------------------------------------------------------------
(***************************************************************************)
(* The cache of entry urls, for every set of spans, kept time and expiry   *)
(* time that EU!Configured allows, which is assumed of the constants.      *)
(***************************************************************************)
\* The finite sets of the instance are those of the library.
LEMMA SameFiniteSets ==
  ASSUME NEW S
  PROVE  (EU!IsFiniteSet(S) = IsFiniteSet(S)) /\ (EU!Cardinality(S) = Cardinality(S))
<1>1. EU!IsFiniteSet(S) = IsFiniteSet(S)
  BY Zenon DEF EU!IsFiniteSet, IsFiniteSet
<1>2. EU!Cardinality(S) = Cardinality(S)
  BY Zenon DEF EU!Cardinality, Cardinality
<1> QED
  BY <1>1, <1>2

\* A set of numbers has a least one: induction without a predicate.
LEMMA LeastNat ==
  ASSUME NEW T \in SUBSET Nat, T # {}
  PROVE  \E x \in T : \A y \in T : x <= y
<1> DEFINE R == OpToRel(<, Nat)
<1>1. IsWellFoundedOn(R, Nat)
  BY NatLessThanWellFounded
<1>2. \A x, y \in Nat : <<y, x>> \in R <=> y < x
  BY DEF OpToRel
<1> HIDE DEF R
<1>3. PICK x \in T : \A y \in T : ~ (<<y, x>> \in R)
  BY <1>1, WFMin
<1>4. x \in Nat /\ \A y \in T : y \in Nat
  BY <1>3
<1>5. \A y \in T : ~ (y < x)
  BY <1>2, <1>3, <1>4, Zenon
<1> QED
  BY <1>3, <1>4, <1>5

\* Distances from the end of an interval.
LEMMA FromTheEnd ==
  ASSUME NEW n \in Nat, NEW i \in 1 .. n, NEW j \in 1 .. n, j > i
  PROVE  n - j \in 0 .. n /\ n - j < n - i
OBVIOUS

\* An increasing sequence of the places 1 .. n within 1 .. n is the identity.
LEMMA Climbs ==
  ASSUME NEW n \in Nat, NEW f \in [1 .. n -> 1 .. n],
         \A i, j \in 1 .. n : i < j => f[i] < f[j]
  PROVE  \A i \in 1 .. n : f[i] = i
<1>1. \A i \in 1 .. n : f[i] >= i
  <2> DEFINE T == {i \in 1 .. n : f[i] < i}
  <2> SUFFICES ASSUME T # {}
               PROVE  FALSE
    OBVIOUS
  <2>1. T \in SUBSET Nat
    OBVIOUS
  <2>2. \A i \in T : i \in 1 .. n /\ f[i] < i /\ f[i] \in 1 .. n /\ f[f[i]] < f[i]
    OBVIOUS
  <2>3. \A i \in T : f[i] \in T
    BY <2>2
  <2> HIDE DEF T
  <2>4. PICK x \in T : \A y \in T : x <= y
    BY <2>1, LeastNat
  <2> QED
    BY <2>2, <2>3, <2>4
<1>2. \A i \in 1 .. n : f[i] <= i
  <2> DEFINE T == {m \in 0 .. n : \E i \in 1 .. n : m = n - i /\ f[i] > i}
  <2> SUFFICES ASSUME T # {}
               PROVE  FALSE
    <3>1. ASSUME NEW i \in 1 .. n, f[i] > i
          PROVE  n - i \in T
      <4>1. n - i \in 0 .. n
        OBVIOUS
      <4> QED
        BY <3>1, <4>1
    <3>2. \A i \in 1 .. n : i \in Int /\ f[i] \in Int
      OBVIOUS
    <3> HIDE DEF T
    <3> QED
      BY <3>1, <3>2
  <2>1. T \in SUBSET Nat
    OBVIOUS
  <2>2. ASSUME NEW m \in T
        PROVE  \E k \in T : k < m
    <3>1. PICK i \in 1 .. n : m = n - i /\ f[i] > i
      BY Zenon
    <3>2. f[i] \in 1 .. n /\ f[f[i]] > f[i]
      BY <3>1
    <3> HIDE DEF T
    <3>3. n - f[i] \in 0 .. n /\ n - f[i] < m
      BY <3>1, <3>2, FromTheEnd, Zenon
    <3>4. n - f[i] \in T
      BY <3>2, <3>3 DEF T
    <3> QED
      BY <3>3, <3>4
  <2>3. \A m \in T : m \in Nat
    BY <2>1
  <2> HIDE DEF T
  <2>4. PICK x \in T : \A y \in T : x <= y
    BY <2>1, LeastNat
  <2>5. PICK k \in T : k < x
    BY <2>2, <2>4
  <2> QED
    BY <2>3, <2>4, <2>5
<1> QED
  BY <1>1, <1>2

\* What a list of places in order is, and that all of them are themselves.
LEMMA PlacesInOrder ==
  ASSUME NEW n \in Nat, NEW S \in SUBSET (1 .. n), NEW place \in EU!Places(S)
  PROVE  /\ EU!Cardinality(S) \in 0 .. n
         /\ place \in [1 .. EU!Cardinality(S) -> S]
         /\ \A i, j \in DOMAIN place : place[i] = place[j] => i = j
         /\ \A p \in S : \E i \in DOMAIN place : place[i] = p
         /\ S = 1 .. n => EU!Cardinality(S) = n /\ \A i \in 1 .. n : place[i] = i
<1>1. IsFiniteSet(1 .. n) /\ Cardinality(1 .. n) = n
  BY FS_Interval
<1>2. Cardinality(S) \in Nat /\ Cardinality(S) <= n
  BY <1>1, FS_Subset, FS_CardinalityType
<1>3. EU!Cardinality(S) = Cardinality(S)
  BY SameFiniteSets
<1> DEFINE c == EU!Cardinality(S)
<1>4. c \in 0 .. n
  BY <1>2, <1>3
<1> HIDE DEF c
<1>5. /\ place \in [1 .. c -> S]
      /\ \A i, j \in 1 .. c : place[i] = place[j] => i = j
      /\ \A p \in S : \E i \in 1 .. c : place[i] = p
      /\ \A i, j \in 1 .. c : i < j => place[i] < place[j]
  BY DEF c, EU!Places, EU!Bijection, EU!Injection, EU!IsInjective, EU!Surjection
<1>6. DOMAIN place = 1 .. c
  BY <1>5
<1>7. ASSUME S = 1 .. n
      PROVE  c = n /\ \A i \in 1 .. n : place[i] = i
  <2>1. c = n
    BY <1>1, <1>3, <1>7 DEF c
  <2>2. /\ place \in [1 .. n -> 1 .. n]
        /\ \A i, j \in 1 .. n : i < j => place[i] < place[j]
    BY <1>5, <1>7, <2>1
  <2> QED
    BY <2>1, <2>2, Climbs
<1> QED
  BY <1>4, <1>5, <1>6, <1>7 DEF c

\* GetEntrySpanName finds an entry span that is recorded, or nothing.  Its
\* recursion is defined because parents make no cycle.
LEMMA EntryFound ==
  ASSUME EU!Configured, NEW M \in SUBSET TraceSpan, NEW p \in TraceSpan \cup {NoSpan}
  PROVE  EU!GetEntrySpanName(M, p) \in EU!Entry \cup {NoSpan}
<1> DEFINE D == TraceSpan \cup {NoSpan}
           Url == EU!Entry \cup {NoSpan}
           step(f, s) == IF s \notin M THEN NoSpan
                         ELSE IF s \in EU!Entry THEN s ELSE f[ParentOf[s]]
<1>1. PICK number \in [D -> 0 .. EU!Cardinality(TraceSpan)] :
        \A s \in TraceSpan : number[ParentOf[s]] < number[s]
  BY DEF EU!Configured
<1>2. EU!Cardinality(TraceSpan) \in Nat
  <2>1. IsFiniteSet(TraceSpan)
    BY SameFiniteSets DEF EU!Configured
  <2> QED
    BY <2>1, SameFiniteSets, FS_CardinalityType
<1>3. \A s \in D : number[s] \in Nat
  BY <1>1, <1>2
<1>4. \A s \in M : ParentOf[s] \in D /\ number[ParentOf[s]] < number[s]
  BY <1>1 DEF EU!Configured
<1> DEFINE Below(n) == {s \in D : number[s] < n}
           Solved(n) == \E f \in [Below(n) -> Url] : \A s \in Below(n) : f[s] = step(f, s)
<1>5. Solved(0)
  <2>1. Below(0) = {}
    BY <1>3
  <2>2. [s \in {} |-> NoSpan] \in [{} -> Url]
    OBVIOUS
  <2> QED
    BY <2>1, <2>2
<1>6. ASSUME NEW n \in Nat, Solved(n)
      PROVE  Solved(n + 1)
  <2>1. PICK f \in [Below(n) -> Url] : \A s \in Below(n) : f[s] = step(f, s)
    BY <1>6
  <2> DEFINE g == [s \in Below(n + 1) |-> step(f, s)]
  <2>2. \A s \in Below(n) : s \in Below(n + 1) /\ g[s] = f[s]
    BY <1>3, <2>1
  <2>3. \A s \in Below(n + 1) : s \in M => ParentOf[s] \in Below(n)
    BY <1>3, <1>4
  <2>4. g \in [Below(n + 1) -> Url]
    BY <2>1, <2>3
  <2>5. \A s \in Below(n + 1) : g[s] = step(g, s)
    BY <2>2, <2>3
  <2> QED
    BY <2>4, <2>5
<1>7. \A n \in Nat : Solved(n)
  <2> DEFINE T == {n \in Nat : ~ Solved(n)}
  <2> SUFFICES ASSUME T # {}
               PROVE  FALSE
    BY Zenon
  <2> HIDE DEF Solved
  <2>1. PICK x \in T : \A y \in T : x <= y
    <3>1. T \in SUBSET Nat
      OBVIOUS
    <3> HIDE DEF T
    <3> QED
      BY <3>1, LeastNat
  <2>2. x \in Nat /\ ~ Solved(x) /\ x # 0
    BY <1>5
  <2>3. x - 1 \in Nat /\ x - 1 \notin T /\ (x - 1) + 1 = x
    BY <2>1, <2>2
  <2> QED
    BY <1>6, <2>2, <2>3
<1> DEFINE entry == CHOOSE e : e = [s \in D |-> step(e, s)]
<1>8. entry = [s \in D |-> step(entry, s)]
  <2> DEFINE n == EU!Cardinality(TraceSpan) + 1
  <2>1. n \in Nat /\ Below(n) = D
    BY <1>1, <1>2, <1>3
  <2>2. Solved(n)
    <3> HIDE DEF Solved, n
    <3> QED
      BY <1>7, <2>1
  <2>3. PICK f \in [D -> Url] : \A s \in D : f[s] = step(f, s)
    <3> HIDE DEF n, Below, D, Url, step
    <3> QED
      BY <2>1, <2>2
  <2>4. f = [s \in D |-> step(f, s)]
    BY <2>3
  <2> QED
    BY <2>4, Zenon
<1>9. EU!GetEntrySpanName(M, p) = entry[p]
  BY Zenon DEF EU!GetEntrySpanName
<1> HIDE DEF entry
<1>10. \A s \in D : entry[s] \in Url
  <2> DEFINE T == {n \in Nat : \E s \in D : number[s] = n /\ entry[s] \notin Url}
  <2> SUFFICES ASSUME T # {}
               PROVE  FALSE
    BY <1>3, Zenon
  <2>1. ASSUME NEW n \in T
        PROVE  \E k \in T : k < n
    <3>1. PICK s \in D : number[s] = n /\ entry[s] \notin Url
      BY Zenon
    <3>2. entry[s] = step(entry, s)
      BY <1>8
    <3>3. s \in M /\ entry[s] = entry[ParentOf[s]]
      BY <3>1, <3>2
    <3>4. /\ ParentOf[s] \in D /\ number[ParentOf[s]] < n /\ number[ParentOf[s]] \in Nat
          /\ entry[ParentOf[s]] \notin Url
      BY <1>3, <1>4, <3>1, <3>3
    <3>5. number[ParentOf[s]] \in T
      BY <3>4, Zenon
    <3> QED
      BY <3>4, <3>5
  <2>2. T \in SUBSET Nat /\ \A n \in T : n \in Nat
    OBVIOUS
  <2> HIDE DEF T
  <2>3. PICK x \in T : \A y \in T : x <= y
    BY <2>2, LeastNat
  <2>4. PICK k \in T : k < x
    BY <2>1, <2>3
  <2> QED
    BY <2>2, <2>3, <2>4
<1> QED
  BY <1>9, <1>10

\* What the constants say of spans.
LEMMA SpanFacts ==
  ASSUME EU!Configured
  PROVE  /\ CacheUrlTime \in Nat /\ ExpireTime \in Nat
         /\ EU!Entry \subseteq TraceSpan /\ EU!Exit \subseteq TraceSpan
         /\ EU!Entry \cap EU!Exit = {}
         /\ \A s \in TraceSpan : TraceOf[s] \in Trace /\ ParentOf[s] \in TraceSpan \cup {NoSpan}
         /\ \A S \in SUBSET TraceSpan : EU!Cardinality(S) \in Nat
<1>1. IsFiniteSet(TraceSpan)
  BY SameFiniteSets DEF EU!Configured
<1>2. ASSUME NEW S \in SUBSET TraceSpan
      PROVE  EU!Cardinality(S) \in Nat
  BY <1>1, SameFiniteSets, FS_Subset, FS_CardinalityType
<1> QED
  BY <1>2 DEF EU!Configured, EU!Entry, EU!Exit

\* The queue after a batch: c waiting spans that were not matched, in their
\* order and at their places if none was matched, then k late ones.
RequeuedAs(c, k, matched, late) ==
  /\ array' \in Seq(EU!Waiting)
  /\ len' = c + k /\ len' <= Len(array')
  /\ EU!Reading => Len(array') >= Len(array)
  /\ \E place \in [1 .. c -> 1 .. len] :
       /\ \A i \in 1 .. c : array'[i] = array[place[i]] /\ array[place[i]].span \notin matched
       /\ \A i, j \in 1 .. c : place[i] = place[j] => i = j
       /\ \A p \in 1 .. len : array[p].span \notin matched => \E i \in 1 .. c : place[i] = p
  /\ (\A i \in 1 .. len : array[i].span \notin matched)
       => c = len /\ \A i \in 1 .. len : array'[i] = array[i]
  /\ \A i \in c + 1 .. len' : array'[i].span \in late
  /\ \A i, j \in c + 1 .. len' : array'[i].span = array'[j].span => i = j
  /\ \A s \in late : \E i \in c + 1 .. len' : array'[i].span = s
  /\ aliased' \in BOOLEAN /\ (~ aliased => ~ aliased')
  /\ ~ aliased => view' = view
  /\ aliased /\ EU!Reading /\ Len(view) <= Len(array) =>
       /\ view' \in Seq(EU!Waiting) /\ Len(view') = Len(view)
       /\ \A i \in 1 .. Len(view) : view'[i] = array'[i]
  /\ UNCHANGED <<size, expireIndex>>

\* That is what Requeue makes of it.
LEMMA Requeued ==
  ASSUME EU!Configured, EU!TypeOK,
         NEW matched, NEW late \in SUBSET EU!Exit, EU!Requeue(matched, late)
  PROVE  \E c \in 0 .. len, k \in Nat : RequeuedAs(c, k, matched, late)
<1> DEFINE S == EU!Stay(matched)
           k == EU!Cardinality(late)
<1>1. PICK place \in EU!Places(S), order \in EU!Bijection(1 .. k, late) :
        LET new == [i \in 1 .. k |-> [span |-> order[i], age |-> 0]]
        IN  EU!SetSlice(EU!Appended(EU!Deleted(place), Len(place), new), Len(place) + Len(new))
  BY Zenon DEF EU!Requeue
<1> DEFINE new == [i \in 1 .. k |-> [span |-> order[i], age |-> 0]]
<1>2. k \in Nat
  BY SpanFacts
<1>3. /\ order \in [1 .. k -> late]
      /\ \A i, j \in 1 .. k : order[i] = order[j] => i = j
      /\ \A s \in late : \E i \in 1 .. k : order[i] = s
  BY DEF EU!Bijection, EU!Injection, EU!IsInjective, EU!Surjection
<1>4. /\ len \in Nat /\ len <= Len(array) /\ Len(array) \in Nat
      /\ DOMAIN array = 1 .. Len(array)
      /\ \A i \in 1 .. Len(array) : array[i] \in EU!Waiting
      /\ aliased \in BOOLEAN /\ view \in Seq(EU!Waiting)
  BY DEF EU!TypeOK
<1>5. S \in SUBSET (1 .. len) /\ \A i \in 1 .. len : i \in S <=> array[i].span \notin matched
  BY DEF EU!Stay
<1> DEFINE c == EU!Cardinality(S)
<1> HIDE DEF S, k, c
<1>6. /\ c \in 0 .. len
      /\ place \in [1 .. c -> S]
      /\ \A i, j \in 1 .. c : place[i] = place[j] => i = j
      /\ \A p \in S : \E i \in 1 .. c : place[i] = p
      /\ S = 1 .. len => c = len /\ \A i \in 1 .. len : place[i] = i
  BY <1>4, <1>5, PlacesInOrder DEF c
<1>7. place \in Seq(S) /\ Len(place) = c /\ DOMAIN place = 1 .. c
  BY <1>6
<1>8. ASSUME NEW i \in 1 .. c
       PROVE  place[i] \in 1 .. len /\ array[place[i]].span \notin matched
  <2>1. place[i] \in S
    BY <1>6
  <2> QED
    BY <1>5, <2>1
<1>9. /\ new \in Seq(EU!Waiting) /\ Len(new) = k
      /\ \A i \in 1 .. k : new[i].span = order[i]
  <2>1. ExpireTime \in Nat
    BY SpanFacts
  <2>2. \A i \in 1 .. k : [span |-> order[i], age |-> 0] \in EU!Waiting
    BY <1>3, <2>1 DEF EU!Waiting
  <2> QED
    BY <1>2, <2>2
<1> DEFINE cells == EU!Appended(EU!Deleted(place), c, new)
           top == IF Len(array) >= c + k THEN Len(array) ELSE c + k
<1> HIDE DEF new
<1>10. /\ cells \in Seq(EU!Waiting)
       /\ Len(cells) = top
       /\ \A i \in 1 .. c : cells[i] = array[place[i]]
       /\ \A i \in 1 .. k : cells[c + i] = new[i]
  <2>1. DOMAIN EU!Deleted(place) = 1 .. Len(array)
    BY <1>4 DEF EU!Deleted
  <2>2. \A i \in 1 .. c : EU!Deleted(place)[i] = array[place[i]]
    BY <1>4, <1>6, <1>7 DEF EU!Deleted
  <2>3. \A i \in 1 .. Len(array) : EU!Deleted(place)[i] \in EU!Waiting
    <3> SUFFICES ASSUME NEW i \in 1 .. Len(array)
                 PROVE  EU!Deleted(place)[i] \in EU!Waiting
      OBVIOUS
    <3>1. CASE i \in 1 .. c
      <4>1. place[i] \in 1 .. Len(array)
        BY <1>4, <1>8, <3>1
      <4> QED
        BY <1>4, <2>2, <3>1, <4>1
    <3>2. CASE i \notin 1 .. c /\ i \in 1 .. len
      <4>1. len \in 1 .. Len(array)
        BY <1>4, <3>2
      <4> QED
        BY <1>4, <1>7, <3>2, <4>1 DEF EU!Deleted
    <3>3. CASE i \notin 1 .. c /\ i \notin 1 .. len
      BY <1>4, <1>7, <3>3 DEF EU!Deleted
    <3> QED
      BY <3>1, <3>2, <3>3
  <2>4. DOMAIN cells = 1 .. top
    BY <1>2, <1>4, <1>6, <1>9, <2>1 DEF EU!Appended
  <2>5. /\ \A i \in 1 .. c : cells[i] = array[place[i]]
        /\ \A i \in 1 .. k : cells[c + i] = new[i]
    BY <1>2, <1>4, <1>6, <1>9, <2>1, <2>2 DEF EU!Appended
  <2>6. \A i \in 1 .. top : cells[i] \in EU!Waiting
    BY <1>2, <1>4, <1>6, <1>9, <2>1, <2>3 DEF EU!Appended
  <2>7. cells = [i \in 1 .. top |-> cells[i]]
    BY <2>4 DEF EU!Appended
  <2>8. top \in Nat
    BY <1>2, <1>4, <1>6
  <2> HIDE DEF cells, top
  <2>9. cells \in [1 .. top -> EU!Waiting]
    BY <2>6, <2>7
  <2> QED
    BY <2>5, <2>8, <2>9
<1>11. EU!SetSlice(cells, c + k)
  BY <1>1, <1>7, <1>9 DEF new
<1> HIDE DEF cells
<1>12. c + k \in Nat /\ c + k <= Len(cells) /\ Len(array) <= Len(cells) /\ Len(cells) \in Nat
  BY <1>2, <1>4, <1>6, <1>10
<1>13. /\ array' \in Seq(EU!Waiting)
       /\ len' = c + k /\ len' <= Len(array')
       /\ EU!Reading => array' = cells
       /\ \A i \in 1 .. c + k : array'[i] = cells[i]
  BY <1>10, <1>11, <1>12 DEF EU!SetSlice
<1>14. \A i \in 1 .. c : array'[i] = array[place[i]]
  BY <1>2, <1>6, <1>10, <1>13
<1>15. ASSUME \A i \in 1 .. len : array[i].span \notin matched
       PROVE  c = len /\ \A i \in 1 .. len : array'[i] = array[i]
  BY <1>5, <1>6, <1>14, <1>15
<1>16. ASSUME NEW i \in 1 .. k
       PROVE  array'[c + i].span = order[i]
  <2>1. c + i \in 1 .. c + k
    BY <1>2, <1>4, <1>6
  <2>2. cells[c + i] = new[i]
    BY <1>10
  <2> QED
    BY <1>9, <1>13, <2>1, <2>2
<1>17. \A i \in c + 1 .. len' : i - c \in 1 .. k /\ array'[i].span = order[i - c]
  BY <1>2, <1>4, <1>6, <1>13, <1>16
<1>18. /\ \A i \in c + 1 .. len' : array'[i].span \in late
       /\ \A i, j \in c + 1 .. len' : array'[i].span = array'[j].span => i = j
  BY <1>2, <1>3, <1>6, <1>13, <1>17
<1>19. \A s \in late : \E i \in c + 1 .. len' : array'[i].span = s
  <2> SUFFICES ASSUME NEW s \in late
               PROVE  \E i \in c + 1 .. len' : array'[i].span = s
    OBVIOUS
  <2>1. PICK i \in 1 .. k : order[i] = s
    BY <1>3
  <2>2. c + i \in c + 1 .. len'
    BY <1>2, <1>6, <1>13
  <2> QED
    BY <1>16, <2>1, <2>2
<1>20. /\ aliased' \in BOOLEAN /\ (~ aliased => ~ aliased')
       /\ ~ aliased => view' = view
       /\ UNCHANGED <<size, expireIndex>>
  BY <1>4, <1>11 DEF EU!SetSlice
<1>21. ASSUME aliased, EU!Reading, Len(view) <= Len(array)
       PROVE  /\ view' \in Seq(EU!Waiting) /\ Len(view') = Len(view)
              /\ \A i \in 1 .. Len(view) : view'[i] = array'[i]
  <2>1. Len(view) \in Nat /\ Len(view) <= Len(cells)
    BY <1>4, <1>12, <1>21
  <2> QED
    BY <1>10, <1>11, <1>13, <1>21, <2>1 DEF EU!SetSlice
<1>22. EU!Reading => Len(array') >= Len(array)
  BY <1>12, <1>13
<1>23. \A p \in 1 .. len : array[p].span \notin matched => \E i \in 1 .. c : place[i] = p
  BY <1>5, <1>6
<1> c \in 0 .. len /\ k \in Nat
  BY <1>2, <1>6
<1> place \in [1 .. c -> 1 .. len]
  BY <1>6, <1>8
<1> WITNESS c \in 0 .. len, k \in Nat
<1> QED
  <2>1. \E q \in [1 .. c -> 1 .. len] :
                /\ \A i \in 1 .. c : array'[i] = array[q[i]] /\ array[q[i]].span \notin matched
                /\ \A i, j \in 1 .. c : q[i] = q[j] => i = j
                /\ \A p \in 1 .. len : array[p].span \notin matched => \E i \in 1 .. c : q[i] = p
    <3> WITNESS place \in [1 .. c -> 1 .. len]
    <3> QED
      BY <1>6, <1>14, <1>8, <1>23
  <2> QED
    BY <1>13, <1>15, <1>18, <1>19, <1>20, <1>21, <1>22, <2>1 DEF RequeuedAs

\* Exit spans wait.
LEMMA WaitingPlaces ==
  ASSUME EU!TypeOK
  PROVE  /\ len \in Nat /\ len <= Len(array) /\ Len(array) \in Nat
         /\ \A i \in 1 .. Len(array) : array[i] \in EU!Waiting
         /\ \A i \in 1 .. len : array[i].span \in EU!Exit
<1>1. /\ len \in Nat /\ len <= Len(array) /\ Len(array) \in Nat
      /\ \A i \in 1 .. Len(array) : array[i] \in EU!Waiting
  BY DEF EU!TypeOK
<1> QED
  BY <1>1 DEF EU!Waiting

\* The elements of a slice.
LEMMA SliceElements ==
  ASSUME NEW a \in Seq(EU!Waiting), NEW n \in 0 .. Len(a)
  PROVE  \A w : w \in EU!Range(SubSeq(a, 1, n)) <=> \E i \in 1 .. n : w = a[i]
<1>1. Len(a) \in Nat /\ DOMAIN SubSeq(a, 1, n) = 1 .. n
  OBVIOUS
<1>2. \A i \in 1 .. n : SubSeq(a, 1, n)[i] = a[i]
  BY <1>1
<1> QED
  BY <1>1, <1>2, Zenon DEF EU!Range

\* The matched spans are the waiting ones whose url is found.
LEMMA MatchedSpans ==
  ASSUME EU!TypeOK, NEW m, NEW batch
  PROVE  \A s : s \in EU!Matched(m, batch)
                <=> (\E i \in 1 .. len : array[i].span = s) /\ EU!Found(m, batch, s)
<1>1. \A w : w \in EU!Range(EU!Slice) <=> \E i \in 1 .. len : w = array[i]
  BY SliceElements DEF EU!TypeOK, EU!Slice
<1> QED
  BY <1>1, ZenonT(40) DEF EU!Matched

\* A span waits in vain if the url of a place of the slice is known.
LEMMA VainPlaces ==
  ASSUME EU!TypeOK
  PROVE  EU!NoneWaitsInVain <=>
           \A i \in 1 .. len : TraceOf[array[i].span] \in DOMAIN entryUrlMap
                                 => EU!UrlIn(entryUrlMap, array[i].span) = NoSpan
<1>1. \A w : w \in EU!Range(EU!Slice) <=> \E i \in 1 .. len : w = array[i]
  BY SliceElements DEF EU!TypeOK, EU!Slice
<1>2. EU!NoneWaitsInVain <=>
        \A w \in EU!Range(EU!Slice) : TraceOf[w.span] \in DOMAIN entryUrlMap
                                          => EU!UrlIn(entryUrlMap, w.span) = NoSpan
  BY DEF EU!NoneWaitsInVain
<1> QED
  BY <1>1, <1>2

\* The same of the state after a step.
LEMMA VainPlacesAfter ==
  ASSUME EU!TypeOK'
  PROVE  EU!NoneWaitsInVain' <=>
           \A i \in 1 .. len' : TraceOf[array'[i].span] \in DOMAIN entryUrlMap'
                                 => EU!UrlIn(entryUrlMap', array'[i].span) = NoSpan
<1>1. \A w : w \in EU!Range(EU!Slice') <=> \E i \in 1 .. len' : w = array'[i]
  BY SliceElements DEF EU!TypeOK, EU!Slice
<1>2. EU!NoneWaitsInVain' <=>
        \A w \in EU!Range(EU!Slice') : TraceOf[w.span] \in DOMAIN entryUrlMap'
                                          => EU!UrlIn(entryUrlMap', w.span) = NoSpan
  BY DEF EU!NoneWaitsInVain
<1> QED
  BY <1>1, <1>2

\* Recording a batch adds to mappings and leaves those of other traces alone.
LEMMA RecordedMappings ==
  ASSUME EU!Configured, EU!TypeOK, NEW batch \in SUBSET TraceSpan
  PROVE  LET m == EU!Recorded(batch)
         IN  /\ DOMAIN m = DOMAIN entryUrlMap \cup {TraceOf[s] : s \in batch}
             /\ DOMAIN m \subseteq Trace
             /\ \A t \in DOMAIN m : m[t] \in SUBSET (TraceSpan \ EU!Exit)
             /\ \A t \in DOMAIN m : EU!OfTrace(batch, t) = {}
                  => t \in DOMAIN entryUrlMap /\ m[t] = entryUrlMap[t]
<1> DEFINE m == EU!Recorded(batch)
<1>1. DOMAIN m = DOMAIN entryUrlMap \cup {TraceOf[s] : s \in batch}
  BY DEF EU!Recorded
<1>2. DOMAIN m \subseteq Trace
  BY <1>1, SpanFacts DEF EU!TypeOK
<1>3. \A t \in DOMAIN m : m[t] \in SUBSET (TraceSpan \ EU!Exit)
  BY DEF EU!Recorded, EU!AddMapping, EU!OfTrace, EU!TypeOK
<1>4. ASSUME NEW t \in DOMAIN m, EU!OfTrace(batch, t) = {}
      PROVE  t \in DOMAIN entryUrlMap /\ m[t] = entryUrlMap[t]
  <2>1. t \in DOMAIN entryUrlMap
    BY <1>1, <1>4 DEF EU!OfTrace
  <2> QED
    BY <1>4, <2>1 DEF EU!Recorded, EU!AddMapping
<1> QED
  BY <1>1, <1>2, <1>3, <1>4

\* What is handed out is counted under an entry or under itself.
LEMMA NamesOfHandedOut ==
  ASSUME EU!Configured, EU!TypeOK, NEW batch \in SUBSET TraceSpan,
         NEW s \in EU!HandedOut(EU!Recorded(batch), batch)
  PROVE  EU!NameOf(EU!Recorded(batch), s) \in EU!Entry \cup EU!Exit
<1> DEFINE m == EU!Recorded(batch)
<1>1. ASSUME s \in EU!Exit, ParentOf[s] # NoSpan, TraceOf[s] \in DOMAIN m, EU!UrlIn(m, s) # NoSpan
      PROVE  EU!NameOf(m, s) \in EU!Entry \cup EU!Exit
  <2>1. m[TraceOf[s]] \in SUBSET TraceSpan
    BY <1>1, RecordedMappings
  <2>2. ParentOf[s] \in TraceSpan \cup {NoSpan}
    BY <1>1, SpanFacts
  <2>3. EU!UrlIn(m, s) \in EU!Entry \cup {NoSpan}
    BY <2>1, <2>2, EntryFound DEF EU!UrlIn
  <2> QED
    BY <1>1, <2>3 DEF EU!NameOf
<1>2. CASE s \in EU!Matched(m, batch)
  <2>1. PICK i \in 1 .. len : array[i].span = s
    BY <1>2, MatchedSpans
  <2>2. EU!Found(m, batch, s)
    BY <1>2, MatchedSpans
  <2>3. s \in EU!Exit
    BY <2>1, WaitingPlaces
  <2>4. TraceOf[s] \in DOMAIN m /\ EU!UrlIn(m, s) # NoSpan
    BY <2>2 DEF EU!Found, EU!OfTrace, EU!Recorded
  <2> QED
    BY <1>1, <2>3, <2>4 DEF EU!NameOf
<1>3. CASE s \in (batch \cap Attributed \cap (EU!Entry \cup EU!Exit)) \ EU!Late(m, batch)
  <2>1. TraceOf[s] \in DOMAIN m
    BY <1>3, RecordedMappings
  <2> QED
    BY <1>1, <1>3, <2>1 DEF EU!NameOf, EU!Late
<1> QED
  BY <1>2, <1>3 DEF EU!HandedOut

-----------------------------------------------------------------------------
(***************************************************************************)
(* The steps on the mappings and their lists.                              *)
(***************************************************************************)

\* A batch lists the traces that are new.
LEMMA ConsumeMapping ==
  ASSUME EU!Configured, EU!TypeOK, EU!MappingInv, NEW batch \in SUBSET TraceSpan,
         EU!Consume(batch)
  PROVE  EU!MappingInv'
<1> DEFINE m == EU!Recorded(batch)
<1>1. /\ entryUrlMap' = m
      /\ held' = [t \in DOMAIN m |-> IF t \in DOMAIN held THEN held[t] ELSE 0]
      /\ idBatch' = idBatch \cup (DOMAIN m \ DOMAIN entryUrlMap)
      /\ UNCHANGED <<idBuckets, writeIndex, toCleanIds, cleanTick>>
  BY DEF EU!Consume
<1>2. DOMAIN entryUrlMap \subseteq DOMAIN m
  BY DEF EU!Recorded
<1>3. DOMAIN held = DOMAIN entryUrlMap
  BY DEF EU!TypeOK
<1> HIDE DEF m
<1>4. /\ DOMAIN entryUrlMap' = DOMAIN m
      /\ \A t \in DOMAIN entryUrlMap : held'[t] = held[t]
      /\ \A t \in DOMAIN m \ DOMAIN entryUrlMap : held'[t] = 0
  BY <1>1, <1>2, <1>3
<1>5. EU!MappingsListed'
  BY <1>1, <1>4 DEF EU!MappingInv, EU!MappingsListed
<1>6. \A i : EU!Picked(i)' = EU!Picked(i)
  BY <1>1 DEF EU!Picked
<1>7. EU!ListedByAge'
  BY <1>1, <1>2, <1>4, <1>6 DEF EU!MappingInv, EU!ListedByAge
<1> QED
  BY <1>5, <1>7 DEF EU!MappingInv

\* A tick ages the lists by one and takes the list that is full of days.
LEMMA CleanMapping ==
  ASSUME EU!Configured, EU!TypeOK, EU!MappingInv, EU!CleanExpireBuckets
  PROVE  /\ EU!MappingInv'
         /\ writeIndex' \in 0 .. CacheUrlTime
         /\ idBuckets' \in [0 .. CacheUrlTime -> SUBSET Trace]
         /\ toCleanIds' \subseteq Trace
         /\ held' \in [DOMAIN entryUrlMap -> 0 .. CacheUrlTime + 1]
<1> DEFINE C == CacheUrlTime
           w == writeIndex
           n == EU!NextIndex
           buckets == [idBuckets EXCEPT ![w] = idBatch]
<1>1. C \in Nat /\ w \in 0 .. C /\ n = (IF w = C THEN 0 ELSE w + 1) /\ n \in 0 .. C
  BY SpanFacts DEF EU!TypeOK, EU!NextIndex
<1>2. /\ idBuckets \in [0 .. C -> SUBSET Trace] /\ idBatch \subseteq Trace
      /\ DOMAIN held = DOMAIN entryUrlMap
      /\ \A t \in DOMAIN entryUrlMap : held[t] \in 0 .. C + 1
  BY DEF EU!TypeOK
<1>3. buckets \in [0 .. C -> SUBSET Trace]
  BY <1>1, <1>2
<1>4. /\ toCleanIds' = buckets[n]
      /\ idBuckets' = [buckets EXCEPT ![n] = {}]
      /\ writeIndex' = n
      /\ idBatch' = {}
      /\ held' = [t \in DOMAIN held |-> held[t] + 1]
      /\ cleanTick = "idle"
      /\ cleanTick' = IF toCleanIds' = {} THEN "begin" ELSE "delete"
      /\ UNCHANGED entryUrlMap
  BY DEF EU!CleanExpireBuckets, EU!PickBatch, EU!CopyAndGetBatch, EU!Emptied
<1>5. toCleanIds = {}
  BY <1>4 DEF EU!MappingInv, EU!ListedByAge
<1>6. /\ \A t \in idBatch : t \in DOMAIN entryUrlMap /\ held[t] = 0
      /\ \A i \in 0 .. C : \A t \in idBuckets[i] :
           i # w /\ t \in DOMAIN entryUrlMap /\ held[t] = EU!Picked(i)
  BY DEF EU!MappingInv, EU!ListedByAge
<1> HIDE DEF n, buckets
\* The ids of a bucket after the batch was put into the one written to.
<1>7. ASSUME NEW i \in 0 .. C, NEW t \in buckets[i]
      PROVE  /\ t \in DOMAIN entryUrlMap
             /\ i = w => held[t] = 0
             /\ i # w => held[t] = EU!Picked(i)
  BY <1>1, <1>2, <1>6, <1>7 DEF buckets
<1>8. \A i \in 0 .. C : idBuckets'[i] = IF i = n THEN {} ELSE buckets[i]
  BY <1>1, <1>3, <1>4
<1>9. \A t \in DOMAIN entryUrlMap : held'[t] = held[t] + 1
  BY <1>2, <1>4
<1>10. \A t \in toCleanIds' : t \in DOMAIN entryUrlMap /\ held'[t] = C + 1
  <2> SUFFICES ASSUME NEW t \in buckets[n]
               PROVE  t \in DOMAIN entryUrlMap /\ held[t] + 1 = C + 1
    BY <1>4, <1>9
  <2>1. n # w => EU!Picked(n) = C
    BY <1>1 DEF EU!Picked
  <2>2. n = w => C = 0
    BY <1>1
  <2> QED
    BY <1>1, <1>7, <2>1, <2>2
<1>11. \A i \in 0 .. C : \A t \in idBuckets'[i] :
         i # n /\ t \in DOMAIN entryUrlMap /\ held'[t] = EU!Picked(i)'
  <2> SUFFICES ASSUME NEW i \in 0 .. C, i # n, NEW t \in buckets[i]
               PROVE  t \in DOMAIN entryUrlMap /\ held[t] + 1 = EU!Picked(i)'
    BY <1>8, <1>9
  <2>1. EU!Picked(i)' = IF i < n THEN n - i ELSE n - i + C + 1
    BY <1>4 DEF EU!Picked
  <2>2. i = w => EU!Picked(i)' = 1
    BY <1>1, <2>1
  <2>3. i # w => EU!Picked(i)' = EU!Picked(i) + 1
    BY <1>1, <2>1 DEF EU!Picked
  <2> QED
    BY <1>7, <2>2, <2>3
<1>12. EU!ListedByAge'
  BY <1>4, <1>10, <1>11 DEF EU!ListedByAge
<1>13. EU!MappingsListed'
  <2> SUFFICES ASSUME NEW t \in DOMAIN entryUrlMap
               PROVE  t \in toCleanIds' \/ \E i \in 0 .. C : t \in idBuckets'[i]
    BY <1>4 DEF EU!MappingsListed
  <2>1. \E i \in 0 .. C : t \in buckets[i]
    <3>1. CASE t \in idBatch
      BY <1>1, <1>2, <3>1 DEF buckets
    <3>2. CASE \E i \in 0 .. C : t \in idBuckets[i]
      BY <1>1, <1>2, <1>6, <3>2 DEF buckets
    <3> QED
      BY <1>5, <3>1, <3>2 DEF EU!MappingInv, EU!MappingsListed
  <2> QED
    BY <1>4, <1>8, <2>1
<1>14. held' \in [DOMAIN entryUrlMap -> 0 .. C + 1]
  <2> SUFFICES ASSUME NEW t \in DOMAIN entryUrlMap
               PROVE  held[t] + 1 \in 0 .. C + 1
    BY <1>2, <1>4
  <2>1. held[t] <= C
    BY <1>1, <1>2, <1>5, <1>6 DEF EU!MappingInv, EU!MappingsListed, EU!Picked
  <2> QED
    BY <1>1, <1>2, <2>1
<1>15. /\ idBuckets' \in [0 .. C -> SUBSET Trace]
       /\ toCleanIds' \subseteq Trace
  BY <1>1, <1>3, <1>4
<1> QED
  BY <1>1, <1>4, <1>12, <1>13, <1>14, <1>15 DEF EU!MappingInv, n

\* The mappings that are deleted were listed for it alone.
LEMMA DeleteMapping ==
  ASSUME EU!Configured, EU!TypeOK, EU!MappingInv, EU!DeleteMappings
  PROVE  /\ EU!MappingInv'
         /\ \A t \in DOMAIN entryUrlMap : t \notin DOMAIN entryUrlMap' => held[t] = CacheUrlTime + 1
<1> DEFINE C == CacheUrlTime
<1>1. C \in Nat /\ writeIndex \in 0 .. C
  BY SpanFacts DEF EU!TypeOK
<1>2. /\ DOMAIN entryUrlMap' = DOMAIN entryUrlMap \ toCleanIds
      /\ \A t \in DOMAIN entryUrlMap \ toCleanIds : held'[t] = held[t]
      /\ toCleanIds' = {}
      /\ UNCHANGED <<idBatch, idBuckets, writeIndex>>
  BY DEF EU!DeleteMappings, EU!Kept
<1>3. /\ \A t \in idBatch : t \in DOMAIN entryUrlMap /\ held[t] = 0
      /\ \A i \in 0 .. C : \A t \in idBuckets[i] :
           i # writeIndex /\ t \in DOMAIN entryUrlMap /\ held[t] = EU!Picked(i)
      /\ \A t \in toCleanIds : t \in DOMAIN entryUrlMap /\ held[t] = C + 1
  BY DEF EU!MappingInv, EU!ListedByAge
<1>4. \A i \in 0 .. C : i # writeIndex => EU!Picked(i) # C + 1
  BY <1>1 DEF EU!Picked
<1>5. idBatch \cap toCleanIds = {} /\ \A i \in 0 .. C : idBuckets[i] \cap toCleanIds = {}
  BY <1>1, <1>3, <1>4
<1>6. \A i : EU!Picked(i)' = EU!Picked(i)
  BY <1>2 DEF EU!Picked
<1>7. EU!ListedByAge'
  BY <1>2, <1>3, <1>5, <1>6 DEF EU!ListedByAge
<1>8. EU!MappingsListed'
  BY <1>2 DEF EU!MappingInv, EU!MappingsListed
<1> QED
  BY <1>2, <1>3, <1>7, <1>8 DEF EU!MappingInv

\* Nothing else touches them.
LEMMA OtherMapping ==
  ASSUME EU!MappingInv, UNCHANGED EU!mapVars, cleanTick = "delete" => cleanTick' = "delete"
  PROVE  EU!MappingInv'
<1>1. \A i : EU!Picked(i)' = EU!Picked(i)
  BY DEF EU!Picked, EU!mapVars
<1> QED
  BY <1>1 DEF EU!MappingInv, EU!MappingsListed, EU!ListedByAge, EU!mapVars

-----------------------------------------------------------------------------
(***************************************************************************)
(* The steps on the queue.                                                 *)
(***************************************************************************)

\* What the tick has read while a batch comes.
LEMMA ReadFacts ==
  ASSUME EU!TypeOK, EU!ReadsAhead, cleanTick # "panic"
  PROVE  /\ size \in Nat /\ expireIndex \in Nat /\ expireIndex <= size
         /\ Len(view) \in Nat
         /\ EU!Reading => size <= Len(array)
         /\ aliased => cleanTick = "cut" /\ EU!Reading /\ Len(view) <= Len(array)
         /\ cleanTick # "cut" => view = << >> /\ ~ aliased
<1>1. size \in Nat /\ expireIndex \in Nat /\ expireIndex <= size /\ Len(view) \in Nat
      /\ Len(array) \in Nat /\ cleanTick \in {"idle", "delete", "begin", "scan", "view", "cut", "panic"}
  BY DEF EU!TypeOK
<1>2. cleanTick # "cut" => view = << >> /\ ~ aliased
  BY <1>1 DEF EU!ReadsAhead
<1>3. EU!Reading => size <= Len(array)
  BY DEF EU!ReadsAhead
<1>4. ASSUME cleanTick = "cut"
      PROVE  EU!Reading /\ Len(view) <= Len(array)
  <2>1. EU!Reading /\ Len(view) = expireIndex
    BY <1>4 DEF EU!ReadsAhead, EU!Reading
  <2> QED
    BY <1>1, <1>3, <2>1
<1> QED
  BY <1>1, <1>2, <1>3, <1>4

\* The types after a batch.
LEMMA ConsumeType ==
  ASSUME EU!Configured, EU!EntryUrlInv, NEW batch \in SUBSET TraceSpan, EU!Consume(batch)
  PROVE  EU!TypeOK'
<1> DEFINE m == EU!Recorded(batch)
<1>1. EU!TypeOK /\ EU!ReadsAhead
  BY DEF EU!EntryUrlInv, EU!QueueInv
<1>2. /\ DOMAIN m = DOMAIN entryUrlMap \cup {TraceOf[s] : s \in batch}
      /\ DOMAIN m \subseteq Trace
      /\ \A t \in DOMAIN m : m[t] \in SUBSET (TraceSpan \ EU!Exit)
  BY <1>1, RecordedMappings
<1>3. EU!Late(m, batch) \in SUBSET EU!Exit
  BY DEF EU!Late
<1>4. /\ EU!Requeue(EU!Matched(m, batch), EU!Late(m, batch))
      /\ cleanTick # "panic"
      /\ entryUrlMap' = m
      /\ held' = [t \in DOMAIN m |-> IF t \in DOMAIN held THEN held[t] ELSE 0]
      /\ idBatch' = idBatch \cup (DOMAIN m \ DOMAIN entryUrlMap)
      /\ arrived' = arrived \cup batch
      /\ raced' = (raced \/ (EU!Reading /\ EU!Matched(m, batch) # {}))
      /\ counted' = [s \in TraceSpan |-> IF s \in EU!HandedOut(m, batch)
                                         THEN Append(counted[s], EU!NameOf(m, s)) ELSE counted[s]]
      /\ UNCHANGED <<idBuckets, writeIndex, toCleanIds, cleanTick>>
  BY DEF EU!Consume
<1>5. \A s \in EU!HandedOut(m, batch) : EU!NameOf(m, s) \in EU!Entry \cup EU!Exit
  BY <1>1, NamesOfHandedOut
<1> HIDE DEF m
<1>6. PICK c \in 0 .. len, k \in Nat : RequeuedAs(c, k, EU!Matched(m, batch), EU!Late(m, batch))
  BY <1>1, <1>3, <1>4, Requeued
<1>7. /\ array' \in Seq(EU!Waiting)
      /\ len' = c + k /\ len' <= Len(array')
      /\ aliased' \in BOOLEAN
      /\ ~ aliased => view' = view
      /\ aliased /\ EU!Reading /\ Len(view) <= Len(array) => view' \in Seq(EU!Waiting)
      /\ UNCHANGED <<size, expireIndex>>
  BY <1>6 DEF RequeuedAs
<1>8. len' \in 0 .. Len(array') /\ view' \in Seq(EU!Waiting)
  <2>1. c \in Nat /\ len \in Nat
    BY <1>1, <1>6, WaitingPlaces
  <2> QED
    BY <1>1, <1>4, <1>6, <1>7, <2>1, ReadFacts DEF EU!TypeOK
<1>9. counted' \in [TraceSpan -> Seq(EU!Entry \cup EU!Exit \cup {Unknown})]
  <2> SUFFICES ASSUME NEW s \in TraceSpan
               PROVE  counted'[s] \in Seq(EU!Entry \cup EU!Exit \cup {Unknown})
    BY <1>4
  <2>1. counted[s] \in Seq(EU!Entry \cup EU!Exit \cup {Unknown})
    BY <1>1 DEF EU!TypeOK
  <2>2. CASE s \in EU!HandedOut(m, batch)
    <3> DEFINE U == EU!Entry \cup EU!Exit \cup {Unknown}
               name == EU!NameOf(m, s)
    <3>1. name \in U /\ counted'[s] = Append(counted[s], name)
      BY <1>4, <1>5, <2>2
    <3>2. counted[s] \in Seq(U)
      BY <2>1
    <3> HIDE DEF U, name
    <3>3. counted'[s] \in Seq(U)
      BY <3>1, <3>2
    <3> QED
      BY <3>3 DEF U
  <2>3. CASE s \notin EU!HandedOut(m, batch)
    BY <1>4, <2>1, <2>3
  <2> QED
    BY <2>2, <2>3
<1>10. held' \in [DOMAIN entryUrlMap' -> 0 .. CacheUrlTime + 1]
  <2>1. held \in [DOMAIN entryUrlMap -> 0 .. CacheUrlTime + 1] /\ CacheUrlTime \in Nat
    BY <1>1, SpanFacts DEF EU!TypeOK
  <2> QED
    BY <1>4, <2>1
<1>11. /\ DOMAIN entryUrlMap' \subseteq Trace
       /\ \A t \in DOMAIN entryUrlMap' : entryUrlMap'[t] \subseteq TraceSpan \ EU!Exit
       /\ idBatch' \subseteq Trace
  BY <1>1, <1>2, <1>4 DEF EU!TypeOK
<1>12. raced' \in BOOLEAN
  BY <1>1, <1>4 DEF EU!TypeOK
<1>13. /\ size' \in Nat /\ expireIndex' \in 0 .. size' /\ aliased' \in BOOLEAN
       /\ arrived' \subseteq TraceSpan
       /\ idBuckets' \in [0 .. CacheUrlTime -> SUBSET Trace]
       /\ writeIndex' \in 0 .. CacheUrlTime
       /\ toCleanIds' \subseteq Trace
       /\ cleanTick' \in {"idle", "delete", "begin", "scan", "view", "cut", "panic"}
  BY <1>1, <1>4, <1>7 DEF EU!TypeOK
<1> QED
  BY <1>7, <1>8, <1>9, <1>10, <1>11, <1>12, <1>13 DEF EU!TypeOK

\* The queue after a batch is as good as before it.
LEMMA ConsumeQueue ==
  ASSUME EU!Configured, EU!EntryUrlInv, NEW batch \in SUBSET TraceSpan, EU!Consume(batch)
  PROVE  EU!QueueInv'
<1> DEFINE m == EU!Recorded(batch)
           matched == EU!Matched(m, batch)
           late == EU!Late(m, batch)
           out == EU!HandedOut(m, batch)
<1>1. EU!TypeOK /\ EU!ReadsAhead /\ EU!WaitingOnce /\ EU!CountedOrWaits /\ EU!NoneWaitsInVain
  BY DEF EU!EntryUrlInv, EU!QueueInv
<1>2. late \in SUBSET EU!Exit /\ late \subseteq batch \cap Attributed
  BY DEF EU!Late
<1>3. /\ EU!Requeue(matched, late)
      /\ cleanTick # "panic" /\ cleanTick' = cleanTick
      /\ batch \cap arrived = {}
      /\ entryUrlMap' = m
      /\ arrived' = arrived \cup batch
      /\ raced' = (raced \/ (EU!Reading /\ matched # {}))
      /\ counted' = [s \in TraceSpan |-> IF s \in out
                                         THEN Append(counted[s], EU!NameOf(m, s)) ELSE counted[s]]
  BY DEF EU!Consume
<1>4. PICK c \in 0 .. len, k \in Nat : RequeuedAs(c, k, matched, late)
  BY <1>1, <1>2, <1>3, Requeued
<1>5. EU!TypeOK'
  BY ConsumeType
<1>6. c \in Nat /\ len \in Nat /\ c <= len /\ len' = c + k /\ len' \in Nat
  BY <1>1, <1>4, WaitingPlaces DEF RequeuedAs
<1>7. PICK place \in [1 .. c -> 1 .. len] :
        /\ \A i \in 1 .. c : array'[i] = array[place[i]] /\ array[place[i]].span \notin matched
        /\ \A i, j \in 1 .. c : place[i] = place[j] => i = j
        /\ \A p \in 1 .. len : array[p].span \notin matched => \E i \in 1 .. c : place[i] = p
  BY <1>4 DEF RequeuedAs
<1>8. /\ \A i \in c + 1 .. len' : array'[i].span \in late
      /\ \A i, j \in c + 1 .. len' : array'[i].span = array'[j].span => i = j
      /\ \A s \in late : \E i \in c + 1 .. len' : array'[i].span = s
  BY <1>4 DEF RequeuedAs
<1>9. \A s : s \in matched <=> (\E i \in 1 .. len : array[i].span = s) /\ EU!Found(m, batch, s)
  BY <1>1, MatchedSpans
<1>10. \A i \in 1 .. len : array[i].span \in arrived /\ array[i].span \in Attributed
                           /\ array[i].span \in EU!Exit
  BY <1>1, WaitingPlaces DEF EU!WaitingOnce
<1>11. \A i \in 1 .. len' : i \in 1 .. c \/ i \in c + 1 .. len'
  BY <1>6
<1>12. \A i \in 1 .. c : place[i] \in 1 .. len /\ array'[i].span = array[place[i]].span
                         /\ array'[i].span \in arrived
  BY <1>7, <1>10
<1>13. /\ out = matched \cup ((batch \cap Attributed \cap (EU!Entry \cup EU!Exit)) \ late)
       /\ EU!Entry \subseteq TraceSpan /\ EU!Exit \subseteq TraceSpan
  BY SpanFacts DEF EU!HandedOut
<1>14. EU!Reading' = EU!Reading
  BY <1>3 DEF EU!Reading
<1>15. EU!NoneWaitsInVain'
  <2> SUFFICES ASSUME NEW i \in 1 .. len', TraceOf[array'[i].span] \in DOMAIN m
               PROVE  EU!UrlIn(m, array'[i].span) = NoSpan
    BY <1>3, <1>5, VainPlacesAfter
  <2>1. CASE i \in c + 1 .. len'
    BY <1>8, <2>1 DEF EU!Late
  <2>2. CASE i \in 1 .. c
    <3> DEFINE s == array'[i].span
    <3>1. s = array[place[i]].span /\ s \notin matched /\ place[i] \in 1 .. len
      BY <1>7, <1>12, <2>2
    <3>2. ~ EU!Found(m, batch, s)
      BY <1>9, <3>1
    <3>3. CASE EU!OfTrace(batch, TraceOf[s]) = {}
      <4>1. TraceOf[s] \in DOMAIN entryUrlMap /\ m[TraceOf[s]] = entryUrlMap[TraceOf[s]]
        BY <1>1, <3>3, RecordedMappings
      <4>2. EU!UrlIn(entryUrlMap, s) = NoSpan
        BY <1>1, <3>1, <4>1, VainPlaces
      <4> QED
        BY <4>1, <4>2 DEF EU!UrlIn
    <3> QED
      BY <3>2, <3>3 DEF EU!Found
  <2> QED
    BY <1>11, <2>1, <2>2
<1> HIDE DEF m, matched, late, out
<1>16. EU!WaitingOnce'
  <2>1. ASSUME NEW i \in 1 .. len', NEW j \in 1 .. len', array'[i].span = array'[j].span
        PROVE  i = j
    <3>1. CASE i \in 1 .. c /\ j \in 1 .. c
      <4>1. array[place[i]].span = array[place[j]].span
        BY <1>12, <2>1, <3>1
      <4>2. place[i] = place[j]
        BY <1>1, <1>12, <3>1, <4>1 DEF EU!WaitingOnce
      <4> QED
        BY <1>7, <3>1, <4>2
    <3>2. CASE i \in c + 1 .. len' /\ j \in c + 1 .. len'
      BY <1>8, <2>1, <3>2
    <3>3. CASE i \in 1 .. c /\ j \in c + 1 .. len'
      BY <1>2, <1>3, <1>8, <1>12, <2>1, <3>3
    <3>4. CASE j \in 1 .. c /\ i \in c + 1 .. len'
      BY <1>2, <1>3, <1>8, <1>12, <2>1, <3>4
    <3> QED
      BY <1>11, <3>1, <3>2, <3>3, <3>4
  <2>2. ASSUME NEW i \in 1 .. len'
        PROVE  array'[i].span \in arrived' \cap Attributed
    <3>1. CASE i \in 1 .. c
      BY <1>3, <1>10, <1>12, <3>1
    <3>2. CASE i \in c + 1 .. len'
      BY <1>2, <1>3, <1>8, <3>2
    <3> QED
      BY <1>11, <3>1, <3>2
  <2> QED
    BY <2>1, <2>2 DEF EU!WaitingOnce
<1>17. ASSUME EU!Reading, ~ raced'
       PROVE  ~ raced /\ c = len /\ \A i \in 1 .. len : array'[i] = array[i]
  <2>1. ~ raced /\ matched = {}
    BY <1>3, <1>17
  <2> QED
    BY <1>4, <2>1 DEF RequeuedAs
<1>18. EU!ReadsAhead'
  <2>1. /\ size \in Nat /\ expireIndex \in Nat /\ expireIndex <= size
        /\ EU!Reading => size <= Len(array)
        /\ aliased => EU!Reading /\ Len(view) <= Len(array)
        /\ cleanTick # "cut" => view = << >> /\ ~ aliased
    BY <1>1, <1>3, ReadFacts
  <2>2. /\ size' = size /\ expireIndex' = expireIndex
        /\ EU!Reading => Len(array') >= Len(array)
        /\ ~ aliased => view' = view /\ ~ aliased'
        /\ aliased /\ EU!Reading /\ Len(view) <= Len(array) =>
             Len(view') = Len(view) /\ \A i \in 1 .. Len(view) : view'[i] = array'[i]
    BY <1>4 DEF RequeuedAs
  <2>3. Len(array) \in Nat /\ Len(array') \in Nat
    BY <1>1, <1>5 DEF EU!TypeOK
  <2>4. EU!Reading => size' <= Len(array')
    BY <2>1, <2>2, <2>3
  <2>5. ASSUME EU!Reading, ~ raced'
        PROVE  size' <= len' /\ size <= len
    BY <1>1, <1>6, <1>17, <2>1, <2>2, <2>5 DEF EU!ReadsAhead
  <2>6. cleanTick' # "cut" => view' = << >> /\ ~ aliased'
    BY <1>3, <2>1, <2>2
  <2>7. ASSUME cleanTick = "cut"
        PROVE  /\ Len(view') = expireIndex'
               /\ ~ raced' => \A i \in 1 .. expireIndex' : view'[i].span = array'[i].span
    <3>1. EU!Reading /\ Len(view) = expireIndex
      BY <1>1, <2>7 DEF EU!Reading, EU!ReadsAhead
    <3>2. Len(view') = expireIndex'
      BY <2>1, <2>2, <3>1
    <3>3. ASSUME ~ raced', NEW i \in 1 .. expireIndex
          PROVE  view'[i].span = array'[i].span
      <4>1. CASE aliased
        BY <2>1, <2>2, <3>1, <4>1
      <4>2. CASE ~ aliased
        <5>1. i \in 1 .. len /\ array'[i] = array[i]
          BY <1>6, <1>17, <2>1, <2>5, <3>1, <3>3
        <5>2. view[i].span = array[i].span
          BY <1>1, <1>17, <2>7, <3>1, <3>3 DEF EU!ReadsAhead
        <5> QED
          BY <2>2, <4>2, <5>1, <5>2
      <4> QED
        BY <4>1, <4>2
    <3> QED
      BY <2>2, <3>2, <3>3
  <2> QED
    BY <1>3, <1>14, <2>4, <2>5, <2>6, <2>7 DEF EU!ReadsAhead
<1>19. EU!CountedOrWaits'
  <2> SUFFICES ASSUME ~ raced', NEW s \in TraceSpan
               PROVE  Len(counted'[s]) = IF s \in EU!Countable' /\ ~ EU!Waits(s)' THEN 1 ELSE 0
    BY DEF EU!CountedOrWaits
  <2> DEFINE kind == Attributed \cap (EU!Entry \cup EU!Exit)
  <2>1. /\ s \in EU!Countable <=> s \in arrived /\ s \in kind
        /\ s \in EU!Countable' <=> s \in arrived \cup batch /\ s \in kind
    BY <1>3 DEF EU!Countable
  <2>2. ~ raced
    BY <1>3
  <2>3. Len(counted[s]) = IF s \in EU!Countable /\ ~ EU!Waits(s) THEN 1 ELSE 0
    BY <1>1, <2>2 DEF EU!CountedOrWaits
  <2>4. counted'[s] = IF s \in out THEN Append(counted[s], EU!NameOf(m, s)) ELSE counted[s]
    BY <1>3
  <2>5. Len(counted'[s]) = IF s \in out THEN Len(counted[s]) + 1 ELSE Len(counted[s])
    <3> DEFINE name == EU!NameOf(m, s)
    <3>1. counted[s] \in Seq(EU!Entry \cup EU!Exit \cup {Unknown})
      BY <1>1 DEF EU!TypeOK
    <3>2. s \in out => counted'[s] = Append(counted[s], name)
      BY <2>4
    <3> HIDE DEF name
    <3> QED
      BY <2>4, <3>1, <3>2
  <2>6. EU!Waits(s) => s \in arrived /\ s \in kind
    BY <1>10 DEF EU!Waits
  <2>7. s \in matched => EU!Waits(s)
    BY <1>9 DEF EU!Waits
  <2>8. EU!Waits(s)' <=> (EU!Waits(s) /\ s \notin matched) \/ s \in late
    <3>1. ASSUME EU!Waits(s)'
          PROVE  (EU!Waits(s) /\ s \notin matched) \/ s \in late
      <4>1. PICK i \in 1 .. len' : array'[i].span = s
        BY <3>1 DEF EU!Waits
      <4>2. CASE i \in 1 .. c
        BY <1>7, <1>12, <4>1, <4>2 DEF EU!Waits
      <4>3. CASE i \in c + 1 .. len'
        BY <1>8, <4>1, <4>3
      <4> QED
        BY <1>11, <4>2, <4>3
    <3>2. ASSUME EU!Waits(s), s \notin matched
          PROVE  EU!Waits(s)'
      <4>1. PICK p \in 1 .. len : array[p].span = s
        BY <3>2 DEF EU!Waits
      <4>2. PICK i \in 1 .. c : place[i] = p
        BY <1>7, <3>2, <4>1
      <4>3. i \in 1 .. len' /\ array'[i].span = s
        BY <1>6, <1>12, <4>1, <4>2
      <4> QED
        BY <4>3 DEF EU!Waits
    <3>3. ASSUME s \in late
          PROVE  EU!Waits(s)'
      <4>1. PICK i \in c + 1 .. len' : array'[i].span = s
        BY <1>8, <3>3
      <4>2. i \in 1 .. len'
        BY <1>6
      <4> QED
        BY <4>1, <4>2 DEF EU!Waits
    <3> QED
      BY <3>1, <3>2, <3>3
  <2>9. s \in late => s \in batch /\ s \in kind
    BY <1>2
  <2>10. s \in out <=> s \in matched \/ (s \in batch /\ s \in kind /\ s \notin late)
    BY <1>13
  <2>11. ~ (s \in batch /\ s \in arrived)
    BY <1>3
  <2> HIDE DEF kind
  <2> QED
    BY <2>1, <2>3, <2>5, <2>6, <2>7, <2>8, <2>9, <2>10, <2>11
<1> QED
  BY <1>15, <1>16, <1>18, <1>19 DEF EU!QueueInv

\* The steps of a tick that leave the queue alone, the time that passes, and
\* the scan.
LEMMA ReadingSteps ==
  ASSUME EU!Configured, EU!EntryUrlInv,
         \/ EU!CleanExpireBuckets \/ EU!DeleteMappings \/ EU!BeginScan \/ EU!ScanNext
         \/ EU!TakeView \/ EU!Second
         \/ EU!EndScan /\ expireIndex > 0
         \/ EU!Cut /\ expireIndex > len
  PROVE  /\ len' = len /\ len' \in 0 .. Len(array')
         /\ array' \in Seq(EU!Waiting) /\ view' \in Seq(EU!Waiting)
         /\ Len(array') = Len(array)
         /\ \A i \in 1 .. Len(array) : array'[i].span = array[i].span
         /\ size' \in Nat /\ expireIndex' \in 0 .. size' /\ aliased' \in BOOLEAN
         /\ cleanTick' \in {"idle", "delete", "begin", "scan", "view", "cut", "panic"}
         /\ UNCHANGED EU!observers
         /\ EU!ReadsAhead'
<1>1. EU!TypeOK /\ EU!ReadsAhead
  BY DEF EU!EntryUrlInv, EU!QueueInv
<1>2. /\ len \in 0 .. Len(array) /\ len \in Nat /\ Len(array) \in Nat
      /\ array \in Seq(EU!Waiting) /\ view \in Seq(EU!Waiting)
      /\ size \in Nat /\ expireIndex \in 0 .. size /\ aliased \in BOOLEAN
  BY <1>1 DEF EU!TypeOK
<1>3. CASE EU!CleanExpireBuckets
  BY <1>1, <1>2, <1>3 DEF EU!CleanExpireBuckets, EU!queueVars, EU!observers, EU!ReadsAhead, EU!Reading
<1>4. CASE EU!DeleteMappings
  BY <1>1, <1>2, <1>4 DEF EU!DeleteMappings, EU!queueVars, EU!observers, EU!ReadsAhead, EU!Reading
<1>5. CASE EU!BeginScan
  BY <1>1, <1>2, <1>5 DEF EU!BeginScan, EU!NothingWaits, EU!observers, EU!ReadsAhead, EU!Reading
<1>6. CASE EU!ScanNext
  <2>1. CASE EU!Panic
    BY <1>1, <1>2, <2>1 DEF EU!Panic, EU!queueVars, EU!observers, EU!ReadsAhead, EU!Reading
  <2>2. CASE ~ EU!Panic
    <3>1. /\ cleanTick = "scan" /\ expireIndex < size /\ expireIndex' = expireIndex + 1
          /\ UNCHANGED <<cleanTick, array, len, size, view, aliased>> /\ UNCHANGED EU!observers
      BY <1>6, <2>2, Zenon DEF EU!ScanNext
    <3> QED
      BY <1>1, <1>2, <3>1 DEF EU!observers, EU!ReadsAhead, EU!Reading
  <2> QED
    BY <2>1, <2>2
<1>7. CASE EU!TakeView
  <2>1. /\ cleanTick = "view" /\ cleanTick' = "cut"
        /\ view' = SubSeq(array, 1, expireIndex)
        /\ aliased' = TRUE
        /\ UNCHANGED <<array, len, size, expireIndex, EU!observers>>
    BY <1>7 DEF EU!TakeView
  <2>2. expireIndex \in Nat /\ expireIndex <= Len(array)
    BY <1>1, <1>2, <2>1 DEF EU!ReadsAhead, EU!Reading
  <2>3. /\ view' \in Seq(EU!Waiting) /\ Len(view') = expireIndex
        /\ \A i \in 1 .. expireIndex : view'[i] = array[i]
    BY <1>2, <2>1, <2>2
  <2> QED
    BY <1>1, <1>2, <2>1, <2>2, <2>3 DEF EU!ReadsAhead, EU!Reading, EU!observers
<1>8. CASE EU!Second
  <2>1. /\ cleanTick' = cleanTick /\ UNCHANGED <<len, size, expireIndex, view, aliased, EU!observers>>
        /\ array' = [i \in DOMAIN array |->
                       [array[i] EXCEPT !.age = IF @ <= ExpireTime THEN @ + 1 ELSE @]]
    BY <1>8 DEF EU!Second
  <2>2. ASSUME NEW i \in 1 .. Len(array)
        PROVE  array'[i] \in EU!Waiting /\ array'[i].span = array[i].span
    <3>1. array[i] \in EU!Waiting /\ i \in DOMAIN array
      BY <1>2
    <3>2. ExpireTime \in Nat
      BY SpanFacts
    <3> DEFINE w == array[i]
    <3>3. array'[i] = [w EXCEPT !.age = IF w.age <= ExpireTime THEN w.age + 1 ELSE w.age]
      BY <2>1, <3>1
    <3>4. w \in EU!Waiting
      BY <3>1
    <3> HIDE DEF w
    <3>5. w.age \in 0 .. ExpireTime + 1 /\ w.span \in EU!Exit
      BY <3>4 DEF EU!Waiting
    <3>6. (IF w.age <= ExpireTime THEN w.age + 1 ELSE w.age) \in 0 .. ExpireTime + 1
      BY <3>2, <3>5
    <3>7. array'[i] \in EU!Waiting /\ array'[i].span = w.span
      BY <3>3, <3>4, <3>6 DEF EU!Waiting
    <3> QED
      BY <3>7 DEF w
  <2>3. array' \in Seq(EU!Waiting) /\ Len(array') = Len(array)
    <3>1. DOMAIN array = 1 .. Len(array)
      BY <1>2
    <3>2. array' = [i \in 1 .. Len(array) |-> array'[i]]
      BY <2>1, <3>1
    <3> QED
      BY <1>2, <2>2, <3>2
  <2>4. /\ cleanTick' = cleanTick /\ len' = len /\ size' = size /\ expireIndex' = expireIndex
        /\ view' = view /\ aliased' = aliased /\ raced' = raced
    BY <2>1 DEF EU!observers
  <2>5. EU!ReadsAhead'
    <3>1. EU!Reading' = EU!Reading
      BY <2>4 DEF EU!Reading
    <3>2. ASSUME cleanTick = "cut", ~ raced, NEW i \in 1 .. expireIndex
          PROVE  view[i].span = array'[i].span
      <4>1. i \in 1 .. Len(array)
        BY <1>1, <1>2, <3>2 DEF EU!ReadsAhead, EU!Reading
      <4> QED
        BY <1>1, <2>2, <3>2, <4>1 DEF EU!ReadsAhead
    <3> QED
      BY <1>1, <2>3, <2>4, <3>1, <3>2 DEF EU!ReadsAhead
  <2>6. cleanTick \in {"idle", "delete", "begin", "scan", "view", "cut", "panic"}
    BY <1>1 DEF EU!TypeOK
  <2> QED
    BY <1>2, <2>1, <2>2, <2>3, <2>4, <2>5, <2>6
<1>9. CASE EU!EndScan /\ expireIndex > 0
  <2>1. expireIndex # 0
    BY <1>2, <1>9
  <2>2. /\ cleanTick = "scan" /\ cleanTick' = "view"
        /\ UNCHANGED EU!queueVars /\ UNCHANGED EU!observers
    BY <1>9, <2>1 DEF EU!EndScan
  <2> QED
    BY <1>1, <1>2, <2>2 DEF EU!queueVars, EU!observers, EU!ReadsAhead, EU!Reading
<1>10. CASE EU!Cut /\ expireIndex > len
  <2>1. EU!Panic
    BY <1>2, <1>10 DEF EU!Cut
  <2> QED
    BY <1>1, <1>2, <2>1 DEF EU!Panic, EU!queueVars, EU!observers, EU!ReadsAhead, EU!Reading
<1> QED
  BY <1>3, <1>4, <1>5, <1>6, <1>7, <1>8, <1>9, <1>10

\* The end of a tick that counts nothing, and of one that counts the spans it
\* cuts off.
LEMMA EndingSteps ==
  ASSUME EU!Configured, EU!EntryUrlInv,
         \/ EU!EndScan /\ expireIndex = 0
         \/ EU!Cut /\ expireIndex <= len
  PROVE  /\ expireIndex \in 0 .. len
         /\ len' = len - expireIndex /\ len' \in 0 .. Len(array')
         /\ array' \in Seq(EU!Waiting) /\ view' \in Seq(EU!Waiting)
         /\ \A i \in 1 .. len' : array'[i] = array[expireIndex + i]
         /\ size' \in Nat /\ expireIndex' \in 0 .. size' /\ aliased' \in BOOLEAN
         /\ cleanTick' \in {"idle", "delete", "begin", "scan", "view", "cut", "panic"}
         /\ UNCHANGED <<arrived, raced>>
         /\ EU!ReadsAhead'
         /\ counted' \in [TraceSpan -> Seq(EU!Entry \cup EU!Exit \cup {Unknown})]
         /\ ~ raced => \A s \in TraceSpan :
              Len(counted'[s]) = IF \E i \in 1 .. expireIndex : array[i].span = s
                                 THEN Len(counted[s]) + 1 ELSE Len(counted[s])
<1>1. EU!TypeOK /\ EU!ReadsAhead /\ EU!WaitingOnce
  BY DEF EU!EntryUrlInv, EU!QueueInv
<1>2. /\ len \in 0 .. Len(array) /\ len \in Nat /\ Len(array) \in Nat
      /\ array \in Seq(EU!Waiting)
      /\ expireIndex \in Nat
      /\ counted \in [TraceSpan -> Seq(EU!Entry \cup EU!Exit \cup {Unknown})]
      /\ \A s \in TraceSpan : Len(counted[s]) \in Nat
  BY <1>1 DEF EU!TypeOK
<1>3. expireIndex \in 0 .. len
  BY <1>2
<1>4. EU!EndTick(SubSeq(array, expireIndex + 1, len))
  <2>1. CASE EU!EndScan /\ expireIndex = 0
    <3>1. EU!EndTick(EU!Slice)
      BY <2>1 DEF EU!EndScan
    <3>2. expireIndex + 1 = 1
      BY <2>1
    <3> QED
      BY <3>1, <3>2 DEF EU!Slice
  <2>2. CASE EU!Cut /\ expireIndex <= len
    BY <1>2, <2>2 DEF EU!Cut, EU!Remaining
  <2> QED
    BY <2>1, <2>2
<1> DEFINE rest == SubSeq(array, expireIndex + 1, len)
<1>5. /\ rest \in Seq(EU!Waiting) /\ Len(rest) = len - expireIndex
      /\ \A i \in 1 .. len - expireIndex : rest[i] = array[expireIndex + i]
  BY <1>2, <1>3
<1> HIDE DEF rest
<1>6. /\ array' = rest /\ len' = Len(rest)
      /\ size' = 0 /\ expireIndex' = 0
      /\ view' = << >> /\ aliased' = FALSE /\ cleanTick' = "idle"
  BY <1>4 DEF EU!EndTick, rest
<1>7. /\ len' = len - expireIndex /\ len' \in 0 .. Len(array')
      /\ array' \in Seq(EU!Waiting) /\ view' \in Seq(EU!Waiting)
      /\ \A i \in 1 .. len' : array'[i] = array[expireIndex + i]
  BY <1>2, <1>3, <1>5, <1>6
<1>8. UNCHANGED <<arrived, raced>>
  BY DEF EU!EndScan, EU!Cut, EU!Panic, EU!observers
<1>9. EU!ReadsAhead'
  BY <1>6 DEF EU!ReadsAhead, EU!Reading
<1>10. CASE EU!EndScan /\ expireIndex = 0
  <2>1. counted' = counted
    BY <1>10 DEF EU!EndScan, EU!observers
  <2>2. \A i \in 1 .. expireIndex : FALSE
    BY <1>10
  <2>3. \A s \in TraceSpan :
          Len(counted'[s]) = IF \E i \in 1 .. expireIndex : array[i].span = s
                             THEN Len(counted[s]) + 1 ELSE Len(counted[s])
    BY <2>1, <2>2, Zenon
  <2>4. size' \in Nat /\ expireIndex' \in 0 .. size'
    BY <1>6
  <2>5. aliased' \in BOOLEAN
    BY <1>6, Zenon
  <2> QED
    BY <1>2, <1>3, <1>6, <1>7, <1>8, <1>9, <2>1, <2>3, <2>4, <2>5
<1>11. CASE EU!Cut /\ expireIndex <= len
  <2> DEFINE times(s) == EU!Cardinality(EU!At(s))
             U == EU!Entry \cup EU!Exit \cup {Unknown}
  <2>1. /\ counted' = [s \in TraceSpan |-> counted[s] \o [n \in 1 .. times(s) |-> Unknown]]
        /\ cleanTick = "cut"
    <3>1. ~ (expireIndex > len)
      BY <1>2, <1>11
    <3> QED
      BY <1>11, <3>1, Zenon DEF EU!Cut
  <2>2. DOMAIN view = 1 .. expireIndex
    <3>1. view \in Seq(EU!Waiting) /\ Len(view) = expireIndex
      BY <1>1, <2>1 DEF EU!ReadsAhead, EU!TypeOK
    <3> QED
      BY <3>1
  <2>3. ASSUME NEW s \in TraceSpan
        PROVE  /\ IsFiniteSet(EU!At(s)) /\ times(s) \in Nat /\ times(s) = Cardinality(EU!At(s))
    <3>1. IsFiniteSet(1 .. expireIndex)
      BY <1>2, FS_Interval
    <3>2. EU!At(s) \in SUBSET (1 .. expireIndex)
      BY <2>2 DEF EU!At
    <3>3. IsFiniteSet(EU!At(s))
      BY <3>1, <3>2, FS_Subset
    <3>4. Cardinality(EU!At(s)) \in Nat
      BY <3>3, FS_CardinalityType
    <3>5. EU!Cardinality(EU!At(s)) = Cardinality(EU!At(s))
      BY SameFiniteSets
    <3> QED
      BY <3>3, <3>4, <3>5
  <2>4. ASSUME NEW s \in TraceSpan
        PROVE  /\ counted'[s] \in Seq(U)
               /\ Len(counted'[s]) = Len(counted[s]) + times(s)
    <3> DEFINE more == [n \in 1 .. times(s) |-> Unknown]
               k == times(s)
    <3>1. k \in Nat
      BY <2>3
    <3>2. counted'[s] = counted[s] \o more
      BY <2>1
    <3>3. counted[s] \in Seq(U) /\ Unknown \in U
      BY <1>2
    <3>4. more = [n \in 1 .. k |-> Unknown]
      OBVIOUS
    <3> HIDE DEF k, more, U
    <3>5. more \in Seq(U) /\ Len(more) = k
      BY <3>1, <3>3, <3>4
    <3>6. /\ counted[s] \o more \in Seq(U)
          /\ Len(counted[s] \o more) = Len(counted[s]) + Len(more)
      BY <3>3, <3>5, ConcatProperties
    <3>7. counted'[s] \in Seq(U) /\ Len(counted'[s]) = Len(counted[s]) + k
      BY <3>2, <3>5, <3>6, Zenon
    <3> QED
      BY <3>7 DEF k
  <2>5. counted' \in [TraceSpan -> Seq(U)]
    BY <2>1, <2>4
  <2>6. ASSUME ~ raced, NEW s \in TraceSpan
        PROVE  times(s) = IF \E i \in 1 .. expireIndex : array[i].span = s THEN 1 ELSE 0
    <3>1. \A i \in 1 .. expireIndex : view[i].span = array[i].span
      BY <1>1, <2>1, <2>6 DEF EU!ReadsAhead
    <3>2. \A i \in 1 .. expireIndex : i \in EU!At(s) <=> array[i].span = s
      BY <2>2, <3>1 DEF EU!At
    <3>3. EU!At(s) \subseteq 1 .. expireIndex
      BY <2>2 DEF EU!At
    <3>4. ASSUME NEW i \in EU!At(s), NEW j \in EU!At(s)
          PROVE  i = j
      <4>1. i \in 1 .. len /\ j \in 1 .. len
        BY <1>2, <1>3, <3>3
      <4>2. array[i].span = array[j].span
        BY <3>2, <3>3
      <4> QED
        BY <1>1, <4>1, <4>2 DEF EU!WaitingOnce
    <3>5. CASE EU!At(s) = {}
      BY <2>3, <3>2, <3>5, FS_EmptySet
    <3>6. ASSUME NEW i \in EU!At(s)
          PROVE  times(s) = 1 /\ array[i].span = s
      <4>1. EU!At(s) = {i}
        BY <3>4
      <4> QED
        BY <2>3, <3>2, <3>3, <4>1, FS_Singleton
    <3> QED
      BY <3>2, <3>3, <3>5, <3>6
  <2> HIDE DEF times
  <2>7. ~ raced => \A s \in TraceSpan :
              Len(counted'[s]) = IF \E i \in 1 .. expireIndex : array[i].span = s
                                 THEN Len(counted[s]) + 1 ELSE Len(counted[s])
    <3> SUFFICES ASSUME ~ raced, NEW s \in TraceSpan
                 PROVE  Len(counted'[s]) = IF \E i \in 1 .. expireIndex : array[i].span = s
                                           THEN Len(counted[s]) + 1 ELSE Len(counted[s])
      OBVIOUS
    <3>1. Len(counted[s]) \in Nat
      BY <1>2
    <3> QED
      BY <2>4, <2>6, <3>1
  <2>8. size' \in Nat /\ expireIndex' \in 0 .. size'
    BY <1>6
  <2>9. aliased' \in BOOLEAN
    BY <1>6, Zenon
  <2> QED
    BY <1>3, <1>6, <1>7, <1>8, <1>9, <2>5, <2>7, <2>8, <2>9
<1> QED
  BY <1>10, <1>11

\* Spans that leave the queue at its front and are counted for it do no harm.
LEMMA QueueShift ==
  ASSUME EU!EntryUrlInv, EU!TypeOK', EU!ReadsAhead', NEW e \in 0 .. len, len' = len - e,
         \A i \in 1 .. len' : array'[i].span = array[e + i].span,
         arrived' = arrived, raced' = raced,
         ~ raced => \A s \in TraceSpan :
           Len(counted'[s]) = IF \E i \in 1 .. e : array[i].span = s
                              THEN Len(counted[s]) + 1 ELSE Len(counted[s]),
         \A t \in DOMAIN entryUrlMap' : t \in DOMAIN entryUrlMap /\ entryUrlMap'[t] = entryUrlMap[t]
  PROVE  EU!QueueInv'
<1>1. EU!TypeOK /\ EU!WaitingOnce /\ EU!CountedOrWaits /\ EU!NoneWaitsInVain
  BY DEF EU!EntryUrlInv, EU!QueueInv
<1>2. len \in Nat /\ e \in Nat /\ len' \in Nat
  BY <1>1, WaitingPlaces
<1>3. \A i \in 1 .. len' : e + i \in 1 .. len
  BY <1>2
<1>4. EU!WaitingOnce'
  <2>1. ASSUME NEW i \in 1 .. len', NEW j \in 1 .. len', array'[i].span = array'[j].span
        PROVE  i = j
    <3>1. array[e + i].span = array[e + j].span
      BY <2>1
    <3>2. e + i = e + j
      BY <1>1, <1>3, <3>1 DEF EU!WaitingOnce
    <3> QED
      BY <1>2, <3>2
  <2>2. \A i \in 1 .. len' : array'[i].span \in arrived' \cap Attributed
    BY <1>1, <1>3 DEF EU!WaitingOnce
  <2> QED
    BY <2>1, <2>2 DEF EU!WaitingOnce
<1>5. EU!NoneWaitsInVain'
  <2> SUFFICES ASSUME NEW i \in 1 .. len', TraceOf[array'[i].span] \in DOMAIN entryUrlMap'
               PROVE  EU!UrlIn(entryUrlMap', array'[i].span) = NoSpan
    BY VainPlacesAfter
  <2> DEFINE s == array'[i].span
  <2>1. e + i \in 1 .. len /\ s = array[e + i].span
    BY <1>3
  <2>2. TraceOf[s] \in DOMAIN entryUrlMap /\ entryUrlMap'[TraceOf[s]] = entryUrlMap[TraceOf[s]]
    OBVIOUS
  <2> HIDE DEF s
  <2>3. EU!UrlIn(entryUrlMap, s) = NoSpan
    BY <1>1, <2>1, <2>2, VainPlaces
  <2>4. EU!UrlIn(entryUrlMap', s) = EU!UrlIn(entryUrlMap, s)
    BY <2>2, Zenon DEF EU!UrlIn
  <2> QED
    BY <2>3, <2>4 DEF s
<1>6. EU!CountedOrWaits'
  <2> SUFFICES ASSUME ~ raced, NEW s \in TraceSpan
               PROVE  Len(counted'[s]) = IF s \in EU!Countable' /\ ~ EU!Waits(s)' THEN 1 ELSE 0
    BY DEF EU!CountedOrWaits
  <2> DEFINE gone == \E i \in 1 .. e : array[i].span = s
  <2>1. Len(counted'[s]) = IF gone THEN Len(counted[s]) + 1 ELSE Len(counted[s])
    OBVIOUS
  <2>2. Len(counted[s]) = IF s \in EU!Countable /\ ~ EU!Waits(s) THEN 1 ELSE 0
    BY <1>1 DEF EU!CountedOrWaits
  <2>3. EU!Countable' = EU!Countable
    BY DEF EU!Countable
  <2>4. EU!Waits(s) => s \in EU!Countable
    <3>1. EU!Waits(s) => s \in arrived /\ s \in Attributed /\ s \in EU!Exit
      BY <1>1, WaitingPlaces DEF EU!Waits, EU!WaitingOnce
    <3> QED
      BY <3>1 DEF EU!Countable
  <2>5. gone => EU!Waits(s)
    BY <1>2 DEF EU!Waits
  <2>6. EU!Waits(s)' => EU!Waits(s) /\ ~ gone
    <3> SUFFICES ASSUME NEW i \in 1 .. len', array'[i].span = s
                 PROVE  EU!Waits(s) /\ ~ gone
      BY DEF EU!Waits
    <3>1. e + i \in 1 .. len /\ array[e + i].span = s
      BY <1>3
    <3>2. ASSUME NEW j \in 1 .. e, array[j].span = s
          PROVE  FALSE
      <4>1. j \in 1 .. len
        BY <1>2
      <4>2. j = e + i
        BY <1>1, <3>1, <3>2, <4>1 DEF EU!WaitingOnce
      <4> QED
        BY <1>2, <4>2
    <3> QED
      BY <3>1, <3>2 DEF EU!Waits
  <2>7. EU!Waits(s) /\ ~ gone => EU!Waits(s)'
    <3> SUFFICES ASSUME NEW p \in 1 .. len, array[p].span = s, ~ gone
                 PROVE  EU!Waits(s)'
      BY DEF EU!Waits
    <3>1. p \notin 1 .. e
      OBVIOUS
    <3>2. p - e \in 1 .. len' /\ e + (p - e) = p
      BY <1>2, <3>1
    <3>3. array'[p - e].span = s
      BY <3>2
    <3> QED
      BY <3>2, <3>3 DEF EU!Waits
  <2> HIDE DEF gone
  <2> QED
    BY <2>1, <2>2, <2>3, <2>4, <2>5, <2>6, <2>7
<1> QED
  BY <1>4, <1>5, <1>6 DEF EU!QueueInv

\* The types of the mappings and their lists after any step.
LEMMA MappingTypes ==
  ASSUME EU!Configured, EU!EntryUrlInv,
         EU!CleanExpireBuckets \/ EU!DeleteMappings \/ UNCHANGED EU!mapVars
  PROVE  /\ DOMAIN entryUrlMap' \subseteq Trace
         /\ \A t \in DOMAIN entryUrlMap' : entryUrlMap'[t] \subseteq TraceSpan \ EU!Exit
         /\ idBatch' \subseteq Trace
         /\ idBuckets' \in [0 .. CacheUrlTime -> SUBSET Trace]
         /\ writeIndex' \in 0 .. CacheUrlTime
         /\ toCleanIds' \subseteq Trace
         /\ held' \in [DOMAIN entryUrlMap' -> 0 .. CacheUrlTime + 1]
         /\ \A t \in DOMAIN entryUrlMap' : t \in DOMAIN entryUrlMap /\ entryUrlMap'[t] = entryUrlMap[t]
<1>1. EU!TypeOK /\ EU!MappingInv
  BY DEF EU!EntryUrlInv
<1>2. CASE EU!CleanExpireBuckets
  <2>1. entryUrlMap' = entryUrlMap /\ idBatch' = {}
    BY <1>2 DEF EU!CleanExpireBuckets, EU!PickBatch
  <2> QED
    BY <1>1, <1>2, <2>1, CleanMapping DEF EU!TypeOK
<1>3. CASE EU!DeleteMappings
  <2>1. /\ entryUrlMap' = [t \in EU!Kept |-> entryUrlMap[t]]
        /\ held' = [t \in EU!Kept |-> held[t]]
        /\ EU!Kept \subseteq DOMAIN entryUrlMap
        /\ toCleanIds' = {} /\ UNCHANGED <<idBatch, idBuckets, writeIndex>>
    BY <1>3 DEF EU!DeleteMappings, EU!Kept
  <2>2. held' \in [DOMAIN entryUrlMap' -> 0 .. CacheUrlTime + 1]
    BY <1>1, <2>1 DEF EU!TypeOK
  <2> QED
    BY <1>1, <2>1, <2>2 DEF EU!TypeOK
<1>4. CASE UNCHANGED EU!mapVars
  BY <1>1, <1>4 DEF EU!TypeOK, EU!mapVars
<1> QED
  BY <1>2, <1>3, <1>4

\* The inductive invariant holds at the start.
LEMMA InitEntryUrl ==
  ASSUME EU!Configured, EU!Init
  PROVE  EU!EntryUrlInv
<1>1. CacheUrlTime \in Nat
  BY SpanFacts
<1>2. /\ DOMAIN entryUrlMap = {} /\ DOMAIN held = {}
      /\ held \in [{} -> 0 .. CacheUrlTime + 1]
      /\ array = << >> /\ len = 0 /\ view = << >> /\ size = 0 /\ expireIndex = 0
      /\ cleanTick = "idle" /\ ~ aliased /\ ~ raced /\ arrived = {}
      /\ counted = [s \in TraceSpan |-> << >>]
      /\ idBatch = {} /\ toCleanIds = {} /\ writeIndex = CacheUrlTime
      /\ idBuckets = [i \in 0 .. CacheUrlTime |-> {}]
  BY DEF EU!Init
<1>3. EU!TypeOK
  <2>1. aliased \in BOOLEAN /\ raced \in BOOLEAN
    BY Zenon DEF EU!Init
  <2>2. counted \in [TraceSpan -> Seq(EU!Entry \cup EU!Exit \cup {Unknown})]
    BY <1>2
  <2> QED
    BY <1>1, <1>2, <2>1, <2>2 DEF EU!TypeOK
<1>4. EU!MappingInv
  BY <1>1, <1>2 DEF EU!MappingInv, EU!MappingsListed, EU!ListedByAge
<1>5. EU!NoneWaitsInVain
  BY <1>2, <1>3, VainPlaces
<1>6. EU!WaitingOnce /\ EU!ReadsAhead /\ EU!CountedOrWaits
  BY <1>2 DEF EU!WaitingOnce, EU!ReadsAhead, EU!Reading, EU!CountedOrWaits, EU!Countable
<1> QED
  BY <1>3, <1>4, <1>5, <1>6 DEF EU!EntryUrlInv, EU!QueueInv

\* Every step keeps the inductive invariant.
LEMMA NextEntryUrl ==
  ASSUME EU!Configured, EU!EntryUrlInv, [EU!Next]_EU!vars
  PROVE  EU!EntryUrlInv'
<1>1. EU!TypeOK /\ EU!MappingInv /\ EU!QueueInv
  BY DEF EU!EntryUrlInv
<1>2. ASSUME NEW batch \in SUBSET TraceSpan, EU!Consume(batch)
      PROVE  EU!EntryUrlInv'
  BY <1>1, <1>2, ConsumeType, ConsumeMapping, ConsumeQueue DEF EU!EntryUrlInv
<1>3. ASSUME \/ EU!CleanExpireBuckets \/ EU!DeleteMappings \/ EU!BeginScan \/ EU!ScanNext
             \/ EU!TakeView \/ EU!Second
             \/ EU!EndScan /\ expireIndex > 0
             \/ EU!Cut /\ expireIndex > len
      PROVE  EU!EntryUrlInv'
  <2>1. /\ EU!CleanExpireBuckets \/ EU!DeleteMappings \/ UNCHANGED EU!mapVars
        /\ EU!MappingInv'
    <3>1. CASE EU!CleanExpireBuckets
      BY <1>1, <3>1, CleanMapping
    <3>2. CASE EU!DeleteMappings
      BY <1>1, <3>2, DeleteMapping
    <3>3. CASE EU!BeginScan \/ EU!ScanNext \/ EU!TakeView \/ EU!Second
      <4>1. UNCHANGED EU!mapVars /\ (cleanTick = "delete" => cleanTick' = "delete")
        BY <3>3 DEF EU!BeginScan, EU!ScanNext, EU!TakeView, EU!Second, EU!Panic
      <4> QED
        BY <1>1, <4>1, OtherMapping
    <3>4. CASE EU!EndScan \/ EU!Cut
      <4>1. UNCHANGED EU!mapVars /\ cleanTick # "delete"
        BY <3>4 DEF EU!EndScan, EU!Cut, EU!EndTick, EU!Panic
      <4> QED
        BY <1>1, <4>1, OtherMapping
    <3> QED
      BY <1>3, <3>1, <3>2, <3>3, <3>4
  <2>2. /\ len' = len /\ len' \in 0 .. Len(array')
        /\ array' \in Seq(EU!Waiting) /\ view' \in Seq(EU!Waiting)
        /\ Len(array') = Len(array)
        /\ \A i \in 1 .. Len(array) : array'[i].span = array[i].span
        /\ size' \in Nat /\ expireIndex' \in 0 .. size' /\ aliased' \in BOOLEAN
        /\ cleanTick' \in {"idle", "delete", "begin", "scan", "view", "cut", "panic"}
        /\ UNCHANGED EU!observers
        /\ EU!ReadsAhead'
    BY <1>3, ReadingSteps
  <2>3. arrived' = arrived /\ counted' = counted /\ raced' = raced
    BY <2>2 DEF EU!observers
  <2>4. EU!TypeOK'
    BY <1>1, <2>1, <2>2, <2>3, MappingTypes DEF EU!TypeOK
  <2>5. 0 \in 0 .. len /\ len' = len - 0
    BY <1>1, <2>2, WaitingPlaces
  <2>6. \A i \in 1 .. len' : array'[i].span = array[0 + i].span
    BY <1>1, <2>2, WaitingPlaces
  <2>7. \A i \in 1 .. 0 : FALSE
    OBVIOUS
  <2>8. EU!QueueInv'
    BY <2>1, <2>2, <2>3, <2>4, <2>5, <2>6, <2>7, MappingTypes, QueueShift
  <2> QED
    BY <2>1, <2>4, <2>8 DEF EU!EntryUrlInv
<1>4. ASSUME \/ EU!EndScan /\ expireIndex = 0
             \/ EU!Cut /\ expireIndex <= len
      PROVE  EU!EntryUrlInv'
  <2>1. UNCHANGED EU!mapVars /\ cleanTick # "delete"
    BY <1>4 DEF EU!EndScan, EU!Cut, EU!EndTick, EU!Panic
  <2>2. EU!MappingInv'
    BY <1>1, <2>1, OtherMapping
  <2>3. /\ expireIndex \in 0 .. len
        /\ len' = len - expireIndex /\ len' \in 0 .. Len(array')
        /\ array' \in Seq(EU!Waiting) /\ view' \in Seq(EU!Waiting)
        /\ \A i \in 1 .. len' : array'[i] = array[expireIndex + i]
        /\ size' \in Nat /\ expireIndex' \in 0 .. size' /\ aliased' \in BOOLEAN
        /\ cleanTick' \in {"idle", "delete", "begin", "scan", "view", "cut", "panic"}
        /\ UNCHANGED <<arrived, raced>>
        /\ EU!ReadsAhead'
        /\ counted' \in [TraceSpan -> Seq(EU!Entry \cup EU!Exit \cup {Unknown})]
        /\ ~ raced => \A s \in TraceSpan :
             Len(counted'[s]) = IF \E i \in 1 .. expireIndex : array[i].span = s
                                THEN Len(counted[s]) + 1 ELSE Len(counted[s])
    BY <1>4, EndingSteps
  <2>4. EU!TypeOK'
    BY <1>1, <2>1, <2>3, MappingTypes DEF EU!TypeOK
  <2>5. EU!QueueInv'
    BY <2>1, <2>3, <2>4, MappingTypes, QueueShift
  <2> QED
    BY <2>2, <2>4, <2>5 DEF EU!EntryUrlInv
<1>5. CASE UNCHANGED EU!vars
  <2>1. /\ UNCHANGED EU!mapVars /\ UNCHANGED EU!queueVars /\ UNCHANGED EU!observers
        /\ cleanTick' = cleanTick
    BY <1>5 DEF EU!vars
  <2>2. EU!TypeOK'
    BY <1>1, <2>1 DEF EU!TypeOK, EU!mapVars, EU!queueVars, EU!observers
  <2>3. EU!MappingInv'
    BY <1>1, <2>1, OtherMapping
  <2>4. EU!ReadsAhead'
    BY <1>1, <2>1 DEF EU!QueueInv, EU!ReadsAhead, EU!Reading, EU!queueVars, EU!observers
  <2>5. EU!QueueInv'
    BY <1>1, <2>1, <2>4, Zenon DEF EU!QueueInv, EU!WaitingOnce, EU!CountedOrWaits, EU!Waits,
       EU!Countable, EU!NoneWaitsInVain, EU!Slice, EU!mapVars, EU!queueVars, EU!observers
  <2> QED
    BY <2>2, <2>3, <2>5 DEF EU!EntryUrlInv
<1>6. /\ EU!EndScan => expireIndex = 0 \/ expireIndex > 0
      /\ EU!Cut => expireIndex <= len \/ expireIndex > len
  <2>1. expireIndex \in Nat /\ len \in Nat
    BY <1>1, WaitingPlaces DEF EU!TypeOK
  <2> QED
    BY <2>1
<1> QED
  BY <1>2, <1>3, <1>4, <1>5, <1>6 DEF EU!Next, EU!Tick

\* The invariant of the cache of entry urls.
THEOREM EntryUrlInvariant == EU!Spec => []EU!EntryUrlInv
<1>1. EU!Init => EU!EntryUrlInv
  BY InitEntryUrl, EntryUrlAssumption
<1>2. EU!EntryUrlInv /\ [EU!Next]_EU!vars => EU!EntryUrlInv'
  BY NextEntryUrl, EntryUrlAssumption
<1> QED
  BY <1>1, <1>2, PTL DEF EU!Spec

\* A mapping is dropped only after cache_entry_url_time ticks.
THEOREM MappingsKeptForTheirTime == EU!Spec => MappingsKept
<1>1. EU!EntryUrlInv /\ [EU!Next]_EU!vars
      => [\A t \in DOMAIN entryUrlMap :
            t \notin DOMAIN entryUrlMap' => held[t] = CacheUrlTime + 1]_EU!vars
  <2> SUFFICES ASSUME EU!EntryUrlInv, EU!Next,
                      NEW t \in DOMAIN entryUrlMap, t \notin DOMAIN entryUrlMap'
               PROVE  held[t] = CacheUrlTime + 1
    OBVIOUS
  <2>1. CASE EU!DeleteMappings
    BY <2>1, DeleteMapping, EntryUrlAssumption DEF EU!EntryUrlInv
  <2>2. CASE DOMAIN entryUrlMap \subseteq DOMAIN entryUrlMap'
    BY <2>2
  <2>3. ASSUME NEW batch \in SUBSET TraceSpan, EU!Consume(batch)
        PROVE  DOMAIN entryUrlMap \subseteq DOMAIN entryUrlMap'
    BY <2>3 DEF EU!Consume, EU!Recorded
  <2>4. ASSUME \/ EU!CleanExpireBuckets \/ EU!BeginScan \/ EU!ScanNext \/ EU!EndScan
               \/ EU!TakeView \/ EU!Cut \/ EU!Second
        PROVE  entryUrlMap' = entryUrlMap
    BY <2>4 DEF EU!CleanExpireBuckets, EU!BeginScan, EU!ScanNext, EU!EndScan, EU!TakeView,
                EU!Cut, EU!Second, EU!Panic, EU!EndTick, EU!mapVars
  <2> QED
    BY <2>1, <2>2, <2>3, <2>4 DEF EU!Next, EU!Tick
<1> QED
  BY <1>1, EntryUrlInvariant, PTL DEF EU!Spec, MappingsKept, EU!MappingsKept

\* Every mapping can be found again when its time is over: none leaks.
THEOREM MappingsAlwaysListed == EU!Spec => []EU!MappingsListed
<1>1. EU!EntryUrlInv => EU!MappingsListed
  BY DEF EU!EntryUrlInv, EU!MappingInv
<1> QED
  BY <1>1, EntryUrlInvariant, PTL

\* No exit span waits although its url is known.
THEOREM NoSpanWaitsInVain == EU!Spec => []NoneWaitsInVain
<1>1. EU!EntryUrlInv => NoneWaitsInVain
  BY DEF EU!EntryUrlInv, EU!QueueInv, NoneWaitsInVain
<1> QED
  BY <1>1, EntryUrlInvariant, PTL

\* A span is counted once or waits, unless a match raced a tick.
THEOREM SpansCountedOnce == EU!Spec => []CountedOnceUnlessRaced
<1>1. EU!EntryUrlInv => CountedOnceUnlessRaced
  <2> SUFFICES ASSUME EU!EntryUrlInv, ~ raced, NEW s \in TraceSpan
               PROVE  EU!Accounted(s) = IF s \in EU!Countable THEN 1 ELSE 0
    BY DEF CountedOnceUnlessRaced, EU!CountedOnceUnlessRaced
  <2> DEFINE at == {i \in 1 .. len : array[i].span = s}
  <2>1. EU!TypeOK /\ EU!WaitingOnce /\ EU!CountedOrWaits
    BY DEF EU!EntryUrlInv, EU!QueueInv
  <2>2. Len(counted[s]) = IF s \in EU!Countable /\ ~ EU!Waits(s) THEN 1 ELSE 0
    BY <2>1 DEF EU!CountedOrWaits
  <2>3. EU!Waits(s) => s \in EU!Countable
    BY <2>1, WaitingPlaces, EntryUrlAssumption DEF EU!Waits, EU!WaitingOnce, EU!Countable
  <2>4. EU!Cardinality(at) = Cardinality(at)
    BY SameFiniteSets
  <2>5. at = {} <=> ~ EU!Waits(s)
    BY DEF EU!Waits
  <2>6. \A i, j \in at : i = j
    BY <2>1 DEF EU!WaitingOnce
  <2>7. EU!Accounted(s) = Len(counted[s]) + EU!Cardinality(at)
    BY DEF EU!Accounted
  <2> HIDE DEF at
  <2>8. CASE at = {}
    BY <2>2, <2>4, <2>5, <2>7, <2>8, FS_EmptySet
  <2>9. ASSUME NEW i \in at
        PROVE  EU!Cardinality(at) = 1
    <3>1. at = {i}
      BY <2>6
    <3> QED
      BY <2>4, <3>1, FS_Singleton
  <2> QED
    BY <2>2, <2>3, <2>5, <2>7, <2>8, <2>9
<1> QED
  BY <1>1, EntryUrlInvariant, PTL
=============================================================================
