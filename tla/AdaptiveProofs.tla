---------------------------- MODULE AdaptiveProofs ----------------------------
(***************************************************************************)
(* Proofs about the adaptive sampler, for every set of traces, groups and  *)
(* urls and every sampling configuration: the bound of CheckLowUrl and the *)
(* memory for slow traces hold however consumers, the second ticker and    *)
(* the sample value ticker interleave.                                     *)
(***************************************************************************)
EXTENDS Adaptive, TLAPS

\* What the assumptions on the configuration say of its parts.
LEMMA Configured ==
  /\ WindowCount \in Nat /\ Window \in Nat /\ UrlLimit \in Nat
  /\ HoldTime \in Nat /\ HoldTime >= 2
  /\ TraceOf \in [Data -> Key]
  /\ NoUrl \notin Url /\ NoCounter \notin Counter /\ Groups \subseteq Seq(Span)
<1>1. /\ WindowCount \in Nat /\ Window \in Nat /\ UrlLimit \in Nat /\ HoldTime \in Nat \ {0, 1}
      /\ TraceOf \in [Data -> Key] /\ NoUrl \notin Url /\ NoCounter \notin Counter
  BY AdaptiveAssumption, Zenon
<1>2. Groups \subseteq Seq(Span)
  BY AdaptiveAssumption, Zenon DEF Span
<1>3. HoldTime >= 2
  BY <1>1
<1> QED BY <1>1, <1>2, <1>3

\* The invariant holds when the processor starts.
LEMMA AdaptiveInitInv == Init => AdaptiveInv
<1> SUFFICES ASSUME Init PROVE AdaptiveInv
  OBVIOUS
<1> USE DEF Init, Absent
<1>1. SamplerTypeOK
  BY Configured DEF SamplerTypeOK
<1>2. CountersHeld /\ CountersCount
  BY Configured DEF CountersHeld, CountersCount
<1>3. SlowRemembered /\ UndecidedYoung /\ SlowDecided
  BY DEF SlowRemembered, UndecidedYoung, SlowDecided, Undecided
<1>4. LingeringBusy
  BY DEF LingeringBusy
<1> QED BY <1>1, <1>2, <1>3, <1>4 DEF AdaptiveInv

\* A step that leaves counters, slow traces and consumers alone.
LEMMA AdaptiveFrame ==
  ASSUME AdaptiveInv,
         UNCHANGED <<serviceTps, tps, held, admitted, raced, singleVars, consumerVars, lingering>>,
         sampleValue' \in 0 .. 19, serviceUrlCount' \in 0 .. UrlLimit,
         currentWindow' \in 0 .. Window, ranged' \in [Url -> Counter \cup {NoCounter}],
         \/ step' = step /\ doomed' = doomed
         \/ /\ step # "singles" /\ step' \in {"copy", "pick", "delete", "reset", "drop", "zero"}
            /\ doomed' \in SUBSET Key
            /\ step = "idle" => lingering \cap Busy = {}
  PROVE  AdaptiveInv'
<1> USE DEF singleVars, consumerVars, groupVars
<1>0. /\ SamplerTypeOK /\ CountersHeld /\ CountersCount
      /\ SlowRemembered /\ UndecidedYoung /\ LingeringBusy /\ SlowDecided
  BY DEF AdaptiveInv
<1>1. SamplerTypeOK'
  BY <1>0 DEF SamplerTypeOK
<1>2. CountersHeld' /\ CountersCount' /\ SlowDecided'
  BY <1>0 DEF CountersHeld, CountersCount, SlowDecided, UrlOf
<1>3. SlowRemembered' /\ UndecidedYoung'
  BY <1>0 DEF SlowRemembered, UndecidedYoung
<1>4. LingeringBusy'
  BY <1>0 DEF LingeringBusy, Busy
<1> QED BY <1>1, <1>2, <1>3, <1>4 DEF AdaptiveInv

\* The steps of the ticker before Reset, the sampled ids, the sample value and
\* other services.
LEMMA OthersInv ==
  ASSUME AdaptiveInv,
         \/ TakeGroups \/ CopyGroups \/ PickSampled \/ DeleteSampled
         \/ \E id \in Key : SamplingOnTick(id)
         \/ \E value \in Values : QuerySampleValueOnTick(value)
         \/ OtherService
         \/ UNCHANGED vars
  PROVE  AdaptiveInv'
<1> USE DEF TakeGroups, CopyGroups, PickSampled, DeleteSampled, SamplingOnTick, QuerySampleValueOnTick,
            OtherService, vars, tickVars, tpsVars
<1>0. SamplerTypeOK
  BY DEF AdaptiveInv
<1>1. UNCHANGED <<serviceTps, tps, held, admitted, raced, singleVars, consumerVars, lingering>>
  OBVIOUS
<1>2. sampleValue' \in 0 .. 19
  BY <1>0 DEF SamplerTypeOK
<1>4. serviceUrlCount' \in 0 .. UrlLimit
  BY <1>0, Configured DEF SamplerTypeOK
<1>5. currentWindow' \in 0 .. Window /\ ranged' \in [Url -> Counter \cup {NoCounter}]
  BY <1>0 DEF SamplerTypeOK
<1>3. \/ step' = step /\ doomed' = doomed
      \/ /\ step # "singles" /\ step' \in {"copy", "pick", "delete", "reset", "drop", "zero"}
         /\ doomed' \in SUBSET Key
         /\ step = "idle" => lingering \cap Busy = {}
  BY <1>0 DEF SamplerTypeOK
<1> QED BY <1>1, <1>2, <1>3, <1>4, <1>5, AdaptiveFrame

\* A consumer moves on with its group: what that asks of its new position.
LEMMA ConsumerMoves ==
  ASSUME AdaptiveInv, NEW g \in Data, pc[g] # "done",
         NEW q \in {"build", "forward", "done"} \cup Undecided,
         pc' = [pc EXCEPT ![g] = q], UNCHANGED <<step, lingering>>
  PROVE  LingeringBusy'
<1> USE DEF Undecided
<1>0. SamplerTypeOK /\ LingeringBusy
  BY DEF AdaptiveInv
<1>1. /\ pc'[g] = q /\ \A h \in Data : h # g => pc'[h] = pc[h]
      /\ pc[g] \in {"new", "build", "forward", "done"} \cup Undecided
  BY <1>0 DEF SamplerTypeOK
<1>2. lingering \subseteq Data
  BY <1>0 DEF SamplerTypeOK
<1>3. \A h \in lingering : pc'[h] # "new"
  BY <1>0, <1>1, <1>2 DEF LingeringBusy
<1>4. ASSUME step # "idle", NEW h \in lingering, h \in Busy'
      PROVE  FALSE
  <2>1. h \in Data /\ pc[h] # "new" /\ h \notin Busy
    BY <1>0, <1>2, <1>4 DEF LingeringBusy
  <2>2. pc[h] = "done"
    BY <2>1 DEF Busy
  <2>3. h # g
    BY <2>2
  <2> QED BY <1>1, <1>4, <2>1, <2>2, <2>3 DEF Busy
<1> QED BY <1>3, <1>4 DEF LingeringBusy

\* Sample decides on the trace id, or looks at the spans.
LEMMA SampleInv ==
  ASSUME AdaptiveInv, NEW g \in Data, Sample(g)
  PROVE  AdaptiveInv'
<1> USE DEF tpsVars, singleVars, consumerVars, groupVars, tickVars, Undecided
<1>0. /\ SamplerTypeOK /\ CountersHeld /\ CountersCount
      /\ SlowRemembered /\ UndecidedYoung /\ LingeringBusy /\ SlowDecided
  BY DEF AdaptiveInv
<1>1. /\ UNCHANGED <<tpsVars, singleVars, tickVars, sampleValue>> /\ pc[g] = "new"
      /\ wasSlow' = IF slowAge[TraceOf[g]] # Absent THEN wasSlow \cup {g} ELSE wasSlow
  BY DEF Sample
<1>2. PICK group \in Groups : spans' = [spans EXCEPT ![g] = group] /\ left' = [left EXCEPT ![g] = group]
  BY DEF Sample
<1>3. \/ /\ pc' = [pc EXCEPT ![g] = "build"]
         /\ \E r \in {"sampled", "low"} : result' = [result EXCEPT ![g] = r]
      \/ /\ singleIds[TraceOf[g]] = Absent
         /\ pc' = [pc EXCEPT ![g] = "spans"] /\ result' = result
  BY DEF Sample, Decide
<1>4. PICK q \in {"spans", "build"} : pc' = [pc EXCEPT ![g] = q]
  BY <1>3
<1>5. /\ pc'[g] = q /\ \A h \in Data : h # g => pc'[h] = pc[h] /\ left'[h] = left[h] /\ result'[h] = result[h]
      /\ pc' \in [Data -> {"new", "build", "forward", "done"} \cup Undecided]
      /\ result' \in [Data -> {"none", "sampled", "slow", "low", "drop"}]
  BY <1>0, <1>2, <1>3, <1>4 DEF SamplerTypeOK
<1>6. spans' \in [Data -> Seq(Span)] /\ left' \in [Data -> Seq(Span)]
  BY <1>0, <1>2, Configured DEF SamplerTypeOK
<1>7. SamplerTypeOK'
  BY <1>0, <1>1, <1>5, <1>6 DEF SamplerTypeOK
<1>8. CountersHeld' /\ CountersCount'
  <2>1. \A h \in Data : held[h] # NoCounter => h # g
    BY <1>0, <1>1 DEF CountersHeld
  <2>2. \A h \in Data : h # g => UrlOf(h)' = UrlOf(h)
    BY <1>5 DEF UrlOf
  <2>3. CountersHeld'
    BY <1>0, <1>1, <1>4, <1>5, <2>2 DEF CountersHeld
  <2> QED BY <1>0, <1>1, <2>1, <2>2, <2>3 DEF CountersCount
<1>9. SlowRemembered'
  BY <1>0, <1>1 DEF SlowRemembered
<1>10. UndecidedYoung'
  <2>1. TraceOf[g] \in Key
    BY Configured
  <2>2. q = "spans" => singleIds[TraceOf[g]] = Absent
    BY <1>0, <1>3, <1>5
  <2>3. q = "spans" => ~(step = "singles" /\ TraceOf[g] \in doomed)
    BY <1>0, <2>1, <2>2 DEF SlowRemembered
  <2>4. q = "spans" => singleIds[TraceOf[g]] <= IF step = "singles" \/ g \in lingering THEN 1 ELSE 0
    BY <2>2 DEF Absent
  <2> QED BY <1>0, <1>1, <1>5, <2>3, <2>4 DEF UndecidedYoung
<1>11. LingeringBusy'
  BY <1>1, <1>4, ConsumerMoves
<1>12. SlowDecided'
  <2>1. g \notin wasSlow
    BY <1>0, <1>1 DEF SlowDecided
  <2>2. wasSlow \subseteq Data
    BY <1>0 DEF SamplerTypeOK
  <2>3. ASSUME slowAge[TraceOf[g]] # Absent
        PROVE  pc'[g] = "build" /\ result'[g] \in {"sampled", "low"}
    <3>1. singleIds[TraceOf[g]] # Absent
      BY <1>0, <2>3, Configured DEF SlowRemembered
    <3> QED BY <1>0, <1>3, <3>1 DEF SamplerTypeOK
  <2> QED BY <1>0, <1>1, <1>5, <2>1, <2>2, <2>3 DEF SlowDecided
<1> QED BY <1>7, <1>8, <1>9, <1>10, <1>11, <1>12 DEF AdaptiveInv

\* A group that is decided moves on.
LEMMA DecidedInv ==
  ASSUME AdaptiveInv, NEW g \in Data, BuildSpanTrace(g) \/ ForwardSingle(g) \/ CacheGroup(g)
  PROVE  AdaptiveInv'
<1> USE DEF tpsVars, singleVars, consumerVars, groupVars, tickVars, Undecided
<1>0. /\ SamplerTypeOK /\ CountersHeld /\ CountersCount
      /\ SlowRemembered /\ UndecidedYoung /\ LingeringBusy /\ SlowDecided
  BY DEF AdaptiveInv
<1>1. /\ UNCHANGED <<tpsVars, singleVars, tickVars, sampleValue, groupVars, result, wasSlow>>
      /\ pc[g] \in {"build", "forward"}
      /\ \E q \in {"forward", "done"} : pc' = [pc EXCEPT ![g] = q]
  BY DEF BuildSpanTrace, ForwardSingle, CacheGroup
<1>2. PICK q \in {"forward", "done"} : pc' = [pc EXCEPT ![g] = q]
  BY <1>1
<1>3. /\ pc'[g] = q /\ \A h \in Data : h # g => pc'[h] = pc[h]
      /\ pc' \in [Data -> {"new", "build", "forward", "done"} \cup Undecided]
  BY <1>0, <1>2 DEF SamplerTypeOK
<1>4. SamplerTypeOK'
  BY <1>0, <1>1, <1>3 DEF SamplerTypeOK
<1>5. CountersHeld' /\ CountersCount' /\ SlowRemembered'
  BY <1>0, <1>1, <1>3 DEF CountersHeld, CountersCount, SlowRemembered, UrlOf
<1>6. UndecidedYoung'
  BY <1>0, <1>1, <1>3 DEF UndecidedYoung
<1>7. LingeringBusy'
  BY <1>1, <1>2, ConsumerMoves
<1>8. SlowDecided'
  <2>1. wasSlow \subseteq Data
    BY <1>0 DEF SamplerTypeOK
  <2> QED BY <1>0, <1>1, <1>3, <2>1 DEF SlowDecided
<1> QED BY <1>4, <1>5, <1>6, <1>7, <1>8 DEF AdaptiveInv

\* A group that is looked at is decided, or goes on to be; nothing is stored
\* in singleIds.
LEMMA UndecidedInv ==
  ASSUME AdaptiveInv, NEW g \in Data, pc[g] \in Undecided,
         NEW q \in {"build", "done"} \cup Undecided, pc' = [pc EXCEPT ![g] = q],
         left' \in [Data -> Seq(Span)],
         result' \in [Data -> {"none", "sampled", "slow", "low", "drop"}],
         \A h \in Data : h # g => result'[h] = result[h],
         UNCHANGED <<singleVars, tickVars, sampleValue, spans, wasSlow>>,
         serviceTps' \in [Url -> Counter \cup {NoCounter}], held' \in [Data -> Counter \cup {NoCounter}],
         tps' \in [Counter -> Nat], serviceUrlCount' \in 0 .. UrlLimit,
         admitted' \in [Url -> Nat], raced' \in SUBSET Url, CountersHeld', CountersCount'
  PROVE  AdaptiveInv'
<1> USE DEF singleVars, tickVars, Undecided
<1>0. SamplerTypeOK /\ SlowRemembered /\ UndecidedYoung /\ LingeringBusy /\ SlowDecided
  BY DEF AdaptiveInv
<1>1. /\ pc'[g] = q /\ \A h \in Data : h # g => pc'[h] = pc[h]
      /\ pc' \in [Data -> {"new", "build", "forward", "done"} \cup Undecided]
  BY <1>0 DEF SamplerTypeOK
<1>2. SamplerTypeOK'
  BY <1>0, <1>1 DEF SamplerTypeOK
<1>4. SlowRemembered'
  BY <1>0 DEF SlowRemembered
<1>5. UndecidedYoung'
  BY <1>0, <1>1 DEF UndecidedYoung
<1>6. LingeringBusy'
  BY ConsumerMoves
<1>7. SlowDecided'
  <2>1. wasSlow \subseteq Data /\ g \notin wasSlow
    BY <1>0 DEF SamplerTypeOK, SlowDecided
  <2> QED BY <1>0, <1>1, <2>1 DEF SlowDecided
<1> QED BY <1>2, <1>4, <1>5, <1>6, <1>7 DEF AdaptiveInv

\* A span turns out to be slow: its trace is stored under a key that the
\* ticker is not about to delete.
LEMMA SlowSpanInv ==
  ASSUME AdaptiveInv, NEW g \in Data, pc[g] = "spans",
         singleIds' = [singleIds EXCEPT ![TraceOf[g]] = 0],
         slowAge' = [slowAge EXCEPT ![TraceOf[g]] = 0],
         Decide(g, "slow"),
         UNCHANGED <<tpsVars, left, spans, wasSlow, tickVars, sampleValue>>
  PROVE  AdaptiveInv'
<1> USE DEF tpsVars, tickVars, Undecided
<1>0. /\ SamplerTypeOK /\ CountersHeld /\ CountersCount
      /\ SlowRemembered /\ UndecidedYoung /\ LingeringBusy /\ SlowDecided
  BY DEF AdaptiveInv
<1>1. pc' = [pc EXCEPT ![g] = "build"] /\ result' = [result EXCEPT ![g] = "slow"]
  BY DEF Decide
<1>2. /\ pc'[g] = "build" /\ \A h \in Data : h # g => pc'[h] = pc[h] /\ result'[h] = result[h]
      /\ pc' \in [Data -> {"new", "build", "forward", "done"} \cup Undecided]
      /\ result' \in [Data -> {"none", "sampled", "slow", "low", "drop"}]
  BY <1>0, <1>1 DEF SamplerTypeOK
<1> DEFINE k == TraceOf[g]
<1>3. k \in Key /\ ~(step = "singles" /\ k \in doomed)
  BY <1>0, Configured DEF UndecidedYoung
<1>4. /\ singleIds'[k] = 0 /\ slowAge'[k] = 0
      /\ \A j \in Key : j # k => singleIds'[j] = singleIds[j] /\ slowAge'[j] = slowAge[j]
  BY <1>0, <1>3 DEF SamplerTypeOK
<1>5. singleIds' \in [Key -> Absent .. HoldTime] /\ slowAge' \in [Key -> Absent .. HoldTime - 1]
  <2>1. 0 \in Absent .. HoldTime /\ 0 \in Absent .. HoldTime - 1
    BY Configured DEF Absent
  <2> QED BY <1>0, <1>3, <2>1 DEF SamplerTypeOK
<1> HIDE DEF k
<1>6. SamplerTypeOK'
  BY <1>0, <1>2, <1>5 DEF SamplerTypeOK
<1>7. CountersHeld' /\ CountersCount'
  BY <1>0, <1>2 DEF CountersHeld, CountersCount, UrlOf
<1>8. SlowRemembered'
  BY <1>0, <1>3, <1>4 DEF SlowRemembered
<1>9. UndecidedYoung'
  <2> SUFFICES ASSUME NEW h \in Data, pc'[h] \in Undecided
               PROVE  /\ singleIds'[TraceOf[h]] <= IF step = "singles" \/ h \in lingering THEN 1 ELSE 0
                      /\ ~(step = "singles" /\ TraceOf[h] \in doomed)
    BY DEF UndecidedYoung
  <2>1. pc[h] \in Undecided /\ TraceOf[h] \in Key
    BY <1>2, Configured
  <2>2. /\ singleIds[TraceOf[h]] <= IF step = "singles" \/ h \in lingering THEN 1 ELSE 0
        /\ ~(step = "singles" /\ TraceOf[h] \in doomed)
    BY <1>0, <2>1 DEF UndecidedYoung
  <2>3. singleIds'[TraceOf[h]] = singleIds[TraceOf[h]] \/ singleIds'[TraceOf[h]] = 0
    BY <1>4, <2>1
  <2> QED BY <2>2, <2>3
<1>10. LingeringBusy'
  BY <1>1, ConsumerMoves
<1>11. SlowDecided'
  <2>1. wasSlow \subseteq Data /\ g \notin wasSlow
    BY <1>0 DEF SamplerTypeOK, SlowDecided
  <2> QED BY <1>0, <1>2, <2>1 DEF SlowDecided
<1> QED BY <1>6, <1>7, <1>8, <1>9, <1>10, <1>11 DEF AdaptiveInv

\* One span of a group is looked at.
LEMMA SampleSpanInv ==
  ASSUME AdaptiveInv, NEW g \in Data, SampleSpan(g)
  PROVE  AdaptiveInv'
<1>0. SamplerTypeOK /\ CountersHeld /\ CountersCount
  BY DEF AdaptiveInv
<1>1. /\ pc[g] = "spans" /\ left[g] # <<>> /\ UNCHANGED <<spans, wasSlow, tickVars, sampleValue>>
      /\ UNCHANGED <<serviceTps, tps, serviceUrlCount, admitted, raced>>
  BY DEF SampleSpan
<1> DEFINE span == Head(left[g])
<1>2. left \in [Data -> Seq(Span)] /\ span \in Span
  BY <1>0, <1>1 DEF SamplerTypeOK
<1>3. span.url \in Url \cup {NoUrl}
  BY <1>2 DEF Span
<1>4. /\ admitted \in [Url -> Nat] /\ raced \in SUBSET Url
      /\ serviceTps \in [Url -> Counter \cup {NoCounter}] /\ serviceUrlCount \in 0 .. UrlLimit
      /\ held \in [Data -> Counter \cup {NoCounter}] /\ tps \in [Counter -> Nat]
      /\ result \in [Data -> {"none", "sampled", "slow", "low", "drop"}]
      /\ pc \in [Data -> {"new", "build", "forward", "done"} \cup Undecided]
  BY <1>0 DEF SamplerTypeOK
<1>9. held[g] = NoCounter
  BY <1>0, <1>1 DEF CountersHeld
<1>10. pc[g] \in Undecided
  BY <1>1 DEF Undecided
<1>5. CASE /\ singleIds' = [singleIds EXCEPT ![TraceOf[g]] = 0]
           /\ slowAge' = [slowAge EXCEPT ![TraceOf[g]] = 0]
           /\ Decide(g, "slow") /\ UNCHANGED <<left, held>>
  BY <1>1, <1>5, SlowSpanInv DEF tpsVars
<1>6. CASE left' = [left EXCEPT ![g] = Tail(left[g])] /\ UNCHANGED <<singleVars, pc, result, held>>
  <2>1. pc' = [pc EXCEPT ![g] = "spans"] /\ "spans" \in Undecided
    BY <1>1, <1>4, <1>6 DEF Undecided
  <2>2. left' \in [Data -> Seq(Span)] /\ \A h \in Data : h # g => left'[h] = left[h]
    BY <1>1, <1>2, <1>6
  <2>3. \A h \in Data : h # g => UrlOf(h)' = UrlOf(h)
    BY <2>2 DEF UrlOf
  <2>4. CountersHeld'
    BY <1>0, <1>1, <1>6, <1>9, <2>2, <2>3 DEF CountersHeld
  <2>5. CountersCount'
    BY <1>0, <1>1, <1>6, <1>9, <2>3 DEF CountersCount
  <2> QED BY <1>1, <1>4, <1>6, <1>10, <2>1, <2>2, <2>4, <2>5, UndecidedInv
<1>7. CASE /\ span.url # NoUrl /\ serviceTps[span.url] # NoCounter
           /\ held' = [held EXCEPT ![g] = serviceTps[span.url]]
           /\ pc' = [pc EXCEPT ![g] = "add"] /\ UNCHANGED <<singleVars, result, left>>
  <2>1. span.url \in Url /\ serviceTps[span.url] \in Counter /\ UrlOf(g) = span.url /\ "add" \in Undecided
    BY <1>3, <1>4, <1>7 DEF UrlOf, Undecided
  <2>2. /\ held' \in [Data -> Counter \cup {NoCounter}] /\ held'[g] = serviceTps[span.url]
        /\ \A h \in Data : h # g => held'[h] = held[h] /\ pc'[h] = pc[h]
        /\ pc'[g] = "add"
    BY <1>4, <1>7, <2>1
  <2>3. \A h \in Data : UrlOf(h)' = UrlOf(h)
    BY <1>7 DEF UrlOf
  <2>4. CountersHeld'
    BY <1>0, <1>1, <1>7, <2>1, <2>2, <2>3 DEF CountersHeld
  <2>5. CountersCount'
    BY <1>0, <1>1, <2>1, <2>2, <2>3 DEF CountersCount
  <2> QED BY <1>1, <1>2, <1>4, <1>7, <1>10, <2>1, <2>2, <2>4, <2>5, UndecidedInv
<1>8. CASE /\ span.url # NoUrl /\ pc' = [pc EXCEPT ![g] = "counter"]
           /\ UNCHANGED <<singleVars, result, left, held>>
  <2>1. UrlOf(g) \in Url /\ "counter" \in Undecided
    BY <1>3, <1>8 DEF UrlOf, Undecided
  <2>2. pc'[g] = "counter" /\ \A h \in Data : h # g => pc'[h] = pc[h]
    BY <1>4, <1>8
  <2>3. \A h \in Data : UrlOf(h)' = UrlOf(h)
    BY <1>8 DEF UrlOf
  <2>4. CountersHeld'
    BY <1>0, <1>1, <1>8, <1>9, <2>1, <2>2, <2>3 DEF CountersHeld
  <2>5. CountersCount'
    BY <1>0, <1>1, <1>8, <2>3 DEF CountersCount
  <2> QED BY <1>1, <1>2, <1>4, <1>8, <1>10, <2>1, <2>4, <2>5, UndecidedInv
<1> QED BY <1>1, <1>5, <1>6, <1>7, <1>8 DEF SampleSpan

\* A new counter is stored: the first of its url, or one over another.
LEMMA StoreCounterInv ==
  ASSUME AdaptiveInv, NEW g \in Data, StoreCounter(g)
  PROVE  AdaptiveInv'
<1> USE DEF groupVars
<1>0. SamplerTypeOK /\ CountersHeld /\ CountersCount
  BY DEF AdaptiveInv
<1> DEFINE u == UrlOf(g)
<1>1. PICK c \in Fresh :
        /\ serviceTps' = [serviceTps EXCEPT ![u] = c] /\ tps' = [tps EXCEPT ![c] = 0]
        /\ held' = [held EXCEPT ![g] = c]
        /\ raced' = IF serviceTps[u] # NoCounter THEN raced \cup {u} ELSE raced
        /\ pc[g] = "counter" /\ pc' = [pc EXCEPT ![g] = "count"]
        /\ UNCHANGED <<serviceUrlCount, admitted, singleVars, result, left, spans, wasSlow, tickVars, sampleValue>>
  BY DEF StoreCounter
<1>2. left[g] # <<>> /\ u \in Url
  BY <1>0, <1>1 DEF CountersHeld
<1>3. /\ c \in Counter /\ c # NoCounter /\ \A v \in Url : serviceTps[v] # c
      /\ "count" \in Undecided /\ pc[g] \in Undecided
  BY <1>1, Configured DEF Fresh, Undecided
<1>4. \A h \in Data : UrlOf(h)' = UrlOf(h)
  BY <1>1 DEF UrlOf
<1> HIDE DEF u
<1>5. /\ serviceTps' \in [Url -> Counter \cup {NoCounter}] /\ serviceTps'[u] = c
      /\ \A v \in Url : v # u => serviceTps'[v] = serviceTps[v]
      /\ tps' \in [Counter -> Nat] /\ tps'[c] = 0 /\ \A d \in Counter : d # c => tps'[d] = tps[d]
      /\ held' \in [Data -> Counter \cup {NoCounter}] /\ held'[g] = c
      /\ \A h \in Data : h # g => held'[h] = held[h] /\ pc'[h] = pc[h]
      /\ pc'[g] = "count" /\ raced' \in SUBSET Url /\ raced \subseteq raced'
  BY <1>0, <1>1, <1>2, <1>3 DEF SamplerTypeOK
<1>6. CountersHeld'
  BY <1>0, <1>1, <1>2, <1>3, <1>4, <1>5 DEF CountersHeld, u
<1>7. u \notin raced' => serviceTps[u] = NoCounter /\ u \notin raced
  BY <1>1
<1>8. ASSUME NEW h \in Data, held'[h] # NoCounter, UrlOf(h) \notin raced'
      PROVE  held'[h] = serviceTps'[UrlOf(h)]
  <2>1. CASE h = g
    BY <1>5, <2>1 DEF u
  <2>2. CASE h # g
    <3>1. held'[h] = held[h] /\ held[h] = serviceTps[UrlOf(h)]
      BY <1>0, <1>5, <1>8, <2>2 DEF CountersCount
    <3>2. pc[h] \in {"count", "add"} /\ UrlOf(h) \in Url
      BY <1>0, <1>8, <3>1 DEF CountersHeld
    <3>3. UrlOf(h) # u
      BY <1>7, <1>8, <3>1
    <3> QED BY <1>5, <3>1, <3>2, <3>3
  <2> QED BY <2>1, <2>2
<1>9. ASSUME NEW v \in Url \ raced'
      PROVE  /\ admitted[v] <= WindowCount
             /\ admitted[v] <= IF serviceTps'[v] = NoCounter THEN 0 ELSE tps'[serviceTps'[v]]
  <2>1. /\ admitted[v] <= WindowCount
        /\ admitted[v] <= IF serviceTps[v] = NoCounter THEN 0 ELSE tps[serviceTps[v]]
    BY <1>0, <1>5 DEF CountersCount
  <2>2. CASE v = u
    BY <1>3, <1>5, <1>7, <2>1, <2>2
  <2>3. CASE v # u
    <3>1. serviceTps'[v] = serviceTps[v] /\ serviceTps[v] # c /\ serviceTps[v] \in Counter \cup {NoCounter}
      BY <1>0, <1>3, <1>5, <2>3 DEF SamplerTypeOK
    <3> QED BY <1>5, <2>1, <3>1
  <2> QED BY <2>2, <2>3
<1>10. CountersCount'
  BY <1>1, <1>4, <1>8, <1>9 DEF CountersCount
<1>11. /\ left \in [Data -> Seq(Span)] /\ admitted \in [Url -> Nat] /\ serviceUrlCount \in 0 .. UrlLimit
       /\ result \in [Data -> {"none", "sampled", "slow", "low", "drop"}]
  BY <1>0 DEF SamplerTypeOK
<1> QED BY <1>1, <1>3, <1>5, <1>6, <1>10, <1>11, UndecidedInv

\* The new counter is counted.
LEMMA AddUrlCountInv ==
  ASSUME AdaptiveInv, NEW g \in Data, AddUrlCount(g)
  PROVE  AdaptiveInv'
<1> USE DEF groupVars
<1>0. SamplerTypeOK /\ CountersHeld /\ CountersCount
  BY DEF AdaptiveInv
<1>1. /\ pc[g] = "count" /\ pc' = [pc EXCEPT ![g] = "add"]
      /\ UNCHANGED <<serviceTps, tps, held, admitted, raced, singleVars, result, left, spans, wasSlow, tickVars,
                     sampleValue>>
  BY DEF AddUrlCount
<1>2. serviceUrlCount' \in 0 .. UrlLimit
  BY <1>0, Configured DEF AddUrlCount, SamplerTypeOK
<1>3. pc'[g] = "add" /\ \A h \in Data : h # g => pc'[h] = pc[h]
  BY <1>0, <1>1 DEF SamplerTypeOK
<1>4. "add" \in Undecided /\ pc[g] \in Undecided
  BY <1>1 DEF Undecided
<1>5. CountersHeld' /\ CountersCount'
  BY <1>0, <1>1, <1>3 DEF CountersHeld, CountersCount, UrlOf
<1>6. /\ serviceTps \in [Url -> Counter \cup {NoCounter}] /\ held \in [Data -> Counter \cup {NoCounter}]
      /\ tps \in [Counter -> Nat] /\ left \in [Data -> Seq(Span)]
      /\ admitted \in [Url -> Nat] /\ raced \in SUBSET Url
      /\ result \in [Data -> {"none", "sampled", "slow", "low", "drop"}]
  BY <1>0 DEF SamplerTypeOK
<1> QED BY <1>1, <1>2, <1>4, <1>5, <1>6, UndecidedInv

\* A consumer counts in the counter it has in hand.
LEMMA AddTpsInv ==
  ASSUME AdaptiveInv, NEW g \in Data, AddTps(g)
  PROVE  AdaptiveInv'
<1>0. SamplerTypeOK /\ CountersHeld /\ CountersCount
  BY DEF AdaptiveInv
<1> DEFINE u == UrlOf(g)
           c == held[g]
           n == tps[held[g]] + 1
<1>1. /\ pc[g] = "add" /\ tps' = [tps EXCEPT ![c] = n] /\ held' = [held EXCEPT ![g] = NoCounter]
      /\ UNCHANGED <<serviceTps, serviceUrlCount, raced, singleVars, spans, wasSlow, tickVars, sampleValue>>
      /\ \/ /\ n <= WindowCount /\ left' = left
            /\ admitted' = [admitted EXCEPT ![u] = admitted[u] + 1]
            /\ result' = [result EXCEPT ![g] = "low"] /\ pc' = [pc EXCEPT ![g] = "build"]
         \/ /\ left' = [left EXCEPT ![g] = Tail(left[g])] /\ pc' = [pc EXCEPT ![g] = "spans"]
            /\ UNCHANGED <<admitted, result>>
  BY DEF AddTps, CountUrl, Decide
<1>2. left[g] # <<>> /\ u \in Url /\ c # NoCounter
  BY <1>0, <1>1 DEF CountersHeld
<1>3. /\ c \in Counter /\ tps[c] \in Nat /\ n = tps[c] + 1 /\ n \in Nat /\ WindowCount \in Nat
      /\ NoCounter \notin Counter /\ pc[g] \in Undecided
  BY <1>0, <1>1, <1>2, Configured DEF SamplerTypeOK, Undecided
<1> HIDE DEF u, c, n
<1>4. /\ tps' \in [Counter -> Nat] /\ tps'[c] = n /\ \A d \in Counter : d # c => tps'[d] = tps[d]
      /\ held' \in [Data -> Counter \cup {NoCounter}] /\ held'[g] = NoCounter
      /\ \A h \in Data : h # g => held'[h] = held[h]
  BY <1>0, <1>1, <1>3 DEF SamplerTypeOK
<1>5. /\ left' \in [Data -> Seq(Span)] /\ \A h \in Data : h # g => left'[h] = left[h]
  <2>1. left \in [Data -> Seq(Span)] /\ Tail(left[g]) \in Seq(Span)
    BY <1>0, <1>2 DEF SamplerTypeOK
  <2> QED BY <1>1, <2>1
<1>6. /\ result' \in [Data -> {"none", "sampled", "slow", "low", "drop"}]
      /\ \A h \in Data : h # g => result'[h] = result[h]
  BY <1>0, <1>1 DEF SamplerTypeOK
<1>7. PICK q \in {"spans", "build"} : pc' = [pc EXCEPT ![g] = q]
  BY <1>1
<1>8. pc'[g] = q /\ \A h \in Data : h # g => pc'[h] = pc[h] /\ UrlOf(h)' = UrlOf(h)
  BY <1>0, <1>5, <1>7 DEF SamplerTypeOK, UrlOf
<1>9. /\ admitted' \in [Url -> Nat] /\ admitted \in [Url -> Nat]
      /\ \A v \in Url : v # u => admitted'[v] = admitted[v]
      /\ admitted'[u] = admitted[u] \/ (admitted'[u] = admitted[u] + 1 /\ n <= WindowCount)
  <2>1. admitted \in [Url -> Nat] /\ admitted[u] + 1 \in Nat
    BY <1>0, <1>2 DEF SamplerTypeOK
  <2> QED BY <1>1, <1>2, <2>1
<1>10. CountersHeld'
  BY <1>0, <1>4, <1>5, <1>8 DEF CountersHeld
<1>11. ASSUME NEW h \in Data, held'[h] # NoCounter, UrlOf(h)' \notin raced
       PROVE  held'[h] = serviceTps[UrlOf(h)']
  <2>1. h # g
    BY <1>4, <1>11
  <2> QED BY <1>0, <1>4, <1>8, <1>11, <2>1 DEF CountersCount
<1>12. ASSUME NEW v \in Url \ raced
       PROVE  /\ admitted'[v] <= WindowCount
              /\ admitted'[v] <= IF serviceTps[v] = NoCounter THEN 0 ELSE tps'[serviceTps[v]]
  <2>1. /\ admitted[v] <= WindowCount
        /\ admitted[v] <= IF serviceTps[v] = NoCounter THEN 0 ELSE tps[serviceTps[v]]
    BY <1>0 DEF CountersCount
  <2>2. CASE v = u
    <3>1. serviceTps[v] = c
      BY <1>0, <1>2, <2>2 DEF CountersCount, c, u
    <3>2. admitted[v] <= tps[c] /\ admitted[v] \in Nat
      BY <1>3, <1>9, <2>1, <3>1
    <3>3. admitted'[v] <= n /\ admitted'[v] <= WindowCount
      BY <1>3, <1>9, <2>1, <2>2, <3>2
    <3> QED BY <1>2, <1>4, <3>1, <3>3
  <2>3. CASE v # u
    <3>1. serviceTps[v] \in Counter \cup {NoCounter} /\ admitted'[v] = admitted[v] /\ admitted[v] \in Nat
      BY <1>0, <1>9, <2>3 DEF SamplerTypeOK
    <3>2. CASE serviceTps[v] = c
      BY <1>2, <1>3, <1>4, <2>1, <3>1, <3>2
    <3>3. CASE serviceTps[v] # c
      BY <1>4, <2>1, <3>1, <3>3
    <3> QED BY <3>2, <3>3
  <2> QED BY <2>2, <2>3
<1>13. CountersCount'
  BY <1>1, <1>11, <1>12 DEF CountersCount
<1>14. /\ serviceTps' \in [Url -> Counter \cup {NoCounter}] /\ serviceUrlCount' \in 0 .. UrlLimit
       /\ raced' \in SUBSET Url /\ q \in {"build", "done"} \cup Undecided
  BY <1>0, <1>1, <1>7 DEF SamplerTypeOK, Undecided
<1> QED BY <1>1, <1>3, <1>4, <1>5, <1>6, <1>7, <1>9, <1>10, <1>13, <1>14, UndecidedInv

\* Every span was looked at.
LEMMA DropInv ==
  ASSUME AdaptiveInv, NEW g \in Data, Drop(g)
  PROVE  AdaptiveInv'
<1>0. SamplerTypeOK /\ CountersHeld /\ CountersCount
  BY DEF AdaptiveInv
<1>1. /\ pc[g] = "spans" /\ pc' = [pc EXCEPT ![g] = "done"] /\ result' = [result EXCEPT ![g] = "drop"]
      /\ UNCHANGED <<serviceTps, tps, held, serviceUrlCount, admitted, raced, left, spans, wasSlow, sampleValue>>
      /\ UNCHANGED singleVars /\ UNCHANGED tickVars
  BY DEF Drop, Decide, tpsVars, groupVars
<1>2. /\ result' \in [Data -> {"none", "sampled", "slow", "low", "drop"}]
      /\ \A h \in Data : h # g => result'[h] = result[h]
      /\ left \in [Data -> Seq(Span)] /\ admitted \in [Url -> Nat] /\ raced \in SUBSET Url
      /\ serviceTps \in [Url -> Counter \cup {NoCounter}] /\ serviceUrlCount \in 0 .. UrlLimit
      /\ held \in [Data -> Counter \cup {NoCounter}] /\ tps \in [Counter -> Nat]
  BY <1>0, <1>1 DEF SamplerTypeOK
<1>3. pc'[g] = "done" /\ \A h \in Data : h # g => pc'[h] = pc[h]
  BY <1>0, <1>1 DEF SamplerTypeOK
<1>4. CountersHeld' /\ CountersCount'
  BY <1>0, <1>1, <1>3 DEF CountersHeld, CountersCount, UrlOf
<1>5. pc[g] \in Undecided
  BY <1>1 DEF Undecided
<1> QED BY <1>1, <1>2, <1>4, <1>5, UndecidedInv

\* The range over singleIds: the traces it is going to delete are not slow any
\* more, and no consumer is about to find them slow again.
LEMMA AgeSinglesInv ==
  ASSUME AdaptiveInv, AgeSingles, step \in {"reset", "drop", "zero"},
         UNCHANGED <<held, consumerVars, lingering, sampleValue, serviceUrlCount>>,
         currentWindow' \in 0 .. Window, ranged' \in [Url -> Counter \cup {NoCounter}],
         serviceTps' \in [Url -> Counter \cup {NoCounter}], tps' \in [Counter -> Nat],
         admitted' \in [Url -> Nat], raced' \in SUBSET Url, CountersCount'
  PROVE  AdaptiveInv'
<1> USE DEF consumerVars, groupVars, Undecided
<1>0. /\ SamplerTypeOK /\ CountersHeld
      /\ SlowRemembered /\ UndecidedYoung /\ LingeringBusy /\ SlowDecided
  BY DEF AdaptiveInv
<1>1. /\ step # "singles" /\ step # "idle" /\ step' = "singles"
      /\ singleIds' = [k \in Key |-> Older(singleIds[k])]
      /\ doomed' = {k \in Key : singleIds'[k] >= HoldTime}
      /\ slowAge' = [k \in Key |-> IF slowAge[k] \in {Absent, HoldTime - 1} THEN Absent ELSE slowAge[k] + 1]
  BY DEF AgeSingles
<1>2. HoldTime \in Nat /\ HoldTime >= 2
  BY Configured
<1>3. \A k \in Key : slowAge[k] = singleIds[k] /\ slowAge[k] \in -1 .. HoldTime - 1
  BY <1>0, <1>1 DEF SlowRemembered, SamplerTypeOK, Absent
<1>4. ASSUME NEW k \in Key
      PROVE  /\ singleIds'[k] \in -1 .. HoldTime /\ slowAge'[k] \in -1 .. HoldTime - 1
             /\ k \in doomed' => singleIds'[k] = HoldTime /\ slowAge'[k] = -1
             /\ k \notin doomed' => slowAge'[k] = singleIds'[k]
             /\ singleIds[k] <= 0 => singleIds'[k] <= 1 /\ k \notin doomed'
  <2> DEFINE a == singleIds[k]
  <2>1. /\ a \in -1 .. HoldTime - 1
        /\ singleIds'[k] = IF a = -1 THEN -1 ELSE a + 1
        /\ slowAge'[k] = IF a = -1 \/ a = HoldTime - 1 THEN -1 ELSE a + 1
        /\ k \in doomed' <=> singleIds'[k] >= HoldTime
    BY <1>1, <1>3 DEF Older, Absent
  <2> HIDE DEF a
  <2>2. /\ singleIds'[k] \in -1 .. HoldTime /\ slowAge'[k] \in -1 .. HoldTime - 1
        /\ k \in doomed' => singleIds'[k] = HoldTime /\ slowAge'[k] = -1
        /\ k \notin doomed' => slowAge'[k] = singleIds'[k]
        /\ a <= 0 => singleIds'[k] <= 1 /\ k \notin doomed'
    BY <1>2, <2>1
  <2> QED BY <2>2 DEF a
<1>5. singleIds' \in [Key -> Absent .. HoldTime] /\ slowAge' \in [Key -> Absent .. HoldTime - 1]
  BY <1>1, <1>4 DEF Absent
<1>7. SamplerTypeOK'
  BY <1>0, <1>1, <1>5 DEF SamplerTypeOK
<1>8. CountersHeld'
  BY <1>0 DEF CountersHeld, UrlOf
<1>9. SlowRemembered'
  <2>1. HoldTime # -1
    BY <1>2
  <2> QED BY <1>1, <1>4, <2>1 DEF SlowRemembered, Absent
<1>10. UndecidedYoung'
  <2> SUFFICES ASSUME NEW g \in Data, pc[g] \in Undecided
               PROVE  singleIds'[TraceOf[g]] <= 1 /\ TraceOf[g] \notin doomed'
    BY <1>1 DEF UndecidedYoung
  <2>1. g \notin lingering
    BY <1>0, <1>1 DEF LingeringBusy, Busy
  <2>2. singleIds[TraceOf[g]] <= 0 /\ TraceOf[g] \in Key
    BY <1>0, <1>1, <2>1, Configured DEF UndecidedYoung
  <2> QED BY <1>4, <2>2
<1>11. LingeringBusy' /\ SlowDecided'
  BY <1>0, <1>1 DEF LingeringBusy, Busy, SlowDecided
<1> QED BY <1>7, <1>8, <1>9, <1>10, <1>11 DEF AdaptiveInv

\* AdaptiveSampler.Reset begins: the window ends, or the traces age at once.
LEMMA ResetInv ==
  ASSUME AdaptiveInv, Reset
  PROVE  AdaptiveInv'
<1>0. SamplerTypeOK /\ CountersCount
  BY DEF AdaptiveInv
<1>1. /\ step = "reset"
      /\ UNCHANGED <<serviceTps, tps, held, serviceUrlCount, admitted, raced, consumerVars, lingering, sampleValue>>
  BY DEF Reset, tpsVars
<1>2. CASE /\ currentWindow' = 0 /\ ranged' = serviceTps
           /\ step' \in {"drop", "zero"} /\ UNCHANGED <<singleVars, doomed>>
  <2>1. currentWindow' \in 0 .. Window
    BY <1>2, Configured
  <2> QED BY <1>0, <1>1, <1>2, <2>1, AdaptiveFrame DEF SamplerTypeOK
<1>3. CASE currentWindow + 1 < Window /\ currentWindow' = currentWindow + 1 /\ AgeSingles /\ UNCHANGED ranged
  <2>1. currentWindow' \in 0 .. Window
    BY <1>0, <1>3, Configured DEF SamplerTypeOK
  <2>2. CountersCount'
    BY <1>0, <1>1 DEF CountersCount, UrlOf, consumerVars, groupVars
  <2> QED BY <1>0, <1>1, <1>3, <2>1, <2>2, AgeSinglesInv DEF SamplerTypeOK
<1> QED BY <1>2, <1>3 DEF Reset

\* The counters are deleted or set back.  A url of which someone has a deleted
\* counter in hand is set apart, everyone else's count begins anew.
LEMMA ResetCountersInv ==
  ASSUME AdaptiveInv, ResetCounters
  PROVE  AdaptiveInv'
<1> USE DEF consumerVars, groupVars
<1>0. SamplerTypeOK /\ CountersHeld
  BY DEF AdaptiveInv
<1>1. /\ step \in {"drop", "zero"} /\ AgeSingles
      /\ serviceTps' = [u \in Url |-> IF step = "drop" /\ ranged[u] # NoCounter THEN NoCounter ELSE serviceTps[u]]
      /\ tps' = [c \in Counter |-> IF step = "zero" /\ \E u \in Url : c = ranged[u] THEN 0 ELSE tps[c]]
      /\ ranged' = [u \in Url |-> NoCounter] /\ admitted' = [u \in Url |-> 0]
      /\ raced' = {u \in Url : \E g \in Data : held[g] # NoCounter /\ UrlOf(g) = u /\ held[g] # serviceTps'[u]}
      /\ UNCHANGED <<held, serviceUrlCount, consumerVars, currentWindow, lingering, sampleValue>>
  BY DEF ResetCounters
<1>2. serviceTps' \in [Url -> Counter \cup {NoCounter}] /\ ranged' \in [Url -> Counter \cup {NoCounter}]
  BY <1>0, <1>1 DEF SamplerTypeOK
<1>3. tps' \in [Counter -> Nat]
  BY <1>0, <1>1 DEF SamplerTypeOK
<1>4. admitted' \in [Url -> Nat] /\ raced' \in SUBSET Url /\ currentWindow' \in 0 .. Window
  BY <1>0, <1>1 DEF SamplerTypeOK
<1>5. \A g \in Data : UrlOf(g)' = UrlOf(g)
  BY <1>1 DEF UrlOf
<1>6. ASSUME NEW g \in Data, held[g] # NoCounter, UrlOf(g) \notin raced'
      PROVE  held[g] = serviceTps'[UrlOf(g)]
  <2>1. UrlOf(g) \in Url
    BY <1>0, <1>6 DEF CountersHeld
  <2> QED BY <1>1, <1>6, <2>1
<1>7. ASSUME NEW u \in Url
      PROVE  /\ admitted'[u] <= WindowCount
             /\ admitted'[u] <= IF serviceTps'[u] = NoCounter THEN 0 ELSE tps'[serviceTps'[u]]
  <2>1. admitted'[u] = 0 /\ WindowCount \in Nat
    BY <1>1, Configured
  <2>2. serviceTps'[u] # NoCounter => tps'[serviceTps'[u]] \in Nat
    BY <1>2, <1>3
  <2> QED BY <2>1, <2>2
<1>8. CountersCount'
  BY <1>1, <1>5, <1>6, <1>7 DEF CountersCount
<1> QED BY <1>1, <1>2, <1>3, <1>4, <1>8, AgeSinglesInv

\* The traces held long enough are deleted, and the tick ends.
LEMMA DeleteSinglesInv ==
  ASSUME AdaptiveInv, DeleteSingles
  PROVE  AdaptiveInv'
<1> USE DEF consumerVars, groupVars, tpsVars, Undecided
<1>0. /\ SamplerTypeOK /\ CountersHeld /\ CountersCount
      /\ SlowRemembered /\ UndecidedYoung /\ LingeringBusy /\ SlowDecided
  BY DEF AdaptiveInv
<1>1. /\ step = "singles" /\ step' = "idle" /\ doomed' = {} /\ lingering' = Busy
      /\ singleIds' = [k \in Key |-> IF k \in doomed THEN Absent ELSE singleIds[k]]
      /\ UNCHANGED <<tpsVars, slowAge, consumerVars, currentWindow, ranged, sampleValue>>
  BY DEF DeleteSingles
<1>2. singleIds' \in [Key -> Absent .. HoldTime]
  <2>1. Absent \in Absent .. HoldTime
    BY Configured DEF Absent
  <2> QED BY <1>0, <1>1, <2>1 DEF SamplerTypeOK
<1>3. Busy \subseteq Data /\ \A g \in Busy : pc[g] # "new"
  BY DEF Busy
<1>4. SamplerTypeOK'
  BY <1>0, <1>1, <1>2, <1>3 DEF SamplerTypeOK
<1>5. CountersHeld' /\ CountersCount' /\ SlowDecided'
  BY <1>0, <1>1 DEF CountersHeld, CountersCount, SlowDecided, UrlOf
<1>6. SlowRemembered'
  BY <1>0, <1>1 DEF SlowRemembered
<1>7. UndecidedYoung'
  <2> SUFFICES ASSUME NEW g \in Data, pc[g] \in Undecided
               PROVE  singleIds'[TraceOf[g]] <= IF g \in Busy THEN 1 ELSE 0
    BY <1>1 DEF UndecidedYoung
  <2>1. TraceOf[g] \in Key /\ TraceOf[g] \notin doomed /\ singleIds[TraceOf[g]] <= 1
    BY <1>0, <1>1, Configured DEF UndecidedYoung
  <2>2. g \in Busy
    BY DEF Busy
  <2> QED BY <1>1, <2>1, <2>2
<1>8. LingeringBusy'
  BY <1>1, <1>3 DEF LingeringBusy
<1> QED BY <1>4, <1>5, <1>6, <1>7, <1>8 DEF AdaptiveInv

\* Every step of consumers and tickers.
LEMMA AdaptiveStepInv == AdaptiveInv /\ [Next]_vars => AdaptiveInv'
BY SampleInv, SampleSpanInv, StoreCounterInv, AddUrlCountInv, AddTpsInv, DropInv, DecidedInv, OthersInv, ResetInv,
   ResetCountersInv, DeleteSinglesInv
   DEF Next, Consume, CleanOtelTraceOnTick

\* The invariant holds in every reachable state.
THEOREM AdaptiveInvariant == Spec => []AdaptiveInv
BY AdaptiveInitInv, AdaptiveStepInv, PTL DEF Spec

\* CheckLowUrl lets at most service_sample_count groups of a url through in a
\* window, however many consumers load, store and count at once and wherever
\* Reset falls between these steps, unless a counter of the url got lost: one
\* was stored over another, or was deleted while a consumer had it in hand.
THEOREM UrlsBounded == Spec => []LowUrlBounded
<1>1. AdaptiveInv => LowUrlBounded
  BY DEF AdaptiveInv, CountersCount, LowUrlBounded
<1> QED BY <1>1, AdaptiveInvariant, PTL

\* No part of a trace that was found slow less than traceid_holdtime seconds
\* ago is dropped, although Reset deletes keys that it found expired earlier.
THEOREM SlowKept == Spec => []SlowTracesKept
<1>1. AdaptiveInv => SlowTracesKept
  BY DEF AdaptiveInv, SlowDecided, SlowTracesKept
<1> QED BY <1>1, AdaptiveInvariant, PTL
=============================================================================
