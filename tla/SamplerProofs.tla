----------------------------- MODULE SamplerProofs -----------------------------
(***************************************************************************)
(* Proofs about the samplers of the backsampling processor, which take no  *)
(* lock: the count of Silent and the spacing of NormalSampler, for any     *)
(* number of consumers and urls and every configuration.                   *)
(***************************************************************************)
EXTENDS MCSilent, TLAPS

-----------------------------------------------------------------------------
(***************************************************************************)
(* Silent.                                                                 *)
(***************************************************************************)

\* The invariant holds before the first span.
LEMMA SilentInitInv == Init => SilentInv
<1> SUFFICES ASSUME Init PROVE SilentInv
  OBVIOUS
<1> USE SilentAssumption DEF Init
<1>1. TypeOK
  <2>1. (CHOOSE u \in Url : TRUE) \in Url
    OBVIOUS
  <2>2. url \in [Caller -> Url]
    BY <2>1
  <2>3. /\ pidUrlDatas \in [Url -> Object \cup {NoObject}] /\ leftCount \in [Object -> Int]
        /\ object \in [Caller -> Object \cup {NoObject}] /\ left \in [Caller -> Int]
        /\ admitted \in [Url -> Nat] /\ silentTime \in [Object -> {Never} \cup 0 .. Long]
    OBVIOUS
  <2>4. pc \in [Caller -> {"idle", "store", "read", "last", "decrement"}] /\ nextWindow \in {Never} \cup 0 .. Period
    OBVIOUS
  <2> QED BY <2>2, <2>3, <2>4 DEF TypeOK
<1>2. ObjectsApart /\ CallsApart
  BY DEF ObjectsApart, CallsApart, Calling
<1>3. LeftCounts /\ ReadsFresh
  BY DEF LeftCounts, ReadsFresh
<1> QED BY <1>1, <1>2, <1>3 DEF SilentInv

\* Time passes, or the ticker ranges over the urls.
LEMMA SilentFrame ==
  ASSUME SilentInv, Second \/ CheckAndResetSilent \/ UNCHANGED vars
  PROVE  SilentInv'
<1>0. TypeOK /\ ObjectsApart /\ CallsApart /\ LeftCounts /\ ReadsFresh
  BY DEF SilentInv
<1>1. UNCHANGED <<mode, pidUrlDatas, leftCount, pc, url, object, left, admitted, overlapped>>
  BY DEF Second, CheckAndResetSilent, vars
<1>2. TypeOK'
  <2>1. nextWindow' \in {Never} \cup 0 .. Period
    BY <1>0, SilentAssumption DEF Second, CheckAndResetSilent, vars, TypeOK, Never
  <2>2. silentTime' \in [Object -> {Never} \cup 0 .. Long]
    <3>1. CASE Second
      <4>1. \A o \in Object : (IF silentTime[o] \in 0 .. Period THEN silentTime[o] + 1 ELSE silentTime[o])
                                \in {Never} \cup 0 .. Long
        BY <1>0, SilentAssumption DEF TypeOK, Long, Never
      <4> QED BY <3>1, <4>1 DEF Second
    <3> QED BY <1>0, <3>1 DEF CheckAndResetSilent, vars, TypeOK
  <2>3. doomed' \in SUBSET Url
    BY <1>0 DEF Second, CheckAndResetSilent, vars, TypeOK
  <2> QED BY <1>0, <1>1, <2>1, <2>2, <2>3 DEF TypeOK
<1>3. ObjectsApart' /\ CallsApart'
  BY <1>0, <1>1 DEF ObjectsApart, CallsApart, Calling
<1>4. LeftCounts' /\ ReadsFresh'
  BY <1>0, <1>1 DEF LeftCounts, ReadsFresh
<1> QED BY <1>2, <1>3, <1>4 DEF SilentInv

\* A caller loads the SilentData of its url.
LEMMA LoadInv ==
  ASSUME SilentInv, NEW c \in Caller, NEW u \in Url, Load(c, u)
  PROVE  SilentInv'
<1>0. TypeOK /\ ObjectsApart /\ CallsApart /\ LeftCounts /\ ReadsFresh
  BY DEF SilentInv
<1>1. /\ UNCHANGED <<mode, pidUrlDatas, leftCount, silentTime, nextWindow, left, doomed, admitted>>
      /\ pc[c] = "idle"
      /\ overlapped' = IF Calling(u) = {} THEN overlapped ELSE overlapped \cup {u}
  BY DEF Load
<1>2. /\ url'[c] = u /\ object'[c] = pidUrlDatas[u]
      /\ pc'[c] = IF pidUrlDatas[u] = NoObject THEN "store" ELSE "read"
      /\ \A d \in Caller : d # c => url'[d] = url[d] /\ object'[d] = object[d] /\ pc'[d] = pc[d]
  BY <1>0 DEF Load, TypeOK
<1>3. TypeOK'
  <2>1. pidUrlDatas[u] \in Object \cup {NoObject}
    BY <1>0 DEF TypeOK
  <2> QED BY <1>0, <1>1, <2>1 DEF Load, TypeOK
<1>4. ObjectsApart'
  BY <1>0, <1>1, <1>2 DEF ObjectsApart
<1>5. CallsApart'
  <2> SUFFICES ASSUME NEW v \in Url, v \notin overlapped', NEW d \in Calling(v)', NEW e \in Calling(v)'
               PROVE  d = e
    BY DEF CallsApart
  <2>1. d \in Caller /\ e \in Caller /\ url'[d] = v /\ url'[e] = v /\ pc'[d] # "idle" /\ pc'[e] # "idle"
    BY DEF Calling
  <2>2. v \notin overlapped /\ (v = u => Calling(u) = {})
    BY <1>1
  <2>3. CASE v = u
    BY <1>2, <2>1, <2>2, <2>3 DEF Calling
  <2>4. CASE v # u
    <3>1. d \in Calling(v) /\ e \in Calling(v)
      BY <1>2, <2>1, <2>4 DEF Calling
    <3> QED BY <1>0, <2>2, <3>1 DEF CallsApart
  <2> QED BY <2>3, <2>4
<1>6. LeftCounts'
  BY <1>0, <1>1 DEF LeftCounts
<1>7. ReadsFresh'
  <2>1. overlapped \subseteq overlapped'
    BY <1>1
  <2> QED BY <1>0, <1>1, <1>2, <2>1 DEF ReadsFresh
<1> QED BY <1>3, <1>4, <1>5, <1>6, <1>7 DEF SilentInv

\* The ticker deletes the SilentData of the urls it found expired.
LEMMA DeleteExpiredInv ==
  ASSUME SilentInv, DeleteExpired
  PROVE  SilentInv'
<1>0. TypeOK /\ ObjectsApart /\ CallsApart /\ LeftCounts /\ ReadsFresh
  BY DEF SilentInv
<1>1. /\ UNCHANGED <<mode, leftCount, silentTime, nextWindow, pc, url, object, left>>
      /\ doomed' = {}
      /\ pidUrlDatas' = [u \in Url |-> IF u \in doomed THEN NoObject ELSE pidUrlDatas[u]]
      /\ admitted' = [u \in Url |-> IF u \in doomed THEN 0 ELSE admitted[u]]
      /\ overlapped' = {u \in overlapped : u \in doomed => \E c, d \in Calling(u) : c # d}
  BY DEF DeleteExpired
<1>2. TypeOK'
  BY <1>0, <1>1 DEF TypeOK
<1>3. \A u \in Url : /\ u \in doomed => pidUrlDatas'[u] = NoObject /\ admitted'[u] = 0
                     /\ u \notin doomed => pidUrlDatas'[u] = pidUrlDatas[u] /\ admitted'[u] = admitted[u]
  BY <1>1
<1>4. \A u \in Url \ overlapped' : u \in doomed \/ u \notin overlapped
  BY <1>1
<1>5. ObjectsApart'
  BY <1>0, <1>1, <1>3 DEF ObjectsApart
<1>6. CallsApart'
  <2>1. \A u \in Url : Calling(u)' = Calling(u)
    BY <1>1 DEF Calling
  <2>2. \A u \in Url \ overlapped' : u \notin overlapped \/ \A c, d \in Calling(u) : c = d
    BY <1>1
  <2> QED BY <1>0, <2>1, <2>2 DEF CallsApart
<1>7. LeftCounts'
  BY <1>0, <1>1, <1>3, <1>4 DEF LeftCounts
<1>8. ReadsFresh'
  <2>1. \A c \in Caller : url[c] \in Url /\ (pc[c] \notin {"idle", "store"} => object[c] # NoObject)
    BY <1>0 DEF TypeOK, ObjectsApart
  <2> QED BY <1>0, <1>1, <1>3, <1>4, <2>1 DEF ReadsFresh
<1> QED BY <1>2, <1>5, <1>6, <1>7, <1>8 DEF SilentInv

\* checkSilent reads the count.
LEMMA ReadInv ==
  ASSUME SilentInv, NEW c \in Caller, Read(c)
  PROVE  SilentInv'
<1>0. TypeOK /\ ObjectsApart /\ CallsApart /\ LeftCounts /\ ReadsFresh
  BY DEF SilentInv
<1> DEFINE n == leftCount[object[c]]
<1>1. /\ UNCHANGED <<mode, pidUrlDatas, leftCount, silentTime, nextWindow, url, doomed, admitted, overlapped>>
      /\ pc[c] = "read"
      /\ \/ Return(c)
         \/ /\ pc' = [pc EXCEPT ![c] = IF n = 1 THEN "last" ELSE "decrement"]
            /\ left' = [left EXCEPT ![c] = n] /\ ~(n <= 0) /\ object' = object
  BY DEF Read
<1>2. object[c] \in Object /\ n \in Int
  BY <1>0, <1>1 DEF TypeOK, ObjectsApart
<1> HIDE DEF n
<1>3. /\ \A d \in Caller : d # c => pc'[d] = pc[d] /\ object'[d] = object[d] /\ left'[d] = left[d]
      /\ \/ pc'[c] = "idle" /\ object'[c] = NoObject
         \/ /\ pc'[c] \in {"last", "decrement"} /\ (pc'[c] = "last" => n = 1)
            /\ left'[c] = n /\ n > 0 /\ object'[c] = object[c]
  BY <1>0, <1>1, <1>2 DEF Return, TypeOK
<1>4. TypeOK'
  BY <1>0, <1>1, <1>2 DEF Return, TypeOK
<1>5. ObjectsApart'
  BY <1>0, <1>1, <1>3 DEF ObjectsApart
<1>6. \A u \in Url : Calling(u)' \subseteq Calling(u)
  BY <1>1, <1>3 DEF Calling
<1>7. CallsApart' /\ LeftCounts'
  BY <1>0, <1>1, <1>6 DEF CallsApart, LeftCounts
<1>8. ReadsFresh'
  BY <1>0, <1>1, <1>3 DEF ReadsFresh, n
<1> QED BY <1>4, <1>5, <1>7, <1>8 DEF SilentInv

\* A caller returns.
LEMMA Returned ==
  ASSUME SilentInv, NEW c \in Caller, Return(c)
  PROVE  /\ pc'[c] = "idle" /\ object'[c] = NoObject
         /\ \A d \in Caller : d # c => pc'[d] = pc[d] /\ object'[d] = object[d] /\ left'[d] = left[d]
         /\ pc' \in [Caller -> {"idle", "store", "read", "last", "decrement"}]
         /\ object' \in [Caller -> Object \cup {NoObject}] /\ left' \in [Caller -> Int]
<1>1. TypeOK
  BY DEF SilentInv
<1> QED BY <1>1 DEF Return, TypeOK

\* A new SilentData is stored.
LEMMA StoreInv ==
  ASSUME SilentInv, NEW c \in Caller, Store(c)
  PROVE  SilentInv'
<1>0. TypeOK /\ ObjectsApart /\ CallsApart /\ LeftCounts /\ ReadsFresh
  BY DEF SilentInv
<1> DEFINE u == url[c]
<1>1. /\ UNCHANGED <<mode, nextWindow, url, doomed, overlapped>> /\ pc[c] = "store" /\ Return(c)
      /\ admitted' = [admitted EXCEPT ![u] = admitted[u] + 1]
  BY DEF Store, Admit
<1>2. PICK o \in Unused : /\ pidUrlDatas' = [pidUrlDatas EXCEPT ![u] = o]
                          /\ leftCount' = [leftCount EXCEPT ![o] = Count - 1]
                          /\ silentTime' = [silentTime EXCEPT ![o] = Never]
  BY DEF Store
<1>3. /\ o \in Object /\ o # NoObject /\ u \in Url
      /\ \A v \in Url : pidUrlDatas[v] # o
      /\ \A d \in Caller : object[d] # o
  BY <1>0, SilentAssumption DEF Unused, TypeOK
<1>4. Count - 1 \in Nat /\ Count \in Nat
  BY SilentAssumption
<1>5. /\ pc'[c] = "idle" /\ object'[c] = NoObject
      /\ \A d \in Caller : d # c => pc'[d] = pc[d] /\ object'[d] = object[d] /\ left'[d] = left[d]
      /\ pc' \in [Caller -> {"idle", "store", "read", "last", "decrement"}]
      /\ object' \in [Caller -> Object \cup {NoObject}] /\ left' \in [Caller -> Int]
  BY <1>1, Returned
<1>6. /\ pidUrlDatas'[u] = o /\ leftCount'[o] = Count - 1 /\ admitted'[u] = admitted[u] + 1
      /\ \A v \in Url : v # u => pidUrlDatas'[v] = pidUrlDatas[v] /\ admitted'[v] = admitted[v]
      /\ \A p \in Object : p # o => leftCount'[p] = leftCount[p]
  BY <1>0, <1>1, <1>2, <1>3 DEF TypeOK
<1> HIDE DEF u
<1>7. TypeOK'
  <2>1. admitted' \in [Url -> Nat]
    BY <1>0, <1>1, <1>3 DEF TypeOK
  <2>2. leftCount' \in [Object -> Int]
    <3>1. Count - 1 \in Int /\ leftCount \in [Object -> Int]
      BY <1>0, <1>4 DEF TypeOK
    <3> QED BY <1>2, <3>1
  <2>3. pidUrlDatas' \in [Url -> Object \cup {NoObject}] /\ silentTime' \in [Object -> {Never} \cup 0 .. Long]
    BY <1>0, <1>2, <1>3 DEF TypeOK
  <2> QED BY <1>0, <1>1, <1>5, <2>1, <2>2, <2>3 DEF TypeOK
<1>8. ObjectsApart'
  BY <1>0, <1>1, <1>3, <1>5, <1>6 DEF ObjectsApart
<1>9. CallsApart'
  <2>1. \A v \in Url : Calling(v)' \subseteq Calling(v)
    BY <1>1, <1>5 DEF Calling
  <2> QED BY <1>0, <1>1, <2>1 DEF CallsApart
<1>10. LeftCounts'
  <2>1. u \notin overlapped => admitted[u] = 0
    BY <1>0, <1>1, <1>3 DEF ReadsFresh, LeftCounts, u
  <2>2. u \notin overlapped => leftCount'[pidUrlDatas'[u]] >= 0 /\ admitted'[u] + leftCount'[pidUrlDatas'[u]] <= Count
    BY <1>4, <1>6, <2>1
  <2>3. \A v \in Url : v # u => /\ pidUrlDatas'[v] = pidUrlDatas[v] /\ admitted'[v] = admitted[v]
                                /\ pidUrlDatas[v] # NoObject => leftCount'[pidUrlDatas[v]] = leftCount[pidUrlDatas[v]]
    BY <1>0, <1>3, <1>6 DEF TypeOK
  <2> QED BY <1>0, <1>1, <1>3, <1>6, <2>2, <2>3 DEF LeftCounts
<1>11. ReadsFresh'
  <2> SUFFICES ASSUME NEW d \in Caller, pc'[d] # "idle", url[d] \notin overlapped
               PROVE  /\ pc'[d] = "store" => pidUrlDatas'[url[d]] = NoObject
                      /\ pc'[d] = "last" /\ object'[d] = pidUrlDatas'[url[d]] => leftCount'[object'[d]] = 1
                      /\ pc'[d] = "decrement" /\ object'[d] = pidUrlDatas'[url[d]] =>
                           left'[d] > 0 /\ left'[d] = leftCount'[object'[d]]
    BY <1>1 DEF ReadsFresh
  <2>1. d # c /\ pc'[d] = pc[d] /\ object'[d] = object[d] /\ left'[d] = left[d] /\ url[d] \in Url
    BY <1>0, <1>5 DEF TypeOK
  <2>2. url[d] # u
    <3>1. url[d] = u => d \in Calling(u) /\ c \in Calling(u)
      BY <1>1, <2>1 DEF Calling, u
    <3> QED BY <1>0, <1>3, <2>1, <3>1 DEF CallsApart
  <2>3. pidUrlDatas'[url[d]] = pidUrlDatas[url[d]]
    BY <1>6, <2>1, <2>2
  <2>4. pc[d] \in {"last", "decrement"} => leftCount'[object[d]] = leftCount[object[d]]
    BY <1>0, <1>3, <1>6 DEF TypeOK, ObjectsApart
  <2> QED BY <1>0, <2>1, <2>3, <2>4 DEF ReadsFresh
<1> QED BY <1>7, <1>8, <1>9, <1>10, <1>11 DEF SilentInv

\* One more span is admitted, with or without the time of the last one.
LEMMA AdmitInv ==
  ASSUME SilentInv, NEW c \in Caller, TakeLast(c) \/ Decrement(c)
  PROVE  SilentInv'
<1>0. TypeOK /\ ObjectsApart /\ CallsApart /\ LeftCounts /\ ReadsFresh
  BY DEF SilentInv
<1> DEFINE u == url[c]
           o == object[c]
<1>1. /\ UNCHANGED <<mode, pidUrlDatas, nextWindow, url, doomed, overlapped>>
      /\ pc[c] \in {"last", "decrement"} /\ Return(c)
      /\ admitted' = IF pidUrlDatas[u] = o THEN [admitted EXCEPT ![u] = admitted[u] + 1] ELSE admitted
      /\ \E t \in {0, Never} : silentTime' = [silentTime EXCEPT ![o] = t]
  BY DEF TakeLast, Decrement, Admit
<1>2. PICK n \in Int : leftCount' = [leftCount EXCEPT ![o] = n] /\
                       (pc[c] = "last" => n = 0) /\
                       (pc[c] = "decrement" => n = left[c] - 1 \/ n = leftCount[o] - 1)
  <2>1. left[c] \in Int /\ leftCount \in [Object -> Int] /\ o \in Object
    BY <1>0, <1>1 DEF TypeOK, ObjectsApart
  <2>2. leftCount[o] \in Int
    BY <2>1
  <2>3. CASE TakeLast(c)
    <3>1. pc[c] = "last" /\ leftCount' = [leftCount EXCEPT ![o] = 0]
      BY <2>3 DEF TakeLast
    <3> HIDE DEF o
    <3> WITNESS 0 \in Int
    <3> QED BY <3>1
  <2>4. CASE Decrement(c)
    <3>1. /\ pc[c] = "decrement"
          /\ \E m \in {left[c], leftCount[o]} : leftCount' = [leftCount EXCEPT ![o] = m - 1]
      BY <2>4 DEF Decrement
    <3>2. PICK m \in {left[c], leftCount[o]} : leftCount' = [leftCount EXCEPT ![o] = m - 1]
      BY <3>1
    <3> HIDE DEF o
    <3>3. m - 1 \in Int
      BY <2>1, <2>2
    <3> WITNESS m - 1 \in Int
    <3> QED BY <3>1, <3>2
  <2> QED BY <2>3, <2>4
<1>3. o \in Object /\ o # NoObject /\ u \in Url /\ \A v \in Url : pidUrlDatas[v] = o => v = u
  BY <1>0, <1>1 DEF TypeOK, ObjectsApart
<1>4. /\ pc'[c] = "idle" /\ object'[c] = NoObject
      /\ \A d \in Caller : d # c => pc'[d] = pc[d] /\ object'[d] = object[d] /\ left'[d] = left[d]
      /\ pc' \in [Caller -> {"idle", "store", "read", "last", "decrement"}]
      /\ object' \in [Caller -> Object \cup {NoObject}] /\ left' \in [Caller -> Int]
  BY <1>1, Returned
<1>5. /\ leftCount'[o] = n /\ \A p \in Object : p # o => leftCount'[p] = leftCount[p]
      /\ admitted'[u] = (IF pidUrlDatas[u] = o THEN admitted[u] + 1 ELSE admitted[u])
      /\ \A v \in Url : v # u => admitted'[v] = admitted[v]
  BY <1>0, <1>1, <1>2, <1>3 DEF TypeOK
<1>6. TypeOK'
  <2>1. admitted' \in [Url -> Nat]
    BY <1>0, <1>1, <1>3 DEF TypeOK
  <2>2. leftCount' \in [Object -> Int]
    BY <1>0, <1>2 DEF TypeOK
  <2>3. silentTime' \in [Object -> {Never} \cup 0 .. Long]
    <3>1. 0 \in 0 .. Long
      BY SilentAssumption DEF Long
    <3> QED BY <1>0, <1>1, <1>3, <3>1 DEF TypeOK
  <2> QED BY <1>0, <1>1, <1>4, <2>1, <2>2, <2>3 DEF TypeOK
<1>7. ASSUME u \notin overlapped, pidUrlDatas[u] = o
      PROVE  n >= 0 /\ n = leftCount[o] - 1 /\ admitted[u] + 1 + n <= Count
  <2>1. /\ leftCount[o] \in Int /\ admitted[u] \in Nat /\ Count \in Nat
        /\ admitted[u] + leftCount[o] <= Count
    BY <1>0, <1>3, <1>7, SilentAssumption DEF TypeOK, LeftCounts
  <2>2. /\ pc[c] = "last" => leftCount[o] = 1
        /\ pc[c] = "decrement" => left[c] > 0 /\ left[c] = leftCount[o]
    BY <1>0, <1>1, <1>7 DEF ReadsFresh
  <2> HIDE DEF u, o
  <2> QED BY <1>1, <1>2, <2>1, <2>2
<1> HIDE DEF u, o
<1>8. ObjectsApart'
  BY <1>0, <1>1, <1>4 DEF ObjectsApart
<1>9. CallsApart'
  <2>1. \A v \in Url : Calling(v)' \subseteq Calling(v)
    BY <1>1, <1>4 DEF Calling
  <2> QED BY <1>0, <1>1, <2>1 DEF CallsApart
<1>10. LeftCounts'
  <2> SUFFICES ASSUME NEW v \in Url, v \notin overlapped
               PROVE  IF pidUrlDatas[v] = NoObject THEN admitted'[v] = 0
                      ELSE /\ leftCount'[pidUrlDatas[v]] >= 0
                           /\ admitted'[v] + leftCount'[pidUrlDatas[v]] <= Count
    BY <1>1 DEF LeftCounts
  <2>1. CASE pidUrlDatas[v] = o
    <3>1. v = u
      BY <1>3, <2>1
    <3> QED BY <1>3, <1>5, <1>7, <2>1, <3>1
  <2>2. CASE pidUrlDatas[v] # o
    <3>1. admitted'[v] = admitted[v]
      BY <1>5, <2>2
    <3>2. pidUrlDatas[v] # NoObject => leftCount'[pidUrlDatas[v]] = leftCount[pidUrlDatas[v]]
      BY <1>0, <1>5, <2>2 DEF TypeOK
    <3> QED BY <1>0, <3>1, <3>2 DEF LeftCounts
  <2> QED BY <2>1, <2>2
<1>11. ReadsFresh'
  <2> SUFFICES ASSUME NEW d \in Caller, pc'[d] # "idle", url[d] \notin overlapped
               PROVE  /\ pc'[d] = "store" => pidUrlDatas[url[d]] = NoObject
                      /\ pc'[d] = "last" /\ object'[d] = pidUrlDatas[url[d]] => leftCount'[object'[d]] = 1
                      /\ pc'[d] = "decrement" /\ object'[d] = pidUrlDatas[url[d]] =>
                           left'[d] > 0 /\ left'[d] = leftCount'[object'[d]]
    BY <1>1 DEF ReadsFresh
  <2>1. d # c /\ pc'[d] = pc[d] /\ object'[d] = object[d] /\ left'[d] = left[d] /\ url[d] \in Url
    BY <1>0, <1>4 DEF TypeOK
  <2>2. url[d] # u
    <3>1. url[d] = u => d \in Calling(u) /\ c \in Calling(u)
      BY <1>1, <2>1 DEF Calling, u
    <3> QED BY <1>0, <1>3, <2>1, <3>1 DEF CallsApart
  <2>3. pc[d] \in {"last", "decrement"} /\ object[d] = pidUrlDatas[url[d]] =>
          leftCount'[object[d]] = leftCount[object[d]]
    BY <1>0, <1>3, <1>5, <2>1, <2>2 DEF TypeOK, ObjectsApart
  <2> QED BY <1>0, <2>1, <2>3 DEF ReadsFresh
<1> QED BY <1>6, <1>8, <1>9, <1>10, <1>11 DEF SilentInv

\* Every step of callers, ticker and clock.
LEMMA SilentStepInv == SilentInv /\ [Next]_vars => SilentInv'
BY SilentFrame, LoadInv, StoreInv, ReadInv, AdmitInv, DeleteExpiredInv DEF Next, IsSilent

\* The invariant holds in every reachable state.
THEOREM SilentInvariant == Spec => []SilentInv
BY SilentInitInv, SilentStepInv, PTL DEF Spec

\* Without overlapping calls for a url IsSilent lets at most silent_count spans
\* of it through between two resets, although the reset comes in between the
\* Load of a call and its use of what was loaded.
THEOREM SilentBound == Spec => []AdmissionBounded
<1>1. SilentInv => AdmissionBounded
  <2> SUFFICES ASSUME SilentInv, NEW u \in Url \ overlapped
               PROVE  admitted[u] <= Count
    BY DEF AdmissionBounded
  <2>1. Count \in Nat /\ admitted[u] \in Nat
    BY SilentAssumption DEF SilentInv, TypeOK
  <2>2. pidUrlDatas[u] # NoObject => leftCount[pidUrlDatas[u]] \in Int
    BY DEF SilentInv, TypeOK
  <2> QED BY <2>1, <2>2 DEF SilentInv, LeftCounts
<1> QED BY <1>1, SilentInvariant, PTL

-----------------------------------------------------------------------------
(***************************************************************************)
(* NormalSampler.                                                          *)
(***************************************************************************)

\* The invariant holds before the first span.
LEMMA NormalInitInv == NS!Init => NS!NormalInv
<1> SUFFICES ASSUME NS!Init PROVE NS!NormalInv
  OBVIOUS
<1> USE NormalAssumption, SilentAssumption DEF NS!Init, NS!Absent
<1>1. NS!TypeOK
  <2>1. (CHOOSE u \in Url : TRUE) \in Url
    OBVIOUS
  <2>2. normalUrl \in [Caller -> Url]
    BY <2>1
  <2>3. /\ thresholdValues \in [Url -> Threshold \cup {0}] /\ collected \in [Url -> NS!Absent .. Wait]
        /\ since \in [Url -> 0 .. Wait + 1] /\ normalPc \in [Caller -> {"idle", "store"}]
    OBVIOUS
  <2> QED BY <2>2, <2>3 DEF NS!TypeOK
<1>2. NS!TimeStored /\ NS!FreeUrls
  BY DEF NS!TimeStored, NS!FreeUrls
<1>3. NS!DeletesExpired /\ NS!StoringFree
  BY DEF NS!DeletesExpired, NS!StoringFree
<1> QED BY <1>1, <1>2, <1>3 DEF NS!NormalInv

\* A threshold arrives, or nothing happens.
LEMMA ThresholdInv ==
  ASSUME NS!NormalInv,
         \/ \E u \in Url, value \in Threshold : NS!UpdateSlowThreshold(u, value)
         \/ UNCHANGED NS!vars
  PROVE  NS!NormalInv'
<1>1. /\ UNCHANGED <<sampler, collected, normalWindow, normalPc, normalUrl, normalDoomed, taken, since, raced>>
      /\ thresholdValues' \in [Url -> Threshold \cup {0}]
  BY DEF NS!UpdateSlowThreshold, NS!vars, NS!NormalInv, NS!TypeOK
<1>2. NS!TypeOK'
  BY <1>1 DEF NS!NormalInv, NS!TypeOK
<1>3. NS!TimeStored' /\ NS!FreeUrls'
  BY <1>1 DEF NS!NormalInv, NS!TimeStored, NS!FreeUrls
<1>4. NS!DeletesExpired' /\ NS!StoringFree'
  BY <1>1 DEF NS!NormalInv, NS!DeletesExpired, NS!StoringFree, NS!Expired
<1> QED BY <1>2, <1>3, <1>4 DEF NS!NormalInv

\* A caller finds its url free.
LEMMA SampleInv ==
  ASSUME NS!NormalInv, NEW c \in Caller, NEW u \in Url, NEW span, NS!Sample(c, u, span)
  PROVE  NS!NormalInv'
<1>0. NS!TypeOK /\ NS!TimeStored /\ NS!FreeUrls /\ NS!DeletesExpired /\ NS!StoringFree
  BY DEF NS!NormalInv
<1>1. /\ UNCHANGED <<sampler, thresholdValues, collected, normalWindow, normalDoomed, taken, since>>
      /\ collected[u] = NS!Absent
      /\ raced \subseteq raced' /\ raced' \subseteq raced \cup {u}
      /\ normalPc' = [normalPc EXCEPT ![c] = "store"] /\ normalUrl' = [normalUrl EXCEPT ![c] = u]
  BY DEF NS!Sample
<1>2. NS!TypeOK'
  BY <1>0, <1>1 DEF NS!TypeOK
<1>3. NS!TimeStored' /\ NS!FreeUrls'
  BY <1>0, <1>1 DEF NS!TimeStored, NS!FreeUrls
<1>4. NS!DeletesExpired'
  BY <1>0, <1>1 DEF NS!DeletesExpired, NS!Expired
<1>5. NS!StoringFree'
  BY <1>0, <1>1 DEF NS!StoringFree, NS!TypeOK
<1> QED BY <1>2, <1>3, <1>4, <1>5 DEF NS!NormalInv

\* A caller stores the url, or the trace is stored for another reason.
LEMMA StoredInv ==
  ASSUME NS!NormalInv, (\E c \in Caller : NS!Store(c)) \/ (\E u \in Url : NS!UpdateTime(u))
  PROVE  NS!NormalInv'
<1>0. NS!TypeOK /\ NS!TimeStored /\ NS!FreeUrls /\ NS!DeletesExpired /\ NS!StoringFree
  BY DEF NS!NormalInv
<1>1. PICK u \in Url :
        /\ UNCHANGED <<sampler, thresholdValues, normalWindow, normalUrl, normalDoomed>>
        /\ collected' = [collected EXCEPT ![u] = NS!StoreTime(u)]
        /\ since' = [since EXCEPT ![u] = 0]
        /\ taken \subseteq taken' /\ taken' \subseteq taken \cup {u}
        /\ \/ raced' = raced \cup {u}
           \/ raced' \in {raced, raced \ {u}} /\ u \notin normalDoomed /\ \A d \in Caller : normalPc'[d] = "store" => normalUrl[d] # u
        /\ \A d \in Caller : normalPc'[d] = "store" => normalPc[d] = "store"
        /\ normalPc' \in [Caller -> {"idle", "store"}]
  <2>1. ASSUME NEW c \in Caller, NS!Store(c)
        PROVE  /\ UNCHANGED <<sampler, thresholdValues, normalWindow, normalUrl, normalDoomed>>
               /\ collected' = [collected EXCEPT ![normalUrl[c]] = NS!StoreTime(normalUrl[c])]
               /\ since' = [since EXCEPT ![normalUrl[c]] = 0]
               /\ taken' = taken \cup {normalUrl[c]}
               /\ \/ raced' = raced \cup {normalUrl[c]}
                  \/ /\ raced' = raced \ {normalUrl[c]} /\ normalUrl[c] \notin normalDoomed
                     /\ NS!Storing(normalUrl[c]) = {c}
               /\ normalPc' = [normalPc EXCEPT ![c] = "idle"]
    BY <2>1 DEF NS!Store
  <2>2. ASSUME NEW c \in Caller, NS!Store(c)
        PROVE  /\ normalUrl[c] \in Url
               /\ normalPc' \in [Caller -> {"idle", "store"}] /\ normalPc'[c] = "idle"
               /\ \A d \in Caller : d # c => normalPc'[d] = normalPc[d]
               /\ NS!Storing(normalUrl[c]) = {c} =>
                    \A d \in Caller : normalPc'[d] = "store" => normalUrl[d] # normalUrl[c]
    BY <1>0, <2>1, <2>2 DEF NS!TypeOK, NS!Storing
  <2>3. CASE \E c \in Caller : NS!Store(c)
    <3>1. PICK c \in Caller : NS!Store(c)
      BY <2>3
    <3>2. normalUrl[c] \in Url
      BY <2>2, <3>1
    <3> USE <3>2
    <3> WITNESS normalUrl[c] \in Url
    <3> QED BY <2>1, <2>2, <3>1
  <2>4. CASE \E u \in Url : NS!UpdateTime(u)
    <3>1. PICK u \in Url : NS!UpdateTime(u)
      BY <2>4
    <3>2. NS!StoreTime(u) = Wait
      BY <3>1 DEF NS!UpdateTime, NS!StoreTime
    <3>3. \/ raced' = raced \cup {u}
          \/ raced' = raced /\ u \notin normalDoomed /\ NS!Storing(u) = {}
      BY <3>1 DEF NS!UpdateTime
    <3>4. normalPc' = normalPc /\ normalPc \in [Caller -> {"idle", "store"}]
      BY <1>0, <3>1 DEF NS!UpdateTime, NS!TypeOK
    <3>5. NS!Storing(u) = {} => \A d \in Caller : normalPc'[d] = "store" => normalUrl[d] # u
      BY <3>4 DEF NS!Storing
    <3> WITNESS u \in Url
    <3> QED BY <3>1, <3>2, <3>3, <3>4, <3>5 DEF NS!UpdateTime
  <2> QED BY <2>3, <2>4
<1>2. NS!StoreTime(u) \in 0 .. Wait /\ (sampler = "any" => NS!StoreTime(u) = Wait) /\ Wait \in Nat
  BY NormalAssumption DEF NS!StoreTime
<1>3. /\ collected'[u] = NS!StoreTime(u) /\ since'[u] = 0
      /\ \A v \in Url : v # u => /\ collected'[v] = collected[v] /\ since'[v] = since[v]
                                 /\ (v \in raced' <=> v \in raced) /\ (v \in taken' <=> v \in taken)
  BY <1>0, <1>1 DEF NS!TypeOK
<1>4. collected'[u] # NS!Absent
  BY <1>2, <1>3 DEF NS!Absent
<1>5. NS!TypeOK'
  <2>1. collected' \in [Url -> NS!Absent .. Wait]
    <3>1. NS!StoreTime(u) \in NS!Absent .. Wait
      BY <1>2 DEF NS!Absent
    <3> QED BY <1>0, <1>1, <3>1 DEF NS!TypeOK
  <2>2. since' \in [Url -> 0 .. Wait + 1]
    <3>1. 0 \in 0 .. Wait + 1
      BY <1>2
    <3> QED BY <1>0, <1>1, <3>1 DEF NS!TypeOK
  <2> QED BY <1>0, <1>1, <2>1, <2>2 DEF NS!TypeOK
<1>6. NS!TimeStored'
  <2>1. sampler = "any" => since'[u] = Wait - collected'[u]
    BY <1>2, <1>3
  <2> QED BY <1>0, <1>1, <1>3, <2>1 DEF NS!TimeStored
<1>7. NS!FreeUrls'
  BY <1>0, <1>1, <1>3, <1>4 DEF NS!FreeUrls
<1>8. NS!DeletesExpired'
  BY <1>0, <1>1, <1>3 DEF NS!DeletesExpired, NS!Expired, NS!TypeOK
<1>9. NS!StoringFree'
  <2>1. \A d \in Caller : normalUrl[d] \in Url
    BY <1>0 DEF NS!TypeOK
  <2> QED BY <1>0, <1>1, <1>3, <2>1 DEF NS!StoringFree
<1> QED BY <1>5, <1>6, <1>7, <1>8, <1>9 DEF NS!NormalInv

\* Check ranges over the urls.
LEMMA CheckInv ==
  ASSUME NS!NormalInv, NS!Check
  PROVE  NS!NormalInv'
<1>0. NS!TypeOK /\ NS!TimeStored /\ NS!FreeUrls /\ NS!DeletesExpired /\ NS!StoringFree
  BY DEF NS!NormalInv
<1>1. /\ UNCHANGED <<sampler, thresholdValues, collected, normalPc, normalUrl, taken, since, raced>>
      /\ normalDoomed' \subseteq Url
      /\ sampler = "any" => normalDoomed' = {u \in Url : NS!Expired(u)}
      /\ normalWindow' \in {normalWindow, Wait}
  BY DEF NS!Check, NS!NextWindow
<1>2. NS!TypeOK'
  BY <1>0, <1>1, NormalAssumption DEF NS!TypeOK
<1>3. NS!TimeStored' /\ NS!FreeUrls'
  BY <1>0, <1>1 DEF NS!TimeStored, NS!FreeUrls
<1>4. NS!DeletesExpired' /\ NS!StoringFree'
  BY <1>0, <1>1 DEF NS!DeletesExpired, NS!StoringFree, NS!Expired
<1> QED BY <1>2, <1>3, <1>4 DEF NS!NormalInv

\* Check deletes the urls it ranged over: they are free again.
LEMMA DeleteInv ==
  ASSUME NS!NormalInv, NS!Delete
  PROVE  NS!NormalInv'
<1>0. NS!TypeOK /\ NS!TimeStored /\ NS!FreeUrls /\ NS!DeletesExpired /\ NS!StoringFree
  BY DEF NS!NormalInv
<1>1. /\ UNCHANGED <<sampler, thresholdValues, normalWindow, normalPc, normalUrl, since, raced>>
      /\ collected' = [u \in Url |-> IF u \in normalDoomed THEN NS!Absent ELSE collected[u]]
      /\ taken' = taken \ normalDoomed /\ normalDoomed' = {}
  BY DEF NS!Delete
<1>2. \A u \in Url : /\ u \in normalDoomed => collected'[u] = NS!Absent /\ u \notin taken'
                     /\ u \notin normalDoomed => collected'[u] = collected[u] /\ (u \in taken' <=> u \in taken)
  BY <1>1
<1>3. NS!TypeOK'
  <2>1. NS!Absent \in NS!Absent .. Wait
    BY NormalAssumption DEF NS!Absent
  <2> QED BY <1>0, <1>1, <2>1 DEF NS!TypeOK
<1>4. NS!TimeStored'
  BY <1>0, <1>1, <1>2 DEF NS!TimeStored
<1>5. NS!FreeUrls'
  <2>1. ASSUME NEW u \in normalDoomed \ raced, sampler = "any"
        PROVE  since[u] > Wait
    <3>1. u \in Url /\ collected[u] = -1
      BY <1>0, <2>1 DEF NS!DeletesExpired, NS!Expired, NS!Past, NS!TypeOK
    <3>2. since[u] = Wait - collected[u]
      BY <1>0, <2>1, <3>1 DEF NS!TimeStored, NS!Absent
    <3> QED BY <3>1, <3>2, NormalAssumption
  <2> QED BY <1>0, <1>1, <1>2, <2>1 DEF NS!FreeUrls
<1>6. NS!DeletesExpired'
  BY <1>1 DEF NS!DeletesExpired
<1>7. NS!StoringFree'
  <2>1. \A c \in Caller : normalUrl[c] \in Url
    BY <1>0 DEF NS!TypeOK
  <2> QED BY <1>0, <1>1, <1>2, <2>1 DEF NS!StoringFree
<1> QED BY <1>3, <1>4, <1>5, <1>6, <1>7 DEF NS!NormalInv

\* A second passes.
LEMMA SecondInv ==
  ASSUME NS!NormalInv, NS!Second
  PROVE  NS!NormalInv'
<1>0. NS!TypeOK /\ NS!TimeStored /\ NS!FreeUrls /\ NS!DeletesExpired /\ NS!StoringFree
  BY DEF NS!NormalInv
<1>1. /\ UNCHANGED <<sampler, thresholdValues, normalPc, normalUrl, normalDoomed, taken, raced>>
      /\ normalWindow' = IF normalWindow > 0 THEN normalWindow - 1 ELSE normalWindow
      /\ collected' = [u \in Url |-> IF sampler = "any" /\ collected[u] >= 0 THEN collected[u] - 1 ELSE collected[u]]
      /\ since' = [u \in Url |-> IF since[u] <= Wait THEN since[u] + 1 ELSE since[u]]
  BY DEF NS!Second
<1>2. \A u \in Url :
        /\ collected[u] \in -2 .. Wait /\ since[u] \in 0 .. Wait + 1
        /\ collected'[u] = IF sampler = "any" /\ collected[u] >= 0 THEN collected[u] - 1 ELSE collected[u]
        /\ since'[u] = IF since[u] <= Wait THEN since[u] + 1 ELSE since[u]
  BY <1>0, <1>1 DEF NS!TypeOK, NS!Absent
<1>3. NS!TypeOK'
  <2>1. normalWindow' \in {NS!Absent} \cup 0 .. Wait
    BY <1>0, <1>1, NormalAssumption DEF NS!TypeOK, NS!Absent
  <2>2. \A u \in Url : collected'[u] \in NS!Absent .. Wait /\ since'[u] \in 0 .. Wait + 1
    BY <1>2, NormalAssumption DEF NS!Absent
  <2>3. collected' \in [Url -> NS!Absent .. Wait] /\ since' \in [Url -> 0 .. Wait + 1]
    BY <1>1, <2>2
  <2> QED BY <1>0, <1>1, <2>1, <2>3 DEF NS!TypeOK
<1>4. NS!TimeStored'
  <2> SUFFICES ASSUME sampler = "any", NEW u \in Url, collected'[u] # -2
               PROVE  since'[u] = Wait - collected'[u]
    BY <1>1 DEF NS!TimeStored, NS!Absent
  <2>1. collected[u] # -2
    BY <1>2
  <2>2. since[u] = Wait - collected[u]
    BY <1>0, <2>1 DEF NS!TimeStored, NS!Absent
  <2> QED BY <1>2, <2>1, <2>2, NormalAssumption
<1>5. \A u \in Url : (collected'[u] = NS!Absent <=> collected[u] = NS!Absent) /\ (NS!Expired(u) => NS!Expired(u)')
  BY <1>2 DEF NS!Absent, NS!Expired, NS!Past
<1>6. NS!FreeUrls'
  <2>1. \A u \in Url : since[u] > Wait => since'[u] > Wait
    BY <1>2, NormalAssumption
  <2> QED BY <1>0, <1>1, <1>5, <2>1 DEF NS!FreeUrls
<1>7. NS!DeletesExpired'
  BY <1>0, <1>1, <1>5 DEF NS!DeletesExpired, NS!TypeOK
<1>8. NS!StoringFree'
  BY <1>0, <1>1, <1>5 DEF NS!StoringFree, NS!TypeOK
<1> QED BY <1>3, <1>4, <1>6, <1>7, <1>8 DEF NS!NormalInv

\* Every step of consumers, ticker, receiver and clock.
LEMMA NormalStepInv == NS!NormalInv /\ [NS!Next]_NS!vars => NS!NormalInv'
BY ThresholdInv, SampleInv, StoredInv, CheckInv, DeleteInv, SecondInv DEF NS!Next

\* The invariant holds in every reachable state.
THEOREM NormalInvariant == NS!Spec => []NS!NormalInv
BY NormalInitInv, NormalStepInv, PTL DEF NS!Spec

\* A normal sample of a url is the first of its window, or the first trace of
\* it that is stored for longer than NormalSampleWaitTime, although Load and
\* Store of a consumer, and Range and Delete of the ticker, are not atomic.
\* Only overlapping calls, and a Store while Check deletes the url, escape.
THEOREM SamplesSpaced == NS!Spec => NormalSpaced
<1>1. ASSUME NS!NormalInv, NEW c \in Caller, NS!Store(c)
      PROVE  \/ normalUrl[c] \in raced
             \/ IF sampler = "any" THEN since[normalUrl[c]] > Wait ELSE normalUrl[c] \notin taken
  <2>1. normalPc[c] = "store" /\ normalUrl[c] \in Url
    BY <1>1 DEF NS!Store, NS!NormalInv, NS!TypeOK
  <2> QED BY <1>1, <2>1 DEF NS!NormalInv, NS!StoringFree, NS!FreeUrls
<1>2. NS!NormalInv /\ [NS!Next]_NS!vars =>
        [\A c \in Caller : NS!Store(c) =>
           normalUrl[c] \in raced \/ IF sampler = "any" THEN since[normalUrl[c]] > Wait ELSE normalUrl[c] \notin taken]_NS!vars
  BY <1>1
<1> QED BY <1>2, NormalInvariant, PTL DEF NormalSpaced, NS!NormalSpaced, NS!Spec
=============================================================================
