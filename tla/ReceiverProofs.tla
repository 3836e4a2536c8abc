---------------------------- MODULE ReceiverProofs ----------------------------
(***************************************************************************)
(* Proofs about the receivers.                                             *)
(*                                                                         *)
(* FillProc, for every set of pids, peers and containers: whatever starts, *)
(* execs, exits and connects while the ticker reads /proc, a matched       *)
(* process had the connection, and a resource that names its container is  *)
(* only given a pid of that container.                                     *)
(*                                                                         *)
(* SharedReceiver, for every set of pipelines and requests and any number  *)
(* of reloads: a receiver whose Shutdown has ended serves nobody and holds *)
(* no port it served.                                                      *)
(*                                                                         *)
(* SkywalkingTrace, for every set of segments and calls: the Undertow      *)
(* cache neither loses nor doubles a segment, and pairs the halves of a    *)
(* request unless their calls miss each other.                             *)
(*                                                                         *)
(* PrometheusReceiver, for every set of write requests and any number of   *)
(* starts: every sample of an accepted request is a data point or counted. *)
(***************************************************************************)
EXTENDS FillProc, Receivers, Sequences, FiniteSetTheorems, SequenceTheorems, TLAPS

-----------------------------------------------------------------------------
(***************************************************************************)
(* FillProc.                                                               *)
(***************************************************************************)

\* The invariant holds when the extension has started.
LEMMA InitInv == Init => FillInv
<1> SUFFICES ASSUME Init PROVE FillInv
  OBVIOUS
<1>1. TypeOK
  BY DEF Init, TypeOK, NoAnswer
<1>2. OwnersRecorded /\ ResultsPending /\ CachedOwned
  BY DEF Init, OwnersRecorded, ResultsPending, CachedOwned
<1>3. PlacesLived /\ FilledInContainer /\ BracketsUnfound
  BY DEF Init, PlacesLived, LivedIn, FilledInContainer, NoAnswer, BracketsUnfound
<1> QED BY <1>1, <1>2, <1>3 DEF FillInv

\* A place of a process is no container of another place: what ContainerOf
\* returns is the place of the process, or None.
LEMMA ContainerOfPlace ==
  ASSUME NEW info \in ProcInfo, ContainerOf(info) # None
  PROVE  ContainerOf(info) = info.place /\ info.place # Host
BY DEF ContainerOf

\* Processes and connections come and go.
LEMMA WorldInv ==
  ASSUME FillInv,
         \/ \E p \in Pid : \/ \E new \in Process : StartProcess(p, new)
                           \/ Exec(p) \/ Exit(p)
         \/ \E a \in Peer : \/ \E p \in Pid : Open(a, p)
                            \/ Close(a)
  PROVE  FillInv'
<1> USE PlaceAssumption
<1>0. /\ TypeOK /\ OwnersRecorded /\ ResultsPending /\ PlacesLived /\ CachedOwned /\ FilledInContainer
      /\ BracketsUnfound
  BY DEF FillInv
<1>1. ASSUME NEW p \in Pid, NEW new \in Process, StartProcess(p, new)
      PROVE  FillInv'
  <2>1. process' \in [Pid -> Process \cup {None}] /\ lived' \in [Pid -> SUBSET Container]
    BY <1>0, <1>1 DEF TypeOK, StartProcess, Process, Place
  <2>2. TypeOK'
    BY <1>0, <1>1, <2>1 DEF TypeOK, StartProcess, tickVars
  <2>3. \A q \in Pid : lived[q] \subseteq lived'[q]
    BY <1>0, <1>1 DEF TypeOK, StartProcess
  <2>4. \A q \in Pid : LivedIn(process[q], q)'
    BY <1>0, <1>1, <2>3 DEF TypeOK, PlacesLived, LivedIn, StartProcess, Process
  <2>5. PlacesLived'
    BY <1>0, <1>1, <2>3, <2>4 DEF TypeOK, PlacesLived, LivedIn, StartProcess, tickVars, ProcInfo
  <2>6. OwnersRecorded' /\ ResultsPending' /\ CachedOwned'
    BY <1>0, <1>1 DEF OwnersRecorded, ResultsPending, CachedOwned, StartProcess, tickVars
  <2>7. FilledInContainer' /\ BracketsUnfound'
    BY <1>0, <1>1, <2>3 DEF TypeOK, FilledInContainer, NoAnswer, BracketsUnfound, StartProcess, tickVars
  <2> QED BY <2>2, <2>5, <2>6, <2>7 DEF FillInv
<1>2. ASSUME NEW p \in Pid, Exec(p)
      PROVE  FillInv'
  <2>1. /\ process' \in [Pid -> Process \cup {None}]
        /\ \A q \in Pid : process'[q] # None => process[q] # None /\ process'[q].place = process[q].place
    BY <1>0, <1>2 DEF TypeOK, Exec, Process
  <2>2. TypeOK'
    BY <1>0, <1>2, <2>1 DEF TypeOK, Exec, tickVars
  <2>3. PlacesLived'
    BY <1>0, <1>2, <2>1 DEF PlacesLived, LivedIn, Exec, tickVars
  <2>4. OwnersRecorded' /\ ResultsPending' /\ CachedOwned' /\ FilledInContainer' /\ BracketsUnfound'
    BY <1>0, <1>2 DEF OwnersRecorded, ResultsPending, CachedOwned, FilledInContainer, NoAnswer, BracketsUnfound, Exec, tickVars
  <2> QED BY <2>2, <2>3, <2>4 DEF FillInv
<1>3. ASSUME NEW p \in Pid, Exit(p)
      PROVE  FillInv'
  <2>1. TypeOK'
    BY <1>0, <1>3 DEF TypeOK, Exit, tickVars
  <2>2. PlacesLived'
    BY <1>0, <1>3 DEF TypeOK, PlacesLived, LivedIn, Exit, tickVars
  <2>3. \A a \in Peer : owner'[a] # None => owner'[a] = owner[a]
    BY <1>0, <1>3 DEF TypeOK, Exit
  <2>4. OwnersRecorded' /\ ResultsPending' /\ CachedOwned' /\ FilledInContainer' /\ BracketsUnfound'
    BY <1>0, <1>3, <2>3 DEF OwnersRecorded, ResultsPending, CachedOwned, FilledInContainer, NoAnswer, BracketsUnfound, Exit, tickVars
  <2> QED BY <2>1, <2>2, <2>4 DEF FillInv
<1>4. ASSUME NEW a \in Peer, NEW p \in Pid, Open(a, p)
      PROVE  FillInv'
  <2>1. TypeOK'
    BY <1>0, <1>4 DEF TypeOK, Open, tickVars
  <2>2. \A b \in Peer : owned[b] \subseteq owned'[b]
    BY <1>0, <1>4 DEF TypeOK, Open
  <2>3. OwnersRecorded' /\ ResultsPending'
    BY <1>0, <1>4, <2>2 DEF TypeOK, OwnersRecorded, ResultsPending, Open, Listed, tickVars
  <2>4. PlacesLived' /\ CachedOwned' /\ FilledInContainer' /\ BracketsUnfound'
    BY <1>0, <1>4, <2>2 DEF PlacesLived, LivedIn, CachedOwned, FilledInContainer, NoAnswer, BracketsUnfound, Open, tickVars
  <2> QED BY <2>1, <2>3, <2>4 DEF FillInv
<1>5. ASSUME NEW a \in Peer, Close(a)
      PROVE  FillInv'
  <2>1. TypeOK'
    BY <1>0, <1>5 DEF TypeOK, Close, tickVars
  <2>2. \A b \in Peer : owner'[b] # None => owner'[b] = owner[b]
    BY <1>0, <1>5 DEF TypeOK, Close
  <2>3. /\ OwnersRecorded' /\ ResultsPending' /\ PlacesLived' /\ CachedOwned' /\ FilledInContainer'
        /\ BracketsUnfound'
    BY <1>0, <1>5, <2>2 DEF OwnersRecorded, ResultsPending, PlacesLived, LivedIn, CachedOwned, FilledInContainer, NoAnswer,
                            BracketsUnfound, Close, tickVars
  <2> QED BY <2>1, <2>3 DEF FillInv
<1> QED BY <1>1, <1>2, <1>3, <1>4, <1>5

\* A request is served: its resource is filled and its peer may be listed.
LEMMA ExportInv ==
  ASSUME FillInv, NEW a \in Peer, NEW resource \in Resource, NEW named \in Port \cup {None},
         Export(a, resource, named)
  PROVE  FillInv'
<1> USE PlaceAssumption
<1>0. /\ TypeOK /\ OwnersRecorded /\ ResultsPending /\ PlacesLived /\ CachedOwned /\ FilledInContainer
      /\ BracketsUnfound
  BY DEF FillInv
<1>1. Answer(a, named) \in [pid : Pid \cup {None}, container : Container \cup {None}]
  BY <1>0 DEF TypeOK, Answer, NoAnswer, ContainerOf, ProcInfo, Place
<1>2. Fill(resource, Answer(a, named)).pid \in Pid \cup {None}
  BY <1>0, <1>1 DEF Fill, NoAnswer, Resource
<1>3. TypeOK'
  BY <1>0, <1>2 DEF TypeOK, Export, Lists, NoAnswer, tickVars, Resource
<1>4. OwnersRecorded' /\ ResultsPending'
  BY <1>0 DEF TypeOK, OwnersRecorded, ResultsPending, Export, Lists, Listed, tickVars
<1>5. \A b \in Peer : result[b] # None => owned'[b] = owned[b]
  <2> SUFFICES ASSUME NEW b \in Peer, result[b] # None PROVE owned'[b] = owned[b]
    OBVIOUS
  <2>1. owned[b] # {}
    BY <1>0 DEF CachedOwned
  <2>2. Listed(b)
    BY <1>0, <2>1 DEF OwnersRecorded, Listed
  <2> QED BY <1>0, <2>2 DEF TypeOK, Export
<1>6. CachedOwned'
  BY <1>0, <1>5 DEF CachedOwned, Export, tickVars
<1>7. PlacesLived' /\ BracketsUnfound'
  BY <1>0 DEF PlacesLived, LivedIn, BracketsUnfound, Export, tickVars
<1>8. FilledInContainer'
  <2> SUFFICES ASSUME filled' # NoAnswer
               PROVE  filled'.container \in lived'[filled'.pid]
    BY DEF FilledInContainer
  <2>1. /\ resource.beyla = None
        /\ filled'.container # None /\ filled'.pid # None
        /\ filled'.container = resource.container
        /\ filled'.pid = Fill(resource, Answer(a, named)).pid
        /\ lived' = lived
    BY DEF Export
  <2>2. Fill(resource, Answer(a, named)) = Answer(a, named) /\ resource.container = Answer(a, named).container
    BY <2>1 DEF Fill, NoAnswer
  <2>3. /\ cachedSockets[a] \in ProcInfo
        /\ filled'.pid = cachedSockets[a].pid
        /\ filled'.container = ContainerOf(cachedSockets[a])
    BY <1>0, <2>1, <2>2 DEF TypeOK, Answer, NoAnswer
  <2>4. filled'.container = cachedSockets[a].place /\ cachedSockets[a].place # Host
    BY <2>1, <2>3, ContainerOfPlace
  <2>5. cachedSockets[a] # None
    BY <2>1, <2>2 DEF Answer, NoAnswer
  <2> QED BY <1>0, <2>1, <2>3, <2>4, <2>5 DEF PlacesLived, LivedIn
<1> QED BY <1>3, <1>4, <1>6, <1>7, <1>8 DEF FillInv

\* The steps of mapSocketToPids besides the matching.
LEMMA TickInv ==
  ASSUME FillInv, TakePeers \/ ScanNewProcs \/ ScanFails \/ StoreMatched
  PROVE  FillInv'
<1> USE PlaceAssumption
<1>0. /\ TypeOK /\ OwnersRecorded /\ ResultsPending /\ PlacesLived /\ CachedOwned /\ FilledInContainer
      /\ BracketsUnfound
  BY DEF FillInv
<1>1. CASE TakePeers
  <2>1. TypeOK'
    BY <1>0, <1>1 DEF TypeOK, TakePeers, worldVars
  <2>2. OwnersRecorded' /\ ResultsPending'
    BY <1>0, <1>1 DEF TypeOK, OwnersRecorded, ResultsPending, TakePeers, worldVars
  <2>3. PlacesLived' /\ CachedOwned' /\ FilledInContainer' /\ BracketsUnfound'
    BY <1>0, <1>1 DEF PlacesLived, LivedIn, CachedOwned, FilledInContainer, NoAnswer, BracketsUnfound, TakePeers, worldVars
  <2> QED BY <2>1, <2>2, <2>3 DEF FillInv
<1>2. CASE ScanNewProcs
  <2>1. \A p \in Pid : procs'[p] \in {None, procs[p]} \/ (process[p] # None /\ procs'[p] = ScanProc(p))
    BY <1>2 DEF ScanNewProcs, LivePids
  <2>2. \A p \in Pid : process[p] # None => ScanProc(p) \in ProcInfo
    BY <1>0 DEF TypeOK, ScanProc, Ignored, Process, ProcInfo
  <2>3. procs' \in [Pid -> ProcInfo \cup {None}]
    BY <1>0, <1>2, <2>1, <2>2 DEF TypeOK, ScanNewProcs
  <2>4. TypeOK'
    BY <1>0, <1>2, <2>3 DEF TypeOK, ScanNewProcs, worldVars
  <2>5. \A p \in Pid : LivedIn(procs[p], p)' /\ (procs[p] # None => procs[p].pid = p)'
    BY <1>0, <1>2, <2>1 DEF PlacesLived, LivedIn, ScanNewProcs, ScanProc, worldVars
  <2>6. PlacesLived'
    BY <1>0, <1>2, <2>5 DEF PlacesLived, LivedIn, ScanNewProcs, worldVars
  <2>7. OwnersRecorded' /\ ResultsPending' /\ CachedOwned' /\ FilledInContainer' /\ BracketsUnfound'
    BY <1>0, <1>2 DEF OwnersRecorded, ResultsPending, CachedOwned, FilledInContainer, NoAnswer, BracketsUnfound, ScanNewProcs,
                      worldVars
  <2> QED BY <2>4, <2>6, <2>7 DEF FillInv
<1>3. CASE ScanFails
  <2>1. TypeOK'
    BY <1>0, <1>3 DEF TypeOK, ScanFails, Forget
  <2>2. OwnersRecorded'
    BY <1>0, <1>3 DEF TypeOK, OwnersRecorded, ScanFails, Forget
  <2>3. ResultsPending' /\ CachedOwned'
    BY <1>0, <1>3 DEF ResultsPending, CachedOwned, ScanFails
  <2>4. PlacesLived' /\ FilledInContainer' /\ BracketsUnfound'
    BY <1>0, <1>3 DEF PlacesLived, LivedIn, FilledInContainer, NoAnswer, BracketsUnfound, ScanFails
  <2> QED BY <2>1, <2>2, <2>3, <2>4 DEF FillInv
<1>4. CASE StoreMatched
  <2>1. TypeOK'
    BY <1>0, <1>4 DEF TypeOK, StoreMatched, Forget
  <2>2. OwnersRecorded' /\ ResultsPending' /\ CachedOwned'
    BY <1>0, <1>4 DEF TypeOK, OwnersRecorded, ResultsPending, CachedOwned, StoreMatched, Forget
  <2>3. \A a \in Peer : cachedSockets'[a] \in {result[a], cachedSockets[a]} /\ result'[a] = None
    BY <1>4 DEF StoreMatched
  <2>4. PlacesLived'
    BY <1>0, <1>4, <2>3 DEF PlacesLived, LivedIn, StoreMatched
  <2>5. FilledInContainer' /\ BracketsUnfound'
    BY <1>0, <1>4, <2>3 DEF FilledInContainer, NoAnswer, BracketsUnfound, StoreMatched
  <2> QED BY <2>1, <2>2, <2>4, <2>5 DEF FillInv
<1> QED BY <1>1, <1>2, <1>3, <1>4

\* What DoNetstat finds has no brackets.
LEMMA InTableForm ==
  ASSUME NEW a \in Peer, NEW place, InTable(a, place)
  PROVE  form[a] # "ipv6"
BY DEF InTable, Key, Written, SockAddr

\* What both matching steps do: a peer that is looked for gets the scanned
\* process that holds its socket now.
LEMMA MatchedHolds ==
  ASSUME FillInv, NEW seen \in SUBSET ToMatch, MatchHost(seen) \/ MatchContainers(seen)
  PROVE  /\ peers' \in [Peer -> Port \cup {None}]
         /\ \A a \in Peer : peers'[a] # None => peers[a] # None
         /\ result' \in [Peer -> ProcInfo \cup {None}]
         /\ \A a \in Peer : \/ result'[a] = result[a]
                            \/ /\ peers[a] # None /\ form[a] # "ipv6"
                               /\ \E p \in Pid : /\ owner[a] = p
                                                 /\ procs[p] # None
                                                 /\ result'[a] = procs[p]
<1>1. CASE MatchHost(seen)
  <2>1. \A a \in Peer, p \in Pid : OnHost(p, a) => form[a] # "ipv6" /\ owner[a] = p
    BY InTableForm DEF OnHost, Holds
  <2> QED BY <1>1, <2>1 DEF MatchHost, Match, ToMatch, FillInv, TypeOK
<1>2. CASE MatchContainers(seen)
  <2>1. \A a \in Peer, p \in Pid : InContainer(p, a) => form[a] # "ipv6" /\ owner[a] = p
    BY InTableForm DEF InContainer, Holds
  <2> QED BY <1>2, <2>1 DEF MatchContainers, Match, ToMatch, FillInv, TypeOK
<1> QED BY <1>1, <1>2

\* matchSockets preserves the invariant: the owner of a peer that is looked for
\* is recorded.
LEMMA MatchInv ==
  ASSUME FillInv, NEW seen \in SUBSET ToMatch, MatchHost(seen) \/ MatchContainers(seen)
  PROVE  FillInv'
<1> USE PlaceAssumption
<1>0. /\ TypeOK /\ OwnersRecorded /\ ResultsPending /\ PlacesLived /\ CachedOwned /\ FilledInContainer
      /\ BracketsUnfound
  BY DEF FillInv
<1>1. /\ UNCHANGED <<process, form, owner, owned, lived, procs, hostNetNamespace, cachedSockets, toMapSockets, filled>>
      /\ pc # "idle" /\ pc' \in {"container", "store"}
  BY DEF MatchHost, MatchContainers, worldVars
<1>2. TypeOK'
  BY <1>0, <1>1, MatchedHolds DEF TypeOK
<1>3. OwnersRecorded' /\ ResultsPending'
  BY <1>0, <1>1, MatchedHolds DEF OwnersRecorded, ResultsPending
<1>4. CachedOwned'
  <2> SUFFICES ASSUME NEW a \in Peer, result'[a] # None
               PROVE  result'[a].pid \in owned'[a]
    BY DEF CachedOwned
  <2>1. CASE result'[a] = result[a]
    BY <1>0, <1>1, <2>1 DEF CachedOwned
  <2>2. ASSUME NEW p \in Pid, peers[a] # None, owner[a] = p, procs[p] # None, result'[a] = procs[p]
        PROVE  result'[a].pid \in owned'[a]
    BY <1>0, <1>1, <2>2 DEF PlacesLived, OwnersRecorded
  <2> QED BY <2>1, <2>2, MatchedHolds
<1>5. PlacesLived'
  <2>1. ASSUME NEW a \in Peer PROVE LivedIn(result[a], result[a].pid)'
    <3>1. CASE result'[a] = result[a]
      BY <1>0, <1>1, <3>1 DEF PlacesLived, LivedIn
    <3>2. ASSUME NEW p \in Pid, procs[p] # None, result'[a] = procs[p]
          PROVE  LivedIn(result[a], result[a].pid)'
      BY <1>0, <1>1, <3>2 DEF PlacesLived, LivedIn
    <3> QED BY <3>1, <3>2, MatchedHolds
  <2> QED BY <1>0, <1>1, <2>1 DEF PlacesLived, LivedIn
<1>6. FilledInContainer' /\ BracketsUnfound'
  BY <1>0, <1>1, MatchedHolds DEF FilledInContainer, NoAnswer, BracketsUnfound
<1> QED BY <1>2, <1>3, <1>4, <1>5, <1>6 DEF FillInv

\* Every step preserves the invariant.
LEMMA StepInv == FillInv /\ [Next]_vars => FillInv'
<1> SUFFICES ASSUME FillInv, [Next]_vars PROVE FillInv'
  OBVIOUS
<1>1. CASE \/ \E p \in Pid : \/ \E new \in Process : StartProcess(p, new)
                             \/ Exec(p) \/ Exit(p)
           \/ \E a \in Peer : \/ \E p \in Pid : Open(a, p)
                              \/ Close(a)
  BY <1>1, WorldInv
<1>2. ASSUME NEW a \in Peer, NEW resource \in Resource, NEW named \in Port \cup {None}, Export(a, resource, named)
      PROVE  FillInv'
  BY <1>2, ExportInv
<1>3. CASE TakePeers \/ ScanNewProcs \/ ScanFails \/ StoreMatched
  BY <1>3, TickInv
<1>4. ASSUME NEW seen \in SUBSET ToMatch, MatchHost(seen) \/ MatchContainers(seen)
      PROVE  FillInv'
  BY <1>4, MatchInv
<1>5. CASE UNCHANGED vars
  BY <1>5 DEF vars, worldVars, tickVars, FillInv, TypeOK, OwnersRecorded, ResultsPending, PlacesLived, LivedIn,
              CachedOwned, FilledInContainer, NoAnswer, BracketsUnfound
<1> QED BY <1>1, <1>2, <1>3, <1>4, <1>5 DEF Next

\* The invariant of the fillproc extension holds in every reachable state.
THEOREM FillInvariant == Spec => []FillInv
<1> QED BY InitInv, StepInv, PTL DEF Spec

\* A peer is matched only with a process that had the connection since the peer
\* was put on the list, for any number of processes, peers and containers.
THEOREM MatchedWereOwners == Spec => []CachedOwned
<1>1. FillInv => CachedOwned
  BY DEF FillInv
<1> QED BY FillInvariant, <1>1, PTL

\* fillPidAndContainerId gives a resource that names its container only the pid
\* of a process that ran in it, although sockets and processes are cached for
\* ever and pids are used again.
THEOREM FilledFromContainer == Spec => []FilledInContainer
<1>1. FillInv => FilledInContainer
  BY DEF FillInv
<1> QED BY FillInvariant, <1>1, PTL

\* A peer whose IPv6 address is not ::1 is never matched, and never cached: its
\* requests are never given a pid of their own.
THEOREM OtherAddressesUnfound == Spec => []BracketsUnfound
<1>1. FillInv => BracketsUnfound
  BY DEF FillInv
<1> QED BY FillInvariant, <1>1, PTL

\* What StoreMatched caches for a peer is a process that had the connection, at
\* the moment it is stored; nothing else changes the cache.
CacheStep ==
  [][\A a \in Peer : cachedSockets'[a] # cachedSockets[a] => cachedSockets'[a].pid \in owned[a]]_vars

\* The socket cache changes only in favour of a process that had the connection.
THEOREM CachedWereOwners == Spec => CacheStep
<1>1. FillInv /\ [Next]_vars =>
        [\A a \in Peer : cachedSockets'[a] # cachedSockets[a] => cachedSockets'[a].pid \in owned[a]]_vars
  <2> SUFFICES ASSUME FillInv, Next, NEW a \in Peer, cachedSockets'[a] # cachedSockets[a]
               PROVE  cachedSockets'[a].pid \in owned[a]
    OBVIOUS
  <2>1. StoreMatched
    BY DEF Next, StartProcess, Exec, Exit, Open, Close, Export, TakePeers, ScanNewProcs, ScanFails,
           MatchHost, MatchContainers, tickVars
  <2>2. result[a] # None /\ cachedSockets'[a] = result[a]
    BY <2>1 DEF StoreMatched
  <2> QED BY <2>2 DEF FillInv, CachedOwned
<1> QED BY FillInvariant, <1>1, PTL DEF Spec, CacheStep

-----------------------------------------------------------------------------
(***************************************************************************)
(* SharedReceiver.                                                         *)
(***************************************************************************)

\* A collector that is configured: nothing runs yet.
LEMMA SharedInitInv ==
  ASSUME SR!Configured PROVE SR!Init => SR!SharedInv
<1> SUFFICES ASSUME SR!Init PROVE SR!SharedInv
  OBVIOUS
<1>1. SR!TypeOK
  BY DEF SR!Init, SR!TypeOK, SR!Configured, SR!Instance, SR!Idle, SR!New, SR!Steps, SR!Protocol, SR!Answer
<1>2. SR!OneAtATime
  BY DEF SR!Init, SR!OneAtATime, SR!Released, SR!InFlight, SR!New
<1>3. SR!PhaseOfLast
  BY DEF SR!Init, SR!PhaseOfLast, SR!Configured, SR!Idle
<1>4. SR!PortsServed /\ SR!BuiltBeforeBound /\ SR!Stopped
  BY DEF SR!Init, SR!PortsServed, SR!BuiltBeforeBound, SR!Stopped, SR!Stops, SR!Idle
<1> QED BY <1>1, <1>2, <1>3, <1>4 DEF SR!SharedInv

\* The last receiver is an instance once the collector has built it.
LEMMA LastReceiver ==
  ASSUME SR!Configured, SR!SharedInv
  PROVE  /\ made \in Nat /\ made <= MaxMade /\ comp \in {0, made} /\ MaxMade \in Nat
         /\ phase # "build" => made \in SR!Instance /\ made \in 1..made
         /\ phase \in {"start", "starting", "run", "stopping", "crashed"} => comp = made
BY DEF SR!SharedInv, SR!TypeOK, SR!PhaseOfLast, SR!Instance, SR!Configured

\* What the collector is doing with a pipeline.
LEMMA DoesWith ==
  ASSUME NEW p \in Pipeline \cup {NoOne}, NEW q \in Seq(SR!Steps), NEW u \in BOOLEAN
  PROVE  [pipe |-> p, steps |-> q, unwind |-> u] \in
           [pipe : Pipeline \cup {NoOne}, steps : Seq(SR!Steps), unwind : BOOLEAN]
OBVIOUS

\* A receiver is created for a pipeline.
LEMMA CreateInv ==
  ASSUME SR!Configured, SR!SharedInv, NEW p \in Pipeline, SR!Create(p)
  PROVE  SR!SharedInv'
<1> USE DEF SR!configVars, SR!onceVars, SR!serverVars
<1>0. SR!TypeOK /\ SR!OneAtATime /\ SR!PhaseOfLast /\ SR!PortsServed /\ SR!BuiltBeforeBound /\ SR!Stopped
  BY DEF SR!SharedInv
<1>1. SR!TypeOK'
  BY <1>0 DEF SR!Create, SR!TypeOK, SR!LoadOrStore, SR!PhaseOfLast, SR!Configured
<1>2. SR!OneAtATime'
  BY <1>0 DEF SR!Create, SR!OneAtATime, SR!Released, SR!InFlight
<1>3. SR!PhaseOfLast'
  BY <1>0 DEF SR!Create, SR!TypeOK, SR!LoadOrStore, SR!PhaseOfLast, SR!Configured, SR!Instance
<1>4. SR!PortsServed' /\ SR!BuiltBeforeBound' /\ SR!Stopped'
  BY <1>0 DEF SR!Create, SR!PortsServed, SR!BuiltBeforeBound, SR!Stopped, SR!Stops, SR!PhaseOfLast
<1> QED BY <1>1, <1>2, <1>3, <1>4 DEF SR!SharedInv

\* Sequences of two and four elements.
LEMMA ShortSequences ==
  ASSUME NEW S, NEW a \in S, NEW b \in S, NEW c \in S, NEW d \in S
  PROVE  <<a, b>> \in Seq(S) /\ <<a, b, c, d>> \in Seq(S)
OBVIOUS

\* Two pairs in a row.
LEMMA ConcatPairs ==
  ASSUME NEW a, NEW b, NEW c, NEW d
  PROVE  <<a, b>> \o <<c, d>> = <<a, b, c, d>>
<1> DEFINE S == {a, b, c, d}
           x == <<a, b>>
           y == <<c, d>>
           z == <<a, b, c, d>>
<1>1. x \in Seq(S) /\ y \in Seq(S) /\ z \in Seq(S)
  OBVIOUS
<1>2. Len(x) = 2 /\ Len(y) = 2 /\ Len(z) = 4
  OBVIOUS
<1>3. x[1] = a /\ x[2] = b /\ y[1] = c /\ y[2] = d /\ z[1] = a /\ z[2] = b /\ z[3] = c /\ z[4] = d
  OBVIOUS
<1> HIDE DEF S, x, y, z
<1>4. /\ x \o y \in Seq(S) /\ Len(x \o y) = 4
      /\ \A i \in 1 .. Len(x) + Len(y) : (x \o y)[i] = IF i <= Len(x) THEN x[i] ELSE y[i - Len(x)]
  <2>1. /\ x \o y \in Seq(S) /\ Len(x \o y) = Len(x) + Len(y)
        /\ \A i \in 1 .. Len(x) + Len(y) : (x \o y)[i] = IF i <= Len(x) THEN x[i] ELSE y[i - Len(x)]
    BY <1>1, ConcatProperties, Zenon
  <2> QED BY <1>2, <2>1
<1>5. \A i \in 1..4 : (x \o y)[i] = z[i]
  <2> DEFINE w == x \o y
  <2> HIDE DEF w
  <2>1. \A i \in 1 .. 4 : w[i] = IF i <= 2 THEN x[i] ELSE y[i - 2]
    BY <1>2, <1>4 DEF w
  <2>2. \A i \in 1..4 : w[i] = z[i]
    BY <1>3, <2>1
  <2> QED BY <2>2 DEF w
<1>6. x \o y = z
  BY <1>1, <1>2, <1>4, <1>5, SeqEqual
<1> QED BY <1>6 DEF x, y, z

\* Start builds and binds the protocols that are enabled, and only the skywalking
\* receiver binds a port, that of http, before its server is built.
LEMMA StartStepsBuild ==
  ASSUME SR!TypeOK
  PROVE  /\ SR!StartSteps \in Seq(SR!Steps)
         /\ \A j \in DOMAIN SR!StartSteps :
              LET s == SR!StartSteps[j] IN
              s.op = "bind" /\ ~(kind = "skywalking" /\ s.protocol = "http") =>
                j - 1 \in DOMAIN SR!StartSteps /\ SR!StartSteps[j - 1] = SR!Step("build", s.protocol)
<1> DEFINE b(p) == SR!Step("build", p)
           d(p) == SR!Step("bind", p)
<1>1. \A p \in SR!Protocol : b(p) \in SR!Steps /\ d(p) \in SR!Steps
  BY DEF SR!Steps, SR!Step
<1>2. \A p \in SR!Protocol : b(p).op = "build" /\ d(p).op = "bind" /\ b(p).protocol = p /\ d(p).protocol = p
  BY DEF SR!Step
<1>3. "grpc" \in SR!Protocol /\ "http" \in SR!Protocol
  BY DEF SR!Protocol
<1>4. \/ SR!StartSteps = <<b("grpc"), d("grpc")>>
      \/ kind = "otlp" /\ SR!StartSteps = <<b("http"), d("http")>>
      \/ kind = "skywalking" /\ SR!StartSteps = <<d("http"), b("http")>>
      \/ kind = "otlp" /\ SR!StartSteps = <<b("grpc"), d("grpc"), b("http"), d("http")>>
      \/ kind = "skywalking" /\ SR!StartSteps = <<d("http"), b("http"), b("grpc"), d("grpc")>>
  <2> HIDE DEF b, d
  <2>1. <<b("grpc"), d("grpc")>> \o <<b("http"), d("http")>> = <<b("grpc"), d("grpc"), b("http"), d("http")>>
    BY ConcatPairs, Zenon
  <2>2. <<d("http"), b("http")>> \o <<b("grpc"), d("grpc")>> = <<d("http"), b("http"), b("grpc"), d("grpc")>>
    BY ConcatPairs, Zenon
  <2>3. kind = "otlp" \/ kind = "skywalking"
    BY DEF SR!TypeOK
  <2> QED BY <2>1, <2>2, <2>3, Zenon DEF SR!StartSteps, b, d
<1> HIDE DEF b, d
<1>5. SR!StartSteps \in Seq(SR!Steps)
  BY <1>1, <1>3, <1>4, ShortSequences, Zenon
<1>6. ASSUME NEW j \in DOMAIN SR!StartSteps, SR!StartSteps[j].op = "bind",
             ~(kind = "skywalking" /\ SR!StartSteps[j].protocol = "http")
      PROVE  j - 1 \in DOMAIN SR!StartSteps /\ SR!StartSteps[j - 1] = b(SR!StartSteps[j].protocol)
  BY <1>2, <1>3, <1>4, <1>6
<1> QED BY <1>5, <1>6 DEF b

\* The first Start of a receiver begins, the others do nothing.
LEMMA StartInv ==
  ASSUME SR!Configured, SR!SharedInv, NEW p \in Pipeline, SR!Start(p)
  PROVE  SR!SharedInv'
<1> USE DEF SR!configVars, SR!onceVars, SR!serverVars
<1>0. SR!TypeOK /\ SR!OneAtATime /\ SR!PhaseOfLast /\ SR!PortsServed /\ SR!BuiltBeforeBound /\ SR!Stopped
  BY DEF SR!SharedInv
<1>s. \/ at' = at /\ phase' = phase
      \/ at' = [pipe |-> p, steps |-> SR!StartSteps, unwind |-> FALSE] /\ phase' \in {"starting", "crashed"}
  BY DEF SR!Start
<1>1. SR!TypeOK'
  <2>1. at' \in [pipe : Pipeline \cup {NoOne}, steps : Seq(SR!Steps), unwind : BOOLEAN]
    <3>1. SR!StartSteps \in Seq(SR!Steps)
      BY <1>0, StartStepsBuild
    <3>2. at \in [pipe : Pipeline \cup {NoOne}, steps : Seq(SR!Steps), unwind : BOOLEAN]
      BY <1>0 DEF SR!TypeOK
    <3>3. [pipe |-> p, steps |-> SR!StartSteps, unwind |-> FALSE] \in
            [pipe : Pipeline \cup {NoOne}, steps : Seq(SR!Steps), unwind : BOOLEAN]
      BY <3>1, DoesWith
    <3> QED BY <1>s, <3>2, <3>3
  <2>2. startOnce' \subseteq 1..made
    <3>1. phase = "start" /\ startOnce' \subseteq startOnce \cup {comp}
      BY DEF SR!Start
    <3>2. startOnce \subseteq 1..made
      BY <1>0 DEF SR!TypeOK
    <3> QED BY <3>1, <3>2, LastReceiver
  <2>3. phase' \in {"start", "starting", "crashed"} /\ todo' \subseteq todo
    BY DEF SR!Start
  <2> QED BY <1>0, <2>1, <2>2, <2>3 DEF SR!Start, SR!TypeOK
<1>2. SR!OneAtATime'
  BY <1>0 DEF SR!Start, SR!OneAtATime, SR!Released, SR!InFlight
<1>3. SR!PhaseOfLast'
  BY <1>0 DEF SR!Start, SR!TypeOK, SR!PhaseOfLast
<1>4. SR!PortsServed' /\ SR!Stopped'
  BY <1>0 DEF SR!Start, SR!PortsServed, SR!Stopped, SR!Stops, SR!PhaseOfLast
<1>5. SR!BuiltBeforeBound'
  <2>1. CASE phase' = "starting"
    <3>1. phase = "start"
      BY DEF SR!Start
    <3>2. at'.steps = SR!StartSteps
      BY <1>s, <2>1, <3>1
    <3> SUFFICES ASSUME NEW j \in DOMAIN SR!StartSteps, SR!StartSteps[j].op = "bind",
                        ~(kind = "skywalking" /\ SR!StartSteps[j].protocol = "http")
                 PROVE  \E l \in 1 .. j - 1 : SR!StartSteps[l] = SR!Step("build", SR!StartSteps[j].protocol)
      BY <3>2 DEF SR!BuiltBeforeBound, SR!Start
    <3>3. j - 1 \in 1 .. j - 1 /\ SR!StartSteps[j - 1] = SR!Step("build", SR!StartSteps[j].protocol)
      BY <1>0, StartStepsBuild
    <3> QED BY <3>3
  <2>2. CASE phase' # "starting"
    BY <2>2 DEF SR!BuiltBeforeBound
  <2> QED BY <2>1, <2>2
<1> QED BY <1>1, <1>2, <1>3, <1>4, <1>5 DEF SR!SharedInv

\* A step of Start that succeeds.
LEMMA StartStepInv ==
  ASSUME SR!Configured, SR!SharedInv, SR!StartStep
  PROVE  SR!SharedInv'
<1> USE DEF SR!configVars, SR!onceVars, SR!serverVars
<1>0. SR!TypeOK /\ SR!OneAtATime /\ SR!PhaseOfLast /\ SR!PortsServed /\ SR!BuiltBeforeBound /\ SR!Stopped
  BY DEF SR!SharedInv
<1> DEFINE s == Head(at.steps)
<1>h. /\ s \in SR!Steps /\ at'.steps = Tail(at.steps) /\ at'.steps \in Seq(SR!Steps)
      /\ at'.unwind = at.unwind /\ at'.pipe = at.pipe /\ at.steps # <<>>
      /\ phase = "starting" /\ phase' = phase /\ ~at.unwind
  BY <1>0 DEF SR!StartStep, SR!TypeOK
<1>c. comp = made /\ made \in SR!Instance
  BY <1>0, <1>h, LastReceiver DEF SR!PhaseOfLast
<1>1. SR!TypeOK'
  BY <1>0, <1>h, <1>c, ZenonT(60) DEF SR!StartStep, SR!TypeOK, SR!Built, SR!Bound, SR!Served, SR!Steps
<1>2. SR!OneAtATime'
  BY <1>0, <1>h, <1>c DEF SR!StartStep, SR!OneAtATime, SR!Released, SR!InFlight, SR!Served, SR!TypeOK
<1>3. SR!PhaseOfLast'
  BY <1>0, <1>h DEF SR!StartStep, SR!TypeOK, SR!PhaseOfLast
<1>4. SR!PortsServed'
  BY <1>0, <1>h, <1>c DEF SR!StartStep, SR!PortsServed, SR!Served, SR!Built, SR!Bound, SR!BuiltBeforeBound, SR!TypeOK, SR!Steps
<1>5. SR!Stopped'
  BY <1>0, <1>h DEF SR!Stopped, SR!Stops
<1>6. SR!BuiltBeforeBound'
  <2> SUFFICES ASSUME NEW j \in DOMAIN at'.steps, at'.steps[j].op = "bind",
                      ~(kind = "skywalking" /\ at'.steps[j].protocol = "http"),
                      at'.steps[j].protocol \notin server'[comp]
               PROVE  \E l \in 1 .. j - 1 : at'.steps[l] = SR!Step("build", at'.steps[j].protocol)
    BY DEF SR!StartStep, SR!BuiltBeforeBound
  <2> DEFINE p == at'.steps[j].protocol
  <2>1. /\ j \in Nat /\ j + 1 \in DOMAIN at.steps /\ at.steps[j + 1] = at'.steps[j]
        /\ \A l \in 1 .. j - 1 : at'.steps[l] = at.steps[l + 1]
    BY <1>0, <1>h DEF SR!TypeOK
  <2>2. p \notin server[comp]
    BY <1>0, <1>c DEF SR!StartStep, SR!Built, SR!TypeOK
  <2>3. PICK l \in 1 .. j : at.steps[l] = SR!Step("build", p)
    <3>1. at.steps[j + 1].op = "bind" /\ at.steps[j + 1].protocol = p
      BY <2>1
    <3>2. ~(kind = "skywalking" /\ p = "http") /\ j + 1 - 1 = j
      BY <2>1
    <3> HIDE DEF p
    <3> DEFINE k == j + 1
    <3>3. k \in DOMAIN at.steps /\ at.steps[k].op = "bind" /\ at.steps[k].protocol = p /\ k - 1 = j
      BY <2>1, <3>1, <3>2
    <3> HIDE DEF k
    <3>4. \/ at.steps[k].protocol \in server[comp]
          \/ \E l \in 1 .. k - 1 : at.steps[l] = SR!Step("build", at.steps[k].protocol)
      BY <1>0, <1>h, <3>2, <3>3, Zenon DEF SR!BuiltBeforeBound
    <3> QED BY <2>2, <3>3, <3>4, Zenon
  <2>4. l # 1
    <3> SUFFICES ASSUME l = 1 PROVE p \in server'[comp]
      OBVIOUS
    <3>1. s = SR!Step("build", p)
      BY <2>3, <1>0, <1>h DEF SR!TypeOK
    <3>2. s.op = "build" /\ s.protocol = p
      BY <3>1 DEF SR!Step
    <3> QED BY <3>2, <1>0, <1>c DEF SR!StartStep, SR!Built, SR!TypeOK
  <2>5. l - 1 \in 1 .. j - 1 /\ at'.steps[l - 1] = at.steps[l]
    BY <2>1, <2>4
  <2> QED BY <2>3, <2>5
<1> QED BY <1>1, <1>2, <1>3, <1>4, <1>5, <1>6 DEF SR!SharedInv

\* A step of Start that fails.
LEMMA StartStepFailsInv ==
  ASSUME SR!Configured, SR!SharedInv, SR!StartStepFails
  PROVE  SR!SharedInv'
<1> USE DEF SR!configVars, SR!onceVars, SR!serverVars
<1>0. SR!TypeOK /\ SR!OneAtATime /\ SR!PhaseOfLast /\ SR!PortsServed /\ SR!BuiltBeforeBound /\ SR!Stopped
  BY DEF SR!SharedInv
<1>m. /\ phase = "starting" /\ made \in SR!Instance /\ comp = made /\ made > 0
      /\ at \in [pipe : Pipeline \cup {NoOne}, steps : Seq(SR!Steps), unwind : BOOLEAN]
  BY <1>0, LastReceiver DEF SR!StartStepFails, SR!TypeOK
<1>s. \/ phase' = phase /\ todo' = todo /\ at' = [at EXCEPT !.unwind = TRUE, !.steps = SR!StopSteps]
      \/ phase' = "shutdown" /\ todo' = pipes /\ at' = SR!Idle
  BY DEF SR!StartStepFails
<1>t. SR!StopSteps \in Seq(SR!Steps)
  BY DEF SR!StopSteps, SR!Step, SR!Steps, SR!Protocol
<1>u. /\ at' \in [pipe : Pipeline \cup {NoOne}, steps : Seq(SR!Steps), unwind : BOOLEAN]
      /\ phase' = "starting" => at'.unwind /\ at'.steps = SR!StopSteps
      /\ phase' = "shutdown" => ~at'.unwind
  <2>1. CASE at' = [at EXCEPT !.unwind = TRUE, !.steps = SR!StopSteps] /\ phase' = "starting"
    <3>1. at' = [pipe |-> at.pipe, steps |-> SR!StopSteps, unwind |-> TRUE] /\ at.pipe \in Pipeline \cup {NoOne}
      BY <1>m, <2>1
    <3>2. at' \in [pipe : Pipeline \cup {NoOne}, steps : Seq(SR!Steps), unwind : BOOLEAN]
      BY <1>t, <3>1, DoesWith
    <3> QED BY <2>1, <3>1, <3>2
  <2>2. CASE at' = SR!Idle /\ phase' = "shutdown"
    <3>1. SR!Idle \in [pipe : Pipeline \cup {NoOne}, steps : Seq(SR!Steps), unwind : BOOLEAN] /\ ~SR!Idle.unwind
      BY DEF SR!Idle
    <3> QED BY <2>2, <3>1
  <2> QED BY <1>m, <1>s, <2>1, <2>2
<1>1. SR!TypeOK'
  BY <1>0, <1>s, <1>u DEF SR!StartStepFails, SR!TypeOK
<1>2. SR!OneAtATime'
  BY <1>0, <1>m, <1>s DEF SR!StartStepFails, SR!OneAtATime, SR!Released, SR!InFlight, SR!PhaseOfLast
<1>3. SR!PhaseOfLast'
  BY <1>0, <1>m, <1>s, <1>u DEF SR!StartStepFails, SR!PhaseOfLast
<1>4. SR!PortsServed' /\ SR!BuiltBeforeBound'
  BY <1>0, <1>s, <1>u DEF SR!StartStepFails, SR!PortsServed, SR!BuiltBeforeBound
<1>5. SR!Stopped'
  <2>1. CASE phase' = "starting"
    <3>1. 1 \in DOMAIN at'.steps /\ 2 \in DOMAIN at'.steps /\ at'.steps[1].protocol = "http" /\ at'.steps[2].protocol = "grpc"
      BY <1>u, <2>1 DEF SR!StopSteps, SR!Step
    <3> QED BY <3>1 DEF SR!Stopped, SR!Protocol
  <2>2. CASE phase' = "shutdown"
    BY <1>u, <2>2 DEF SR!Stopped, SR!Stops
  <2> QED BY <1>m, <1>s, <2>1, <2>2
<1> QED BY <1>1, <1>2, <1>3, <1>4, <1>5 DEF SR!SharedInv

\* Start returns.
LEMMA StartEndsInv ==
  ASSUME SR!Configured, SR!SharedInv, SR!StartEnds
  PROVE  SR!SharedInv'
<1> USE DEF SR!configVars, SR!onceVars, SR!serverVars
<1>0. SR!TypeOK /\ SR!OneAtATime /\ SR!PhaseOfLast /\ SR!PortsServed /\ SR!BuiltBeforeBound /\ SR!Stopped
  BY DEF SR!SharedInv
<1>m. phase = "starting" /\ made \in SR!Instance /\ comp = made /\ made > 0
  BY <1>0, LastReceiver DEF SR!StartEnds
<1>s. /\ \/ phase' = "start" /\ todo' \subseteq todo
         \/ phase' = "shutdown" /\ todo' = pipes
      /\ at' = SR!Idle /\ ~at'.unwind
      /\ at' \in [pipe : Pipeline \cup {NoOne}, steps : Seq(SR!Steps), unwind : BOOLEAN]
  BY DEF SR!StartEnds, SR!Idle
<1>1. SR!TypeOK'
  BY <1>0, <1>s DEF SR!StartEnds, SR!TypeOK
<1>2. SR!OneAtATime'
  BY <1>0, <1>m, <1>s DEF SR!StartEnds, SR!OneAtATime, SR!Released, SR!InFlight, SR!PhaseOfLast
<1>3. SR!PhaseOfLast'
  BY <1>0, <1>m, <1>s DEF SR!StartEnds, SR!PhaseOfLast
<1>4. SR!PortsServed' /\ SR!BuiltBeforeBound' /\ SR!Stopped'
  BY <1>0, <1>s DEF SR!StartEnds, SR!PortsServed, SR!BuiltBeforeBound, SR!Stopped, SR!Stops
<1> QED BY <1>1, <1>2, <1>3, <1>4 DEF SR!SharedInv

\* The collector runs, is told to stop, is down or loads its configuration again.
LEMMA PhasesInv ==
  ASSUME SR!Configured, SR!SharedInv, SR!Run \/ SR!BeginShutdown \/ SR!Down \/ SR!Reload
  PROVE  SR!SharedInv'
<1> USE DEF SR!configVars, SR!onceVars, SR!serverVars
<1>0. SR!TypeOK /\ SR!OneAtATime /\ SR!PhaseOfLast /\ SR!PortsServed /\ SR!BuiltBeforeBound /\ SR!Stopped
  BY DEF SR!SharedInv
<1>m. made \in SR!Instance /\ made > 0
  BY <1>0, LastReceiver DEF SR!Run, SR!BeginShutdown, SR!Down, SR!Reload
<1>s. /\ \/ phase = "start" /\ phase' = "run" /\ todo' = todo
         \/ phase = "run" /\ phase' = "shutdown" /\ todo' = pipes
         \/ phase = "shutdown" /\ phase' = "down" /\ todo = {} /\ todo' = todo
         \/ phase = "down" /\ phase' = "build" /\ todo' = pipes /\ made < MaxMade
      /\ UNCHANGED <<SR!configVars, at, SR!onceVars, SR!serverVars, foreign, request, status>>
  BY DEF SR!Run, SR!BeginShutdown, SR!Down, SR!Reload
<1>1. SR!TypeOK'
  BY <1>0, <1>s DEF SR!TypeOK
<1>n. phase = "shutdown" /\ todo = {} => made \in stopOnce /\ comp = 0
  BY <1>0, <1>m DEF SR!PhaseOfLast, SR!TypeOK
<1>2. SR!OneAtATime'
  BY <1>0, <1>m, <1>n, <1>s DEF SR!OneAtATime, SR!Released, SR!InFlight, SR!PhaseOfLast
<1>3. SR!PhaseOfLast'
  BY <1>0, <1>m, <1>n, <1>s DEF SR!PhaseOfLast
<1>4. SR!PortsServed' /\ SR!BuiltBeforeBound' /\ SR!Stopped'
  BY <1>0, <1>s DEF SR!PortsServed, SR!BuiltBeforeBound, SR!Stopped, SR!Stops, SR!PhaseOfLast
<1> QED BY <1>1, <1>2, <1>3, <1>4 DEF SR!SharedInv

\* A request arrives at a server that accepts connections: it is one of the last
\* receiver, and of a protocol that is not stopped.
LEMMA ArriveInv ==
  ASSUME SR!Configured, SR!SharedInv,
         NEW r \in Request, NEW i \in SR!Instance, NEW protocol \in SR!Protocol, NEW p \in Pipeline,
         SR!Arrive(r, i, protocol, p)
  PROVE  SR!SharedInv'
<1> USE DEF SR!configVars, SR!onceVars, SR!serverVars
<1>0. SR!TypeOK /\ SR!OneAtATime /\ SR!PhaseOfLast /\ SR!PortsServed /\ SR!BuiltBeforeBound /\ SR!Stopped
  BY DEF SR!SharedInv
<1>u. /\ UNCHANGED <<SR!configVars, phase, todo, at, SR!onceVars, SR!serverVars, foreign, status>>
      /\ protocol \in serving[i]
  BY DEF SR!Arrive
<1>i. i \in 0..MaxMade /\ MaxMade \in Nat
  BY DEF SR!Instance, SR!Configured
<1>e. ASSUME NEW e \in SR!ReadError
      PROVE  SR!ReadErrorCode(e) \in SR!Answer
  BY <1>0, <1>e DEF SR!ReadError, SR!ReadErrorCode, SR!Answer, SR!TypeOK
<1>r. /\ \A q \in Request : q # r => request'[q] = request[q]
      /\ request'[r].state = "export" => request'[r].inst = i /\ request'[r].protocol = protocol
      /\ request' \in [Request -> [state : {"new", "export"} \cup SR!Answer, inst : 0..MaxMade,
                                   protocol : SR!Protocol, pipe : Pipeline \cup {NoOne},
                                   error : {"none", "plain", "permanent", "exhausted"}]]
  <2>1. /\ request[r] \in [state : {"new", "export"} \cup SR!Answer, inst : 0..MaxMade,
                           protocol : SR!Protocol, pipe : Pipeline \cup {NoOne},
                           error : {"none", "plain", "permanent", "exhausted"}]
        /\ request \in [Request -> [state : {"new", "export"} \cup SR!Answer, inst : 0..MaxMade,
                                    protocol : SR!Protocol, pipe : Pipeline \cup {NoOne},
                                    error : {"none", "plain", "permanent", "exhausted"}]]
    BY <1>0 DEF SR!TypeOK
  <2>2. CASE request' = [request EXCEPT ![r] = [@ EXCEPT !.state = "export", !.inst = i, !.protocol = protocol, !.pipe = p]]
    BY <1>i, <2>1, <2>2
  <2>3. CASE \E e \in SR!ReadError : request' = [request EXCEPT ![r] = [@ EXCEPT !.state = SR!ReadErrorCode(e)]]
    <3>1. PICK e \in SR!ReadError : request' = [request EXCEPT ![r] = [@ EXCEPT !.state = SR!ReadErrorCode(e)]]
      BY <2>3
    <3>2. SR!ReadErrorCode(e) \in SR!Answer /\ SR!ReadErrorCode(e) # "export"
      BY <1>e DEF SR!Answer
    <3> QED BY <2>1, <3>1, <3>2
  <2> QED BY <2>2, <2>3 DEF SR!Arrive
<1>o. i = made /\ phase \notin {"build", "down"} /\ ~(phase = "shutdown" /\ made \in stopOnce)
  BY <1>0, <1>u DEF SR!OneAtATime, SR!Released
<1>1. SR!TypeOK'
  BY <1>0, <1>u, <1>r DEF SR!TypeOK
<1>2. SR!OneAtATime'
  BY <1>0, <1>u, <1>r, <1>o DEF SR!OneAtATime, SR!Released, SR!InFlight
<1>3. SR!PhaseOfLast' /\ SR!PortsServed' /\ SR!BuiltBeforeBound'
  BY <1>0, <1>u DEF SR!PhaseOfLast, SR!PortsServed, SR!BuiltBeforeBound
<1>4. SR!Stopped'
  BY <1>0, <1>u, <1>r, <1>o DEF SR!Stopped, SR!Stops, SR!RequestsDrained, SR!InFlight
<1> QED BY <1>1, <1>2, <1>3, <1>4 DEF SR!SharedInv

\* A request is answered.
LEMMA AnswerInv ==
  ASSUME SR!Configured, SR!SharedInv, NEW r \in Request, SR!Export(r)
  PROVE  SR!SharedInv'
<1> USE DEF SR!configVars, SR!onceVars, SR!serverVars
<1>0. SR!TypeOK /\ SR!OneAtATime /\ SR!PhaseOfLast /\ SR!PortsServed /\ SR!BuiltBeforeBound /\ SR!Stopped
  BY DEF SR!SharedInv
<1>u. UNCHANGED <<SR!configVars, phase, todo, at, SR!onceVars, SR!serverVars, foreign, status>>
  BY DEF SR!Export
<1>a. ASSUME NEW e \in {"plain", "permanent", "exhausted"}
      PROVE  SR!ErrorCode(request[r].protocol, e) \in SR!Answer
  <2>1. request[r].protocol \in SR!Protocol
    BY <1>0 DEF SR!TypeOK
  <2>2. SR!GetStatusFromError(e) \in {"Unavailable", "Internal", "ResourceExhausted"}
    BY <1>a DEF SR!GetStatusFromError
  <2>3. SR!GetHTTPStatusCodeFromStatus(SR!GetStatusFromError(e)) \in {"503", "429", "500"}
    BY DEF SR!GetHTTPStatusCodeFromStatus
  <2>4. kind \in {"otlp", "skywalking"}
    BY <1>0 DEF SR!TypeOK
  <2> QED BY <2>1, <2>2, <2>3, <2>4 DEF SR!ErrorCode, SR!Answer, SR!Protocol
<1>r. /\ \A q \in Request : request'[q] = request[q] \/ request'[q].state # "export"
      /\ request' \in [Request -> [state : {"new", "export"} \cup SR!Answer, inst : 0..MaxMade,
                                   protocol : SR!Protocol, pipe : Pipeline \cup {NoOne},
                                   error : {"none", "plain", "permanent", "exhausted"}]]
  <2>1. /\ request[r] \in [state : {"new", "export"} \cup SR!Answer, inst : 0..MaxMade,
                           protocol : SR!Protocol, pipe : Pipeline \cup {NoOne},
                           error : {"none", "plain", "permanent", "exhausted"}]
        /\ request \in [Request -> [state : {"new", "export"} \cup SR!Answer, inst : 0..MaxMade,
                                    protocol : SR!Protocol, pipe : Pipeline \cup {NoOne},
                                    error : {"none", "plain", "permanent", "exhausted"}]]
    BY <1>0 DEF SR!TypeOK
  <2>2. CASE request' = [request EXCEPT ![r] = [@ EXCEPT !.state = "200"]]
    BY <2>1, <2>2 DEF SR!Answer
  <2>3. CASE \E e \in {"plain", "permanent", "exhausted"} :
               request' = [request EXCEPT ![r] = [@ EXCEPT !.state = SR!ErrorCode(request[r].protocol, e), !.error = e]]
    <3>1. PICK e \in {"plain", "permanent", "exhausted"} :
               request' = [request EXCEPT ![r] = [@ EXCEPT !.state = SR!ErrorCode(request[r].protocol, e), !.error = e]]
      BY <2>3
    <3>2. SR!ErrorCode(request[r].protocol, e) \in SR!Answer /\ SR!ErrorCode(request[r].protocol, e) # "export"
      BY <1>a DEF SR!Answer
    <3> QED BY <2>1, <3>1, <3>2
  <2> QED BY <2>2, <2>3 DEF SR!Export
<1>1. SR!TypeOK'
  BY <1>0, <1>u, <1>r DEF SR!TypeOK
<1>2. SR!OneAtATime'
  BY <1>0, <1>u, <1>r DEF SR!OneAtATime, SR!Released, SR!InFlight
<1>3. SR!PhaseOfLast' /\ SR!PortsServed' /\ SR!BuiltBeforeBound'
  BY <1>0, <1>u DEF SR!PhaseOfLast, SR!PortsServed, SR!BuiltBeforeBound
<1>4. SR!Stopped'
  BY <1>0, <1>u, <1>r DEF SR!Stopped, SR!Stops, SR!RequestsDrained, SR!InFlight
<1> QED BY <1>1, <1>2, <1>3, <1>4 DEF SR!SharedInv

\* Another process takes or leaves a port.
LEMMA ElsewhereInv ==
  ASSUME SR!SharedInv, SR!Elsewhere
  PROVE  SR!SharedInv'
BY DEF SR!SharedInv, SR!TypeOK, SR!OneAtATime, SR!Released, SR!InFlight, SR!PhaseOfLast, SR!PortsServed,
       SR!BuiltBeforeBound, SR!Stopped, SR!Stops, SR!RequestsDrained, SR!Elsewhere,
       SR!configVars, SR!onceVars, SR!serverVars

\* The first Shutdown of a receiver begins, the others do nothing.
LEMMA ShutdownInv ==
  ASSUME SR!Configured, SR!SharedInv, NEW p \in Pipeline, SR!Shutdown(p)
  PROVE  SR!SharedInv'
<1> USE DEF SR!configVars, SR!onceVars, SR!serverVars
<1>0. SR!TypeOK /\ SR!OneAtATime /\ SR!PhaseOfLast /\ SR!PortsServed /\ SR!BuiltBeforeBound /\ SR!Stopped
  BY DEF SR!SharedInv
<1>m. phase = "shutdown" /\ made \in SR!Instance /\ made > 0 /\ made \in 1..made /\ made \in Nat /\ comp \in {0, made}
  BY LastReceiver DEF SR!Shutdown
<1>u. UNCHANGED <<SR!configVars, made, comp, startOnce, registered, SR!serverVars, foreign, request>>
  BY DEF SR!Shutdown
<1>a. CASE made \in stopOnce
  <2>1. todo' = todo \ {p} /\ UNCHANGED <<phase, at, stopOnce>>
    BY <1>a DEF SR!Shutdown
  <2>2. SR!TypeOK'
    BY <1>0, <1>u, <2>1 DEF SR!TypeOK
  <2>3. SR!OneAtATime'
    BY <1>0, <1>u, <2>1 DEF SR!OneAtATime, SR!Released, SR!InFlight
  <2>4. SR!PhaseOfLast' /\ SR!PortsServed' /\ SR!BuiltBeforeBound'
    BY <1>0, <1>a, <1>m, <1>u, <2>1 DEF SR!PhaseOfLast, SR!PortsServed, SR!BuiltBeforeBound
  <2>5. SR!Stopped'
    BY <1>0, <1>u, <2>1 DEF SR!Stopped, SR!Stops, SR!RequestsDrained, SR!InFlight
  <2> QED BY <2>2, <2>3, <2>4, <2>5 DEF SR!SharedInv
<1>b. CASE made \notin stopOnce
  <2>1. /\ stopOnce' = stopOnce \cup {made} /\ phase' = "stopping" /\ todo' = todo
        /\ at' = [pipe |-> p, steps |-> SR!StopSteps, unwind |-> FALSE]
    BY <1>b DEF SR!Shutdown
  <2>2. /\ at' \in [pipe : Pipeline \cup {NoOne}, steps : Seq(SR!Steps), unwind : BOOLEAN]
        /\ ~at'.unwind /\ at'.steps = SR!StopSteps
    <3>1. SR!StopSteps \in Seq(SR!Steps)
      BY DEF SR!StopSteps, SR!Step, SR!Steps, SR!Protocol
    <3>2. p \in Pipeline \cup {NoOne} /\ FALSE \in BOOLEAN
      OBVIOUS
    <3>3. [pipe |-> p, steps |-> SR!StopSteps, unwind |-> FALSE] \in
            [pipe : Pipeline \cup {NoOne}, steps : Seq(SR!Steps), unwind : BOOLEAN]
      BY <3>1, <3>2, DoesWith
    <3> QED BY <2>1, <3>3
  <2>3. SR!TypeOK'
    <3>1. stopOnce' \subseteq 1..made
      BY <1>0, <1>m, <2>1 DEF SR!TypeOK
    <3> QED BY <1>0, <1>u, <2>1, <2>2, <3>1 DEF SR!TypeOK
  <2>4. SR!OneAtATime'
    BY <1>0, <1>u, <2>1 DEF SR!OneAtATime, SR!Released, SR!InFlight
  <2>5. SR!PhaseOfLast'
    BY <1>0, <1>b, <1>m, <1>u, <2>1, <2>2 DEF SR!PhaseOfLast
  <2>6. SR!PortsServed' /\ SR!BuiltBeforeBound'
    BY <1>0, <1>u, <2>1 DEF SR!PortsServed, SR!BuiltBeforeBound
  <2>7. SR!Stopped'
    <3>1. /\ 1 \in DOMAIN at'.steps /\ at'.steps[1].protocol = "http"
          /\ 2 \in DOMAIN at'.steps /\ at'.steps[2].protocol = "grpc"
      BY <2>2 DEF SR!StopSteps, SR!Step
    <3> QED BY <3>1 DEF SR!Stopped, SR!Protocol
  <2> QED BY <2>3, <2>4, <2>5, <2>6, <2>7 DEF SR!SharedInv
<1> QED BY <1>a, <1>b

\* A server closes its port and its Serve goroutine ends.
LEMMA CloseListenerInv ==
  ASSUME SR!Configured, SR!SharedInv, SR!CloseListener
  PROVE  SR!SharedInv'
<1> USE DEF SR!configVars, SR!onceVars, SR!serverVars
<1>0. SR!TypeOK /\ SR!OneAtATime /\ SR!PhaseOfLast /\ SR!PortsServed /\ SR!BuiltBeforeBound /\ SR!Stopped
  BY DEF SR!SharedInv
<1>m. made \in SR!Instance
  BY <1>0, LastReceiver DEF SR!CloseListener, SR!Stops, SR!PhaseOfLast
<1> DEFINE protocol == Head(at.steps).protocol
<1>u. /\ UNCHANGED <<SR!configVars, phase, todo, at, SR!onceVars, server, foreign, request, status>>
      /\ bound' = [bound EXCEPT ![made] = @ \ {protocol}]
      /\ serving' = [serving EXCEPT ![made] = @ \ {protocol}]
  BY DEF SR!CloseListener
<1> HIDE DEF protocol
<1>b. /\ bound' \in [SR!Instance -> SUBSET SR!Protocol] /\ serving' \in [SR!Instance -> SUBSET SR!Protocol]
      /\ \A i \in SR!Instance : serving'[i] \subseteq serving[i]
      /\ \A i \in SR!Instance \ {made} : serving'[i] = serving[i] /\ bound'[i] = bound[i]
      /\ bound'[made] = bound[made] \ {protocol} /\ serving'[made] = serving[made] \ {protocol}
  BY <1>0, <1>m, <1>u DEF SR!TypeOK
<1>1. SR!TypeOK'
  BY <1>0, <1>u, <1>b DEF SR!TypeOK
<1>2. SR!OneAtATime'
  BY <1>0, <1>m, <1>u, <1>b DEF SR!OneAtATime, SR!Released, SR!InFlight
<1>3. SR!PhaseOfLast' /\ SR!BuiltBeforeBound'
  BY <1>0, <1>u DEF SR!PhaseOfLast, SR!BuiltBeforeBound
<1>4. SR!PortsServed'
  BY <1>0, <1>m, <1>u, <1>b DEF SR!PortsServed
<1>5. SR!Stopped'
  BY <1>0, <1>m, <1>u, <1>b DEF SR!Stopped, SR!Stops, SR!RequestsDrained, SR!InFlight
<1> QED BY <1>1, <1>2, <1>3, <1>4, <1>5 DEF SR!SharedInv

\* A protocol has stopped: its requests are answered.
LEMMA StopProtocolInv ==
  ASSUME SR!Configured, SR!SharedInv, SR!StopProtocol
  PROVE  SR!SharedInv'
<1> USE DEF SR!configVars, SR!onceVars, SR!serverVars
<1>0. SR!TypeOK /\ SR!OneAtATime /\ SR!PhaseOfLast /\ SR!PortsServed /\ SR!BuiltBeforeBound /\ SR!Stopped
  BY DEF SR!SharedInv
<1> DEFINE protocol == Head(at.steps).protocol
<1>u. /\ UNCHANGED <<SR!configVars, phase, todo, SR!onceVars, SR!serverVars, foreign, request, status>>
      /\ SR!Stops /\ at.steps # <<>> /\ protocol \notin serving[made] /\ SR!RequestsDrained(protocol)
      /\ at' = [at EXCEPT !.steps = Tail(@)]
  BY DEF SR!StopProtocol
<1>h. /\ at' \in [pipe : Pipeline \cup {NoOne}, steps : Seq(SR!Steps), unwind : BOOLEAN]
      /\ at'.steps = Tail(at.steps) /\ at'.unwind = at.unwind
      /\ at.steps \in Seq(SR!Steps) /\ at.steps[1].protocol = protocol
  <2>1. at \in [pipe : Pipeline \cup {NoOne}, steps : Seq(SR!Steps), unwind : BOOLEAN]
    BY <1>0 DEF SR!TypeOK
  <2>2. at.steps \in Seq(SR!Steps) /\ Tail(at.steps) \in Seq(SR!Steps) /\ Head(at.steps) = at.steps[1]
    BY <1>u, <2>1
  <2> QED BY <1>u, <2>1, <2>2
<1>1. SR!TypeOK'
  BY <1>0, <1>u, <1>h DEF SR!TypeOK
<1>2. SR!OneAtATime'
  BY <1>0, <1>u DEF SR!OneAtATime, SR!Released, SR!InFlight
<1>3. SR!PhaseOfLast' /\ SR!PortsServed'
  BY <1>0, <1>u, <1>h DEF SR!PhaseOfLast, SR!PortsServed
<1>4. SR!BuiltBeforeBound'
  BY <1>0, <1>u, <1>h DEF SR!BuiltBeforeBound, SR!Stops
<1>5. SR!Stopped'
  <2> SUFFICES ASSUME NEW p \in SR!Protocol, \A j \in DOMAIN at'.steps : at'.steps[j].protocol # p
               PROVE  p \notin serving[made] /\ SR!RequestsDrained(p)
    BY <1>u DEF SR!Stopped, SR!RequestsDrained, SR!InFlight
  <2>1. CASE p = protocol
    BY <1>u, <2>1
  <2>2. CASE p # protocol
    <3>1. ASSUME NEW j \in DOMAIN at.steps PROVE at.steps[j].protocol # p
      <4>1. j = 1 \/ (j - 1 \in DOMAIN at'.steps /\ at'.steps[j - 1] = at.steps[j])
        BY <1>u, <1>h
      <4> QED BY <1>h, <2>2, <4>1
    <3> QED BY <1>0, <1>u, <3>1 DEF SR!Stopped
  <2> QED BY <2>1, <2>2
<1> QED BY <1>1, <1>2, <1>3, <1>4, <1>5 DEF SR!SharedInv

\* Shutdown returns: both protocols have stopped, so the receiver is released.
LEMMA ShutdownEndsInv ==
  ASSUME SR!Configured, SR!SharedInv, SR!ShutdownEnds
  PROVE  SR!SharedInv'
<1> USE DEF SR!configVars, SR!onceVars, SR!serverVars
<1>0. SR!TypeOK /\ SR!OneAtATime /\ SR!PhaseOfLast /\ SR!PortsServed /\ SR!BuiltBeforeBound /\ SR!Stopped
  BY DEF SR!SharedInv
<1>m. phase = "stopping" /\ made \in SR!Instance /\ made > 0
  BY LastReceiver DEF SR!ShutdownEnds
<1>u. /\ UNCHANGED <<SR!configVars, made, startOnce, stopOnce, registered, SR!serverVars, foreign, request>>
      /\ at.steps = <<>> /\ comp' = 0 /\ phase' = "shutdown" /\ todo' \subseteq todo
      /\ at' = SR!Idle /\ ~at'.unwind
      /\ at' \in [pipe : Pipeline \cup {NoOne}, steps : Seq(SR!Steps), unwind : BOOLEAN]
  BY DEF SR!ShutdownEnds, SR!Idle
<1>r. SR!Released(made)
  <2>1. \A p \in SR!Protocol : p \notin serving[made] /\ SR!RequestsDrained(p)
    BY <1>0, <1>m, <1>u DEF SR!Stopped, SR!Stops
  <2>2. serving[made] \subseteq SR!Protocol /\ \A r \in Request : request[r].protocol \in SR!Protocol
    BY <1>0, <1>m DEF SR!TypeOK
  <2> QED BY <2>1, <2>2 DEF SR!Released, SR!RequestsDrained
<1>1. SR!TypeOK'
  BY <1>0, <1>u DEF SR!TypeOK
<1>2. SR!OneAtATime'
  BY <1>0, <1>u, <1>r DEF SR!OneAtATime, SR!Released, SR!InFlight
<1>3. SR!PhaseOfLast'
  BY <1>0, <1>m, <1>u DEF SR!PhaseOfLast
<1>4. SR!PortsServed' /\ SR!BuiltBeforeBound' /\ SR!Stopped'
  BY <1>0, <1>u DEF SR!PortsServed, SR!BuiltBeforeBound, SR!Stopped, SR!Stops
<1> QED BY <1>1, <1>2, <1>3, <1>4 DEF SR!SharedInv

\* The invariant of the shared receiver holds in every reachable state, for any
\* pipelines and requests, and any number of reloads.
THEOREM SharedInvariant == SR!Spec => []SR!SharedInv
<1>1. SR!Init => SR!SharedInv
  BY SharedInitInv, SharedAssumption
<1>2. SR!SharedInv /\ [SR!Next]_SR!vars => SR!SharedInv'
  <2> SUFFICES ASSUME SR!SharedInv, [SR!Next]_SR!vars PROVE SR!SharedInv'
    OBVIOUS
  <2>1. CASE SR!Next
    BY <2>1, SharedAssumption, CreateInv, StartInv, ShutdownInv, StartStepInv, StartStepFailsInv, StartEndsInv, PhasesInv,
       CloseListenerInv, StopProtocolInv, ShutdownEndsInv, ElsewhereInv, AnswerInv, ArriveInv
       DEF SR!Next, SR!CollectorStep
  <2>2. CASE UNCHANGED SR!vars
    BY <2>2 DEF SR!SharedInv, SR!TypeOK, SR!OneAtATime, SR!Released, SR!InFlight, SR!PhaseOfLast, SR!PortsServed,
       SR!BuiltBeforeBound, SR!Stopped, SR!Stops, SR!RequestsDrained, SR!vars,
       SR!configVars, SR!onceVars, SR!serverVars
  <2> QED BY <2>1, <2>2
<1> QED BY <1>1, <1>2, PTL DEF SR!Spec

\* A receiver whose Shutdown has ended serves nobody, has no request left and
\* holds no port it served, for any pipelines and requests: its Start can have
\* failed at any step, and its requests can have come at any moment.
THEOREM PortsReleasedWhenDown == SR!Spec => []ReleasedWhenDown
<1>1. SR!SharedInv => ReleasedWhenDown
  <2> SUFFICES ASSUME SR!SharedInv, phase \in {"down", "build"}, NEW i \in 1..made
               PROVE  /\ serving[i] = {}
                      /\ \A r \in Request : SR!InFlight(r) => request[r].inst # i
                      /\ bound[i] # {} => kind = "skywalking" /\ bound[i] = {"http"} /\ "http" \notin server[i]
    BY DEF ReleasedWhenDown, SR!ReleasedWhenDown
  <2>1. i \in SR!Instance
    BY SharedAssumption DEF SR!SharedInv, SR!TypeOK, SR!Configured, SR!Instance
  <2>2. SR!Released(i)
    BY <2>1 DEF SR!SharedInv, SR!OneAtATime
  <2>3. serving[i] = {} /\ \A r \in Request : SR!InFlight(r) => request[r].inst # i
    BY <2>2 DEF SR!Released
  <2>4. \A p \in bound[i] : kind = "skywalking" /\ p = "http" /\ "http" \notin server[i]
    BY <2>1, <2>3 DEF SR!SharedInv, SR!PortsServed
  <2> QED BY <2>3, <2>4
<1> QED BY SharedInvariant, <1>1, PTL

-----------------------------------------------------------------------------
(***************************************************************************)
(* PrometheusReceiver.                                                     *)
(***************************************************************************)

\* The finite sets of the instance are those of the library.
LEMMA SameFiniteSets ==
  ASSUME NEW S
  PROVE  (PR!IsFiniteSet(S) = IsFiniteSet(S)) /\ (PR!Cardinality(S) = Cardinality(S))
<1>1. PR!IsFiniteSet(S) = IsFiniteSet(S)
  BY Zenon DEF PR!IsFiniteSet, IsFiniteSet
<1>2. PR!Cardinality(S) = Cardinality(S)
  BY Zenon DEF PR!Cardinality, Cardinality
<1> QED BY <1>1, <1>2

\* What a function takes on a finite set is finite.
LEMMA FiniteImage ==
  ASSUME NEW S, IsFiniteSet(S), NEW f
  PROVE  IsFiniteSet({f[x] : x \in S})
<1> DEFINE T == {f[x] : x \in S}
           g == [x \in S |-> f[x]]
<1>1. g \in Surjection(S, T)
  BY DEF Surjection
<1> HIDE DEF T, g
<1>2. IsFiniteSet(T)
  BY <1>1, FS_Surjection
<1> QED BY <1>2 DEF T

\* The elements of a sequence.
LEMMA ElementOf ==
  ASSUME NEW S, NEW s \in Seq(S), NEW i \in DOMAIN s
  PROVE  s[i] \in S
OBVIOUS

\* The series of a request are numbered.
LEMMA SeriesFinite ==
  ASSUME PR!Configured, content \in Content, NEW r \in Write
  PROVE  PR!Series(r) = 1 .. Len(content[r].series) /\ Len(content[r].series) \in Nat
<1>1. content[r].series \in Seq([name : {NoOne} \cup STRING, label : STRING, samples : Seq([v : {"nan", "int", "float"}, t : Int])])
  BY DEF PR!Configured
<1> QED BY <1>1 DEF PR!Series

\* A request has finitely many samples.
LEMMA FiniteNans ==
  ASSUME PR!Configured, content \in Content, NEW r \in Write
  PROVE  IsFiniteSet(PR!Nans(r))
<1> DEFINE D(i) == DOMAIN PR!Samples(r, i)
           I == PR!Series(r) \ PR!Unnamed(r)
           pairs == [i \in I |-> {<<i, j>> : j \in D(i)}]
<1>1. content[r].series \in Seq([name : {NoOne} \cup STRING, label : STRING, samples : Seq([v : {"nan", "int", "float"}, t : Int])])
  BY DEF PR!Configured
<1>2. IsFiniteSet(I)
  <2>1. PR!Series(r) = 1 .. Len(content[r].series) /\ Len(content[r].series) \in Nat
    BY SeriesFinite
  <2>2. IsFiniteSet(PR!Series(r))
    BY <2>1, FS_Interval
  <2> QED BY <2>2, FS_Subset
<1>3. ASSUME NEW i \in I PROVE IsFiniteSet(pairs[i])
  <2>1. PR!Samples(r, i) \in Seq([v : {"nan", "int", "float"}, t : Int])
    <3> DEFINE s == content[r].series
    <3>1. i \in DOMAIN s
      BY <1>3 DEF PR!Series
    <3>2. s \in Seq([name : {NoOne} \cup STRING, label : STRING, samples : Seq([v : {"nan", "int", "float"}, t : Int])])
      BY <1>1
    <3> HIDE DEF s
    <3>3. s[i] \in [name : {NoOne} \cup STRING, label : STRING, samples : Seq([v : {"nan", "int", "float"}, t : Int])]
      BY <3>1, <3>2, ElementOf, Zenon
    <3>4. s[i].samples \in Seq([v : {"nan", "int", "float"}, t : Int])
      BY <3>3
    <3> QED BY <3>4 DEF PR!Samples, s
  <2>2. D(i) = 1 .. Len(PR!Samples(r, i)) /\ Len(PR!Samples(r, i)) \in Nat
    BY <2>1
  <2>3. IsFiniteSet(D(i))
    BY <2>2, FS_Interval
  <2> DEFINE f == [j \in D(i) |-> <<i, j>>]
  <2>4. pairs[i] = {f[j] : j \in D(i)}
    OBVIOUS
  <2> HIDE DEF f, D, pairs
  <2> QED BY <2>3, <2>4, FiniteImage
<1>4. PR!SamplesOf(r) = UNION {pairs[i] : i \in I}
  BY DEF PR!SamplesOf, PR!SamplesIn
<1> HIDE DEF pairs, I
<1>5. IsFiniteSet({pairs[i] : i \in I})
  BY <1>2, FiniteImage
<1>6. IsFiniteSet(PR!SamplesOf(r))
  BY <1>3, <1>4, <1>5, FS_UNION
<1> QED BY <1>6, FS_Subset DEF PR!Nans

\* And finitely many series.
LEMMA FiniteSeries ==
  ASSUME PR!Configured, content \in Content, NEW r \in Write
  PROVE  IsFiniteSet(PR!NoSamples(r)) /\ IsFiniteSet(PR!Unnamed(r))
<1>1. PR!Series(r) = 1 .. Len(content[r].series) /\ Len(content[r].series) \in Nat
  BY SeriesFinite
<1>2. IsFiniteSet(PR!Series(r))
  BY <1>1, FS_Interval
<1>3. PR!NoSamples(r) \in SUBSET PR!Series(r) /\ PR!Unnamed(r) \in SUBSET PR!Series(r)
  BY DEF PR!NoSamples, PR!Unnamed
<1> QED BY <1>2, <1>3, FS_Subset

\* What each of some requests has of something, with the request.
Tagged(F, R) == UNION {{q} \X F[q] : q \in R}

\* If each has finitely many, so have some requests.
LEMMA TaggedFinite ==
  ASSUME PR!Configured, NEW F, \A q \in Write : IsFiniteSet(F[q]), NEW Q \in SUBSET Write
  PROVE  IsFiniteSet(Tagged(F, Q)) /\ Cardinality(Tagged(F, Q)) \in Nat
<1> DEFINE own == [q \in Write |-> {q} \X F[q]]
<1>1. ASSUME NEW q \in Write PROVE IsFiniteSet(own[q])
  <2>1. IsFiniteSet(F[q]) /\ IsFiniteSet({q})
    BY FS_Singleton
  <2> QED BY <2>1, FS_Product
<1>2. Tagged(F, Q) = UNION {own[q] : q \in Q}
  BY DEF Tagged
<1> HIDE DEF own
<1>3. IsFiniteSet(Q)
  BY SameFiniteSets, FS_Subset DEF PR!Configured
<1>4. IsFiniteSet({own[q] : q \in Q})
  BY <1>3, FiniteImage
<1>5. IsFiniteSet(UNION {own[q] : q \in Q})
  BY <1>1, <1>4, FS_UNION
<1> QED BY <1>2, <1>5, FS_CardinalityType

\* One more request adds its own.
LEMMA TaggedMore ==
  ASSUME PR!Configured, NEW F, \A q \in Write : IsFiniteSet(F[q]), NEW R \in SUBSET Write, NEW r \in Write
  PROVE  /\ Cardinality(F[r]) \in Nat
         /\ Cardinality(Tagged(F, R \cup {r})) <= Cardinality(Tagged(F, R)) + Cardinality(F[r])
<1> DEFINE A == Tagged(F, R)
           B == {r} \X F[r]
<1>1. IsFiniteSet(A)
  BY TaggedFinite
<1>2. IsFiniteSet(B) /\ Cardinality(B) = Cardinality(F[r]) /\ Cardinality(F[r]) \in Nat
  <2>1. IsFiniteSet(F[r]) /\ IsFiniteSet({r}) /\ Cardinality({r}) = 1
    BY FS_Singleton
  <2>2. Cardinality(F[r]) \in Nat
    BY <2>1, FS_CardinalityType
  <2>3. IsFiniteSet(B) /\ Cardinality(B) = 1 * Cardinality(F[r])
    BY <2>1, FS_Product
  <2> QED BY <2>2, <2>3
<1>3. Tagged(F, R \cup {r}) = A \cup B
  BY DEF Tagged
<1> HIDE DEF A, B
<1>4. Cardinality(A \cup B) = Cardinality(A) + Cardinality(B) - Cardinality(A \cap B)
  BY <1>1, <1>2, FS_Union
<1>5. IsFiniteSet(A \cap B)
  BY <1>1, FS_Subset
<1>6. Cardinality(A) \in Nat /\ Cardinality(A \cap B) \in Nat
  BY <1>1, <1>5, FS_CardinalityType
<1>7. Cardinality(A \cup B) <= Cardinality(A) + Cardinality(F[r])
  BY <1>2, <1>4, <1>6
<1> QED BY <1>2, <1>3, <1>7 DEF A

\* Fewer requests have fewer.
LEMMA TaggedFewer ==
  ASSUME PR!Configured, NEW F, \A q \in Write : IsFiniteSet(F[q]), NEW R \in SUBSET Write, NEW Q \in SUBSET R
  PROVE  Cardinality(Tagged(F, Q)) <= Cardinality(Tagged(F, R))
<1>1. Tagged(F, Q) \subseteq Tagged(F, R)
  BY DEF Tagged
<1>2. IsFiniteSet(Tagged(F, R))
  BY TaggedFinite
<1> QED BY <1>1, <1>2, FS_Subset

\* The samples that are no number and the series without a name, by request.
LEMMA CountedSets ==
  ASSUME PR!Configured, content \in Content
  PROVE  /\ \A q \in Write : IsFiniteSet([s \in Write |-> PR!Nans(s)][q])
         /\ \A q \in Write : IsFiniteSet([s \in Write |-> PR!Unnamed(s)][q])
         /\ \A R \in SUBSET Write : /\ PR!NansOf(R) = Tagged([s \in Write |-> PR!Nans(s)], R)
                                    /\ PR!UnnamedOf(R) = Tagged([s \in Write |-> PR!Unnamed(s)], R)
<1>1. \A q \in Write : IsFiniteSet(PR!Nans(q)) /\ IsFiniteSet(PR!Unnamed(q))
  BY FiniteNans, FiniteSeries
<1>2. ASSUME NEW R \in SUBSET Write
      PROVE  /\ PR!NansOf(R) = Tagged([s \in Write |-> PR!Nans(s)], R)
             /\ PR!UnnamedOf(R) = Tagged([s \in Write |-> PR!Unnamed(s)], R)
  BY DEF PR!NansOf, PR!UnnamedOf, Tagged
<1> QED BY <1>1, <1>2

\* They can be counted; one more request adds its own, and fewer have fewer.
LEMMA Countable ==
  ASSUME PR!Configured, content \in Content, NEW Q \in SUBSET Write
  PROVE  PR!Cardinality(PR!NansOf(Q)) \in Nat /\ PR!Cardinality(PR!UnnamedOf(Q)) \in Nat
BY CountedSets, TaggedFinite, SameFiniteSets

LEMMA OneMoreCounted ==
  ASSUME PR!Configured, content \in Content, NEW R \in SUBSET Write, NEW r \in Write
  PROVE  /\ PR!Cardinality(PR!Nans(r)) \in Nat /\ PR!Cardinality(PR!Unnamed(r)) \in Nat
         /\ PR!Cardinality(PR!NansOf(R \cup {r})) <= PR!Cardinality(PR!NansOf(R)) + PR!Cardinality(PR!Nans(r))
         /\ PR!Cardinality(PR!UnnamedOf(R \cup {r})) <= PR!Cardinality(PR!UnnamedOf(R)) + PR!Cardinality(PR!Unnamed(r))
<1> DEFINE F == [s \in Write |-> PR!Nans(s)]
           G == [s \in Write |-> PR!Unnamed(s)]
<1>1. F[r] = PR!Nans(r) /\ G[r] = PR!Unnamed(r) /\ R \cup {r} \in SUBSET Write
  OBVIOUS
<1>2. /\ \A q \in Write : IsFiniteSet(F[q]) /\ IsFiniteSet(G[q])
      /\ \A Q \in SUBSET Write : PR!NansOf(Q) = Tagged(F, Q) /\ PR!UnnamedOf(Q) = Tagged(G, Q)
  BY CountedSets
<1> HIDE DEF F, G
<1>3. /\ Cardinality(F[r]) \in Nat
      /\ Cardinality(Tagged(F, R \cup {r})) <= Cardinality(Tagged(F, R)) + Cardinality(F[r])
  BY <1>2, TaggedMore
<1>4. /\ Cardinality(G[r]) \in Nat
      /\ Cardinality(Tagged(G, R \cup {r})) <= Cardinality(Tagged(G, R)) + Cardinality(G[r])
  BY <1>2, TaggedMore
<1> QED BY <1>1, <1>2, <1>3, <1>4, SameFiniteSets

LEMMA FewerCounted ==
  ASSUME PR!Configured, content \in Content, NEW R \in SUBSET Write, NEW Q \in SUBSET R
  PROVE  /\ PR!Cardinality(PR!NansOf(Q)) <= PR!Cardinality(PR!NansOf(R))
         /\ PR!Cardinality(PR!UnnamedOf(Q)) <= PR!Cardinality(PR!UnnamedOf(R))
<1> DEFINE F == [s \in Write |-> PR!Nans(s)]
           G == [s \in Write |-> PR!Unnamed(s)]
<1>1. Q \in SUBSET Write
  OBVIOUS
<1>2. /\ \A q \in Write : IsFiniteSet(F[q]) /\ IsFiniteSet(G[q])
      /\ \A P \in SUBSET Write : PR!NansOf(P) = Tagged(F, P) /\ PR!UnnamedOf(P) = Tagged(G, P)
  BY CountedSets
<1> HIDE DEF F, G
<1>3. Cardinality(Tagged(F, Q)) <= Cardinality(Tagged(F, R)) /\ Cardinality(Tagged(G, Q)) <= Cardinality(Tagged(G, R))
  BY <1>2, TaggedFewer
<1> QED BY <1>1, <1>2, <1>3, SameFiniteSets

\* A count that covers some requests covers fewer of them.
LEMMA StillCovers ==
  ASSUME PR!Configured, content \in Content, NEW R \in SUBSET Write, NEW Q \in SUBSET R,
         NEW counts \in [invalid : Nat, nans : Nat, bad : Nat],
         counts.nans >= PR!Cardinality(PR!NansOf(R)), counts.bad >= PR!Cardinality(PR!UnnamedOf(R))
  PROVE  counts.nans >= PR!Cardinality(PR!NansOf(Q)) /\ counts.bad >= PR!Cardinality(PR!UnnamedOf(Q))
<1>1. Q \in SUBSET Write
  OBVIOUS
<1>2. counts.nans \in Nat /\ counts.bad \in Nat
  OBVIOUS
<1> QED BY <1>1, <1>2, FewerCounted, Countable

\* What is in a request does not change.
LEMMA SameContent ==
  ASSUME content' = content
  PROVE  /\ \A r \in Write : PR!Points(r)' = PR!Points(r)
         /\ \A g : /\ PR!NansOf(PR!Parsed(g))' = PR!NansOf(PR!Parsed(g)')
                  /\ PR!UnnamedOf(PR!Parsed(g))' = PR!UnnamedOf(PR!Parsed(g)')
         /\ \A g : /\ PR!NansOf(PR!Loaded(g))' = PR!NansOf(PR!Loaded(g)')
                  /\ PR!UnnamedOf(PR!Loaded(g))' = PR!UnnamedOf(PR!Loaded(g)')
<1> USE DEF PR!SamplesOf, PR!SamplesIn, PR!Sample, PR!Samples, PR!Series, PR!Unnamed
<1>1. \A r \in Write : PR!Points(r)' = PR!Points(r)
  BY DEF PR!Points, PR!Kind, PR!MetricType
<1>2. \A g : /\ PR!NansOf(PR!Parsed(g))' = PR!NansOf(PR!Parsed(g)')
            /\ PR!UnnamedOf(PR!Parsed(g))' = PR!UnnamedOf(PR!Parsed(g)')
  BY DEF PR!NansOf, PR!UnnamedOf, PR!Nans
<1>3. \A g : /\ PR!NansOf(PR!Loaded(g))' = PR!NansOf(PR!Loaded(g)')
            /\ PR!UnnamedOf(PR!Loaded(g))' = PR!UnnamedOf(PR!Loaded(g)')
  BY DEF PR!NansOf, PR!UnnamedOf, PR!Nans
<1> QED BY <1>1, <1>2, <1>3

\* Nobody is counted or loaded: the counts still hold for the requests that are
\* still accepted.
LEMMA StillAccounted ==
  ASSUME PR!Configured, PR!PromInv, UNCHANGED <<content, total, metrics>>,
         \A g \in PR!Gen : PR!Parsed(g)' \subseteq PR!Parsed(g),
         \A r \in Write : metrics[r] # NoOne => of'[r] = of[r] /\ handler'[r] \in {"send", "202", "panicked"}
  PROVE  PR!ParsedCounted' /\ PR!MetricsOfParsed' /\ PR!LoadedCounted'
<1>0. PR!PromTypeOK /\ PR!ParsedCounted /\ PR!MetricsOfParsed /\ PR!LoadedCounted /\ content \in Content
  BY DEF PR!PromInv, PR!PromTypeOK
<1>1. PR!ParsedCounted'
  <2> SUFFICES ASSUME NEW g \in PR!Gen
               PROVE  /\ total[g].nans >= PR!Cardinality(PR!NansOf(PR!Parsed(g)'))
                      /\ total[g].bad >= PR!Cardinality(PR!UnnamedOf(PR!Parsed(g)'))
    BY SameContent DEF PR!ParsedCounted
  <2>1. PR!Parsed(g) \in SUBSET Write /\ PR!Parsed(g)' \in SUBSET PR!Parsed(g)
    BY DEF PR!Parsed
  <2>2. /\ total[g] \in [invalid : Nat, nans : Nat, bad : Nat]
        /\ total[g].nans >= PR!Cardinality(PR!NansOf(PR!Parsed(g)))
        /\ total[g].bad >= PR!Cardinality(PR!UnnamedOf(PR!Parsed(g)))
    BY <1>0 DEF PR!ParsedCounted, PR!PromTypeOK
  <2> QED BY <1>0, <2>1, <2>2, StillCovers
<1>2. PR!MetricsOfParsed'
  BY <1>0, SameContent DEF PR!MetricsOfParsed
<1>3. PR!LoadedCounted'
  <2>1. \A g \in PR!Gen : PR!Loaded(g)' = PR!Loaded(g)
    BY <1>0 DEF PR!Loaded, PR!PromTypeOK, PR!MetricsOfParsed
  <2> QED BY <1>0, <2>1, SameContent DEF PR!LoadedCounted
<1> QED BY <1>1, <1>2, <1>3

\* A receiver that is not started.
LEMMA PromInitInv ==
  ASSUME PR!Configured PROVE PR!PromInit => PR!PromInv
<1> SUFFICES ASSUME PR!PromInit PROVE PR!PromInv
  OBVIOUS
<1>1. PR!PromTypeOK
  BY DEF PR!PromInit, PR!PromTypeOK, PR!Configured, PR!Gen, PR!Blank
<1>2. PR!LastServes
  BY DEF PR!PromInit, PR!LastServes
<1>3. PR!ParsedCounted
  <2> SUFFICES ASSUME NEW g \in PR!Gen
               PROVE  /\ total[g].nans >= PR!Cardinality(PR!NansOf(PR!Parsed(g)))
                      /\ total[g].bad >= PR!Cardinality(PR!UnnamedOf(PR!Parsed(g)))
    BY DEF PR!ParsedCounted
  <2>1. PR!Parsed(g) = {} /\ total[g].nans = 0 /\ total[g].bad = 0
    BY DEF PR!PromInit, PR!Parsed, PR!Blank
  <2>2. PR!NansOf({}) = {} /\ PR!UnnamedOf({}) = {}
    BY DEF PR!NansOf, PR!UnnamedOf
  <2>3. PR!Cardinality({}) = 0
    BY SameFiniteSets, FS_EmptySet
  <2> QED BY <2>1, <2>2, <2>3
<1>4. PR!MetricsOfParsed /\ PR!LoadedCounted
  BY DEF PR!PromInit, PR!MetricsOfParsed, PR!LoadedCounted, PR!Loaded
<1> QED BY <1>1, <1>2, <1>3, <1>4 DEF PR!PromInv

\* The goroutine of a server and the life of the receiver touch no handler.
LEMMA HandlersUntouched ==
  ASSUME PR!Configured, PR!PromInv, UNCHANGED PR!handlerVars
  PROVE  PR!ParsedCounted' /\ PR!MetricsOfParsed' /\ PR!LoadedCounted'
<1>1. UNCHANGED <<content, total, metrics>> /\ handler' = handler /\ of' = of
  BY DEF PR!handlerVars
<1>2. \A g \in PR!Gen : PR!Parsed(g)' \subseteq PR!Parsed(g)
  BY <1>1 DEF PR!Parsed
<1>3. \A r \in Write : metrics[r] # NoOne => of'[r] = of[r] /\ handler'[r] \in {"send", "202", "panicked"}
  BY <1>1 DEF PR!PromInv, PR!MetricsOfParsed
<1> QED BY <1>1, <1>2, <1>3, StillAccounted

\* The goroutine of a server.
LEMMA DrainStepInv ==
  ASSUME PR!Configured, PR!PromInv, NEW g \in PR!Gen, PR!DrainStep(g)
  PROVE  PR!PromInv'
<1> USE DEF PR!serverVars, PR!chanVars, PR!handlerVars
<1>0. PR!PromTypeOK /\ PR!LastServes
  BY DEF PR!PromInv
<1>g. g \in Nat /\ gen \in Nat
  BY <1>0 DEF PR!Gen, PR!Configured, PR!PromTypeOK
<1>1. UNCHANGED <<PR!handlerVars, PR!serverVars, open>>
  BY DEF PR!DrainStep, PR!Drain, PR!EndDrain, PR!Flush
<1>2. PR!PromTypeOK'
  <2>1. CASE PR!Drain(g)
    <3>1. /\ Head(channel[g]) \in Write /\ Tail(channel[g]) \in Seq(Write)
          /\ Len(Tail(channel[g])) <= BufferSize /\ NoOne \notin Write
      BY <1>0, <2>1 DEF PR!PromTypeOK, PR!Drain, PR!Configured
    <3>2. channel' \in [PR!Gen -> Seq(Write)] /\ \A h \in PR!Gen : Len(channel'[h]) <= BufferSize
      BY <1>0, <2>1, <3>1 DEF PR!PromTypeOK, PR!Drain
    <3>3. /\ hand' \in [PR!Gen -> Write \cup {NoOne}] /\ drainer' \in [PR!Gen -> {"none", "select", "flush", "done"}]
          /\ \A h \in PR!Gen : (drainer'[h] = "none" <=> h > gen) /\ (hand'[h] # NoOne <=> drainer'[h] = "flush")
      BY <1>0, <2>1, <3>1 DEF PR!PromTypeOK, PR!Drain
    <3> QED BY <1>0, <2>1, <3>2, <3>3 DEF PR!PromTypeOK, PR!Drain
  <2>2. CASE PR!EndDrain(g)
    BY <1>0, <2>2 DEF PR!PromTypeOK, PR!EndDrain
  <2>3. ASSUME NEW ok \in BOOLEAN, PR!Flush(g, ok)
        PROVE  PR!PromTypeOK'
    <3>1. consumed' \subseteq Write /\ flushFailed' \subseteq 1..gen
      <4>1. drainer[g] = "flush" /\ hand[g] \in Write \cup {NoOne} /\ hand[g] # NoOne /\ ~(g > gen)
        BY <1>0, <2>3 DEF PR!PromTypeOK, PR!Flush
      <4>2. g \in 1..gen
        BY <1>g, <4>1 DEF PR!Gen
      <4>3. consumed \subseteq Write /\ flushFailed \subseteq 1..gen
        BY <1>0 DEF PR!PromTypeOK
      <4> QED BY <2>3, <4>1, <4>2, <4>3 DEF PR!Flush
    <3>2. /\ hand' \in [PR!Gen -> Write \cup {NoOne}] /\ drainer' \in [PR!Gen -> {"none", "select", "flush", "done"}]
          /\ \A h \in PR!Gen : (drainer'[h] = "none" <=> h > gen) /\ (hand'[h] # NoOne <=> drainer'[h] = "flush")
      BY <1>0, <2>3 DEF PR!PromTypeOK, PR!Flush
    <3> QED BY <1>0, <2>3, <3>1, <3>2 DEF PR!PromTypeOK, PR!Flush
  <2> QED BY <2>1, <2>2, <2>3 DEF PR!DrainStep
<1>3. PR!LastServes'
  BY <1>0, <1>1 DEF PR!LastServes
<1> QED BY <1>1, <1>2, <1>3, HandlersUntouched DEF PR!PromInv

\* A server listens.
LEMMA ListenInv ==
  ASSUME PR!Configured, PR!PromInv, NEW g \in PR!Gen, NEW ok \in BOOLEAN, PR!Listen(g, ok)
  PROVE  PR!PromInv'
<1> USE DEF PR!chanVars, PR!drainVars
<1>0. PR!PromTypeOK /\ PR!LastServes
  BY DEF PR!PromInv
<1>1. PR!PromTypeOK'
  BY <1>0 DEF PR!PromTypeOK, PR!LastServes, PR!Listen, PR!handlerVars
<1>2. PR!LastServes'
  BY <1>0 DEF PR!PromTypeOK, PR!LastServes, PR!Listen
<1>3. UNCHANGED PR!handlerVars
  BY DEF PR!Listen
<1> QED BY <1>1, <1>2, <1>3, HandlersUntouched DEF PR!PromInv

\* A new server is the last one.
LEMMA NewServerInv ==
  ASSUME PR!Configured, PR!PromInv, gen + 1 \in PR!Gen, PR!NewServer(gen + 1), cancelled' \subseteq cancelled \cup ({gen} \ {0}),
         \A g \in PR!Gen : listener[g] \notin {"starting", "serving"}
  PROVE  PR!PromInv'
<1> USE DEF PR!chanVars, PR!drainVars
<1>0. PR!PromTypeOK /\ PR!LastServes /\ gen \in Nat /\ MaxStarts \in Nat
  BY SMTT(30) DEF PR!PromInv, PR!PromTypeOK, PR!Configured
<1>1. UNCHANGED PR!handlerVars
  BY DEF PR!NewServer
<1> DEFINE n == gen + 1
<1>n. n \in PR!Gen /\ n \in Nat /\ 1..gen \subseteq 1..n /\ 0..gen \subseteq 0..n /\ n \in 0..MaxStarts
  BY <1>0 DEF PR!Gen
<1>a. /\ gen' = n /\ life' = "idle" /\ listener' = [listener EXCEPT ![n] = "starting"]
      /\ open' = [open EXCEPT ![n] = TRUE] /\ drainer' = [drainer EXCEPT ![n] = "select"]
      /\ UNCHANGED <<channel, hand, consumed, flushFailed>>
  BY DEF PR!NewServer
<1>2. PR!PromTypeOK'
  <2>1. cancelled' \subseteq 1..n /\ flushFailed' \subseteq 1..n
    BY <1>0, <1>n, <1>a DEF PR!PromTypeOK
  <2>2. of' \in [Write -> 0..n]
    BY <1>0, <1>1, <1>n DEF PR!PromTypeOK, PR!handlerVars
  <2>3. \A g \in PR!Gen : g \in Nat /\ (g > n <=> g > gen /\ g # n)
    BY <1>0 DEF PR!Gen
  <2>4. drainer[n] = "none" /\ hand[n] = NoOne
    <3>1. n > gen
      BY <1>0
    <3> HIDE DEF n
    <3> QED BY <1>0, <1>n, <3>1 DEF PR!PromTypeOK
  <2> HIDE DEF n
  <2>5. /\ drainer' \in [PR!Gen -> {"none", "select", "flush", "done"}]
        /\ \A g \in PR!Gen : (drainer'[g] = "none" <=> g > n) /\ (hand'[g] # NoOne <=> drainer'[g] = "flush")
    BY <1>0, <1>a, <1>n, <2>3, <2>4 DEF PR!PromTypeOK
  <2>6. /\ listener' \in [PR!Gen -> {"none", "starting", "serving", "deaf", "closed"}] /\ open' \in [PR!Gen -> BOOLEAN]
        /\ \A g \in PR!Gen : listener'[g] = "serving" => g = n
    BY <1>0, <1>a, <1>n DEF PR!PromTypeOK
  <2> QED BY <1>0, <1>1, <1>a, <1>n, <2>1, <2>2, <2>5, <2>6 DEF PR!PromTypeOK, PR!handlerVars
<1>3. PR!LastServes'
  BY <1>0, <1>a, <1>n DEF PR!PromTypeOK, PR!LastServes
<1> QED BY <1>1, <1>2, <1>3, HandlersUntouched DEF PR!PromInv

\* Start and Shutdown.
LEMMA LifeStepInv ==
  ASSUME PR!Configured, PR!PromInv,
         PR!FirstStart \/ PR!LifeStep \/ \E why \in {"restart", "shutdown"} : PR!CloseServer(why)
  PROVE  PR!PromInv'
<1> USE DEF PR!chanVars, PR!drainVars, PR!serverVars
<1>0. PR!PromTypeOK /\ PR!LastServes /\ gen \in Nat /\ MaxStarts \in Nat \ {0}
  BY DEF PR!PromInv, PR!PromTypeOK, PR!Configured
<1>1. CASE PR!FirstStart
  <2>1. gen = 0 /\ PR!NewServer(gen + 1) /\ cancelled' = cancelled /\ gen + 1 \in PR!Gen
    <3>1. gen = 0 /\ PR!NewServer(1) /\ cancelled' = cancelled
      BY <1>1 DEF PR!FirstStart
    <3>2. gen + 1 = 1 /\ 1 \in PR!Gen
      BY <1>0, <3>1 DEF PR!Gen
    <3> QED BY <3>1, <3>2
  <2>2. \A g \in PR!Gen : listener[g] \notin {"starting", "serving"}
    BY <1>0, <2>1 DEF PR!LastServes, PR!Gen
  <2> QED BY <2>1, <2>2, NewServerInv
<1>2. CASE PR!Restart
  <2>1. PR!NewServer(gen + 1) /\ cancelled' = cancelled \cup {gen} /\ life = "restart" /\ gen > 0
    BY <1>0, <1>2 DEF PR!Restart, PR!LastServes
  <2>2. gen + 1 \in PR!Gen /\ cancelled' \subseteq cancelled \cup ({gen} \ {0})
    BY <1>0, <2>1 DEF PR!Gen, PR!LastServes
  <2>3. \A g \in PR!Gen : listener[g] \notin {"starting", "serving"}
    BY <1>0, <2>1 DEF PR!LastServes
  <2> QED BY <2>1, <2>2, <2>3, NewServerInv
<1>3. CASE PR!CloseChannel
  <2>1. PR!PromTypeOK'
    BY <1>0, <1>3 DEF PR!PromTypeOK, PR!CloseChannel, PR!handlerVars
  <2>2. PR!LastServes' /\ UNCHANGED PR!handlerVars
    BY <1>0, <1>3 DEF PR!LastServes, PR!CloseChannel
  <2> QED BY <2>1, <2>2, HandlersUntouched DEF PR!PromInv
<1>4. CASE PR!Cancel
  <2>0. gen \in 1..gen
    BY <1>0, <1>4 DEF PR!Cancel, PR!LastServes
  <2>1. PR!PromTypeOK'
    BY <1>0, <1>4, <2>0 DEF PR!PromTypeOK, PR!Cancel, PR!handlerVars
  <2>2. PR!LastServes' /\ UNCHANGED PR!handlerVars
    BY <1>0, <1>4 DEF PR!LastServes, PR!Cancel
  <2> QED BY <2>1, <2>2, HandlersUntouched DEF PR!PromInv
<1>5. ASSUME NEW why \in {"restart", "shutdown"}, PR!CloseServer(why)
      PROVE  PR!PromInv'
  <2>1. PR!PromTypeOK'
    BY <1>0, <1>5 DEF PR!PromTypeOK, PR!CloseServer, PR!handlerVars
  <2>2. PR!LastServes'
    BY <1>0, <1>5 DEF PR!PromTypeOK, PR!LastServes, PR!CloseServer
  <2>3. UNCHANGED PR!handlerVars
    BY <1>5 DEF PR!CloseServer
  <2> QED BY <2>1, <2>2, <2>3, HandlersUntouched DEF PR!PromInv
<1> QED BY <1>1, <1>2, <1>3, <1>4, <1>5 DEF PR!LifeStep

\* A request arrives, is refused, is sent or finds the channel closed.
LEMMA PassedOnInv ==
  ASSUME PR!Configured, PR!PromInv, NEW r \in Write,
         PR!Arrive(r) \/ PR!Refuse(r) \/ PR!Send(r) \/ PR!SendPanics(r)
  PROVE  PR!PromInv'
<1> USE DEF PR!chanVars, PR!drainVars, PR!serverVars
<1>0. PR!PromTypeOK /\ PR!LastServes /\ PR!MetricsOfParsed /\ gen \in Nat /\ MaxStarts \in Nat
  BY DEF PR!PromInv, PR!PromTypeOK, PR!Configured
<1>1. PR!PromTypeOK'
  <2>1. CASE PR!Arrive(r)
    <3>1. gen \in 0..gen /\ gen # 0
      BY <1>0, <2>1 DEF PR!Arrive
    <3>2. of' \in [Write -> 0..gen] /\ \A q \in Write : (of'[q] = 0 <=> handler'[q] = "new")
      BY <1>0, <2>1, <3>1 DEF PR!PromTypeOK, PR!Arrive
    <3> QED BY <1>0, <2>1, <3>2 DEF PR!PromTypeOK, PR!Arrive
  <2>2. CASE PR!Refuse(r) \/ PR!SendPanics(r)
    <3>1. /\ handler[r] \in {"decode", "send"} /\ UNCHANGED <<PR!serverVars, PR!chanVars, PR!drainVars, content, of, total, metrics>>
          /\ \E answer \in {"400", "204", "panicked"} : handler' = [handler EXCEPT ![r] = answer]
      BY <2>2 DEF PR!Refuse, PR!SendPanics
    <3>2. /\ handler' \in [Write -> {"new", "decode", "report", "send", "202", "204", "400", "panicked"}]
          /\ \A q \in Write : (of'[q] = 0 <=> handler'[q] = "new")
      BY <1>0, <3>1 DEF PR!PromTypeOK
    <3> QED BY <1>0, <3>1, <3>2 DEF PR!PromTypeOK
  <2>3. CASE PR!Send(r)
    <3> DEFINE g == of[r]
    <3>1. g \in PR!Gen /\ channel[g] \in Seq(Write) /\ Len(channel[g]) < BufferSize /\ BufferSize \in Nat
      BY <1>0, <2>3 DEF PR!PromTypeOK, PR!Send, PR!Gen, PR!Configured
    <3>2. Append(channel[g], r) \in Seq(Write) /\ Len(Append(channel[g], r)) <= BufferSize
      BY <3>1
    <3>3. channel' \in [PR!Gen -> Seq(Write)] /\ \A h \in PR!Gen : Len(channel'[h]) <= BufferSize
      BY <1>0, <2>3, <3>1, <3>2 DEF PR!PromTypeOK, PR!Send
    <3> QED BY <1>0, <2>3, <3>3 DEF PR!PromTypeOK, PR!Send
  <2> QED BY <2>1, <2>2, <2>3
<1>2. PR!LastServes'
  BY <1>0 DEF PR!LastServes, PR!Arrive, PR!Refuse, PR!Send, PR!SendPanics
<1>3. UNCHANGED <<content, total, metrics>>
  BY DEF PR!Arrive, PR!Refuse, PR!Send, PR!SendPanics
<1>4. \A g \in PR!Gen : PR!Parsed(g)' \subseteq PR!Parsed(g)
  BY <1>0 DEF PR!PromTypeOK, PR!Parsed, PR!Arrive, PR!Refuse, PR!Send, PR!SendPanics
<1>5. \A q \in Write : metrics[q] # NoOne => of'[q] = of[q] /\ handler'[q] \in {"send", "202", "panicked"}
  <2>1. handler[r] \in {"new", "decode", "send"} /\ \A q \in Write \ {r} : handler'[q] = handler[q] /\ of'[q] = of[q]
    BY <1>0 DEF PR!PromTypeOK, PR!Arrive, PR!Refuse, PR!Send, PR!SendPanics
  <2>2. handler[r] = "send" => handler'[r] \in {"202", "panicked"} /\ of'[r] = of[r]
    BY <1>0 DEF PR!PromTypeOK, PR!Arrive, PR!Refuse, PR!Send, PR!SendPanics
  <2> QED BY <1>0, <2>1, <2>2 DEF PR!MetricsOfParsed
<1>6. PR!ParsedCounted' /\ PR!MetricsOfParsed' /\ PR!LoadedCounted'
  BY <1>3, <1>4, <1>5, StillAccounted
<1> QED BY <1>1, <1>2, <1>6 DEF PR!PromInv

\* The samples of a request are counted.
LEMMA ParseInv ==
  ASSUME PR!Configured, PR!PromInv, NEW r \in Write, PR!Parse(r)
  PROVE  PR!PromInv'
<1> USE DEF PR!chanVars, PR!drainVars, PR!serverVars
<1>0. /\ PR!PromTypeOK /\ PR!LastServes /\ PR!ParsedCounted /\ PR!MetricsOfParsed /\ PR!LoadedCounted
      /\ gen \in Nat /\ MaxStarts \in Nat /\ content \in Content
  BY DEF PR!PromInv, PR!PromTypeOK, PR!Configured
<1> DEFINE g == of[r]
<1>a. /\ total' = [total EXCEPT ![g] = PR!Counted(r)] /\ handler' = [handler EXCEPT ![r] = "report"]
      /\ handler[r] = "decode" /\ UNCHANGED <<PR!serverVars, PR!chanVars, PR!drainVars, content, of, metrics>>
  BY DEF PR!Parse
<1>g. g \in PR!Gen /\ total[g] \in [invalid : Nat, nans : Nat, bad : Nat]
  <2>1. g \in 0..gen /\ g # 0 /\ gen <= MaxStarts
    BY <1>0, <1>a DEF PR!PromTypeOK
  <2>2. g \in PR!Gen
    BY <1>0, <2>1 DEF PR!Gen
  <2> QED BY <1>0, <2>2 DEF PR!PromTypeOK
<1>c. /\ PR!Counted(r) \in [invalid : Nat, nans : Nat, bad : Nat]
      /\ PR!Counted(r).nans = total[g].nans + PR!Cardinality(PR!Nans(r))
      /\ PR!Counted(r).bad = total[g].bad + PR!Cardinality(PR!Unnamed(r))
  <2>1. IsFiniteSet(PR!Nans(r)) /\ IsFiniteSet(PR!NoSamples(r)) /\ IsFiniteSet(PR!Unnamed(r))
    BY <1>0, FiniteNans, FiniteSeries
  <2>2. /\ PR!Cardinality(PR!Nans(r)) \in Nat /\ PR!Cardinality(PR!NoSamples(r)) \in Nat
        /\ PR!Cardinality(PR!Unnamed(r)) \in Nat
    BY <2>1, FS_CardinalityType, SameFiniteSets
  <2> QED BY <1>g, <2>2 DEF PR!Counted, PR!Count
<1> HIDE DEF g
<1>t. /\ total' \in [PR!Gen -> [invalid : Nat, nans : Nat, bad : Nat]]
      /\ total'[g].nans = total[g].nans + PR!Cardinality(PR!Nans(r))
      /\ total'[g].bad = total[g].bad + PR!Cardinality(PR!Unnamed(r))
      /\ \A h \in PR!Gen : h # g => total'[h] = total[h]
  BY <1>0, <1>a, <1>g, <1>c DEF PR!PromTypeOK
<1>1. PR!PromTypeOK'
  BY <1>0, <1>a, <1>t DEF PR!PromTypeOK
<1>2. PR!LastServes'
  BY <1>0, <1>a DEF PR!LastServes
<1>3. PR!ParsedCounted'
  <2> SUFFICES ASSUME NEW h \in PR!Gen
               PROVE  /\ total'[h].nans >= PR!Cardinality(PR!NansOf(PR!Parsed(h)'))
                      /\ total'[h].bad >= PR!Cardinality(PR!UnnamedOf(PR!Parsed(h)'))
    BY <1>a, SameContent DEF PR!ParsedCounted
  <2>1. /\ total[h].nans >= PR!Cardinality(PR!NansOf(PR!Parsed(h))) /\ total[h].nans \in Nat
        /\ total[h].bad >= PR!Cardinality(PR!UnnamedOf(PR!Parsed(h))) /\ total[h].bad \in Nat
    BY <1>0 DEF PR!ParsedCounted, PR!PromTypeOK
  <2>2. CASE h = g
    <3>1. /\ PR!Parsed(h)' = PR!Parsed(h) \cup {r}
          /\ PR!Parsed(h) \in SUBSET Write /\ PR!Parsed(h) \cup {r} \in SUBSET Write
      BY <1>0, <1>a, <2>2 DEF PR!Parsed, PR!PromTypeOK, g
    <3> DEFINE P == PR!Parsed(h)
               Q == P \cup {r}
    <3>2. /\ PR!Cardinality(PR!NansOf(P)) \in Nat /\ PR!Cardinality(PR!NansOf(Q)) \in Nat
          /\ PR!Cardinality(PR!UnnamedOf(P)) \in Nat /\ PR!Cardinality(PR!UnnamedOf(Q)) \in Nat
      BY <1>0, <3>1, Countable
    <3>3. /\ PR!Cardinality(PR!Nans(r)) \in Nat /\ PR!Cardinality(PR!Unnamed(r)) \in Nat
          /\ PR!Cardinality(PR!NansOf(Q)) <= PR!Cardinality(PR!NansOf(P)) + PR!Cardinality(PR!Nans(r))
          /\ PR!Cardinality(PR!UnnamedOf(Q)) <= PR!Cardinality(PR!UnnamedOf(P)) + PR!Cardinality(PR!Unnamed(r))
      BY <1>0, <3>1, OneMoreCounted
    <3>4. /\ total'[h].nans = total[h].nans + PR!Cardinality(PR!Nans(r))
          /\ total'[h].bad = total[h].bad + PR!Cardinality(PR!Unnamed(r))
      BY <1>t, <2>2
    <3> HIDE DEF Q
    <3>5. total'[h].nans >= PR!Cardinality(PR!NansOf(Q)) /\ total'[h].bad >= PR!Cardinality(PR!UnnamedOf(Q))
      BY <2>1, <3>2, <3>3, <3>4
    <3> QED BY <3>1, <3>5 DEF Q
  <2>3. CASE h # g
    <3>1. PR!Parsed(h)' = PR!Parsed(h)
      BY <1>0, <1>a, <2>3 DEF PR!Parsed, PR!PromTypeOK, g
    <3> QED BY <1>t, <2>1, <2>3, <3>1
  <2> QED BY <2>2, <2>3
<1>4. PR!MetricsOfParsed'
  BY <1>0, <1>a, SameContent DEF PR!MetricsOfParsed, PR!PromTypeOK
<1>5. PR!LoadedCounted'
  <2>1. \A h \in PR!Gen : PR!Loaded(h)' = PR!Loaded(h)
    BY <1>a DEF PR!Loaded
  <2> QED BY <1>0, <1>a, <2>1, SameContent DEF PR!LoadedCounted
<1> QED BY <1>1, <1>2, <1>3, <1>4, <1>5 DEF PR!PromInv

\* The data points of a request are its samples that are numbers, of the series
\* that have a name.
LEMMA PointsOfSamples ==
  ASSUME NEW r \in Write
  PROVE  {p.at : p \in PR!Points(r)} = PR!SamplesOf(r) \ PR!Nans(r)
<1> DEFINE Numbers == {x \in PR!SamplesOf(r) : PR!Sample(r, x).v # "nan"}
           kindOf(x) == PR!Kind(content[r].series[x[1]])
           valueOf(x) == IF PR!Sample(r, x).v = "int" THEN "int" ELSE "double"
           point(x) == [at |-> x, kind |-> kindOf(x), t |-> PR!Sample(r, x).t, value |-> valueOf(x)]
<1>1. PR!Points(r) = {point(x) : x \in Numbers}
  BY DEF PR!Points
<1> HIDE DEF Numbers, kindOf, valueOf
<1>2. \A x : point(x).at = x
  OBVIOUS
<1> HIDE DEF point
<1>3. {p.at : p \in PR!Points(r)} = Numbers
  BY <1>1, <1>2
<1> QED BY <1>3 DEF Numbers, PR!Nans

\* A request loads the counters, or is refused.
LEMMA ReportInv ==
  ASSUME PR!Configured, PR!PromInv, NEW r \in Write, PR!Report(r)
  PROVE  PR!PromInv'
<1> USE DEF PR!chanVars, PR!drainVars, PR!serverVars
<1>0. /\ PR!PromTypeOK /\ PR!LastServes /\ PR!ParsedCounted /\ PR!MetricsOfParsed /\ PR!LoadedCounted
      /\ gen \in Nat /\ MaxStarts \in Nat /\ content \in Content
  BY DEF PR!PromInv, PR!PromTypeOK, PR!Configured
<1>a. /\ handler[r] = "report" /\ UNCHANGED <<PR!serverVars, PR!chanVars, PR!drainVars, content, of, total>>
      /\ \/ handler' = [handler EXCEPT ![r] = "400"] /\ metrics' = metrics
         \/ /\ handler' = [handler EXCEPT ![r] = "send"]
            /\ metrics' = [metrics EXCEPT ![r] = [points |-> PR!Points(r), totals |-> total[of[r]], bounds |-> PR!Bounds(r)]]
  BY DEF PR!Report
<1>m. metrics[r] = NoOne
  BY <1>0, <1>a DEF PR!MetricsOfParsed
<1>1. PR!PromTypeOK'
  BY <1>0, <1>a, ZenonT(60) DEF PR!PromTypeOK
<1>2. PR!LastServes'
  BY <1>0, <1>a DEF PR!LastServes
<1>3. \A g \in PR!Gen : PR!Parsed(g)' \subseteq PR!Parsed(g)
  BY <1>0, <1>a DEF PR!Parsed, PR!PromTypeOK
<1>4. CASE metrics' = metrics
  <2>1. \A q \in Write : metrics[q] # NoOne => of'[q] = of[q] /\ handler'[q] \in {"send", "202", "panicked"}
    BY <1>0, <1>a, <1>m DEF PR!PromTypeOK, PR!MetricsOfParsed
  <2>2. PR!ParsedCounted' /\ PR!MetricsOfParsed' /\ PR!LoadedCounted'
    BY <1>a, <1>3, <1>4, <2>1, StillAccounted
  <2> QED BY <1>1, <1>2, <2>2 DEF PR!PromInv
<1>5. CASE /\ handler' = [handler EXCEPT ![r] = "send"]
           /\ metrics' = [metrics EXCEPT ![r] = [points |-> PR!Points(r), totals |-> total[of[r]], bounds |-> PR!Bounds(r)]]
  <2>1. /\ metrics'[r].points = PR!Points(r) /\ metrics'[r].totals = total[of[r]]
        /\ \A q \in Write : q # r => metrics'[q] = metrics[q]
    <3>1. metrics' = [q \in Write |-> metrics'[q]]
      BY <1>1 DEF PR!PromTypeOK
    <3>2. metrics'[r] = [points |-> PR!Points(r), totals |-> total[of[r]], bounds |-> PR!Bounds(r)]
      BY <1>0, <1>5 DEF PR!PromTypeOK
    <3> QED BY <1>0, <1>5, <3>2 DEF PR!PromTypeOK
  <2>2. PR!ParsedCounted'
    <3> SUFFICES ASSUME NEW g \in PR!Gen
                 PROVE  /\ total[g].nans >= PR!Cardinality(PR!NansOf(PR!Parsed(g)'))
                        /\ total[g].bad >= PR!Cardinality(PR!UnnamedOf(PR!Parsed(g)'))
      BY <1>a, SameContent DEF PR!ParsedCounted
    <3>1. PR!Parsed(g)' = PR!Parsed(g)
      BY <1>0, <1>a, <1>5 DEF PR!Parsed, PR!PromTypeOK
    <3> QED BY <1>0, <3>1 DEF PR!ParsedCounted
  <2>3. PR!MetricsOfParsed'
    BY <1>0, <1>a, <1>5, <2>1, SameContent DEF PR!MetricsOfParsed, PR!PromTypeOK
  <2>4. ASSUME NEW g \in PR!Gen, PR!Loaded(g)' # {}
        PROVE  \E q \in PR!Loaded(g)' : /\ metrics'[q].totals.nans >= PR!Cardinality(PR!NansOf(PR!Loaded(g)'))
                                        /\ metrics'[q].totals.bad >= PR!Cardinality(PR!UnnamedOf(PR!Loaded(g)'))
    <3>1. CASE r \in PR!Loaded(g)'
      <4>1. of[r] = g
        BY <1>a, <3>1 DEF PR!Loaded
      <4>2. PR!Loaded(g)' \in SUBSET PR!Parsed(g) /\ PR!Parsed(g) \in SUBSET Write
        BY <1>0, <1>a, <2>1 DEF PR!Loaded, PR!Parsed, PR!MetricsOfParsed
      <4>3. /\ total[g] \in [invalid : Nat, nans : Nat, bad : Nat]
            /\ total[g].nans >= PR!Cardinality(PR!NansOf(PR!Parsed(g)))
            /\ total[g].bad >= PR!Cardinality(PR!UnnamedOf(PR!Parsed(g)))
        BY <1>0 DEF PR!ParsedCounted, PR!PromTypeOK
      <4>4. /\ total[g].nans >= PR!Cardinality(PR!NansOf(PR!Loaded(g)'))
            /\ total[g].bad >= PR!Cardinality(PR!UnnamedOf(PR!Loaded(g)'))
        BY <1>0, <4>2, <4>3, StillCovers
      <4> QED BY <2>1, <3>1, <4>1, <4>4
    <3>2. CASE r \notin PR!Loaded(g)'
      <4>1. PR!Loaded(g)' = PR!Loaded(g) /\ r \notin PR!Loaded(g)
        BY <1>a, <1>m, <2>1, <3>2 DEF PR!Loaded
      <4>2. PICK q \in PR!Loaded(g) : /\ metrics[q].totals.nans >= PR!Cardinality(PR!NansOf(PR!Loaded(g)))
                                      /\ metrics[q].totals.bad >= PR!Cardinality(PR!UnnamedOf(PR!Loaded(g)))
        BY <1>0, <2>4, <4>1 DEF PR!LoadedCounted
      <4>3. metrics'[q] = metrics[q]
        BY <2>1, <4>1, <4>2 DEF PR!Loaded
      <4> QED BY <4>1, <4>2, <4>3
    <3> QED BY <3>1, <3>2
  <2>5. PR!LoadedCounted'
    BY <1>a, <2>4, SameContent DEF PR!LoadedCounted
  <2> QED BY <1>1, <1>2, <2>2, <2>3, <2>5 DEF PR!PromInv
<1> QED BY <1>a, <1>4, <1>5

\* The invariant of the prometheus receiver holds in every reachable state, for
\* any requests, any room in the channel and any number of starts.
THEOREM PromInvariant == PR!PromSpec => []PR!PromInv
<1>1. PR!PromInit => PR!PromInv
  BY PromInitInv, WritesAssumption
<1>2. PR!PromInv /\ [PR!PromNext]_PR!promVars => PR!PromInv'
  <2> SUFFICES ASSUME PR!PromInv, [PR!PromNext]_PR!promVars PROVE PR!PromInv'
    OBVIOUS
  <2>1. CASE PR!PromNext
    BY <2>1, WritesAssumption, PassedOnInv, ParseInv, ReportInv, DrainStepInv, ListenInv, LifeStepInv DEF PR!PromNext, PR!HandlerStep
  <2>2. CASE UNCHANGED PR!promVars
    <3>1. UNCHANGED <<PR!serverVars, PR!chanVars, PR!drainVars, PR!handlerVars>>
      BY <2>2 DEF PR!promVars
    <3>2. PR!PromTypeOK' /\ PR!LastServes'
      BY <3>1 DEF PR!PromInv, PR!PromTypeOK, PR!LastServes, PR!serverVars, PR!chanVars, PR!drainVars, PR!handlerVars
    <3> QED BY <3>1, <3>2, HandlersUntouched, WritesAssumption DEF PR!PromInv
  <2> QED BY <2>1, <2>2
<1> QED BY <1>1, <1>2, PTL DEF PR!PromSpec

\* The samples of a request that became no data point are those that are no
\* number.
LEMMA DroppedAreNans ==
  ASSUME PR!MetricsOfParsed, NEW r \in Write, metrics[r] # NoOne
  PROVE  PR!Dropped(r) = PR!Nans(r)
<1>1. metrics[r].points = PR!Points(r)
  BY DEF PR!MetricsOfParsed
<1>2. \A x \in PR!SamplesOf(r) : (\A p \in PR!Points(r) : p.at # x) <=> x \in PR!Nans(r)
  BY PointsOfSamples
<1> QED BY <1>1, <1>2 DEF PR!Dropped, PR!Nans

\* Over the requests a server accepted, every sample of a series with a name is
\* a data point or counted by its error metrics, and so is every series with an
\* empty __name__, for any requests and any order in which their handlers add
\* to the counters and load them.
THEOREM EverySampleAccounted == PR!PromSpec => []SamplesAccounted
<1>1. PR!PromInv => SamplesAccounted
  <2> SUFFICES ASSUME PR!PromInv, NEW g \in PR!Gen, PR!Loaded(g) # {}
               PROVE  \E r \in PR!Loaded(g) : /\ metrics[r].totals.nans >= PR!Cardinality(PR!DroppedOf(PR!Loaded(g)))
                                              /\ metrics[r].totals.bad >= PR!Cardinality(PR!UnnamedOf(PR!Loaded(g)))
    BY DEF SamplesAccounted, PR!SamplesAccounted
  <2>1. \A r \in PR!Loaded(g) : PR!Dropped(r) = PR!Nans(r)
    BY DroppedAreNans DEF PR!PromInv, PR!Loaded
  <2>2. PR!DroppedOf(PR!Loaded(g)) = PR!NansOf(PR!Loaded(g))
    BY <2>1 DEF PR!DroppedOf, PR!NansOf
  <2> QED BY <2>2 DEF PR!PromInv, PR!LoadedCounted
<1> QED BY PromInvariant, <1>1, PTL

-----------------------------------------------------------------------------
(***************************************************************************)
(* SkywalkingTrace: traces, without state.                                 *)
(***************************************************************************)

\* The spans of traces and of a segment are sequences.
LEMMA SpansAreSequences ==
  /\ \A tr : SW!Sound(tr) =>
       Len(tr.spans) \in Nat \ {0} /\ DOMAIN tr.spans = 1 .. Len(tr.spans)
  /\ \A s \in Segment : Len(s.spans) \in Nat \ {0} /\ DOMAIN s.spans = 1 .. Len(s.spans)
<1>1. ASSUME NEW q, q \in Seq({q[i] : i \in DOMAIN q}), q # <<>>
      PROVE  Len(q) \in Nat \ {0} /\ DOMAIN q = 1 .. Len(q)
  BY <1>1, EmptySeq, LenProperties
<1>2. ASSUME NEW tr, SW!Sound(tr)
      PROVE  Len(tr.spans) \in Nat \ {0} /\ DOMAIN tr.spans = 1 .. Len(tr.spans)
  BY <1>1, <1>2 DEF SW!Sound
<1>3. ASSUME NEW s \in Segment
      PROVE  Len(s.spans) \in Nat \ {0} /\ DOMAIN s.spans = 1 .. Len(s.spans)
  BY <1>1, SegmentsAssumption DEF SW!Configured
<1> QED BY <1>2, <1>3

\* A function on an interval is a sequence of its values.
LEMMA IntervalIsSequence ==
  ASSUME NEW n \in Nat \ {0}, NEW q, q = [i \in 1 .. n |-> q[i]]
  PROVE  q \in Seq({q[i] : i \in DOMAIN q}) /\ q # <<>> /\ Len(q) = n
<1>1. DOMAIN q = 1 .. n
  OBVIOUS
<1>2. q \in [1 .. n -> {q[i] : i \in DOMAIN q}]
  BY <1>1
<1>3. q \in Seq({q[i] : i \in DOMAIN q}) /\ Len(q) = n
  BY <1>1, <1>2
<1> QED BY <1>1, <1>3

\* Segments have ids of their own.
LEMMA SegmentById ==
  ASSUME NEW s \in Segment, NEW t \in Segment, s.id = t.id
  PROVE  s = t
BY SegmentsAssumption DEF SW!Configured

\* ProtoToTraces: each span of the segment, once.
LEMMA ConvertedSegment ==
  ASSUME NEW s \in Segment, NEW partial \in BOOLEAN
  PROVE  LET tr == SW!ProtoToTraces(s, 0, partial)
         IN  /\ SW!Sound(tr) /\ SW!Only(tr, s)
             /\ \A t \in Segment : SW!Holds(tr, t) <=> t = s
<1> DEFINE tr == SW!ProtoToTraces(s, 0, partial)
<1>1. /\ "spans" \in DOMAIN tr
      /\ tr.spans = [i \in DOMAIN s.spans |-> SW!SwSpanToSpan(s, s.spans[i], partial)]
      /\ DOMAIN tr.spans = DOMAIN s.spans
  BY DEF SW!ProtoToTraces
<1>2. Len(s.spans) \in Nat \ {0} /\ DOMAIN s.spans = 1 .. Len(s.spans)
  BY SpansAreSequences
<1>3. \A i \in DOMAIN s.spans :
        /\ {"id", "parent", "name", "sw"} \subseteq DOMAIN tr.spans[i]
        /\ tr.spans[i].sw = [segment |-> s.id, span |-> s.spans[i].id]
        /\ tr.spans[i].sw.segment = s.id
        /\ tr.spans[i].id = SW!SegmentIDToSpanID(s.id, s.spans[i].id)
        /\ tr.spans[i].parent = SW!ParentSpanID(s.id, s.spans[i])
  BY <1>1 DEF SW!SwSpanToSpan
<1> HIDE DEF tr
<1>4. tr.spans \in Seq({tr.spans[i] : i \in DOMAIN tr.spans}) /\ tr.spans # <<>>
  BY <1>1, <1>2, IntervalIsSequence
<1>5. \A i \in DOMAIN tr.spans : SW!Converted(tr.spans[i])
  BY <1>1, <1>3 DEF SW!Converted, SW!SpansOf
<1>6. SW!Only(tr, s)
  BY <1>1, <1>3 DEF SW!Only
<1>7. ASSUME NEW t \in Segment PROVE SW!Holds(tr, t) <=> t = s
  <2>1. 1 \in DOMAIN tr.spans
    BY <1>1, <1>2
  <2>2. SW!Holds(tr, t) => t = s
    BY <1>6, SegmentById DEF SW!Holds, SW!Only
  <2>3. SW!Holds(tr, s)
    BY <1>6, <2>1 DEF SW!Holds, SW!Only
  <2> QED BY <2>2, <2>3
<1>8. SW!Whole(tr, s)
  <2> SUFFICES ASSUME NEW i \in DOMAIN s.spans
               PROVE  \A l \in DOMAIN tr.spans :
                        tr.spans[l].sw = [segment |-> s.id, span |-> s.spans[i].id] <=> l = i
    <3>1. ASSUME NEW x \in SW!SpansOf(s)
          PROVE  \E j \in DOMAIN tr.spans : \A l \in DOMAIN tr.spans :
                   tr.spans[l].sw = [segment |-> s.id, span |-> x.id] <=> l = j
      <4>1. PICK i \in DOMAIN s.spans : x = s.spans[i]
        BY DEF SW!SpansOf
      <4>2. i \in DOMAIN tr.spans
        BY <1>1
      <4> QED BY <4>1, <4>2
    <3> QED BY <3>1 DEF SW!Whole
  <2>1. \A l \in DOMAIN s.spans : s.spans[l].id = s.spans[i].id <=> l = i
    BY SegmentsAssumption DEF SW!Configured
  <2>2. ASSUME NEW l \in DOMAIN tr.spans
        PROVE  tr.spans[l].sw = [segment |-> s.id, span |-> s.spans[i].id] <=> l = i
    <3>1. tr.spans[l].sw = [segment |-> s.id, span |-> s.spans[l].id]
      BY <1>1, <1>3
    <3>2. [segment |-> s.id, span |-> s.spans[l].id] = [segment |-> s.id, span |-> s.spans[i].id]
          <=> s.spans[l].id = s.spans[i].id
      OBVIOUS
    <3> QED BY <1>1, <2>1, <3>1, <3>2
  <2> QED BY <2>2
<1> QED BY <1>1, <1>4, <1>5, <1>6, <1>7, <1>8 DEF SW!Sound, tr

\* Traces that differ in names only are sound together and hold the same.
LEMMA SameButNames ==
  ASSUME NEW a, SW!Sound(a), NEW b, "spans" \in DOMAIN b,
         b.spans = [j \in DOMAIN a.spans |-> b.spans[j]],
         \A j \in DOMAIN a.spans :
           /\ DOMAIN b.spans[j] = DOMAIN a.spans[j]
           /\ b.spans[j].sw = a.spans[j].sw
           /\ b.spans[j].id = a.spans[j].id
           /\ b.spans[j].parent = a.spans[j].parent
  PROVE  /\ SW!Sound(b)
         /\ \A s \in Segment : (SW!Holds(b, s) <=> SW!Holds(a, s)) /\ (SW!Only(b, s) <=> SW!Only(a, s))
<1>1. DOMAIN b.spans = DOMAIN a.spans
  OBVIOUS
<1>2. Len(a.spans) \in Nat \ {0} /\ DOMAIN a.spans = 1 .. Len(a.spans)
  BY SpansAreSequences
<1>3. b.spans \in Seq({b.spans[j] : j \in DOMAIN b.spans}) /\ b.spans # <<>>
  BY <1>1, <1>2, IntervalIsSequence
<1>4. ASSUME NEW j \in DOMAIN b.spans PROVE SW!Converted(b.spans[j])
  <2>1. SW!Converted(a.spans[j])
    BY <1>1 DEF SW!Sound
  <2> QED BY <1>1, <2>1, ZenonT(60) DEF SW!Converted
<1>5. ASSUME NEW s \in Segment
      PROVE  /\ SW!Holds(b, s) <=> SW!Holds(a, s)
             /\ SW!Only(b, s) <=> SW!Only(a, s)
             /\ SW!Whole(b, s) <=> SW!Whole(a, s)
  BY <1>1 DEF SW!Holds, SW!Only, SW!Whole
<1> QED BY <1>3, <1>4, <1>5 DEF SW!Sound

\* SetName of the first span.
LEMMA NamedTraces ==
  ASSUME NEW tr, SW!Sound(tr), NEW url
  PROVE  /\ SW!Sound(SW!Named(tr, url))
         /\ \A s \in Segment : /\ SW!Holds(SW!Named(tr, url), s) <=> SW!Holds(tr, s)
                               /\ SW!Only(SW!Named(tr, url), s) <=> SW!Only(tr, s)
         /\ 1 \in DOMAIN SW!Named(tr, url).spans
         /\ SW!Named(tr, url).spans[1].name = url
<1> DEFINE b == SW!Named(tr, url)
<1>1. /\ "spans" \in DOMAIN tr
      /\ 1 \in DOMAIN tr.spans
      /\ \A j \in DOMAIN tr.spans : {"id", "parent", "name", "sw"} \subseteq DOMAIN tr.spans[j]
  BY SpansAreSequences DEF SW!Sound, SW!Converted
<1>2. /\ "spans" \in DOMAIN b
      /\ b.spans = [tr.spans EXCEPT ![1] = [tr.spans[1] EXCEPT !.name = url]]
  BY <1>1 DEF SW!Named
<1> HIDE DEF b
<1>3. b.spans = [j \in DOMAIN tr.spans |-> b.spans[j]] /\ DOMAIN b.spans = DOMAIN tr.spans
  BY <1>2
<1>4. ASSUME NEW j \in DOMAIN tr.spans
      PROVE  /\ DOMAIN b.spans[j] = DOMAIN tr.spans[j]
             /\ b.spans[j].sw = tr.spans[j].sw
             /\ b.spans[j].id = tr.spans[j].id
             /\ b.spans[j].parent = tr.spans[j].parent
  <2>1. CASE j = 1
    <3>1. b.spans[j] = [tr.spans[1] EXCEPT !.name = url]
      BY <1>1, <1>2, <2>1
    <3> QED BY <1>1, <2>1, <3>1
  <2>2. CASE j # 1
    BY <1>2, <2>2
  <2> QED BY <2>1, <2>2
<1>5. b.spans[1].name = url
  <2>1. b.spans[1] = [tr.spans[1] EXCEPT !.name = url]
    BY <1>1, <1>2
  <2> QED BY <1>1, <2>1
<1>6. SW!Sound(b) /\ \A s \in Segment : (SW!Holds(b, s) <=> SW!Holds(tr, s)) /\ (SW!Only(b, s) <=> SW!Only(tr, s))
  BY <1>2, <1>3, <1>4, SameButNames
<1> QED BY <1>1, <1>3, <1>5, <1>6 DEF b

\* MoveAndAppendTo: what either held, and each span once if both held nothing
\* in common.
LEMMA AppendedTraces ==
  ASSUME NEW a, SW!Sound(a), NEW b, SW!Sound(b),
         \A s \in Segment : ~ (SW!Holds(a, s) /\ SW!Holds(b, s))
  PROVE  LET tr == SW!MoveAndAppendTo(a, b)
         IN  /\ SW!Sound(tr)
             /\ \A s \in Segment : SW!Holds(tr, s) <=> SW!Holds(a, s) \/ SW!Holds(b, s)
             /\ \A io \in Segment : SW!HasRoute(b, io) => SW!HasRoute(tr, io)
<1> DEFINE tr == SW!MoveAndAppendTo(a, b)
           m == Len(a.spans)
           n == Len(b.spans)
<1>1. /\ "spans" \in DOMAIN a
      /\ m \in Nat \ {0} /\ DOMAIN a.spans = 1 .. m
      /\ n \in Nat \ {0} /\ DOMAIN b.spans = 1 .. n
  BY SpansAreSequences DEF SW!Sound
<1>2. "spans" \in DOMAIN tr /\ tr.spans = a.spans \o b.spans
  BY <1>1 DEF SW!MoveAndAppendTo
<1> DEFINE q == a.spans \o b.spans
<1>3. /\ DOMAIN q = 1 .. m + n
      /\ q = [j \in 1 .. m + n |-> q[j]]
      /\ \A j \in 1 .. m + n : q[j] = IF j <= m THEN a.spans[j] ELSE b.spans[j - m]
  BY <1>1
<1>4. tr.spans = q
  BY <1>2
<1> HIDE DEF tr, q, m, n
<1>5. \A j \in 1 .. m : j \in DOMAIN q /\ q[j] = a.spans[j]
  BY <1>1, <1>3
<1>6. \A j \in 1 .. n : m + j \in DOMAIN q /\ q[m + j] = b.spans[j]
  BY <1>1, <1>3
<1>7. ASSUME NEW j \in DOMAIN q PROVE j \in 1 .. m \/ \E l \in 1 .. n : j = m + l
  <2>1. j \in 1 .. m \/ (j - m \in 1 .. n /\ j = m + (j - m))
    BY <1>1, <1>3
  <2> QED BY <2>1
<1>8. q \in Seq({q[j] : j \in DOMAIN q}) /\ q # <<>>
  <2>1. m + n \in Nat \ {0}
    BY <1>1
  <2> QED BY <1>3, <2>1, IntervalIsSequence
<1>9. \A j \in DOMAIN q : SW!Converted(q[j])
  BY <1>1, <1>5, <1>6, <1>7 DEF SW!Sound
<1>10. ASSUME NEW s \in Segment
       PROVE  SW!Holds(tr, s) <=> SW!Holds(a, s) \/ SW!Holds(b, s)
  <2>1. SW!Holds(a, s) => SW!Holds(tr, s)
    BY <1>1, <1>4, <1>5 DEF SW!Holds
  <2>2. SW!Holds(b, s) => SW!Holds(tr, s)
    BY <1>1, <1>4, <1>6 DEF SW!Holds
  <2>3. ASSUME NEW j \in DOMAIN q, q[j].sw.segment = s.id PROVE SW!Holds(a, s) \/ SW!Holds(b, s)
    <3>1. CASE j \in 1 .. m
      BY <1>1, <1>5, <2>3, <3>1 DEF SW!Holds
    <3>2. ASSUME NEW l \in 1 .. n, j = m + l PROVE SW!Holds(b, s)
      BY <1>1, <1>6, <2>3, <3>2 DEF SW!Holds
    <3> QED BY <1>7, <3>1, <3>2
  <2>4. SW!Holds(tr, s) => \E j \in DOMAIN q : q[j].sw.segment = s.id
    BY <1>4 DEF SW!Holds
  <2> QED BY <2>1, <2>2, <2>3, <2>4
<1>11. ASSUME NEW io \in Segment, SW!HasRoute(b, io) PROVE SW!HasRoute(tr, io)
  BY <1>1, <1>4, <1>6, <1>11 DEF SW!HasRoute
<1>12. ASSUME NEW s \in Segment, SW!Holds(tr, s) PROVE SW!Whole(tr, s)
  <2> SUFFICES ASSUME NEW x \in SW!SpansOf(s)
               PROVE  \E j \in DOMAIN q : \A l \in DOMAIN q :
                        q[l].sw = [segment |-> s.id, span |-> x.id] <=> l = j
    BY <1>4 DEF SW!Whole
  <2> DEFINE sw == [segment |-> s.id, span |-> x.id]
  <2>1. sw.segment = s.id
    OBVIOUS
  <2> HIDE DEF sw
  <2>2. CASE SW!Holds(a, s)
    <3>1. SW!Whole(a, s) /\ ~ SW!Holds(b, s)
      BY <2>2 DEF SW!Sound
    <3>2. \A l \in 1 .. n : b.spans[l].sw # sw
      BY <1>1, <2>1, <3>1 DEF SW!Holds
    <3>3. PICK j \in DOMAIN a.spans : \A l \in DOMAIN a.spans : a.spans[l].sw = sw <=> l = j
      BY <3>1, Zenon DEF SW!Whole, sw
    <3>4. ASSUME NEW l \in DOMAIN q PROVE q[l].sw = sw <=> l = j
      <4>1. CASE l \in 1 .. m
        BY <1>1, <1>5, <3>3, <4>1
      <4>2. ASSUME NEW k \in 1 .. n, l = m + k PROVE q[l].sw # sw /\ l # j
        <5>1. m + k # j
          BY <1>1
        <5> QED BY <1>6, <3>2, <4>2, <5>1
      <4> QED BY <1>7, <4>1, <4>2
    <3> QED BY <1>1, <1>5, <3>3, <3>4 DEF sw
  <2>3. CASE SW!Holds(b, s)
    <3>1. SW!Whole(b, s) /\ ~ SW!Holds(a, s)
      BY <2>3 DEF SW!Sound
    <3>2. \A l \in 1 .. m : a.spans[l].sw # sw
      BY <1>1, <2>1, <3>1 DEF SW!Holds
    <3>3. PICK j \in DOMAIN b.spans : \A l \in DOMAIN b.spans : b.spans[l].sw = sw <=> l = j
      BY <3>1, Zenon DEF SW!Whole, sw
    <3>4. ASSUME NEW l \in DOMAIN q PROVE q[l].sw = sw <=> l = m + j
      <4>1. CASE l \in 1 .. m
        BY <1>1, <1>5, <3>2, <3>3, <4>1
      <4>2. ASSUME NEW k \in 1 .. n, l = m + k PROVE q[l].sw = sw <=> l = m + j
        BY <1>1, <1>6, <3>3, <4>2
      <4> QED BY <1>7, <4>1, <4>2
    <3> QED BY <1>1, <1>6, <3>3, <3>4 DEF sw
  <2> QED BY <1>10, <1>12, <2>2, <2>3
<1> QED BY <1>2, <1>4, <1>8, <1>9, <1>10, <1>11, <1>12 DEF SW!Sound, tr

-----------------------------------------------------------------------------
(***************************************************************************)
(* SkywalkingTrace: where segments are.                                    *)
(***************************************************************************)

\* The four kinds of place.
PlaceSet(C, W, D, F) ==
  {<<"call", c>> : c \in C} \cup {<<"withheld", k>> : k \in W}
  \cup {<<"delivered", i>> : i \in D} \cup {<<"failed", f>> : f \in F}

\* In one of the four kinds of place, once; in none.
OneKind(C, W, D, f) ==
  \/ (\E c \in C : C = {c}) /\ W = {} /\ D = {} /\ ~f
  \/ C = {} /\ (\E k \in W : W = {k}) /\ D = {} /\ ~f
  \/ C = {} /\ W = {} /\ (\E i \in D : D = {i}) /\ ~f
  \/ C = {} /\ W = {} /\ D = {} /\ f
NoKind(C, W, D, f) == C = {} /\ W = {} /\ D = {} /\ ~f

\* A segment is in one place if it is in one of the four kinds of place, once.
LEMMA OneOfFour ==
  ASSUME NEW C, NEW W, NEW D, NEW G, NEW s
  PROVE  LET P == PlaceSet(C, W, D, {s} \cap G)
         IN  /\ (\E p \in P : P = {p}) <=> OneKind(C, W, D, s \in G)
             /\ (P = {}) <=> NoKind(C, W, D, s \in G)
<1> DEFINE F == {s} \cap G
           P == PlaceSet(C, W, D, F)
<1>0. ((\E f \in F : F = {f}) <=> s \in G) /\ (F = {} <=> s \notin G)
  OBVIOUS
<1> HIDE DEF F
<1>1. /\ \A c \in C : <<"call", c>> \in P
      /\ \A k \in W : <<"withheld", k>> \in P
      /\ \A i \in D : <<"delivered", i>> \in P
      /\ \A f \in F : <<"failed", f>> \in P
  BY DEF PlaceSet
<1>2. \A p \in P : \/ \E c \in C : p = <<"call", c>>
                   \/ \E k \in W : p = <<"withheld", k>>
                   \/ \E i \in D : p = <<"delivered", i>>
                   \/ \E f \in F : p = <<"failed", f>>
  BY DEF PlaceSet
<1> HIDE DEF P
<1>3. \A x, y : /\ <<"call", x>> # <<"withheld", y>> /\ <<"call", x>> # <<"delivered", y>>
                /\ <<"call", x>> # <<"failed", y>> /\ <<"withheld", x>> # <<"delivered", y>>
                /\ <<"withheld", x>> # <<"failed", y>> /\ <<"delivered", x>> # <<"failed", y>>
                /\ <<"call", x>> = <<"call", y>> => x = y
                /\ <<"withheld", x>> = <<"withheld", y>> => x = y
                /\ <<"delivered", x>> = <<"delivered", y>> => x = y
                /\ <<"failed", x>> = <<"failed", y>> => x = y
  OBVIOUS
<1>4. P = {} <=> C = {} /\ W = {} /\ D = {} /\ F = {}
  BY <1>1, <1>2
<1>5. ASSUME NEW p \in P, P = {p}
      PROVE  \/ (\E c \in C : C = {c}) /\ W = {} /\ D = {} /\ F = {}
             \/ C = {} /\ (\E k \in W : W = {k}) /\ D = {} /\ F = {}
             \/ C = {} /\ W = {} /\ (\E i \in D : D = {i}) /\ F = {}
             \/ C = {} /\ W = {} /\ D = {} /\ (\E f \in F : F = {f})
  <2>0. \A q, r \in P : q = r
    BY <1>5
  <2>1. ASSUME NEW c \in C, NEW d \in C PROVE c = d
    <3>1. <<"call", c>> = <<"call", d>>
      BY <1>1, <2>0
    <3> QED BY <3>1
  <2>2. ASSUME NEW c \in W, NEW d \in W PROVE c = d
    <3>1. <<"withheld", c>> = <<"withheld", d>>
      BY <1>1, <2>0
    <3> QED BY <3>1
  <2>3. ASSUME NEW c \in D, NEW d \in D PROVE c = d
    <3>1. <<"delivered", c>> = <<"delivered", d>>
      BY <1>1, <2>0
    <3> QED BY <3>1
  <2>4. ASSUME NEW c \in F, NEW d \in F PROVE c = d
    <3>1. <<"failed", c>> = <<"failed", d>>
      BY <1>1, <2>0
    <3> QED BY <3>1
  <2>5. /\ C # {} => W = {} /\ D = {} /\ F = {}
        /\ W # {} => D = {} /\ F = {}
        /\ D # {} => F = {}
    <3>1. \A c \in C, k \in W : FALSE
      BY <1>1, <1>3, <2>0
    <3>2. \A c \in C, i \in D : FALSE
      BY <1>1, <1>3, <2>0
    <3>3. \A c \in C, f \in F : FALSE
      BY <1>1, <1>3, <2>0
    <3>4. \A k \in W, i \in D : FALSE
      BY <1>1, <1>3, <2>0
    <3>5. \A k \in W, f \in F : FALSE
      BY <1>1, <1>3, <2>0
    <3>6. \A i \in D, f \in F : FALSE
      BY <1>1, <1>3, <2>0
    <3> QED BY <3>1, <3>2, <3>3, <3>4, <3>5, <3>6
  <2>6. C # {} \/ W # {} \/ D # {} \/ F # {}
    BY <1>4, <1>5
  <2> QED BY <2>1, <2>2, <2>3, <2>4, <2>5, <2>6
<1>6. ASSUME \/ (\E c \in C : C = {c}) /\ W = {} /\ D = {} /\ F = {}
             \/ C = {} /\ (\E k \in W : W = {k}) /\ D = {} /\ F = {}
             \/ C = {} /\ W = {} /\ (\E i \in D : D = {i}) /\ F = {}
             \/ C = {} /\ W = {} /\ D = {} /\ (\E f \in F : F = {f})
      PROVE  \E p \in P : P = {p}
  <2>1. \A p, q \in P : p = q
    BY <1>2, <1>6
  <2>2. P # {}
    BY <1>4, <1>6
  <2> QED BY <2>1, <2>2
<1>7. (\E p \in P : P = {p}) <=> OneKind(C, W, D, s \in G)
  BY <1>0, <1>5, <1>6, Zenon DEF OneKind
<1>8. (P = {}) <=> NoKind(C, W, D, s \in G)
  BY <1>0, <1>4, Zenon DEF NoKind
<1> QED BY <1>7, <1>8 DEF P, F

LEMMA PlacesByKind ==
  /\ SW!OnePlace <=>
       \A s \in Segment : IF s \in sent THEN OneKind(SW!Callers(s), SW!Keys(s), SW!Deliveries(s), s \in failed)
                          ELSE NoKind(SW!Callers(s), SW!Keys(s), SW!Deliveries(s), s \in failed)
  /\ SW!OnePlace' <=>
       \A s \in Segment : IF s \in sent' THEN OneKind(SW!Callers(s)', SW!Keys(s)', SW!Deliveries(s)', s \in failed')
                          ELSE NoKind(SW!Callers(s)', SW!Keys(s)', SW!Deliveries(s)', s \in failed')
<1>1. ASSUME NEW C, NEW W, NEW D, NEW G, NEW s, NEW P, P = PlaceSet(C, W, D, {s} \cap G)
      PROVE  /\ (\E p \in P : P = {p}) <=> OneKind(C, W, D, s \in G)
             /\ P = {} <=> NoKind(C, W, D, s \in G)
  BY <1>1, OneOfFour
<1>2. ASSUME NEW s \in Segment
      PROVE  /\ (\E p \in SW!Places(s) : SW!Places(s) = {p}) <=>
                   OneKind(SW!Callers(s), SW!Keys(s), SW!Deliveries(s), s \in failed)
             /\ SW!Places(s) = {} <=> NoKind(SW!Callers(s), SW!Keys(s), SW!Deliveries(s), s \in failed)
  <2>1. SW!Places(s) = PlaceSet(SW!Callers(s), SW!Keys(s), SW!Deliveries(s), {s} \cap failed)
    BY DEF SW!Places, PlaceSet
  <2> QED BY <1>1, <2>1, Zenon
<1>3. ASSUME NEW s \in Segment
      PROVE  /\ (\E p \in SW!Places(s)' : SW!Places(s)' = {p}) <=>
                   OneKind(SW!Callers(s)', SW!Keys(s)', SW!Deliveries(s)', s \in failed')
             /\ SW!Places(s)' = {} <=> NoKind(SW!Callers(s)', SW!Keys(s)', SW!Deliveries(s)', s \in failed')
  <2>1. SW!Places(s)' = PlaceSet(SW!Callers(s)', SW!Keys(s)', SW!Deliveries(s)', {s} \cap failed')
    BY DEF SW!Places, PlaceSet
  <2> QED BY <1>1, <2>1, Zenon
<1> QED BY <1>2, <1>3, Zenon DEF SW!OnePlace

\* A step of the call c leaves the other calls alone.
StepOf(c) ==
  \A d \in Call \ {c} : stage'[d] = stage[d] /\ segment'[d] = segment[d] /\ ptd'[d] = ptd[d]

\* The callers of a segment change with the call that makes the step only.
LEMMA OtherCalls ==
  ASSUME NEW c \in Call, StepOf(c), NEW s \in Segment
  PROVE  /\ \A d \in Call \ {c} : SW!Carries(d, s)' <=> SW!Carries(d, s)
         /\ c \in SW!Callers(s) <=> SW!Carries(c, s)
         /\ SW!Carries(c, s)' => SW!Callers(s)' = SW!Callers(s) \cup {c}
         /\ ~ SW!Carries(c, s)' => SW!Callers(s)' = SW!Callers(s) \ {c}
         /\ (SW!Carries(c, s)' <=> SW!Carries(c, s)) => SW!Callers(s)' = SW!Callers(s)
<1>1. \A d \in Call \ {c} : SW!Carries(d, s)' <=> SW!Carries(d, s)
  BY DEF StepOf, SW!Carries
<1> QED BY <1>1, Zenon DEF SW!Callers

IsSequence(q) == q \in Seq({q[i] : i \in DOMAIN q})

LEMMA LongerSequence ==
  ASSUME NEW n \in Nat, NEW T, NEW r \in [1 .. n + 1 -> T]
  PROVE  r \in Seq(T)
OBVIOUS

\* Append to what was delivered.
LEMMA OneMoreDelivered ==
  ASSUME NEW q, IsSequence(q), NEW e, NEW r, r = Append(q, e)
  PROVE  /\ IsSequence(r)
         /\ Len(q) + 1 \notin DOMAIN q
         /\ DOMAIN r = DOMAIN q \cup {Len(q) + 1}
         /\ \A i \in DOMAIN q : r[i] = q[i]
         /\ r[Len(q) + 1] = e
<1> DEFINE n == Len(q)
<1>1. n \in Nat /\ DOMAIN q = 1 .. n
  BY LenProperties DEF IsSequence
<1>2. /\ DOMAIN r = 1 .. n + 1 /\ r = [i \in 1 .. n + 1 |-> r[i]]
      /\ \A i \in 1 .. n : r[i] = q[i]
      /\ r[n + 1] = e
  <2> DEFINE S == {q[i] : i \in DOMAIN q} \cup {e}
  <2>1. q \in [1 .. n -> S]
    BY <1>1 DEF IsSequence
  <2>2. q \in Seq(S) /\ e \in S
    BY <1>1, <2>1
  <2> HIDE DEF S
  <2>3. /\ r \in Seq(S) /\ Len(r) = n + 1
        /\ \A i \in 1 .. n : r[i] = q[i]
        /\ r[n + 1] = e
    BY <2>2, AppendProperties
  <2>4. DOMAIN r = 1 .. n + 1 /\ r \in [1 .. n + 1 -> S]
    BY <2>3, LenProperties
  <2> QED BY <2>3, <2>4
<1> HIDE DEF n
<1>3. n + 1 \in Nat \ {0}
  BY <1>1
<1>4. IsSequence(r)
  <2> DEFINE T == {r[i] : i \in DOMAIN r}
  <2>1. \A i \in 1 .. n + 1 : r[i] \in T
    BY <1>2
  <2> HIDE DEF T
  <2>2. r \in [1 .. n + 1 -> T]
    BY <1>2, <2>1
  <2>3. r \in Seq(T)
    BY <1>1, <2>2, LongerSequence, Zenon
  <2> QED BY <2>3 DEF T, IsSequence
<1>5. n + 1 \notin DOMAIN q /\ DOMAIN r = DOMAIN q \cup {n + 1}
  BY <1>1, <1>2
<1> QED BY <1>1, <1>2, <1>4, <1>5, Zenon DEF n

\* Each step is one of one call.
LEMMA StepsOfCalls ==
  ASSUME SW!TypeOK, NEW c \in Call,
         \/ \E s \in Segment : SW!Receive(c, s)
         \/ SW!StartFill(c) \/ SW!EndFill(c) \/ SW!ConvertSegment(c) \/ SW!ConcurrentMapUse(c)
         \/ SW!CheckUndertow(c) \/ SW!StoreUndertow(c)
         \/ \E ok \in BOOLEAN : SW!Consume(c, ok)
  PROVE  StepOf(c) /\ SW!TypeOK'
<1>1. ASSUME NEW s \in Segment, SW!Receive(c, s) PROVE StepOf(c) /\ SW!TypeOK'
  BY <1>1, SegmentsAssumption DEF SW!TypeOK, SW!Receive, SW!cacheVars, StepOf, SW!Configured
<1>2. CASE SW!StartFill(c)
  BY <1>2 DEF SW!TypeOK, SW!StartFill, SW!cacheVars, StepOf, SW!Table, SW!Needs
<1>3. CASE SW!EndFill(c)
  BY <1>3 DEF SW!TypeOK, SW!EndFill, SW!cacheVars, StepOf, SW!Table
<1>4. CASE SW!ConvertSegment(c)
  BY <1>4 DEF SW!TypeOK, SW!ConvertSegment, SW!cacheVars, StepOf
<1>5. CASE SW!ConcurrentMapUse(c)
  BY <1>5 DEF SW!TypeOK, SW!ConcurrentMapUse, SW!cacheVars, SW!callVars, StepOf
<1>6. CASE SW!CheckUndertow(c)
  BY <1>6, SMTT(30) DEF SW!TypeOK, SW!CheckUndertow, SW!cacheVars, StepOf
<1>7. CASE SW!StoreUndertow(c)
  BY <1>7, SMTT(30) DEF SW!TypeOK, SW!StoreUndertow, SW!cacheVars, StepOf
<1>8. ASSUME NEW ok \in BOOLEAN, SW!Consume(c, ok) PROVE StepOf(c) /\ SW!TypeOK'
  <2>1. delivered' \in Seq({delivered'[i] : i \in DOMAIN delivered'})
    <3>1. delivered \in Seq({delivered[i] : i \in DOMAIN delivered})
      BY DEF SW!TypeOK
    <3>2. delivered' = Append(delivered, ptd[c]) \/ delivered' = delivered
      BY <1>8 DEF SW!Consume
    <3>3. IsSequence(delivered)
      BY <3>1 DEF IsSequence
    <3>4. IsSequence(delivered')
      BY <3>2, <3>3, OneMoreDelivered, Zenon
    <3> QED BY <3>4 DEF IsSequence
  <2>2. failed' \subseteq sent'
    BY <1>8 DEF SW!TypeOK, SW!Consume
  <2> QED BY <1>8, <2>1, <2>2 DEF SW!TypeOK, SW!Consume, SW!cacheVars, StepOf
<1> QED BY <1>1, <1>2, <1>3, <1>4, <1>5, <1>6, <1>7, <1>8

\* Where a segment that is in one place goes.
LEMMA ToOneKind ==
  ASSUME NEW C, NEW W, NEW D, NEW s, NEW G, NEW y, C = {}, W = {}, D = {}
  PROVE  /\ s \notin G => OneKind(C, W \cup {y}, D, s \in G)
         /\ s \notin G => OneKind(C, W, D \cup {y}, s \in G)
         /\ s \in G => OneKind(C, W, D, s \in G)
<1>1. /\ \E z \in W \cup {y} : W \cup {y} = {z}
      /\ \E z \in D \cup {y} : D \cup {y} = {z}
  OBVIOUS
<1> QED BY <1>1, Zenon DEF OneKind

LEMMA FromCache ==
  ASSUME NEW C, NEW W, NEW D, NEW s, NEW G, OneKind(C, W, D, s \in G), NEW x \in W, NEW y
  PROVE  C = {} /\ W = {x} /\ OneKind(C \cup {y}, W \ {x}, D, s \in G)
<1>1. C = {} /\ W = {x} /\ D = {} /\ s \notin G
  BY Zenon DEF OneKind
<1>2. W \ {x} = {}
  BY <1>1
<1>3. \E z \in C \cup {y} : C \cup {y} = {z}
  BY <1>1
<1> QED BY <1>1, <1>2, <1>3, Zenon DEF OneKind

\* Nothing moves.
LEMMA NothingMoves ==
  ASSUME SW!OnePlace, NEW c \in Call, StepOf(c),
         \A s \in Segment : SW!Carries(c, s)' <=> SW!Carries(c, s),
         UNCHANGED <<sent, ioTraceMap, delivered, failed>>
  PROVE  SW!OnePlace'
<1>1. ASSUME NEW s \in Segment
      PROVE  SW!Callers(s)' = SW!Callers(s) /\ SW!Keys(s)' = SW!Keys(s) /\ SW!Deliveries(s)' = SW!Deliveries(s)
  <2>1. SW!Callers(s)' = SW!Callers(s)
    BY OtherCalls, Zenon
  <2> QED BY <2>1 DEF SW!Keys, SW!Deliveries
<1>2. sent' = sent /\ failed' = failed
  OBVIOUS
<1> QED BY <1>1, <1>2, PlacesByKind, Zenon

\* The traces of the other calls are as sound as before.
LEMMA OneCallSound ==
  ASSUME SW!CallsSound, NEW c \in Call, StepOf(c),
         stage'[c] \in {"load", "store", "consume"} => SW!Sound(ptd'[c]),
         stage'[c] \in {"load", "store"} => SW!Only(ptd'[c], segment'[c]),
         stage'[c] = "store" => SW!IsUndertow(segment'[c])
  PROVE  SW!CallsSound'
<1> SUFFICES ASSUME NEW d \in Call
             PROVE  /\ stage'[d] \in {"load", "store", "consume"} => SW!Sound(ptd'[d])
                    /\ stage'[d] \in {"load", "store"} => SW!Only(ptd'[d], segment'[d])
                    /\ stage'[d] = "store" => SW!IsUndertow(segment'[d])
  BY DEF SW!CallsSound
<1>1. CASE d = c
  BY <1>1
<1>2. CASE d # c
  BY <1>2 DEF StepOf, SW!CallsSound
<1> QED BY <1>1, <1>2

\* Traces of one segment hold it and no other.
LEMMA HoldsOwn ==
  ASSUME NEW tr, SW!Sound(tr), NEW s \in Segment, SW!Only(tr, s)
  PROVE  \A t \in Segment : SW!Holds(tr, t) <=> t = s
<1>1. 1 \in DOMAIN tr.spans
  BY SpansAreSequences
<1>2. SW!Holds(tr, s)
  BY <1>1 DEF SW!Holds, SW!Only
<1> QED BY <1>2, SegmentById DEF SW!Holds, SW!Only

\* The segment of a call that is not idle was received.
LEMMA OwnSegment ==
  ASSUME SW!TypeOK, NEW c \in Call, stage[c] # "idle"
  PROVE  segment[c] \in Segment /\ segment[c] \in sent
BY DEF SW!TypeOK

-----------------------------------------------------------------------------
(***************************************************************************)
(* SkywalkingTrace: each step keeps segments in one place.                 *)
(***************************************************************************)

SoundInv == SW!CallsSound /\ SW!CacheSound /\ SW!DeliveredSound /\ SW!OnePlace

LEMMA ReceiveKeeps ==
  ASSUME SW!PlacesInv, NEW c \in Call, StepOf(c), NEW s \in Segment, SW!Receive(c, s)
  PROVE  SoundInv'
<1>0. SW!TypeOK /\ SW!CallsSound /\ SW!CacheSound /\ SW!DeliveredSound /\ SW!OnePlace
  BY DEF SW!PlacesInv
<1>1. /\ stage[c] = "idle" /\ stage'[c] = "convert" /\ segment'[c] = s /\ s \notin sent
      /\ sent' = sent \cup {s} /\ ioTraceMap' = ioTraceMap /\ routeUrlMap' = routeUrlMap
      /\ delivered' = delivered /\ failed' = failed
  BY <1>0 DEF SW!Receive, SW!cacheVars, SW!TypeOK
<1>2. SW!CallsSound'
  BY <1>0, <1>1, OneCallSound
<1>3. SW!CacheSound' /\ SW!DeliveredSound'
  BY <1>0, <1>1 DEF SW!CacheSound, SW!DeliveredSound
<1>4. ASSUME NEW t \in Segment
      PROVE  /\ ~SW!Carries(c, t)
             /\ SW!Carries(c, t)' <=> t = s
             /\ SW!Keys(t)' = SW!Keys(t) /\ SW!Deliveries(t)' = SW!Deliveries(t)
  BY <1>1 DEF SW!Carries, SW!Keys, SW!Deliveries
<1>5. ASSUME NEW t \in Segment
      PROVE  IF t \in sent' THEN OneKind(SW!Callers(t)', SW!Keys(t)', SW!Deliveries(t)', t \in failed')
                            ELSE NoKind(SW!Callers(t)', SW!Keys(t)', SW!Deliveries(t)', t \in failed')
  <2>1. CASE t = s
    <3>1. NoKind(SW!Callers(s), SW!Keys(s), SW!Deliveries(s), s \in failed)
      BY <1>0, <1>1, PlacesByKind
    <3>2. SW!Callers(s)' = SW!Callers(s) \cup {c}
      BY <1>4, OtherCalls
    <3>3. SW!Callers(s) = {} /\ SW!Keys(s) = {} /\ SW!Deliveries(s) = {} /\ s \notin failed
      BY <3>1, Zenon DEF NoKind
    <3>4. \E d \in SW!Callers(s)' : SW!Callers(s)' = {d}
      BY <3>2, <3>3
    <3>5. OneKind(SW!Callers(s)', SW!Keys(s)', SW!Deliveries(s)', s \in failed')
      BY <1>1, <1>4, <3>3, <3>4, Zenon DEF OneKind
    <3> QED BY <1>1, <2>1, <3>5
  <2>2. CASE t # s
    <3>1. SW!Callers(t)' = SW!Callers(t) /\ (t \in sent' <=> t \in sent)
      BY <1>1, <1>4, <2>2, OtherCalls
    <3> QED BY <1>0, <1>1, <1>4, <3>1, PlacesByKind
  <2> QED BY <2>1, <2>2
<1>6. SW!OnePlace'
  BY <1>5, PlacesByKind, Zenon
<1> QED BY <1>2, <1>3, <1>6 DEF SoundInv

LEMMA ConvertKeeps ==
  ASSUME SW!PlacesInv, NEW c \in Call, StepOf(c),
         SW!StartFill(c) \/ SW!EndFill(c) \/ SW!ConvertSegment(c) \/ SW!ConcurrentMapUse(c)
  PROVE  SoundInv'
<1>0. SW!TypeOK /\ SW!CallsSound /\ SW!CacheSound /\ SW!DeliveredSound /\ SW!OnePlace
  BY DEF SW!PlacesInv
<1>1. /\ segment' = segment /\ UNCHANGED <<sent, ioTraceMap, delivered, failed>> /\ routeUrlMap' = routeUrlMap
      /\ stage[c] \in {"convert", "fill"}
      /\ \/ stage'[c] \in {"convert", "fill"}
         \/ /\ stage'[c] = "load"
            /\ \E partial \in BOOLEAN : ptd'[c] = SW!ProtoToTraces(segment[c], 0, partial)
  BY <1>0 DEF SW!StartFill, SW!EndFill, SW!ConvertSegment, SW!ConcurrentMapUse, SW!cacheVars, SW!callVars,
              SW!TypeOK
<1>2. segment[c] \in Segment
  BY <1>0, <1>1, OwnSegment
<1>3. stage'[c] = "load" => /\ SW!Sound(ptd'[c]) /\ SW!Only(ptd'[c], segment'[c])
                            /\ \A t \in Segment : SW!Holds(ptd'[c], t) <=> t = segment[c]
  BY <1>1, <1>2, ConvertedSegment
<1>4. SW!CallsSound'
  BY <1>0, <1>1, <1>3, OneCallSound
<1>5. SW!CacheSound' /\ SW!DeliveredSound'
  BY <1>0, <1>1 DEF SW!CacheSound, SW!DeliveredSound
<1>6. \A t \in Segment : SW!Carries(c, t)' <=> SW!Carries(c, t)
  BY <1>1, <1>3 DEF SW!Carries
<1>7. SW!OnePlace'
  BY <1>0, <1>1, <1>6, NothingMoves
<1> QED BY <1>4, <1>5, <1>7 DEF SoundInv

\* CheckUndertow: nothing to look up or nothing found, a route found, or an I/O
\* segment found.
LEMMA CheckCases ==
  ASSUME SW!TypeOK, NEW c \in Call, SW!CheckUndertow(c), NEW s, s = segment[c], NEW key, key = SW!UndertowKey(s)
  PROVE  /\ stage[c] = "load" /\ segment' = segment /\ missed' = missed
         /\ sent' = sent /\ delivered' = delivered /\ failed' = failed
         /\ \/ /\ ptd' = ptd /\ ioTraceMap' = ioTraceMap /\ routeUrlMap' = routeUrlMap
               /\ \/ ~SW!IsUndertow(s) /\ stage'[c] = "consume"
                  \/ SW!IsIo(s) /\ stage'[c] = "store" /\ key \notin DOMAIN routeUrlMap
                  \/ SW!IsTask(s) /\ stage'[c] = "store" /\ key \notin DOMAIN ioTraceMap
            \/ /\ SW!IsIo(s) /\ stage'[c] = "consume" /\ key \in DOMAIN routeUrlMap
               /\ ptd'[c] = SW!Named(ptd[c], routeUrlMap[key])
               /\ routeUrlMap' = SW!Without(routeUrlMap, key) /\ ioTraceMap' = ioTraceMap
            \/ /\ SW!IsTask(s) /\ stage'[c] = "consume" /\ key \in DOMAIN ioTraceMap
               /\ ptd'[c] = SW!MoveAndAppendTo(ptd[c], SW!Named(ioTraceMap[key], SW!RouteUrl(s)))
               /\ ioTraceMap' = SW!Without(ioTraceMap, key) /\ routeUrlMap' = routeUrlMap
BY DEF SW!TypeOK, SW!CheckUndertow, SW!cacheVars, SW!IsIo, SW!IsTask, SW!LoadAndDelete

LEMMA WithoutKey ==
  ASSUME NEW map, NEW key
  PROVE  /\ DOMAIN SW!Without(map, key) = DOMAIN map \ {key}
         /\ \A k \in DOMAIN map \ {key} : SW!Without(map, key)[k] = map[k]
BY DEF SW!Without

\* A part of what is withheld and of the routes is as sound as the whole.
LEMMA CachePart ==
  ASSUME SW!CacheSound,
         \A k \in DOMAIN ioTraceMap' : k \in DOMAIN ioTraceMap /\ ioTraceMap'[k] = ioTraceMap[k],
         \A k \in DOMAIN routeUrlMap' : k \in DOMAIN routeUrlMap /\ routeUrlMap'[k] = routeUrlMap[k]
  PROVE  SW!CacheSound'
BY DEF SW!CacheSound

LEMMA CheckKeeps ==
  ASSUME SW!PlacesInv, NEW c \in Call, StepOf(c), SW!CheckUndertow(c)
  PROVE  SoundInv'
<1>0. SW!TypeOK /\ SW!CallsSound /\ SW!CacheSound /\ SW!DeliveredSound /\ SW!OnePlace
  BY DEF SW!PlacesInv
<1> DEFINE s == segment[c]
           key == SW!UndertowKey(s)
<1>1. /\ stage[c] = "load" /\ segment' = segment
      /\ sent' = sent /\ delivered' = delivered /\ failed' = failed
      /\ \/ /\ ptd' = ptd /\ ioTraceMap' = ioTraceMap /\ routeUrlMap' = routeUrlMap
            /\ stage'[c] = "consume" \/ (stage'[c] = "store" /\ SW!IsUndertow(s))
         \/ /\ stage'[c] = "consume"
            /\ ptd'[c] = SW!Named(ptd[c], routeUrlMap[key])
            /\ routeUrlMap' = SW!Without(routeUrlMap, key) /\ ioTraceMap' = ioTraceMap
         \/ /\ stage'[c] = "consume" /\ key \in DOMAIN ioTraceMap
            /\ ptd'[c] = SW!MoveAndAppendTo(ptd[c], SW!Named(ioTraceMap[key], SW!RouteUrl(s)))
            /\ ioTraceMap' = SW!Without(ioTraceMap, key) /\ routeUrlMap' = routeUrlMap
  BY <1>0, CheckCases DEF SW!IsIo, SW!IsTask
<1>2. s \in Segment /\ s \in sent
  BY <1>0, <1>1, OwnSegment
<1>3. SW!Sound(ptd[c]) /\ SW!Only(ptd[c], s) /\ \A t \in Segment : SW!Carries(c, t) <=> SW!Holds(ptd[c], t)
  BY <1>0, <1>1 DEF SW!CallsSound, SW!Carries
<1> HIDE DEF s, key
<1>4. SW!DeliveredSound'
  BY <1>0, <1>1 DEF SW!DeliveredSound
<1>5. SW!CacheSound'
  <2>1. \A k \in DOMAIN ioTraceMap' : k \in DOMAIN ioTraceMap /\ ioTraceMap'[k] = ioTraceMap[k]
    <3>1. ioTraceMap' = ioTraceMap \/ ioTraceMap' = SW!Without(ioTraceMap, key)
      BY <1>1
    <3>2. DOMAIN SW!Without(ioTraceMap, key) = DOMAIN ioTraceMap \ {key}
      BY WithoutKey
    <3>3. \A k \in DOMAIN ioTraceMap \ {key} : SW!Without(ioTraceMap, key)[k] = ioTraceMap[k]
      BY WithoutKey
    <3> QED BY <3>1, <3>2, <3>3
  <2>2. \A k \in DOMAIN routeUrlMap' : k \in DOMAIN routeUrlMap /\ routeUrlMap'[k] = routeUrlMap[k]
    <3>1. routeUrlMap' = routeUrlMap \/ routeUrlMap' = SW!Without(routeUrlMap, key)
      BY <1>1
    <3>2. DOMAIN SW!Without(routeUrlMap, key) = DOMAIN routeUrlMap \ {key}
      BY WithoutKey
    <3>3. \A k \in DOMAIN routeUrlMap \ {key} : SW!Without(routeUrlMap, key)[k] = routeUrlMap[k]
      BY WithoutKey
    <3> QED BY <3>1, <3>2, <3>3
  <2> QED BY <1>0, <2>1, <2>2, CachePart
<1>6. CASE ptd' = ptd /\ ioTraceMap' = ioTraceMap
  <2>1. stage'[c] \in {"store", "consume"} /\ (stage'[c] = "store" => SW!IsUndertow(s))
    BY <1>1
  <2>2. SW!CallsSound'
    BY <1>0, <1>1, <1>3, <1>6, <2>1, OneCallSound DEF s
  <2>3. \A t \in Segment : SW!Carries(c, t)' <=> SW!Carries(c, t)
    BY <1>1, <1>3, <1>6, <2>1 DEF SW!Carries
  <2>4. SW!OnePlace'
    BY <1>0, <1>1, <1>6, <2>3, NothingMoves
  <2> QED BY <1>4, <1>5, <2>2, <2>4 DEF SoundInv
<1>7. CASE /\ stage'[c] = "consume" /\ ptd'[c] = SW!Named(ptd[c], routeUrlMap[key])
           /\ ioTraceMap' = ioTraceMap
  <2>1. SW!Sound(ptd'[c]) /\ \A t \in Segment : SW!Holds(ptd'[c], t) <=> SW!Holds(ptd[c], t)
    BY <1>3, <1>7, NamedTraces
  <2>2. SW!CallsSound'
    BY <1>0, <1>7, <2>1, OneCallSound
  <2>3. \A t \in Segment : SW!Carries(c, t)' <=> SW!Carries(c, t)
    BY <1>3, <1>7, <2>1 DEF SW!Carries
  <2>4. SW!OnePlace'
    BY <1>0, <1>1, <1>7, <2>3, NothingMoves
  <2> QED BY <1>4, <1>5, <2>2, <2>4 DEF SoundInv
<1>8. CASE /\ stage'[c] = "consume" /\ key \in DOMAIN ioTraceMap
           /\ ptd'[c] = SW!MoveAndAppendTo(ptd[c], SW!Named(ioTraceMap[key], SW!RouteUrl(s)))
           /\ ioTraceMap' = SW!Without(ioTraceMap, key)
  <2> DEFINE io == SW!Named(ioTraceMap[key], SW!RouteUrl(s))
  <2>1. SW!Sound(io) /\ \A t \in Segment : SW!Holds(io, t) <=> SW!Holds(ioTraceMap[key], t)
    BY <1>0, <1>8, NamedTraces DEF SW!CacheSound
  <2>2. ptd'[c] = SW!MoveAndAppendTo(ptd[c], io)
    BY <1>8
  <2> HIDE DEF io
  <2>3. ASSUME NEW t \in Segment, key \in SW!Keys(t)
        PROVE  /\ ~SW!Holds(ptd[c], t) /\ t \in sent
               /\ OneKind(SW!Callers(t) \cup {c}, SW!Keys(t) \ {key}, SW!Deliveries(t), t \in failed)
    <3>1. t \in sent /\ OneKind(SW!Callers(t), SW!Keys(t), SW!Deliveries(t), t \in failed)
      <4>1. CASE t \notin sent
        <5>1. NoKind(SW!Callers(t), SW!Keys(t), SW!Deliveries(t), t \in failed)
          BY <1>0, <4>1, PlacesByKind
        <5>2. SW!Keys(t) = {}
          BY <5>1, Zenon DEF NoKind
        <5> QED BY <2>3, <5>2
      <4>2. CASE t \in sent
        BY <1>0, <4>2, PlacesByKind
      <4> QED BY <4>1, <4>2
    <3>2. /\ SW!Callers(t) = {}
          /\ OneKind(SW!Callers(t) \cup {c}, SW!Keys(t) \ {key}, SW!Deliveries(t), t \in failed)
      BY <2>3, <3>1, FromCache, Zenon
    <3>3. ~SW!Carries(c, t)
      BY <3>2 DEF SW!Callers
    <3> QED BY <1>3, <3>1, <3>2, <3>3
  <2>4. \A t \in Segment : key \in SW!Keys(t) <=> SW!Holds(io, t)
    BY <1>8, <2>1 DEF SW!Keys
  <2>5. /\ SW!Sound(ptd'[c])
        /\ \A t \in Segment : SW!Holds(ptd'[c], t) <=> SW!Holds(ptd[c], t) \/ SW!Holds(io, t)
    <3>1. \A t \in Segment : ~ (SW!Holds(ptd[c], t) /\ SW!Holds(io, t))
      BY <2>3, <2>4
    <3> QED BY <1>3, <2>1, <2>2, <3>1, AppendedTraces
  <2>6. SW!CallsSound'
    BY <1>0, <1>8, <2>5, OneCallSound
  <2>7. ASSUME NEW t \in Segment
        PROVE  /\ SW!Carries(c, t)' <=> SW!Carries(c, t) \/ key \in SW!Keys(t)
               /\ SW!Keys(t)' = SW!Keys(t) \ {key}
               /\ SW!Deliveries(t)' = SW!Deliveries(t)
    <3>1. SW!Carries(c, t)' <=> SW!Carries(c, t) \/ key \in SW!Keys(t)
      BY <1>3, <1>8, <2>4, <2>5 DEF SW!Carries
    <3>2. DOMAIN ioTraceMap' = DOMAIN ioTraceMap \ {key} /\ \A k \in DOMAIN ioTraceMap' : ioTraceMap'[k] = ioTraceMap[k]
      BY <1>8, WithoutKey, ZenonT(60)
    <3> QED BY <1>1, <3>1, <3>2 DEF SW!Keys, SW!Deliveries
  <2>8. ASSUME NEW t \in Segment
        PROVE  IF t \in sent' THEN OneKind(SW!Callers(t)', SW!Keys(t)', SW!Deliveries(t)', t \in failed')
                              ELSE NoKind(SW!Callers(t)', SW!Keys(t)', SW!Deliveries(t)', t \in failed')
    <3>1. CASE key \in SW!Keys(t)
      <4>1. SW!Callers(t)' = SW!Callers(t) \cup {c}
        BY <2>7, <3>1, OtherCalls
      <4> QED BY <1>1, <2>3, <2>7, <3>1, <4>1
    <3>2. CASE key \notin SW!Keys(t)
      <4>1. SW!Callers(t)' = SW!Callers(t)
        BY <2>7, <3>2, OtherCalls
      <4>2. SW!Keys(t)' = SW!Keys(t)
        BY <2>7, <3>2
      <4> QED BY <1>0, <1>1, <2>7, <4>1, <4>2, PlacesByKind
    <3> QED BY <3>1, <3>2
  <2>9. SW!OnePlace'
    BY <2>8, PlacesByKind, Zenon
  <2> QED BY <1>4, <1>5, <2>6, <2>9 DEF SoundInv
<1> QED BY <1>1, <1>6, <1>7, <1>8

\* StoreUndertow: an I/O segment is withheld, or a route stored.
LEMMA StoreCases ==
  ASSUME SW!TypeOK, SW!CallsSound, NEW c \in Call, SW!StoreUndertow(c), NEW s, s = segment[c],
         NEW key, key = SW!UndertowKey(s)
  PROVE  /\ stage[c] = "store" /\ sent' = sent /\ delivered' = delivered /\ failed' = failed
         /\ missed \subseteq missed'
         /\ (\E d \in Call \ {c} : stage[d] = "store" /\ SW!UndertowKey(segment[d]) = key) => key \in missed'
         /\ \/ /\ SW!IsIo(s) /\ stage'[c] = "idle" /\ segment'[c] = NoOne
               /\ ioTraceMap' = SW!With(ioTraceMap, key, ptd[c]) /\ routeUrlMap' = routeUrlMap
            \/ /\ SW!IsTask(s) /\ stage'[c] = "consume" /\ segment' = segment /\ ptd' = ptd
               /\ routeUrlMap' = SW!With(routeUrlMap, key, SW!RouteUrl(s)) /\ ioTraceMap' = ioTraceMap
<1>1. SW!IsUndertow(s)
  BY DEF SW!CallsSound, SW!StoreUndertow
<1> QED BY <1>1 DEF SW!TypeOK, SW!StoreUndertow, SW!cacheVars, SW!IsIo, SW!IsTask

\* The key of an I/O segment names it.
LEMMA IoKey ==
  ASSUME NEW s \in Segment, NEW t \in Segment, SW!IsIo(s), SW!IsIo(t), SW!UndertowKey(s) = SW!UndertowKey(t)
  PROVE  s = t
<1>1. s.id = t.id
  BY DEF SW!IsIo, SW!UndertowKey
<1> QED BY <1>1, SegmentById

LEMMA StoreKeeps ==
  ASSUME SW!PlacesInv, NEW c \in Call, StepOf(c), SW!StoreUndertow(c)
  PROVE  SoundInv'
<1>0. SW!TypeOK /\ SW!CallsSound /\ SW!CacheSound /\ SW!DeliveredSound /\ SW!OnePlace
  BY DEF SW!PlacesInv
<1> DEFINE s == segment[c]
           key == SW!UndertowKey(s)
<1>1. /\ stage[c] = "store" /\ sent' = sent /\ delivered' = delivered /\ failed' = failed
      /\ \/ /\ SW!IsIo(s) /\ stage'[c] = "idle"
            /\ ioTraceMap' = SW!With(ioTraceMap, key, ptd[c]) /\ routeUrlMap' = routeUrlMap
         \/ /\ SW!IsTask(s) /\ stage'[c] = "consume" /\ segment' = segment /\ ptd' = ptd
            /\ routeUrlMap' = SW!With(routeUrlMap, key, SW!RouteUrl(s)) /\ ioTraceMap' = ioTraceMap
  BY <1>0, StoreCases
<1>2. s \in Segment /\ s \in sent
  BY <1>0, <1>1, OwnSegment
<1>3. SW!Sound(ptd[c]) /\ SW!Only(ptd[c], s) /\ \A t \in Segment : SW!Carries(c, t) <=> SW!Holds(ptd[c], t)
  BY <1>0, <1>1 DEF SW!CallsSound, SW!Carries
<1> HIDE DEF s, key
<1>4. SW!DeliveredSound'
  BY <1>0, <1>1 DEF SW!DeliveredSound
<1>5. SW!CallsSound'
  BY <1>0, <1>1, <1>3, OneCallSound
<1>6. CASE /\ SW!IsTask(s) /\ stage'[c] = "consume" /\ segment' = segment /\ ptd' = ptd
           /\ routeUrlMap' = SW!With(routeUrlMap, key, SW!RouteUrl(s)) /\ ioTraceMap' = ioTraceMap
  <2>1. \A t \in Segment : SW!Carries(c, t)' <=> SW!Carries(c, t)
    BY <1>3, <1>6 DEF SW!Carries
  <2>2. SW!OnePlace'
    BY <1>0, <1>1, <1>6, <2>1, NothingMoves
  <2>3. ASSUME NEW k \in DOMAIN routeUrlMap'
        PROVE  \E t \in Segment : SW!IsTask(t) /\ SW!UndertowKey(t) = k /\ routeUrlMap'[k] = SW!RouteUrl(t)
    <3>1. DOMAIN SW!With(routeUrlMap, key, SW!RouteUrl(s)) = DOMAIN routeUrlMap \cup {key}
      BY DEF SW!With
    <3>2. SW!With(routeUrlMap, key, SW!RouteUrl(s))[key] = SW!RouteUrl(s)
      BY DEF SW!With
    <3>3. \A l \in DOMAIN routeUrlMap \ {key} :
            SW!With(routeUrlMap, key, SW!RouteUrl(s))[l] = routeUrlMap[l]
      BY DEF SW!With
    <3>4. CASE k = key
      BY <1>2, <1>6, <3>2, <3>4 DEF key
    <3>5. CASE k # key
      <4>1. k \in DOMAIN routeUrlMap /\ routeUrlMap'[k] = routeUrlMap[k]
        BY <1>6, <3>1, <3>3, <3>5
      <4> QED BY <1>0, <4>1 DEF SW!CacheSound
    <3> QED BY <3>4, <3>5
  <2>4. SW!CacheSound'
    BY <1>0, <1>6, <2>3 DEF SW!CacheSound
  <2> QED BY <1>4, <1>5, <2>2, <2>4 DEF SoundInv
<1>7. CASE /\ SW!IsIo(s) /\ stage'[c] = "idle"
           /\ ioTraceMap' = SW!With(ioTraceMap, key, ptd[c]) /\ routeUrlMap' = routeUrlMap
  <2>1. \A t \in Segment : SW!Carries(c, t) <=> t = s
    BY <1>2, <1>3, HoldsOwn
  <2>2. \A t \in Segment : ~SW!Carries(c, t)'
    BY <1>7 DEF SW!Carries
  <2>3. /\ OneKind(SW!Callers(s), SW!Keys(s), SW!Deliveries(s), s \in failed)
        /\ c \in SW!Callers(s)
    <3>1. OneKind(SW!Callers(s), SW!Keys(s), SW!Deliveries(s), s \in failed)
      BY <1>0, <1>2, PlacesByKind
    <3>2. c \in SW!Callers(s)
      BY <1>2, <2>1 DEF SW!Callers
    <3> QED BY <3>1, <3>2
  <2>4. SW!Keys(s) = {} /\ OneKind(SW!Callers(s) \ {c}, SW!Keys(s) \cup {key}, SW!Deliveries(s), s \in failed)
    <3>1. SW!Callers(s) \ {c} = {} /\ SW!Keys(s) = {} /\ SW!Deliveries(s) = {} /\ s \notin failed
      BY <2>3 DEF OneKind
    <3> QED BY <3>1, ToOneKind, Zenon
  <2>5. key \notin DOMAIN ioTraceMap
    <3> SUFFICES ASSUME key \in DOMAIN ioTraceMap PROVE FALSE
      OBVIOUS
    <3>1. PICK t \in Segment : /\ SW!IsIo(t) /\ SW!UndertowKey(t) = key
                               /\ SW!Sound(ioTraceMap[key]) /\ SW!Only(ioTraceMap[key], t)
      BY <1>0 DEF SW!CacheSound
    <3>2. t = s
      BY <1>2, <1>7, <3>1, IoKey DEF key
    <3>3. SW!Holds(ioTraceMap[key], s)
      BY <1>2, <3>1, <3>2, HoldsOwn
    <3>4. key \in SW!Keys(s)
      BY <3>3 DEF SW!Keys
    <3> QED BY <2>4, <3>4
  <2>6. /\ DOMAIN ioTraceMap' = DOMAIN ioTraceMap \cup {key} /\ ioTraceMap'[key] = ptd[c]
        /\ \A k \in DOMAIN ioTraceMap : ioTraceMap'[k] = ioTraceMap[k]
    <3>1. DOMAIN SW!With(ioTraceMap, key, ptd[c]) = DOMAIN ioTraceMap \cup {key}
      BY DEF SW!With
    <3>2. SW!With(ioTraceMap, key, ptd[c])[key] = ptd[c]
      BY DEF SW!With
    <3>3. \A k \in DOMAIN ioTraceMap \ {key} : SW!With(ioTraceMap, key, ptd[c])[k] = ioTraceMap[k]
      BY DEF SW!With
    <3> QED BY <1>7, <2>5, <3>1, <3>2, <3>3
  <2>7. SW!CacheSound'
    <3>1. ASSUME NEW k \in DOMAIN ioTraceMap'
          PROVE  /\ SW!Sound(ioTraceMap'[k])
                 /\ \E t \in Segment : SW!IsIo(t) /\ SW!UndertowKey(t) = k /\ SW!Only(ioTraceMap'[k], t)
      <4>1. CASE k = key
        BY <1>2, <1>3, <1>7, <2>6, <4>1 DEF key
      <4>2. CASE k # key
        <5>1. k \in DOMAIN ioTraceMap /\ ioTraceMap'[k] = ioTraceMap[k]
          BY <2>6, <4>2
        <5> QED BY <1>0, <5>1 DEF SW!CacheSound
      <4> QED BY <4>1, <4>2
    <3> QED BY <1>0, <1>7, <3>1 DEF SW!CacheSound
  <2>8. ASSUME NEW t \in Segment
        PROVE  IF t \in sent' THEN OneKind(SW!Callers(t)', SW!Keys(t)', SW!Deliveries(t)', t \in failed')
                              ELSE NoKind(SW!Callers(t)', SW!Keys(t)', SW!Deliveries(t)', t \in failed')
    <3>1. SW!Deliveries(t)' = SW!Deliveries(t)
      BY <1>1 DEF SW!Deliveries
    <3>2. CASE t = s
      <4>1. SW!Callers(t)' = SW!Callers(t) \ {c}
        BY <2>2, OtherCalls
      <4>2. SW!Holds(ptd[c], t)
        BY <1>3, <2>1, <3>2
      <4>3. SW!Keys(t)' = SW!Keys(t) \cup {key}
        BY <2>6, <4>2 DEF SW!Keys
      <4> QED BY <1>1, <1>2, <2>4, <3>1, <3>2, <4>1, <4>3
    <3>3. CASE t # s
      <4>1. SW!Callers(t)' = SW!Callers(t)
        BY <2>1, <2>2, <3>3, OtherCalls
      <4>2. ~SW!Holds(ptd[c], t)
        BY <1>3, <2>1, <3>3
      <4>3. SW!Keys(t)' = SW!Keys(t)
        BY <2>5, <2>6, <4>2 DEF SW!Keys
      <4> QED BY <1>0, <1>1, <3>1, <4>1, <4>3, PlacesByKind
    <3> QED BY <3>2, <3>3
  <2>9. SW!OnePlace'
    BY <2>8, PlacesByKind, Zenon
  <2> QED BY <1>4, <1>5, <2>7, <2>9 DEF SoundInv
<1> QED BY <1>1, <1>6, <1>7

LEMMA ConsumeKeeps ==
  ASSUME SW!PlacesInv, NEW c \in Call, StepOf(c), NEW ok \in BOOLEAN, SW!Consume(c, ok)
  PROVE  SoundInv'
<1>0. SW!TypeOK /\ SW!CallsSound /\ SW!CacheSound /\ SW!DeliveredSound /\ SW!OnePlace
  BY DEF SW!PlacesInv
<1>1. /\ stage[c] = "consume" /\ stage'[c] = "idle"
      /\ sent' = sent /\ ioTraceMap' = ioTraceMap /\ routeUrlMap' = routeUrlMap
  BY <1>0 DEF SW!Consume, SW!cacheVars, SW!TypeOK
<1>2. \/ delivered' = Append(delivered, ptd[c]) /\ failed' = failed
      \/ delivered' = delivered /\ failed' = failed \cup {s \in sent : SW!Holds(ptd[c], s)}
  BY DEF SW!Consume
<1>3. SW!Sound(ptd[c]) /\ \A t \in Segment : SW!Carries(c, t) <=> SW!Holds(ptd[c], t)
  BY <1>0, <1>1 DEF SW!CallsSound, SW!Carries
<1>4. SW!CallsSound'
  BY <1>0, <1>1, OneCallSound
<1>5. SW!CacheSound'
  BY <1>0, <1>1 DEF SW!CacheSound
<1>6. ASSUME NEW t \in Segment
      PROVE  /\ SW!Callers(t)' = SW!Callers(t) \ {c} /\ SW!Keys(t)' = SW!Keys(t)
             /\ ~SW!Carries(c, t) => SW!Callers(t)' = SW!Callers(t)
  <2>1. ~SW!Carries(c, t)'
    BY <1>1 DEF SW!Carries
  <2>2. SW!Keys(t)' = SW!Keys(t)
    BY <1>1 DEF SW!Keys
  <2> QED BY <2>1, <2>2, OtherCalls
<1>7. ASSUME NEW t \in Segment, SW!Carries(c, t)
      PROVE  /\ t \in sent /\ t \notin failed
             /\ SW!Callers(t) \ {c} = {} /\ SW!Keys(t) = {} /\ SW!Deliveries(t) = {}
  <2>1. c \in SW!Callers(t)
    BY <1>7 DEF SW!Callers
  <2>2. t \in sent
    <3>1. ASSUME t \notin sent PROVE NoKind(SW!Callers(t), SW!Keys(t), SW!Deliveries(t), t \in failed)
      BY <1>0, <3>1, PlacesByKind
    <3>2. ASSUME t \notin sent PROVE FALSE
      BY <2>1, <3>1, <3>2, Zenon DEF NoKind
    <3> QED BY <3>2
  <2>3. OneKind(SW!Callers(t), SW!Keys(t), SW!Deliveries(t), t \in failed)
    BY <1>0, <2>2, PlacesByKind
  <2> QED BY <2>1, <2>2, <2>3 DEF OneKind
<1>8. CASE delivered' = Append(delivered, ptd[c]) /\ failed' = failed
  <2> DEFINE n == Len(delivered) + 1
  <2>1. IsSequence(delivered)
    BY <1>0 DEF SW!TypeOK, IsSequence
  <2>2. /\ n \notin DOMAIN delivered /\ DOMAIN delivered' = DOMAIN delivered \cup {n}
        /\ \A i \in DOMAIN delivered : delivered'[i] = delivered[i]
        /\ delivered'[n] = ptd[c]
    <3>1. ASSUME NEW r, r = Append(delivered, ptd[c])
          PROVE  /\ n \notin DOMAIN delivered /\ DOMAIN r = DOMAIN delivered \cup {n}
                 /\ \A i \in DOMAIN delivered : r[i] = delivered[i]
                 /\ r[n] = ptd[c]
      BY <2>1, <3>1, OneMoreDelivered
    <3> QED BY <1>8, <3>1, Zenon
  <2> HIDE DEF n
  <2>3. SW!DeliveredSound'
    BY <1>0, <1>3, <2>2 DEF SW!DeliveredSound
  <2>4. ASSUME NEW t \in Segment
        PROVE  IF t \in sent' THEN OneKind(SW!Callers(t)', SW!Keys(t)', SW!Deliveries(t)', t \in failed')
                              ELSE NoKind(SW!Callers(t)', SW!Keys(t)', SW!Deliveries(t)', t \in failed')
    <3>1. CASE SW!Carries(c, t)
      <4>1. SW!Deliveries(t)' = SW!Deliveries(t) \cup {n}
        BY <1>3, <2>2, <3>1 DEF SW!Deliveries
      <4>2. OneKind(SW!Callers(t) \ {c}, SW!Keys(t), SW!Deliveries(t) \cup {n}, t \in failed)
        BY <1>7, <3>1, ToOneKind, Zenon
      <4> QED BY <1>1, <1>6, <1>7, <1>8, <3>1, <4>1, <4>2
    <3>2. CASE ~SW!Carries(c, t)
      <4>1. SW!Deliveries(t)' = SW!Deliveries(t)
        BY <1>3, <2>2, <3>2 DEF SW!Deliveries
      <4> QED BY <1>0, <1>1, <1>6, <1>8, <3>2, <4>1, PlacesByKind
    <3> QED BY <3>1, <3>2
  <2>5. SW!OnePlace'
    BY <2>4, PlacesByKind, Zenon
  <2> QED BY <1>4, <1>5, <2>3, <2>5 DEF SoundInv
<1>9. CASE delivered' = delivered /\ failed' = failed \cup {s \in sent : SW!Holds(ptd[c], s)}
  <2>1. SW!DeliveredSound'
    BY <1>0, <1>9 DEF SW!DeliveredSound
  <2>2. ASSUME NEW t \in Segment
        PROVE  IF t \in sent' THEN OneKind(SW!Callers(t)', SW!Keys(t)', SW!Deliveries(t)', t \in failed')
                              ELSE NoKind(SW!Callers(t)', SW!Keys(t)', SW!Deliveries(t)', t \in failed')
    <3>1. SW!Deliveries(t)' = SW!Deliveries(t)
      BY <1>9 DEF SW!Deliveries
    <3>2. CASE SW!Carries(c, t)
      <4>1. t \in failed'
        BY <1>3, <1>7, <1>9, <3>2
      <4>2. SW!Callers(t)' = {} /\ SW!Keys(t)' = {} /\ SW!Deliveries(t)' = {}
        BY <1>6, <1>7, <3>1, <3>2
      <4>3. OneKind(SW!Callers(t)', SW!Keys(t)', SW!Deliveries(t)', t \in failed')
        BY <4>1, <4>2, ToOneKind, Zenon
      <4> QED BY <1>1, <1>7, <3>2, <4>3
    <3>3. CASE ~SW!Carries(c, t)
      <4>1. (t \in failed') = (t \in failed)
        BY <1>3, <1>9, <3>3
      <4>2. SW!Callers(t)' = SW!Callers(t) /\ SW!Keys(t)' = SW!Keys(t)
        BY <1>6, <3>3
      <4>3. IF t \in sent THEN OneKind(SW!Callers(t), SW!Keys(t), SW!Deliveries(t), t \in failed)
            ELSE NoKind(SW!Callers(t), SW!Keys(t), SW!Deliveries(t), t \in failed)
        BY <1>0, PlacesByKind
      <4> QED BY <1>1, <3>1, <4>1, <4>2, <4>3, Zenon DEF OneKind, NoKind
    <3> QED BY <3>2, <3>3
  <2>3. SW!OnePlace'
    BY <2>2, PlacesByKind, Zenon
  <2> QED BY <1>4, <1>5, <2>1, <2>3 DEF SoundInv
<1> QED BY <1>2, <1>8, <1>9

\* The initial state.
LEMMA PlacesInitially ==
  ASSUME SW!Init PROVE SW!TraceInv
<1>1. SW!TypeOK
  <2>1. <<>> \in Seq({<<>>[i] : i \in DOMAIN <<>>})
    OBVIOUS
  <2> QED BY <2>1 DEF SW!Init, SW!TypeOK
<1>2. SW!CallsSound /\ SW!CacheSound /\ SW!DeliveredSound
  BY DEF SW!Init, SW!CallsSound, SW!CacheSound, SW!DeliveredSound
<1>3. SW!OnePlace
  <2>1. ASSUME NEW t \in Segment
        PROVE  SW!Callers(t) = {} /\ SW!Keys(t) = {} /\ SW!Deliveries(t) = {} /\ t \notin failed /\ t \notin sent
    BY DEF SW!Init, SW!Callers, SW!Carries, SW!Keys, SW!Deliveries
  <2>2. ASSUME NEW t \in Segment
        PROVE  NoKind(SW!Callers(t), SW!Keys(t), SW!Deliveries(t), t \in failed)
    BY <2>1, Zenon DEF NoKind
  <2> QED BY <2>1, <2>2, PlacesByKind, Zenon
<1>4. SW!TasksWait /\ SW!IosWait
  BY DEF SW!Init, SW!TasksWait, SW!IosWait, SW!Looked
<1> QED BY <1>1, <1>2, <1>3, <1>4 DEF SW!TraceInv, SW!PlacesInv

\* Each step keeps PlacesInv.
LEMMA PlacesStep ==
  ASSUME SW!PlacesInv, NEW c \in Call,
         \/ \E s \in Segment : SW!Receive(c, s)
         \/ SW!StartFill(c) \/ SW!EndFill(c) \/ SW!ConvertSegment(c) \/ SW!ConcurrentMapUse(c)
         \/ SW!CheckUndertow(c) \/ SW!StoreUndertow(c)
         \/ \E ok \in BOOLEAN : SW!Consume(c, ok)
  PROVE  SW!PlacesInv'
<1>1. StepOf(c) /\ SW!TypeOK'
  BY StepsOfCalls, Zenon DEF SW!PlacesInv
<1>2. SoundInv'
  BY <1>1, ReceiveKeeps, ConvertKeeps, CheckKeeps, StoreKeeps, ConsumeKeeps, Zenon
<1> QED BY <1>1, <1>2 DEF SW!PlacesInv, SoundInv

-----------------------------------------------------------------------------
(***************************************************************************)
(* SkywalkingTrace: the halves of a pair wait for each other.              *)
(***************************************************************************)

\* The halves of a pair are those of the key.
LEMMA PairKeys ==
  ASSUME NEW io \in Segment, NEW task \in Segment
  PROVE  SW!Pair(io, task) <=> SW!IsIo(io) /\ SW!IsTask(task) /\ SW!UndertowKey(io) = SW!UndertowKey(task)
<1>1. SW!IsIo(io) => SW!UndertowKey(io) = <<io.trace, io.id>>
  BY DEF SW!IsIo, SW!UndertowKey
<1>2. SW!IsTask(task) => SW!UndertowKey(task) = <<task.trace, SW!ParentSegment(task)>>
  BY DEF SW!IsTask, SW!UndertowKey
<1> QED BY <1>1, <1>2 DEF SW!Pair

\* I/O segments and tasks are different.
LEMMA IoNotTask ==
  ASSUME NEW s, SW!IsIo(s) PROVE ~SW!IsTask(s)
BY DEF SW!IsIo, SW!IsTask

\* Until a call consumes it carries its own segment, which no other call carries.
LEMMA CarriesOwn ==
  ASSUME SW!PlacesInv, NEW c \in Call, stage[c] \in {"convert", "fill", "load", "store"}
  PROVE  SW!Carries(c, segment[c]) /\ \A d \in Call : SW!Carries(d, segment[c]) => d = c
<1>0. SW!TypeOK /\ SW!CallsSound /\ SW!OnePlace
  BY DEF SW!PlacesInv
<1>1. segment[c] \in Segment /\ segment[c] \in sent
  BY <1>0, OwnSegment
<1>2. SW!Carries(c, segment[c])
  <2>1. CASE stage[c] \in {"convert", "fill"}
    BY <2>1 DEF SW!Carries
  <2>2. CASE stage[c] \in {"load", "store"}
    <3>1. SW!Sound(ptd[c]) /\ SW!Only(ptd[c], segment[c])
      BY <1>0, <2>2 DEF SW!CallsSound
    <3> QED BY <1>1, <2>2, <3>1, HoldsOwn DEF SW!Carries
  <2> QED BY <2>1, <2>2
<1>3. OneKind(SW!Callers(segment[c]), SW!Keys(segment[c]), SW!Deliveries(segment[c]), segment[c] \in failed)
  BY <1>0, <1>1, PlacesByKind
<1>4. c \in SW!Callers(segment[c])
  BY <1>2 DEF SW!Callers
<1>5. SW!Callers(segment[c]) = {c}
  BY <1>3, <1>4, Zenon DEF OneKind
<1> QED BY <1>2, <1>5 DEF SW!Callers

\* A step leaves Looked and Stores alone unless it changes them for the segment of
\* its call.
LEMMA LookedSame ==
  ASSUME NEW c \in Call, StepOf(c), NEW t \in Segment, t \in sent' <=> t \in sent,
         (segment[c] = t => stage[c] \in {"store", "consume"}) <=>
           (segment'[c] = t => stage'[c] \in {"store", "consume"})
  PROVE  SW!Looked(t)' <=> SW!Looked(t)
<1>1. (\A d \in Call : segment[d] = t => stage[d] \in {"store", "consume"}) <=>
        (\A d \in Call : segment'[d] = t => stage'[d] \in {"store", "consume"})
  BY DEF StepOf
<1> QED BY <1>1 DEF SW!Looked

LEMMA StoresSame ==
  ASSUME NEW c \in Call, StepOf(c), NEW t \in Segment,
         (segment[c] = t /\ stage[c] = "store") <=> (segment'[c] = t /\ stage'[c] = "store")
  PROVE  SW!Stores(t)' <=> SW!Stores(t)
<1>1. (\E d \in Call : segment[d] = t /\ stage[d] = "store") <=>
        (\E d \in Call : segment'[d] = t /\ stage'[d] = "store")
  BY DEF StepOf
<1> QED BY <1>1 DEF SW!Stores

\* What is settled stays so until its call consumes.
LEMMA SettledStays ==
  ASSUME NEW c \in Call, StepOf(c), stage[c] # "consume", failed' = failed, delivered' = delivered,
         NEW io \in Segment, SW!Settled(io)
  PROVE  SW!Settled(io)'
<1>1. (\E d \in Call : stage[d] = "consume" /\ SW!HasRoute(ptd[d], io)) =>
        \E d \in Call : stage'[d] = "consume" /\ SW!HasRoute(ptd'[d], io)
  BY DEF StepOf
<1> QED BY <1>1 DEF SW!Settled

\* Nothing changes that a pair waits for.
LEMMA WaitsSame ==
  ASSUME SW!TasksWait, SW!IosWait,
         \A t \in Segment : (SW!Looked(t)' <=> SW!Looked(t)) /\ (SW!Stores(t)' <=> SW!Stores(t)),
         \A t \in Segment : SW!Looked(t) /\ SW!Settled(t) => SW!Settled(t)',
         ioTraceMap' = ioTraceMap, routeUrlMap' = routeUrlMap, missed' = missed
  PROVE  SW!TasksWait' /\ SW!IosWait'
<1>1. SW!TasksWait'
  BY DEF SW!TasksWait
<1>2. SW!IosWait'
  BY DEF SW!IosWait
<1> QED BY <1>1, <1>2

LEMMA EarlySteps ==
  ASSUME SW!TraceInv, NEW c \in Call, StepOf(c),
         \/ \E s \in Segment : SW!Receive(c, s)
         \/ SW!StartFill(c) \/ SW!EndFill(c) \/ SW!ConvertSegment(c) \/ SW!ConcurrentMapUse(c)
  PROVE  SW!TasksWait' /\ SW!IosWait'
<1>0. SW!TypeOK /\ SW!TasksWait /\ SW!IosWait
  BY DEF SW!TraceInv, SW!PlacesInv
<1>1. /\ stage[c] \in {"idle", "convert", "fill"} /\ stage'[c] \in {"convert", "fill", "load"}
      /\ ioTraceMap' = ioTraceMap /\ routeUrlMap' = routeUrlMap /\ missed' = missed
      /\ failed' = failed /\ delivered' = delivered
  BY <1>0 DEF SW!Receive, SW!StartFill, SW!EndFill, SW!ConvertSegment, SW!ConcurrentMapUse, SW!cacheVars,
              SW!callVars, SW!TypeOK
<1>2. ASSUME NEW t \in Segment
      PROVE  (SW!Looked(t)' <=> SW!Looked(t)) /\ (SW!Stores(t)' <=> SW!Stores(t))
  <2>1. SW!Stores(t)' <=> SW!Stores(t)
    BY <1>1, StoresSame
  <2>2. SW!Looked(t)' <=> SW!Looked(t)
    <3>1. CASE segment' = segment /\ sent' = sent /\ stage[c] # "idle"
      BY <1>1, <3>1, LookedSame
    <3>2. ASSUME NEW s \in Segment, SW!Receive(c, s)
          PROVE  SW!Looked(t)' <=> SW!Looked(t)
      <4>1. s \notin sent /\ sent' = sent \cup {s} /\ segment'[c] = s /\ segment[c] # t
        BY <1>0, <3>2, SegmentsAssumption DEF SW!Receive, SW!TypeOK, SW!Configured
      <4>2. CASE t = s
        <5>1. ~SW!Looked(t)
          BY <4>1, <4>2 DEF SW!Looked
        <5>2. ~SW!Looked(t)'
          BY <1>1, <4>1, <4>2 DEF SW!Looked
        <5> QED BY <5>1, <5>2
      <4>3. CASE t # s
        BY <4>1, <4>3, LookedSame
      <4> QED BY <4>2, <4>3
    <3> QED BY <3>1, <3>2 DEF SW!StartFill, SW!EndFill, SW!ConvertSegment, SW!ConcurrentMapUse, SW!callVars
  <2> QED BY <2>1, <2>2
<1>3. \A t \in Segment : SW!Looked(t) /\ SW!Settled(t) => SW!Settled(t)'
  BY <1>1, SettledStays
<1> QED BY <1>0, <1>1, <1>2, <1>3, WaitsSame

LEMMA ConsumeWaits ==
  ASSUME SW!TraceInv, NEW c \in Call, StepOf(c), NEW ok \in BOOLEAN, SW!Consume(c, ok)
  PROVE  SW!TasksWait' /\ SW!IosWait'
<1>0. SW!TypeOK /\ SW!TasksWait /\ SW!IosWait
  BY DEF SW!TraceInv, SW!PlacesInv
<1>1. /\ stage[c] = "consume" /\ stage'[c] = "idle" /\ segment'[c] = NoOne
      /\ sent' = sent /\ ioTraceMap' = ioTraceMap /\ routeUrlMap' = routeUrlMap /\ missed' = missed
  BY <1>0 DEF SW!Consume, SW!cacheVars, SW!TypeOK
<1>2. \/ delivered' = Append(delivered, ptd[c]) /\ failed' = failed
      \/ delivered' = delivered /\ failed' = failed \cup {s \in sent : SW!Holds(ptd[c], s)}
  BY DEF SW!Consume
<1>3. NoOne \notin Segment
  BY SegmentsAssumption DEF SW!Configured
<1>4. \A t \in Segment : SW!Looked(t)' <=> SW!Looked(t)
  BY <1>1, <1>3, LookedSame
<1>5. \A t \in Segment : SW!Stores(t)' <=> SW!Stores(t)
  BY <1>1, <1>3, StoresSame
<1>6. /\ \A i \in DOMAIN delivered : i \in DOMAIN delivered' /\ delivered'[i] = delivered[i]
      /\ \/ \E i \in DOMAIN delivered' : delivered'[i] = ptd[c]
         \/ failed' = failed \cup {s \in sent : SW!Holds(ptd[c], s)}
  <2>1. IsSequence(delivered)
    BY <1>0 DEF SW!TypeOK, IsSequence
  <2>2. ASSUME NEW r, r = Append(delivered, ptd[c])
        PROVE  /\ \A i \in DOMAIN delivered : i \in DOMAIN r /\ r[i] = delivered[i]
               /\ \E i \in DOMAIN r : r[i] = ptd[c]
    <3>1. /\ DOMAIN r = DOMAIN delivered \cup {Len(delivered) + 1}
          /\ \A i \in DOMAIN delivered : r[i] = delivered[i]
          /\ r[Len(delivered) + 1] = ptd[c]
      BY <2>1, <2>2, OneMoreDelivered
    <3> QED BY <3>1
  <2>3. CASE delivered' = Append(delivered, ptd[c])
    BY <2>2, <2>3, Zenon
  <2>4. CASE delivered' = delivered /\ failed' = failed \cup {s \in sent : SW!Holds(ptd[c], s)}
    BY <2>4
  <2> QED BY <1>2, <2>3, <2>4
<1>7. ASSUME NEW t \in Segment, SW!Looked(t), SW!Settled(t) PROVE SW!Settled(t)'
  <2>1. CASE t \in failed
    BY <1>2, <2>1 DEF SW!Settled
  <2>2. ASSUME NEW d \in Call, stage[d] = "consume", SW!HasRoute(ptd[d], t), d # c PROVE SW!Settled(t)'
    BY <2>2 DEF SW!Settled, StepOf
  <2>3. ASSUME SW!HasRoute(ptd[c], t) PROVE SW!Settled(t)'
    <3>1. SW!Holds(ptd[c], t) /\ t \in sent
      BY <1>7, <2>3 DEF SW!HasRoute, SW!Holds, SW!Looked
    <3> QED BY <1>6, <2>3, <3>1 DEF SW!Settled
  <2>4. ASSUME NEW i \in DOMAIN delivered, SW!HasRoute(delivered[i], t) PROVE SW!Settled(t)'
    BY <1>6, <2>4 DEF SW!Settled
  <2> QED BY <1>7, <2>1, <2>2, <2>3, <2>4 DEF SW!Settled
<1> QED BY <1>0, <1>1, <1>4, <1>5, <1>7, WaitsSame

LEMMA StoreWaits ==
  ASSUME SW!TraceInv, NEW c \in Call, StepOf(c), SW!StoreUndertow(c)
  PROVE  SW!TasksWait' /\ SW!IosWait'
<1>0. SW!TypeOK /\ SW!CallsSound /\ SW!TasksWait /\ SW!IosWait
  BY DEF SW!TraceInv, SW!PlacesInv
<1> SUFFICES ASSUME NEW s, s = segment[c], NEW key, key = SW!UndertowKey(s)
             PROVE  SW!TasksWait' /\ SW!IosWait'
  OBVIOUS
<1>1. /\ stage[c] = "store" /\ sent' = sent /\ delivered' = delivered /\ failed' = failed
      /\ missed \subseteq missed'
      /\ (\E d \in Call \ {c} : stage[d] = "store" /\ SW!UndertowKey(segment[d]) = key) => key \in missed'
      /\ \/ /\ SW!IsIo(s) /\ stage'[c] = "idle" /\ segment'[c] = NoOne
            /\ ioTraceMap' = SW!With(ioTraceMap, key, ptd[c]) /\ routeUrlMap' = routeUrlMap
         \/ /\ SW!IsTask(s) /\ stage'[c] = "consume" /\ segment' = segment /\ ptd' = ptd
            /\ routeUrlMap' = SW!With(routeUrlMap, key, SW!RouteUrl(s)) /\ ioTraceMap' = ioTraceMap
  BY <1>0, StoreCases
<1>2. s \in Segment /\ NoOne \notin Segment
  BY <1>0, <1>1, OwnSegment, SegmentsAssumption DEF SW!Configured
<1>3. \A t \in Segment : SW!Looked(t)' <=> SW!Looked(t)
  <2>1. ASSUME NEW t \in Segment PROVE SW!Looked(t)' <=> SW!Looked(t)
    <3>1. (segment[c] = t => stage[c] \in {"store", "consume"}) <=>
            (segment'[c] = t => stage'[c] \in {"store", "consume"})
      BY <1>1, <1>2
    <3> QED BY <1>1, <3>1, LookedSame
  <2> QED BY <2>1
<1>4. \A t \in Segment \ {s} : SW!Stores(t)' <=> SW!Stores(t)
  <2>1. ASSUME NEW t \in Segment, t # s PROVE SW!Stores(t)' <=> SW!Stores(t)
    <3>1. segment[c] # t /\ segment'[c] # t
      BY <1>1, <1>2, <2>1
    <3> QED BY <3>1, StoresSame
  <2> QED BY <2>1
<1>5. SW!Stores(s)
  BY <1>1 DEF SW!Stores
<1>6. \A t \in Segment : SW!Settled(t) => SW!Settled(t)'
  BY <1>1, SettledStays
<1>7. ASSUME NEW t \in Segment, SW!Stores(t), t # s, SW!UndertowKey(t) = key PROVE key \in missed'
  BY <1>1, <1>7 DEF SW!Stores
<1>8. CASE /\ SW!IsIo(s) /\ stage'[c] = "idle"
           /\ ioTraceMap' = SW!With(ioTraceMap, key, ptd[c]) /\ routeUrlMap' = routeUrlMap
  <2>1. DOMAIN ioTraceMap' = DOMAIN ioTraceMap \cup {key}
    BY <1>8 DEF SW!With
  <2>2. ASSUME NEW io \in Segment, NEW task \in Segment, SW!Pair(io, task), SW!Looked(task)'
        PROVE  /\ ~SW!Looked(io)' => SW!Stores(task)' \/ SW!UndertowKey(io) \in DOMAIN routeUrlMap'
               /\ SW!Stores(io)' => SW!Stores(task)' \/ SW!UndertowKey(io) \in missed'
               /\ SW!UndertowKey(io) \in DOMAIN ioTraceMap' => SW!UndertowKey(io) \in missed'
    <3>1. SW!IsIo(io) /\ SW!IsTask(task) /\ SW!UndertowKey(io) = SW!UndertowKey(task)
      BY <2>2, PairKeys
    <3>2. task # s /\ (SW!Stores(task)' <=> SW!Stores(task))
      BY <1>4, <1>8, <3>1, IoNotTask
    <3>3. /\ ~SW!Looked(io) => SW!Stores(task) \/ SW!UndertowKey(io) \in DOMAIN routeUrlMap
          /\ SW!Stores(io) => SW!Stores(task) \/ SW!UndertowKey(io) \in missed
          /\ SW!UndertowKey(io) \in DOMAIN ioTraceMap => SW!UndertowKey(io) \in missed
      BY <1>0, <1>3, <2>2 DEF SW!TasksWait
    <3>4. SW!Stores(io)' => SW!Stores(io)
      BY <1>4, <1>5
    <3>5. SW!UndertowKey(io) = key => io = s
      BY <1>2, <1>8, <3>1, IoKey
    <3>6. SW!UndertowKey(io) = key => key \in missed'
      BY <1>1, <1>5, <1>7, <3>1, <3>2, <3>3, <3>5
    <3> QED BY <1>1, <1>3, <1>8, <2>1, <3>2, <3>3, <3>4, <3>6
  <2>3. SW!TasksWait'
    BY <2>2 DEF SW!TasksWait
  <2>4. ASSUME NEW io \in Segment, SW!IsIo(io), SW!Looked(io)'
        PROVE  SW!Stores(io)' \/ SW!UndertowKey(io) \in DOMAIN ioTraceMap' \/ SW!Settled(io)'
    <3>1. SW!Stores(io) \/ SW!UndertowKey(io) \in DOMAIN ioTraceMap \/ SW!Settled(io)
      BY <1>0, <1>3, <2>4 DEF SW!IosWait
    <3> QED BY <1>4, <1>6, <2>1, <3>1
  <2>5. SW!IosWait'
    BY <2>4 DEF SW!IosWait
  <2> QED BY <2>3, <2>5
<1>9. CASE /\ SW!IsTask(s) /\ stage'[c] = "consume"
           /\ routeUrlMap' = SW!With(routeUrlMap, key, SW!RouteUrl(s)) /\ ioTraceMap' = ioTraceMap
  <2>1. DOMAIN routeUrlMap' = DOMAIN routeUrlMap \cup {key}
    BY <1>9 DEF SW!With
  <2>2. ASSUME NEW io \in Segment, NEW task \in Segment, SW!Pair(io, task), SW!Looked(task)'
        PROVE  /\ ~SW!Looked(io)' => SW!Stores(task)' \/ SW!UndertowKey(io) \in DOMAIN routeUrlMap'
               /\ SW!Stores(io)' => SW!Stores(task)' \/ SW!UndertowKey(io) \in missed'
               /\ SW!UndertowKey(io) \in DOMAIN ioTraceMap' => SW!UndertowKey(io) \in missed'
    <3>1. SW!IsIo(io) /\ SW!IsTask(task) /\ SW!UndertowKey(io) = SW!UndertowKey(task)
      BY <2>2, PairKeys
    <3>2. io # s /\ (SW!Stores(io)' <=> SW!Stores(io))
      BY <1>4, <1>9, <3>1, IoNotTask
    <3>3. /\ ~SW!Looked(io) => SW!Stores(task) \/ SW!UndertowKey(io) \in DOMAIN routeUrlMap
          /\ SW!Stores(io) => SW!Stores(task) \/ SW!UndertowKey(io) \in missed
          /\ SW!UndertowKey(io) \in DOMAIN ioTraceMap => SW!UndertowKey(io) \in missed
      BY <1>0, <1>3, <2>2 DEF SW!TasksWait
    <3>4. CASE task = s
      BY <1>1, <1>7, <1>9, <2>1, <3>1, <3>2, <3>3, <3>4
    <3>5. CASE task # s
      BY <1>1, <1>3, <1>4, <1>9, <2>1, <3>2, <3>3, <3>5
    <3> QED BY <3>4, <3>5
  <2>3. SW!TasksWait'
    BY <2>2 DEF SW!TasksWait
  <2>4. ASSUME NEW io \in Segment, SW!IsIo(io), SW!Looked(io)'
        PROVE  SW!Stores(io)' \/ SW!UndertowKey(io) \in DOMAIN ioTraceMap' \/ SW!Settled(io)'
    <3>1. SW!Stores(io) \/ SW!UndertowKey(io) \in DOMAIN ioTraceMap \/ SW!Settled(io)
      BY <1>0, <1>3, <2>4 DEF SW!IosWait
    <3>2. io # s
      BY <1>9, <2>4, IoNotTask
    <3> QED BY <1>4, <1>6, <1>9, <3>1, <3>2
  <2>5. SW!IosWait'
    BY <2>4 DEF SW!IosWait
  <2> QED BY <2>3, <2>5
<1> QED BY <1>1, <1>8, <1>9

\* The first span of traces that hold one I/O segment only has that segment, and
\* the route once it is given its name.
LEMMA NamedHasRoute ==
  ASSUME NEW io \in Segment, NEW task \in Segment, SW!Pair(io, task), NEW tr, SW!Sound(tr), SW!Only(tr, io)
  PROVE  SW!HasRoute(SW!Named(tr, SW!RouteUrl(task)), io)
<1> DEFINE b == SW!Named(tr, SW!RouteUrl(task))
<1>1. SW!Only(b, io) /\ 1 \in DOMAIN b.spans /\ b.spans[1].name = SW!RouteUrl(task)
  BY NamedTraces
<1> HIDE DEF b
<1>2. b.spans[1].sw.segment = io.id
  BY <1>1 DEF SW!Only
<1> QED BY <1>1, <1>2 DEF SW!HasRoute, b

LEMMA CheckWaits ==
  ASSUME SW!TraceInv, NEW c \in Call, StepOf(c), SW!CheckUndertow(c)
  PROVE  SW!TasksWait' /\ SW!IosWait'
<1>0. /\ SW!PlacesInv /\ SW!TypeOK /\ SW!CallsSound /\ SW!CacheSound /\ SW!OnePlace
      /\ SW!TasksWait /\ SW!IosWait
  BY DEF SW!TraceInv, SW!PlacesInv
<1> SUFFICES ASSUME NEW s, s = segment[c], NEW key, key = SW!UndertowKey(s)
             PROVE  SW!TasksWait' /\ SW!IosWait'
  OBVIOUS
<1>1. /\ stage[c] = "load" /\ segment' = segment /\ missed' = missed
      /\ sent' = sent /\ delivered' = delivered /\ failed' = failed
      /\ \/ /\ ptd' = ptd /\ ioTraceMap' = ioTraceMap /\ routeUrlMap' = routeUrlMap
            /\ \/ ~SW!IsUndertow(s) /\ stage'[c] = "consume"
               \/ SW!IsIo(s) /\ stage'[c] = "store" /\ key \notin DOMAIN routeUrlMap
               \/ SW!IsTask(s) /\ stage'[c] = "store" /\ key \notin DOMAIN ioTraceMap
         \/ /\ SW!IsIo(s) /\ stage'[c] = "consume" /\ key \in DOMAIN routeUrlMap
            /\ ptd'[c] = SW!Named(ptd[c], routeUrlMap[key])
            /\ routeUrlMap' = SW!Without(routeUrlMap, key) /\ ioTraceMap' = ioTraceMap
         \/ /\ SW!IsTask(s) /\ stage'[c] = "consume" /\ key \in DOMAIN ioTraceMap
            /\ ptd'[c] = SW!MoveAndAppendTo(ptd[c], SW!Named(ioTraceMap[key], SW!RouteUrl(s)))
            /\ ioTraceMap' = SW!Without(ioTraceMap, key) /\ routeUrlMap' = routeUrlMap
  BY <1>0, CheckCases
<1>2. s \in Segment /\ s \in sent
  BY <1>0, <1>1, OwnSegment
<1>3. SW!Sound(ptd[c]) /\ SW!Only(ptd[c], s)
  BY <1>0, <1>1 DEF SW!CallsSound
<1>4. \A t \in Segment \ {s} : (SW!Looked(t)' <=> SW!Looked(t)) /\ (SW!Stores(t)' <=> SW!Stores(t))
  BY <1>1, LookedSame, StoresSame
<1>5. ~SW!Looked(s) /\ SW!Looked(s)'
  <2>1. ~SW!Looked(s)
    BY <1>1 DEF SW!Looked
  <2>2. ASSUME NEW d \in Call, segment'[d] = s PROVE stage'[d] \in {"store", "consume"}
    <3>1. CASE d = c
      BY <1>1, <3>1
    <3>2. CASE d # c
      <4>1. stage[d] = stage'[d] /\ segment[d] = s
        BY <1>1, <2>2, <3>2 DEF StepOf
      <4>2. stage[d] \notin {"convert", "fill", "load"}
        <5>1. SW!Carries(c, s) /\ \A e \in Call : SW!Carries(e, s) => e = c
          BY <1>0, <1>1, CarriesOwn
        <5>2. stage[d] \in {"convert", "fill", "load"} => SW!Carries(d, s)
          BY <1>0, <4>1, CarriesOwn
        <5> QED BY <3>2, <5>1, <5>2
      <4>3. stage[d] # "idle"
        BY <1>0, <1>2, <4>1, SegmentsAssumption DEF SW!TypeOK, SW!Configured
      <4> QED BY <1>0, <4>1, <4>2, <4>3 DEF SW!TypeOK
    <3> QED BY <3>1, <3>2
  <2>3. SW!Looked(s)'
    BY <1>1, <1>2, <2>2 DEF SW!Looked
  <2> QED BY <2>1, <2>3
<1>6. ~SW!Stores(s)
  <2>1. ASSUME NEW d \in Call, segment[d] = s, stage[d] = "store" PROVE FALSE
    <3>1. SW!Carries(d, s)
      BY <1>0, <2>1, CarriesOwn
    <3>2. d = c
      BY <1>0, <1>1, <3>1, CarriesOwn
    <3> QED BY <1>1, <2>1, <3>2
  <2> QED BY <2>1 DEF SW!Stores
<1>7. SW!Stores(s)' <=> stage'[c] = "store"
  BY <1>1, <1>6 DEF SW!Stores, StepOf
<1>8. \A t \in Segment : SW!Settled(t) => SW!Settled(t)'
  BY <1>1, SettledStays
<1>9. ASSUME SW!IsTask(s), key \in DOMAIN ioTraceMap
      PROVE  \E io \in Segment : /\ SW!IsIo(io) /\ SW!UndertowKey(io) = key /\ io # s
                                 /\ SW!Sound(ioTraceMap[key]) /\ SW!Only(ioTraceMap[key], io)
                                 /\ SW!Looked(io) /\ ~SW!Stores(io) /\ \A d \in Call : ~SW!Carries(d, io)
  <2>1. PICK io \in Segment : /\ SW!IsIo(io) /\ SW!UndertowKey(io) = key
                              /\ SW!Sound(ioTraceMap[key]) /\ SW!Only(ioTraceMap[key], io)
    BY <1>0, <1>9 DEF SW!CacheSound
  <2>2. key \in SW!Keys(io)
    BY <1>9, <2>1, HoldsOwn DEF SW!Keys
  <2>3. IF io \in sent THEN OneKind(SW!Callers(io), SW!Keys(io), SW!Deliveries(io), io \in failed)
                       ELSE NoKind(SW!Callers(io), SW!Keys(io), SW!Deliveries(io), io \in failed)
    BY <1>0, PlacesByKind
  <2>4. io \in sent /\ SW!Callers(io) = {}
    BY <2>2, <2>3 DEF OneKind, NoKind
  <2>5. \A d \in Call : ~SW!Carries(d, io)
    BY <2>4 DEF SW!Callers
  <2>6. ASSUME NEW d \in Call, segment[d] = io PROVE stage[d] = "consume"
    <3>1. stage[d] \notin {"convert", "fill", "load", "store"}
      BY <1>0, <2>5, <2>6, CarriesOwn
    <3>2. stage[d] # "idle"
      BY <1>0, <2>6, SegmentsAssumption DEF SW!TypeOK, SW!Configured
    <3> QED BY <1>0, <3>1, <3>2 DEF SW!TypeOK
  <2>7. SW!Looked(io) /\ ~SW!Stores(io)
    BY <2>4, <2>6 DEF SW!Looked, SW!Stores
  <2>8. io # s
    BY <1>9, <2>1, IoNotTask
  <2> QED BY <2>1, <2>5, <2>7, <2>8
<1>10. ASSUME NEW k \in DOMAIN routeUrlMap, ~ (SW!IsIo(s) /\ k = key) PROVE k \in DOMAIN routeUrlMap'
  BY <1>1, <1>10 DEF SW!Without
<1>11. DOMAIN ioTraceMap' = DOMAIN ioTraceMap \/ DOMAIN ioTraceMap' = DOMAIN ioTraceMap \ {key}
  BY <1>1 DEF SW!Without
<1>12. SW!TasksWait'
  <2> SUFFICES ASSUME NEW io \in Segment, NEW task \in Segment, SW!Pair(io, task), SW!Looked(task)'
               PROVE  /\ ~SW!Looked(io)' => SW!Stores(task)' \/ SW!UndertowKey(io) \in DOMAIN routeUrlMap'
                      /\ SW!Stores(io)' => SW!Stores(task)' \/ SW!UndertowKey(io) \in missed'
                      /\ SW!UndertowKey(io) \in DOMAIN ioTraceMap' => SW!UndertowKey(io) \in missed'
    BY DEF SW!TasksWait
  <2>1. SW!IsIo(io) /\ SW!IsTask(task) /\ SW!UndertowKey(io) = SW!UndertowKey(task)
    BY PairKeys
  <2>2. CASE task # s
    <3>1. SW!Looked(task) /\ (SW!Stores(task)' <=> SW!Stores(task))
      BY <1>4, <2>2
    <3>2. /\ ~SW!Looked(io) => SW!Stores(task) \/ SW!UndertowKey(io) \in DOMAIN routeUrlMap
          /\ SW!Stores(io) => SW!Stores(task) \/ SW!UndertowKey(io) \in missed
          /\ SW!UndertowKey(io) \in DOMAIN ioTraceMap => SW!UndertowKey(io) \in missed
      BY <1>0, <3>1 DEF SW!TasksWait
    <3>3. CASE io = s
      <4>1. SW!Stores(io)' => SW!UndertowKey(io) \notin DOMAIN routeUrlMap
        BY <1>1, <1>7, <2>1, <3>3, IoNotTask
      <4> QED BY <1>1, <1>5, <1>11, <3>1, <3>2, <3>3, <4>1
    <3>4. CASE io # s
      <4>1. (SW!Looked(io)' <=> SW!Looked(io)) /\ (SW!Stores(io)' <=> SW!Stores(io))
        BY <1>4, <3>4
      <4>2. ~ (SW!IsIo(s) /\ SW!UndertowKey(io) = key)
        BY <1>2, <2>1, <3>4, IoKey
      <4>3. SW!UndertowKey(io) \in DOMAIN routeUrlMap => SW!UndertowKey(io) \in DOMAIN routeUrlMap'
        BY <1>10, <4>2
      <4> QED BY <1>1, <1>11, <3>1, <3>2, <4>1, <4>3
    <3> QED BY <3>3, <3>4
  <2>3. CASE task = s
    <3>1. SW!UndertowKey(io) = key /\ io # s
      BY <2>1, <2>3, IoNotTask
    <3>2. CASE key \in DOMAIN ioTraceMap
      <4>1. SW!Looked(io) /\ ~SW!Stores(io)
        BY <1>9, <2>1, <2>3, <3>1, <3>2, IoKey
      <4>2. key \notin DOMAIN ioTraceMap'
        BY <1>1, <2>1, <2>3, <3>2, IoNotTask DEF SW!Without, SW!IsTask
      <4> QED BY <1>4, <3>1, <4>1, <4>2
    <3>3. CASE key \notin DOMAIN ioTraceMap
      <4>1. SW!Stores(task)'
        BY <1>1, <1>7, <2>1, <2>3, <3>3, IoNotTask DEF SW!IsTask
      <4>2. key \notin DOMAIN ioTraceMap'
        BY <1>11, <3>3
      <4> QED BY <3>1, <4>1, <4>2
    <3> QED BY <3>2, <3>3
  <2> QED BY <2>2, <2>3
<1>13. SW!IosWait'
  <2> SUFFICES ASSUME NEW io \in Segment, SW!IsIo(io), SW!Looked(io)'
               PROVE  SW!Stores(io)' \/ SW!UndertowKey(io) \in DOMAIN ioTraceMap' \/ SW!Settled(io)'
    BY DEF SW!IosWait
  <2>1. CASE io = s
    <3>1. CASE stage'[c] = "store"
      BY <1>7, <2>1, <3>1
    <3>2. CASE stage'[c] # "store"
      <4>1. /\ stage'[c] = "consume" /\ key \in DOMAIN routeUrlMap
            /\ ptd'[c] = SW!Named(ptd[c], routeUrlMap[key])
        BY <1>1, <2>1, <3>2, IoNotTask DEF SW!IsIo
      <4>2. PICK task \in Segment : /\ SW!IsTask(task) /\ SW!UndertowKey(task) = key
                                    /\ routeUrlMap[key] = SW!RouteUrl(task)
        BY <1>0, <4>1 DEF SW!CacheSound
      <4>3. SW!HasRoute(ptd'[c], io)
        <5>1. SW!Pair(io, task)
          BY <2>1, <4>2, PairKeys
        <5> QED BY <1>3, <2>1, <4>1, <4>2, <5>1, NamedHasRoute
      <4> QED BY <4>1, <4>3 DEF SW!Settled
    <3> QED BY <3>1, <3>2
  <2>2. CASE io # s
    <3>1. SW!Stores(io) \/ SW!UndertowKey(io) \in DOMAIN ioTraceMap \/ SW!Settled(io)
      BY <1>0, <1>4, <2>2 DEF SW!IosWait
    <3>2. CASE SW!UndertowKey(io) \in DOMAIN ioTraceMap /\ SW!UndertowKey(io) \notin DOMAIN ioTraceMap'
      <4>1. /\ SW!IsTask(s) /\ stage'[c] = "consume" /\ key \in DOMAIN ioTraceMap
            /\ ptd'[c] = SW!MoveAndAppendTo(ptd[c], SW!Named(ioTraceMap[key], SW!RouteUrl(s)))
        BY <1>1, <3>2
      <4>2. SW!UndertowKey(io) = key
        BY <1>11, <3>2
      <4>3. /\ SW!Sound(ioTraceMap[key]) /\ SW!Only(ioTraceMap[key], io)
        BY <1>9, <4>1, <4>2, IoKey
      <4> DEFINE b == SW!Named(ioTraceMap[key], SW!RouteUrl(s))
      <4>4. SW!Pair(io, s)
        BY <1>2, <4>1, <4>2, PairKeys
      <4>5. SW!HasRoute(b, io)
        BY <1>2, <4>3, <4>4, NamedHasRoute
      <4>6. SW!Sound(b) /\ SW!Only(b, io)
        BY <4>3, NamedTraces
      <4>7. ptd'[c] = SW!MoveAndAppendTo(ptd[c], b)
        BY <4>1
      <4> HIDE DEF b
      <4>8. \A t \in Segment : ~ (SW!Holds(ptd[c], t) /\ SW!Holds(b, t))
        BY <1>2, <1>3, <2>2, <4>6, HoldsOwn
      <4>9. SW!HasRoute(ptd'[c], io)
        BY <1>3, <4>5, <4>6, <4>7, <4>8, AppendedTraces
      <4> QED BY <4>1, <4>9 DEF SW!Settled
    <3> QED BY <1>4, <1>8, <2>2, <3>1, <3>2
  <2> QED BY <2>1, <2>2
<1> QED BY <1>12, <1>13

-----------------------------------------------------------------------------
(***************************************************************************)
(* SkywalkingTrace: the theorems.                                          *)
(***************************************************************************)

\* TraceInv is inductive: whatever calls and table fills interleave, a segment
\* is in one place, what is withheld is the I/O segment of its key, and the half
\* of a pair that looked into the Undertow cache first waits for the other.
THEOREM TraceInvariant ==
  SW!Spec => []SW!TraceInv
<1>1. SW!Init => SW!TraceInv
  BY PlacesInitially
<1>2. SW!TraceInv /\ [SW!Next]_SW!vars => SW!TraceInv'
  <2> SUFFICES ASSUME SW!TraceInv, [SW!Next]_SW!vars PROVE SW!TraceInv'
    OBVIOUS
  <2>1. CASE SW!Next
    <3>1. PICK c \in Call :
            \/ \E s \in Segment : SW!Receive(c, s)
            \/ SW!StartFill(c) \/ SW!EndFill(c) \/ SW!ConvertSegment(c) \/ SW!ConcurrentMapUse(c)
            \/ SW!CheckUndertow(c) \/ SW!StoreUndertow(c)
            \/ \E ok \in BOOLEAN : SW!Consume(c, ok)
      BY <2>1, Zenon DEF SW!Next
    <3>2. SW!PlacesInv /\ SW!TypeOK
      BY DEF SW!TraceInv, SW!PlacesInv
    <3>3. SW!PlacesInv'
      BY <3>1, <3>2, PlacesStep, Zenon
    <3>4. StepOf(c)
      BY <3>1, <3>2, StepsOfCalls, Zenon
    <3>5. SW!TasksWait' /\ SW!IosWait'
      BY <3>1, <3>4, EarlySteps, CheckWaits, StoreWaits, ConsumeWaits, Zenon
    <3> QED BY <3>3, <3>5 DEF SW!TraceInv
  <2>2. CASE UNCHANGED SW!vars
    <3> USE <2>2 DEF SW!vars, SW!callVars, SW!cacheVars, SW!TraceInv, SW!PlacesInv
    <3>1. SW!TypeOK'
      BY DEF SW!TypeOK
    <3>2. SW!CallsSound' /\ SW!CacheSound' /\ SW!DeliveredSound'
      BY DEF SW!CallsSound, SW!CacheSound, SW!DeliveredSound
    <3>3. SW!OnePlace'
      BY DEF SW!OnePlace, SW!Places, SW!Callers, SW!Carries, SW!Keys, SW!Deliveries
    <3>4. SW!TasksWait' /\ SW!IosWait'
      BY DEF SW!TasksWait, SW!IosWait, SW!Looked, SW!Stores, SW!Settled
    <3> QED BY <3>1, <3>2, <3>3, <3>4
  <2> QED BY <2>1, <2>2
<1> QED BY <1>1, <1>2, PTL DEF SW!Spec

\* A segment that was received is in one place, and delivered whole: consumeTraces
\* with the Undertow cache neither loses nor doubles the spans that pass.
THEOREM SegmentsInOnePlace ==
  SW!Spec => []SegmentInOnePlace
<1>1. SW!TraceInv => SegmentInOnePlace
  <2> SUFFICES ASSUME SW!TraceInv PROVE SegmentInOnePlace
    OBVIOUS
  <2>0. SW!TypeOK /\ SW!DeliveredSound /\ SW!OnePlace
    BY DEF SW!TraceInv, SW!PlacesInv
  <2>1. ASSUME NEW s \in sent PROVE \E p \in SW!Places(s) : SW!Places(s) = {p}
    BY <2>0 DEF SW!OnePlace, SW!TypeOK
  <2>2. ASSUME NEW s \in sent, NEW i \in SW!Deliveries(s) PROVE SW!Whole(delivered[i], s)
    BY <2>0 DEF SW!DeliveredSound, SW!Deliveries, SW!TypeOK, SW!Sound
  <2> QED BY <2>1, <2>2 DEF SegmentInOnePlace, SW!SegmentInOnePlace
<1> QED BY <1>1, TraceInvariant, PTL

\* The I/O half of an Undertow request is delivered under the name of a route of
\* it once both halves are through CheckUndertow, unless their calls missed each
\* other or the consumer refused it.
THEOREM HalvesPaired ==
  SW!Spec => []PairedUnlessMissed
<1>1. SW!TraceInv => PairedUnlessMissed
  <2> SUFFICES ASSUME SW!TraceInv, NEW io \in sent, NEW task \in sent, SW!Pair(io, task),
                      \A c \in Call : ~SW!Carries(c, io) /\ ~SW!Carries(c, task)
               PROVE  \/ <<io.trace, io.id>> \in missed
                      \/ io \in failed
                      \/ \E i \in DOMAIN delivered : SW!HasRoute(delivered[i], io)
    BY DEF PairedUnlessMissed, SW!PairedUnlessMissed
  <2>0. /\ SW!PlacesInv /\ SW!TypeOK /\ SW!TasksWait /\ SW!IosWait
        /\ io \in Segment /\ task \in Segment
    BY DEF SW!TraceInv, SW!PlacesInv, SW!TypeOK
  <2>1. ASSUME NEW s \in sent, \A c \in Call : ~SW!Carries(c, s)
        PROVE  SW!Looked(s) /\ ~SW!Stores(s)
    <3>1. ASSUME NEW c \in Call, segment[c] = s PROVE stage[c] = "consume"
      <4>1. stage[c] \notin {"convert", "fill", "load", "store"}
        BY <2>0, <2>1, <3>1, CarriesOwn
      <4>2. stage[c] # "idle"
        BY <2>0, <3>1, SegmentsAssumption DEF SW!TypeOK, SW!Configured
      <4> QED BY <2>0, <4>1, <4>2 DEF SW!TypeOK
    <3> QED BY <3>1 DEF SW!Looked, SW!Stores
  <2>2. SW!IsIo(io) /\ SW!UndertowKey(io) = <<io.trace, io.id>>
    BY DEF SW!Pair, SW!IsIo, SW!UndertowKey
  <2>3. SW!UndertowKey(io) \in DOMAIN ioTraceMap \/ SW!Settled(io)
    BY <2>0, <2>1, <2>2 DEF SW!IosWait
  <2>4. SW!UndertowKey(io) \in DOMAIN ioTraceMap => <<io.trace, io.id>> \in missed
    BY <2>0, <2>1, <2>2 DEF SW!TasksWait
  <2>5. ASSUME NEW c \in Call, stage[c] = "consume", SW!HasRoute(ptd[c], io) PROVE FALSE
    BY <2>5 DEF SW!HasRoute, SW!Carries, SW!Holds
  <2> QED BY <2>3, <2>4, <2>5 DEF SW!Settled
<1> QED BY <1>1, TraceInvariant, PTL

\* The number of a span is folded into its id: the spans of a segment get
\* different ids.
LEMMA IdsApart ==
  ASSUME SW!IdsWellFormed, NEW s \in Segment, NEW x \in SW!SpansOf(s), NEW y \in SW!SpansOf(s),
         SW!SegmentIDToSpanID(s.id, x.id) = SW!SegmentIDToSpanID(s.id, y.id)
  PROVE  x = y
<1>0. /\ s.id.form \in {"start", "full"} /\ s.id.start[1] \in Word /\ s.id.start[3] \in Word
      /\ s.id.form = "full" => s.id.last[1] \in Word
      /\ x.id \in Word /\ y.id \in Word
  BY DEF SW!IdsWellFormed
<1>1. ASSUME NEW a \in Word, NEW b \in Word,
             WordXor(WordXor(a, x.id), b) = WordXor(WordXor(a, y.id), b)
      PROVE  x.id = y.id
  <2>1. WordXor(a, x.id) \in Word /\ WordXor(a, y.id) \in Word
    BY <1>0, XorAssumption DEF SW!XorCancels
  <2>2. WordXor(a, x.id) = WordXor(a, y.id)
    BY <1>1, <2>1, XorAssumption DEF SW!XorCancels
  <2> QED BY <1>0, <2>2, XorAssumption DEF SW!XorCancels
<1>2. x.id = y.id
  <2>1. CASE s.id.form = "full"
    <3>1. WordXor(s.id.start[3], s.id.last[1]) \in Word
      BY <1>0, <2>1, XorAssumption DEF SW!XorCancels
    <3>2. WordXor(WordXor(s.id.start[1], x.id), WordXor(s.id.start[3], s.id.last[1]))
            = WordXor(WordXor(s.id.start[1], y.id), WordXor(s.id.start[3], s.id.last[1]))
      BY <2>1 DEF SW!SegmentIDToSpanID, SW!UuidTo8Bytes, SW!SwStringToUUID
    <3> QED BY <1>0, <1>1, <3>1, <3>2
  <2>2. CASE s.id.form = "start"
    <3>1. WordXor(WordXor(s.id.start[1], x.id), s.id.start[3])
            = WordXor(WordXor(s.id.start[1], y.id), s.id.start[3])
      BY <2>2 DEF SW!SegmentIDToSpanID, SW!UuidTo8Bytes, SW!SwStringToUUID
    <3> QED BY <1>0, <1>1, <3>1
  <2> QED BY <1>0, <2>1, <2>2
<1> QED BY <1>2, SegmentsAssumption DEF SW!Configured, SW!SpansOf

\* Where segment ids are well-formed, every delivered span has an id no other span
\* of its segment has, and the parent id is that of the span the agent named
\* (segmentIDToSpanID, swSpanToSpan).
THEOREM ParentsFound ==
  ASSUME SW!IdsWellFormed
  PROVE  SW!Spec => []ParentsResolve
<1>1. SW!TraceInv => ParentsResolve
  <2> DEFINE Resolves(d, s, span) ==
               /\ \A x \in SW!SpansOf(s) \ {span} : SW!SegmentIDToSpanID(s.id, x.id) # d.id
               /\ \A x \in SW!SpansOf(s) : x.id = span.parent =>
                    d.parent = SW!SegmentIDToSpanID(s.id, x.id) /\ d.parent # d.id
               /\ \A t \in Segment : \A x \in SW!SpansOf(t) :
                    span.parent = -1 /\ Len(span.refs) = 1 /\ span.refs[1].segment = t.id /\ span.refs[1].span = x.id
                      => d.parent = SW!SegmentIDToSpanID(t.id, x.id) /\ d.parent # SW!NoParent
             Seg(d) == CHOOSE x \in sent : x.id = d.sw.segment
             Span(d) == CHOOSE x \in SW!SpansOf(Seg(d)) : x.id = d.sw.span
  <2> SUFFICES ASSUME SW!TraceInv, NEW i \in DOMAIN delivered, NEW j \in DOMAIN delivered[i].spans
               PROVE  Resolves(delivered[i].spans[j], Seg(delivered[i].spans[j]), Span(delivered[i].spans[j]))
    BY DEF ParentsResolve, SW!ParentsResolve
  <2> HIDE DEF Resolves
  <2> SUFFICES ASSUME NEW d, d = delivered[i].spans[j], NEW s, s = Seg(d), NEW span, span = Span(d)
               PROVE  Resolves(d, s, span)
    OBVIOUS
  <2>0. SW!TypeOK /\ SW!DeliveredSound /\ SW!OnePlace
    BY DEF SW!TraceInv, SW!PlacesInv
  <2>a. PICK s0 \in Segment : \E x \in SW!SpansOf(s0) :
          /\ d.sw = [segment |-> s0.id, span |-> x.id]
          /\ d.id = SW!SegmentIDToSpanID(s0.id, x.id)
          /\ d.parent = SW!ParentSpanID(s0.id, x)
    BY <2>0 DEF SW!DeliveredSound, SW!Sound, SW!Converted
  <2>1. PICK x0 \in SW!SpansOf(s0) :
          /\ d.sw = [segment |-> s0.id, span |-> x0.id]
          /\ d.id = SW!SegmentIDToSpanID(s0.id, x0.id)
          /\ d.parent = SW!ParentSpanID(s0.id, x0)
    BY <2>a
  <2>2. d.sw.segment = s0.id /\ d.sw.span = x0.id
    BY <2>1
  <2>3. s0 \in sent
    <3>1. i \in SW!Deliveries(s0)
      BY <2>2 DEF SW!Deliveries, SW!Holds
    <3>2. s0 \notin sent => NoKind(SW!Callers(s0), SW!Keys(s0), SW!Deliveries(s0), s0 \in failed)
      BY <2>0, PlacesByKind
    <3> QED BY <3>1, <3>2 DEF NoKind
  <2>4. s = s0
    <3>1. s \in sent /\ s.id = s0.id
      BY <2>2, <2>3
    <3> QED BY <2>0, <3>1, SegmentById DEF SW!TypeOK
  <2>5. span = x0
    <3>1. span \in SW!SpansOf(s0) /\ span.id = x0.id
      BY <2>2, <2>4
    <3> QED BY <3>1, SegmentsAssumption DEF SW!Configured, SW!SpansOf
  <2>6. /\ x0.id # -1 /\ x0.parent # x0.id
        /\ \A y \in SW!SpansOf(s0) :
             SW!SegmentIDToSpanID(s0.id, x0.id) = SW!SegmentIDToSpanID(s0.id, y.id) => x0 = y
    BY IdsApart DEF SW!IdsWellFormed
  <2>7. ASSUME NEW x \in SW!SpansOf(s0), x # x0 PROVE SW!SegmentIDToSpanID(s0.id, x.id) # d.id
    BY <2>1, <2>6, <2>7
  <2>8. ASSUME NEW x \in SW!SpansOf(s0), x.id = x0.parent
        PROVE  d.parent = SW!SegmentIDToSpanID(s0.id, x.id) /\ d.parent # d.id
    <3>1. x.id # -1 /\ x # x0
      BY <2>6, <2>8 DEF SW!IdsWellFormed
    <3>2. d.parent = SW!SegmentIDToSpanID(s0.id, x.id)
      BY <2>1, <2>8, <3>1 DEF SW!ParentSpanID
    <3> QED BY <2>1, <2>6, <3>1, <3>2
  <2>9. ASSUME NEW t \in Segment, NEW x \in SW!SpansOf(t), x0.parent = -1, Len(x0.refs) = 1,
               x0.refs[1].segment = t.id, x0.refs[1].span = x.id
        PROVE  d.parent = SW!SegmentIDToSpanID(t.id, x.id) /\ d.parent # SW!NoParent
    <3>1. d.parent = SW!SegmentIDToSpanID(t.id, x.id)
      BY <2>1, <2>9 DEF SW!ParentSpanID
    <3>2. SW!SegmentIDToSpanID(t.id, x.id) # SW!NoParent
      BY DEF SW!IdsWellFormed
    <3> QED BY <3>1, <3>2
  <2> QED BY <2>4, <2>5, <2>7, <2>8, <2>9 DEF Resolves
<1> QED BY <1>1, TraceInvariant, PTL
=============================================================================
