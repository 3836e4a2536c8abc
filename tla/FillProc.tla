------------------------------- MODULE FillProc -------------------------------
(***************************************************************************)
(* Whose spans are these: the fillproc extension (socket_proc.go,          *)
(* socket_cache.go, internal/proc) and what the otlp and skywalking        *)
(* receivers do with its answer (fillPidAndContainerId, ProtoToTraces).    *)
(*                                                                         *)
(* A receiver only knows the address of its peer.  The first request of a  *)
(* peer puts it on a list; a ticker takes the list, reads /proc for new    *)
(* processes, looks the socket of the peer up in the socket tables of the  *)
(* host and then of every container, and caches the process that holds it. *)
(* Meanwhile processes start, exec, exit, connections close, and pids and  *)
(* addresses are used again.                                               *)
(*                                                                         *)
(* The extension is enabled and the collector runs in the network          *)
(* namespace of the host.  Strings of /proc are abstracted to whether      *)
(* ScanProc ignores the process, and where it runs; an address to who it   *)
(* is of and whether it is written in brackets.                            *)
(***************************************************************************)
EXTENDS FiniteSets

CONSTANTS
  Pid,         \* process ids, besides pid 1
  Peer,        \* addresses of peers
  Container,   \* containers, with a network namespace each
  Port,        \* ports a request may name, 0 for none included
  ServerPort,  \* the one the connections of the peers go to
  Host,        \* runs in no container
  None         \* no process, no answer, no port

ASSUME PlaceAssumption == Host \notin Container /\ None \notin Pid
ASSUME PortAssumption == ServerPort \in Port /\ None \notin Port

Place == Container \cup {Host}

\* A live process: an image that is ignored (no exe, comm or host name, a shell
\* and the like) or an application.  A container has a network of its own.
Process == [image : {"ignored", "app"}, place : Place]

\* ProcInfo; the place is the network namespace and the container.
ProcInfo == [pid : Pid, ignore : BOOLEAN, place : Place]

\* A resource may name its container, and the pid of its service when it was
\* made by beyla.
Resource == [container : Container \cup {None}, beyla : Pid \cup {None}]

\* Addresses: an IPv4 one, ::1, and any other IPv6 one.
Form == {"ipv4", "loopback6", "ipv6"}

VARIABLES
  process,           \* the live processes
  form,              \* what kind of address a peer has; it never changes
  owner,             \* the process at the other end of a connection, per peer
  procs,             \* SocketCache.Procs without pid 1
  hostNetNamespace,  \* HostNetNamespace is known
  toMapSockets,      \* the listed peers, with the port their request named
  cachedSockets,
  pc,                \* where mapSocketToPids is
  peers,             \* toMatchPeers that are not matched yet, with their port
  result,            \* matched peers
  filled,            \* the container the last resource names, and the pid it was
                     \* given, if it names one, is not of beyla and was given one
  owned, lived       \* observers: the processes a peer was of since it was put
                     \* on the list; the containers the processes of a pid ran in

worldVars == <<process, form, owner, owned, lived>>
tickVars == <<procs, hostNetNamespace, cachedSockets, pc, peers, result>>
vars == <<worldVars, tickVars, toMapSockets, filled>>

NoAnswer == [pid |-> None, container |-> None]

TypeOK ==
  /\ process \in [Pid -> Process \cup {None}]
  /\ form \in [Peer -> Form]
  /\ owner \in [Peer -> Pid \cup {None}]
  /\ procs \in [Pid -> ProcInfo \cup {None}]
  /\ hostNetNamespace \in BOOLEAN
  /\ toMapSockets \in [Peer -> Port \cup {None}]
  /\ peers \in [Peer -> Port \cup {None}]
  /\ cachedSockets \in [Peer -> ProcInfo \cup {None}]
  /\ result \in [Peer -> ProcInfo \cup {None}]
  /\ pc \in {"idle", "scan", "host", "container", "store"}
  /\ filled \in [container : Container \cup {None}, pid : Pid \cup {None}]
  /\ owned \in [Peer -> SUBSET Pid]
  /\ lived \in [Pid -> SUBSET Container]

\* newSocketProcExtension and Start.
Init ==
  /\ process = [p \in Pid |-> None]
  /\ form \in [Peer -> Form]
  /\ owner = [a \in Peer |-> None]
  /\ procs = [p \in Pid |-> None]
  /\ hostNetNamespace = FALSE
  /\ toMapSockets = [a \in Peer |-> None]
  /\ peers = [a \in Peer |-> None]
  /\ cachedSockets = [a \in Peer |-> None]
  /\ result = [a \in Peer |-> None]
  /\ pc = "idle"
  /\ filled = NoAnswer
  /\ owned = [a \in Peer |-> {}]
  /\ lived = [p \in Pid |-> {}]

-----------------------------------------------------------------------------
(***************************************************************************)
(* The host.                                                               *)
(***************************************************************************)

\* A process starts, often as a shell; its pid may have been used before.
StartProcess(p, new) ==
  /\ process[p] = None
  /\ process' = [process EXCEPT ![p] = new]
  /\ lived' = [lived EXCEPT ![p] = @ \cup ({new.place} \ {Host})]
  /\ UNCHANGED <<form, owner, owned, tickVars, toMapSockets, filled>>

\* exec: the shell becomes the application.
Exec(p) ==
  /\ process[p] # None /\ process[p].image = "ignored"
  /\ process' = [process EXCEPT ![p].image = "app"]
  /\ UNCHANGED <<form, owner, owned, lived, tickVars, toMapSockets, filled>>

\* A process exits and its connections close.
Exit(p) ==
  /\ process[p] # None
  /\ process' = [process EXCEPT ![p] = None]
  /\ owner' = [a \in Peer |-> IF owner[a] = p THEN None ELSE owner[a]]
  /\ UNCHANGED <<form, owned, lived, tickVars, toMapSockets, filled>>

\* The peer is on the list, or the ticker looks for it.
Listed(a) == toMapSockets[a] # None \/ (pc # "idle" /\ owned[a] # {})

\* A connection over ::1 does not leave the network of the host.
Open(a, p) ==
  /\ owner[a] = None /\ process[p] # None
  /\ form[a] = "loopback6" => process[p].place = Host
  /\ owner' = [owner EXCEPT ![a] = p]
  /\ owned' = IF Listed(a) THEN [owned EXCEPT ![a] = @ \cup {p}] ELSE owned
  /\ UNCHANGED <<process, form, lived, tickVars, toMapSockets, filled>>

Close(a) ==
  /\ owner[a] # None
  /\ owner' = [owner EXCEPT ![a] = None]
  /\ UNCHANGED <<process, form, owned, lived, tickVars, toMapSockets, filled>>

-----------------------------------------------------------------------------
(***************************************************************************)
(* The receivers.                                                          *)
(***************************************************************************)

\* GetContainerIdByPid; ScanProc gives an ignored process no container.
ContainerOf(info) ==
  IF info = None \/ info.ignore \/ info.place = Host THEN None ELSE info.place

\* The address of a peer as net/http and grpc write it.
Written(a) == [of |-> a, brackets |-> form[a] # "ipv4"]

\* A slip to be noticed: the address is looked for as it is written.
KeyWritten(a) == Written(a)

\* The key of a peer in ToMapSockets and CachedSockets: only the brackets of ::1
\* are taken off.  Every peer has its own key; the tables here are functions of
\* the peer.
Key(a) == IF form[a] = "loopback6" THEN [Written(a) EXCEPT !.brackets = FALSE] ELSE Written(a)

\* getMatchPidAndContainerId for a peer; over HTTP, a request that names no
\* server gets no answer.
Answer(a, named) ==
  IF named = None \/ cachedSockets[a] = None THEN NoAnswer
  ELSE [pid |-> cachedSockets[a].pid, container |-> ContainerOf(cachedSockets[a])]

\* A slip to be noticed: the container the resource names is not compared.
FillAlways(resource, answer) == answer

\* fillPidAndContainerId: a resource that names its container is only given a
\* pid of that container.
Fill(resource, answer) ==
  CASE resource.beyla # None -> [pid |-> resource.beyla, container |-> ContainerOf(procs[resource.beyla])]
    [] resource.beyla = None /\ resource.container \in {None, answer.container} -> answer
    [] OTHER -> NoAnswer

\* A request that puts the peer on the list.
Lists(a, named) == named # None /\ cachedSockets[a] = None /\ toMapSockets[a] = None

\* Export and ExportHttp: a peer that is neither cached nor listed is listed with
\* the port of the server address, which is the Host header over HTTP.
Export(a, resource, named) ==
  /\ owner[a] # None
  /\ LET given == Fill(resource, Answer(a, named)).pid
     IN  filled' = IF given # None /\ resource.beyla = None /\ resource.container # None
                     THEN [container |-> resource.container, pid |-> given] ELSE NoAnswer
  /\ toMapSockets' = IF Lists(a, named) THEN [toMapSockets EXCEPT ![a] = named] ELSE toMapSockets
  /\ owned' = IF Lists(a, named) /\ ~Listed(a) THEN [owned EXCEPT ![a] = {owner[a]}] ELSE owned
  /\ UNCHANGED <<process, form, owner, lived, tickVars>>

-----------------------------------------------------------------------------
(***************************************************************************)
(* The ticker: mapSocketToPids.                                            *)
(***************************************************************************)

\* The list is taken and emptied.
TakePeers ==
  /\ pc = "idle" /\ \E a \in Peer : toMapSockets[a] # None
  /\ peers' = toMapSockets
  /\ toMapSockets' = [a \in Peer |-> None]
  /\ pc' = "scan"
  /\ UNCHANGED <<worldVars, procs, hostNetNamespace, cachedSockets, result, filled>>

\* SkipBlackComm, SkipBlackCmdline and the attributes ScanProc requires.
Ignored(p) == process[p].image = "ignored"

ScanProc(p) == [pid |-> p, ignore |-> Ignored(p), place |-> process[p].place]

\* A tick is over: the peers that were not matched are forgotten until they ask
\* again.
Forget == owned' = [a \in Peer |-> IF toMapSockets[a] # None THEN owned[a] ELSE {}]

\* FindAllProcesses, without pid 1, which is always there.
LivePids == {p \in Pid : process[p] # None}

\* scanNewProcs: processes that are gone leave, new ones are scanned once.  The
\* network namespace of pid 1 is that of the host.
ScanNewProcs ==
  /\ pc = "scan"
  /\ procs' = [p \in Pid |-> IF p \notin LivePids THEN None
                             ELSE IF procs[p] = None THEN ScanProc(p) ELSE procs[p]]
  /\ hostNetNamespace' = TRUE
  /\ pc' = "host"
  /\ UNCHANGED <<worldVars, cachedSockets, peers, result, toMapSockets, filled>>

\* FindAllProcesses fails: the processes of the last scan are used; before the
\* first scan there are none and the tick is over.
ScanFails ==
  /\ pc = "scan"
  /\ IF hostNetNamespace THEN pc' = "host" /\ UNCHANGED <<peers, owned>>
                         ELSE pc' = "idle" /\ peers' = [a \in Peer |-> None] /\ Forget
  /\ UNCHANGED <<process, form, owner, lived, procs, hostNetNamespace, cachedSockets, result, toMapSockets, filled>>

\* SockAddr.String never writes brackets.
SockAddr(a) == [of |-> a, brackets |-> FALSE]

\* DoNetstat: the peer has a connection in the table of a place, under the name
\* it is looked for and to the port its request named.
InTable(a, place) ==
  /\ owner[a] # None /\ process[owner[a]].place = place
  /\ Key(a) = SockAddr(a) /\ peers[a] = ServerPort

\* A slip to be noticed: any process is taken for the owner.
HoldsAny(p, a) == process[p] # None

\* GetMatchNetSockets: the socket of the peer is among the fds of the process.
Holds(p, a) == owner[a] = p

\* ListVMMatchNetSocks: the table of the host, for every process.
OnHost(p, a) == InTable(a, Host) /\ Holds(p, a)

\* ListMatchNetSocks: the table of a process that was seen in a container.
InContainer(p, a) ==
  /\ procs[p].place # Host
  /\ process[p] # None /\ InTable(a, process[p].place)
  /\ Holds(p, a)

\* The keys of toMatchPeers.
ToMatch == {a \in Peer : peers[a] # None}

\* The peers of `seen` that a process matches; `seen` is less than all peers
\* when a table cannot be read to its end, or the connection is gone again
\* before the fds are read.
Match(Test(_, _), seen) ==
  LET By(a) == {p \in Pid : procs[p] # None /\ ~procs[p].ignore /\ Test(p, a)}
      found == {a \in seen : By(a) # {}}
  IN  /\ \E by \in [found -> Pid] :
           /\ \A a \in found : by[a] \in By(a)
           /\ result' = [a \in Peer |-> IF a \in found THEN procs[by[a]] ELSE result[a]]
      /\ peers' = [a \in Peer |-> IF a \in found THEN None ELSE peers[a]]

\* matchSockets: the host, then the containers.
MatchHost(seen) ==
  /\ pc = "host" /\ seen \subseteq ToMatch
  /\ Match(OnHost, seen)
  /\ pc' = "container"
  /\ UNCHANGED <<worldVars, procs, hostNetNamespace, cachedSockets, toMapSockets, filled>>

MatchContainers(seen) ==
  /\ pc = "container" /\ seen \subseteq ToMatch
  /\ Match(InContainer, seen)
  /\ pc' = "store"
  /\ UNCHANGED <<worldVars, procs, hostNetNamespace, cachedSockets, toMapSockets, filled>>

\* CachedSockets.Store of what was matched.
StoreMatched ==
  /\ pc = "store"
  /\ cachedSockets' = [a \in Peer |-> IF result[a] # None THEN result[a] ELSE cachedSockets[a]]
  /\ result' = [a \in Peer |-> None]
  /\ peers' = [a \in Peer |-> None]
  /\ pc' = "idle"
  /\ Forget
  /\ UNCHANGED <<process, form, owner, lived, procs, hostNetNamespace, toMapSockets, filled>>

Next ==
  \/ \E p \in Pid : \/ \E new \in Process : StartProcess(p, new)
                    \/ Exec(p) \/ Exit(p)
  \/ \E a \in Peer : \/ \E p \in Pid : Open(a, p)
                     \/ \E resource \in Resource, named \in Port \cup {None} : Export(a, resource, named)
                     \/ Close(a)
  \/ TakePeers \/ ScanNewProcs \/ ScanFails \/ StoreMatched
  \/ \E seen \in SUBSET ToMatch : MatchHost(seen) \/ MatchContainers(seen)

Spec == Init /\ [][Next]_vars

\* The ticker runs, and /proc and its tables can be read now and then.
FairSpec ==
  /\ Spec
  /\ WF_vars(TakePeers) /\ WF_vars(StoreMatched)
  /\ WF_vars(ScanNewProcs \/ ScanFails) /\ SF_vars(ScanNewProcs)
  /\ WF_vars(\E seen \in SUBSET ToMatch : MatchHost(seen) \/ MatchContainers(seen))
  /\ SF_vars(MatchHost(ToMatch)) /\ SF_vars(MatchContainers(ToMatch))

-----------------------------------------------------------------------------
(***************************************************************************)
(* Properties.                                                             *)
(***************************************************************************)

\* What is cached for a peer is a process that had the connection since the
\* peer was put on the list, whatever starts, exits and connects while the
\* ticker reads /proc.
CachedOwned ==
  \A a \in Peer : result[a] # None => result[a].pid \in owned[a]

\* A resource that names its container is only given the pid of a process
\* that ran in it, however stale the cached socket is.  Resources of beyla are
\* left out: fillPidAndContainerId gives them the pid they name and compares no
\* container, and `filled` does not record them.
FilledInContainer ==
  filled # NoAnswer => filled.container \in lived[filled.pid]

\* The observers keep up with the lists: the processes of a peer are recorded
\* exactly as long as it is listed or looked for, the current one included.
OwnersRecorded ==
  \A a \in Peer :
    /\ toMapSockets[a] # None \/ peers[a] # None => owned[a] # {}
    /\ owned[a] # {} => pc # "idle" \/ toMapSockets[a] # None
    /\ owned[a] # {} /\ owner[a] # None => owner[a] \in owned[a]

\* Only the tick that found them has results.
ResultsPending == \A a \in Peer : result[a] # None => pc \in {"container", "store"}

\* A process of a container has lived in it, under its pid.
LivedIn(info, pid) == info # None /\ info.place # Host => info.place \in lived[pid]

\* What is remembered of a process is where a process of this pid has lived,
\* in every table it is copied to.
PlacesLived ==
  /\ \A p \in Pid : LivedIn(process[p], p) /\ LivedIn(procs[p], p)
  /\ \A p \in Pid : procs[p] # None => procs[p].pid = p
  /\ \A a \in Peer : LivedIn(result[a], result[a].pid) /\ LivedIn(cachedSockets[a], cachedSockets[a].pid)

\* Only an address that Key takes the brackets off, or that has none, is ever
\* found; the peers of another IPv6 address are not.
BracketsUnfound ==
  \A a \in Peer : form[a] = "ipv6" => result[a] = None /\ cachedSockets[a] = None

\* The inductive invariant behind CachedOwned and FilledInContainer.
FillInv ==
  /\ TypeOK /\ OwnersRecorded /\ ResultsPending /\ PlacesLived
  /\ CachedOwned /\ FilledInContainer /\ BracketsUnfound

\* The peer is an application that was not scanned while it was a shell, it
\* keeps its connection, its address is one the tables can have, and its
\* requests name the port it is connected to.
Matchable(a) ==
  /\ owner[a] # None
  /\ process[owner[a]].image = "app"
  /\ procs[owner[a]] # None => ~procs[owner[a]].ignore /\ procs[owner[a]].place = process[owner[a]].place
  /\ form[a] # "ipv6"
  /\ toMapSockets[a] \in {None, ServerPort}

\* An application over IPv4 or ::1 that keeps its connection and keeps sending
\* to the port it names is found by mapSocketToPids.  Every other peer asks for
\* ever: DoNetstat never sees the brackets of another IPv6 address, nor a port
\* that only the Host header names.
PeersMatched ==
  \A a \in Peer : <>[]Matchable(a) /\ []<>(toMapSockets[a] # None) => <>(cachedSockets[a] # None)
=============================================================================
