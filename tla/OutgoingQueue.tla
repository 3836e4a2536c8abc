---------------------------- MODULE OutgoingQueue ----------------------------
(***************************************************************************)
(* The three queues the backsampling processor sends from, each emptied by *)
(* a PolicyTicker of its own:                                              *)
(*                                                                         *)
(*  "signals"   UdsRegistryServer (internal/notify), one http post per     *)
(*              signal and registered client;                              *)
(*  "profiles"  ebpfProfileApi (internal/profile), one post per tick;      *)
(*  "traces"    SampleApi.StoreTrace and SendTraces (internal/sampler),    *)
(*              one gRPC call per tick.                                    *)
(*                                                                         *)
(* Consumers append under a lock; the ticker reads the length without it   *)
(* and takes the lock only to cut the queue.  Registrations run in the     *)
(* concurrent handlers of an http server and take no lock at all: one that *)
(* looks for its component, and appends a client when there is none, may   *)
(* be overtaken by others between the look, the read of the slice and the  *)
(* write of the longer one.  A failed post is not repeated.                *)
(*                                                                         *)
(* The array behind udsClients is not modelled: a range that is under way  *)
(* keeps the clients it started with, also where an append that was        *)
(* overtaken writes over the last of them in an array with room to spare.  *)
(***************************************************************************)
EXTENDS Naturals, Sequences, SequencesExt

CONSTANTS
  Item,      \* what consumers hand over, each once
  Component, \* what may register for signals
  Request,   \* requests to register, each with the UdsClient it builds
  Endpoint,  \* the one receiver of profiles and of traces
  Kinds      \* the queues to explore

QueueAssumption == Kinds \subseteq {"signals", "profiles", "traces"} /\ Endpoint \notin Component

VARIABLES
  kind,        \* which queue this is
  queue,       \* signals or cachedTraces
  component,   \* RegisterArg.Component of the requests
  handler,     \* how far the handler of a request is
  saw,         \* the slice it appends to
  udsClients,  \* registered clients, in order
  isHealth,    \* the clients with UdsClient.isHealth
  stopCh, ticker, fired,  \* StopCh closed, Ticker running, a tick waiting in Ticker.C
  pc,          \* where the ticker goroutine is
  size,        \* signalCount or size: the length it has read
  sending,     \* the items it has taken
  targets,     \* the clients the loop of this tick has still to serve
  next,        \* the position of the next signal for the first of them
  posted,      \* observer: the items that were posted, per receiver, in order
  late,        \* observer: items appended between reading the length and the lock
  raced        \* observer: components with a request that had looked, and had not
               \* yet appended, when another one was appended

queueVars == <<queue, late>>
clientVars == <<component, handler, saw, udsClients, isHealth, raced>>
tickerVars == <<stopCh, ticker, fired>>
loopVars == <<pc, size, sending, targets, next>>
vars == <<kind, queueVars, clientVars, tickerVars, loopVars, posted>>

TypeOK ==
  /\ kind \in Kinds
  /\ queue \in Seq(Item) /\ sending \in Seq(Item) /\ late \in SUBSET Item
  /\ component \in [Request -> Component]
  /\ handler \in [Request -> {"free", "looked", "append", "done"}]
  /\ saw \in [Request -> Seq(Request)]
  /\ udsClients \in Seq(Request) /\ targets \in Seq(Request)
  /\ isHealth \in SUBSET Request /\ raced \in SUBSET Component
  /\ stopCh \in BOOLEAN /\ ticker \in BOOLEAN /\ fired \in BOOLEAN
  /\ pc \in {"select", "length", "send", "ended"}
  /\ size \in Nat /\ next \in Nat
  /\ posted \in [Component \cup {Endpoint} -> Seq(Item)]

\* NewUdsRegistryServer, NewProfileApi, NewSampleApi and PolicyTicker.Start.
Init ==
  /\ kind \in Kinds
  /\ queue = <<>> /\ late = {}
  /\ component \in [Request -> Component]
  /\ handler = [r \in Request |-> "free"] /\ saw = [r \in Request |-> <<>>]
  /\ udsClients = <<>> /\ isHealth = {} /\ raced = {}
  /\ stopCh = FALSE /\ ticker = TRUE /\ fired = FALSE
  /\ pc = "select" /\ size = 0 /\ sending = <<>> /\ targets = <<>> /\ next = 1
  /\ posted = [c \in Component \cup {Endpoint} |-> <<>>]

Known == Range(queue) \cup Range(sending) \cup UNION {Range(posted[r]) : r \in DOMAIN posted}

-----------------------------------------------------------------------------
\* SendSignal, AddProfileSignal, StoreTrace: append under the lock.
Add(item) ==
  /\ item \notin Known
  /\ queue' = Append(queue, item)
  /\ late' = IF pc = "length" THEN late \cup {item} ELSE late
  /\ UNCHANGED <<kind, clientVars, tickerVars, loopVars, posted>>

(***************************************************************************)
(* UdsRegistryServer.registry.                                             *)
(***************************************************************************)

\* The clients of this component.
Matches(r) == {i \in 1 .. Len(udsClients) : component[udsClients[i]] = component[r]}

\* A slip to be noticed: every request finds its component missing.
LookMisses(r) ==
  /\ kind = "signals" /\ handler[r] = "free"
  /\ handler' = [handler EXCEPT ![r] = "looked"]
  /\ UNCHANGED <<kind, queueVars, component, saw, udsClients, isHealth, raced, tickerVars, loopVars, posted>>

\* The loop over udsClients: the first client of a known component is healthy
\* again and the request is answered; it built no client and may come once more.
Look(r) ==
  /\ kind = "signals" /\ handler[r] = "free"
  /\ \/ /\ Matches(r) = {}
        /\ handler' = [handler EXCEPT ![r] = "looked"] /\ UNCHANGED isHealth
     \/ \E first \in Matches(r) :
          /\ \A i \in Matches(r) : first <= i
          /\ isHealth' = isHealth \cup {udsClients[first]} /\ UNCHANGED handler
  /\ UNCHANGED <<kind, queueVars, component, saw, udsClients, raced, tickerVars, loopVars, posted>>

\* buildUdsClient; append reads the slice ...
ReadClients(r) ==
  /\ handler[r] = "looked"
  /\ handler' = [handler EXCEPT ![r] = "append"]
  /\ saw' = [saw EXCEPT ![r] = udsClients]
  /\ isHealth' = isHealth \cup {r}
  /\ UNCHANGED <<kind, queueVars, component, udsClients, raced, tickerVars, loopVars, posted>>

\* Requests for which the look is over and the append is not.
Underway == {r \in Request : handler[r] \in {"looked", "append"}}

\* ... and the assignment writes it: what others appended since is lost.
WriteClients(r) ==
  /\ handler[r] = "append"
  /\ handler' = [handler EXCEPT ![r] = "done"]
  /\ saw' = [saw EXCEPT ![r] = <<>>]
  /\ udsClients' = Append(saw[r], r)
  /\ raced' = raced \cup {component[q] : q \in Underway \ {r}}
  /\ UNCHANGED <<kind, queueVars, component, isHealth, tickerVars, loopVars, posted>>

Registry(r) == Look(r) \/ ReadClients(r) \/ WriteClients(r)

-----------------------------------------------------------------------------
(***************************************************************************)
(* PolicyTicker.                                                           *)
(***************************************************************************)

\* time.Ticker: a tick that is not received in time is dropped.
Fire ==
  /\ ticker /\ ~fired
  /\ fired' = TRUE
  /\ UNCHANGED <<kind, queueVars, clientVars, stopCh, ticker, loopVars, posted>>

\* Stop, called once by Shutdown: close(StopCh) ...
Stop ==
  /\ ~stopCh
  /\ stopCh' = TRUE
  /\ UNCHANGED <<kind, queueVars, clientVars, ticker, fired, loopVars, posted>>

\* ... then Ticker.Stop.
StopTicker ==
  /\ stopCh /\ ticker
  /\ ticker' = FALSE
  /\ UNCHANGED <<kind, queueVars, clientVars, stopCh, fired, loopVars, posted>>

\* The select of the goroutine sees StopCh closed.
Return ==
  /\ pc = "select" /\ stopCh
  /\ pc' = "ended"
  /\ UNCHANGED <<kind, queueVars, clientVars, tickerVars, size, sending, targets, next, posted>>

-----------------------------------------------------------------------------
(***************************************************************************)
(* OnTick: BatchSendSignals, ConsumeProfileSignals, SendTraces.            *)
(***************************************************************************)

\* A slip to be noticed: a single item is left for later.
ReadLengthOfMany ==
  /\ pc = "select" /\ fired
  /\ fired' = FALSE
  /\ size' = Len(queue)
  /\ pc' = IF Len(queue) <= 1 THEN "select" ELSE "length"
  /\ UNCHANGED <<kind, queueVars, clientVars, stopCh, ticker, sending, targets, next, posted>>

\* The length is read, without the lock; an empty queue ends the tick.
ReadLength ==
  /\ pc = "select" /\ fired
  /\ fired' = FALSE
  /\ size' = Len(queue)
  /\ pc' = IF queue = <<>> THEN "select" ELSE "length"
  /\ UNCHANGED <<kind, queueVars, clientVars, stopCh, ticker, sending, targets, next, posted>>

\* A slip to be noticed: the whole queue is dropped, not what was taken.
CutAll == <<>>

\* queue[size:].
Cut == SubSeq(queue, size + 1, Len(queue))

\* signals[0:] is everything there is by now; the others take size items.
Taken == IF kind = "signals" THEN queue ELSE SubSeq(queue, 1, size)

\* The lock is taken, the items are taken and the queue is cut.  The range
\* over udsClients sees the clients registered by then.
Take ==
  /\ pc = "length"
  /\ sending' = Taken
  /\ queue' = Cut
  /\ targets' = udsClients
  /\ next' = 1
  /\ size' = 0
  /\ pc' = "send"
  /\ UNCHANGED <<kind, clientVars, tickerVars, posted, late>>

EndTick == pc' = "select" /\ sending' = <<>> /\ targets' = <<>> /\ next' = 1

\* The post or the gRPC call of a whole batch; its outcome is not looked at
\* but for the log, so a batch that fails is lost.
PostBatch(ok) ==
  /\ pc = "send" /\ kind # "signals"
  /\ posted' = IF ok THEN [posted EXCEPT ![Endpoint] = @ \o sending] ELSE posted
  /\ EndTick
  /\ UNCHANGED <<kind, queueVars, clientVars, tickerVars, size>>

\* The next signal, or the next client.
Advance ==
  IF next < Len(sending) THEN next' = next + 1 /\ UNCHANGED targets
                         ELSE next' = 1 /\ targets' = Tail(targets)

\* One signal for one client: skipped when it is unhealthy, posted, or lost
\* with an error that makes the client unhealthy.
PostSignal(ok) ==
  /\ pc = "send" /\ kind = "signals" /\ targets # <<>>
  /\ LET client == Head(targets) IN
       /\ posted' = IF ok /\ client \in isHealth
                    THEN [posted EXCEPT ![component[client]] = Append(@, sending[next])] ELSE posted
       /\ isHealth' = IF ok THEN isHealth ELSE isHealth \ {client}
  /\ Advance
  /\ UNCHANGED <<kind, queueVars, component, handler, saw, udsClients, raced, tickerVars, pc, size, sending>>

\* All clients are served.
EndSignals ==
  /\ pc = "send" /\ kind = "signals" /\ targets = <<>>
  /\ EndTick
  /\ UNCHANGED <<kind, queueVars, clientVars, tickerVars, size, posted>>

Goroutine ==
  \/ Return \/ ReadLength \/ Take \/ EndSignals
  \/ \E ok \in BOOLEAN : PostBatch(ok) \/ PostSignal(ok)

Next ==
  \/ \E item \in Item : Add(item)
  \/ \E r \in Request : Registry(r)
  \/ Fire \/ Stop \/ StopTicker \/ Goroutine

Spec == Init /\ [][Next]_vars

\* The ticker goes on until it is stopped, Stop runs to its end, and the
\* goroutine is not blocked: every post has a timeout or a keepalive, the
\* lock is held for one append or one cut only.
FairSpec == Spec /\ WF_vars(Fire) /\ WF_vars(StopTicker) /\ WF_vars(Goroutine)

-----------------------------------------------------------------------------
(***************************************************************************)
(* Properties.                                                             *)
(***************************************************************************)

\* Nothing is posted twice to a receiver, although the queue is cut by a
\* length read before the lock and clients are registered without one; except
\* for the two races of BatchSendSignals and registry: signals appended after
\* the length was read are posted but not cut off, and a component may be
\* registered twice when another registration overtook one of its own.
PostedOnceUnlessRaced ==
  \A c \in DOMAIN posted : \A i, j \in 1 .. Len(posted[c]) :
    i # j /\ posted[c][i] = posted[c][j] => kind = "signals" /\ (posted[c][i] \in late \/ c \in raced)

\* No item leaves the queue before it is among those being sent.
NeverCutUnsent ==
  [][\A item \in Range(queue) : item \in Range(queue') \cup Range(sending')]_vars

\* An item that is handed over while the ticker runs leaves the queue: it is
\* sent to whoever is healthy then, or the processor is stopped.
ItemsLeave == \A item \in Item : item \in Range(queue) ~> (item \notin Range(queue) \/ stopCh)

-----------------------------------------------------------------------------
(***************************************************************************)
(* The inductive invariant behind the safety properties.                   *)
(***************************************************************************)

\* The items that may be posted twice.
Repeatable == IF kind = "signals" THEN late ELSE {}

Distinct == IsInjective(queue) /\ IsInjective(sending)

\* A component has one client in a slice, unless a race gave it two.
OncePerComponent(clients) ==
  \A i, j \in 1 .. Len(clients) :
    i # j /\ component[clients[i]] = component[clients[j]] => component[clients[i]] \in raced

\* A request that was not overtaken has seen the slice as it is.
Registered ==
  /\ OncePerComponent(udsClients) /\ OncePerComponent(targets)
  /\ \A r \in Request : OncePerComponent(saw[r])
  /\ \A r \in Underway : component[r] \notin raced =>
       /\ \A i \in 1 .. Len(udsClients) : component[udsClients[i]] # component[r]
       /\ handler[r] = "append" => saw[r] = udsClients

\* What is still queued was not taken and not posted.
QueuedFresh ==
  /\ Range(queue) \cap Range(sending) \subseteq Repeatable
  /\ \A r \in DOMAIN posted : Range(queue) \cap Range(posted[r]) \subseteq Repeatable

\* The length that was read counts the items from before it; only late ones
\* have come after them.
LengthRead ==
  pc = "length" => /\ size \in 1 .. Len(queue)
                   /\ \A i \in size + 1 .. Len(queue) : queue[i] \in late

\* What the tick has still to post was not posted before.
TakenFresh ==
  /\ pc # "send" => sending = <<>> /\ targets = <<>>
  /\ pc = "send" /\ kind # "signals" => Range(sending) \cap Range(posted[Endpoint]) = {}
  /\ pc = "send" => next \in 1 .. Len(sending)
  /\ kind = "signals" =>
       \A k \in 1 .. Len(targets) : \A i \in 1 .. Len(sending) :
         sending[i] \in Range(posted[component[targets[k]]]) =>
           sending[i] \in late \/ component[targets[k]] \in raced \/ (k = 1 /\ i < next)

QueueInv ==
  TypeOK /\ Distinct /\ Registered /\ QueuedFresh /\ LengthRead /\ TakenFresh /\ PostedOnceUnlessRaced
=============================================================================
