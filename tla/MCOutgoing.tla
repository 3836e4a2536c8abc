----------------------------- MODULE MCOutgoing -----------------------------
(***************************************************************************)
(* What leaves the backsampling processor, for TLC: the ids of SampleQuery *)
(* and the queues of OutgoingQueue.  They share no state, so one of them   *)
(* is explored at a time.  Of the items of a queue one is in the tick and  *)
(* one is appended while it runs; one client fails and one does not.  An   *)
(* item that was lost may be handed over again.                            *)
(***************************************************************************)
EXTENDS SampleQuery

CONSTANTS Item, Component, Request, Endpoint, Kinds

VARIABLES
  part,     \* the sender that is explored
  kind, queue, component, handler, saw, udsClients, isHealth, stopCh, ticker, fired, pc,
  queueSize, sending, targets, next, posted, late, raced

senderVars == <<kind, queue, component, handler, saw, udsClients, isHealth, stopCh, ticker, fired,
                pc, queueSize, sending, targets, next, posted, late, raced>>

OQ == INSTANCE OutgoingQueue WITH size <- queueSize

ASSUME QueuesAssumption == OQ!QueueAssumption

\* The part that is not explored stays in an initial state.
MCInit ==
  /\ part \in {"ids", "queue"}
  /\ Init /\ OQ!Init
  /\ part = "ids" => kind = CHOOSE k \in Kinds : TRUE
  /\ part = "ids" \/ kind # "signals" => component = CHOOSE c \in [Request -> Component] : TRUE
  /\ part = "queue" => retryNum = CHOOSE n \in RetryNums : TRUE

IdPart(A) == part = "ids" /\ A /\ UNCHANGED <<part, senderVars>>
QueuePart(A) == part = "queue" /\ A /\ UNCHANGED <<part, vars>>

MCVars == <<part, vars, senderVars>>

\* The tickers fire and their goroutines run: every call comes to an end.
MCSpec ==
  /\ MCInit /\ [][IdPart(Next) \/ QueuePart(OQ!Next)]_MCVars
  /\ WF_MCVars(IdPart(Query)) /\ WF_MCVars(IdPart(QuerySucceeds \/ QueryFails))
  /\ WF_MCVars(QueuePart(OQ!Fire)) /\ WF_MCVars(QueuePart(OQ!StopTicker))
  /\ WF_MCVars(QueuePart(OQ!Goroutine))

\* The properties of OutgoingQueue: nothing is posted twice, nothing is cut off
\* that was not sent, and nothing stays.
PostedOnceUnlessRaced == OQ!PostedOnceUnlessRaced
NeverCutUnsent == OQ!NeverCutUnsent
ItemsLeave == OQ!ItemsLeave
=============================================================================
