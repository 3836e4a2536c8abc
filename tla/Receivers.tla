------------------------------ MODULE Receivers ------------------------------
(***************************************************************************)
(* The receivers: the shared otlp and skywalking receiver, the traces of   *)
(* the skywalking receiver, and the prometheus receiver.  They share no    *)
(* state, so a behaviour is one of any of them: part says which, and the   *)
(* others stay as they are.                                                *)
(***************************************************************************)
EXTENDS Integers

CONSTANTS
  NoOne,
  Pipeline, Request, MaxMade,                    \* of SharedReceiver
  Call, Segment, Word, WordXor(_, _),            \* of SkywalkingTrace
  Write, Content, BufferSize, MaxStarts          \* of PrometheusReceiver

VARIABLES
  part,
  kind, enabled, fillProc, pipes, phase, todo, at, made, comp, startOnce, stopOnce,
  registered, server, bound, serving, foreign, request, status,
  stage, segment, ptd, sent, ioTraceMap, routeUrlMap, table, crashed, delivered, failed, missed,
  gen, life, listener, channel, open, cancelled, drainer, hand, content, handler, of, total,
  metrics, consumed, flushFailed

sharedVars == <<kind, enabled, fillProc, pipes, phase, todo, at, made, comp, startOnce, stopOnce,
                registered, server, bound, serving, foreign, request, status>>
writeVars == <<gen, life, listener, channel, open, cancelled, drainer, hand, content, handler, of,
               total, metrics, consumed, flushFailed>>
traceVars == <<stage, segment, ptd, sent, ioTraceMap, routeUrlMap, table, crashed, delivered, failed,
               missed>>

SR == INSTANCE SharedReceiver
SW == INSTANCE SkywalkingTrace WITH None <- NoOne, pc <- stage
PR == INSTANCE PrometheusReceiver WITH Request <- Write, Nothing <- NoOne

ASSUME SharedAssumption == SR!Configured
ASSUME SegmentsAssumption == SW!Configured
ASSUME XorAssumption == SW!XorCancels
ASSUME WritesAssumption == PR!Configured

\* The parts that are not explored stay in an initial state.
ReceiversInit ==
  /\ part \in {"shared", "skywalking", "prometheus"}
  /\ SR!Init /\ SW!Init /\ PR!PromInit
  /\ part # "shared" => kind = "otlp" /\ enabled = SR!Protocol /\ pipes = Pipeline
  /\ part # "prometheus" => content = CHOOSE c \in Content : TRUE

SharedPart(A) == part = "shared" /\ A /\ UNCHANGED <<part, traceVars, writeVars>>
SkywalkingPart(A) == part = "skywalking" /\ A /\ UNCHANGED <<part, sharedVars, writeVars>>
PrometheusPart(A) == part = "prometheus" /\ A /\ UNCHANGED <<part, sharedVars, traceVars>>

receiversVars == <<part, sharedVars, traceVars, writeVars>>
ReceiversNext == SharedPart(SR!Next) \/ SkywalkingPart(SW!Next) \/ PrometheusPart(PR!PromNext)

\* The goroutines of the prometheus receiver run and its next consumer returns.
ReceiversSpec ==
  /\ ReceiversInit /\ [][ReceiversNext]_receiversVars
  /\ \A r \in Write : WF_receiversVars(PrometheusPart(PR!HandlerStep(r)))
  /\ \A g \in PR!Gen : WF_receiversVars(PrometheusPart(PR!DrainStep(g)))
  /\ WF_receiversVars(PrometheusPart(PR!LifeStep))

\* The property of SharedReceiver: Shutdown releases what any Start took.
ReleasedWhenDown == SR!ReleasedWhenDown

\* The properties of SkywalkingTrace: its cache neither loses nor doubles a
\* segment, pairs the halves of a request, and spans find their parents.
SegmentInOnePlace == SW!SegmentInOnePlace
PairedUnlessMissed == SW!PairedUnlessMissed
ParentsResolve == SW!ParentsResolve

\* The properties of PrometheusReceiver: samples are accounted for, accepted
\* requests are consumed, and every request is answered.
SamplesAccounted == PR!SamplesAccounted
AcceptedConsumed == PR!AcceptedConsumed
RequestsAnswered == PR!RequestsAnswered
=============================================================================
