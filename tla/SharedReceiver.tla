---------------------------- MODULE SharedReceiver ----------------------------
(***************************************************************************)
(* The life of the otlp and the skywalking receiver: one object serves     *)
(* every pipeline that uses a configuration.  otlp.go, otlphttp.go,        *)
(* factory.go and sharedcomponent.go of the otlp receiver,                 *)
(* skywalking_receiver.go, factory.go and the common sharedcomponent.go of *)
(* the other.                                                              *)
(*                                                                         *)
(* The collector creates a receiver for each pipeline, starts them one by  *)
(* one, and shuts all of them down at the end, at a reload, and after a    *)
(* Start that failed.  A Start binds two ports and can fail at every step; *)
(* a Shutdown waits for requests that are being served.                    *)
(***************************************************************************)
EXTENDS Integers, Sequences, FiniteSets

CONSTANTS
  Pipeline,    \* kinds of pipeline, with "traces" among them
  Request,     \* requests
  MaxMade,     \* bound: receivers made, one per configuration
  NoOne

\* What the constants are.
Configured == "traces" \in Pipeline /\ MaxMade \in Nat \ {0}

Protocol == {"grpc", "http"}
Instance == 1..MaxMade

VARIABLES
  kind,        \* "otlp" or "skywalking"
  enabled,     \* protocols of the configuration
  fillProc,    \* the fillproc extension, "none", "known" or "unknown"; the otlp
               \* receiver goes on without an unknown one
  pipes,       \* pipelines that use the receiver
  phase, todo, \* what the collector does, and for which pipelines
  at,          \* the pipeline that starts or stops, and the steps that are left
  made, comp,  \* receivers made; the one in the map of shared components
  startOnce, stopOnce,
  registered,  \* per receiver: its consumers
  server,      \* per receiver: protocols whose server is built
  bound,       \* per receiver: protocols whose port it holds
  serving,     \* per receiver: protocols whose Serve goroutine runs
  foreign,     \* ports held by other processes
  request,     \* per request: where it is, and its answer
  status       \* per pipeline: the status reported last

configVars == <<kind, enabled, fillProc, pipes>>
onceVars == <<made, comp, startOnce, stopOnce, registered>>
serverVars == <<server, bound, serving>>
vars == <<configVars, phase, todo, at, onceVars, serverVars, foreign, request, status>>

Idle == [pipe |-> NoOne, steps |-> <<>>, unwind |-> FALSE]
Step(op, protocol) == [op |-> op, protocol |-> protocol]
Steps == [op : {"build", "bind", "stop"}, protocol : Protocol]

New == [state |-> "new", inst |-> 0, protocol |-> "http", pipe |-> NoOne, error |-> "none"]

\* An answer: a status code of HTTP, or of grpc.
Answer == {"200", "400", "405", "415", "429", "500", "503", "Unavailable", "Internal", "ResourceExhausted"}

TypeOK ==
  /\ kind \in {"otlp", "skywalking"} /\ enabled \in (SUBSET Protocol) \ {{}}
  /\ pipes \in (SUBSET Pipeline) \ {{}} /\ todo \subseteq pipes
  /\ made \in 0..MaxMade /\ comp \in {0, made}
  /\ startOnce \subseteq 1..made /\ stopOnce \subseteq 1..made
  /\ server \in [Instance -> SUBSET Protocol]
  /\ bound \in [Instance -> SUBSET Protocol]
  /\ serving \in [Instance -> SUBSET Protocol]
  /\ foreign \subseteq Protocol
  /\ phase \in {"build", "start", "starting", "run", "shutdown", "stopping", "down", "crashed"}
  /\ at \in [pipe : Pipeline \cup {NoOne}, steps : Seq(Steps), unwind : BOOLEAN]
  /\ request \in [Request -> [state : {"new", "export"} \cup Answer, inst : 0..MaxMade, protocol : Protocol,
                              pipe : Pipeline \cup {NoOne}, error : {"none", "plain", "permanent", "exhausted"}]]

Init ==
  /\ kind \in {"otlp", "skywalking"}
  /\ enabled \in (SUBSET Protocol) \ {{}}
  /\ fillProc \in (IF kind = "otlp" THEN {"none"} ELSE {"none", "known", "unknown"})
  /\ pipes \in (SUBSET Pipeline) \ {{}}
  /\ phase = "build" /\ todo = pipes /\ at = Idle
  /\ made = 0 /\ comp = 0 /\ startOnce = {} /\ stopOnce = {}
  /\ registered = [i \in Instance |-> {}]
  /\ server = [i \in Instance |-> {}] /\ bound = [i \in Instance |-> {}]
  /\ serving = [i \in Instance |-> {}]
  /\ foreign = {}
  /\ request = [r \in Request |-> New]
  /\ status = [p \in Pipeline |-> "none"]

\* telemetry.ReportStatus: LoadOrStore wraps it for every settings it sees.
\* The common SharedComponent reports nothing.
ReportStatus(inst, event) ==
  IF kind = "otlp" THEN [p \in Pipeline |-> IF p \in registered[inst] THEN event ELSE status[p]]
  ELSE status

-----------------------------------------------------------------------------
(***************************************************************************)
(* Creation.                                                               *)
(***************************************************************************)

\* LoadOrStore and GetOrAdd: the receiver of the map, or a new one.
LoadOrStore == IF comp # 0 THEN comp ELSE made + 1

\* createTraces, createMetrics, createLog, createTracesReceiver and
\* createMetricsReceiver, with the register functions.
Create(p) ==
  /\ phase = "build" /\ p \in todo
  /\ comp' = LoadOrStore
  /\ made' = IF comp # 0 THEN made ELSE made + 1
  /\ registered' = [registered EXCEPT ![LoadOrStore] = @ \cup {p}]
  /\ todo' = IF todo = {p} THEN pipes ELSE todo \ {p}
  /\ phase' = IF todo = {p} THEN "start" ELSE phase
  /\ UNCHANGED <<configVars, at, startOnce, stopOnce, serverVars, foreign, request, status>>

-----------------------------------------------------------------------------
(***************************************************************************)
(* Start.                                                                  *)
(***************************************************************************)

\* otlpReceiver.Start builds the server of a protocol before it binds the port;
\* startCollector binds the http port first.
StartSteps ==
  LET grpc == << Step("build", "grpc"), Step("bind", "grpc") >>
      http == IF kind = "otlp" THEN << Step("build", "http"), Step("bind", "http") >>
                               ELSE << Step("bind", "http"), Step("build", "http") >>
  IN  CASE enabled = {"grpc"} -> grpc
        [] enabled = {"http"} -> http
        [] OTHER -> IF kind = "otlp" THEN grpc \o http ELSE http \o grpc

\* Both Shutdown functions stop the http server first.
StopSteps == << Step("stop", "http"), Step("stop", "grpc") >>

\* Component.Start and SharedComponent.Start: only the first call starts.
Start(p) ==
  /\ phase = "start" /\ p \in todo
  /\ IF comp \in startOnce
     THEN /\ todo' = todo \ {p}
          /\ UNCHANGED <<phase, at, startOnce, status>>
     ELSE /\ startOnce' = startOnce \cup {comp}
          /\ status' = ReportStatus(comp, "starting")
          /\ at' = [pipe |-> p, steps |-> StartSteps, unwind |-> FALSE]
          /\ phase' = IF kind = "skywalking" /\ fillProc = "known" /\ "traces" \notin pipes
                      THEN "crashed" ELSE "starting"
          /\ UNCHANGED todo
  /\ UNCHANGED <<configVars, made, comp, stopOnce, registered, serverVars, foreign, request>>

\* A server is built; a Serve goroutine runs once the port is bound as well.
Built(s) == [server EXCEPT ![comp] = @ \cup {s.protocol}]
Bound(s) == [bound EXCEPT ![comp] = @ \cup {s.protocol}]
Served(s) ==
  IF s.protocol \in (IF s.op = "build" THEN bound[comp] ELSE server[comp])
  THEN [serving EXCEPT ![comp] = @ \cup {s.protocol}] ELSE serving

\* A port can be bound unless somebody holds it.
Free(protocol) == protocol \notin foreign /\ \A i \in Instance : protocol \notin bound[i]

\* startGRPCServer, startHTTPServer and startCollector, one step.
StartStep ==
  LET s == Head(at.steps) IN
  /\ phase = "starting" /\ at.steps # <<>> /\ ~at.unwind
  /\ ~(kind = "skywalking" /\ fillProc = "unknown")
  /\ s.op = "bind" => Free(s.protocol)
  /\ server' = IF s.op = "build" THEN Built(s) ELSE server
  /\ bound' = IF s.op = "bind" THEN Bound(s) ELSE bound
  /\ serving' = Served(s)
  /\ at' = [at EXCEPT !.steps = Tail(@)]
  /\ UNCHANGED <<configVars, phase, todo, onceVars, foreign, request, status>>

\* otlpReceiver.Start: an http server that cannot start takes the grpc server
\* down with it.
Unwinds(s) == kind = "otlp" /\ s.protocol = "http"

\* A step fails: ToServer returns an error, or the port is taken.  The
\* skywalking receiver also fails for an unknown extension.
StartStepFails ==
  LET s == Head(at.steps) IN
  /\ phase = "starting" /\ at.steps # <<>> /\ ~at.unwind
  /\ s.op = "bind" => ~Free(s.protocol) \/ (kind = "skywalking" /\ fillProc = "unknown")
  /\ IF Unwinds(s)
     THEN /\ at' = [at EXCEPT !.unwind = TRUE, !.steps = StopSteps]
          /\ UNCHANGED <<phase, todo, status>>
     ELSE /\ at' = Idle
          /\ status' = ReportStatus(comp, "permanentError")
          /\ phase' = "shutdown" /\ todo' = pipes
  /\ UNCHANGED <<configVars, onceVars, serverVars, foreign, request>>

StartEnds ==
  /\ phase = "starting" /\ at.steps = <<>>
  /\ IF at.unwind
     THEN /\ status' = ReportStatus(comp, "permanentError")
          /\ phase' = "shutdown" /\ todo' = pipes
     ELSE /\ phase' = "start" /\ todo' = todo \ {at.pipe}
          /\ UNCHANGED status
  /\ at' = Idle
  /\ UNCHANGED <<configVars, onceVars, serverVars, foreign, request>>

\* Every receiver is started.
Run ==
  /\ phase = "start" /\ todo = {}
  /\ phase' = "run"
  /\ UNCHANGED <<configVars, todo, at, onceVars, serverVars, foreign, request, status>>

-----------------------------------------------------------------------------
(***************************************************************************)
(* Requests.                                                               *)
(***************************************************************************)

\* A request that cannot be read: another method, another content type, a body
\* that cannot be decoded (readContentType, readAndCloseBody, unmarshal).  The
\* skywalking HTTPHandler takes every content type and answers well what it
\* cannot decode.
ReadError == IF kind = "otlp" THEN {"method", "contentType", "decode"} ELSE {"method", "decode"}
ReadErrorCode(e) == CASE e = "method" -> "405"
                      [] e = "contentType" -> "415"
                      [] e = "decode" -> IF kind = "otlp" THEN "400" ELSE "200"

\* GetStatusFromError: an error that carries no grpc status is one the client
\* may try again, unless it is permanent.
GetStatusFromError(e) == CASE e = "plain" -> "Unavailable"
                           [] e = "permanent" -> "Internal"
                           [] e = "exhausted" -> "ResourceExhausted"

\* GetHTTPStatusCodeFromStatus.
GetHTTPStatusCodeFromStatus(code) ==
  CASE code = "Unavailable" -> "503" [] code = "ResourceExhausted" -> "429" [] OTHER -> "500"

\* writeError for an error of Export.  Collect, CollectInSync and HTTPHandler of
\* the skywalking receiver tell the agent nothing.
ErrorCode(protocol, e) ==
  CASE kind = "skywalking" -> "200"
    [] kind = "otlp" /\ protocol = "http" -> GetHTTPStatusCodeFromStatus(GetStatusFromError(e))
    [] kind = "otlp" /\ protocol = "grpc" -> GetStatusFromError(e)

InFlight(r) == request[r].state = "export"

\* A request for a pipeline reaches a server that is not stopping.
Arrive(r, i, protocol, p) ==
  /\ request[r].state = "new"
  /\ protocol \in serving[i] /\ protocol \in bound[i] /\ p \in registered[i]
  /\ \/ request' = [request EXCEPT ![r] = [@ EXCEPT !.state = "export", !.inst = i, !.protocol = protocol, !.pipe = p]]
     \/ /\ protocol = "http"
        /\ \E e \in ReadError : request' = [request EXCEPT ![r] = [@ EXCEPT !.state = ReadErrorCode(e)]]
  /\ UNCHANGED <<configVars, phase, todo, at, onceVars, serverVars, foreign, status>>

\* Export and ExportHttp: the next consumer takes it, or returns an error.
Export(r) ==
  /\ InFlight(r)
  /\ \/ request' = [request EXCEPT ![r] = [@ EXCEPT !.state = "200"]]
     \/ \E e \in {"plain", "permanent", "exhausted"} :
          request' = [request EXCEPT ![r] = [@ EXCEPT !.state = ErrorCode(request[r].protocol, e), !.error = e]]
  /\ UNCHANGED <<configVars, phase, todo, at, onceVars, serverVars, foreign, status>>

-----------------------------------------------------------------------------
(***************************************************************************)
(* Shutdown.                                                               *)
(***************************************************************************)

BeginShutdown ==
  /\ phase = "run"
  /\ phase' = "shutdown" /\ todo' = pipes
  /\ UNCHANGED <<configVars, at, onceVars, serverVars, foreign, request, status>>

\* Component.Shutdown and SharedComponent.Shutdown: only the first call stops.
Shutdown(p) ==
  /\ phase = "shutdown" /\ p \in todo
  /\ IF made \in stopOnce
     THEN /\ todo' = todo \ {p}
          /\ UNCHANGED <<phase, at, stopOnce, status>>
     ELSE /\ stopOnce' = stopOnce \cup {made}
          /\ status' = ReportStatus(made, "stopping")
          /\ at' = [pipe |-> p, steps |-> StopSteps, unwind |-> FALSE]
          /\ phase' = "stopping"
          /\ UNCHANGED todo
  /\ UNCHANGED <<configVars, made, comp, startOnce, registered, serverVars, foreign, request>>

Stops == phase = "stopping" \/ at.unwind

\* http Shutdown and GracefulStop of a server that was built: its port is closed
\* and its Serve goroutine ends.
CloseListener ==
  LET protocol == Head(at.steps).protocol IN
  /\ Stops /\ at.steps # <<>> /\ protocol \in serving[made]
  /\ bound' = [bound EXCEPT ![made] = @ \ {protocol}]
  /\ serving' = [serving EXCEPT ![made] = @ \ {protocol}]
  /\ UNCHANGED <<configVars, phase, todo, at, onceVars, server, foreign, request, status>>

\* A slip to be noticed: Close in place of Shutdown.
DrainedAtOnce(protocol) == TRUE

\* Both wait for the requests that are being served.
RequestsDrained(protocol) ==
  \A r \in Request : ~(InFlight(r) /\ request[r].inst = made /\ request[r].protocol = protocol)

StopProtocol ==
  LET protocol == Head(at.steps).protocol IN
  /\ Stops /\ at.steps # <<>> /\ protocol \notin serving[made]
  /\ RequestsDrained(protocol)
  /\ at' = [at EXCEPT !.steps = Tail(@)]
  /\ UNCHANGED <<configVars, phase, todo, onceVars, serverVars, foreign, request, status>>

\* The receiver leaves the map of shared components.
ShutdownEnds ==
  /\ phase = "stopping" /\ at.steps = <<>>
  /\ comp' = 0
  /\ status' = ReportStatus(made, "stopped")
  /\ at' = Idle /\ phase' = "shutdown" /\ todo' = todo \ {at.pipe}
  /\ UNCHANGED <<configVars, made, startOnce, stopOnce, registered, serverVars, foreign, request>>

Down ==
  /\ phase = "shutdown" /\ todo = {}
  /\ phase' = "down"
  /\ UNCHANGED <<configVars, todo, at, onceVars, serverVars, foreign, request, status>>

\* The configuration is loaded again, as a new key.
Reload ==
  /\ phase = "down" /\ made < MaxMade
  /\ phase' = "build" /\ todo' = pipes
  /\ UNCHANGED <<configVars, at, onceVars, serverVars, foreign, request, status>>

\* Another process takes or leaves a port.
Elsewhere ==
  /\ \E protocol \in Protocol :
       \/ Free(protocol) /\ foreign' = foreign \cup {protocol}
       \/ foreign' = foreign \ {protocol} /\ protocol \in foreign
  /\ UNCHANGED <<configVars, phase, todo, at, onceVars, serverVars, request, status>>

CollectorStep ==
  \/ \E p \in Pipeline : Create(p) \/ Start(p) \/ Shutdown(p)
  \/ StartStep \/ StartStepFails \/ StartEnds \/ Run
  \/ CloseListener \/ StopProtocol \/ ShutdownEnds \/ Down

Next ==
  \/ CollectorStep \/ BeginShutdown \/ Reload \/ Elsewhere
  \/ \E r \in Request : Export(r)
  \/ \E r \in Request, i \in Instance, protocol \in Protocol, p \in Pipeline : Arrive(r, i, protocol, p)

Spec == Init /\ [][Next]_vars

-----------------------------------------------------------------------------
(***************************************************************************)
(* Properties.                                                             *)
(***************************************************************************)

\* A receiver whose Shutdown has ended serves nobody, has no goroutine and no
\* request left, and holds no port: the next one can bind it.  Except that the
\* skywalking receiver binds its http port before it builds the server, and
\* keeps it when it cannot be built.
ReleasedWhenDown ==
  phase \in {"down", "build"} => \A i \in 1..made :
    /\ serving[i] = {}
    /\ \A r \in Request : InFlight(r) => request[r].inst # i
    /\ bound[i] # {} => kind = "skywalking" /\ bound[i] = {"http"} /\ "http" \notin server[i]

-----------------------------------------------------------------------------
(***************************************************************************)
(* The inductive invariant.                                                *)
(***************************************************************************)

\* A receiver serves nobody and has no request left.
Released(i) == serving[i] = {} /\ \A r \in Request : InFlight(r) => request[r].inst # i

\* Receivers come one after the other: all but the last one are released, and
\* the last one as well once its Shutdown has ended.
OneAtATime ==
  /\ \A i \in Instance \ {made} : Released(i)
  /\ phase \in {"build", "down"} => \A i \in Instance : Released(i)
  /\ phase = "shutdown" /\ made \in stopOnce => Released(made)

\* Which receiver a phase is about, and whether its Shutdown was called: it is
\* for the first pipeline that is shut down.
PhaseOfLast ==
  /\ phase = "build" /\ comp = 0 => made < MaxMade
  /\ phase \in {"start", "starting", "run", "stopping", "crashed"} => comp = made
  /\ phase \notin {"build"} => made > 0
  /\ comp # 0 /\ phase # "stopping" => made \notin stopOnce
  /\ phase = "shutdown" /\ made \notin stopOnce => todo = pipes /\ comp = made
  /\ phase = "stopping" => made \in stopOnce
  /\ phase = "down" => comp = 0
  /\ phase # "starting" => ~at.unwind

\* A port is served, except the http port of a skywalking receiver before its
\* server is built.
PortsServed ==
  \A i \in Instance : \A p \in bound[i] :
    p \in serving[i] \/ (kind = "skywalking" /\ p = "http" /\ "http" \notin server[i])

\* ... because that is the only port bound before its server is built.
BuiltBeforeBound ==
  phase = "starting" /\ ~at.unwind =>
    \A j \in DOMAIN at.steps :
      LET s == at.steps[j] IN
      s.op = "bind" /\ ~(kind = "skywalking" /\ s.protocol = "http") =>
        \/ s.protocol \in server[comp]
        \/ \E l \in 1 .. j - 1 : at.steps[l] = Step("build", s.protocol)

\* A protocol that is stopped is not served and its requests are done.
Stopped ==
  Stops => \A p \in Protocol :
    (\A j \in DOMAIN at.steps : at.steps[j].protocol # p) => p \notin serving[made] /\ RequestsDrained(p)

SharedInv == TypeOK /\ OneAtATime /\ PhaseOfLast /\ PortsServed /\ BuiltBeforeBound /\ Stopped
=============================================================================
