----------------------------- MODULE ServiceMain -----------------------------
(***************************************************************************)
(* The process of a generated service: main.go of the project template,    *)
(* with the telemetry it sets up and shuts down (pkg/tracing, pkg/metrics) *)
(* and App.Run in between.                                                 *)
(*                                                                         *)
(* Run is what Lifecycle promises of it, and no more (AppRun implements    *)
(* Lifecycle).  It may return with handlers still at work, cut off or left *)
(* by their callers; the deferred shutdowns run beside them, the later one *)
(* first.  The OpenTelemetry SDK is external: spans that end go into a     *)
(* bounded queue and are exported in batches to a collector that may be    *)
(* down.                                                                   *)
(***************************************************************************)
EXTENDS Naturals, FiniteSets

CONSTANTS Calls,
          QueueSize, BatchSize   \* of the batch span processor

ASSUME SizesAssumption == QueueSize \in Nat \ {0} /\ BatchSize \in Nat \ {0}

VARIABLES
  main,       \* where main is
  config,     \* what config.Load returned: is tracing, are metrics enabled
  exporter,   \* the connection to the collector: "none", "open", "closed"
  tracer,     \* the tracer provider: "none", "on", "stopped"
  meter,      \* the meter provider, likewise
  span,       \* the span of each call
  batch,      \* the spans being exported
  phase, broken, work   \* App.Run, as Lifecycle has it

run == <<phase, broken, work>>
setup == <<config, exporter, tracer, meter>>
vars == <<main, setup, span, batch, run>>

Run == INSTANCE Lifecycle WITH phase <- phase, broken <- broken, work <- work

Init == /\ main = "load"
        /\ config \in [tracing : BOOLEAN, metrics : BOOLEAN]
        /\ exporter = "none" /\ tracer = "none" /\ meter = "none"
        /\ span = [c \in Calls |-> "none"]
        /\ batch = {}
        /\ Run!Init

-----------------------------------------------------------------------------
(* Start-up.  An error returns from run(): what has been deferred so far runs. *)

LoadConfig == /\ main = "load"
              /\ main' \in {"tracing", "exited"}
              /\ UNCHANGED <<setup, span, batch, run>>

\* tracing.Init.  Without a resource the exporter is left open.
InitTracing ==
  /\ main = "tracing"
  /\ \/ /\ ~config.tracing
        /\ main' = "metrics"
        /\ UNCHANGED <<exporter, tracer>>
     \/ /\ config.tracing
        /\ main' = "metrics" /\ exporter' = "open" /\ tracer' = "on"
     \/ /\ config.tracing
        /\ main' = "exited" /\ exporter' \in {"none", "open"}
        /\ UNCHANGED tracer
  /\ UNCHANGED <<config, meter, span, batch, run>>

\* Mutant: an error here ends the process.
InitMetricsFatal ==
  /\ main = "metrics"
  /\ \/ /\ ~config.metrics
        /\ main' = "run"
        /\ UNCHANGED meter
     \/ /\ config.metrics
        /\ main' = "run" /\ meter' = "on"
     \/ /\ config.metrics
        /\ main' = "exited"
        /\ UNCHANGED meter
  /\ UNCHANGED <<config, exporter, tracer, span, batch, run>>

\* metrics.Init.
InitMetrics ==
  /\ main = "metrics"
  /\ \/ /\ ~config.metrics
        /\ main' = "run"
        /\ UNCHANGED meter
     \/ /\ config.metrics
        /\ main' = "run" /\ meter' = "on"
     \/ /\ config.metrics
        /\ main' = "closeTracing"
        /\ UNCHANGED meter
  /\ UNCHANGED <<config, exporter, tracer, span, batch, run>>

-----------------------------------------------------------------------------
(* App.Run, and the spans of its calls. *)

Queued == {c \in Calls : span[c] = "queued"}

\* The sampler decides; without a provider nothing is recorded.
Begin(c) ==
  /\ main = "run"
  /\ Run!Begin(c)
  /\ \E sampled \in {"open", "unrecorded"} :
       span' = [span EXCEPT ![c] = IF tracer = "on" THEN sampled ELSE "unrecorded"]
  /\ UNCHANGED <<main, setup, batch>>

\* Mutant: the queue has no bound.
EnqueuedUnbounded(c) == "queued"

\* A span that ends is queued, or dropped when the queue is full.
Enqueued(c) == IF Cardinality(Queued) < QueueSize THEN "queued" ELSE "dropped"

\* The span ends inside the call, before the servers see the call as finished.
Finish(c) ==
  /\ main = "run"
  /\ Run!Finish(c)
  /\ span' = [span EXCEPT ![c] = IF @ = "open" THEN Enqueued(c) ELSE @]
  /\ UNCHANGED <<main, setup, batch>>

\* The caller hangs up, and the handler goes on with its span.
HangUp(c) ==
  /\ main = "run"
  /\ Run!Leave(c)
  /\ UNCHANGED <<main, setup, span, batch>>

\* A handler whose call is over goes on while the process lives.  Its span looks
\* the processor up, unless the provider was stopped ...
EndLate(c) ==
  /\ main # "exited"
  /\ work[c] \in {"lost", "left"} /\ span[c] = "open"
  /\ span' = [span EXCEPT ![c] = IF tracer = "on" THEN "ending" ELSE "late"]
  /\ UNCHANGED <<main, setup, batch, run>>

\* ... and enters the queue, drained or not.
EnqueueLate(c) ==
  /\ main # "exited"
  /\ span[c] = "ending"
  /\ span' = [span EXCEPT ![c] = Enqueued(c)]
  /\ UNCHANGED <<main, setup, batch, run>>

Serve == /\ main = "run"
         /\ Run!Break \/ Run!Drain \/ Run!RunOut \/ Run!GiveUp
         /\ UNCHANGED <<main, setup, span, batch>>

\* Run returns, with or without an error.
RunReturns == /\ main = "run"
              /\ Run!Exit
              /\ main' = "closeMetrics"
              /\ UNCHANGED <<setup, span, batch>>

-----------------------------------------------------------------------------
(* The batch span processor. *)

TakeBatch ==
  /\ main # "exited"
  /\ exporter = "open" /\ batch = {}
  /\ batch' \in {b \in SUBSET Queued : Cardinality(b) \in 1 .. BatchSize}
  /\ span' = [c \in Calls |-> IF c \in batch' THEN "exporting" ELSE span[c]]
  /\ UNCHANGED <<main, setup, run>>

\* The collector has answered, or the export has timed out.
SettleBatch ==
  /\ main # "exited"
  /\ batch # {}
  /\ \E fate \in {"exported", "failed"} :
       span' = [c \in Calls |-> IF c \in batch THEN fate ELSE span[c]]
  /\ batch' = {}
  /\ UNCHANGED <<main, setup, run>>

-----------------------------------------------------------------------------
(* The deferred shutdowns; their errors are ignored. *)

ShutdownMetrics ==
  /\ main = "closeMetrics"
  /\ main' = "closeTracing"
  /\ meter' = IF meter = "on" THEN "stopped" ELSE meter
  /\ UNCHANGED <<config, exporter, tracer, span, batch, run>>

\* No more spans are taken ...
ShutdownTracing ==
  /\ main = "closeTracing"
  /\ IF tracer = "on" THEN main' = "drain" /\ tracer' = "stopped"
                      ELSE main' = "exited" /\ UNCHANGED tracer
  /\ UNCHANGED <<config, exporter, meter, span, batch, run>>

\* Mutant: the shutdown closes the exporter without draining the queue.
DrainedUnflushed ==
  /\ main = "drain"
  /\ batch = {}
  /\ exporter' = "closed" /\ main' = "exited"
  /\ UNCHANGED <<config, tracer, meter, span, batch, run>>

\* Mutant: the shutdown waits for the spans that are still open.
DrainedOfAll ==
  /\ main = "drain"
  /\ Queued = {} /\ batch = {} /\ \A c \in Calls : span[c] # "open"
  /\ exporter' = "closed" /\ main' = "exited"
  /\ UNCHANGED <<config, tracer, meter, span, batch, run>>

\* ... those in the queue are exported, and the exporter is closed.  There is no
\* deadline on it but the exporter's own on each batch.  Then the process exits.
Drained ==
  /\ main = "drain"
  /\ Queued = {} /\ batch = {}
  /\ exporter' = "closed" /\ main' = "exited"
  /\ UNCHANGED <<config, tracer, meter, span, batch, run>>

-----------------------------------------------------------------------------
StartUp == LoadConfig \/ InitTracing \/ InitMetrics
CloseDown == ShutdownMetrics \/ ShutdownTracing \/ Drained
Export == TakeBatch \/ SettleBatch

\* Run takes notice that gRPC has broken, and of its deadline.
Stop == /\ main = "run"
        /\ (broken /\ Run!Drain) \/ Run!RunOut
        /\ UNCHANGED <<main, setup, span, batch>>

Next == \/ StartUp \/ CloseDown \/ Export \/ Serve \/ RunReturns
        \/ \E c \in Calls : Begin(c) \/ Finish(c) \/ HangUp(c)
                          \/ EndLate(c) \/ EnqueueLate(c)

\* main's goroutine and the exporter's are scheduled, exports time out, and Run
\* takes notice.  Nothing is assumed of the calls, nor that Run returns.
Fairness == /\ WF_vars(StartUp \/ CloseDown)
            /\ WF_vars(Export)
            /\ WF_vars(Stop)

Spec == Init /\ [][Next]_vars /\ Fairness

-----------------------------------------------------------------------------
TypeOK ==
  /\ main \in {"load", "tracing", "metrics", "run", "closeMetrics", "closeTracing",
               "drain", "exited"}
  /\ config \in [tracing : BOOLEAN, metrics : BOOLEAN]
  /\ exporter \in {"none", "open", "closed"}
  /\ {tracer, meter} \subseteq {"none", "on", "stopped"}
  /\ span \in [Calls -> {"none", "unrecorded", "open", "ending", "late", "queued",
                         "dropped", "exporting", "exported", "failed"}]
  /\ batch = {c \in Calls : span[c] = "exporting"}
  /\ Cardinality(Queued) <= QueueSize
  /\ phase \in {"up", "draining", "overdue", "down"}
  /\ broken \in BOOLEAN
  /\ work \in [Calls -> {"new", "running", "answered", "left", "lost"}]

\* When the process exits, nothing it has recorded of an answered call is still
\* on its way: the span was handed to the collector, or the collector or a full
\* queue refused it.  The order of the defers and the bounded queue do not lose
\* it, nor do handlers that end beside the shutdown.
SpansHandedOver ==
  main = "exited" =>
    \A c \in Calls : work[c] = "answered" =>
      span[c] \in {"unrecorded", "exported", "failed", "dropped"}

\* Telemetry frames Run: from its start to its return whatever the configuration
\* asks for has been set up and not been stopped, and no provider is running when
\* the process exits, wherever the start-up failed.
TelemetryFramesRun ==
  /\ main = "run" => /\ config.tracing => tracer = "on"
                     /\ config.metrics => meter = "on"
  /\ main = "exited" => "on" \notin {tracer, meter}

\* Run returns once it has been told to stop: AppRun's Stops, which itself takes
\* every gRPC handler to end once its call is over.
RunReturnsWhenTold == (main = "run" /\ phase # "up") ~> (main # "run")

\* If Run returns when it is told to, the process serves for good, unbroken, or
\* exits: no span still open and no failing collector keeps main in its deferred
\* shutdowns.
ServesOrExits ==
  RunReturnsWhenTold =>
    <>(main = "exited" \/ [](main = "run" /\ phase = "up" /\ ~broken))
=============================================================================
