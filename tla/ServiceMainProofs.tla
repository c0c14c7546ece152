-------------------------- MODULE ServiceMainProofs --------------------------
(***************************************************************************)
(* Theorems about ServiceMain: telemetry frames Run, and the spans of      *)
(* answered calls are handed over, for any calls and sizes of queue.       *)
(***************************************************************************)
EXTENDS ServiceMain, FiniteSetTheorems, TLAPS

\* The providers by the place of main.
Providers ==
  /\ main \in {"load", "tracing"} => tracer = "none"
  /\ main \in {"load", "tracing", "metrics"} => meter = "none"
  /\ main \in {"metrics", "run", "closeMetrics", "closeTracing"} => tracer # "stopped"
  /\ main = "drain" => tracer = "stopped"
  /\ main = "exited" => tracer # "on"
  /\ main \in {"run", "closeMetrics"} => meter # "stopped"
  /\ main \in {"metrics", "run"} /\ config.tracing => tracer = "on"
  /\ main = "run" /\ config.metrics => meter = "on"
  /\ main \in {"closeTracing", "drain", "exited"} => meter # "on"

\* No call is taken before Run.
Served == main \in {"load", "tracing", "metrics"} => \A c \in Calls : work[c] = "new"

\* The span of a call by what became of the call.
Spans ==
  \A c \in Calls :
    /\ work[c] = "new" => span[c] = "none"
    /\ work[c] = "running" => span[c] \in {"open", "unrecorded"}
    /\ work[c] = "answered" =>
         span[c] \in {"unrecorded", "queued", "dropped", "exporting", "exported", "failed"}
    /\ tracer = "none" => span[c] \in {"none", "unrecorded"}

ServiceInv == /\ TypeOK /\ IsFiniteSet(Queued)
              /\ Providers /\ Served /\ Spans
              /\ SpansHandedOver

-----------------------------------------------------------------------------
(* The queue. *)

\* A span that ends finds room in the queue or is dropped.
LEMMA QueueTakes ==
  ASSUME IsFiniteSet(Queued), TypeOK, NEW c \in Calls,
         span' = [span EXCEPT ![c] = Enqueued(c)]
  PROVE  IsFiniteSet(Queued') /\ Cardinality(Queued') <= QueueSize
<1>1. Queued' \subseteq Queued \cup {c}
  BY DEF Queued, TypeOK
<1>2. CASE Cardinality(Queued) < QueueSize
  <2>1. IsFiniteSet(Queued \cup {c}) /\ Cardinality(Queued \cup {c}) <= Cardinality(Queued) + 1
    <3>1. /\ IsFiniteSet(Queued \cup {c})
          /\ Cardinality(Queued \cup {c}) =
               IF c \in Queued THEN Cardinality(Queued) ELSE Cardinality(Queued) + 1
      BY FS_AddElement
    <3>2. Cardinality(Queued) \in Nat
      BY FS_CardinalityType
    <3> QED
      BY <3>1, <3>2
  <2>2. IsFiniteSet(Queued') /\ Cardinality(Queued') <= Cardinality(Queued \cup {c})
    BY <1>1, <2>1, FS_Subset
  <2> QED
    BY <1>2, <2>1, <2>2, FS_CardinalityType, SizesAssumption
<1>3. CASE ~(Cardinality(Queued) < QueueSize)
  <2>1. Queued' \subseteq Queued
    BY <1>3 DEF Queued, Enqueued, TypeOK
  <2>2. IsFiniteSet(Queued') /\ Cardinality(Queued') <= Cardinality(Queued)
    BY <2>1, FS_Subset
  <2> QED
    BY <2>2, FS_CardinalityType, SizesAssumption DEF TypeOK
<1> QED
  BY <1>2, <1>3

\* A step that queues nothing leaves room.
LEMMA QueueShrinks ==
  ASSUME IsFiniteSet(Queued), Cardinality(Queued) <= QueueSize, Queued' \subseteq Queued
  PROVE  IsFiniteSet(Queued') /\ Cardinality(Queued') <= QueueSize
<1>1. IsFiniteSet(Queued') /\ Cardinality(Queued') <= Cardinality(Queued)
  BY FS_Subset
<1> QED
  BY <1>1, FS_CardinalityType, SizesAssumption

-----------------------------------------------------------------------------
(* The invariant. *)

LEMMA ServiceInit == Init => ServiceInv
<1> SUFFICES ASSUME Init PROVE ServiceInv
  OBVIOUS
<1>1. Queued = {}
  BY DEF Init, Queued
<1>2. IsFiniteSet(Queued) /\ Cardinality(Queued) <= QueueSize
  BY <1>1, FS_EmptySet, SizesAssumption
<1>3. TypeOK
  BY <1>2 DEF Init, TypeOK, Run!Init
<1> QED
  BY <1>2, <1>3 DEF Init, ServiceInv, Providers, Served, Spans, SpansHandedOver, Run!Init

\* Steps of main that leave calls and spans alone.
LEMMA MainKeeps ==
  ASSUME ServiceInv,
         LoadConfig \/ InitTracing \/ InitMetrics \/ ShutdownMetrics \/ ShutdownTracing \/ Drained
  PROVE  ServiceInv'
<1> USE DEF ServiceInv, LoadConfig, InitTracing, InitMetrics, ShutdownMetrics,
            ShutdownTracing, Drained, setup, run
<1>1. UNCHANGED <<span, batch, work, phase, broken>> /\ Queued' = Queued
  BY DEF Queued
<1>2. TypeOK' /\ IsFiniteSet(Queued')
  <2>1. main' \in {"load", "tracing", "metrics", "run", "closeMetrics", "closeTracing",
                   "drain", "exited"}
    BY DEF TypeOK
  <2>2. config' = config /\ exporter' \in {"none", "open", "closed"}
        /\ {tracer', meter'} \subseteq {"none", "on", "stopped"}
    BY DEF TypeOK
  <2> QED
    BY <1>1, <2>1, <2>2 DEF TypeOK
<1>3. Providers'
  BY DEF Providers, TypeOK
<1>4. Served'
  BY <1>1 DEF Served
<1>5. Spans'
  BY <1>1 DEF Spans
<1>6. SpansHandedOver'
  <2> SUFFICES ASSUME main' = "exited", NEW c \in Calls, work[c] = "answered"
               PROVE  span[c] \in {"unrecorded", "exported", "failed", "dropped"}
    BY <1>1 DEF SpansHandedOver
  <2>1. main \notin {"load", "tracing", "metrics"}
    BY DEF Served
  <2>2. CASE ShutdownTracing
    BY <2>2 DEF Spans, Providers, TypeOK
  <2>3. CASE Drained
    BY <2>3 DEF Spans, Queued, TypeOK
  <2> QED
    BY <2>1, <2>2, <2>3
<1> QED
  BY <1>2, <1>3, <1>4, <1>5, <1>6

\* Steps of App.Run.
LEMMA RunKeeps ==
  ASSUME ServiceInv, Serve \/ RunReturns \/ \E c \in Calls : HangUp(c)
  PROVE  ServiceInv'
<1> USE DEF ServiceInv, Serve, RunReturns, HangUp, setup, run
<1>1. UNCHANGED <<span, batch, config, exporter, tracer, meter>> /\ Queued' = Queued
      /\ main = "run"
  BY DEF Queued
<1>2. /\ phase' \in {"up", "draining", "overdue", "down"} /\ broken' \in BOOLEAN
      /\ work' \in [Calls -> {"new", "running", "answered", "left", "lost"}]
      /\ \A c \in Calls : \/ work'[c] = work[c]
                          \/ work[c] = "running" /\ work'[c] \in {"left", "lost"}
  <2>1. CASE Run!Break \/ Run!Drain \/ Run!RunOut
    BY <2>1 DEF TypeOK, Run!Break, Run!Drain, Run!RunOut
  <2>2. CASE Run!GiveUp
    BY <2>2 DEF TypeOK, Run!GiveUp, Run!Running
  <2>3. CASE Run!Exit
    BY <2>3 DEF TypeOK, Run!Exit, Run!Running
  <2>4. CASE \E c \in Calls : Run!Leave(c)
    BY <2>4 DEF TypeOK, Run!Leave
  <2> QED
    BY <2>1, <2>2, <2>3, <2>4
<1>3. TypeOK' /\ IsFiniteSet(Queued')
  BY <1>1, <1>2 DEF TypeOK
<1>4. Providers'
  BY <1>1 DEF Providers
<1>5. Served'
  BY <1>1 DEF Served
<1>6. Spans'
  BY <1>1, <1>2 DEF Spans
<1>7. SpansHandedOver'
  BY <1>1 DEF SpansHandedOver
<1> QED
  BY <1>3, <1>4, <1>5, <1>6, <1>7

\* Steps of a call while Run waits for it.
LEMMA CallKeeps ==
  ASSUME ServiceInv, NEW c \in Calls, Begin(c) \/ Finish(c)
  PROVE  ServiceInv'
<1> USE DEF ServiceInv, setup
<1>1. /\ UNCHANGED <<main, config, exporter, tracer, meter, batch, phase, broken>>
      /\ main = "run"
  BY DEF Begin, Finish, Run!Begin, Run!Finish
<1>2. Providers' /\ SpansHandedOver'
  BY <1>1 DEF Providers, SpansHandedOver
<1>3. CASE Begin(c)
  <2>1. /\ work[c] = "new" /\ work' = [work EXCEPT ![c] = "running"]
        /\ \E s \in {"open", "unrecorded"} : /\ span' = [span EXCEPT ![c] = s]
                                             /\ tracer # "on" => s = "unrecorded"
    BY <1>3 DEF Begin, Run!Begin
  <2>2. Queued' \subseteq Queued
    BY <2>1 DEF Queued, TypeOK
  <2>3. IsFiniteSet(Queued') /\ Cardinality(Queued') <= QueueSize
    BY <2>2, QueueShrinks DEF TypeOK
  <2>4. span[c] # "exporting"
    BY <2>1 DEF Spans, TypeOK
  <2>5. TypeOK'
    BY <1>1, <2>1, <2>3, <2>4 DEF TypeOK
  <2>6. Served' /\ Spans'
    BY <1>1, <2>1 DEF Served, Spans, TypeOK
  <2> QED
    BY <1>2, <2>3, <2>5, <2>6
<1>4. CASE Finish(c)
  <2>1. /\ work[c] = "running" /\ work' = [work EXCEPT ![c] = "answered"]
        /\ span' = [span EXCEPT ![c] = IF @ = "open" THEN Enqueued(c) ELSE @]
    BY <1>4 DEF Finish, Run!Finish
  <2>2. span[c] \in {"open", "unrecorded"} /\ Enqueued(c) \in {"queued", "dropped"}
    BY <2>1 DEF Spans, Enqueued
  <2>3. IsFiniteSet(Queued') /\ Cardinality(Queued') <= QueueSize
    <3>1. CASE span[c] = "open"
      <4>1. span' = [span EXCEPT ![c] = Enqueued(c)]
        BY <2>1, <3>1
      <4> QED
        BY <4>1, QueueTakes
    <3>2. CASE span[c] # "open"
      <4>1. Queued' \subseteq Queued
        BY <2>1, <3>2 DEF Queued, TypeOK
      <4> QED
        BY <4>1, QueueShrinks DEF TypeOK
    <3> QED
      BY <3>1, <3>2
  <2>4. TypeOK'
    BY <1>1, <2>1, <2>2, <2>3 DEF TypeOK
  <2>5. Served' /\ Spans'
    BY <1>1, <2>1, <2>2 DEF Served, Spans, TypeOK
  <2> QED
    BY <1>2, <2>3, <2>4, <2>5
<1> QED
  BY <1>3, <1>4

\* Spans of calls Run no longer waits for.
LEMMA LateKeeps ==
  ASSUME ServiceInv, NEW c \in Calls, EndLate(c) \/ EnqueueLate(c)
  PROVE  ServiceInv'
<1> USE DEF ServiceInv, setup, run
<1>1. /\ UNCHANGED <<main, config, exporter, tracer, meter, batch, phase, broken, work>>
      /\ main # "exited"
  BY DEF EndLate, EnqueueLate
<1>2. /\ (work[c] \in {"lost", "left"} /\ span[c] = "open") \/ span[c] = "ending"
      /\ \E s \in {"ending", "late", "queued", "dropped"} : span' = [span EXCEPT ![c] = s]
  BY DEF EndLate, EnqueueLate, Enqueued
<1>3. /\ span[c] \in {"open", "ending"} /\ work[c] \notin {"new", "running", "answered"}
      /\ tracer # "none"
  BY <1>2 DEF Spans
<1>4. IsFiniteSet(Queued') /\ Cardinality(Queued') <= QueueSize
  <2>1. CASE EndLate(c)
    <3>1. Queued' \subseteq Queued
      BY <2>1 DEF EndLate, Queued, TypeOK
    <3> QED
      BY <3>1, QueueShrinks DEF TypeOK
  <2>2. CASE EnqueueLate(c)
    BY <2>2, QueueTakes DEF EnqueueLate
  <2> QED
    BY <2>1, <2>2
<1>5. TypeOK'
  BY <1>1, <1>2, <1>3, <1>4 DEF TypeOK
<1>6. Providers' /\ Served' /\ SpansHandedOver'
  BY <1>1 DEF Providers, Served, SpansHandedOver
<1>7. Spans'
  BY <1>1, <1>2, <1>3 DEF Spans, TypeOK
<1> QED
  BY <1>4, <1>5, <1>6, <1>7

\* Steps of the batch processor.
LEMMA ExportKeeps ==
  ASSUME ServiceInv, TakeBatch \/ SettleBatch
  PROVE  ServiceInv'
<1> USE DEF ServiceInv, setup, run
<1>1. /\ UNCHANGED <<main, config, exporter, tracer, meter, phase, broken, work>>
      /\ main # "exited"
  BY DEF TakeBatch, SettleBatch
<1>2. /\ span' \in [Calls -> {"none", "unrecorded", "open", "ending", "late", "queued",
                              "dropped", "exporting", "exported", "failed"}]
      /\ batch' = {c \in Calls : span'[c] = "exporting"}
      /\ \A c \in Calls : \/ span'[c] = span[c]
                          \/ /\ span[c] \in {"queued", "exporting"}
                             /\ span'[c] \in {"exporting", "exported", "failed"}
  <2>1. CASE TakeBatch
    BY <2>1 DEF TakeBatch, TypeOK, Queued
  <2>2. CASE SettleBatch
    BY <2>2 DEF SettleBatch, TypeOK
  <2> QED
    BY <2>1, <2>2
<1>3. Queued' \subseteq Queued
  BY <1>2 DEF Queued
<1>4. IsFiniteSet(Queued') /\ Cardinality(Queued') <= QueueSize
  BY <1>3, QueueShrinks DEF TypeOK
<1>5. TypeOK'
  BY <1>1, <1>2, <1>4 DEF TypeOK
<1>6. Providers' /\ Served' /\ SpansHandedOver'
  BY <1>1 DEF Providers, Served, SpansHandedOver
<1>7. Spans'
  BY <1>1, <1>2 DEF Spans
<1> QED
  BY <1>4, <1>5, <1>6, <1>7

LEMMA ServiceNext == ServiceInv /\ [Next]_vars => ServiceInv'
<1> SUFFICES ASSUME ServiceInv, [Next]_vars PROVE ServiceInv'
  OBVIOUS
<1>1. CASE StartUp \/ CloseDown
  BY <1>1, MainKeeps DEF StartUp, CloseDown
<1>2. CASE Export
  BY <1>2, ExportKeeps DEF Export
<1>3. CASE Serve \/ RunReturns \/ \E c \in Calls : HangUp(c)
  BY <1>3, RunKeeps
<1>4. ASSUME NEW c \in Calls, Begin(c) \/ Finish(c) PROVE ServiceInv'
  BY <1>4, CallKeeps
<1>5. ASSUME NEW c \in Calls, EndLate(c) \/ EnqueueLate(c) PROVE ServiceInv'
  BY <1>5, LateKeeps
<1>6. CASE UNCHANGED vars
  <2>1. Queued' = Queued
    BY <1>6 DEF vars, Queued
  <2> QED
    BY <1>6, <2>1 DEF vars, setup, run, ServiceInv, TypeOK, Providers, Served, Spans,
                      SpansHandedOver
<1> QED
  BY <1>1, <1>2, <1>3, <1>4, <1>5, <1>6 DEF Next

-----------------------------------------------------------------------------
\* The state of the process keeps its type: in particular the queue of spans keeps
\* its bound, for any calls and any sizes of queue and batch.
THEOREM ServiceTypeCorrect == Spec => []TypeOK
BY ServiceInit, ServiceNext, PTL DEF Spec, ServiceInv

\* When the process exits no span of an answered call is left on its way, however
\* many calls there are and wherever Run abandoned others.
THEOREM SpansAreHandedOver == Spec => []SpansHandedOver
BY ServiceInit, ServiceNext, PTL DEF Spec, ServiceInv

\* From its start to its return Run has the telemetry the configuration asks for,
\* and no provider is left running when the process exits, wherever the start-up
\* failed.
THEOREM TelemetryIsFramed == Spec => []TelemetryFramesRun
<1>1. ServiceInv => TelemetryFramesRun
  BY DEF ServiceInv, Providers, TypeOK, TelemetryFramesRun
<1> QED
  BY <1>1, ServiceInit, ServiceNext, PTL DEF Spec
=============================================================================
