---------------------------- MODULE AppRunProofs ----------------------------
(***************************************************************************)
(* Proofs about AppRun, for any set of calls, any ports and any            *)
(* assignment of ports to servers.                                         *)
(***************************************************************************)
EXTENDS AppRun, TLAPS

-----------------------------------------------------------------------------
\* What Release returns, so that Release need not be expanded again.
LEMMA ReleaseType ==
  ASSUME NEW s \in Servers, TypeOK
  PROVE  Release(s) \in [Ports -> Servers \cup {"free", "foreign"}]
BY DEF Release, TypeOK

\* Every step keeps the type of the state.
LEMMA TypeStep == ASSUME TypeOK, [Next]_vars PROVE TypeOK'
<1>a. /\ "grpc" \in Servers
      /\ "http" \in WebServers /\ "debug" \in WebServers
      /\ WebServers \subseteq Servers
      /\ \A s \in Servers : PortOf[s] \in Ports
  BY PortAssumption DEF Servers, WebServers
<1>b. \A s \in Servers : Release(s) \in [Ports -> Servers \cup {"free", "foreign"}]
  BY ReleaseType
<1>1. CASE ListenGrpc
  BY <1>1, <1>a DEF ListenGrpc, TypeOK
<1>2. CASE RegisterGateway
  BY <1>2 DEF RegisterGateway, TypeOK
<1>3. ASSUME NEW s \in Servers, Spawn(s) PROVE TypeOK'
  BY <1>3 DEF Spawn, TypeOK
<1>4. CASE SpawnStopper
  BY <1>4 DEF SpawnStopper, TypeOK
<1>5. CASE SetReady
  BY <1>5 DEF SetReady, TypeOK
<1>6. CASE Return
  BY <1>6 DEF Return, TypeOK
<1>7. CASE ServeGrpc
  BY <1>7, <1>a, <1>b DEF ServeGrpc, Fail, TypeOK
<1>8. CASE GrpcServed
  BY <1>8, <1>a DEF GrpcServed, TypeOK
<1>9. ASSUME NEW s \in WebServers, ListenWeb(s) PROVE TypeOK'
  BY <1>9, <1>a DEF ListenWeb, Fail, TypeOK
<1>10. ASSUME NEW s \in WebServers, ServeWeb(s) PROVE TypeOK'
  BY <1>10, <1>a, <1>b DEF ServeWeb, TypeOK
<1>11. ASSUME NEW s \in WebServers, WebServed(s) PROVE TypeOK'
  BY <1>11, <1>a DEF WebServed, TypeOK
<1>12. ASSUME NEW s \in Servers, AcceptFails(s) PROVE TypeOK'
  BY <1>12, <1>b DEF AcceptFails, Fail, TypeOK
<1>13. CASE BeginStop
  BY <1>13 DEF BeginStop, TypeOK
<1>14. CASE CloseHTTP \/ CloseDebug
  <2>1. closing' \in [WebServers -> BOOLEAN]
    BY <1>14, <1>a, ZenonT(30) DEF CloseHTTP, CloseDebug, CloseWeb, TypeOK
  <2>2. holder' \in [Ports -> Servers \cup {"free", "foreign"}]
    BY <1>14, <1>a, <1>b DEF CloseHTTP, CloseDebug, CloseWeb, TypeOK
  <2> QED
    BY <1>14, <2>1, <2>2 DEF CloseHTTP, CloseDebug, CloseWeb, TypeOK
<1>15. CASE DrainHTTP \/ DrainDebug
  BY <1>15 DEF DrainHTTP, DrainDebug, DrainWeb, TypeOK
<1>16. CASE SpawnGraceful
  BY <1>16 DEF SpawnGraceful, TypeOK
<1>17. CASE SelectStopped
  BY <1>17 DEF SelectStopped, TypeOK
<1>18. CASE SelectExpired
  BY <1>18 DEF SelectExpired, TypeOK
<1>19. CASE StopCuts
  <2>1. InRPC \subseteq Calls
    BY DEF InRPC
  <2>2. call' \in [Calls -> {"idle", "http", "rpc", "debug", "ok", "left", "unavailable", "cut"}]
    BY <1>19 DEF StopCuts, TypeOK
  <2>3. holder' \in [Ports -> Servers \cup {"free", "foreign"}]
    BY <1>19, <1>a, <1>b DEF StopCuts, TypeOK
  <2> QED
    BY <1>19, <2>1, <2>2, <2>3 DEF StopCuts, TypeOK
<1>20. CASE StopReturns
  BY <1>20 DEF StopReturns, TypeOK
<1>29. CASE GracefulClose
  BY <1>29, <1>a, <1>b DEF GracefulClose, TypeOK
<1>30. CASE GracefulDrained
  BY <1>30 DEF GracefulDrained, TypeOK
<1>31. CASE GracefulDone
  BY <1>31 DEF GracefulDone, TypeOK
<1>21. CASE Cancel \/ Expire
  <2>1. CASE Cancel
    BY <2>1, ZenonT(30) DEF Cancel, TypeOK
  <2>2. CASE Expire
    BY <2>2, ZenonT(30) DEF Expire, TypeOK
  <2> QED BY <1>21, <2>1, <2>2
<1>22. ASSUME NEW c \in Calls, Arrive(c) PROVE TypeOK'
  <2>1. PICK v \in {"rpc", "http", "debug"} : call' = [call EXCEPT ![c] = v]
    BY <1>22, KindAssumption DEF Arrive, Servers
  <2> QED BY <1>22, <2>1 DEF Arrive, TypeOK
<1>23. ASSUME NEW c \in Calls, OpenUpstream(c) PROVE TypeOK'
  BY <1>23 DEF OpenUpstream, TypeOK
<1>24. ASSUME NEW c \in Calls, Answer(c) PROVE TypeOK'
  BY <1>24 DEF Answer, TypeOK
<1>32. ASSUME NEW c \in Calls, HangUp(c) PROVE TypeOK'
  BY <1>32 DEF HangUp, TypeOK
<1>33. ASSUME NEW c \in Calls, HandlerEnds(c) PROVE TypeOK'
  BY <1>33 DEF HandlerEnds, TypeOK
<1>25. CASE UNCHANGED vars
  BY <1>25 DEF vars, TypeOK
<1>26. CASE RunSteps
  BY <1>1, <1>2, <1>3, <1>4, <1>5, <1>6, <1>26 DEF RunSteps
<1>27. ASSUME NEW s \in Servers, ServerSteps(s) PROVE TypeOK'
  BY <1>7, <1>8, <1>9, <1>10, <1>11, <1>27 DEF ServerSteps, Servers, WebServers
<1>28. CASE StopSteps
  BY <1>13, <1>14, <1>15, <1>16, <1>17, <1>18, <1>19, <1>20, <1>28 DEF StopSteps
<1>34. CASE GracefulSteps
  BY <1>29, <1>30, <1>31, <1>34 DEF GracefulSteps
<1> QED
  BY <1>12, <1>21, <1>22, <1>23, <1>24, <1>25, <1>26, <1>27, <1>28, <1>32, <1>33,
     <1>34 DEF Next

\* The state of Run keeps its type.
THEOREM TypeCorrect == Spec => []TypeOK
<1>1. Init => TypeOK
  BY DEF Init, TypeOK, Servers, WebServers
<1>2. TypeOK /\ [Next]_vars => TypeOK'
  BY TypeStep
<1> QED BY <1>1, <1>2, PTL DEF Spec

-----------------------------------------------------------------------------
\* A call is only ever where its server can have taken it.
CallKinds == \A c \in Calls :
  /\ call[c] = "http" => Kind[c] = "http"
  /\ call[c] = "debug" => Kind[c] = "debug"
  /\ call[c] = "rpc" => Kind[c] \in {"http", "grpc"}

GraceInv == TypeOK /\ CallKinds /\ StopProgress /\ GraceHonoured

\* The two halves of the induction step: a step keeps what the stopping
\* goroutine has achieved ...
LEMMA ProgressStep == ASSUME GraceInv, [Next]_vars
                      PROVE  CallKinds' /\ StopProgress'
<1> USE DEF CallKinds, StopProgress, Starting, Past, Active, InRPC, AtClosedHTTP,
            AtDrainedHTTP, AtClosedDebug, AtDrainedDebug, AtStopGRPC
<1>0. TypeOK /\ TypeOK' /\ CallKinds /\ StopProgress
  BY TypeStep DEF GraceInv
<1>u. ASSUME UNCHANGED <<stopper, graceful, expired, closing, grpcStop, call>>,
             Starting' => Starting
      PROVE  CallKinds' /\ StopProgress'
  BY <1>0, <1>u
<1>1. CASE RunSteps
  <2>1. CASE ListenGrpc \/ RegisterGateway \/ SetReady
    BY <1>u, <2>1 DEF ListenGrpc, RegisterGateway, SetReady
  <2>2. ASSUME NEW s \in Servers, Spawn(s) PROVE CallKinds' /\ StopProgress'
    BY <1>u, <2>2 DEF Spawn
  <2>3. CASE SpawnStopper
    BY <1>0, <2>3 DEF SpawnStopper
  <2>4. CASE Return
    BY <1>0, <2>4 DEF Return, Unfinished, TypeOK
  <2> QED BY <1>1, <2>1, <2>2, <2>3, <2>4 DEF RunSteps
<1>2. ASSUME NEW s \in Servers, ServerSteps(s) \/ AcceptFails(s)
      PROVE  CallKinds' /\ StopProgress'
  <2>1. UNCHANGED <<main, stopper, graceful, expired, closing, grpcStop, call>>
    BY <1>2 DEF ServerSteps, ServeGrpc, GrpcServed, ListenWeb, ServeWeb,
                WebServed, AcceptFails
  <2> QED BY <1>u, <2>1
<1>3. CASE StopSteps
  <2>1. CASE BeginStop \/ SpawnGraceful \/ SelectStopped \/ SelectExpired
    BY <1>0, <2>1 DEF BeginStop, SpawnGraceful, SelectStopped, SelectExpired, TypeOK
  <2>2. CASE CloseHTTP \/ CloseDebug
    BY <1>0, <2>2 DEF CloseHTTP, CloseDebug, CloseWeb, TypeOK, WebServers
  <2>3. CASE DrainHTTP \/ DrainDebug
    BY <1>0, <2>3 DEF DrainHTTP, DrainDebug, DrainWeb, TypeOK
  <2>4. CASE StopCuts
    BY <1>0, <2>4 DEF StopCuts, TypeOK
  <2>5. CASE StopReturns
    BY <1>0, <2>5 DEF StopReturns, TypeOK
  <2> QED BY <1>3, <2>1, <2>2, <2>3, <2>4, <2>5 DEF StopSteps
<1>4. CASE GracefulSteps
  BY <1>0, <1>4 DEF GracefulSteps, GracefulClose, GracefulDrained, GracefulDone, TypeOK
<1>5. CASE Cancel \/ Expire
  BY <1>0, <1>5 DEF Cancel, Expire, TypeOK
<1>6. ASSUME NEW c \in Calls, Arrive(c) PROVE CallKinds' /\ StopProgress'
  \* A server that takes a call has not been passed by the stopping goroutine.
  <2>1. UNCHANGED <<main, stopper, graceful, expired, closing, grpcStop>>
    BY <1>6 DEF Arrive
  <2>2. CASE Kind[c] = "grpc"
    <3>1. grpcStop = "no" /\ call' = [call EXCEPT ![c] = "rpc"]
      BY <1>6, <2>2 DEF Arrive
    <3> QED BY <1>0, <2>1, <2>2, <3>1 DEF TypeOK
  <2>3. CASE Kind[c] = "http"
    <3>1. ~closing["http"] /\ call' = [call EXCEPT ![c] = "http"]
      BY <1>6, <2>3 DEF Arrive
    <3> QED BY <1>0, <2>1, <2>3, <3>1 DEF TypeOK
  <2>4. CASE Kind[c] = "debug"
    <3>1. ~closing["debug"] /\ call' = [call EXCEPT ![c] = "debug"]
      BY <1>6, <2>4 DEF Arrive
    <3> QED BY <1>0, <2>1, <2>4, <3>1 DEF TypeOK
  <2> QED BY <2>2, <2>3, <2>4, KindAssumption DEF Servers
<1>7. ASSUME NEW c \in Calls, OpenUpstream(c) PROVE CallKinds' /\ StopProgress'
  BY <1>0, <1>7 DEF OpenUpstream, TypeOK
<1>8. ASSUME NEW c \in Calls, Answer(c) PROVE CallKinds' /\ StopProgress'
  BY <1>0, <1>8 DEF Answer, Unfinished, TypeOK
<1>9. CASE UNCHANGED vars
  BY <1>0, <1>9 DEF vars
<1>10. ASSUME NEW c \in Calls, HangUp(c) PROVE CallKinds' /\ StopProgress'
  BY <1>0, <1>10 DEF HangUp, TypeOK
<1>11. ASSUME NEW c \in Calls, HandlerEnds(c) PROVE CallKinds' /\ StopProgress'
  BY <1>u, <1>11 DEF HandlerEnds
<1> QED BY <1>1, <1>2, <1>3, <1>4, <1>5, <1>6, <1>7, <1>8, <1>9, <1>10, <1>11 DEF Next

\* ... and gives no call up before the deadline.
LEMMA GraceStep == ASSUME GraceInv, [Next]_vars PROVE GraceHonoured'
<1> USE DEF GraceHonoured
<1>0. TypeOK /\ TypeOK' /\ CallKinds /\ StopProgress /\ GraceHonoured
  BY TypeStep DEF GraceInv
<1>1. ASSUME UNCHANGED call, expired => expired',
             serve["grpc"] = "failed" => serve'["grpc"] = "failed"
      PROVE  GraceHonoured'
  BY <1>0, <1>1
<1>2. CASE RunSteps
  <2>1. CASE ListenGrpc \/ RegisterGateway \/ SpawnStopper \/ SetReady
    BY <1>1, <2>1 DEF ListenGrpc, RegisterGateway, SpawnStopper, SetReady
  <2>2. ASSUME NEW s \in Servers, Spawn(s) PROVE GraceHonoured'
    BY <1>0, <1>1, <2>2 DEF Spawn, TypeOK
  <2>3. CASE Return
    \* Nothing is cut: the three kinds of calls have all been waited for.
    <3>1. expired \/ Unfinished = {}
      BY <1>0, <2>3 DEF Return, StopProgress, CallKinds, Past, Active, InRPC,
             Unfinished, AtClosedHTTP, AtDrainedHTTP, AtClosedDebug, AtDrainedDebug,
             AtStopGRPC
    <3> QED BY <1>0, <2>3, <3>1 DEF Return, TypeOK
  <2> QED BY <1>2, <2>1, <2>2, <2>3 DEF RunSteps
<1>3. ASSUME NEW s \in Servers, ServerSteps(s) \/ AcceptFails(s)
      PROVE  GraceHonoured'
  <2>1. UNCHANGED <<call, expired>>
    BY <1>3 DEF ServerSteps, ServeGrpc, GrpcServed, ListenWeb, ServeWeb,
                WebServed, AcceptFails
  <2>2. serve["grpc"] = "failed" => serve'["grpc"] = "failed"
    <3>1. CASE AcceptFails(s)
      BY <1>0, <3>1 DEF AcceptFails, Fail, TypeOK
    <3>2. CASE s = "grpc" /\ ServerSteps(s)
      BY <1>0, <3>2 DEF ServerSteps, ServeGrpc, GrpcServed, TypeOK
    <3>3. CASE s # "grpc" /\ ServerSteps(s)
      <4>1. \E v : serve' = [serve EXCEPT ![s] = v]
        BY <3>3 DEF ServerSteps, ListenWeb, ServeWeb, WebServed, Fail
      <4> QED BY <1>0, <3>3, <4>1 DEF TypeOK
    <3> QED BY <1>3, <3>1, <3>2, <3>3
  <2> QED BY <1>1, <2>1, <2>2
<1>4. CASE StopSteps
  <2>1. CASE StopCuts
    BY <1>0, <2>1 DEF StopCuts, StopProgress, Past, TypeOK
  <2>2. CASE ~StopCuts
    <3>1. UNCHANGED <<call, expired, serve>>
      BY <1>4, <2>2 DEF StopSteps, BeginStop, SpawnGraceful, SelectStopped, SelectExpired,
             StopReturns, CloseHTTP, CloseDebug, CloseWeb, DrainHTTP, DrainDebug, DrainWeb
    <3> QED BY <1>1, <3>1
  <2> QED BY <2>1, <2>2
<1>5. CASE GracefulSteps \/ Cancel \/ Expire
  BY <1>1, <1>5 DEF GracefulSteps, GracefulClose, GracefulDrained, GracefulDone, Cancel, Expire
<1>6. ASSUME NEW c \in Calls, Arrive(c) \/ Answer(c) \/ HangUp(c) PROVE GraceHonoured'
  BY <1>0, <1>6, KindAssumption DEF Arrive, Answer, HangUp, TypeOK, Servers
<1>7. ASSUME NEW c \in Calls, OpenUpstream(c) PROVE GraceHonoured'
  \* gRPC is stopped after the gateway has drained: this call is proof that
  \* the gateway has not, unless the deadline is over.
  <2>1. grpcStop # "no" => expired
    BY <1>0, <1>7 DEF OpenUpstream, StopProgress, CallKinds, Past, Active,
           AtStopGRPC, AtDrainedHTTP, AtClosedDebug, AtDrainedDebug
  <2> QED BY <1>0, <1>7, <2>1 DEF OpenUpstream, TypeOK
<1>8. CASE UNCHANGED vars \/ \E c \in Calls : HandlerEnds(c)
  BY <1>1, <1>8 DEF vars, HandlerEnds
<1> QED BY <1>2, <1>3, <1>4, <1>5, <1>6, <1>7, <1>8 DEF Next

\* What the stopping goroutine achieves step by step, and what it is for: a
\* call is cut, or a gateway call finds gRPC gone, only after the deadline or
\* when Accept of the gRPC server had failed.
THEOREM Grace == Spec => []GraceInv
<1>1. Init => GraceInv
  BY DEF Init, GraceInv, TypeOK, CallKinds, StopProgress, GraceHonoured, Past,
         Active, InRPC, AtClosedHTTP, AtDrainedHTTP, AtClosedDebug,
         AtDrainedDebug, AtStopGRPC, Starting, Servers, WebServers
<1>2. GraceInv /\ [Next]_vars => GraceInv'
  BY TypeStep, ProgressStep, GraceStep DEF GraceInv
<1> QED BY <1>1, <1>2, PTL DEF Spec

THEOREM GraceIsHonoured == Spec => []GraceHonoured
BY Grace, PTL DEF GraceInv

THEOREM StopIsOrdered == Spec => []StopProgress
BY Grace, PTL DEF GraceInv

-----------------------------------------------------------------------------
(* App.Run keeps the promise of Lifecycle. *)

\* Before the goroutines are started and after Run has returned nothing serves
\* and no call is unfinished.
Ends ==
  /\ main \in {"listen", "register"} =>
       Unfinished = {} /\ \A s \in Servers : serve[s] = "none"
  /\ main = "returned" =>
       /\ Unfinished = {}
       /\ stopper \in {"none", "done"}
       /\ \A s \in Servers : serve[s] \notin {"started", "bound", "serving"}

LEMMA EndsStep == ASSUME GraceInv, Ends, [Next]_vars PROVE Ends'
<1>0. TypeOK /\ TypeOK' /\ StopProgress
  BY TypeStep DEF GraceInv
<1>k. \A c \in Calls : Kind[c] \in Servers
  BY KindAssumption
<1>1. CASE RunSteps
  <2>1. CASE ListenGrpc \/ RegisterGateway
    BY <2>1, <1>0 DEF ListenGrpc, RegisterGateway, Ends, Unfinished, StopProgress, Starting
  <2>2. CASE SpawnStopper \/ SetReady \/ \E s \in Servers : Spawn(s)
    BY <2>2 DEF SpawnStopper, SetReady, Spawn, Ends
  <2>3. CASE Return
    <3>1. Unfinished' = {}
      BY <2>3 DEF Return, Unfinished
    <3> QED BY <2>3, <3>1 DEF Return, Ends, Over
  <2> QED BY <1>1, <2>1, <2>2, <2>3 DEF RunSteps
<1>2. ASSUME NEW s \in Servers, ServerSteps(s) \/ AcceptFails(s) PROVE Ends'
  <2>1. serve[s] \in {"started", "bound", "serving"} /\ UNCHANGED main
    BY <1>2 DEF ServerSteps, ServeGrpc, GrpcServed, ListenWeb, ServeWeb, WebServed, AcceptFails
  <2>2. main \notin {"listen", "register", "returned"}
    BY <2>1 DEF Ends
  <2> QED BY <2>1, <2>2 DEF Ends
<1>3. CASE StopSteps
  <2>1. UNCHANGED main /\ stopper \notin {"none", "done"}
    BY <1>3 DEF StopSteps, BeginStop, SpawnGraceful, SelectStopped, SelectExpired,
           StopCuts, StopReturns, CloseHTTP, CloseDebug, CloseWeb, DrainHTTP, DrainDebug, DrainWeb
  <2>2. main \notin {"listen", "register", "returned"}
    BY <2>1, <1>0 DEF Ends, StopProgress, Starting
  <2> QED BY <2>1, <2>2 DEF Ends
<1>4. CASE GracefulSteps \/ Cancel \/ Expire \/ UNCHANGED vars \/ \E c \in Calls : HandlerEnds(c)
  BY <1>4 DEF GracefulSteps, GracefulClose, GracefulDrained, GracefulDone, Cancel, Expire, vars,
              HandlerEnds, Ends, Unfinished
<1>5. ASSUME NEW c \in Calls, Arrive(c) PROVE Ends'
  <2>1. serve[Kind[c]] = "serving" /\ UNCHANGED main
    BY <1>5 DEF Arrive
  <2>2. main \notin {"listen", "register", "returned"}
    BY <2>1, <1>k DEF Ends
  <2> QED BY <2>1, <2>2 DEF Ends
<1>6. ASSUME NEW c \in Calls, OpenUpstream(c) \/ Answer(c) \/ HangUp(c) PROVE Ends'
  <2>1. c \in Unfinished /\ UNCHANGED main
    BY <1>6 DEF OpenUpstream, Answer, HangUp, Unfinished
  <2>2. main \notin {"listen", "register", "returned"}
    BY <2>1 DEF Ends
  <2> QED BY <2>1, <2>2 DEF Ends
<1> QED BY <1>1, <1>2, <1>3, <1>4, <1>5, <1>6 DEF Next

\* A step that leaves the calls alone is a step of the phase, or none.
LEMMA SameWork == ASSUME UNCHANGED call PROVE UNCHANGED work
BY DEF work, Unfinished

LEMMA RunningCalls == ASSUME TypeOK PROVE Promise!Running = Unfinished
BY DEF Promise!Running, work, Unfinished, TypeOK

LEMMA StepKeepsPromise ==
  ASSUME GraceInv, Ends, [Next]_vars
  PROVE  [Promise!Next]_(Promise!vars)
<1>0. TypeOK /\ TypeOK' /\ StopProgress /\ CallKinds /\ Promise!Running = Unfinished
  BY TypeStep, RunningCalls DEF GraceInv
<1>s. ASSUME UNCHANGED call, phase' = phase, broken' = broken
      PROVE  UNCHANGED Promise!vars
  BY <1>s, SameWork DEF Promise!vars
<1>1. CASE ListenGrpc \/ RegisterGateway
  <2>1. UNCHANGED <<call, serve, expired, stopper>> /\ stopper = "none" /\ Unfinished = {}
    BY <1>1, <1>0 DEF ListenGrpc, RegisterGateway, Ends, StopProgress, Starting
  <2>2. UNCHANGED <<work, broken>>
    BY <2>1, SameWork DEF broken
  <2>3. CASE main' # "returned"
    <3>1. phase' = phase
      BY <1>1, <2>1, <2>3 DEF ListenGrpc, RegisterGateway, phase, StopBegun
    <3> QED BY <2>1, <2>2, <3>1, <1>s
  <2>4. CASE main' = "returned"
    <3>1. phase \in {"up", "draining", "overdue"} /\ phase' = "down"
      BY <1>1, <2>4 DEF ListenGrpc, RegisterGateway, phase
    <3>2. work' = [c \in Calls |-> IF c \in Promise!Running THEN "lost" ELSE work[c]]
      BY <2>1, <2>2, <1>0 DEF work
    <3> QED BY <2>1, <2>2, <3>1, <3>2, <1>0 DEF Promise!Next, Promise!Exit
  <2> QED BY <2>3, <2>4
<1>2. CASE SetReady \/ \E s \in Servers : Spawn(s)
  <2>1. UNCHANGED call /\ phase' = phase
    BY <1>2 DEF SetReady, Spawn, phase, StopBegun
  <2>2. broken' = broken
    <3>1. CASE SetReady
      BY <3>1 DEF SetReady, broken
    <3>2. ASSUME NEW s \in Servers, Spawn(s) PROVE broken' = broken
      <4>1. serve[s] = "none" /\ serve' = [serve EXCEPT ![s] = "started"]
        BY <3>2 DEF Spawn
      <4>2. serve'["grpc"] = "failed" <=> serve["grpc"] = "failed"
        BY <4>1, <1>0 DEF TypeOK, Servers
      <4> QED BY <4>2 DEF broken
    <3> QED BY <1>2, <3>1, <3>2
  <2> QED BY <2>1, <2>2, <1>s
<1>3. CASE SpawnStopper
  BY <1>3, <1>s, <1>0 DEF SpawnStopper, phase, StopBegun, broken, StopProgress, Starting
<1>4. CASE Return
  <2>1. expired \/ Unfinished = {}
    BY <1>0, <1>4 DEF Return, StopProgress, CallKinds, Past, Active, InRPC,
           Unfinished, AtClosedHTTP, AtDrainedHTTP, AtClosedDebug, AtDrainedDebug, AtStopGRPC
  <2>2. phase \in {"up", "draining", "overdue"} /\ phase' = "down"
    BY <1>4 DEF Return, phase
  <2>3. phase = "overdue" \/ Unfinished = {}
    BY <1>4, <2>1 DEF Return, phase
  <2>4. work' = [c \in Calls |-> IF c \in Unfinished THEN "lost" ELSE work[c]]
    BY <1>4 DEF Return, work, Unfinished
  <2>5. broken' = broken
    BY <1>4 DEF Return, broken
  <2> QED BY <2>2, <2>3, <2>4, <2>5, <1>0 DEF Promise!Next, Promise!Exit
<1>5. ASSUME NEW s \in Servers, ServerSteps(s) \/ AcceptFails(s)
      PROVE  [Promise!Next]_(Promise!vars)
  <2>1. /\ UNCHANGED <<main, stopper, expired, call>>
        /\ serve[s] \in {"started", "bound", "serving"}
    BY <1>5 DEF ServerSteps, ServeGrpc, GrpcServed, ListenWeb, ServeWeb, WebServed, AcceptFails
  <2>2. UNCHANGED <<phase, work>>
    BY <2>1, SameWork DEF phase, StopBegun
  <2>3. phase # "down"
    BY <2>1 DEF Ends, phase
  <2>4. broken' = broken \/ broken' = TRUE
    <3>1. serve'["grpc"] = "failed" \/ ~broken
      <4>1. \E v : serve' = [serve EXCEPT ![s] = v]
        BY <1>5 DEF ServerSteps, ServeGrpc, GrpcServed, ListenWeb, ServeWeb, WebServed,
               AcceptFails, Fail
      <4> QED BY <4>1, <2>1, <1>0 DEF broken, TypeOK
    <3> QED BY <3>1 DEF broken
  <2> QED BY <2>1, <2>2, <2>3, <2>4, <1>s DEF Promise!Next, Promise!Break
<1>6. CASE StopSteps /\ ~StopCuts
  <2>1. UNCHANGED <<main, expired, serve, call>> /\ broken' = broken
    BY <1>6 DEF StopSteps, BeginStop, SpawnGraceful, SelectStopped, SelectExpired, StopReturns,
           CloseHTTP, CloseDebug, CloseWeb, DrainHTTP, DrainDebug, DrainWeb, broken
  <2>2. phase' = phase \/ (phase = "up" /\ phase' = "draining")
    BY <1>6, <2>1 DEF StopSteps, BeginStop, SpawnGraceful, SelectStopped, SelectExpired,
           StopReturns, CloseHTTP, CloseDebug, CloseWeb, DrainHTTP, DrainDebug, DrainWeb,
           phase, StopBegun
  <2> QED BY <2>1, <2>2, <1>s, SameWork DEF Promise!Next, Promise!Drain
<1>7. CASE StopCuts
  <2>1. phase = "overdue" /\ phase' = phase /\ broken' = broken
    BY <1>7, <1>0 DEF StopCuts, StopProgress, Past, phase, StopBegun, broken, Ends
  <2> DEFINE lost == InRPC
  <2>2. lost \in SUBSET Promise!Running
    BY <1>0 DEF InRPC, Unfinished
  <2>3. work' = [c \in Calls |-> IF c \in lost THEN "lost" ELSE work[c]]
    BY <1>7 DEF StopCuts, work, Unfinished, InRPC
  <2> QED BY <2>1, <2>2, <2>3 DEF Promise!Next, Promise!GiveUp
<1>8. CASE GracefulSteps \/ Cancel \/ UNCHANGED vars \/ \E c \in Calls : HandlerEnds(c)
  BY <1>8, <1>s DEF GracefulSteps, GracefulClose, GracefulDrained, GracefulDone, Cancel,
              HandlerEnds, vars, phase, StopBegun, broken
<1>9. CASE Expire
  <2>1. UNCHANGED call /\ broken' = broken /\ phase = "draining" /\ phase' = "overdue"
    BY <1>9 DEF Expire, broken, phase, StopBegun, Ends
  <2> QED BY <2>1, SameWork DEF Promise!Next, Promise!RunOut
<1>10. ASSUME NEW c \in Calls, Arrive(c) PROVE [Promise!Next]_(Promise!vars)
  <2>1. serve[Kind[c]] = "serving" /\ call[c] = "idle" /\ UNCHANGED <<main, stopper, expired, serve>>
    BY <1>10 DEF Arrive
  <2>2. phase # "down" /\ UNCHANGED <<phase, broken>>
    BY <2>1, KindAssumption DEF Ends, phase, StopBegun, broken
  <2>3. \E v \in {"http", "rpc", "debug"} : call' = [call EXCEPT ![c] = v]
    BY <1>10, KindAssumption DEF Arrive, Servers
  <2>4. work[c] = "new" /\ work' = [work EXCEPT ![c] = "running"]
    <3>1. PICK v \in {"http", "rpc", "debug"} : call' = [call EXCEPT ![c] = v]
      BY <2>3
    <3>2. work[c] = "new"
      BY <2>1 DEF work
    <3>3. ASSUME NEW d \in Calls PROVE work'[d] = [work EXCEPT ![c] = "running"][d]
      <4>1. CASE d = c
        <5>1. c \in Unfinished' /\ call'[c] # "idle"
          BY <3>1, <1>0 DEF Unfinished, TypeOK
        <5>2. work'[c] = "running"
          BY <5>1 DEF work
        <5> QED BY <4>1, <5>2 DEF work
      <4>2. CASE d # c
        <5>1. call'[d] = call[d] /\ (d \in Unfinished' <=> d \in Unfinished)
          BY <3>1, <4>2, <1>0 DEF Unfinished, TypeOK
        <5>2. work'[d] = work[d]
          BY <5>1 DEF work
        <5> QED BY <4>2, <5>2 DEF work
      <4> QED BY <4>1, <4>2
    <3> QED BY <3>2, <3>3 DEF work
  <2> QED BY <2>2, <2>4 DEF Promise!Next, Promise!Begin
<1>11. ASSUME NEW c \in Calls, Answer(c) PROVE [Promise!Next]_(Promise!vars)
  <2>1. UNCHANGED <<phase, broken>>
    BY <1>11 DEF Answer, phase, StopBegun, broken
  <2>2. work[c] = "running" /\ work' = [work EXCEPT ![c] = "answered"]
    BY <1>11, <1>0 DEF Answer, work, Unfinished, TypeOK
  <2> QED BY <2>1, <2>2 DEF Promise!Next, Promise!Finish
<1>13. ASSUME NEW c \in Calls, HangUp(c) PROVE [Promise!Next]_(Promise!vars)
  <2>1. UNCHANGED <<phase, broken>>
    BY <1>13 DEF HangUp, phase, StopBegun, broken
  <2>2. work[c] = "running" /\ work' = [work EXCEPT ![c] = "left"]
    BY <1>13, <1>0 DEF HangUp, work, Unfinished, TypeOK
  <2> QED BY <2>1, <2>2 DEF Promise!Next, Promise!Leave
<1>12. ASSUME NEW c \in Calls, OpenUpstream(c) PROVE [Promise!Next]_(Promise!vars)
  <2>1. /\ call[c] = "http" /\ main # "returned" /\ c \in Unfinished
        /\ UNCHANGED <<main, stopper, expired, serve, phase, broken>>
    BY <1>12 DEF OpenUpstream, phase, StopBegun, broken, Unfinished
  <2>2. CASE call' = [call EXCEPT ![c] = "rpc"]
    <3>1. UNCHANGED work
      BY <2>1, <2>2, <1>0 DEF work, Unfinished, TypeOK
    <3> QED BY <2>1, <3>1 DEF Promise!vars
  <2>3. CASE call' = [call EXCEPT ![c] = "unavailable"]
    <3>1. call'[c] = "unavailable"
      BY <2>3, <1>0 DEF TypeOK
    <3>2. phase = "overdue" \/ broken
      BY <3>1, <2>1, GraceStep DEF GraceHonoured, phase, broken
    <3>3. {c} \in SUBSET Promise!Running
      BY <2>1, <1>0
    <3>4. work' = [d \in Calls |-> IF d \in {c} THEN "lost" ELSE work[d]]
      BY <2>1, <2>3, <1>0 DEF work, Unfinished, TypeOK
    <3> QED BY <2>1, <3>2, <3>3, <3>4 DEF Promise!Next, Promise!GiveUp
  <2> QED BY <1>12, <2>2, <2>3 DEF OpenUpstream
<1> QED BY <1>1, <1>2, <1>3, <1>4, <1>5, <1>6, <1>7, <1>8, <1>9, <1>10, <1>11, <1>12,
           <1>13
        DEF Next, RunSteps, StopSteps

\* App.Run implements Lifecycle: whatever happens to it, calls are given up and
\* Run returns only as Lifecycle allows.
THEOREM KeepsPromise == Spec => ImplementsLifecycle
<1>1. Init => Ends /\ Promise!Init
  BY DEF Init, Ends, Unfinished, Promise!Init, phase, broken, work, StopBegun, Servers
<1>2. GraceInv /\ Ends /\ [Next]_vars => Ends' /\ [Promise!Next]_(Promise!vars)
  BY EndsStep, StepKeepsPromise
<1> QED BY <1>1, <1>2, Grace, PTL DEF Spec, ImplementsLifecycle, Promise!Spec

-----------------------------------------------------------------------------
(* Ports. *)

Free(s) == \A p \in Ports : holder[p] # s

\* Nobody holds a port whose goroutine will not give it back.
PortsInv ==
  /\ \A s \in Servers : Over(s) => Free(s)
  /\ \A s \in WebServers : serve[s] \in {"none", "started"} => Free(s)
  /\ \A s \in WebServers : serve[s] = "serving" /\ closing[s] => Free(s)
  /\ serve["grpc"] = "serving" /\ grpcStop # "no" => Free("grpc")
  /\ graceful \in {"draining", "handlers", "done"} => grpcStop # "no"

\* Release frees the ports of one server and leaves the others'.
LEMMA ReleaseFrees ==
  ASSUME TypeOK, NEW s \in Servers, holder' = Release(s)
  PROVE  Free(s)' /\ \A t \in Servers : Free(t) => Free(t)'
BY DEF Release, Free, TypeOK, Servers

LEMMA PortsStep ==
  ASSUME TypeOK, StopProgress, Ends, PortsInv, [Next]_vars
  PROVE  PortsInv'
<1>a. /\ "grpc" \in Servers /\ "grpc" \notin WebServers
      /\ WebServers \subseteq Servers
      /\ \A s \in Servers : PortOf[s] \in Ports
  BY PortAssumption DEF Servers, WebServers
<1>u. ASSUME UNCHANGED <<serve, closing, grpcStop, graceful, holder>> PROVE PortsInv'
  BY <1>u DEF PortsInv, Over, Free
<1>1. CASE ListenGrpc
  <2>1. serve["grpc"] = "none" /\ UNCHANGED <<serve, closing, grpcStop, graceful>>
    BY <1>1, <1>a DEF ListenGrpc, Ends
  <2>2. \A s \in Servers \ {"grpc"} : Free(s) => Free(s)'
    BY <1>1, <1>a DEF ListenGrpc, Free, TypeOK
  <2> QED
    BY <2>1, <2>2, <1>a DEF PortsInv, Over
<1>2. ASSUME NEW s \in Servers, Spawn(s) PROVE PortsInv'
  <2>1. /\ serve[s] = "none" /\ serve' = [serve EXCEPT ![s] = "started"]
        /\ UNCHANGED <<closing, grpcStop, graceful, holder>>
    BY <1>2 DEF Spawn
  <2> QED
    BY <2>1, <1>a DEF PortsInv, Over, Free, TypeOK
<1>3. CASE RegisterGateway \/ SpawnStopper \/ SetReady \/ Return
  BY <1>3, <1>u DEF RegisterGateway, SpawnStopper, SetReady, Return
<1>4. CASE ServeGrpc
  <2>1. CASE grpcStop = "no"
    <3>1. /\ serve' = [serve EXCEPT !["grpc"] = "serving"]
          /\ UNCHANGED <<closing, grpcStop, graceful, holder>>
      BY <1>4, <2>1 DEF ServeGrpc
    <3> QED
      BY <2>1, <3>1, <1>a DEF PortsInv, Over, Free, TypeOK
  <2>2. CASE grpcStop # "no"
    <3>1. /\ serve' = [serve EXCEPT !["grpc"] = "rejected"]
          /\ holder' = Release("grpc")
          /\ UNCHANGED <<closing, grpcStop, graceful>>
      BY <1>4, <2>2 DEF ServeGrpc, Fail
    <3>2. Free("grpc")' /\ \A t \in Servers : Free(t) => Free(t)'
      BY <3>1, <1>a, ReleaseFrees
    <3> QED
      BY <3>1, <3>2, <1>a DEF PortsInv, Over, TypeOK
  <2> QED
    BY <2>1, <2>2
<1>5. CASE GrpcServed
  <2>1. /\ serve["grpc"] = "serving" /\ grpcStop # "no"
        /\ serve' = [serve EXCEPT !["grpc"] = "done"]
        /\ UNCHANGED <<closing, grpcStop, graceful, holder>>
    BY <1>5 DEF GrpcServed
  <2> QED
    BY <2>1, <1>a DEF PortsInv, Over, Free, TypeOK
<1>6. ASSUME NEW s \in WebServers, ListenWeb(s) PROVE PortsInv'
  <2>1. serve[s] = "started" /\ UNCHANGED <<closing, grpcStop, graceful>>
    BY <1>6 DEF ListenWeb
  <2>2. CASE holder' = holder
    <3>1. PICK v \in {"done", "failed"} : serve' = [serve EXCEPT ![s] = v]
      <4>1. s # "free" /\ PortOf[s] \in Ports
        BY <1>a DEF WebServers
      <4> QED
        BY <1>6, <2>2, <4>1 DEF ListenWeb, Fail, TypeOK
    <3> QED
      BY <2>1, <2>2, <3>1, <1>a DEF PortsInv, Over, Free, TypeOK
  <2>3. CASE holder' # holder
    <3>1. /\ ~closing[s] /\ serve' = [serve EXCEPT ![s] = "bound"]
          /\ holder' = [holder EXCEPT ![PortOf[s]] = s]
      BY <1>6, <2>3 DEF ListenWeb
    <3>2. \A t \in Servers \ {s} : Free(t) => Free(t)'
      BY <3>1, <1>a DEF Free, TypeOK
    <3> QED
      BY <2>1, <3>1, <3>2, <1>a DEF PortsInv, Over, TypeOK
  <2> QED
    BY <2>2, <2>3
<1>7. ASSUME NEW s \in WebServers, ServeWeb(s) PROVE PortsInv'
  <2>1. serve[s] = "bound" /\ UNCHANGED <<closing, grpcStop, graceful>>
    BY <1>7 DEF ServeWeb
  <2>2. CASE ~closing[s]
    <3>1. serve' = [serve EXCEPT ![s] = "serving"] /\ UNCHANGED holder
      BY <1>7, <2>2 DEF ServeWeb
    <3> QED
      BY <2>1, <2>2, <3>1, <1>a DEF PortsInv, Over, Free, TypeOK
  <2>3. CASE closing[s]
    <3>1. serve' = [serve EXCEPT ![s] = "done"] /\ holder' = Release(s)
      BY <1>7, <2>3 DEF ServeWeb
    <3>2. Free(s)' /\ \A t \in Servers : Free(t) => Free(t)'
      BY <3>1, <1>a, ReleaseFrees
    <3> QED
      BY <2>1, <3>1, <3>2, <1>a DEF PortsInv, Over, TypeOK
  <2> QED
    BY <2>2, <2>3
<1>8. ASSUME NEW s \in WebServers, WebServed(s) PROVE PortsInv'
  <2>1. /\ serve[s] = "serving" /\ closing[s]
        /\ serve' = [serve EXCEPT ![s] = "done"]
        /\ UNCHANGED <<closing, grpcStop, graceful, holder>>
    BY <1>8 DEF WebServed
  <2> QED
    BY <2>1, <1>a DEF PortsInv, Over, Free, TypeOK
<1>9. ASSUME NEW s \in Servers, AcceptFails(s) PROVE PortsInv'
  <2>1. /\ serve' = [serve EXCEPT ![s] = "failed"] /\ holder' = Release(s)
        /\ UNCHANGED <<closing, grpcStop, graceful>>
    BY <1>9 DEF AcceptFails, Fail
  <2>2. Free(s)' /\ \A t \in Servers : Free(t) => Free(t)'
    BY <2>1, ReleaseFrees
  <2> QED
    BY <2>1, <2>2, <1>a DEF PortsInv, Over, TypeOK
<1>10. ASSUME NEW s \in WebServers, closing' = [closing EXCEPT ![s] = TRUE],
              holder' = IF serve[s] = "serving" THEN Release(s) ELSE holder,
              UNCHANGED <<serve, grpcStop, graceful>>
       PROVE  PortsInv'
  <2>1. \A t \in Servers : Free(t) => Free(t)'
    BY <1>10, <1>a, ReleaseFrees DEF Free
  <2>2. serve[s] = "serving" => Free(s)'
    BY <1>10, <1>a, ReleaseFrees
  <2>3. \A t \in WebServers \ {s} : closing'[t] = closing[t]
    BY <1>10 DEF TypeOK
  <2> QED
    BY <1>10, <2>1, <2>2, <2>3, <1>a DEF PortsInv, Over
<1>11. CASE CloseHTTP \/ CloseDebug
  BY <1>10, <1>11 DEF CloseHTTP, CloseDebug, CloseWeb, WebServers
<1>12. CASE \/ BeginStop \/ DrainHTTP \/ DrainDebug \/ SelectStopped \/ SelectExpired
            \/ Cancel \/ Expire
  BY <1>12, <1>u DEF BeginStop, DrainHTTP, DrainDebug, DrainWeb, SelectStopped, SelectExpired,
                     Cancel, Expire
<1>13. CASE SpawnGraceful
  BY <1>13 DEF SpawnGraceful, PortsInv, Over, Free
<1>14. CASE StopCuts \/ GracefulClose
  <2>1. /\ holder' = IF serve["grpc"] = "serving" THEN Release("grpc") ELSE holder
        /\ grpcStop' # "no" /\ UNCHANGED <<serve, closing>>
    BY <1>14 DEF StopCuts, GracefulClose
  <2>2. \A t \in Servers : Free(t) => Free(t)'
    BY <2>1, <1>a, ReleaseFrees DEF Free
  <2>3. serve["grpc"] = "serving" => Free("grpc")'
    BY <2>1, <1>a, ReleaseFrees
  <2> QED
    BY <2>1, <2>2, <2>3, <1>a DEF PortsInv, Over
<1>15. CASE GracefulDrained \/ GracefulDone \/ StopReturns
  <2>1. /\ UNCHANGED <<serve, closing, holder>> /\ grpcStop' \in {grpcStop, "stopped"}
        /\ graceful' = graceful \/ graceful \in {"draining", "handlers"}
    BY <1>15 DEF GracefulDrained, GracefulDone, StopReturns
  <2>2. grpcStop # "no"
    BY <1>15 DEF GracefulDrained, GracefulDone, StopReturns, StopProgress, Past, PortsInv
  <2> QED
    BY <2>1, <2>2, <1>a DEF PortsInv, Over, Free
<1>16. ASSUME NEW c \in Calls,
              Arrive(c) \/ OpenUpstream(c) \/ Answer(c) \/ HangUp(c) \/ HandlerEnds(c)
       PROVE  PortsInv'
  BY <1>16, <1>u DEF Arrive, OpenUpstream, Answer, HangUp, HandlerEnds
<1>17. CASE UNCHANGED vars
  BY <1>17, <1>u DEF vars
<1>18. CASE RunSteps
  BY <1>1, <1>2, <1>3, <1>18 DEF RunSteps
<1>19. ASSUME NEW s \in Servers, ServerSteps(s) PROVE PortsInv'
  BY <1>4, <1>5, <1>6, <1>7, <1>8, <1>19 DEF ServerSteps, Servers, WebServers
<1>20. CASE StopSteps
  BY <1>11, <1>12, <1>13, <1>14, <1>15, <1>20 DEF StopSteps
<1> QED
  BY <1>9, <1>12, <1>14, <1>15, <1>16, <1>17, <1>18, <1>19, <1>20 DEF Next, GracefulSteps

-----------------------------------------------------------------------------
(* Errors. *)

\* A goroutine that left with an error has told the errgroup, and the stopping
\* goroutine only sets out when there is a reason to.
ErrInv ==
  /\ \A s \in Servers : serve[s] \in {"failed", "rejected"} => err # "nil"
  /\ StopBegun => gctxDone
  /\ main = "returned" /\ stopper = "none" => err # "nil"
  /\ main = "returned" /\ stopper = "done" => \A s \in Servers : Over(s)

LEMMA ErrStep ==
  ASSUME TypeOK, StopProgress, Ends, ErrInv, [Next]_vars
  PROVE  ErrInv'
<1>a. "grpc" \in Servers /\ WebServers \subseteq Servers
  BY DEF Servers, WebServers
<1>u. ASSUME UNCHANGED <<main, serve, stopper, err>>, cancelled => cancelled'
      PROVE  ErrInv'
  BY <1>u DEF ErrInv, StopBegun, gctxDone, Over
<1>1. CASE ListenGrpc \/ RegisterGateway
  <2>1. /\ main' = "returned" => err' # "nil"
        /\ stopper = "none" /\ UNCHANGED <<serve, stopper, cancelled>>
        /\ \A s \in Servers : serve[s] = "none"
    BY <1>1 DEF ListenGrpc, RegisterGateway, Ends, StopProgress, Starting
  <2> QED
    BY <2>1 DEF ErrInv, StopBegun
<1>2. ASSUME NEW s \in Servers, Spawn(s) PROVE ErrInv'
  <2>1. /\ main = "spawn" /\ serve' = [serve EXCEPT ![s] = "started"]
        /\ UNCHANGED <<main, stopper, err, cancelled>>
    BY <1>2 DEF Spawn
  <2> QED
    BY <2>1 DEF ErrInv, StopBegun, gctxDone, TypeOK
<1>3. CASE SpawnStopper \/ SetReady
  BY <1>3 DEF SpawnStopper, SetReady, ErrInv, StopBegun, gctxDone
<1>4. CASE Return
  BY <1>4 DEF Return, ErrInv, StopBegun, gctxDone, Over
<1>5. ASSUME NEW s \in Servers, ServerSteps(s) \/ AcceptFails(s) PROVE ErrInv'
  <2>1. /\ serve[s] \in {"started", "bound", "serving"}
        /\ UNCHANGED <<main, stopper, cancelled>>
    BY <1>5 DEF ServerSteps, ServeGrpc, GrpcServed, ListenWeb, ServeWeb, WebServed, AcceptFails
  <2>2. main # "returned"
    BY <2>1 DEF Ends
  <2>3. PICK v : serve' = [serve EXCEPT ![s] = v] /\ (v \in {"failed", "rejected"} => err' # "nil")
    BY <1>5 DEF ServerSteps, ServeGrpc, GrpcServed, ListenWeb, ServeWeb, WebServed,
           AcceptFails, Fail
  <2>4. err # "nil" => err' # "nil"
    BY <1>5 DEF ServerSteps, ServeGrpc, GrpcServed, ListenWeb, ServeWeb, WebServed,
           AcceptFails, Fail
  <2> QED
    BY <2>1, <2>2, <2>3, <2>4 DEF ErrInv, StopBegun, gctxDone, TypeOK
<1>6. CASE StopSteps
  <2>1. UNCHANGED <<main, serve, err, cancelled>> /\ stopper \notin {"none", "done"}
    BY <1>6 DEF StopSteps, BeginStop, SpawnGraceful, SelectStopped, SelectExpired,
           StopCuts, StopReturns, CloseHTTP, CloseDebug, CloseWeb, DrainHTTP, DrainDebug, DrainWeb
  <2>2. main # "returned"
    BY <2>1 DEF Ends
  <2>3. gctxDone
    BY <1>6 DEF StopSteps, BeginStop, SpawnGraceful, SelectStopped, SelectExpired,
           StopCuts, StopReturns, CloseHTTP, CloseDebug, CloseWeb, DrainHTTP, DrainDebug, DrainWeb, ErrInv, StopBegun
  <2> QED
    BY <2>1, <2>2, <2>3 DEF ErrInv, gctxDone
<1>7. CASE GracefulSteps \/ Cancel \/ Expire \/ UNCHANGED vars
  BY <1>7, <1>u DEF GracefulSteps, GracefulClose, GracefulDrained, GracefulDone, Cancel, Expire, vars
<1>8. ASSUME NEW c \in Calls,
             Arrive(c) \/ OpenUpstream(c) \/ Answer(c) \/ HangUp(c) \/ HandlerEnds(c)
      PROVE  ErrInv'
  BY <1>8, <1>u DEF Arrive, OpenUpstream, Answer, HangUp, HandlerEnds
<1> QED
  BY <1>1, <1>2, <1>3, <1>4, <1>5, <1>6, <1>7, <1>8 DEF Next, RunSteps

\* ErrServerStopped comes from the gRPC goroutine alone, and is only kept when the
\* stop it ran into had no error before it.
LEMMA BlameStep ==
  ASSUME TypeOK, StopProgress, ErrInv, StopNotBlamed, [Next]_vars
  PROVE  StopNotBlamed'
<1>a. "grpc" \in Servers /\ "grpc" \notin WebServers
  BY DEF Servers, WebServers
<1>u. ASSUME UNCHANGED <<serve, err>>, cancelled => cancelled' PROVE StopNotBlamed'
  BY <1>u DEF StopNotBlamed
<1>1. CASE RunSteps
  <2>1. CASE ListenGrpc \/ RegisterGateway
    BY <2>1 DEF ListenGrpc, RegisterGateway, StopNotBlamed
  <2>2. CASE SpawnStopper \/ SetReady \/ Return
    BY <2>2, <1>u DEF SpawnStopper, SetReady, Return
  <2>3. ASSUME NEW s \in Servers, Spawn(s) PROVE StopNotBlamed'
    <3>1. serve[s] = "none" /\ serve' = [serve EXCEPT ![s] = "started"]
          /\ UNCHANGED <<err, cancelled>>
      BY <2>3 DEF Spawn
    <3> QED
      BY <3>1, <1>a DEF StopNotBlamed, TypeOK
  <2> QED
    BY <1>1, <2>1, <2>2, <2>3 DEF RunSteps
<1>2. CASE ServeGrpc
  <2>1. CASE grpcStop = "no"
    <3>1. serve["grpc"] = "started" /\ UNCHANGED <<err, cancelled>>
      BY <1>2, <2>1 DEF ServeGrpc
    <3> QED
      BY <3>1 DEF StopNotBlamed
  <2>2. CASE grpcStop # "no"
    <3>1. /\ serve' = [serve EXCEPT !["grpc"] = "rejected"]
          /\ err' = IF err = "nil" THEN "stopped" ELSE err
          /\ UNCHANGED cancelled
      BY <1>2, <2>2 DEF ServeGrpc, Fail
    <3>2. gctxDone
      BY <2>2 DEF StopProgress, Past, AtStopGRPC, StopBegun, ErrInv
    <3> QED
      BY <3>1, <3>2, <1>a DEF StopNotBlamed, gctxDone, TypeOK
  <2> QED
    BY <2>1, <2>2
<1>3. CASE GrpcServed
  BY <1>3 DEF GrpcServed, StopNotBlamed
<1>4. ASSUME NEW s \in Servers, AcceptFails(s) \/ (s \in WebServers /\ ServerSteps(s))
      PROVE  StopNotBlamed'
  <2>1. /\ serve[s] \in {"started", "bound", "serving"} /\ UNCHANGED cancelled
        /\ \E v : serve' = [serve EXCEPT ![s] = v]
        /\ err' = err \/ err' \in {"listen", "accept"}
    BY <1>4, <1>a DEF AcceptFails, ServerSteps, ListenWeb, ServeWeb, WebServed, Fail
  <2> QED
    BY <2>1, <1>a DEF StopNotBlamed, TypeOK
<1>5. CASE StopSteps
  BY <1>5, <1>u DEF StopSteps, BeginStop, SpawnGraceful, SelectStopped, SelectExpired,
     StopCuts, StopReturns, CloseHTTP, CloseDebug, CloseWeb, DrainHTTP, DrainDebug, DrainWeb
<1>6. CASE GracefulSteps \/ Cancel \/ Expire \/ UNCHANGED vars
  BY <1>6, <1>u DEF GracefulSteps, GracefulClose, GracefulDrained, GracefulDone, Cancel, Expire, vars
<1>7. ASSUME NEW c \in Calls,
             Arrive(c) \/ OpenUpstream(c) \/ Answer(c) \/ HangUp(c) \/ HandlerEnds(c)
      PROVE  StopNotBlamed'
  BY <1>7, <1>u DEF Arrive, OpenUpstream, Answer, HangUp, HandlerEnds
<1>8. ASSUME NEW s \in Servers, ServerSteps(s) PROVE StopNotBlamed'
  BY <1>2, <1>3, <1>4, <1>8 DEF ServerSteps, Servers, WebServers
<1> QED
  BY <1>1, <1>4, <1>5, <1>6, <1>7, <1>8 DEF Next

\* What main finds when Run returns.
LEMMA RunEnds == Spec => [](TypeOK /\ Ends /\ PortsInv /\ ErrInv)
<1>1. Init => Ends /\ PortsInv /\ ErrInv
  BY DEF Init, Ends, Unfinished, PortsInv, ErrInv, Over, Free, StopBegun, Servers, WebServers
<1>2. GraceInv /\ Ends /\ PortsInv /\ ErrInv /\ [Next]_vars => (Ends /\ PortsInv /\ ErrInv)'
  BY EndsStep, PortsStep, ErrStep DEF GraceInv
<1>3. GraceInv => TypeOK
  BY DEF GraceInv
<1> QED
  BY <1>1, <1>2, <1>3, Grace, PTL DEF Spec

\* Run gives back every port it took, however its goroutines and the shutdown
\* interleave.
THEOREM PortsAreReleased == Spec => []PortsReleased
<1>1. TypeOK /\ Ends /\ PortsInv /\ ErrInv => PortsReleased
  <2> SUFFICES ASSUME PortsInv, ErrInv, main = "returned", stopper = "done",
                      NEW p \in Ports
               PROVE  holder[p] \notin Servers
    BY DEF PortsReleased
  <2> QED
    BY DEF PortsInv, ErrInv, Free
<1> QED
  BY <1>1, RunEnds, PTL

\* Run returns nil only if it was asked to stop and every server served to the end.
THEOREM ErrorsAreKept == Spec => []NilOnlyIfAsked
<1>1. TypeOK /\ Ends /\ PortsInv /\ ErrInv => NilOnlyIfAsked
  <2> SUFFICES ASSUME Ends, ErrInv, main = "returned", err = "nil"
               PROVE  cancelled /\ \A s \in Servers : serve[s] = "done"
    BY DEF NilOnlyIfAsked
  <2>1. stopper = "done"
    BY DEF Ends, ErrInv
  <2>2. cancelled
    BY <2>1 DEF ErrInv, StopBegun, gctxDone
  <2>3. \A s \in Servers : serve[s] = "done"
    BY <2>1 DEF ErrInv, Over
  <2> QED
    BY <2>2, <2>3
<1> QED
  BY <1>1, RunEnds, PTL

\* "The server has been stopped" never takes the place of an error that brought
\* the service down: whoever reads it has asked for a stop.
THEOREM StopIsNotBlamed == Spec => []StopNotBlamed
<1>1. Init => StopNotBlamed
  BY DEF Init, StopNotBlamed
<1>2. (GraceInv /\ Ends /\ PortsInv /\ ErrInv) /\ StopNotBlamed /\ [Next]_vars => StopNotBlamed'
  BY BlameStep DEF GraceInv
<1> QED
  BY <1>1, <1>2, Grace, RunEnds, PTL DEF Spec

-----------------------------------------------------------------------------
(* The balancer is told. *)

\* Nothing is closed before the stopping goroutine has woken up.
OpenInv == stopper \in {"none", "waiting"} => \A s \in WebServers : ~closing[s]

\* From a Wait that came before the shutdown on, either nothing is closed, or
\* readiness has been withdrawn and nobody is left to announce it again.
Told == /\ main \in {"wait", "returned"}
        /\ \/ stopper = "waiting"
           \/ stopper \notin {"none", "waiting"} /\ ~ready

LEMMA ToldStep == ASSUME StopProgress, [Next]_vars
                  PROVE  (OpenInv => OpenInv') /\ (Told => Told')
<1> USE DEF OpenInv, Told
<1>u. ASSUME UNCHANGED <<main, stopper, ready, closing>>
      PROVE  (OpenInv => OpenInv') /\ (Told => Told')
  BY <1>u
\* Before the Wait.
<1>1. CASE ListenGrpc \/ RegisterGateway \/ SetReady
  BY <1>1 DEF ListenGrpc, RegisterGateway, SetReady
<1>2. CASE SpawnStopper
  <2>1. stopper = "none"
    BY <1>2 DEF SpawnStopper, StopProgress, Starting
  <2> QED BY <1>2, <2>1 DEF SpawnStopper
<1>3. CASE Return
  BY <1>3 DEF Return
\* The shutdown.
<1>4. CASE BeginStop
  BY <1>4 DEF BeginStop
<1>5. CASE CloseHTTP \/ CloseDebug
  BY <1>5 DEF CloseHTTP, CloseDebug, CloseWeb
<1>6. CASE DrainHTTP \/ DrainDebug
  BY <1>6 DEF DrainHTTP, DrainDebug, DrainWeb
<1>7. CASE SpawnGraceful \/ SelectStopped \/ SelectExpired \/ StopCuts \/ StopReturns
  BY <1>7 DEF SpawnGraceful, SelectStopped, SelectExpired, StopCuts, StopReturns
\* The rest touches none of it.
<1>8. ASSUME NEW s \in Servers, Spawn(s) \/ ServerSteps(s) \/ AcceptFails(s)
      PROVE  (OpenInv => OpenInv') /\ (Told => Told')
  BY <1>u, <1>8 DEF Spawn, ServerSteps, ServeGrpc, GrpcServed, ListenWeb, ServeWeb, WebServed,
                    AcceptFails
<1>9. CASE GracefulSteps \/ Cancel \/ Expire
  BY <1>u, <1>9 DEF GracefulSteps, GracefulClose, GracefulDrained, GracefulDone, Cancel, Expire
<1>10. ASSUME NEW c \in Calls,
              Arrive(c) \/ OpenUpstream(c) \/ Answer(c) \/ HangUp(c) \/ HandlerEnds(c)
       PROVE  (OpenInv => OpenInv') /\ (Told => Told')
  BY <1>u, <1>10 DEF Arrive, OpenUpstream, Answer, HangUp, HandlerEnds
<1>11. CASE UNCHANGED vars
  BY <1>u, <1>11 DEF vars
<1> QED
  BY <1>1, <1>2, <1>3, <1>4, <1>5, <1>6, <1>7, <1>8, <1>9, <1>10, <1>11
     DEF Next, RunSteps, StopSteps

\* Once Run waits, readiness is withdrawn before anything is closed, for good.
THEOREM BalancerIsTold == Spec => ReadyWithdrawn
<1> DEFINE Waits == main = "wait" /\ stopper = "waiting"
           Quiet == (\E s \in WebServers : closing[s]) \/ grpcStop # "no" => ~ready
<1>1. Init => OpenInv
  BY DEF Init, OpenInv
<1>2. GraceInv /\ OpenInv /\ [Next]_vars => OpenInv' /\ (Told => Told')
  BY ToldStep DEF GraceInv
<1>3. Waits => Told
  BY DEF Told
<1>4. GraceInv /\ OpenInv /\ Told => Quiet
  BY DEF GraceInv, StopProgress, Past, AtStopGRPC, OpenInv, Told
<1>5. Spec => [](Waits => []Quiet)
  <2> HIDE DEF Waits, Quiet
  <2> QED BY <1>1, <1>2, <1>3, <1>4, Grace, PTL DEF Spec
<1> QED BY <1>5 DEF ReadyWithdrawn
=============================================================================
