------------------------------- MODULE AppRun -------------------------------
(***************************************************************************)
(* The life of a scratch service: pkg/app (App.Run) with pkg/debug.        *)
(*                                                                         *)
(* Run starts a gRPC server, an HTTP gateway that reaches the gRPC server  *)
(* over loopback, and a debug server, each in a goroutine of one errgroup; *)
(* a fourth goroutine waits for the signal or the first error and stops    *)
(* them in order, under one deadline.  Every step below is one call of     *)
(* that code: what other goroutines, callers and the kernel do in between  *)
(* is the interleaving.                                                    *)
(*                                                                         *)
(* net/http, google.golang.org/grpc and errgroup are external: they are    *)
(* modelled by the contract Run relies on (README, "External contracts").  *)
(***************************************************************************)
EXTENDS Naturals, FiniteSets

CONSTANTS Calls,    \* calls the outside world may make
          Kind,     \* the server a call arrives at: Kind[c] \in Servers
          Ports,    \* port numbers of the host
          PortOf    \* the configured port of each server

Servers == {"grpc", "http", "debug"}
WebServers == {"http", "debug"}        \* the two net/http servers

ASSUME KindAssumption == Kind \in [Calls -> Servers]
ASSUME PortAssumption == PortOf \in [Servers -> Ports]

VARIABLES
  main,       \* where the goroutine running Run is
  serve,      \* the goroutine of each server
  stopper,    \* the goroutine that stops the servers
  graceful,   \* the goroutine that runs grpcServer.GracefulStop; in "handlers"
              \* it holds the server's mutex
  cancelled,  \* the context Run was given, or NotifyContext's, is done
  err,        \* the first error of Run or of its errgroup, or "nil"
  ready,      \* debug.Server.ready
  expired,    \* the deadline of shutdownCtx has passed
  closing,    \* net/http's inShutdown of each web server
  grpcStop,   \* how far Stop or GracefulStop got: "no", "draining", "stopped"
  holder,     \* who listens on each port
  call,       \* where each call is
  orphans     \* gRPC handlers that go on though their call is over

vars == <<main, serve, stopper, graceful, cancelled, err, ready, expired,
          closing, grpcStop, holder, call, orphans>>

-----------------------------------------------------------------------------
\* Calls.  A gateway call is in "http" while its handler has not opened the
\* loopback RPC (or answers by itself), and in "rpc" while it waits for it.
Active(web) == {c \in Calls : Kind[c] = web /\ call[c] \in {"http", "rpc", "debug"}}
InRPC == {c \in Calls : call[c] = "rpc"}
Unfinished == {c \in Calls : call[c] \in {"http", "rpc", "debug"}}

\* Mutant: the stopping goroutine waits for the context Run was given.
gctxSignalled == cancelled

\* errgroup.WithContext: done when the parent is, or at the first error.
gctxDone == cancelled \/ err # "nil"

Starting == main \in {"listen", "register", "spawn"}

\* The stopping goroutine has gone past SetReady(false).
StopBegun == stopper \notin {"none", "waiting"}

\* Mutant: a listen error is filtered out as ErrServerClosed is.
FailSwallowed(s, e) == /\ serve' = [serve EXCEPT ![s] = IF e = "stopped" THEN "rejected"
                                                                       ELSE "failed"]
                       /\ err' = IF err = "nil" /\ e # "listen" THEN e ELSE err

\* Mutant: the last error is kept.
FailLast(s, e) == /\ serve' = [serve EXCEPT ![s] = IF e = "stopped" THEN "rejected"
                                                                  ELSE "failed"]
                  /\ err' = e

\* A goroutine leaves with an error: errgroup keeps the first one.
Fail(s, e) == /\ serve' = [serve EXCEPT ![s] = IF e = "stopped" THEN "rejected"
                                                                ELSE "failed"]
              /\ err' = IF err = "nil" THEN e ELSE err

\* The goroutine of s is over: it served, its Listen or Accept failed, or Serve
\* was rejected because the server had been stopped before.
Over(s) == serve[s] \in {"done", "failed", "rejected"}

Release(s) == [p \in Ports |-> IF holder[p] = s THEN "free" ELSE holder[p]]

Init ==
  /\ main = "listen"
  /\ serve = [s \in Servers |-> "none"]
  /\ stopper = "none"
  /\ graceful = "none"
  /\ cancelled = FALSE
  /\ err = "nil"
  /\ ready = FALSE
  /\ expired = FALSE
  /\ closing = [s \in WebServers |-> FALSE]
  /\ grpcStop = "no"
  /\ \E foreign \in SUBSET Ports :
       holder = [p \in Ports |-> IF p \in foreign THEN "foreign" ELSE "free"]
  /\ call = [c \in Calls |-> "idle"]
  /\ orphans = {}

-----------------------------------------------------------------------------
(* Run itself. *)

\* net.Listen for the gRPC port, before anything is started.
ListenGrpc ==
  /\ main = "listen"
  /\ LET p == PortOf["grpc"] IN
     \/ /\ holder[p] = "free"
        /\ holder' = [holder EXCEPT ![p] = "grpc"]
        /\ main' = "register"
        /\ UNCHANGED err
     \/ /\ holder[p] # "free"
        /\ main' = "returned"
        /\ err' = "listen"
        /\ UNCHANGED holder
  /\ UNCHANGED <<serve, stopper, graceful, cancelled, ready, expired, closing,
                 grpcStop, call, orphans>>

\* grpc.NewClient and the gateway registrations: any of them may fail, and Run
\* then returns without closing the listener it has just opened.
RegisterGateway ==
  /\ main = "register"
  /\ \/ main' = "spawn" /\ UNCHANGED err
     \/ main' = "returned" /\ err' = "register"
  /\ UNCHANGED <<serve, stopper, graceful, cancelled, ready, expired, closing,
                 grpcStop, holder, call, orphans>>

\* The four g.Go calls, in the order of the source.
SpawnAfter == [grpc |-> {}, http |-> {"grpc"}, debug |-> {"grpc", "http"}]

Spawn(s) ==
  /\ main = "spawn"
  /\ serve[s] = "none"
  /\ \A t \in SpawnAfter[s] : serve[t] # "none"
  /\ serve' = [serve EXCEPT ![s] = "started"]
  /\ UNCHANGED <<main, stopper, graceful, cancelled, err, ready, expired,
                 closing, grpcStop, holder, call, orphans>>

SpawnStopper ==
  /\ main = "spawn"
  /\ \A s \in Servers : serve[s] # "none"
  /\ stopper' = "waiting"
  /\ main' = "ready"
  /\ UNCHANGED <<serve, graceful, cancelled, err, ready, expired, closing,
                 grpcStop, holder, call, orphans>>

SetReady ==
  /\ main = "ready"
  /\ ready' = TRUE
  /\ main' = "wait"
  /\ UNCHANGED <<serve, stopper, graceful, cancelled, err, expired, closing,
                 grpcStop, holder, call, orphans>>

\* Mutant: Run waits for the stopping goroutine only.
ReturnWithoutServers ==
  /\ main = "wait"
  /\ stopper = "done"
  /\ main' = "returned"
  /\ call' = [c \in Calls |-> IF c \in Unfinished THEN "cut" ELSE call[c]]
  /\ orphans' = {}
  /\ UNCHANGED <<serve, stopper, graceful, cancelled, err, ready, expired,
                 closing, grpcStop, holder>>

\* Mutant: the stopping goroutine is not one of the errgroup.
ReturnWithoutStopper ==
  /\ main = "wait"
  /\ \A s \in Servers : Over(s)
  /\ main' = "returned"
  /\ call' = [c \in Calls |-> IF c \in Unfinished THEN "cut" ELSE call[c]]
  /\ orphans' = {}
  /\ UNCHANGED <<serve, stopper, graceful, cancelled, err, ready, expired,
                 closing, grpcStop, holder>>

\* g.Wait: the four goroutines are over.  Run's caller exits, and whatever
\* handler still runs is lost with the process.
Return ==
  /\ main = "wait"
  /\ \A s \in Servers : Over(s)
  /\ stopper = "done"
  /\ main' = "returned"
  /\ call' = [c \in Calls |-> IF c \in Unfinished THEN "cut" ELSE call[c]]
  /\ orphans' = {}
  /\ UNCHANGED <<serve, stopper, graceful, cancelled, err, ready, expired,
                 closing, grpcStop, holder>>

-----------------------------------------------------------------------------
(* The server goroutines. *)

\* grpcServer.Serve: after Stop or GracefulStop it closes the listener and
\* returns ErrServerStopped, which Run reports as an error.
ServeGrpc ==
  /\ serve["grpc"] = "started"
  /\ \/ /\ grpcStop = "no"
        /\ serve' = [serve EXCEPT !["grpc"] = "serving"]
        /\ UNCHANGED <<err, holder>>
     \/ /\ grpcStop # "no"
        /\ Fail("grpc", "stopped")
        /\ holder' = Release("grpc")
  /\ UNCHANGED <<main, stopper, graceful, cancelled, ready, expired, closing,
                 grpcStop, call, orphans>>

\* Serve waits for Stop or GracefulStop to finish and returns nil.
GrpcServed ==
  /\ serve["grpc"] = "serving"
  /\ grpcStop = "stopped"
  /\ serve' = [serve EXCEPT !["grpc"] = "done"]
  /\ UNCHANGED <<main, stopper, graceful, cancelled, err, ready, expired,
                 closing, grpcStop, holder, call, orphans>>

\* ListenAndServe, first half: refuse if Shutdown was called, else listen.
ListenWeb(s) ==
  /\ serve[s] = "started"
  /\ \/ /\ closing[s]
        /\ serve' = [serve EXCEPT ![s] = "done"]
        /\ UNCHANGED <<err, holder>>
     \/ /\ ~closing[s]
        /\ holder[PortOf[s]] = "free"
        /\ serve' = [serve EXCEPT ![s] = "bound"]
        /\ holder' = [holder EXCEPT ![PortOf[s]] = s]
        /\ UNCHANGED err
     \/ /\ ~closing[s]
        /\ holder[PortOf[s]] # "free"
        /\ Fail(s, "listen")
        /\ UNCHANGED holder
  /\ UNCHANGED <<main, stopper, graceful, cancelled, ready, expired, closing,
                 grpcStop, call, orphans>>

\* Second half: register the listener with Shutdown, or notice it came first.
ServeWeb(s) ==
  /\ serve[s] = "bound"
  /\ \/ /\ ~closing[s]
        /\ serve' = [serve EXCEPT ![s] = "serving"]
        /\ UNCHANGED holder
     \/ /\ closing[s]
        /\ serve' = [serve EXCEPT ![s] = "done"]
        /\ holder' = Release(s)
  /\ UNCHANGED <<main, stopper, graceful, cancelled, err, ready, expired,
                 closing, grpcStop, call, orphans>>

\* Shutdown closed the listener: ErrServerClosed, which Run filters out.
WebServed(s) ==
  /\ serve[s] = "serving"
  /\ closing[s]
  /\ serve' = [serve EXCEPT ![s] = "done"]
  /\ UNCHANGED <<main, stopper, graceful, cancelled, err, ready, expired,
                 closing, grpcStop, holder, call, orphans>>

\* Accept fails for good (out of descriptors, interface gone): the listener is
\* closed, connections already accepted go on.
AcceptFails(s) ==
  /\ serve[s] = "serving"
  /\ IF s = "grpc" THEN grpcStop = "no" ELSE ~closing[s]
  /\ Fail(s, "accept")
  /\ holder' = Release(s)
  /\ UNCHANGED <<main, stopper, graceful, cancelled, ready, expired, closing,
                 grpcStop, call, orphans>>

-----------------------------------------------------------------------------
(* The stopping goroutine. *)

\* The signal, or the context Run was given.
Cancel ==
  /\ ~cancelled
  /\ main # "returned"
  /\ cancelled' = TRUE
  /\ UNCHANGED <<main, serve, stopper, graceful, err, ready, expired, closing,
                 grpcStop, holder, call, orphans>>

\* Mutant: readiness is not withdrawn.
BeginStopReady ==
  /\ stopper = "waiting"
  /\ gctxDone
  /\ stopper' = "closeHTTP"
  /\ UNCHANGED <<main, serve, graceful, cancelled, err, ready, expired, closing,
                 grpcStop, holder, call, orphans>>

\* <-gctx.Done(), SetReady(false) and the deadline.
BeginStop ==
  /\ stopper = "waiting"
  /\ gctxDone
  /\ ready' = FALSE
  /\ stopper' = "closeHTTP"
  /\ UNCHANGED <<main, serve, graceful, cancelled, err, expired, closing,
                 grpcStop, holder, call, orphans>>

\* The deadline is armed by BeginStop and passes at any time after it.
Expire ==
  /\ StopBegun
  /\ stopper # "done"
  /\ ~expired
  /\ expired' = TRUE
  /\ UNCHANGED <<main, serve, stopper, graceful, cancelled, err, ready,
                 closing, grpcStop, holder, call, orphans>>

\* Shutdown of a web server: close the listener it knows of ...
CloseWeb(s, from, to) ==
  /\ stopper = from
  /\ stopper' = to
  /\ closing' = [closing EXCEPT ![s] = TRUE]
  /\ holder' = IF serve[s] = "serving" THEN Release(s) ELSE holder
  /\ UNCHANGED <<main, serve, graceful, cancelled, err, ready, expired,
                 grpcStop, call, orphans>>

\* Mutant: Shutdown is given context.Background().
DrainWebForever(s, from, to) ==
  /\ stopper = from
  /\ serve[s] # "serving"
  /\ Active(s) = {}
  /\ stopper' = to
  /\ UNCHANGED <<main, serve, graceful, cancelled, err, ready, expired,
                 closing, grpcStop, holder, call, orphans>>

\* ... and wait for its Serve to leave and for its connections to go idle, or
\* for the deadline.
DrainWeb(s, from, to) ==
  /\ stopper = from
  /\ serve[s] # "serving"
  /\ Active(s) = {} \/ expired
  /\ stopper' = to
  /\ UNCHANGED <<main, serve, graceful, cancelled, err, ready, expired,
                 closing, grpcStop, holder, call, orphans>>

\* Mutant: httpServer.Shutdown is not called, only waited for.
CloseHTTPForgotten == /\ stopper = "closeHTTP"
                      /\ stopper' = "drainHTTP"
                      /\ UNCHANGED <<main, serve, graceful, cancelled, err, ready,
                                     expired, closing, grpcStop, holder, call, orphans>>

CloseHTTP == CloseWeb("http", "closeHTTP", "drainHTTP")

\* Mutant: httpServer.Close instead of Shutdown does not wait for handlers.
DrainHTTPClosed == /\ stopper = "drainHTTP"
                   /\ stopper' = "closeDebug"
                   /\ UNCHANGED <<main, serve, graceful, cancelled, err, ready,
                                  expired, closing, grpcStop, holder, call, orphans>>

DrainHTTP == DrainWeb("http", "drainHTTP", "closeDebug")
CloseDebug == CloseWeb("debug", "closeDebug", "drainDebug")
DrainDebug == DrainWeb("debug", "drainDebug", "closeGRPC")

SpawnGraceful ==
  /\ stopper = "closeGRPC"
  /\ stopper' = "select"
  /\ graceful' = "started"
  /\ UNCHANGED <<main, serve, cancelled, err, ready, expired, closing,
                 grpcStop, holder, call, orphans>>

\* select { case <-stopped: ...
SelectStopped ==
  /\ stopper = "select"
  /\ graceful = "done"
  /\ stopper' = "done"
  /\ UNCHANGED <<main, serve, graceful, cancelled, err, ready, expired,
                 closing, grpcStop, holder, call, orphans>>

\* case <-shutdownCtx.Done(): ...
SelectExpired ==
  /\ stopper = "select"
  /\ expired
  /\ stopper' = "stop"
  /\ UNCHANGED <<main, serve, graceful, cancelled, err, ready, expired, closing,
                 grpcStop, holder, call, orphans>>

\* ... grpcServer.Stop() }.  Under the server's mutex it closes the listener and
\* every connection: a direct caller loses its call, a gateway call answers
\* Unavailable.  The handlers' contexts are cancelled, which they may ignore.
StopCuts ==
  /\ stopper = "stop"
  /\ graceful # "handlers"
  /\ stopper' = "stopping"
  /\ grpcStop' = IF grpcStop = "no" THEN "draining" ELSE grpcStop
  /\ holder' = IF serve["grpc"] = "serving" THEN Release("grpc") ELSE holder
  /\ call' = [c \in Calls |->
                IF c \notin InRPC THEN call[c]
                ELSE IF Kind[c] = "grpc" THEN "cut" ELSE "unavailable"]
  /\ orphans' = orphans \cup InRPC
  /\ UNCHANGED <<main, serve, graceful, cancelled, err, ready, expired, closing>>

\* It waits on a condition variable until the connections are gone, and needs
\* the mutex again, for which GracefulStop has been woken up too.
StopReturns ==
  /\ stopper = "stopping"
  /\ graceful # "handlers"
  /\ stopper' = "done"
  /\ grpcStop' = "stopped"
  /\ UNCHANGED <<main, serve, graceful, cancelled, err, ready, expired, closing,
                 holder, call, orphans>>

\* GracefulStop: close the listener Serve registered, refuse new RPCs ...
GracefulClose ==
  /\ graceful = "started"
  /\ main # "returned"
  /\ graceful' = "draining"
  /\ grpcStop' = IF grpcStop = "no" THEN "draining" ELSE grpcStop
  /\ holder' = IF serve["grpc"] = "serving" THEN Release("grpc") ELSE holder
  /\ UNCHANGED <<main, serve, stopper, cancelled, err, ready, expired, closing,
                 call, orphans>>

\* ... wait for the connections with RPCs in flight, and then, with the mutex in
\* hand, for every handler.
GracefulDrained ==
  /\ graceful = "draining"
  /\ main # "returned"
  /\ InRPC = {}
  /\ graceful' = "handlers"
  /\ UNCHANGED <<main, serve, stopper, cancelled, err, ready, expired, closing,
                 grpcStop, holder, call, orphans>>

GracefulDone ==
  /\ graceful = "handlers"
  /\ main # "returned"
  /\ orphans = {}
  /\ graceful' = "done"
  /\ grpcStop' = "stopped"
  /\ UNCHANGED <<main, serve, stopper, cancelled, err, ready, expired, closing,
                 holder, call, orphans>>

-----------------------------------------------------------------------------
(* The callers. *)

\* Mutant: a call is entered under the name of its server.
ArriveByKind(c) ==
  /\ call[c] = "idle"
  /\ serve[Kind[c]] = "serving"
  /\ IF Kind[c] = "grpc" THEN grpcStop = "no" ELSE ~closing[Kind[c]]
  /\ call' = [call EXCEPT ![c] = Kind[c]]
  /\ UNCHANGED <<main, serve, stopper, graceful, cancelled, err, ready,
                 expired, closing, grpcStop, holder, orphans>>

\* A connection is accepted and its handler starts.
Arrive(c) ==
  /\ call[c] = "idle"
  /\ serve[Kind[c]] = "serving"
  /\ IF Kind[c] = "grpc" THEN grpcStop = "no" ELSE ~closing[Kind[c]]
  /\ call' = [call EXCEPT ![c] = IF Kind[c] = "grpc" THEN "rpc" ELSE Kind[c]]
  /\ UNCHANGED <<main, serve, stopper, graceful, cancelled, err, ready,
                 expired, closing, grpcStop, holder, orphans>>

\* The gateway opens its loopback RPC.  While Serve has not been called it
\* waits; a server that stopped refuses it; one whose Accept failed answers on
\* a connection it already had and refuses otherwise.
OpenUpstream(c) ==
  /\ call[c] = "http"
  /\ main # "returned"
  /\ \/ /\ grpcStop = "no"
        /\ serve["grpc"] \in {"serving", "failed"}
        /\ call' = [call EXCEPT ![c] = "rpc"]
     \/ /\ grpcStop # "no" \/ serve["grpc"] = "failed"
        /\ call' = [call EXCEPT ![c] = "unavailable"]
  /\ UNCHANGED <<main, serve, stopper, graceful, cancelled, err, ready,
                 expired, closing, grpcStop, holder, orphans>>

\* The handler answers: the service's own, or the middleware in front of it.
Answer(c) ==
  /\ c \in Unfinished
  /\ call' = [call EXCEPT ![c] = "ok"]
  /\ UNCHANGED <<main, serve, stopper, graceful, cancelled, err, ready,
                 expired, closing, grpcStop, holder, orphans>>

\* The caller hangs up.  The handler's context is cancelled, no more.
HangUp(c) ==
  /\ call[c] = "rpc"
  /\ call' = [call EXCEPT ![c] = "left"]
  /\ orphans' = orphans \cup {c}
  /\ UNCHANGED <<main, serve, stopper, graceful, cancelled, err, ready,
                 expired, closing, grpcStop, holder>>

\* A handler that nobody waits for any more returns, in its own time.
HandlerEnds(c) ==
  /\ c \in orphans
  /\ orphans' = orphans \ {c}
  /\ UNCHANGED <<main, serve, stopper, graceful, cancelled, err, ready,
                 expired, closing, grpcStop, holder, call>>

-----------------------------------------------------------------------------
RunSteps == ListenGrpc \/ RegisterGateway \/ SpawnStopper \/ SetReady \/ Return
            \/ \E s \in Servers : Spawn(s)

ServerSteps(s) == IF s = "grpc" THEN ServeGrpc \/ GrpcServed
                  ELSE ListenWeb(s) \/ ServeWeb(s) \/ WebServed(s)

StopSteps == \/ BeginStop \/ CloseHTTP \/ DrainHTTP \/ CloseDebug \/ DrainDebug
             \/ SpawnGraceful \/ SelectStopped \/ SelectExpired
             \/ StopCuts \/ StopReturns

GracefulSteps == GracefulClose \/ GracefulDrained \/ GracefulDone

Next == \/ RunSteps
        \/ \E s \in Servers : ServerSteps(s) \/ AcceptFails(s)
        \/ StopSteps
        \/ GracefulSteps
        \/ Cancel \/ Expire
        \/ \E c \in Calls : Arrive(c) \/ OpenUpstream(c) \/ Answer(c)
                            \/ HangUp(c) \/ HandlerEnds(c)

\* Goroutines are scheduled and the deadline passes; nothing is assumed of the
\* callers, of their handlers, of the signal or of Accept.
Fairness == /\ WF_vars(RunSteps)
            /\ \A s \in Servers : WF_vars(ServerSteps(s))
            /\ WF_vars(StopSteps)
            /\ WF_vars(GracefulSteps)
            /\ WF_vars(Expire)

Spec == Init /\ [][Next]_vars /\ Fairness

-----------------------------------------------------------------------------
TypeOK ==
  /\ main \in {"listen", "register", "spawn", "ready", "wait", "returned"}
  /\ serve \in [Servers -> {"none", "started", "bound", "serving", "done",
                          "failed", "rejected"}]
  /\ stopper \in {"none", "waiting", "closeHTTP", "drainHTTP", "closeDebug",
                  "drainDebug", "closeGRPC", "select", "stop", "stopping", "done"}
  /\ graceful \in {"none", "started", "draining", "handlers", "done"}
  /\ cancelled \in BOOLEAN
  /\ err \in {"nil", "listen", "register", "accept", "stopped"}
  /\ ready \in BOOLEAN
  /\ expired \in BOOLEAN
  /\ closing \in [WebServers -> BOOLEAN]
  /\ grpcStop \in {"no", "draining", "stopped"}
  /\ holder \in [Ports -> Servers \cup {"free", "foreign"}]
  /\ call \in [Calls -> {"idle", "http", "rpc", "debug", "ok", "left", "unavailable",
                       "cut"}]
  /\ orphans \subseteq Calls

\* A call the service accepted is given up only after the deadline: nothing is
\* cut by Run returning or by Stop, and no gateway call finds its own gRPC
\* server gone (App.Run stops the gateway before gRPC), unless the deadline has
\* passed or Accept of the gRPC server had failed.
GraceHonoured ==
  \A c \in Calls :
    /\ call[c] = "cut" => expired
    /\ call[c] = "unavailable" => expired \/ serve["grpc"] = "failed"

\* What the stopping goroutine has brought about when it has come so far; with
\* it GraceHonoured is inductive.  Each web server it has passed refuses new
\* calls and holds none (or the deadline is over), and gRPC is stopped last.
Past(stages) == stopper \in stages
AtStopGRPC == {"select", "stop", "stopping", "done"}
AtDrainedDebug == {"closeGRPC"} \cup AtStopGRPC
AtClosedDebug == {"drainDebug"} \cup AtDrainedDebug
AtDrainedHTTP == {"closeDebug"} \cup AtClosedDebug
AtClosedHTTP == {"drainHTTP"} \cup AtDrainedHTTP

StopProgress ==
  /\ Starting => stopper = "none"
  /\ Past(AtClosedHTTP) => closing["http"]
  /\ Past(AtClosedDebug) => closing["debug"]
  /\ Past(AtDrainedHTTP) => Active("http") = {} \/ expired
  /\ Past(AtDrainedDebug) => Active("debug") = {} \/ expired
  /\ grpcStop # "no" \/ graceful # "none" => Past(AtStopGRPC)
  /\ graceful \notin {"none", "started"} \/ Past({"stopping"}) => grpcStop # "no"
  /\ graceful \in {"handlers", "done"} \/ Past({"stopping"}) \/ grpcStop = "stopped"
       => InRPC = {}
  /\ graceful = "done" => grpcStop = "stopped"
  /\ Past({"stop", "stopping"}) => expired
  /\ Past({"done"}) => grpcStop = "stopped" /\ (graceful = "done" \/ expired)

\* Run returns nil only when it was asked to stop and every server served to
\* the end: a server that could not listen or lost its listener is never
\* swallowed with ErrServerClosed or by the errgroup.
NilOnlyIfAsked ==
  main = "returned" /\ err = "nil" =>
    cancelled /\ \A s \in Servers : serve[s] = "done"

\* "The server has been stopped" never stands for what really went wrong: Run only
\* reports it after a stop that was asked for, when it overtook the goroutine of
\* the gRPC server on its way to Serve.
StopNotBlamed == err = "stopped" => cancelled /\ serve["grpc"] = "rejected"

\* Once Run has started its goroutines it gives every port back before it
\* returns, also when the shutdown overtakes a server that is still about to
\* listen (between ListenAndServe's check, Listen and trackListener).
PortsReleased ==
  main = "returned" /\ stopper = "done" => \A p \in Ports : holder[p] \notin Servers

\* If Run reached its Wait before the shutdown began, then from the moment any
\* server refuses traffic /readyz answers 503, for good: the balancer is told
\* first and never told otherwise.
ReadyWithdrawn ==
  [](main = "wait" /\ stopper = "waiting" =>
       []((\E s \in WebServers : closing[s]) \/ grpcStop # "no" => ~ready))

\* A gRPC handler whose caller is gone has its context cancelled.  This says that
\* it returns, sooner or later; nothing in the code makes it.
HandlersNotice == \A c \in Calls : []<>(c \notin orphans)

\* Run returns after a signal or a first error, whatever the callers do: calls
\* that are never answered cannot hold the shutdown beyond the deadline.  Handlers
\* that outlive their calls can, and must notice: GracefulStop waits for them with
\* the mutex in hand that Stop needs.
Stops == HandlersNotice => (gctxDone ~> main = "returned")

\* The service never stays half up: Run comes to its end, or from some moment on
\* all three servers serve.  A port that is taken and a listener lost later take
\* everything down; that Run says it is ready before its servers listen is made
\* good either way.
AllUpOrDown ==
  HandlersNotice => <>(main = "returned" \/ [](\A s \in Servers : serve[s] = "serving"))

-----------------------------------------------------------------------------
\* App.Run keeps the promise of Lifecycle.
work ==
  [c \in Calls |-> IF call[c] = "idle" THEN "new"
                   ELSE IF c \in Unfinished THEN "running"
                   ELSE IF call[c] = "ok" THEN "answered"
                   ELSE IF call[c] = "left" THEN "left"
                   ELSE "lost"]

phase == IF main = "returned" THEN "down"
         ELSE IF expired THEN "overdue"
         ELSE IF StopBegun THEN "draining"
         ELSE "up"

broken == serve["grpc"] = "failed"

Promise == INSTANCE Lifecycle WITH phase <- phase, broken <- broken, work <- work

\* Every behaviour of App.Run is one of Lifecycle: calls are accepted until the
\* end, given up only when overdue or when the gRPC server broke, and Run
\* returns only with nothing unfinished or overdue.
ImplementsLifecycle == Promise!Spec

-----------------------------------------------------------------------------
(* What a test of the repository says, and the code does not do. *)

\* pkg/debug/server_test.go: after the shutdown has begun /readyz must answer
\* 503.  App.Run calls SetReady(true) after it has started the goroutine that
\* calls SetReady(false), so a stop that comes first is overwritten.
NotReadyWhenStopping == StopBegun => ~ready
=============================================================================
