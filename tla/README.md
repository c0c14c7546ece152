# scratch: a verification development

TLA+ models of scratch (the generator and the platform library it generates
services for), the TLC configurations that check them on small instances, and
TLAPS proofs of what matters most for every value of the constants.

Run inside this directory: `tlc -config X.cfg MCxxx.tla` for a run,
`tlapm XxxProofs.tla` for the proofs. `PROJECT.json` lists the runs, the source
lines of each definition, the hazards and the theorems.

## 1. Inventory of the system

scratch is two programs in one repository: a command-line tool that creates and
maintains Go projects (`cmd/scratch`, `internal/`), and a library that the
projects run on (`pkg/`).

| Part | State | Operations | Talks to | What makes it correct |
|---|---|---|---|---|
| `pkg/app` App.Run | the errgroup, three servers, the shutdown context | start, serve, stop in order | net/http, grpc, signals, callers, `pkg/debug` | accepted calls get their grace, Run returns if handlers notice, errors and ports are not lost |
| `pkg/debug` | the readiness flag, an HTTP server | SetReady, Start, Shutdown | App.Run, the orchestrator | 503 before start-up and from the beginning of a stop |
| the generated `main.go`, `pkg/tracing`, `pkg/metrics`, `internal/otelres` | the providers, the spans on their way | Init, Run, deferred shutdowns | App.Run, the OpenTelemetry SDK, a collector | spans of answered calls are handed over, providers frame Run, the process exits |
| `pkg/grpcmw` | none | Recovery, Logging, their stream forms | grpc-go, handlers, loggers | no panic leaves the process, every call has one closing record |
| `pkg/logging` | chains of derived loggers | WithAttrs, WithGroup, Handle | slog | the trace at the top level, siblings do not disturb each other |
| `pkg/httpmw`, `config.CORS`, App.corsConfig | none | CORS | browsers, caches, deployments | a page reads exactly what the configuration lets its origin read |
| `internal/generator` | files, go.mod, the manifest `.scratch.yaml` | Generate (`new`), Update, Save, LoadManifest, bumpLibVersion | the file system, editors, other versions of itself | nothing written by hand is lost; a completed update leaves everything current or offered; interrupted runs heal |
| `internal/handlers` | the Go files of `internal/server` | Generate: parse contracts, server.go, scan, stubs, report | the file system, contracts, `internal/generator` | existing code untouched, no method twice, every rpc accounted for |
| `internal/generator/params.go`, `render.go` | none | ServerPackage, GoCamelCase, serviceName, snake | both of the above, protoc-gen-go, the go command | names agree with each other and with what others derive |
| `pkg/config`, `internal/cli`, templates | none | Load, flags, text | the environment | see section 6 |

Behaviours that are hard: the goroutines of Run against a signal, the deadline,
listen and accept errors and callers; handlers that outlive Run while telemetry
is shut down; calls that share loggers, whose Go slices share arrays; answers and
grants that outlive the configuration that gave them; file writes that may be cut
short at any point with no journal; several versions of the tool over one
project; people editing between (or during) runs; names that collide.

## 2. Modules

| Module | Stands for |
|---|---|
| `Lifecycle` | the abstract promise of a service about accepted calls |
| `AppRun` | `App.Run` and the debug server; implements `Lifecycle` |
| `ServiceMain` | the generated `main.go` with tracing and metrics, round `Lifecycle` |
| `Loggers` | the abstract promise of the loggers a service derives |
| `TraceHandler` | `traceHandler` of `pkg/logging` with Go's slices; implements `Loggers` |
| `Interceptors` | calls through Recovery and Logging, over `TraceHandler` |
| `Cors` | the CORS middleware between two caches and deployments |
| `ScratchUpdate` | `scratch new` and `scratch update` over the life of a project |
| `Handlers` | `scratch handlers` over the life of a project |
| `Names` | the names both commands derive |
| `AppRunProofs`, `ServiceMainProofs`, `InterceptorsProofs`, `CorsProofs`, `ScratchUpdateProofs`, `HandlersProofs`, `NamesProofs` | theorems about the modules they are named after (`InterceptorsProofs` also about `TraceHandler`) |
| `FlattenLemmas` | induction over the numbers in terms of sets, and lemmas about `FlattenSeq`, for `NamesProofs` |
| `MCAppRun`, `MCServiceMain`, `MCInterceptors`, `MCCors`, `MCScratchUpdate`, `MCHandlers`, `MCNames` | small instances for TLC |

Composition: `ServiceMain` instantiates `Lifecycle` as its App.Run, which `AppRun`
is shown to implement: what holds of main holds with any App.Run that keeps that
promise. `Interceptors` extends `TraceHandler`: calls derive loggers and the
interceptors write through the root.

Operators marked "Mutant" in a comment are not part of a specification: each is
a plausible bug in the definition after it, kept to show that a property would
notice.

### AppRun

One variable per goroutine (`main`, `serve[s]`, `stopper`, `graceful`) holds
where it is; `err` is errgroup's first error, `ready` the debug server's flag,
`expired` the deadline of `shutdownCtx`, `closing` net/http's `inShutdown`,
`grpcStop` how far Stop or GracefulStop got, `holder` who listens on each port,
`call` where each call is, `orphans` the gRPC handlers that go on though their
call is over (cut by Stop, or left by the caller). One action is one call in the source: `ListenGrpc`
is app.go:111, `Spawn(s)` the `g.Go` calls, `BeginStop` lines 203-208, and so
on. A gateway call is in `"http"` until it opens its loopback RPC, then in
`"rpc"`. Time is not modelled: `Expire` may happen at any moment after the
deadline is armed.

External contracts (read from the versions in go.mod):
* `http.Server.ListenAndServe` checks for shutdown, listens, then registers the
  listener; `Shutdown` closes registered listeners, waits for Serve to leave and
  for active connections to end, or for its context.
* `grpc.Server.Serve` after a stop closes the listener and returns
  `ErrServerStopped`; otherwise it returns nil once the stop is finished.
* `GracefulStop` refuses new RPCs, waits on a condition variable until no
  connection is left, and then, with the server's mutex in hand, until every
  handler has returned (`handlersWG.Wait()` in `Server.stop` of v1.69.4, the version
  in go.mod). `Stop` closes the connections, waits for them in the same way, and
  asks nothing of the handlers; but it needs that mutex, first to close the
  connections and again when it is woken up. If the parked GracefulStop is woken up
  first, Stop waits for the handlers after all (`StopCuts`, `GracefulDrained` and
  `StopReturns` leave either order open). A handler's context is cancelled when
  its call ends; the handler may ignore that.
* errgroup keeps the first error and cancels its context.

Fairness: weak fairness of Run's own goroutines, of the server goroutines, of
the stopper and of the goroutine of GracefulStop (Go schedules runnable
goroutines), and of `Expire` (timers fire). None for callers, handlers, the
signal or Accept errors: a call may stay unanswered for ever. `Stops` and
`AllUpOrDown` have a premise, `HandlersNotice`: a gRPC handler whose call is
over returns sooner or later. The code does not make it so, and without it the
claims are false: a caller hangs up (or Stop cuts the call) while its handler
ignores the cancelled context, GracefulStop takes the mutex and waits for the
handler, Stop waits for the mutex (app.go:221), and Run does not return, long after
the deadline. No sentence of the repository promises otherwise, so there is no run
for it.

Left out: a second signal (NotifyContext swallows it until Run returns, so it
changes nothing), keep-alive and TLS, the handlers behind the calls.

### ServiceMain

`main` is where the template's `run()` is, `config` what `config.Load` returned,
`exporter`, `tracer` and `meter` what `tracing.Init` and `metrics.Init` set up;
`phase`, `broken`, `work` are App.Run's state as `Lifecycle` has it. Each error
return of the start-up is a disjunct; the defers run in reverse order
(`ShutdownMetrics`, `ShutdownTracing`, `Drained`). `span` follows the span of
each call: a handler whose call is over (given up by Run, or left by the caller,
`HangUp`) may end its span before, during or after the shutdown (`EndLate`,
`EnqueueLate`), as the SDK first looks up whether it is stopped and then enters
the queue.

External: the batch span processor (a bounded queue that drops what it cannot
take, batches, a drain on Shutdown that ends when the queue is empty; each export
has a timeout of its own), an exporter whose collector may refuse every batch.

Fairness: weak fairness of main's steps and of the exporter's (goroutines are
scheduled and exports time out) and of Run's noticing that gRPC has broken or its
deadline. Nothing is assumed of the calls, nor that Run returns: `ServesOrExits` has
that as its premise (`RunReturnsWhenTold`), which is what `Stops` of `AppRun` says and
depends on the handlers as described there. What it adds is main's own part, the
deferred shutdowns.

### TraceHandler and Interceptors

A logger is a `traceHandler`: `eager` is the chain built into slog's handler,
`ops` a Go slice (array, length, capacity) in `heap`, `inGroup` the flag. `append`
writes in place while there is room and else moves to a new array with any spare
capacity up to `MaxSpare` (growslice may give more than asked for). `record` is
what the latest step wrote, so that `Loggers` can say of each record what it
shows. slog's placing of attributes under groups is modelled by positions in the
chain (`Opened`), not by names.

A call passes Recovery, then Logging, then its handler, in a unary or a stream
form; what a handler returns may be an answer, a status, a bare context error, an
error whose methods panic, or a panic. grpc-go is external: a panic that leaves the chain ends
the process; the status sent comes from `status.FromContextError` for context
errors, and the client may have cancelled. Interceptors of the service come after
these and count as part of the handler.

### Cors

`config` is the deployed configuration; `cache` an HTTP cache of one resource,
`grants` the browser's preflight cache; a page asks, preflights, sends or is
served from the cache. `Headers` and `Preflighted` are the middleware as a
function of configuration and origin, with `corsConfig` (Swagger's origins added)
and the order App.Run gives it: a preflight ends there, before any middleware of
the service. Browser and cache follow Fetch and RFC 9111. Answers carry the
configuration that made them (`by`) and the origin (`to`) to state properties
with.

### ScratchUpdate

`disk`, `side` (`*.scratch-new`), `manifest` and `gomod` are the project;
`pc`, `op`, `bin`, `mem`, `todo`, `job`, `report` the running tool. A file holds
a member of `Contents`; a rendering is `Template[f][p][v]`, a function of the
parameters and the version, as `Render` is pure. A hash is a tag on its content,
so injective. `Classify` is the read and the switch of update.go:59-90,
`WriteFile` the write and what follows it in the loop; they are two steps
because an editor, a kill or a full disk may come between. The loop's order is
Go's map order, hence any. `WriteTorn`, `SaveTorn`, `GenerateTorn` and
`GenerateGoModTorn` leave what a truncated write leaves; for the manifest that
may be nothing that parses, an empty document, parameters without the rest, or
some of the hashes. `lib_replace` and a manifest that lost its parameters are
the values `"local"` and `"lost"`. Version 0 is a build without a release tag.

A torn file is none of the renderings (`ContentsAssumption`): a write that was cut
short after the last byte is a `WriteFile` followed by a `Die`.

History variables: `strayed` (files that people have touched since the tool wrote
them, whole or torn, or that it has declared somebody's own in a conflict), `attempts`
(commands, parameters and versions of the runs cut short since the latest
complete one), `last`. They guard nothing.

`Init` may hold the manifest of a newer, incompatible scratch, which update
refuses. With `EditsDuringRun` people also edit while the tool runs. `HandEditsKept`
asks `WriteIsSafe` of each step: a write in place (`InPlace`) replaces only what the
tool has made, or nothing.

### Handlers

`contract` and `tree` are the project; a Go file is `Absent` or what it declares
and whether it parses. `parsed` is the contract read at the start, `implemented`
the result of the scan of the current package: both are used after the project
may have moved on in the same run, by the tool's own writes. The names of
packages, methods and files are the functions `Pkg`, `GoName` and `FileName`,
which need not be injective. Services and rpcs are taken in any order (the
source sorts the files: one of those orders). Every `return err` drops the report
(`Stopped`); `PrintReport` is the end of a run that reached it. Between runs
people change the contracts, move declarations to other files, implement, delete,
and leave files that do not parse.

### Names

A name is a sequence of characters, a few of each kind; `word` grows one
character at a time so that TLC looks at every word. `GoCamelCase` is the loop,
as a recursive function on positions; `CamelAt` says what becomes of each
character by its neighbours alone, without a loop, and is the reference for it.
`Only` is the filter as a `FlattenSeq` of pieces of one character or none, as `snake`
is, so that the same lemmas serve for both.

## 3. Runs

| Run | Checks | States |
|---|---|---|
| `app_run` | TypeOK, GraceHonoured, StopProgress, NilOnlyIfAsked, StopNotBlamed, PortsReleased, ReadyWithdrawn, Stops, AllUpOrDown, ImplementsLifecycle | 425 139 |
| `service_main` | TypeOK, SpansHandedOver, TelemetryFramesRun, ServesOrExits | 239 146 |
| `calls` | TypeOK, ProcessSurvives, OneVerdict, ImplementsLoggers | 1 949 208 |
| `cors` | TypeOK, Transparent, SentOnlyIfGranted | 712 932 |
| `scratch_update` | TypeOK, RecordIsOwn, Converged, HandEditsKept, SkewNeverSilent, RetryHeals | 2 015 367 |
| `handlers` | TypeOK, Accounted, NothingOverwritten, MethodsOnce, Idempotent | 4 777 305 |
| `names` | CamelByRules, NamesAgree, StubsAreBuilt | 299 593 |

Bounds.
* `app_run`: one call of each kind (gateway, direct, debug), three ports, any of
  which a stranger may hold. Run treats calls of a kind alike, and the theorems
  hold for any set of calls.
* `service_main`: three calls, a queue of two and batches of one, so that the
  queue can be full and the drain has more than one batch.
* `calls`: a unary call with a trace and a stream without one, four loggers (the
  root, one of the service, one of each call), one spare element: a parent with
  two children, derived by different owners, is where an append in place bites.
* `cors`: one request at a time (pages meet only in the caches), four origins,
  four configurations (none, one origin with credentials, Swagger alone, the
  wildcard), two entries in each cache.
* `scratch_update`: two managed files, one changing with each version and with
  `lib_replace` and one with the last version only, one application file,
  versions 0 to 2, four runs, one edit, one failure: enough for new, an
  interrupted update, an update by another version and one more that meets what
  those three left.
* `handlers`: three services, two of one name and so in one package, one of them
  with an alias gofmt refuses and a foreign message; two rpcs that want one file,
  one that wants server.go; two runs, two edits, one failure.
* `names`: all words of up to six characters over two letters and their capitals,
  a digit and the three marks: every rule looks one character to each side.

`MaxRuns`, `MaxEdits`, `MaxFailures` appear only in the guards of
`CountRun`/`parseServices`, `CountEdit` and `CountFailure`; `CacheSize`,
`MaxSpare` and `MaxLength` bound the caches, growslice and the words. Deadlock is
not checked where Run returns, the process exits, all calls are answered or the
bounds are used up; it is in `cors`.

Runs expected to end in a violation check one sentence of the repository's
documentation, comments or tests that the code does not keep:

| Run | Sentence | What happens |
|---|---|---|
| `app_run_ready` | server_test.go:52-53, `/readyz` answers 503 after a stop has begun | SetReady(true), app.go:226, overwrites the SetReady(false) of a stop that came first |
| `scratch_conflict` | update.go:20, conflict means edited by hand | a killed update leaves new files under old hashes; the next version reports conflicts |
| `scratch_race` | cli/update.go:22, hand-edited files are not overwritten | an edit between read and write is lost |
| `handlers_moved` | cli/handlers.go:22, server.go is made for a new service | it is also made when type Server was moved to another file |
| `calls_code` | grpcmw.go:17, each call is logged with its code | a bare context error is logged as Unknown, the client is told DeadlineExceeded |

What the passing properties say in context:
* `RetryHeals` and `scratch_conflict` together: after an interrupted update the
  same command of the same version takes the tool's own files as its own, except
  those a write left torn (update.go:168 truncates first). These match neither hash,
  are reported as conflicts, edited by hand as update.go:20 has it, and stay torn
  until somebody takes what lies beside them. Another version takes whole files for
  edited ones too. What another version has reported as a conflict stays one: its
  record is not moved on.
* `GraceHonoured` holds although the three servers share one deadline: a slow
  gateway may use all of it, and what gRPC then loses is lost after the deadline.
* `ReadyWithdrawn` starts where `app_run_ready` ends: once Run waits, readiness
  is withdrawn before anything is closed and never comes back.
* `StopNotBlamed`: a stop that overtakes the gRPC goroutine on its way to Serve makes
  Run return ErrServerStopped, though nothing failed (it does: see below). This
  says that it is the only case, and that the error never hides another.
* `AllUpOrDown`: readiness does not wait for the servers to listen, but a service
  that cannot serve on all its ports comes to its end.
* `SpansHandedOver` is about answered calls: the span of a handler that was given
  up may be lost, the order of the shutdowns loses no other.
* `Transparent` holds for any age of a cached answer because the middleware sets
  Vary on every answer, also on those without permission.
* `OneVerdict` leaves the code of a bare context error to `calls_code`.
* `Accounted` says what a printed report is worth: every rpc has its method or
  a warning, also with files that other runs left torn or people moved; both only
  if another rpc of the same name in the same package has brought the method.
  `Idempotent` is stated with the same exception.

Known divergences with no run of their own: readiness is announced before the
gateway has called Listen (app_test.go:119-120), and a stop before `Serve` makes
Run return ErrServerStopped (`StopNotBlamed` is the extent of it); a manifest that was truncated to nothing is worked
from, with empty parameters (manifest.go:99-100); an error late in a handlers run
drops the hint for services created earlier in it (cli/handlers.go:22-23);
services of one name in two proto packages share a package (handlers.go:2); an
rpc such as `RunTest` gets `run_test.go`, which the scan counts and the build
leaves out (`StubsAreBuilt` says exactly when).

## 4. Proofs

All by TLAPS, for every value of the constants that satisfies the named
assumptions of the module (types of the constant functions, disjoint sets,
`Absent`, `Unreadable`, `Nothing` and `NoHash` being none of the values they
stand beside). Every invariant and action property of the passing runs is a
theorem, as are the two refinements; so is `ReadyWithdrawn`.

* `AppRunProofs`.
  * `TypeCorrect`: `AppRun`'s type invariant, inductive by itself.
  * `GraceIsHonoured`, `StopIsOrdered`: GraceHonoured is not inductive, because
    a step that gives a call up is harmless only for what the stopper did before:
    a gateway call cannot find gRPC gone since the gateway was drained first.
    `GraceInv` adds that progress (`StopProgress`), the kinds of calls and the
    type invariant; each action is checked against each part.
  * `KeepsPromise`: `AppRun` implements `Lifecycle`, step by step. Beyond
    `GraceInv` it needs `Ends`: before Run starts its goroutines and after it has
    returned nothing serves and no call is unfinished. Which step may give calls
    up (StopCuts, a refused OpenUpstream, Return) is where `GraceInv` is used.
  * `PortsAreReleased`, `ErrorsAreKept`, `StopIsNotBlamed`: `PortsInv` ties the port to the place of
    its server's goroutine (one that is over, or was closed while serving, holds
    none); `ErrInv` says that a server that failed left an error and that a stop
    has a reason. A rejected Serve is blamed only if no error came before, and then
    the stop must have been asked for.
  * `BalancerIsTold`: `[](P => []Q)`, by an invariant that P establishes: `Told`
    (after the Wait either the stopper still sleeps, or readiness is withdrawn
    and nobody is left to announce it) with `OpenInv` (nothing is closed before).
* `ServiceMainProofs`: `ServiceInv` adds to TypeOK what main's place and the
  configuration say of the providers (`Providers`: Run is only reached with each one
  that was asked for on), that no call comes before Run, and which spans a call in
  each state may have; a finite queue. `SpansAreHandedOver` rests on the drain seeing
  an empty queue, `TelemetryIsFramed` on the error returns of the start-up and on the
  order of the defers.
* `InterceptorsProofs`: `LoggersInv` says that a handler's slice lies within its
  array and that the eager chain, the slice and the group flag are one chain. A
  clipped slice has no room, so every append moves and no array in use changes:
  that is where Clip is needed. From it `LoggersAreKept`, the refinement of `Loggers`.
  `CallsInv` ties depth, result and verdicts of a call; from both
  `VerdictIsGiven` and `ProcessStaysUp`.
* `CorsProofs`: `AccessInv` says that every cached answer is one the middleware
  gives for some origin and that every grant is permitted by the configuration it
  is of. `AccessIsTransparent` then comes down to the middleware as a function,
  by cases of the configuration.
* `ScratchUpdateProofs`. People may edit while update runs (`EditsDuringRun`) in all
  theorems but three; `Touched` is where that shows: the invariants below except the
  files that somebody has changed since the tool last left them (`strayed`).
  * `RecordStaysOwn`: `KeptInv` says that every recorded hash is that of a rendering
    and that what update is about to replace has been found to be a rendering or
    missing. Hash injectivity is a property of the model's tag: it stands for
    SHA-256 having no collisions.
  * `UntouchedConverge`: after a complete update every file nobody has touched is
    current, also when others were edited under the tool's hands. `RunInv` says of
    each file a run has dealt with that it is current and noted or put aside
    (`Dealt`), and stays so until the manifest is saved; `SkewInv` does it for go.mod.
  * `RetriesHeal`: `OriginInv` accounts for every file that nobody but the tool
    has touched: by the record, by a run that was cut short and left it whole or
    torn, or by the running one. A Save that was cut short may lose any record, and
    then each file is what the run rendered or one it had put aside, which the record
    did not account for either. With `RecordInv` (the memory still holds the
    manifest's record of what is not dealt with or put aside) a conflict over such a
    file leads to a torn write, or to a run cut short with other parameters or
    another version; and a torn file, being no rendering, cannot end as anything else.
  * `OnlyTheWindowIsUnsafe`, `OnlyTheBumpIsExposed`: with edits during a run
    HandEditsKept fails (run `scratch_race`); these say how narrowly. If nobody
    changes a file between its read and its write (`HandsOff`), nothing made by hand
    is lost, whatever else is edited meanwhile; if nobody changes go.mod between its
    bump and the end of the run (`GoModLeft`), skew is never silent.
  * `NothingHandMadeIsLost`, `UpdatesConverge`, `SkewIsReported`: the properties of
    the run as they stand, under `~EditsDuringRun`, as corollaries.
* `HandlersProofs`.
  * `CodeIsLeftAlone`, `MethodsAreNotRepeated`: `PackageInv` says what the tool
    knows of the package between the scan and the last stub: a declared method
    was found by the scan, or the file named after it is there. That makes the
    test of the file's name enough, also when names collide.
  * `EveryRpcIsAccounted`: `RunInv` says at each point of the run which services and
    rpcs are settled (server.go is there, each rpc has its method or its warning,
    both only where names collide); `DoneInv` keeps it with the printed report
    until somebody edits.
  * `RunsAreIdempotent`: `RepeatInv` says that a run over an untouched project
    finds every rpc settled by the report before it, and so writes nothing and
    warns of nothing else.
* `NamesProofs`, for words of any length. The provers cannot instantiate the
  library's induction theorems, whose hypothesis is an operator; `FlattenLemmas`
  derives induction for sets of numbers from the well-foundedness of `<`
  (`SetInduction`, `UptoInduction`), and each proof names the set of the numbers its
  claim holds for. `UptoSteps` says what the first k pieces of a `FlattenSeq` come to.
  * `CamelByRulesHolds`: the recursive function in `GoCamelCase` exists (`CamelFcn`:
    its body only looks ahead), and from every position where a turn of the loop may
    begin it yields what is left of the pieces (`Follows`), backwards from the end.
    A turn begins at a lower-case letter only if the rules raise it (`Sync`): without
    that the claim is false, as the loop would raise a letter in mid-word.
  * `NamesAgreeHolds`: what the first k characters of a name have become is `Stable`
    (no lower-case letter but after a letter, no underscore in front) and, bare, is
    what `Package` makes of them (`Shaped`); GoCamelCase leaves stable words alone.
  * `StubsAreBuiltHolds`: `PieceEnds` aligns the file's name with the method's; read
    from the end, each letter of a reserved word is a piece of its own (`WordApart`).

Only model-checked:
* liveness (`Stops`, `AllUpOrDown`, `ServesOrExits`, each with its premise on
  handlers or on Run): fairness and ENABLED are beyond the prover;
* the sentences of the violation runs, of course.

## 5. Plan

Done, in order of weight: AppRun with Lifecycle; ScratchUpdate; Handlers; Cors;
TraceHandler with Loggers, under Interceptors; ServiceMain over Lifecycle; Names;
the proofs of their safety properties.

Left, in order of weight:
1. people who edit while `scratch handlers` runs (handlers.go:91, the window
   between os.Stat and os.WriteFile), as `EditsDuringRun` does for update;
2. `scratch update` and `scratch handlers` over one project: server.go of the
   template against the stubs.

## 6. Not modelled

* `pkg/app/options.go`: setters before Run, one assignment each.
* `pkg/config`: parsing of the environment by struct tags is a library's work;
  the values are constants and initial states (`Enabled` and Load's error are
  modelled).
* `pkg/debug/swagger.go`: a pure rewrite of a JSON document. The handlers of
  `/metrics`, pprof and the debug pages: library code and constant text.
* `internal/cli`: flags and printing, other than the report of handlers.
* `pkg/logging`: the choice of text or JSON output.
* `internal/generator/params.go`: `module.CheckPath`, the default name from
  `path.Base`, the default Go version.
* The text of the templates other than `main.go`.
