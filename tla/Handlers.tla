------------------------------ MODULE Handlers ------------------------------
(***************************************************************************)
(* `scratch handlers` (handlers.Generate): from the proto contracts of a   *)
(* project it creates the package of every service and the file of every   *)
(* rpc that nobody has written yet, and leaves what is there alone.         *)
(*                                                                         *)
(* The contracts are parsed once, at the start.  Then one service after    *)
(* another: server.go if it is missing, a scan of the package for methods  *)
(* of Server, and a stub for each rpc the scan did not find.  Any error    *)
(* ends the run and drops its report; what was written stays.  Between     *)
(* runs people change the contracts and the code.                          *)
(*                                                                         *)
(* A Go file is what it declares, and whether it parses.                   *)
(***************************************************************************)
EXTENDS Naturals, FiniteSets

CONSTANTS
  Services,    \* proto services
  Rpcs,        \* names of rpcs
  Offered,     \* Offered[s]: the rpcs the contract of s may come to have
  Foreign,     \* Foreign[s][r]: a message type of the rpc has a dot in its name
  Pkg,         \* Pkg[s]: generator.ServerPackage of the service's name
  GoName,      \* GoName[r]: generator.GoCamelCase of the rpc's name
  FileName,    \* FileName[n]: snake-case file of the method with Go name n
  Files,       \* names of Go files in a package
  ServerFile,  \* server.go
  TypeServer,  \* the declaration of type Server, with its constructor
  Printable,   \* services whose alias gofmt accepts
  Skeleton,    \* the services `scratch new` generated and registered
  Absent,      \* no such file
  MaxRuns, MaxEdits, MaxFailures   \* bounds for TLC

GoNames == {GoName[r] : r \in Rpcs}
Packages == {Pkg[s] : s \in Services}
Paths == Packages \X Files
Decls == (GoNames \cup {TypeServer}) \X Services
GoFile == [ok : BOOLEAN, decls : SUBSET Decls]

ASSUME NamesAssumption ==
  /\ ServerFile \in Files
  /\ DOMAIN Pkg = Services /\ DOMAIN GoName = Rpcs
  /\ FileName \in [GoNames -> Files]
  /\ Offered \in [Services -> SUBSET Rpcs]
  /\ Foreign \in [Services -> [Rpcs -> BOOLEAN]]
ASSUME SetsAssumption == /\ Printable \subseteq Services /\ Skeleton \subseteq Services
                         /\ TypeServer \notin GoNames
                         /\ Absent \notin GoFile

VARIABLES
  contract,     \* the rpcs each service has in api/proto
  tree,         \* the Go file at each path of internal/server, or Absent
  pc,           \* where the running tool is, or "idle"
  parsed,       \* the contract it read
  todo,         \* the services it has not come to
  svc,          \* the service it is at
  implemented,  \* the methods the scan of the service's package found
  rpcs,         \* the rpcs of the service it has not come to
  job,          \* the rpc whose stub it is about to write
  report,       \* Report
  shown,        \* the latest report that was printed
  last,         \* how the latest run ended; "stale" once somebody edited since
  repeated,     \* history: the run began with nothing changed since a complete one
  created,      \* history: services whose server.go the tool created
  used          \* how much of MaxRuns, MaxEdits, MaxFailures is used up

project == <<contract, tree>>
service == <<svc, implemented, rpcs, job>>
history == <<shown, repeated, created>>
vars == <<project, pc, parsed, todo, service, report, last, history, used>>

NoReport == [created |-> {}, existing |-> {}, fresh |-> {}, warned |-> {}]
NoRpcs == [s \in Services |-> {}]
None == "none"

\* The names declared in a package, whatever the file.
Declared(p, n) == \E f \in Files :
  tree[<<p, f>>] # Absent /\ \E s \in Services : <<n, s>> \in tree[<<p, f>>].decls

Source(decls) == [ok |-> TRUE, decls |-> decls]
ServerPath(s) == <<Pkg[s], ServerFile>>
HandlerPath(s, r) == <<Pkg[s], FileName[GoName[r]]>>

\* What is left of a file whose writing is cut short: something that does not
\* parse, or the package clause alone; of server.go also the type.
TornFiles(decls) == {[ok |-> FALSE, decls |-> {}], Source({}), Source(decls)}
TornStubs == {[ok |-> FALSE, decls |-> {}], Source({})}

Init ==
  /\ contract \in [Services -> SUBSET Rpcs]
  /\ \A s \in Services : contract[s] \subseteq Offered[s]
  /\ tree = [q \in Paths |->
       IF q[2] = ServerFile /\ \E s \in Skeleton : Pkg[s] = q[1]
       THEN Source({<<TypeServer, s>> : s \in {t \in Skeleton : Pkg[t] = q[1]}})
       ELSE Absent]
  /\ pc = "idle" /\ parsed = NoRpcs /\ todo = {}
  /\ svc = None /\ implemented = {} /\ rpcs = {} /\ job = None
  /\ report = NoReport /\ shown = NoReport
  /\ last = "stale" /\ repeated = FALSE
  /\ created = {}
  /\ used = [runs |-> 0, edits |-> 0, failures |-> 0]

-----------------------------------------------------------------------------
(* A run. *)

\* LoadManifest and parseServices succeed; when they do not, nothing changes.
parseServices ==
  /\ pc = "idle"
  /\ used.runs < MaxRuns
  /\ used' = [used EXCEPT !.runs = @ + 1]
  /\ pc' = "service" /\ parsed' = contract /\ todo' = Services
  /\ report' = NoReport
  /\ repeated' = (last = "done")
  /\ last' = "running"
  /\ UNCHANGED <<project, service, shown, created>>

\* return err, or a kill: the report is dropped, the files stay.
Stopped == /\ pc' = "idle" /\ last' = "failed"
           /\ parsed' = NoRpcs /\ todo' = {}
           /\ svc' = None /\ implemented' = {} /\ rpcs' = {} /\ job' = None
           /\ report' = NoReport
           /\ UNCHANGED <<contract, shown, repeated>>

CountFailure == /\ used.failures < MaxFailures
                /\ used' = [used EXCEPT !.failures = @ + 1]

Die == /\ pc # "idle"
       /\ CountFailure
       /\ Stopped
       /\ UNCHANGED <<tree, created>>

\* generateService: os.Stat of server.go.
OpenService(s) ==
  /\ pc = "service" /\ s \in todo
  /\ tree[ServerPath(s)] = Absent => s \in Printable
  /\ pc' = IF tree[ServerPath(s)] = Absent THEN "server" ELSE "scan"
  /\ svc' = s /\ todo' = todo \ {s}
  /\ UNCHANGED <<project, parsed, implemented, rpcs, job, report, last, history, used>>

\* format.Source refuses what renderServer has rendered.
ServerUnprintable(s) ==
  /\ pc = "service" /\ s \in todo
  /\ tree[ServerPath(s)] = Absent /\ s \notin Printable
  /\ Stopped
  /\ UNCHANGED <<tree, created, used>>

WriteServer ==
  /\ pc = "server"
  /\ tree' = [tree EXCEPT ![ServerPath(svc)] = Source({<<TypeServer, svc>>})]
  /\ report' = [report EXCEPT !.created = @ \cup {ServerPath(svc)},
                              !.fresh = @ \cup {svc}]
  /\ created' = created \cup {svc}
  /\ pc' = "scan"
  /\ UNCHANGED <<contract, parsed, todo, service, last, shown, repeated, used>>

WriteServerTorn ==
  /\ pc = "server"
  /\ CountFailure
  /\ \E torn \in TornFiles({<<TypeServer, svc>>}) :
       tree' = [tree EXCEPT ![ServerPath(svc)] = torn]
  /\ created' = created \cup {svc}
  /\ Stopped

\* The Go files of a package that are there.
GoFilesOf(p) == {q \in {p} \X Files : tree[q] # Absent}

\* Mutant: a method is only looked for in the file of its own name.
scanOwnFiles ==
  /\ pc = "scan"
  /\ \A q \in GoFilesOf(Pkg[svc]) : tree[q].ok
  /\ implemented' = {n \in GoNames : LET q == <<Pkg[svc], FileName[n]>> IN
       tree[q] # Absent /\ \E s \in Services : <<n, s>> \in tree[q].decls}
  /\ rpcs' = parsed[svc]
  /\ pc' = "rpc"
  /\ UNCHANGED <<project, parsed, todo, svc, job, report, last, history, used>>

\* Mutant: pointer receivers are not methods of Server.
scanValueReceivers ==
  /\ pc = "scan"
  /\ \A q \in GoFilesOf(Pkg[svc]) : tree[q].ok
  /\ implemented' = {}
  /\ rpcs' = parsed[svc]
  /\ pc' = "rpc"
  /\ UNCHANGED <<project, parsed, todo, svc, job, report, last, history, used>>

\* serverMethods: every Go file of the package, with the receiver Server.
serverMethods ==
  /\ pc = "scan"
  /\ \A q \in GoFilesOf(Pkg[svc]) : tree[q].ok
  /\ implemented' = {n \in GoNames : Declared(Pkg[svc], n)}
  /\ rpcs' = parsed[svc]
  /\ pc' = "rpc"
  /\ UNCHANGED <<project, parsed, todo, svc, job, report, last, history, used>>

\* One file that does not parse ends the run, for all services.
ScanFails ==
  /\ pc = "scan"
  /\ \E q \in GoFilesOf(Pkg[svc]) : ~tree[q].ok
  /\ Stopped
  /\ UNCHANGED <<tree, created, used>>

Existing(r) == GoName[r] \in implemented

\* Mutant: os.Stat of the handler's file is dropped.
WarnedForeign(r) == ~Existing(r) /\ Foreign[svc][r]

Warned(r) == ~Existing(r) /\ (Foreign[svc][r] \/ tree[HandlerPath(svc, r)] # Absent)

\* Mutant: a warning leaves the loop.
ClassifyStops(r) ==
  /\ pc = "rpc" /\ r \in rpcs
  /\ \/ /\ Existing(r)
        /\ report' = [report EXCEPT !.existing = @ \cup {<<svc, r>>}]
        /\ rpcs' = rpcs \ {r}
     \/ /\ Warned(r)
        /\ report' = [report EXCEPT !.warned = @ \cup {<<svc, r>>}]
        /\ rpcs' = {}
  /\ UNCHANGED <<project, pc, parsed, todo, svc, implemented, job, last, history, used>>

\* The switch and os.Stat: a method that is there, one that cannot be
\* generated, or one whose file is taken.
Classify(r) ==
  /\ pc = "rpc" /\ r \in rpcs
  /\ \/ /\ Existing(r)
        /\ report' = [report EXCEPT !.existing = @ \cup {<<svc, r>>}]
     \/ /\ Warned(r)
        /\ report' = [report EXCEPT !.warned = @ \cup {<<svc, r>>}]
  /\ rpcs' = rpcs \ {r}
  /\ UNCHANGED <<project, pc, parsed, todo, svc, implemented, job, last, history, used>>

\* The rest is to be written ...
Missing(r) ==
  /\ pc = "rpc" /\ r \in rpcs
  /\ ~Existing(r) /\ ~Warned(r) /\ svc \in Printable
  /\ job' = r /\ pc' = "write"
  /\ UNCHANGED <<project, parsed, todo, svc, implemented, rpcs, report, last, history, used>>

\* ... unless gofmt refuses it.
StubUnprintable(r) ==
  /\ pc = "rpc" /\ r \in rpcs
  /\ ~Existing(r) /\ ~Warned(r) /\ svc \notin Printable
  /\ Stopped
  /\ UNCHANGED <<tree, created, used>>

Stub == Source({<<GoName[job], svc>>})

\* Mutant: the file is reported without its package.
WriteHandlerBareName ==
  /\ pc = "write"
  /\ tree' = [tree EXCEPT ![HandlerPath(svc, job)] = Stub]
  /\ report' = [report EXCEPT !.created = @ \cup {FileName[GoName[job]]}]
  /\ rpcs' = rpcs \ {job} /\ job' = None /\ pc' = "rpc"
  /\ UNCHANGED <<contract, parsed, todo, svc, implemented, last, history, used>>

WriteHandler ==
  /\ pc = "write"
  /\ tree' = [tree EXCEPT ![HandlerPath(svc, job)] = Stub]
  /\ report' = [report EXCEPT !.created = @ \cup {HandlerPath(svc, job)}]
  /\ rpcs' = rpcs \ {job} /\ job' = None /\ pc' = "rpc"
  /\ UNCHANGED <<contract, parsed, todo, svc, implemented, last, history, used>>

WriteHandlerTorn ==
  /\ pc = "write"
  /\ CountFailure
  /\ \E torn \in TornStubs : tree' = [tree EXCEPT ![HandlerPath(svc, job)] = torn]
  /\ Stopped
  /\ UNCHANGED created

CloseService ==
  /\ pc = "rpc" /\ rpcs = {}
  /\ pc' = "service" /\ svc' = None /\ implemented' = {}
  /\ UNCHANGED <<project, parsed, todo, rpcs, job, report, last, history, used>>

\* handlersCmd prints the report and, for each new service, DIHint.
PrintReport ==
  /\ pc = "service" /\ todo = {}
  /\ pc' = "idle" /\ parsed' = NoRpcs
  /\ shown' = report /\ report' = NoReport
  /\ last' = "done"
  /\ UNCHANGED <<project, todo, service, repeated, created, used>>

-----------------------------------------------------------------------------
(* The people who work on the project, between runs. *)

CountEdit == /\ pc = "idle"
             /\ used.edits < MaxEdits
             /\ used' = [used EXCEPT !.edits = @ + 1]
             /\ last' = "stale"
             /\ UNCHANGED <<pc, parsed, todo, service, report, history>>

\* A file with a declaration more, or less; without any it is deleted.
Plus(file, d) == IF file = Absent THEN Source({d})
                 ELSE [ok |-> file.ok, decls |-> file.decls \cup {d}]
Minus(file, d) == IF file.decls = {d} THEN Absent
                  ELSE [ok |-> file.ok, decls |-> file.decls \ {d}]

\* Add an rpc to a contract, or drop one.
EditContract(s, r) ==
  /\ CountEdit
  /\ r \in Offered[s]
  /\ \E offer \in {contract[s] \cup {r}, contract[s] \ {r}} :
       offer # contract[s] /\ contract' = [contract EXCEPT ![s] = offer]
  /\ UNCHANGED tree

\* Move a declaration into another file, which may be a new one.
Move(p, f, g, d) ==
  /\ CountEdit
  /\ f # g /\ tree[<<p, f>>] # Absent /\ d \in tree[<<p, f>>].decls
  /\ tree' = [tree EXCEPT ![<<p, f>>] = Minus(tree[<<p, f>>], d),
                          ![<<p, g>>] = Plus(tree[<<p, g>>], d)]
  /\ UNCHANGED contract

\* Write a handler by hand, in any file, if the package has none.
Implement(s, r, f) ==
  /\ CountEdit
  /\ r \in Offered[s] /\ ~Declared(Pkg[s], GoName[r])
  /\ tree' = [tree EXCEPT ![<<Pkg[s], f>>] = Plus(@, <<GoName[r], s>>)]
  /\ UNCHANGED contract

\* Delete a file, leave one half edited, or finish the edit.
Disturb(q) ==
  /\ CountEdit
  /\ tree[q] # Absent
  /\ \/ tree' = [tree EXCEPT ![q] = Absent]
     \/ tree' = [tree EXCEPT ![q].ok = ~@]
  /\ UNCHANGED contract

-----------------------------------------------------------------------------
ToolStep ==
  \/ \E s \in Services : OpenService(s) \/ ServerUnprintable(s)
  \/ WriteServer \/ WriteServerTorn
  \/ serverMethods \/ ScanFails
  \/ \E r \in Rpcs : Classify(r) \/ Missing(r) \/ StubUnprintable(r)
  \/ WriteHandler \/ WriteHandlerTorn
  \/ CloseService \/ PrintReport \/ Die

People ==
  \/ \E s \in Services, r \in Rpcs :
       EditContract(s, r) \/ \E f \in Files : Implement(s, r, f)
  \/ \E p \in Packages, f, g \in Files, d \in Decls : Move(p, f, g, d)
  \/ \E q \in Paths : Disturb(q)

Next == parseServices \/ ToolStep \/ People

Spec == Init /\ [][Next]_vars
-----------------------------------------------------------------------------
TypeOK ==
  /\ contract \in [Services -> SUBSET Rpcs]
  /\ tree \in [Paths -> GoFile \cup {Absent}]
  /\ pc \in {"idle", "service", "server", "scan", "rpc", "write"}
  /\ parsed \in [Services -> SUBSET Rpcs]
  /\ todo \subseteq Services
  /\ svc \in Services \cup {None}
  /\ implemented \subseteq GoNames
  /\ rpcs \subseteq Rpcs
  /\ job \in Rpcs \cup {None}
  /\ \A r \in {report, shown} :
       /\ r.created \subseteq Paths /\ r.fresh \subseteq Services
       /\ r.existing \subseteq Services \X Rpcs /\ r.warned \subseteq Services \X Rpcs
  /\ last \in {"stale", "running", "failed", "done"}
  /\ repeated \in BOOLEAN
  /\ created \subseteq Services
  /\ used \in [runs : Nat, edits : Nat, failures : Nat]

\* Existing code is not touched: a step of the tool changes no path that held a
\* file, whoever wrote it and whether or not it parses.  Two rpcs may want the
\* same file, and services may want the same package.
NothingOverwritten ==
  [][pc # "idle" => \A q \in Paths : tree[q] # Absent => tree'[q] = tree[q]]_vars

\* The tool never gives a package a second declaration of a method it has
\* somewhere, in a file of another name too, though the package is scanned once
\* and the stubs are written one by one after it.
MethodsOnce ==
  [][\A q \in Paths : pc # "idle" /\ tree'[q] # tree[q] =>
       \A n \in GoNames : (\E d \in tree'[q].decls : d[1] = n) => ~Declared(q[1], n)]_vars

\* No other rpc of the contracts wants the method of this one in its package.
Alone(s, r) ==
  \A t \in Services : \A q \in contract[t] :
    Pkg[t] = Pkg[s] /\ GoName[q] = GoName[r] => t = s /\ q = r

\* A run that was printed, with nothing changed since, accounts for the whole
\* contract: every service has its package, and every rpc has its method or was
\* warned about; both only if another rpc of that name, in the same package, has
\* brought the method.
Accounted ==
  last = "done" =>
    \A s \in Services :
      /\ tree[ServerPath(s)] # Absent
      /\ \A r \in contract[s] :
           /\ Declared(Pkg[s], GoName[r]) \/ <<s, r>> \in shown.warned
           /\ Alone(s, r) => ~(Declared(Pkg[s], GoName[r]) /\ <<s, r>> \in shown.warned)

\* A second run over an unchanged project creates nothing and warns again about
\* exactly the rpcs that still have no method (TestGenerate_Idempotent, for any
\* state of the project).
Idempotent ==
  [][pc # "idle" /\ last' = "done" /\ repeated =>
       /\ report.created = {} /\ report.fresh = {}
       /\ report.warned = {w \in shown.warned : ~Declared(Pkg[w[1]], GoName[w[2]])}]_vars

-----------------------------------------------------------------------------
(* What a help text of the repository says, and the code does not do. *)

\* cli/handlers.go: server.go is made for a new service.  It is also made for a
\* package whose type Server lives in another file.
ServerOnlyForNew ==
  [][\A s \in Services : s \in created' \ created => ~Declared(Pkg[s], TypeServer)]_vars
=============================================================================
