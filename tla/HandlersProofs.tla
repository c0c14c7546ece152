--------------------------- MODULE HandlersProofs ---------------------------
(***************************************************************************)
(* The tool overwrites nothing, declares no method twice, accounts for     *)
(* every rpc and repeats itself, whatever the contracts, the names that    *)
(* collide and the state people left the project in.  The strengthening is *)
(* what the tool knows: of the package it is at (KnowsPackage: a declared   *)
(* method was found by the scan, or the file named after it is there), of   *)
(* the services it has left behind (RunInv), and of a project nobody has    *)
(* touched since the latest report (DoneInv, RepeatInv).                    *)
(***************************************************************************)
EXTENDS Handlers, TLAPS

\* Where the tool is, and what it knows of the package.
KnowsPackage ==
  /\ pc \in {"server", "scan", "rpc", "write"} => svc \in Services
  /\ pc = "server" => tree[ServerPath(svc)] = Absent
  /\ pc \in {"rpc", "write"} =>
       \A n \in GoNames : Declared(Pkg[svc], n) =>
          n \in implemented \/ tree[<<Pkg[svc], FileName[n]>>] # Absent
  /\ pc = "write" => /\ job \in Rpcs
                     /\ GoName[job] \notin implemented
                     /\ tree[HandlerPath(svc, job)] = Absent

\* The part of the type invariant the argument needs.
CoreOK ==
  /\ contract \in [Services -> SUBSET Rpcs]
  /\ parsed \in [Services -> SUBSET Rpcs]
  /\ tree \in [Paths -> GoFile \cup {Absent}]
  /\ pc \in {"idle", "service", "server", "scan", "rpc", "write"}
  /\ todo \subseteq Services
  /\ rpcs \subseteq Rpcs

PackageInv == CoreOK /\ KnowsPackage

-----------------------------------------------------------------------------
LEMMA HandlerFile ==
  ASSUME NEW s \in Services, NEW r \in Rpcs
  PROVE  /\ GoName[r] \in GoNames
         /\ ServerPath(s) \in Paths
         /\ HandlerPath(s, r) \in Paths
  BY NamesAssumption DEF GoNames, Paths, Packages, ServerPath, HandlerPath

\* What the tool puts into a file it writes is a Go file.
LEMMA SourceIsGoFile ==
  ASSUME NEW decls \in SUBSET Decls
  PROVE  /\ Source(decls) \in GoFile /\ Source(decls) # Absent
         /\ \A t \in TornFiles(decls) \cup TornStubs : t \in GoFile /\ t # Absent
<1>1. {} \in SUBSET Decls
  OBVIOUS
<1>2. \A ok \in BOOLEAN, ds \in SUBSET Decls : [ok |-> ok, decls |-> ds] \in GoFile
  BY DEF GoFile
<1>3. Source(decls) \in GoFile /\ Source({}) \in GoFile /\ [ok |-> FALSE, decls |-> {}] \in GoFile
  BY <1>1, <1>2 DEF Source
<1> QED
  BY <1>3, SetsAssumption DEF TornFiles, TornStubs

LEMMA WrittenIsGoFile ==
  ASSUME NEW s \in Services, NEW r \in Rpcs
  PROVE  {<<TypeServer, s>>} \in SUBSET Decls /\ {<<GoName[r], s>>} \in SUBSET Decls
  BY DEF Decls, GoNames

LEMMA EditedIsGoFile ==
  ASSUME NEW file, NEW d \in Decls
  PROVE  /\ file \in GoFile \cup {Absent} => Plus(file, d) \in GoFile
         /\ file \in GoFile => Minus(file, d) \in GoFile \cup {Absent}
<1>1. {d} \in SUBSET Decls
  OBVIOUS
<1>2. Source({d}) \in GoFile
  BY <1>1, SourceIsGoFile
<1> QED
  BY <1>2 DEF Plus, Minus, GoFile

LEMMA InitInv == Init => PackageInv
<1> SUFFICES ASSUME Init PROVE PackageInv
  OBVIOUS
<1>1. tree \in [Paths -> GoFile \cup {Absent}]
  <2> SUFFICES ASSUME NEW q \in Paths
               PROVE  Source({<<TypeServer, s>> : s \in {t \in Skeleton : Pkg[t] = q[1]}}) \in GoFile
    BY DEF Init
  <2>1. {<<TypeServer, s>> : s \in {t \in Skeleton : Pkg[t] = q[1]}} \in SUBSET Decls
    BY SetsAssumption DEF Decls
  <2> QED
    BY <2>1, SourceIsGoFile
<1> QED
  BY <1>1 DEF Init, PackageInv, CoreOK, KnowsPackage, NoRpcs

-----------------------------------------------------------------------------
(* The steps of a run. *)

LEMMA StoppedInv ==
  ASSUME PackageInv, Stopped, tree' \in [Paths -> GoFile \cup {Absent}]
  PROVE  PackageInv'
  BY DEF PackageInv, CoreOK, KnowsPackage, Stopped, NoRpcs

LEMMA OpenServiceInv ==
  ASSUME PackageInv, NEW s \in Services, OpenService(s)
  PROVE  PackageInv'
  BY DEF PackageInv, CoreOK, KnowsPackage, OpenService, project, ServerPath

LEMMA WriteServerInv ==
  ASSUME PackageInv, WriteServer
  PROVE  PackageInv'
<1>1. svc \in Services
  BY DEF PackageInv, KnowsPackage, WriteServer
<1>2. Source({<<TypeServer, svc>>}) \in GoFile
  <2>1. {<<TypeServer, svc>>} \in SUBSET Decls
    BY <1>1 DEF Decls
  <2> QED
    BY <2>1, SourceIsGoFile
<1>3. tree' \in [Paths -> GoFile \cup {Absent}]
  BY <1>2 DEF PackageInv, CoreOK, WriteServer
<1> QED
  BY <1>1, <1>3 DEF PackageInv, CoreOK, KnowsPackage, WriteServer, service

LEMMA ScanInv ==
  ASSUME PackageInv, serverMethods
  PROVE  PackageInv'
<1>1. \A n \in GoNames : Declared(Pkg[svc], n)' => n \in implemented'
  BY DEF serverMethods, Declared, project
<1> QED
  BY <1>1 DEF PackageInv, CoreOK, KnowsPackage, serverMethods, project, Declared

LEMMA RpcInv ==
  ASSUME PackageInv, NEW r \in Rpcs, Classify(r) \/ Missing(r)
  PROVE  PackageInv'
<1>1. CASE Classify(r)
  BY <1>1 DEF PackageInv, CoreOK, KnowsPackage, Classify, project, Declared
<1>2. CASE Missing(r)
  BY <1>2 DEF PackageInv, CoreOK, KnowsPackage, Missing, Existing, Warned, project,
              Declared, HandlerPath
<1> QED
  BY <1>1, <1>2

\* A stub adds one declaration, and it is in the file that is named after it.
LEMMA WriteHandlerInv ==
  ASSUME PackageInv, WriteHandler
  PROVE  PackageInv'
<1> DEFINE h == HandlerPath(svc, job)
           p == Pkg[svc]
<1>1. svc \in Services /\ job \in Rpcs
  BY DEF PackageInv, KnowsPackage, WriteHandler
<1>2. h \in Paths /\ h = <<p, FileName[GoName[job]]>>
  BY <1>1, HandlerFile DEF HandlerPath
<1>3. Stub \in GoFile /\ Stub # Absent /\ Stub.decls = {<<GoName[job], svc>>}
  BY <1>1, WrittenIsGoFile, SourceIsGoFile DEF Stub, Source
<1>4. tree' = [tree EXCEPT ![h] = Stub] /\ tree \in [Paths -> GoFile \cup {Absent}]
  BY DEF WriteHandler, PackageInv, CoreOK
<1>5. tree' \in [Paths -> GoFile \cup {Absent}]
  BY <1>3, <1>4
<1>6. ASSUME NEW n \in GoNames, Declared(p, n)'
      PROVE  n \in implemented \/ tree'[<<p, FileName[n]>>] # Absent
  <2>1. <<p, FileName[n]>> \in Paths
    BY <1>1, NamesAssumption DEF Paths, Packages
  <2>2. PICK f \in Files : /\ tree'[<<p, f>>] # Absent
                           /\ \E s \in Services : <<n, s>> \in tree'[<<p, f>>].decls
    BY <1>6 DEF Declared, WriteHandler, service
  <2>3. <<p, f>> \in Paths
    BY <1>1 DEF Paths, Packages
  <2>4. CASE <<p, f>> = h
    <3>1. tree'[<<p, f>>] = Stub
      BY <2>3, <2>4, <1>4
    <3>2. n = GoName[job]
      BY <3>1, <2>2, <1>3
    <3> QED
      BY <3>2, <1>2, <1>3, <1>4
  <2>5. CASE <<p, f>> # h
    <3>1. tree'[<<p, f>>] = tree[<<p, f>>]
      BY <2>3, <2>5, <1>4
    <3>2. Declared(p, n)
      BY <3>1, <2>2 DEF Declared
    <3>3. n \in implemented \/ tree[<<p, FileName[n]>>] # Absent
      BY <3>2 DEF PackageInv, KnowsPackage, WriteHandler
    <3> QED
      BY <3>3, <2>1, <1>2, <1>3, <1>4
  <2> QED
    BY <2>4, <2>5
<1>7. UNCHANGED <<svc, implemented, contract, parsed, todo>> /\ pc' = "rpc" /\ rpcs' \subseteq Rpcs
  BY DEF WriteHandler, PackageInv, CoreOK
<1> QED
  BY <1>1, <1>5, <1>6, <1>7 DEF PackageInv, CoreOK, KnowsPackage

\* Between runs the tool knows nothing; people only have to leave Go files.
LEMMA PeopleInv ==
  ASSUME PackageInv, People
  PROVE  PackageInv'
<1>1. pc = "idle" /\ pc' = "idle" /\ UNCHANGED <<parsed, todo, rpcs>>
  BY DEF People, EditContract, Implement, Move, Disturb, CountEdit, service
<1>2. contract' \in [Services -> SUBSET Rpcs]
  <2>1. CASE \E s \in Services, r \in Rpcs : EditContract(s, r)
    BY <2>1 DEF PackageInv, CoreOK, EditContract
  <2>2. CASE UNCHANGED contract
    BY <2>2 DEF PackageInv, CoreOK
  <2> QED
    BY <2>1, <2>2 DEF People, Implement, Move, Disturb
<1>3. tree' \in [Paths -> GoFile \cup {Absent}]
  <2>1. CASE \E s \in Services, r \in Rpcs : EditContract(s, r)
    BY <2>1 DEF EditContract, PackageInv, CoreOK
  <2>2. CASE \E s \in Services, r \in Rpcs, f \in Files : Implement(s, r, f)
    <3>1. PICK s \in Services, r \in Rpcs, f \in Files : Implement(s, r, f)
      BY <2>2
    <3>2. <<GoName[r], s>> \in Decls /\ <<Pkg[s], f>> \in Paths
      BY DEF Decls, GoNames, Paths, Packages
    <3>3. tree[<<Pkg[s], f>>] \in GoFile \cup {Absent}
      BY <3>2 DEF PackageInv, CoreOK
    <3>4. Plus(tree[<<Pkg[s], f>>], <<GoName[r], s>>) \in GoFile
      BY <3>2, <3>3, EditedIsGoFile
    <3> QED
      BY <3>1, <3>4 DEF Implement, PackageInv, CoreOK
  <2>3. CASE \E p \in Packages, f, g \in Files, d \in Decls : Move(p, f, g, d)
    <3>1. PICK p \in Packages, f \in Files, g \in Files, d \in Decls : Move(p, f, g, d)
      BY <2>3
    <3>2. <<p, f>> \in Paths /\ <<p, g>> \in Paths
      BY DEF Paths
    <3>3. tree[<<p, f>>] \in GoFile /\ tree[<<p, g>>] \in GoFile \cup {Absent}
      BY <3>1, <3>2 DEF Move, PackageInv, CoreOK
    <3>4. /\ Minus(tree[<<p, f>>], d) \in GoFile \cup {Absent}
          /\ Plus(tree[<<p, g>>], d) \in GoFile
      BY <3>3, EditedIsGoFile
    <3> QED
      BY <3>1, <3>4 DEF Move, PackageInv, CoreOK
  <2>4. CASE \E q \in Paths : Disturb(q)
    BY <2>4 DEF Disturb, PackageInv, CoreOK, GoFile
  <2> QED
    BY <2>1, <2>2, <2>3, <2>4 DEF People
<1> QED
  BY <1>1, <1>2, <1>3 DEF PackageInv, CoreOK, KnowsPackage

LEMMA StepInv == PackageInv /\ [Next]_vars => PackageInv'
<1> SUFFICES ASSUME PackageInv, [Next]_vars PROVE PackageInv'
  OBVIOUS
<1>1. CASE parseServices
  BY <1>1 DEF parseServices, PackageInv, CoreOK, KnowsPackage, project, service
<1>2. CASE Die \/ ScanFails \/ \E s \in Services : ServerUnprintable(s)
  BY <1>2, StoppedInv DEF Die, ScanFails, ServerUnprintable, PackageInv, CoreOK
<1>3. CASE \E r \in Rpcs : StubUnprintable(r)
  BY <1>3, StoppedInv DEF StubUnprintable, PackageInv, CoreOK
<1>4. CASE WriteServerTorn
  <2>1. svc \in Services
    BY <1>4 DEF PackageInv, KnowsPackage, WriteServerTorn
  <2>2. \A t \in TornFiles({<<TypeServer, svc>>}) : t \in GoFile
    <3>1. {<<TypeServer, svc>>} \in SUBSET Decls
      BY <2>1 DEF Decls
    <3> QED
      BY <3>1, SourceIsGoFile
  <2>3. tree' \in [Paths -> GoFile \cup {Absent}]
    BY <1>4, <2>2 DEF WriteServerTorn, PackageInv, CoreOK
  <2> QED
    BY <1>4, <2>3, StoppedInv DEF WriteServerTorn
<1>5. CASE WriteHandlerTorn
  <2>1. \A t \in TornStubs : t \in GoFile
    <3>1. {} \in SUBSET Decls
      OBVIOUS
    <3> QED
      BY <3>1, SourceIsGoFile
  <2>2. tree' \in [Paths -> GoFile \cup {Absent}]
    BY <1>5, <2>1 DEF WriteHandlerTorn, PackageInv, CoreOK
  <2> QED
    BY <1>5, <2>2, StoppedInv DEF WriteHandlerTorn
<1>6. CASE CloseService
  BY <1>6 DEF CloseService, PackageInv, CoreOK, KnowsPackage, project
<1>7. CASE PrintReport
  BY <1>7 DEF PrintReport, PackageInv, CoreOK, KnowsPackage, project, service, NoRpcs
<1>8. CASE UNCHANGED vars
  BY <1>8 DEF vars, PackageInv, CoreOK, KnowsPackage, project, service, Declared,
              ServerPath, HandlerPath
<1> QED
  BY <1>1, <1>2, <1>3, <1>4, <1>5, <1>6, <1>7, <1>8, OpenServiceInv, WriteServerInv,
     ScanInv, RpcInv, WriteHandlerInv, PeopleInv DEF Next, ToolStep

\* In every state the tool's idea of the package it is at is right.
THEOREM PackageKnown == Spec => []PackageInv
<1> QED
  BY InitInv, StepInv, PTL DEF Spec

-----------------------------------------------------------------------------
(* The two promises about existing code. *)

Overwrites == \E q \in Paths : tree[q] # Absent /\ tree'[q] # tree[q]
Redeclares == \E q \in Paths : /\ tree'[q] # tree[q]
                               /\ \E n \in GoNames : /\ \E d \in tree'[q].decls : d[1] = n
                                                     /\ Declared(q[1], n)

\* The four steps that write a file write where there is none ...
LEMMA OnlyNewFiles ==
  ASSUME PackageInv, [Next]_vars, pc # "idle"
  PROVE  ~Overwrites
<1>1. CASE WriteServer \/ WriteServerTorn
  BY <1>1 DEF Overwrites, PackageInv, CoreOK, KnowsPackage, WriteServer, WriteServerTorn
<1>2. CASE WriteHandler \/ WriteHandlerTorn
  BY <1>2 DEF Overwrites, PackageInv, CoreOK, KnowsPackage, WriteHandler, WriteHandlerTorn
<1>3. CASE UNCHANGED tree
  BY <1>3 DEF Overwrites
<1>4. ~parseServices /\ ~People
  BY DEF parseServices, People, EditContract, Implement, Move, Disturb, CountEdit
<1>5. ToolStep \/ UNCHANGED tree
  BY <1>4 DEF Next, vars, project
<1>6. CASE /\ ToolStep
           /\ ~(WriteServer \/ WriteServerTorn) /\ ~(WriteHandler \/ WriteHandlerTorn)
  <2>1. UNCHANGED tree
    BY <1>6 DEF ToolStep, OpenService, ServerUnprintable, serverMethods, ScanFails,
                Classify, Missing, StubUnprintable, CloseService, PrintReport, Die, project
  <2> QED
    BY <2>1, <1>3
<1> QED
  BY <1>1, <1>2, <1>3, <1>5, <1>6

\* ... and what they declare is not declared in the package.
LEMMA OnlyNewMethods ==
  ASSUME PackageInv, [Next]_vars, pc # "idle"
  PROVE  ~Redeclares
<1>1. CASE WriteServer \/ WriteServerTorn
  <2>1. PICK file \in {Source({<<TypeServer, svc>>})} \cup TornFiles({<<TypeServer, svc>>}) :
          tree' = [tree EXCEPT ![ServerPath(svc)] = file]
    BY <1>1 DEF WriteServer, WriteServerTorn
  <2>2. \A d \in file.decls : d = <<TypeServer, svc>>
    BY <2>1 DEF Source, TornFiles
  <2>3. \A d \in file.decls : d[1] \notin GoNames
    BY <2>2, SetsAssumption
  <2> QED
    BY <2>1, <2>3 DEF Redeclares, PackageInv, CoreOK
<1>2. CASE WriteHandler \/ WriteHandlerTorn
  <2>1. /\ pc = "write" /\ svc \in Services /\ job \in Rpcs
        /\ ~Declared(Pkg[svc], GoName[job])
    BY <1>2, HandlerFile DEF PackageInv, KnowsPackage, WriteHandler, WriteHandlerTorn,
                             HandlerPath
  <2>2. PICK file \in {Stub} \cup TornStubs :
          tree' = [tree EXCEPT ![HandlerPath(svc, job)] = file]
    BY <1>2 DEF WriteHandler, WriteHandlerTorn
  <2>3. \A d \in file.decls : d = <<GoName[job], svc>>
    BY <2>2 DEF Source, Stub, TornStubs
  <2>4. HandlerPath(svc, job)[1] = Pkg[svc]
    BY DEF HandlerPath
  <2>5. ASSUME NEW q \in Paths, tree'[q] # tree[q]
        PROVE  q = HandlerPath(svc, job) /\ tree'[q] = file
    BY <2>2, <2>5 DEF PackageInv, CoreOK
  <2> QED
    BY <2>1, <2>3, <2>4, <2>5 DEF Redeclares
<1>3. CASE UNCHANGED tree
  BY <1>3 DEF Redeclares
<1>4. ~parseServices /\ ~People
  BY DEF parseServices, People, EditContract, Implement, Move, Disturb, CountEdit
<1>5. ToolStep \/ UNCHANGED tree
  BY <1>4 DEF Next, vars, project
<1>6. CASE /\ ToolStep
           /\ ~(WriteServer \/ WriteServerTorn) /\ ~(WriteHandler \/ WriteHandlerTorn)
  <2>1. UNCHANGED tree
    BY <1>6 DEF ToolStep, OpenService, ServerUnprintable, serverMethods, ScanFails,
                Classify, Missing, StubUnprintable, CloseService, PrintReport, Die, project
  <2> QED
    BY <2>1, <1>3
<1> QED
  BY <1>1, <1>2, <1>3, <1>5, <1>6

\* A run never changes a file that was there (NothingOverwritten), however the
\* names of rpcs, files and packages collide.
THEOREM CodeIsLeftAlone == Spec => NothingOverwritten
<1>1. PackageInv /\ [Next]_vars =>
        [pc # "idle" => \A q \in Paths : tree[q] # Absent => tree'[q] = tree[q]]_vars
  BY OnlyNewFiles DEF Overwrites
<1> QED
  BY <1>1, PackageKnown, PTL DEF Spec, NothingOverwritten

\* A run never declares a method its package already has (MethodsOnce).
THEOREM MethodsAreNotRepeated == Spec => MethodsOnce
<1>1. PackageInv /\ [Next]_vars =>
        [\A q \in Paths : pc # "idle" /\ tree'[q] # tree[q] =>
           \A n \in GoNames : (\E d \in tree'[q].decls : d[1] = n) => ~Declared(q[1], n)]_vars
  BY OnlyNewMethods DEF Redeclares
<1> QED
  BY <1>1, PackageKnown, PTL DEF Spec, MethodsOnce

-----------------------------------------------------------------------------
(* Types. *)

\* What is not in CoreOK.
Bookkeeping ==
  /\ svc \in Services \cup {None}
  /\ implemented \subseteq GoNames
  /\ job \in Rpcs \cup {None}
  /\ last \in {"stale", "running", "failed", "done"}
  /\ repeated \in BOOLEAN
  /\ created \subseteq Services
  /\ used \in [runs : Nat, edits : Nat, failures : Nat]

ReportType == [created : SUBSET Paths, existing : SUBSET (Services \X Rpcs),
               fresh : SUBSET Services, warned : SUBSET (Services \X Rpcs)]

LEMMA BookkeepingStep ==
  ASSUME PackageInv, Bookkeeping, [Next]_vars
  PROVE  Bookkeeping'
<1> USE DEF Bookkeeping
<1>1. CASE parseServices
  BY <1>1 DEF parseServices, project, service
<1>2. ASSUME Stopped, created' \subseteq Services,
             used' \in [runs : Nat, edits : Nat, failures : Nat]
      PROVE  Bookkeeping'
  BY <1>2 DEF Stopped
<1>3. CASE Die
  BY <1>2, <1>3 DEF Die, CountFailure, Stopped
<1>4. CASE ScanFails \/ (\E s \in Services : ServerUnprintable(s))
           \/ (\E r \in Rpcs : StubUnprintable(r))
  BY <1>2, <1>4 DEF ScanFails, ServerUnprintable, StubUnprintable
<1>5. CASE WriteServerTorn
  <2>1. svc \in Services
    BY <1>5 DEF PackageInv, KnowsPackage, WriteServerTorn
  <2> QED
    BY <1>2, <1>5, <2>1 DEF WriteServerTorn, CountFailure
<1>6. CASE WriteHandlerTorn
  BY <1>2, <1>6 DEF WriteHandlerTorn, CountFailure
<1>7. CASE \E s \in Services : OpenService(s)
  BY <1>7 DEF OpenService, project, history
<1>8. CASE WriteServer
  <2>1. svc \in Services
    BY <1>8 DEF PackageInv, KnowsPackage, WriteServer
  <2> QED
    BY <1>8, <2>1 DEF WriteServer, service
<1>9. CASE serverMethods
  BY <1>9 DEF serverMethods, project, history
<1>10. CASE \E r \in Rpcs : Classify(r) \/ Missing(r)
  BY <1>10 DEF Classify, Missing, project, history
<1>11. CASE WriteHandler \/ CloseService \/ PrintReport
  BY <1>11 DEF WriteHandler, CloseService, PrintReport, project, history, service
<1>12. CASE People
  <2>1. CountEdit
    BY <1>12 DEF People, EditContract, Implement, Move, Disturb
  <2> QED
    BY <2>1 DEF CountEdit, service, history
<1>13. CASE UNCHANGED vars
  BY <1>13 DEF vars, project, service, history
<1> QED
  BY <1>1, <1>3, <1>4, <1>5, <1>6, <1>7, <1>8, <1>9, <1>10, <1>11, <1>12, <1>13
     DEF Next, ToolStep

LEMMA ReportStep ==
  ASSUME PackageInv, report \in ReportType, shown \in ReportType, [Next]_vars
  PROVE  report' \in ReportType /\ shown' \in ReportType
<1>1. NoReport \in ReportType
  BY DEF NoReport, ReportType
<1>2. CASE Stopped
  BY <1>1, <1>2 DEF Stopped
<1>3. CASE UNCHANGED <<report, shown>>
  BY <1>3
<1>4. CASE WriteServer
  <2>1. ServerPath(svc) \in Paths /\ svc \in Services
    BY <1>4, NamesAssumption DEF PackageInv, KnowsPackage, WriteServer, Paths, Packages, ServerPath
  <2> QED
    BY <1>4, <2>1 DEF WriteServer, ReportType
<1>5. ASSUME NEW r \in Rpcs, Classify(r) PROVE report' \in ReportType /\ shown' \in ReportType
  <2>1. <<svc, r>> \in Services \X Rpcs
    BY <1>5 DEF PackageInv, KnowsPackage, Classify
  <2> QED
    BY <1>5, <2>1 DEF Classify, ReportType, history
<1>6. CASE WriteHandler
  <2>1. HandlerPath(svc, job) \in Paths
    BY <1>6, HandlerFile DEF PackageInv, KnowsPackage, WriteHandler
  <2> QED
    BY <1>6, <2>1 DEF WriteHandler, ReportType, history
<1>7. CASE parseServices \/ PrintReport
  BY <1>1, <1>7 DEF parseServices, PrintReport
<1>8. CASE People
  BY <1>3, <1>8 DEF People, EditContract, Implement, Move, Disturb, CountEdit, history
<1>9. CASE UNCHANGED vars
  BY <1>3, <1>9 DEF vars, history
<1>10. CASE serverMethods \/ CloseService \/ (\E s \in Services : OpenService(s))
            \/ (\E r \in Rpcs : Missing(r))
  BY <1>3, <1>10 DEF serverMethods, CloseService, OpenService, Missing, history
<1>11. CASE Die \/ ScanFails \/ WriteServerTorn \/ WriteHandlerTorn
            \/ (\E s \in Services : ServerUnprintable(s)) \/ (\E r \in Rpcs : StubUnprintable(r))
  BY <1>2, <1>11 DEF Die, ScanFails, WriteServerTorn, WriteHandlerTorn, ServerUnprintable,
                     StubUnprintable
<1> QED
  BY <1>4, <1>5, <1>6, <1>7, <1>8, <1>9, <1>10, <1>11 DEF Next, ToolStep

TypeInv == PackageInv /\ Bookkeeping /\ report \in ReportType /\ shown \in ReportType

LEMMA TypeInvStart == Init => TypeInv
<1> SUFFICES ASSUME Init PROVE TypeInv
  OBVIOUS
<1>1. Bookkeeping
  BY DEF Init, Bookkeeping
<1>2. NoReport \in ReportType
  BY DEF NoReport, ReportType
<1> QED
  BY <1>1, <1>2, InitInv DEF Init, TypeInv

LEMMA TypeInvStep == TypeInv /\ [Next]_vars => TypeInv'
BY StepInv, BookkeepingStep, ReportStep DEF TypeInv

\* The state of the tool keeps its type.
THEOREM HandlersTypeCorrect == Spec => []TypeOK
<1>1. TypeInv => TypeOK
  BY DEF TypeInv, PackageInv, CoreOK, Bookkeeping, ReportType, TypeOK
<1> QED
  BY <1>1, TypeInvStart, TypeInvStep, PTL DEF Spec

-----------------------------------------------------------------------------
(* What a printed report is worth. *)

HasMethod(s, r) == Declared(Pkg[s], GoName[r])
NoStub(s, r) == Foreign[s][r] \/ tree[HandlerPath(s, r)] # Absent

\* An rpc the run has dealt with, warned being the warnings so far.
Settled(s, r, warned) ==
  /\ HasMethod(s, r) \/ <<s, r>> \in warned
  /\ <<s, r>> \in warned => NoStub(s, r)
  /\ Alone(s, r) => ~(HasMethod(s, r) /\ <<s, r>> \in warned)

SettledService(s, warned) ==
  /\ tree[ServerPath(s)] # Absent
  /\ \A r \in contract[s] : Settled(s, r, warned)

OfContract(warned) == \A w \in warned : \E s \in Services : \E r \in contract[s] : w = <<s, r>>

\* The services the run has left behind.
Behind(s) == s \notin todo /\ (pc # "service" => s # svc)

\* What a run has brought about, at any point of it.
RunInv ==
  pc # "idle" =>
    /\ last = "running" /\ parsed = contract /\ OfContract(report.warned)
    /\ \A s \in todo : \A r \in Rpcs : <<s, r>> \notin report.warned
    /\ \A s \in Services : Behind(s) => SettledService(s, report.warned)
    /\ pc # "service" => svc \notin todo
    /\ pc \in {"server", "scan"} => \A r \in Rpcs : <<svc, r>> \notin report.warned
    /\ pc \in {"scan", "rpc", "write"} => tree[ServerPath(svc)] # Absent
    /\ pc \in {"rpc", "write"} =>
         /\ rpcs \subseteq contract[svc]
         /\ \A n \in implemented : Declared(Pkg[svc], n)
         /\ \A r \in contract[svc] \ rpcs : Settled(svc, r, report.warned)
         /\ \A r \in rpcs : /\ <<svc, r>> \notin report.warned
                            /\ Alone(svc, r) /\ HasMethod(svc, r) => Existing(r)
    /\ pc = "write" => job \in rpcs

\* After a run that was printed, until somebody edits.
DoneInv ==
  last = "done" =>
    /\ pc = "idle" /\ OfContract(shown.warned)
    /\ \A s \in Services : SettledService(s, shown.warned)

\* During a run that repeats one: it writes nothing, and so sees all along what
\* its scans saw.
RepeatInv ==
  pc # "idle" /\ repeated =>
    /\ report.created = {} /\ report.fresh = {} /\ pc \notin {"server", "write"}
    /\ OfContract(shown.warned)
    /\ \A s \in Services : /\ tree[ServerPath(s)] # Absent
                           /\ \A r \in contract[s] : Settled(s, r, shown.warned)
    /\ \A s \in Services, r \in Rpcs : <<s, r>> \in report.warned => ~HasMethod(s, r)
    /\ pc = "rpc" => implemented = {n \in GoNames : Declared(Pkg[svc], n)}

AccountInv == RunInv /\ DoneInv /\ RepeatInv

\* Nothing that is there goes away by a step that leaves files and contracts.
LEMMA SettledStays ==
  ASSUME UNCHANGED <<tree, contract>>
  PROVE  /\ \A s, r : HasMethod(s, r)' <=> HasMethod(s, r)
         /\ \A s, r : NoStub(s, r)' <=> NoStub(s, r)
         /\ \A s, r : Alone(s, r)' <=> Alone(s, r)
         /\ \A p, n : Declared(p, n)' <=> Declared(p, n)
         /\ \A s : ServerPath(s)' = ServerPath(s)
  BY DEF HasMethod, NoStub, Alone, Declared, HandlerPath, ServerPath

LEMMA AccountStart == Init => AccountInv
  BY DEF Init, AccountInv, RunInv, DoneInv, RepeatInv

\* A run that ends with an error, or a step of the people, leaves nothing to show.
LEMMA AccountOver ==
  ASSUME pc' = "idle", last' # "done"
  PROVE  AccountInv'
  BY DEF AccountInv, RunInv, DoneInv, RepeatInv

LEMMA AccountParse ==
  ASSUME PackageInv, AccountInv, parseServices
  PROVE  AccountInv'
<1>1. UNCHANGED <<tree, contract, shown>>
  BY DEF parseServices, project
<1>2. RunInv' /\ DoneInv'
  BY <1>1 DEF parseServices, RunInv, DoneInv, Behind, OfContract, NoReport, PackageInv, CoreOK
<1>3. RepeatInv'
  <2> SUFFICES ASSUME repeated' PROVE RepeatInv'
    BY DEF RepeatInv
  <2>1. last = "done" /\ OfContract(shown.warned) /\ \A s \in Services : SettledService(s, shown.warned)
    BY DEF parseServices, AccountInv, DoneInv
  <2>2. OfContract(shown.warned)'
    BY <1>1, <2>1 DEF OfContract
  <2> QED
    BY <1>1, <2>1, <2>2, SettledStays DEF parseServices, RepeatInv, SettledService, Settled, NoReport
<1> QED
  BY <1>2, <1>3 DEF AccountInv

LEMMA AccountOpen ==
  ASSUME PackageInv, AccountInv, NEW s \in Services, OpenService(s)
  PROVE  AccountInv'
<1>1. /\ UNCHANGED <<tree, contract, parsed, implemented, rpcs, job, report, last, shown, repeated>>
      /\ pc = "service" /\ s \in todo /\ todo' = todo \ {s} /\ svc' = s
      /\ pc' = IF tree[ServerPath(s)] = Absent THEN "server" ELSE "scan"
  BY DEF OpenService, project, history
<1>2. \A t \in Services : Behind(t)' => Behind(t)
  BY <1>1 DEF Behind
<1>3. RunInv' /\ DoneInv'
  BY <1>1, <1>2, SettledStays DEF AccountInv, RunInv, DoneInv, OfContract, SettledService, Settled,
     PackageInv, CoreOK
<1>4. RepeatInv'
  BY <1>1, SettledStays DEF AccountInv, RepeatInv, OfContract, Settled
<1> QED
  BY <1>3, <1>4 DEF AccountInv

LEMMA AccountScan ==
  ASSUME PackageInv, AccountInv, serverMethods
  PROVE  AccountInv'
<1>1. /\ UNCHANGED <<tree, contract, parsed, todo, svc, job, report, last, shown, repeated>>
      /\ pc = "scan" /\ pc' = "rpc" /\ rpcs' = parsed[svc]
      /\ implemented' = {n \in GoNames : Declared(Pkg[svc], n)}
  BY DEF serverMethods, project, history
<1>2. svc \in Services /\ contract[svc] \subseteq Rpcs
  BY <1>1 DEF PackageInv, KnowsPackage, CoreOK
<1>3. \A t \in Services : Behind(t)' => Behind(t)
  BY <1>1 DEF Behind
<1>4. \A r \in Rpcs : HasMethod(svc, r) => Existing(r)'
  BY <1>1 DEF HasMethod, Existing, GoNames
<1>5. \A t \in Services : \A r \in Rpcs : Settled(t, r, report.warned)' <=> Settled(t, r, report.warned)
  BY <1>1, SettledStays DEF Settled
<1>6. \A t \in Services : SettledService(t, report.warned) => SettledService(t, report.warned)'
  BY <1>1, <1>5, SettledStays DEF SettledService, PackageInv, CoreOK
<1>7. OfContract(report.warned)' <=> OfContract(report.warned)
  BY <1>1 DEF OfContract
<1>8. /\ rpcs' = contract[svc] /\ \A n \in implemented' : Declared(Pkg[svc], n)'
      /\ \A r \in Rpcs : <<svc, r>> \notin report.warned
      /\ svc \notin todo /\ tree[ServerPath(svc)] # Absent /\ last = "running"
  BY <1>1, SettledStays DEF AccountInv, RunInv
<1>9. RunInv'
  BY <1>1, <1>2, <1>3, <1>4, <1>6, <1>7, <1>8, SettledStays DEF AccountInv, RunInv
<1>10. DoneInv'
  BY <1>1, <1>8 DEF DoneInv
<1>11. RepeatInv'
  <2> SUFFICES ASSUME repeated PROVE RepeatInv'
    BY <1>1 DEF RepeatInv
  <2>1. /\ OfContract(shown.warned) /\ report.created = {} /\ report.fresh = {}
        /\ \A s \in Services : /\ tree[ServerPath(s)] # Absent
                               /\ \A r \in contract[s] : Settled(s, r, shown.warned)
        /\ \A s \in Services, r \in Rpcs : <<s, r>> \in report.warned => ~HasMethod(s, r)
    BY <1>1 DEF AccountInv, RepeatInv
  <2>2. OfContract(shown.warned)'
    BY <1>1, <2>1 DEF OfContract
  <2>3. \A s \in Services : \A r \in contract'[s] : Settled(s, r, shown.warned)'
    BY <1>1, <2>1, SettledStays DEF Settled
  <2> QED
    BY <1>1, <2>1, <2>2, <2>3, SettledStays DEF RepeatInv
<1> QED
  BY <1>9, <1>10, <1>11 DEF AccountInv

\* An rpc that has its method, or gets a warning.
LEMMA AccountClassify ==
  ASSUME PackageInv, report \in ReportType, AccountInv, NEW r \in Rpcs, Classify(r)
  PROVE  AccountInv'
<1>1. /\ UNCHANGED <<tree, contract, parsed, todo, svc, implemented, job, last, shown, repeated, pc>>
      /\ pc = "rpc" /\ r \in rpcs /\ rpcs' = rpcs \ {r}
      /\ report'.created = report.created /\ report'.fresh = report.fresh
  BY DEF Classify, project, history, ReportType
<1>2. \/ Existing(r) /\ report'.warned = report.warned
      \/ Warned(r) /\ report'.warned = report.warned \cup {<<svc, r>>}
  BY DEF Classify, ReportType
<1>3. /\ svc \in Services /\ svc \notin todo /\ r \in contract[svc]
      /\ <<svc, r>> \notin report.warned
      /\ Alone(svc, r) /\ HasMethod(svc, r) => Existing(r)
      /\ Existing(r) => HasMethod(svc, r)
  BY <1>1 DEF PackageInv, KnowsPackage, AccountInv, RunInv, Existing, HasMethod
<1>4. Settled(svc, r, report.warned)'
  BY <1>1, <1>2, <1>3, SettledStays DEF Settled, Warned, NoStub
<1>5. \A t \in Services : \A q \in Rpcs :
        <<t, q>> # <<svc, r>> => (<<t, q>> \in report'.warned <=> <<t, q>> \in report.warned)
  BY <1>2
<1>6. \A t \in Services : \A q \in Rpcs :
        <<t, q>> # <<svc, r>> /\ Settled(t, q, report.warned) => Settled(t, q, report.warned)'
  BY <1>1, <1>5, SettledStays DEF Settled
<1>7. OfContract(report.warned)'
  <2>1. OfContract(report.warned)
    BY <1>1 DEF AccountInv, RunInv
  <2> QED
    BY <1>1, <1>2, <1>3, <2>1 DEF OfContract
<1>8. \A t \in Services : Behind(t)' => Behind(t) /\ t # svc
  BY <1>1 DEF Behind
<1>9. \A t \in Services : Behind(t)' => SettledService(t, report.warned)'
  BY <1>1, <1>6, <1>8, SettledStays DEF AccountInv, RunInv, SettledService, PackageInv, CoreOK
<1>10. \A q \in contract[svc] \ rpcs' : Settled(svc, q, report.warned)'
  BY <1>1, <1>3, <1>4, <1>6 DEF AccountInv, RunInv, PackageInv, CoreOK
<1>11. \A q \in rpcs' : /\ <<svc, q>> \notin report'.warned
                        /\ Alone(svc, q)' /\ HasMethod(svc, q)' => Existing(q)'
  BY <1>1, <1>2, SettledStays DEF AccountInv, RunInv, Existing
<1>12. RunInv'
  BY <1>1, <1>2, <1>3, <1>7, <1>9, <1>10, <1>11, SettledStays DEF AccountInv, RunInv
<1>13. DoneInv'
  BY <1>1 DEF AccountInv, RunInv, DoneInv
<1>14. RepeatInv'
  <2> SUFFICES ASSUME repeated PROVE RepeatInv'
    BY <1>1 DEF RepeatInv
  <2>1. Warned(r) => ~HasMethod(svc, r)
    BY <1>1 DEF AccountInv, RepeatInv, Warned, Existing, HasMethod, GoNames
  <2> QED
    BY <1>1, <1>2, <2>1, SettledStays DEF AccountInv, RepeatInv, OfContract, Settled
<1> QED
  BY <1>12, <1>13, <1>14 DEF AccountInv

\* An rpc whose stub will be written: not in a run that repeats one.
LEMMA AccountMissing ==
  ASSUME PackageInv, AccountInv, NEW r \in Rpcs, Missing(r)
  PROVE  AccountInv'
<1>1. /\ UNCHANGED <<tree, contract, parsed, todo, svc, implemented, rpcs, report, last, shown, repeated>>
      /\ pc = "rpc" /\ pc' = "write" /\ r \in rpcs /\ job' = r
      /\ ~Existing(r) /\ ~Warned(r)
  BY DEF Missing, project, history
<1>2. \A t \in Services : Behind(t)' => Behind(t)
  BY <1>1 DEF Behind
<1>3. RunInv' /\ DoneInv'
  BY <1>1, <1>2, SettledStays
     DEF AccountInv, RunInv, DoneInv, OfContract, SettledService, Settled, Existing
<1>4. ~repeated
  <2> SUFFICES ASSUME repeated PROVE FALSE
    OBVIOUS
  <2>1. svc \in Services /\ r \in contract[svc] /\ GoName[r] \in GoNames
    BY <1>1 DEF PackageInv, KnowsPackage, AccountInv, RunInv, GoNames
  <2>2. ~HasMethod(svc, r)
    BY <1>1, <2>1 DEF AccountInv, RepeatInv, Existing, HasMethod
  <2>3. ~NoStub(svc, r)
    BY <1>1 DEF Warned, NoStub
  <2>4. Settled(svc, r, shown.warned)
    BY <1>1, <2>1 DEF AccountInv, RepeatInv
  <2> QED
    BY <2>2, <2>3, <2>4 DEF Settled
<1> QED
  BY <1>1, <1>3, <1>4 DEF AccountInv, RepeatInv

LEMMA AccountClose ==
  ASSUME PackageInv, AccountInv, CloseService
  PROVE  AccountInv'
<1>1. /\ UNCHANGED <<tree, contract, parsed, todo, rpcs, job, report, last, shown, repeated>>
      /\ pc = "rpc" /\ pc' = "service" /\ rpcs = {}
  BY DEF CloseService, project, history
<1>2. SettledService(svc, report.warned)
  BY <1>1 DEF AccountInv, RunInv, SettledService
<1>3. \A t \in Services : Behind(t)' => t = svc \/ Behind(t)
  BY <1>1 DEF Behind
<1>4. \A t \in Services : Behind(t)' => SettledService(t, report.warned)'
  BY <1>1, <1>2, <1>3, SettledStays DEF AccountInv, RunInv, SettledService, Settled
<1>5. RunInv' /\ DoneInv'
  BY <1>1, <1>4 DEF AccountInv, RunInv, DoneInv, OfContract
<1>6. RepeatInv'
  BY <1>1, SettledStays DEF AccountInv, RepeatInv, OfContract, Settled
<1> QED
  BY <1>5, <1>6 DEF AccountInv

\* The report is printed: every service is behind.
LEMMA AccountPrint ==
  ASSUME PackageInv, AccountInv, PrintReport
  PROVE  AccountInv'
<1>1. /\ UNCHANGED <<tree, contract, todo>> /\ pc = "service" /\ pc' = "idle" /\ todo = {}
      /\ shown' = report
  BY DEF PrintReport, project
<1>2. OfContract(report.warned) /\ \A s \in Services : SettledService(s, report.warned)
  BY <1>1 DEF AccountInv, RunInv, Behind
<1>3. OfContract(shown.warned)' /\ \A s \in Services : SettledService(s, shown.warned)'
  BY <1>1, <1>2, SettledStays DEF OfContract, SettledService, Settled
<1> QED
  BY <1>1, <1>3 DEF AccountInv, RunInv, DoneInv, RepeatInv

\* server.go is new, and declares no method.
LEMMA AccountServer ==
  ASSUME PackageInv, report \in ReportType, AccountInv, WriteServer
  PROVE  AccountInv'
<1> DEFINE h == ServerPath(svc)
           file == Source({<<TypeServer, svc>>})
<1>1. /\ UNCHANGED <<contract, parsed, todo, svc, implemented, rpcs, job, last, shown, repeated>>
      /\ pc = "server" /\ pc' = "scan" /\ tree' = [tree EXCEPT ![h] = file]
      /\ report'.warned = report.warned
  BY DEF WriteServer, service, ReportType
<1>2. svc \in Services /\ h \in Paths /\ tree[h] = Absent
  BY <1>1, NamesAssumption DEF PackageInv, KnowsPackage, Paths, Packages, ServerPath
<1>3. file # Absent /\ file.decls = {<<TypeServer, svc>>}
  BY <1>2, WrittenIsGoFile, SourceIsGoFile, NamesAssumption DEF Source, Decls
<1>4. \A q \in Paths : q # h => tree'[q] = tree[q]
  BY <1>1 DEF PackageInv, CoreOK
<1>5. tree'[h] = file
  BY <1>1, <1>2 DEF PackageInv, CoreOK
<1>6. ASSUME NEW s \in Services, NEW r \in Rpcs
      PROVE  /\ HasMethod(s, r)' <=> HasMethod(s, r)
             /\ NoStub(s, r) => NoStub(s, r)'
             /\ Alone(s, r)' <=> Alone(s, r)
  <2>1. \A f \in Files : <<Pkg[s], f>> \in Paths
    BY DEF Paths, Packages
  <2>2. \A t \in Services : <<GoName[r], t>> \notin file.decls
    BY <1>3, SetsAssumption DEF GoNames
  <2>3. HasMethod(s, r)' <=> HasMethod(s, r)
    BY <1>2, <1>4, <1>5, <2>1, <2>2 DEF HasMethod, Declared
  <2>4. NoStub(s, r) => NoStub(s, r)'
    BY <1>3, <1>4, <1>5, HandlerFile DEF NoStub, HandlerPath
  <2> QED
    BY <1>1, <2>3, <2>4 DEF Alone
<1>7. \A s \in Services : tree[ServerPath(s)] # Absent => tree'[ServerPath(s)] # Absent
  BY <1>3, <1>4, <1>5, HandlerFile, NamesAssumption DEF ServerPath, Paths, Packages
<1>8. \A s \in Services : \A r \in Rpcs : Settled(s, r, report.warned) => Settled(s, r, report.warned)'
  BY <1>1, <1>6 DEF Settled
<1>9. \A s \in Services : SettledService(s, report.warned) => SettledService(s, report.warned)'
  BY <1>1, <1>7, <1>8 DEF SettledService, ServerPath, PackageInv, CoreOK
<1>10. \A s \in Services : Behind(s)' => Behind(s)
  BY <1>1 DEF Behind
<1>11. OfContract(report.warned)'
  BY <1>1 DEF AccountInv, RunInv, OfContract
<1>12. /\ \A s \in todo : \A r \in Rpcs : <<s, r>> \notin report.warned
       /\ \A s \in Services : Behind(s) => SettledService(s, report.warned)
       /\ svc \notin todo /\ \A r \in Rpcs : <<svc, r>> \notin report.warned
       /\ last = "running" /\ parsed = contract /\ ~repeated
  BY <1>1 DEF AccountInv, RunInv, RepeatInv
<1>13. tree'[ServerPath(svc)'] # Absent
  BY <1>1, <1>3, <1>5 DEF ServerPath
<1> QED
  BY <1>1, <1>9, <1>10, <1>11, <1>12, <1>13 DEF AccountInv, RunInv, DoneInv, RepeatInv

\* A stub brings its method, to every service of the package whose contract has it.
LEMMA AccountWrite ==
  ASSUME PackageInv, report \in ReportType, AccountInv, WriteHandler
  PROVE  AccountInv'
<1> DEFINE h == HandlerPath(svc, job)
<1>1. /\ UNCHANGED <<contract, parsed, todo, svc, implemented, last, shown, repeated>>
      /\ pc = "write" /\ pc' = "rpc" /\ rpcs' = rpcs \ {job}
      /\ tree' = [tree EXCEPT ![h] = Stub]
      /\ report'.warned = report.warned
  BY DEF WriteHandler, history, ReportType
<1>2. /\ svc \in Services /\ job \in Rpcs /\ tree[h] = Absent /\ h \in Paths
      /\ h = <<Pkg[svc], FileName[GoName[job]]>>
  BY <1>1, HandlerFile DEF PackageInv, KnowsPackage, HandlerPath
<1>3. Stub # Absent /\ Stub.decls = {<<GoName[job], svc>>}
  BY <1>2, WrittenIsGoFile, SourceIsGoFile DEF Stub, Source
<1>4. tree'[h] = Stub /\ \A q \in Paths : q # h => tree'[q] = tree[q]
  BY <1>1, <1>2 DEF PackageInv, CoreOK
<1>5. job \in rpcs /\ rpcs \subseteq contract[svc] /\ <<svc, job>> \notin report.warned
  BY <1>1 DEF AccountInv, RunInv
<1>6. ASSUME NEW s \in Services, NEW n \in GoNames
      PROVE  Declared(Pkg[s], n)' <=> Declared(Pkg[s], n) \/ (Pkg[s] = Pkg[svc] /\ n = GoName[job])
  <2>1. \A f \in Files : <<Pkg[s], f>> \in Paths
    BY DEF Paths, Packages
  <2>2. ASSUME Declared(Pkg[s], n) PROVE Declared(Pkg[s], n)'
    BY <1>2, <1>4, <2>1, <2>2 DEF Declared
  <2>3. ASSUME Pkg[s] = Pkg[svc], n = GoName[job] PROVE Declared(Pkg[s], n)'
    <3>1. FileName[GoName[job]] \in Files
      BY <1>2, HandlerFile, NamesAssumption
    <3> QED
      BY <1>2, <1>3, <1>4, <2>3, <3>1 DEF Declared
  <2>4. ASSUME Declared(Pkg[s], n)', ~Declared(Pkg[s], n)
        PROVE  Pkg[s] = Pkg[svc] /\ n = GoName[job]
    <3>1. PICK f \in Files : /\ tree'[<<Pkg[s], f>>] # Absent
                             /\ \E t \in Services : <<n, t>> \in tree'[<<Pkg[s], f>>].decls
      BY <2>4 DEF Declared
    <3>2. <<Pkg[s], f>> = h
      BY <1>4, <2>1, <2>4, <3>1 DEF Declared
    <3> QED
      BY <1>2, <1>3, <1>4, <3>1, <3>2
  <2> QED
    BY <2>2, <2>3, <2>4
<1>7. ASSUME NEW s \in Services, NEW r \in Rpcs
      PROVE  /\ HasMethod(s, r)' <=> HasMethod(s, r) \/ (Pkg[s] = Pkg[svc] /\ GoName[r] = GoName[job])
             /\ NoStub(s, r) => NoStub(s, r)'
             /\ Alone(s, r)' <=> Alone(s, r)
  <2>1. NoStub(s, r) => NoStub(s, r)'
    <3>1. HandlerPath(s, r) \in Paths /\ HandlerPath(s, r)' = HandlerPath(s, r)
      BY HandlerFile DEF HandlerPath
    <3> QED
      BY <1>3, <1>4, <3>1 DEF NoStub
  <2> QED
    BY <1>1, <1>6, <2>1 DEF HasMethod, Alone, GoNames
<1>8. ASSUME NEW s \in Services, NEW r \in contract[s], <<s, r>> # <<svc, job>>,
             Pkg[s] = Pkg[svc] /\ GoName[r] = GoName[job]
      PROVE  ~Alone(s, r)
  BY <1>2, <1>5, <1>8 DEF Alone
<1>9. ASSUME NEW s \in Services, NEW r \in contract[s], <<s, r>> # <<svc, job>>,
             Settled(s, r, report.warned)
      PROVE  Settled(s, r, report.warned)'
  <2>1. r \in Rpcs
    BY <1>9 DEF PackageInv, CoreOK
  <2> QED
    BY <1>1, <1>7, <1>8, <1>9, <2>1 DEF Settled
<1>10. \A r \in Rpcs : r = job => Settled(svc, r, report.warned)'
  BY <1>1, <1>2, <1>5, <1>7 DEF Settled
<1>11. \A s \in Services : tree[ServerPath(s)] # Absent => tree'[ServerPath(s)'] # Absent
  <2>1. \A s \in Services : ServerPath(s) \in Paths /\ ServerPath(s)' = ServerPath(s)
    BY NamesAssumption DEF ServerPath, Paths, Packages
  <2> QED
    BY <1>3, <1>4, <2>1
<1>12. \A s \in Services : Behind(s)' => SettledService(s, report.warned)'
  <2>1. \A s \in Services : Behind(s)' => Behind(s) /\ s # svc
    BY <1>1 DEF Behind
  <2>2. \A s \in Services : Behind(s) => SettledService(s, report.warned)
    BY <1>1 DEF AccountInv, RunInv
  <2>3. ASSUME NEW s \in Services, s # svc, SettledService(s, report.warned)
        PROVE  SettledService(s, report.warned)'
    <3>1. \A r \in contract[s] : Settled(s, r, report.warned)'
      BY <1>9, <2>3 DEF SettledService
    <3> QED
      BY <1>1, <1>11, <2>3, <3>1 DEF SettledService
  <2> QED
    BY <2>1, <2>2, <2>3
<1>13. \A r \in contract[svc] \ rpcs' : Settled(svc, r, report.warned)'
  <2>1. \A r \in contract[svc] \ rpcs : Settled(svc, r, report.warned)
    BY <1>1 DEF AccountInv, RunInv
  <2> QED
    BY <1>1, <1>2, <1>5, <1>9, <1>10, <2>1
<1>14. ASSUME NEW r \in rpcs'
       PROVE  /\ <<svc, r>> \notin report'.warned
              /\ Alone(svc, r)' /\ HasMethod(svc, r)' => Existing(r)'
  <2>1. r \in rpcs /\ r # job /\ r \in contract[svc] /\ r \in Rpcs
    BY <1>1, <1>5 DEF PackageInv, CoreOK
  <2>2. <<svc, r>> \notin report.warned /\ (Alone(svc, r) /\ HasMethod(svc, r) => Existing(r))
    BY <1>1, <2>1 DEF AccountInv, RunInv
  <2>3. Existing(r)' <=> Existing(r)
    BY <1>1 DEF Existing
  <2> QED
    BY <1>1, <1>2, <1>7, <1>8, <2>1, <2>2, <2>3
<1>15. \A n \in implemented' : Declared(Pkg[svc], n)'
  <2>1. \A n \in implemented : Declared(Pkg[svc], n)
    BY <1>1 DEF AccountInv, RunInv
  <2> QED
    BY <1>1, <1>2, <1>4, <2>1 DEF Declared, Paths, Packages
<1>16. /\ OfContract(report.warned)' /\ last = "running" /\ parsed = contract /\ ~repeated
       /\ svc \notin todo /\ tree[ServerPath(svc)] # Absent
       /\ \A s \in todo : \A r \in Rpcs : <<s, r>> \notin report.warned
  BY <1>1 DEF AccountInv, RunInv, RepeatInv, OfContract
<1> QED
  BY <1>1, <1>2, <1>5, <1>11, <1>12, <1>13, <1>14, <1>15, <1>16
     DEF AccountInv, RunInv, DoneInv, RepeatInv

LEMMA AccountStep ==
  ASSUME PackageInv, report \in ReportType, AccountInv, [Next]_vars
  PROVE  AccountInv'
<1>1. CASE Stopped
  BY <1>1, AccountOver DEF Stopped
<1>2. CASE Die \/ ScanFails \/ WriteServerTorn \/ WriteHandlerTorn
           \/ (\E s \in Services : ServerUnprintable(s)) \/ (\E r \in Rpcs : StubUnprintable(r))
  BY <1>1, <1>2 DEF Die, ScanFails, WriteServerTorn, WriteHandlerTorn, ServerUnprintable,
                    StubUnprintable
<1>3. CASE People
  <2>1. CountEdit
    BY <1>3 DEF People, EditContract, Implement, Move, Disturb
  <2> QED
    BY <2>1, AccountOver DEF CountEdit
<1>4. CASE UNCHANGED vars
  <2>1. UNCHANGED <<tree, contract, pc, parsed, todo, svc, implemented, rpcs, job, report, last,
                    shown, repeated>>
    BY <1>4 DEF vars, project, service, history
  <2>2. RunInv' /\ DoneInv' /\ RepeatInv'
    BY <2>1, SettledStays DEF AccountInv, RunInv, DoneInv, RepeatInv, OfContract, Behind,
       SettledService, Settled, Existing
  <2> QED
    BY <2>2 DEF AccountInv
<1> QED
  BY <1>2, <1>3, <1>4, AccountParse, AccountOpen, AccountServer, AccountScan, AccountClassify,
     AccountMissing, AccountWrite, AccountClose, AccountPrint DEF Next, ToolStep

LEMMA AccountsHold == Spec => [](TypeInv /\ AccountInv)
<1>1. Init => TypeInv /\ AccountInv
  BY TypeInvStart, AccountStart
<1>2. TypeInv /\ AccountInv /\ [Next]_vars => (TypeInv /\ AccountInv)'
  BY TypeInvStep, AccountStep DEF TypeInv
<1> QED
  BY <1>1, <1>2, PTL DEF Spec

\* A printed report accounts for every rpc of the contracts, in whatever order the
\* services were taken and whatever names collide.
THEOREM EveryRpcIsAccounted == Spec => []Accounted
<1>1. TypeInv /\ AccountInv => Accounted
  BY DEF AccountInv, DoneInv, SettledService, Settled, HasMethod, Accounted
<1> QED
  BY <1>1, AccountsHold, PTL

\* Repeating a run changes nothing and says again what is still missing.
THEOREM RunsAreIdempotent == Spec => Idempotent
<1>1. TypeInv /\ AccountInv /\ [Next]_vars =>
        [pc # "idle" /\ last' = "done" /\ repeated =>
           /\ report.created = {} /\ report.fresh = {}
           /\ report.warned = {w \in shown.warned : ~Declared(Pkg[w[1]], GoName[w[2]])}]_vars
  <2> SUFFICES ASSUME TypeInv, AccountInv, Next, pc # "idle", last' = "done", repeated
               PROVE  /\ report.created = {} /\ report.fresh = {}
                      /\ report.warned = {w \in shown.warned : ~Declared(Pkg[w[1]], GoName[w[2]])}
    BY DEF vars
  <2>1. last = "running"
    BY DEF AccountInv, RunInv
  <2>2. pc = "service" /\ todo = {}
    <3>1. ~Stopped /\ ~People /\ ~parseServices
      BY DEF Stopped, parseServices, People, EditContract, Implement, Move, Disturb, CountEdit
    <3>2. last' # last
      BY <2>1
    <3> QED
      BY <3>1, <3>2 DEF Next, ToolStep, OpenService, ServerUnprintable, WriteServer, WriteServerTorn,
         serverMethods, ScanFails, Classify, Missing, StubUnprintable, WriteHandler,
         WriteHandlerTorn, CloseService, PrintReport, Die
  <2>3. report.created = {} /\ report.fresh = {}
    BY DEF AccountInv, RepeatInv
  <2>4. \A s \in Services : \A r \in contract[s] :
          /\ r \in Rpcs
          /\ Settled(s, r, report.warned) /\ Settled(s, r, shown.warned)
          /\ <<s, r>> \in report.warned => ~HasMethod(s, r)
    BY <2>2 DEF AccountInv, RunInv, RepeatInv, SettledService, Behind, TypeInv, PackageInv, CoreOK
  <2>5. ASSUME NEW w \in report.warned
        PROVE  w \in shown.warned /\ ~Declared(Pkg[w[1]], GoName[w[2]])
    <3>1. PICK s \in Services : \E r \in contract[s] : w = <<s, r>>
      BY DEF AccountInv, RunInv, OfContract
    <3> QED
      BY <2>4, <2>5, <3>1 DEF Settled, HasMethod
  <2>6. ASSUME NEW w \in shown.warned, ~Declared(Pkg[w[1]], GoName[w[2]])
        PROVE  w \in report.warned
    <3>1. PICK s \in Services : \E r \in contract[s] : w = <<s, r>>
      BY DEF AccountInv, RepeatInv, OfContract
    <3> QED
      BY <2>4, <2>6, <3>1 DEF Settled, HasMethod
  <2> QED
    BY <2>3, <2>5, <2>6
<1> QED
  BY <1>1, AccountsHold, PTL DEF Spec, Idempotent
=============================================================================
