------------------------ MODULE ScratchUpdateProofs ------------------------
(***************************************************************************)
(* Proofs about ScratchUpdate, for any files, contents, templates and      *)
(* versions, and any number of runs, edits and failures.  People may edit  *)
(* while the tool runs, unless a theorem says otherwise.                   *)
(***************************************************************************)
EXTENDS ScratchUpdate, TLAPS

-----------------------------------------------------------------------------
\* A hash tells contents apart.
LEMMA HashInjective ==
  ASSUME NEW c, NEW d, hashBytes(c) = hashBytes(d) PROVE c = d
BY DEF hashBytes

\* What the templates are rendered to is content.
LEMMA WantIsContent ==
  ASSUME CoreOK, NEW f \in Files
  PROVE  /\ Want(f) \in Contents
         /\ Want(f) \in Renderings(f)
         /\ hashBytes(Want(f)) \in Hashes
<1>1. mem.params \in Params /\ bin \in Versions
  BY DEF CoreOK, Manifest
<1>2. Want(f) \in Contents
  BY <1>1, ContentsAssumption DEF Want, Render
<1> QED BY <1>1, <1>2 DEF Want, Renderings, Hashes

\* A manifest as it is when the tool starts, or after a Save that was cut short.
LEMMA FreshManifests ==
  /\ ZeroManifest \in Manifest
  /\ \A v \in Versions, p \in Params : NewManifest(v, p) \in Manifest
  /\ \A m \in Manifest : TornManifests(m) \subseteq Manifest \cup {Unreadable}
<1>1. 0 \in Versions /\ NoManaged \in [Managed -> Hashes \cup {NoHash}]
  BY VersionsAssumption DEF NoManaged
<1>2. ZeroManifest \in Manifest
  BY <1>1 DEF ZeroManifest, Manifest, Params
<1>3. \A v \in Versions, p \in Params : NewManifest(v, p) \in Manifest
  BY <1>1, SchemaAssumption DEF NewManifest, Manifest
<1>4. ASSUME NEW m \in Manifest PROVE TornManifests(m) \subseteq Manifest \cup {Unreadable}
  <2>1. ASSUME NEW p \in Params, NEW kept \in SUBSET Managed
        PROVE  CutShort(m, p, kept) \in Manifest
    BY <1>4, <2>1 DEF CutShort, Manifest
  <2>2. "lost" \in Params /\ m.params \in Params /\ {} \in SUBSET Managed
    BY <1>4 DEF Params, Manifest
  <2> QED BY <1>2, <2>1, <2>2 DEF TornManifests
<1> QED BY <1>2, <1>3, <1>4

-----------------------------------------------------------------------------
KeptInv == CoreOK /\ InPlace /\ RecordIsOwn

\* A manifest in which one more rendering is noted still vouches for renderings
\* only.
LEMMA NotedIsOwn ==
  ASSUME CoreOK, Vouched(mem), NEW f \in Managed
  PROVE  /\ [mem EXCEPT !.managed[f] = hashBytes(Want(f))] \in Manifest
         /\ Vouched([mem EXCEPT !.managed[f] = hashBytes(Want(f))])
<1>1. f \in Files
  BY DEF Files
<1>2. Want(f) \in Renderings(f) /\ hashBytes(Want(f)) \in Hashes
  BY <1>1, WantIsContent
<1> QED BY <1>2 DEF CoreOK, Manifest, Vouched

\* So does what is left of a manifest.
LEMMA TornIsOwn ==
  ASSUME NEW m \in Manifest, Vouched(m), NEW t \in TornManifests(m), t # Unreadable
  PROVE  Vouched(t)
<1>1. ASSUME NEW p, NEW kept PROVE Vouched(CutShort(m, p, kept))
  BY DEF CutShort, Vouched
<1>2. Vouched(ZeroManifest)
  BY DEF ZeroManifest, NoManaged, Vouched
<1> QED BY <1>1, <1>2 DEF TornManifests

LEMMA EmptyIsOwn == /\ Vouched(ZeroManifest)
                    /\ \A v, p : Vouched(NewManifest(v, p))
BY DEF Vouched, ZeroManifest, NewManifest, NoManaged

LEMMA KeptStep == ASSUME KeptInv, [Next]_vars PROVE KeptInv'
<1> USE DEF project, tool
<1>a. CoreOK /\ InPlace /\ RecordIsOwn
  BY DEF KeptInv
<1>f. Managed \subseteq Files /\ ZeroManifest \in Manifest /\ 0 \in Versions
  BY FreshManifests, VersionsAssumption DEF Files
<1>w. \A f \in Files : /\ Want(f) \in Contents /\ Want(f) \in Renderings(f)
                       /\ hashBytes(Want(f)) \in Hashes
  BY <1>a, WantIsContent
\* Starting a run.
<1>1. ASSUME NEW v \in Versions, LoadManifest(v) PROVE KeptInv'
  <2>1. mem' \in Manifest /\ Vouched(mem')
    BY <1>1, <1>a DEF LoadManifest, CoreOK, RecordIsOwn
  <2> QED BY <1>1, <1>a, <1>f, <2>1
          DEF LoadManifest, CountRun, KeptInv, CoreOK, InPlace, RecordIsOwn
<1>2. ASSUME NEW v \in Versions, NEW p \in {"plain", "local"},
             NEW force \in BOOLEAN, StartNew(v, p, force)
      PROVE  KeptInv'
  <2>1. mem' \in Manifest /\ Vouched(mem')
    BY <1>2, FreshManifests, EmptyIsOwn DEF StartNew, Params
  <2> QED BY <1>2, <1>a, <2>1
          DEF StartNew, CountRun, KeptInv, CoreOK, InPlace, RecordIsOwn
\* Ending one: the memory is gone.
<1>g. ASSUME Gone, disk' \in [Files -> Contents \cup {Absent}],
             side' \in [Managed -> Contents \cup {Absent}],
             manifest' \in Manifest \cup {Absent, Unreadable},
             manifest' \notin {Absent, Unreadable} => Vouched(manifest')
      PROVE  KeptInv'
  BY <1>g, <1>f, EmptyIsOwn DEF Gone, KeptInv, CoreOK, InPlace, RecordIsOwn
<1>3. CASE Die
  BY <1>3, <1>a, <1>g DEF Die, Stopped, CoreOK, RecordIsOwn
<1>4. ASSUME NEW f \in Files, GenerateTorn(f) PROVE KeptInv'
  BY <1>4, <1>a, <1>g, ContentsAssumption DEF GenerateTorn, Stopped, CoreOK, RecordIsOwn
<1>5. CASE GenerateGoModTorn
  BY <1>5, <1>a, <1>g DEF GenerateGoModTorn, Stopped, CoreOK, RecordIsOwn
<1>6. CASE WriteTorn
  BY <1>6, <1>a, <1>g, ContentsAssumption DEF WriteTorn, Stopped, CoreOK, RecordIsOwn
<1>s. [mem EXCEPT !.version = bin] \in Manifest /\ Vouched([mem EXCEPT !.version = bin])
  BY <1>a DEF CoreOK, Manifest, RecordIsOwn, Vouched
<1>7. CASE Save
  BY <1>7, <1>a, <1>g, <1>s DEF Save, CoreOK
<1>8. CASE SaveTorn
  <2>1. /\ manifest' \in Manifest \cup {Absent, Unreadable}
        /\ manifest' \notin {Absent, Unreadable} => Vouched(manifest')
    BY <1>8, <1>s, FreshManifests, TornIsOwn DEF SaveTorn
  <2> QED BY <1>8, <1>a, <1>g, <2>1 DEF SaveTorn, Stopped, CoreOK
\* scratch new.
<1>9. ASSUME NEW f \in Files, Generate(f) PROVE KeptInv'
  <2>1. mem' \in Manifest /\ Vouched(mem')
    BY <1>9, <1>a, NotedIsOwn DEF Generate, CoreOK, RecordIsOwn
  <2>2. disk' \in [Files -> Contents \cup {Absent}]
    BY <1>9, <1>a, <1>w DEF Generate, CoreOK
  <2> QED BY <1>9, <1>a, <2>1, <2>2
          DEF Generate, KeptInv, CoreOK, InPlace, RecordIsOwn
<1>10. CASE GenerateGoMod
  BY <1>10, <1>a DEF GenerateGoMod, KeptInv, CoreOK, InPlace, RecordIsOwn
\* scratch update.
<1>11. ASSUME NEW f \in Managed, Classify(f) PROVE KeptInv'
  <2>1. CASE disk[f] = Want(f) /\ mem' = [mem EXCEPT !.managed[f] = hashBytes(Want(f))]
             /\ todo' = todo \ {f} /\ UNCHANGED <<pc, job, disk, side, manifest, op, bin>>
    <3>1. mem' \in Manifest /\ Vouched(mem')
      BY <1>a, <2>1, NotedIsOwn DEF RecordIsOwn
    <3> QED BY <1>11, <1>a, <2>1, <3>1
            DEF Classify, KeptInv, CoreOK, InPlace, RecordIsOwn
  <2>2. ASSUME NEW to \in {"disk", "side"}, NEW status \in Statuses, Decide(f, to, status),
               UNCHANGED <<disk, side, manifest, op, bin>>, op = "update"
        PROVE  KeptInv'
    <3>1. job' \in [file : Managed, to : {"disk", "side"}, status : Statuses]
      BY <2>2 DEF Decide
    <3> QED BY <1>a, <2>2, <3>1 DEF Decide, KeptInv, CoreOK, InPlace, RecordIsOwn
  <2> QED BY <1>11, <2>1, <2>2 DEF Classify, Statuses
<1>12. CASE WriteFile
  <2>1. job.file \in Managed
    BY <1>12, <1>a DEF WriteFile, InPlace, CoreOK, NoJob
  <2>2. mem' \in Manifest /\ Vouched(mem')
    BY <1>12, <1>a, <2>1, NotedIsOwn DEF WriteFile, CoreOK, RecordIsOwn
  <2>3. /\ disk' \in [Files -> Contents \cup {Absent}]
        /\ side' \in [Managed -> Contents \cup {Absent}]
    BY <1>12, <1>a, <1>f, <1>w, <2>1 DEF WriteFile, CoreOK
  <2> QED BY <1>12, <1>a, <2>2, <2>3
          DEF WriteFile, KeptInv, CoreOK, InPlace, RecordIsOwn
<1>13. CASE bumpLibVersion
  BY <1>13, <1>a DEF bumpLibVersion, KeptInv, CoreOK, InPlace, RecordIsOwn
\* The people.
<1>14. ASSUME NEW f \in Files, Edit(f) PROVE KeptInv'
  <2>1. disk' \in [Files -> Contents \cup {Absent}]
    BY <1>14, <1>a, ContentsAssumption DEF Edit, CoreOK
  <2> QED BY <1>14, <1>a, <2>1
          DEF Edit, CountEdit, KeptInv, CoreOK, InPlace, RecordIsOwn
<1>15. ASSUME NEW f \in Managed, TakeOffer(f) PROVE KeptInv'
  <2>1. /\ disk' \in [Files -> Contents \cup {Absent}]
        /\ side' \in [Managed -> Contents \cup {Absent}]
    BY <1>15, <1>a, <1>f DEF TakeOffer, CoreOK
  <2> QED BY <1>15, <1>a, <2>1
          DEF TakeOffer, CountEdit, KeptInv, CoreOK, InPlace, RecordIsOwn
<1>16. CASE EditGoMod
  BY <1>16, <1>a DEF EditGoMod, CountEdit, KeptInv, CoreOK, InPlace, RecordIsOwn
<1>17. CASE UNCHANGED vars
  BY <1>17, <1>a DEF vars, KeptInv, CoreOK, InPlace, RecordIsOwn
<1> QED
  BY <1>1, <1>2, <1>3, <1>4, <1>5, <1>6, <1>7, <1>8, <1>9, <1>10, <1>11, <1>12,
     <1>13, <1>14, <1>15, <1>16, <1>17 DEF Next, Start, ToolStep, People

\* The files, the manifest and the tool's memory keep their type, and the record
\* never vouches for what somebody wrote.
THEOREM Kept == Spec => []KeptInv
<1>1. Init => KeptInv
  BY FreshManifests, EmptyIsOwn, VersionsAssumption, SchemaAssumption
     DEF Init, KeptInv, CoreOK, InPlace, RecordIsOwn, Vouched, Manifest,
         NoManaged, Params
<1>2. KeptInv /\ [Next]_vars => KeptInv'
  BY KeptStep
<1> QED BY <1>1, <1>2, PTL DEF Spec

\* No hash in the manifest ever vouches for what somebody wrote, not even for
\* what somebody writes while the tool runs.
THEOREM RecordStaysOwn == Spec => []RecordIsOwn
BY Kept, PTL DEF KeptInv

-----------------------------------------------------------------------------
\* Nobody touches a file between the moment update reads it and the moment it
\* writes it.
HandsOff == pc = "write" /\ UNCHANGED pc => disk'[job.file] = disk[job.file]

\* What update finds recorded in the manifest is a rendering, and nobody having
\* touched it, still is when it is replaced.
LEMMA SafeStep ==
  ASSUME KeptInv, WriteIsSafe, [Next]_vars, [HandsOff]_vars PROVE WriteIsSafe'
<1> USE DEF project, tool
<1>a. CoreOK /\ InPlace /\ Vouched(mem) /\ Managed \subseteq Files
  BY DEF KeptInv, RecordIsOwn, Files
<1>1. ASSUME NEW f \in Managed, Classify(f) PROVE WriteIsSafe'
  <2>1. ASSUME mem.managed[f] = hashBytes(disk[f]), disk[f] # Absent
        PROVE  disk[f] \in Renderings(f)
    <3>1. hashBytes(disk[f]) \in Hashes
      BY <1>a, <2>1 DEF CoreOK, Hashes
    <3>2. PICK c \in Renderings(f) : mem.managed[f] = hashBytes(c)
      BY <1>a, <2>1, <3>1, HashAssumption DEF Vouched
    <3> QED BY <2>1, <3>2, HashInjective
  <2>2. ASSUME NEW to, NEW status, Decide(f, to, status), UNCHANGED disk,
               to = "disk" => disk[f] \in Renderings(f) \cup {Absent}
        PROVE  WriteIsSafe'
    BY <2>2 DEF Decide, WriteIsSafe, Renderings, Render
  <2>3. CASE UNCHANGED pc
    BY <1>1, <2>3 DEF Classify, WriteIsSafe
  <2> QED BY <1>1, <2>1, <2>2, <2>3 DEF Classify
<1>2. CASE (ToolStep \/ Start) /\ ~(\E f \in Managed : Classify(f))
  <2>1. pc' # "write"
    BY <1>2, <1>a DEF ToolStep, Start, LoadManifest, StartNew, Generate, GenerateTorn,
       GenerateGoMod, GenerateGoModTorn, WriteFile, WriteTorn, bumpLibVersion, Save,
       SaveTorn, Die, Stopped, Gone
  <2> QED BY <2>1 DEF WriteIsSafe
<1>3. CASE People
  <2>1. UNCHANGED <<pc, job>>
    BY <1>3 DEF People, Edit, TakeOffer, EditGoMod, CountEdit
  <2>2. pc = "write" => disk'[job.file] = disk[job.file]
    BY <2>1 DEF HandsOff, vars
  <2> QED BY <2>1, <2>2 DEF WriteIsSafe, Renderings, Render
<1>4. CASE UNCHANGED vars
  BY <1>4 DEF vars, WriteIsSafe, Renderings, Render
<1> QED BY <1>1, <1>2, <1>3, <1>4 DEF Next

\* What HandEditsKept says of one step.
KeptByStep ==
  op = "update" =>
    /\ \A f \in Managed : disk'[f] # disk[f] =>
         disk[f] \in Renderings(f) \cup {Absent} \/ UNCHANGED tool
    /\ \A f \in App : disk'[f] # disk[f] => UNCHANGED tool

LEMMA KeptByEveryStep ==
  ASSUME KeptInv, WriteIsSafe, Next, op = "update" PROVE KeptByStep
<1>a. CoreOK /\ InPlace /\ pc # "idle"
  BY DEF KeptInv, InPlace
<1>u. ASSUME UNCHANGED disk PROVE KeptByStep
  BY <1>u DEF KeptByStep
<1>1. CASE WriteFile \/ WriteTorn
  \* Only the file it has decided about is written, and that one is safe.
  <2>1. /\ job.file \in Managed
        /\ job.to = "disk" => disk[job.file] \in Renderings(job.file) \cup {Absent}
    BY <1>1, <1>a DEF WriteFile, WriteTorn, InPlace, WriteIsSafe
  <2>2. \A f \in Files : disk'[f] # disk[f] => f = job.file /\ job.to = "disk"
    BY <1>1, <1>a, <2>1 DEF WriteFile, WriteTorn, CoreOK, Files
  <2> QED BY <2>1, <2>2, FilesAssumption DEF KeptByStep, Files
<1>2. CASE Start
  BY <1>2, <1>a DEF Start, LoadManifest, StartNew, CountRun
<1>3. CASE ToolStep /\ ~(WriteFile \/ WriteTorn)
  <2>1. UNCHANGED disk
    BY <1>3 DEF ToolStep, Generate, GenerateTorn, GenerateGoMod, GenerateGoModTorn,
                Classify, bumpLibVersion, Save, SaveTorn, Die, project
  <2> QED BY <1>u, <2>1
<1>4. CASE People
  BY <1>4 DEF People, Edit, TakeOffer, EditGoMod, CountEdit, KeptByStep
<1> QED BY <1>1, <1>2, <1>3, <1>4 DEF Next

\* The only edits that update can destroy are those made between its read of a
\* file and its write of the same file: people may edit anything else at any time.
THEOREM OnlyTheWindowIsUnsafe == Spec /\ [][HandsOff]_vars => HandEditsKept
<1>1. Init => WriteIsSafe
  BY DEF Init, WriteIsSafe
<1>2. KeptInv /\ WriteIsSafe /\ [Next]_vars /\ [HandsOff]_vars => WriteIsSafe'
  BY SafeStep
<1>3. KeptInv /\ WriteIsSafe /\ [Next]_vars => [KeptByStep]_vars
  BY KeptByEveryStep DEF vars, KeptByStep
<1>4. Spec => []KeptInv
  BY Kept
<1> QED BY <1>1, <1>2, <1>3, <1>4, PTL DEF Spec, HandEditsKept, KeptByStep

\* update never destroys what somebody wrote, whatever runs, crashes and edits
\* came before it, if nobody edits while it runs.
THEOREM NothingHandMadeIsLost == ASSUME ~EditsDuringRun PROVE Spec => HandEditsKept
<1>1. [Next]_vars => [HandsOff]_vars
  <2> SUFFICES ASSUME Next PROVE HandsOff
    BY DEF vars
  <2>1. CASE People
    BY <2>1 DEF People, Edit, TakeOffer, EditGoMod, CountEdit, HandsOff
  <2>2. CASE Start \/ ToolStep
    BY <2>2 DEF Start, ToolStep, LoadManifest, StartNew, CountRun, Generate, GenerateTorn,
       GenerateGoMod, GenerateGoModTorn, Classify, WriteFile, WriteTorn, bumpLibVersion,
       Save, Saving, SaveTorn, Die, Stopped, Gone, HandsOff, project
  <2> QED BY <2>1, <2>2 DEF Next
<1> QED BY <1>1, OnlyTheWindowIsUnsafe, PTL DEF Spec

-----------------------------------------------------------------------------
(* What a run knows of the files it has dealt with.                        *)

\* Somebody may have touched f since the tool wrote it, and the tool may have run
\* at the time: nothing is claimed of such a file.
Touched(f) == EditsDuringRun /\ f \in strayed

\* f is what this run renders, and noted as such.
Noted(f) == disk[f] = Want(f) /\ mem.managed[f] = hashBytes(Want(f))

\* f is neither what the run renders nor what an earlier one has recorded.
PutAside(f) == disk[f] \notin {Want(f), Absent} /\ mem.managed[f] # hashBytes(disk[f])

Dealt(f) == \/ report.files[f] \in {"created", "updated", "unchanged"} /\ Noted(f)
            \/ report.files[f] = "conflict" /\ PutAside(f) /\ side[f] = Want(f)

\* The latest complete run has recorded f as it is ...
Recorded(f) == /\ manifest \notin {Absent, Unreadable}
               /\ manifest.managed[f] = hashBytes(disk[f])

\* ... or one that was cut short since has left it so, whole or torn.
LeftBehind(f) == \/ disk[f] = Torn
                 \/ \E a \in attempts : disk[f] = Render(f, a[2], a[3])

\* Where a run is, and what it has done so far.
RunInv ==
  /\ pc # "idle" => last = "running"
  /\ pc = "save" => op = "update" /\ todo = {}
  /\ pc # "idle" /\ op = "new" => \A f \in Managed \ todo : Touched(f) \/ Noted(f)
  /\ op = "update" => \A f \in Managed \ todo : Touched(f) \/ Dealt(f)
  /\ pc = "write" => /\ job.file \in todo
                     /\ \/ job.to = "disk" /\ job.status \in {"created", "updated"}
                        \/ /\ job.to = "side" /\ job.status = "conflict"
                           /\ Touched(job.file) \/ PutAside(job.file)

\* Until it writes its own, an update has the record of the manifest in memory.
RecordInv ==
  op = "update" =>
    /\ manifest \notin {Absent, Unreadable}
    /\ \A f \in Managed : f \in todo \/ report.files[f] = "conflict" =>
         mem.managed[f] = manifest.managed[f]

\* Nobody touches go.mod between the bump and the end of the run.
GoModLeft == pc = "save" /\ UNCHANGED pc => UNCHANGED gomod

\* The library is at the tool's version, or the report says that it is not.
SkewInv == pc = "save" => (gomod.require = bin /\ ~gomod.replaced) \/ report.warned

\* A file that nobody but the tool has touched is accounted for by the record,
\* by a run that was cut short, or by the one that is running.
OriginInv ==
  \A f \in Managed \ strayed :
    Recorded(f) \/ LeftBehind(f) \/ (pc # "idle" /\ disk[f] = Want(f))

\* Converged, of the files that nobody has touched.
ConvergedApart ==
  last = "updated" =>
    \A f \in Managed :
      LET want == Render(f, manifest.params, manifest.version) IN
      \/ Touched(f)
      \/ /\ report.files[f] \in {"created", "updated", "unchanged"}
         /\ disk[f] = want
         /\ manifest.managed[f] = hashBytes(want)
      \/ /\ report.files[f] = "conflict"
         /\ disk[f] \notin {want, Absent}
         /\ side[f] = want

UpdateInv == /\ KeptInv /\ TypeOK /\ ConvergedApart
             /\ RunInv /\ RecordInv /\ OriginInv

-----------------------------------------------------------------------------
LEMMA TypeStep ==
  ASSUME KeptInv, KeptInv', TypeOK, [Next]_vars PROVE TypeOK'
<1> USE DEF project, tool
<1>a. /\ CoreOK /\ CoreOK' /\ TypeOK
      /\ <<op, mem.params, bin>> \in {"new", "update"} \X Params \X Versions
  BY DEF KeptInv, TypeOK, CoreOK, Manifest
<1>n. NoReport \in [files : [Managed -> Statuses], bumped : BOOLEAN, warned : BOOLEAN]
  BY DEF NoReport, Statuses
<1>s. ASSUME Stopped, UNCHANGED gomod, strayed' \subseteq Files, CountFailure \/ UNCHANGED used
      PROVE  TypeOK'
  BY <1>s, <1>a, <1>n DEF Stopped, CountFailure, TypeOK
<1>1. CASE Start
  BY <1>1, <1>a, <1>n DEF Start, LoadManifest, StartNew, CountRun, TypeOK
<1>2. ASSUME NEW f \in Files, Generate(f) PROVE TypeOK'
  BY <1>2, <1>a DEF Generate, TypeOK
<1>3. ASSUME NEW f \in Files, GenerateTorn(f) PROVE TypeOK'
  BY <1>3, <1>a, <1>s DEF GenerateTorn, TypeOK
<1>4. CASE GenerateGoMod
  <2>1. bin \in Versions
    BY <1>a DEF CoreOK
  <2> QED BY <1>4, <1>a, <2>1 DEF GenerateGoMod, TypeOK
<1>5. CASE GenerateGoModTorn
  <2>1. gomod' \in [state : {"ok", "absent", "torn"}, require : Versions, replaced : BOOLEAN]
    BY <1>5, VersionsAssumption DEF GenerateGoModTorn
  <2> QED BY <1>5, <1>a, <1>n, <2>1 DEF GenerateGoModTorn, Stopped, CountFailure, TypeOK
<1>6. ASSUME NEW f \in Managed, Classify(f) PROVE TypeOK'
  BY <1>6, <1>a DEF Classify, Decide, TypeOK, Statuses, Files
<1>7. CASE WriteFile
  <2>1. job.file \in Managed /\ job.status \in Statuses
    BY <1>7, <1>a DEF WriteFile, KeptInv, InPlace, CoreOK, NoJob, Statuses
  <2> QED BY <1>7, <1>a, <2>1 DEF WriteFile, TypeOK
<1>8. CASE WriteTorn
  <2>1. job.file \in Managed
    BY <1>8 DEF WriteTorn, KeptInv, InPlace
  <2> QED BY <1>8, <1>a, <1>s, <2>1 DEF WriteTorn, TypeOK, Files
<1>9. CASE bumpLibVersion
  <2>1. bin \in Versions
    BY <1>a DEF CoreOK
  <2>2. gomod' \in [state : {"ok", "absent", "torn"}, require : Versions, replaced : BOOLEAN]
    BY <1>9, <1>a, <2>1 DEF bumpLibVersion, TypeOK
  <2>3. \E b \in BOOLEAN : Bumped(b)
    BY <1>9, <1>a DEF bumpLibVersion, TypeOK
  <2>4. report' \in [files : [Managed -> Statuses], bumped : BOOLEAN, warned : BOOLEAN]
    BY <1>a, <2>3 DEF Bumped, TypeOK
  <2>5. used' \in [runs : Nat, edits : Nat, failures : Nat]
    <3>1. UNCHANGED used \/ CountFailure
      BY <1>9 DEF bumpLibVersion
    <3> QED BY <1>a, <3>1 DEF CountFailure, TypeOK
  <2> QED BY <1>9, <1>a, <2>2, <2>4, <2>5 DEF bumpLibVersion, TypeOK
<1>10. CASE Save
  BY <1>10, <1>a DEF Save, Conflicts, TypeOK, Files
<1>11. CASE SaveTorn
  BY <1>11, <1>a, <1>s DEF SaveTorn, TypeOK
<1>12. CASE Die
  BY <1>12, <1>a, <1>s DEF Die, TypeOK
<1>13. CASE People
  <2>1. gomod' \in [state : {"ok", "absent", "torn"}, require : Versions, replaced : BOOLEAN]
    <3>1. CASE EditGoMod
      <4>1. ASSUME NEW st \in {"ok", "absent"}, NEW v \in Versions, NEW b \in BOOLEAN
            PROVE  [state |-> st, require |-> v, replaced |-> b]
                     \in [state : {"ok", "absent", "torn"}, require : Versions, replaced : BOOLEAN]
        OBVIOUS
      <4>2. \E st \in {"ok", "absent"}, v \in Versions, b \in BOOLEAN :
              gomod' = [state |-> st, require |-> v, replaced |-> b]
        BY <3>1, VersionsAssumption DEF EditGoMod
      <4> QED BY <4>1, <4>2
    <3>2. CASE UNCHANGED gomod
      BY <1>a, <3>2 DEF TypeOK
    <3> QED BY <1>13, <3>1, <3>2 DEF People, Edit, TakeOffer
  <2>2. strayed' \subseteq Files
    BY <1>13, <1>a DEF People, Edit, TakeOffer, EditGoMod, TypeOK, Files
  <2>3. CountEdit
    BY <1>13 DEF People, Edit, TakeOffer, EditGoMod
  <2> QED BY <1>a, <2>1, <2>2, <2>3 DEF CountEdit, TypeOK
<1>14. CASE UNCHANGED vars
  BY <1>14, <1>a DEF vars, TypeOK
<1> QED
  BY <1>1, <1>2, <1>3, <1>4, <1>5, <1>6, <1>7, <1>8, <1>9, <1>10, <1>11, <1>12,
     <1>13, <1>14 DEF Next, ToolStep

\* A run that is over owes nothing.
LEMMA RunOver == ASSUME Gone PROVE RunInv' /\ RecordInv'
BY DEF Gone, RunInv, RecordInv

\* What people touch is known to have strayed.
LEMMA PeopleStray ==
  ASSUME CoreOK, People
  PROVE  /\ strayed \subseteq strayed'
         /\ \A g \in Managed \ strayed' : disk'[g] = disk[g] /\ side'[g] = side[g]
<1> USE DEF project, tool
<1>1. ASSUME NEW f \in Files, Edit(f)
      PROVE  \A g \in Managed \ strayed' : disk'[g] = disk[g] /\ side'[g] = side[g]
  BY <1>1 DEF Edit, CoreOK, Files
<1>2. ASSUME NEW f \in Managed, TakeOffer(f)
      PROVE  \A g \in Managed \ strayed' : disk'[g] = disk[g] /\ side'[g] = side[g]
  BY <1>2 DEF TakeOffer, CoreOK, Files
<1>3. strayed \subseteq strayed'
  BY DEF People, Edit, TakeOffer, EditGoMod
<1>4. CASE EditGoMod
  BY <1>4 DEF EditGoMod
<1> QED BY <1>1, <1>2, <1>3, <1>4 DEF People

LEMMA RunStep ==
  ASSUME KeptInv, TypeOK, RunInv, RecordInv, [Next]_vars
  PROVE  RunInv' /\ RecordInv'
<1> USE DEF project, tool
<1>a. /\ CoreOK /\ InPlace /\ TypeOK /\ RunInv /\ RecordInv
      /\ Managed \subseteq Files
  BY DEF KeptInv, Files
\* Starting a run.
<1>1. ASSUME NEW v \in Versions, LoadManifest(v) PROVE RunInv' /\ RecordInv'
  BY <1>1 DEF LoadManifest, RunInv, RecordInv
<1>2. ASSUME NEW v \in Versions, NEW p, NEW force, StartNew(v, p, force)
      PROVE  RunInv' /\ RecordInv'
  BY <1>2, <1>a DEF StartNew, RunInv, RecordInv
\* scratch new.
<1>3. ASSUME NEW f \in Files, Generate(f) PROVE RunInv' /\ RecordInv'
  <2>1. UNCHANGED bin /\ mem'.params = mem.params
    BY <1>3, <1>a DEF Generate, CoreOK, Manifest
  <2>2. ASSUME NEW g \in Managed \ todo' PROVE Touched(g)' \/ Noted(g)'
    <3>1. Want(g)' = Want(g)
      BY <2>1 DEF Want
    <3>2. CASE g = f
      BY <1>3, <1>a, <3>1, <3>2 DEF Generate, Noted, CoreOK, Manifest
    <3>3. CASE g # f
      <4>1. Touched(g) \/ Noted(g)
        BY <1>3, <1>a, <2>2, <3>3 DEF Generate, RunInv
      <4>2. Touched(g) => Touched(g)'
        BY <1>3, <3>3 DEF Generate, Touched
      <4>3. Noted(g) => Noted(g)'
        BY <1>3, <1>a, <3>1, <3>3 DEF Generate, Noted, CoreOK, Manifest
      <4> QED BY <4>1, <4>2, <4>3
    <3> QED BY <3>2, <3>3
  <2> QED BY <1>3, <1>a, <2>2 DEF Generate, RunInv, RecordInv
<1>4. CASE GenerateGoMod
  <2>1. /\ UNCHANGED <<disk, pc, op, bin, mem, last, strayed>> /\ pc = "files" /\ op = "new"
        /\ todo' = todo \ {GoMod}
    BY <1>4 DEF GenerateGoMod
  <2>2. ASSUME NEW g \in Managed \ todo' PROVE Touched(g)' \/ Noted(g)'
    BY <1>a, <2>1, <2>2, FilesAssumption DEF RunInv, Noted, Touched, Want, Files
  <2> QED BY <1>a, <2>1, <2>2 DEF RunInv, RecordInv
\* scratch update: a file is dealt with once and then left alone.
<1>5. ASSUME NEW f \in Managed, Classify(f) PROVE RunInv' /\ RecordInv'
  <2>1. CASE /\ disk[f] = Want(f)
             /\ mem' = [mem EXCEPT !.managed[f] = hashBytes(Want(f))]
             /\ report' = [report EXCEPT !.files[f] = "unchanged"]
             /\ todo' = todo \ {f} /\ strayed' = strayed \ {f}
             /\ UNCHANGED <<pc, job, disk, side, manifest, op, bin, last>>
    <3>1. mem'.params = mem.params
      BY <1>a, <2>1 DEF CoreOK, Manifest
    <3>2. mem'.managed[f] = hashBytes(Want(f)) /\ report'.files[f] = "unchanged"
      BY <1>a, <2>1 DEF CoreOK, TypeOK, Manifest
    <3>3. ASSUME NEW g \in Managed, g # f
          PROVE  mem'.managed[g] = mem.managed[g] /\ report'.files[g] = report.files[g]
      BY <1>a, <2>1, <3>3 DEF CoreOK, TypeOK, Manifest
    <3>4. ASSUME NEW g \in Managed \ todo' PROVE Touched(g)' \/ Dealt(g)'
      <4>1. Want(g)' = Want(g)
        BY <2>1, <3>1 DEF Want
      <4>2. CASE g = f
        BY <2>1, <3>2, <4>1, <4>2 DEF Dealt, Noted
      <4>3. CASE g # f
        <5>1. Touched(g) \/ Dealt(g)
          BY <1>5, <1>a, <2>1, <3>4, <4>3 DEF Classify, RunInv
        <5>2. Touched(g) => Touched(g)'
          BY <2>1, <4>3 DEF Touched
        <5> QED BY <2>1, <3>3, <4>1, <4>3, <5>1, <5>2 DEF Dealt, Noted, PutAside
      <4> QED BY <4>2, <4>3
    <3>5. RecordInv'
      BY <1>5, <1>a, <2>1, <3>2, <3>3 DEF Classify, RecordInv
    <3> QED BY <1>5, <1>a, <2>1, <3>4, <3>5 DEF Classify, RunInv
  <2>2. ASSUME NEW to, NEW status, Decide(f, to, status),
               UNCHANGED <<disk, side, manifest, op, bin, last>>,
               \/ to = "disk" /\ status \in {"created", "updated"}
               \/ to = "side" /\ status = "conflict" /\ PutAside(f)
        PROVE  RunInv' /\ RecordInv'
    <3>1. \A g : /\ Dealt(g)' <=> Dealt(g)
                 /\ PutAside(g)' <=> PutAside(g)
                 /\ Touched(g)' <=> Touched(g)
      BY <2>2 DEF Decide, Dealt, Noted, PutAside, Touched, Want
    <3>2. \A g \in Managed \ todo' : Touched(g)' \/ Dealt(g)'
      BY <1>5, <1>a, <2>2, <3>1 DEF Classify, Decide, RunInv
    <3>3. RecordInv'
      BY <1>a, <2>2 DEF Decide, RecordInv
    <3>4. /\ job'.file = f /\ job'.to = to /\ job'.status = status
          /\ f \in todo' /\ last' = "running" /\ op' = "update" /\ pc' = "write"
      BY <1>5, <1>a, <2>2 DEF Classify, Decide, RunInv
    <3> QED BY <2>2, <3>1, <3>2, <3>3, <3>4 DEF RunInv
  <2> QED BY <1>5, <2>1, <2>2 DEF Classify, PutAside
<1>6. CASE WriteFile
  <2>0. PICK f \in Managed : f = job.file
    BY <1>6, <1>a DEF WriteFile, InPlace
  <2>1. /\ f \in todo /\ op = "update"
        /\ \/ job.to = "disk" /\ job.status \in {"created", "updated"}
           \/ /\ job.to = "side" /\ job.status = "conflict"
              /\ Touched(f) \/ PutAside(f)
    BY <1>6, <1>a, <2>0 DEF WriteFile, InPlace, RunInv
  <2>2. UNCHANGED bin /\ mem'.params = mem.params
    BY <1>6, <1>a DEF WriteFile, CoreOK, Manifest
  <2>3. report'.files[f] = job.status
    BY <1>6, <1>a, <2>0, <2>1 DEF WriteFile, TypeOK
  <2>4. ASSUME NEW g \in Managed, g # f
        PROVE  /\ mem'.managed[g] = mem.managed[g] /\ report'.files[g] = report.files[g]
               /\ disk'[g] = disk[g] /\ side'[g] = side[g]
    BY <1>6, <1>a, <2>0, <2>4 DEF WriteFile, CoreOK, TypeOK, Manifest
  <2>5. ASSUME job.to = "disk" PROVE Dealt(f)'
    <3>1. disk'[f] = Want(f) /\ mem'.managed[f] = hashBytes(Want(f))
      BY <1>6, <1>a, <2>0, <2>5 DEF WriteFile, CoreOK, Manifest
    <3>2. Want(f)' = Want(f) /\ job.status \in {"created", "updated"}
      BY <2>1, <2>2, <2>5 DEF Want
    <3> QED BY <2>3, <3>1, <3>2 DEF Dealt, Noted
  <2>6. ASSUME job.to = "side" PROVE Touched(f)' \/ Dealt(f)'
    <3>1. side'[f] = Want(f) /\ UNCHANGED <<disk, mem, strayed>>
      BY <1>6, <1>a, <2>0, <2>6 DEF WriteFile, CoreOK
    <3>2. Want(f)' = Want(f) /\ job.status = "conflict" /\ (Touched(f) \/ PutAside(f))
      BY <2>1, <2>2, <2>6 DEF Want
    <3> QED BY <2>3, <3>1, <3>2 DEF Dealt, PutAside, Touched
  <2>7. ASSUME NEW g \in Managed \ todo' PROVE Touched(g)' \/ Dealt(g)'
    <3>1. CASE g = f
      BY <2>1, <2>5, <2>6, <3>1
    <3>2. CASE g # f
      <4>1. Touched(g) \/ Dealt(g)
        BY <1>6, <1>a, <2>0, <2>1, <2>7, <3>2 DEF WriteFile, RunInv
      <4>2. Want(g)' = Want(g)
        BY <2>2 DEF Want
      <4>3. Touched(g) => Touched(g)'
        BY <1>6, <2>0, <3>2 DEF WriteFile, Touched
      <4> QED BY <2>4, <3>2, <4>1, <4>2, <4>3 DEF Dealt, Noted, PutAside
    <3> QED BY <3>1, <3>2
  <2>8. RecordInv'
    <3>1. UNCHANGED <<manifest, op>> /\ todo' = todo \ {f}
      BY <1>6, <2>0 DEF WriteFile
    <3>2. ASSUME report'.files[f] = "conflict" PROVE mem'.managed[f] = manifest.managed[f]
      BY <1>6, <1>a, <2>0, <2>1, <2>3, <3>2 DEF WriteFile, RecordInv
    <3>3. \A g \in Managed : g \in todo' \/ report'.files[g] = "conflict" =>
             mem'.managed[g] = manifest.managed[g]
      BY <1>a, <2>1, <2>4, <3>1, <3>2 DEF RecordInv
    <3> QED BY <1>a, <2>1, <3>1, <3>3 DEF RecordInv
  <2> QED BY <1>6, <1>a, <2>1, <2>7, <2>8 DEF WriteFile, RunInv
<1>7. CASE bumpLibVersion
  <2>1. report'.files = report.files
    BY <1>7, <1>a DEF bumpLibVersion, Bumped, TypeOK
  <2>2. /\ UNCHANGED <<disk, side, manifest, op, bin, mem, todo, job, last, strayed>>
        /\ pc' = "save" /\ op = "update" /\ todo = {} /\ last = "running"
    BY <1>7, <1>a DEF bumpLibVersion, RunInv
  <2>3. \A g : /\ Dealt(g)' <=> Dealt(g)
               /\ Touched(g)' <=> Touched(g)
    BY <2>1, <2>2 DEF Dealt, Noted, PutAside, Touched, Want
  <2> QED BY <1>a, <2>1, <2>2, <2>3 DEF RunInv, RecordInv
\* Ending one.
<1>8. CASE Save \/ SaveTorn \/ Die \/ WriteTorn \/ GenerateGoModTorn
           \/ \E f \in Files : GenerateTorn(f)
  <2>1. Gone
    BY <1>8 DEF Save, SaveTorn, Die, WriteTorn, GenerateGoModTorn, GenerateTorn, Stopped
  <2> QED BY <2>1, RunOver
<1>9. CASE People
  <2>0. CountEdit
    BY <1>9 DEF People, Edit, TakeOffer, EditGoMod
  <2>1. /\ UNCHANGED <<pc, op, bin, mem, todo, job, report, manifest>>
        /\ pc # "idle" => EditsDuringRun /\ UNCHANGED last
        /\ strayed \subseteq strayed'
        /\ \A g \in Managed \ strayed' : disk'[g] = disk[g] /\ side'[g] = side[g]
    BY <1>9, <1>a, <2>0, PeopleStray DEF CountEdit
  <2>2. CASE pc = "idle"
    BY <1>a, <2>1, <2>2 DEF InPlace, RunInv, RecordInv
  <2>3. CASE pc # "idle"
    <3>1. ASSUME NEW g \in Managed
          PROVE  /\ Touched(g) \/ Noted(g) => Touched(g)' \/ Noted(g)'
                 /\ Touched(g) \/ Dealt(g) => Touched(g)' \/ Dealt(g)'
      BY <2>1, <2>3 DEF Touched, Noted, PutAside, Dealt, Want
    <3>2. ASSUME pc = "write", Touched(job.file) \/ PutAside(job.file)
          PROVE  (Touched(job.file) \/ PutAside(job.file))'
      <4>1. job.file \in Managed
        BY <1>a, <3>2 DEF InPlace
      <4> QED BY <2>1, <2>3, <3>2, <4>1 DEF Touched, PutAside, Want
    <3>3. RecordInv'
      BY <1>a, <2>1 DEF RecordInv
    <3>4. ASSUME NEW g \in Managed \ todo
          PROVE  /\ op = "new" => Touched(g)' \/ Noted(g)'
                 /\ op = "update" => Touched(g)' \/ Dealt(g)'
      <4>1. /\ op = "new" => Touched(g) \/ Noted(g)
            /\ op = "update" => Touched(g) \/ Dealt(g)
        BY <1>a, <2>3 DEF RunInv
      <4> QED BY <3>1, <4>1
    <3>5. ASSUME pc = "write"
          PROVE  /\ job.file \in todo
                 /\ \/ job.to = "disk" /\ job.status \in {"created", "updated"}
                    \/ /\ job.to = "side" /\ job.status = "conflict"
                       /\ (Touched(job.file) \/ PutAside(job.file))'
      <4>1. CASE job.to = "disk"
        BY <1>a, <3>5, <4>1 DEF RunInv
      <4>2. CASE job.to # "disk"
        <5>1. /\ job.file \in todo /\ job.to = "side" /\ job.status = "conflict"
              /\ Touched(job.file) \/ PutAside(job.file)
          BY <1>a, <3>5, <4>2 DEF RunInv
        <5> QED BY <3>2, <3>5, <5>1
      <4> QED BY <4>1, <4>2
    <3>6. /\ pc # "idle" => last' = "running"
          /\ pc = "save" => op = "update" /\ todo = {}
      BY <1>a, <2>1 DEF RunInv
    <3> QED BY <2>1, <3>3, <3>4, <3>5, <3>6 DEF RunInv, Touched, PutAside, Want
  <2> QED BY <2>2, <2>3
<1>10. CASE UNCHANGED vars
  BY <1>10, <1>a DEF vars, RunInv, RecordInv, Dealt, Noted, PutAside, Touched, Want
<1> QED
  BY <1>1, <1>2, <1>3, <1>4, <1>5, <1>6, <1>7, <1>8, <1>9, <1>10
     DEF Next, Start, ToolStep

LEMMA ConvergedStep ==
  ASSUME KeptInv, RunInv, ConvergedApart, [Next]_vars
  PROVE  ConvergedApart'
<1> USE DEF project, tool
<1>1. CASE Save /\ op = "update"
  <2>1. todo = {}
    BY <1>1 DEF Save, Saving, RunInv
  <2>2. /\ UNCHANGED <<disk, side, report>>
        /\ manifest' = [mem EXCEPT !.version = bin]
        /\ strayed \subseteq strayed'
    BY <1>1 DEF Save
  <2>3. /\ manifest'.params = mem.params /\ manifest'.version = bin
        /\ manifest'.managed = mem.managed
    BY <2>2 DEF KeptInv, CoreOK, Manifest
  <2>4. \A f \in Managed : /\ Touched(f)' \/ Dealt(f)
                          /\ Want(f) = Render(f, manifest'.params, manifest'.version)
    BY <1>1, <2>1, <2>2, <2>3 DEF RunInv, Want, Touched
  <2> QED BY <2>2, <2>3, <2>4 DEF ConvergedApart, Dealt, Noted, PutAside
<1>2. CASE ~(Save /\ op = "update")
  <2>1. CASE Start \/ ToolStep
    <3>1. last' # "updated"
      <4>1. CASE Start
        BY <4>1 DEF Start, LoadManifest, StartNew
      <4>2. CASE Save
        BY <1>2, <4>2 DEF Save, KeptInv, CoreOK
      <4>3. CASE Stopped
        BY <4>3 DEF Stopped
      <4>4. CASE pc # "idle" /\ UNCHANGED last
        BY <4>4 DEF RunInv
      <4> QED BY <2>1, <4>1, <4>2, <4>3, <4>4
              DEF ToolStep, Generate, GenerateGoMod, Classify, WriteFile, bumpLibVersion,
                  GenerateTorn, GenerateGoModTorn, WriteTorn, SaveTorn, Die
    <3> QED BY <3>1 DEF ConvergedApart
  <2>2. CASE People
    <3>1. last' # "updated"
      BY <2>2 DEF People, Edit, TakeOffer, EditGoMod, CountEdit, RunInv
    <3> QED BY <3>1 DEF ConvergedApart
  <2>3. CASE UNCHANGED vars
    BY <2>3 DEF vars, ConvergedApart, Touched
  <2> QED BY <2>1, <2>2, <2>3 DEF Next
<1> QED BY <1>1, <1>2

LEMMA SkewStep ==
  ASSUME KeptInv, TypeOK, SkewInv, [Next]_vars, [GoModLeft]_vars PROVE SkewInv'
<1> USE DEF project, tool
<1>1. CASE bumpLibVersion
  <2>1. /\ gomod \in [state : {"ok", "absent", "torn"}, require : Versions, replaced : BOOLEAN]
        /\ report \in [files : [Managed -> Statuses], bumped : BOOLEAN, warned : BOOLEAN]
    BY DEF TypeOK
  <2>2. ASSUME NEW b, Bumped(b) PROVE report'.warned = ~b
    BY <2>1, <2>2 DEF Bumped
  <2>3. \/ Bumped(FALSE)
        \/ /\ gomod' = [gomod EXCEPT !.require = bin] /\ UNCHANGED bin
           /\ Bumped(~gomod.replaced)
    BY <1>1 DEF bumpLibVersion
  <2>4. CASE Bumped(FALSE)
    BY <2>2, <2>4 DEF SkewInv
  <2>5. CASE /\ gomod' = [gomod EXCEPT !.require = bin] /\ UNCHANGED bin
             /\ Bumped(~gomod.replaced)
    <3>1. gomod'.require = bin' /\ gomod'.replaced = gomod.replaced
      BY <2>1, <2>5
    <3>2. CASE gomod.replaced
      BY <2>2, <2>5, <3>2 DEF SkewInv
    <3>3. CASE ~gomod.replaced
      BY <3>1, <3>3 DEF SkewInv
    <3> QED BY <3>2, <3>3
  <2> QED BY <2>3, <2>4, <2>5
<1>2. CASE ~bumpLibVersion
  <2>1. CASE Start \/ ToolStep
    <3>1. pc' # "save"
      BY <1>2, <2>1 DEF Start, ToolStep, LoadManifest, StartNew, Generate, GenerateGoMod,
         Classify, Decide, WriteFile, Save, SaveTorn, Die, WriteTorn, GenerateGoModTorn,
         GenerateTorn, Stopped, Gone
    <3> QED BY <3>1 DEF SkewInv
  <2>2. CASE People
    <3>1. UNCHANGED <<pc, bin, report>>
      BY <2>2 DEF People, Edit, TakeOffer, EditGoMod, CountEdit
    <3>2. pc = "save" => UNCHANGED gomod
      BY <3>1 DEF GoModLeft, vars
    <3> QED BY <3>1, <3>2 DEF SkewInv
  <2>3. CASE UNCHANGED vars
    BY <2>3 DEF vars, SkewInv
  <2> QED BY <2>1, <2>2, <2>3 DEF Next
<1> QED BY <1>1, <1>2

\* A run that is cut short leaves each file to the record, to an earlier run or
\* to itself.
LEMMA CutShortIsKnown ==
  ASSUME OriginInv, Stopped,
         NEW f \in Managed \ strayed',
         \/ disk'[f] = Torn
         \/ /\ f \notin strayed /\ disk'[f] = disk[f]
            /\ UNCHANGED manifest \/ ~Recorded(f)
  PROVE  Recorded(f)' \/ LeftBehind(f)'
<1>1. CASE disk'[f] = Torn
  BY <1>1 DEF LeftBehind
<1>2. CASE /\ f \notin strayed /\ disk'[f] = disk[f]
           /\ UNCHANGED manifest \/ ~Recorded(f)
  <2>1. Recorded(f) \/ LeftBehind(f) \/ disk[f] = Want(f)
    BY <1>2 DEF OriginInv
  <2>2. CASE Recorded(f)
    BY <1>2, <2>2 DEF Recorded
  <2>3. CASE LeftBehind(f)
    BY <1>2, <2>3 DEF LeftBehind, Stopped
  <2>4. CASE disk[f] = Want(f)
    <3> DEFINE a == <<op, mem.params, bin>>
    <3>1. a \in attempts' /\ disk'[f] = Render(f, a[2], a[3])
      BY <1>2, <2>4 DEF Stopped, Want
    <3> QED BY <3>1 DEF LeftBehind
  <2> QED BY <2>1, <2>2, <2>3, <2>4
<1> QED BY <1>1, <1>2

LEMMA OriginStep ==
  ASSUME KeptInv, RunInv, RecordInv, OriginInv, [Next]_vars PROVE OriginInv'
<1> USE DEF project, tool
<1>a. CoreOK /\ InPlace /\ RunInv /\ RecordInv /\ OriginInv
  BY DEF KeptInv
\* Ending a run.
<1>1. CASE Save
  <2>1. /\ UNCHANGED disk /\ strayed' = strayed \cup Conflicts
        /\ manifest' = [mem EXCEPT !.version = bin]
    BY <1>1 DEF Save
  <2>2. manifest'.managed = mem.managed
    BY <1>a, <2>1 DEF CoreOK, Manifest
  <2>3. manifest' \notin {Absent, Unreadable}
    BY <1>a, <2>1, ManifestAssumption DEF CoreOK, Manifest
  <2>4. ASSUME NEW f \in Managed \ strayed' PROVE Noted(f)
    <3>0. ~Touched(f)
      BY <2>1, <2>4 DEF Touched
    <3>1. CASE op = "new"
      <4>1. f \notin todo /\ pc # "idle"
        BY <1>1, <1>a, <3>1 DEF Save, Saving, RunInv
      <4> QED BY <1>a, <3>0, <3>1, <4>1 DEF RunInv
    <3>2. CASE op = "update"
      <4>1. Dealt(f)
        BY <1>1, <1>a, <3>0, <3>2 DEF Save, Saving, RunInv
      <4> QED BY <2>1, <2>4, <4>1 DEF Dealt, Conflicts
    <3> QED BY <1>a, <3>1, <3>2 DEF CoreOK
  <2> QED BY <2>1, <2>2, <2>3, <2>4 DEF OriginInv, Recorded, Noted
<1>2. CASE Die
  BY <1>2, <1>a, CutShortIsKnown DEF Die, OriginInv
\* A torn manifest may have lost any record: each file is what the run renders,
\* or one it has put aside, which was not in the record it began with either.
<1>3. CASE SaveTorn
  <2>1. /\ Stopped /\ UNCHANGED <<disk, strayed>>
        /\ pc # "idle" /\ todo \cap Managed = {}
    BY <1>3, <1>a, FilesAssumption DEF SaveTorn, Saving, RunInv, CoreOK
  <2>2. ASSUME NEW f \in Managed \ strayed' PROVE Recorded(f)' \/ LeftBehind(f)'
    <3>1. ~Touched(f) /\ f \notin todo
      BY <2>1, <2>2 DEF Touched
    <3>2. disk[f] = Want(f) \/ ~Recorded(f)
      <4>1. CASE op = "new"
        BY <1>a, <2>1, <3>1, <4>1 DEF RunInv, Noted
      <4>2. CASE op = "update"
        BY <1>a, <3>1, <4>2 DEF RunInv, RecordInv, Dealt, Noted, PutAside, Recorded
      <4> QED BY <1>a, <4>1, <4>2 DEF CoreOK
    <3>3. CASE disk[f] = Want(f)
      <4> DEFINE a == <<op, mem.params, bin>>
      <4>1. a \in attempts' /\ disk'[f] = Render(f, a[2], a[3])
        BY <2>1, <3>3 DEF Stopped, Want
      <4> QED BY <4>1 DEF LeftBehind
    <3>4. CASE ~Recorded(f)
      BY <1>a, <2>1, <2>2, <3>4, CutShortIsKnown
    <3> QED BY <3>2, <3>3, <3>4
  <2> QED BY <2>2 DEF OriginInv
<1>4. CASE GenerateGoModTorn
  BY <1>4, <1>a, CutShortIsKnown DEF GenerateGoModTorn, OriginInv
<1>t. ASSUME Stopped, UNCHANGED manifest,
             \A g \in Managed \ strayed' :
               disk'[g] = Torn \/ (g \notin strayed /\ disk'[g] = disk[g])
      PROVE  OriginInv'
  BY <1>t, <1>a, CutShortIsKnown DEF OriginInv
<1>5. ASSUME NEW f \in Files, GenerateTorn(f) PROVE OriginInv'
  <2>1. /\ Stopped /\ UNCHANGED manifest /\ strayed' = strayed \ {f}
        /\ disk' = [disk EXCEPT ![f] = Torn]
    BY <1>5 DEF GenerateTorn
  <2>2. \A g \in Managed \ strayed' :
          disk'[g] = Torn \/ (g \notin strayed /\ disk'[g] = disk[g])
    BY <1>a, <2>1 DEF CoreOK, Files
  <2> QED BY <2>1, <2>2, <1>t
<1>6. CASE WriteTorn
  <2>1. Stopped /\ UNCHANGED manifest
    BY <1>6 DEF WriteTorn
  <2>2. \A g \in Managed \ strayed' :
          disk'[g] = Torn \/ (g \notin strayed /\ disk'[g] = disk[g])
    BY <1>6, <1>a DEF WriteTorn, CoreOK, Files
  <2> QED BY <2>1, <2>2, <1>t
\* What is running writes nothing but what it renders, and moves nothing else.
<1>w. ASSUME UNCHANGED <<manifest, attempts, bin>>, mem'.params = mem.params,
             pc # "idle", pc' # "idle",
             \A f \in Managed \ strayed' :
               \/ f \notin strayed /\ disk'[f] = disk[f]
               \/ disk'[f] = Want(f)
      PROVE  OriginInv'
  <2> SUFFICES ASSUME NEW f \in Managed \ strayed'
               PROVE  Recorded(f)' \/ LeftBehind(f)' \/ disk'[f] = Want(f)'
    BY <1>w DEF OriginInv
  <2>1. Want(f)' = Want(f)
    BY <1>w DEF Want
  <2>2. CASE disk'[f] = Want(f)
    BY <2>1, <2>2
  <2>3. CASE f \notin strayed /\ disk'[f] = disk[f]
    BY <1>w, <1>a, <2>1, <2>3 DEF OriginInv, Recorded, LeftBehind
  <2> QED BY <1>w, <2>2, <2>3
<1>7. ASSUME NEW f \in Files, Generate(f) PROVE OriginInv'
  <2>1. mem'.params = mem.params
    BY <1>7, <1>a DEF Generate, CoreOK, Manifest
  <2>2. \A g \in Managed \ strayed' :
          \/ g \notin strayed /\ disk'[g] = disk[g]
          \/ disk'[g] = Want(g)
    BY <1>7, <1>a DEF Generate, CoreOK, Files
  <2> QED BY <1>7, <1>w, <2>1, <2>2 DEF Generate
<1>8. ASSUME NEW f \in Managed, Classify(f) PROVE OriginInv'
  <2>1. mem'.params = mem.params
    BY <1>8, <1>a DEF Classify, Decide, CoreOK, Manifest
  <2>2. /\ UNCHANGED <<disk, manifest, attempts, bin>> /\ pc # "idle" /\ pc' # "idle"
        /\ strayed' = strayed \/ (strayed' = strayed \ {f} /\ disk[f] = Want(f))
    BY <1>8 DEF Classify, Decide
  <2>3. \A g \in Managed \ strayed' :
          \/ g \notin strayed /\ disk'[g] = disk[g]
          \/ disk'[g] = Want(g)
    BY <2>2
  <2> QED BY <1>w, <2>1, <2>2, <2>3
<1>9. CASE WriteFile
  <2>1. mem'.params = mem.params
    BY <1>9, <1>a DEF WriteFile, CoreOK, Manifest
  <2>2. \A g \in Managed \ strayed' :
          \/ g \notin strayed /\ disk'[g] = disk[g]
          \/ disk'[g] = Want(g)
    BY <1>9, <1>a DEF WriteFile, CoreOK, Files
  <2> QED BY <1>9, <1>w, <2>1, <2>2 DEF WriteFile
<1>10. CASE GenerateGoMod \/ bumpLibVersion
  BY <1>10, <1>w DEF GenerateGoMod, bumpLibVersion
\* Nothing runs.
<1>11. CASE Start
  <2>1. pc = "idle" /\ UNCHANGED <<disk, manifest, attempts, strayed>>
    BY <1>11 DEF Start, LoadManifest, StartNew, CountRun
  <2> QED BY <1>a, <2>1 DEF OriginInv, Recorded, LeftBehind
<1>12. CASE People
  <2>1. UNCHANGED <<manifest, attempts, tool>>
    BY <1>12 DEF People, Edit, TakeOffer, EditGoMod, CountEdit
  <2>2. strayed \subseteq strayed' /\ \A f \in Managed \ strayed' : disk'[f] = disk[f]
    BY <1>12, <1>a, PeopleStray
  <2> QED BY <1>a, <2>1, <2>2 DEF OriginInv, Recorded, LeftBehind, Want
<1>13. CASE UNCHANGED vars
  BY <1>13, <1>a DEF vars, OriginInv, Recorded, LeftBehind, Want
<1> QED
  BY <1>1, <1>2, <1>3, <1>4, <1>5, <1>6, <1>7, <1>8, <1>9, <1>10, <1>11, <1>12, <1>13
     DEF Next, ToolStep

-----------------------------------------------------------------------------
\* Where a run is, what it has done of what it reports, and where each file comes
\* from, through every history of runs, crashes and edits.
THEOREM Updates == Spec => []UpdateInv
<1>1. ASSUME Init PROVE TypeOK /\ ConvergedApart /\ RunInv /\ RecordInv /\ OriginInv
  <2>1. CoreOK
    BY <1>1, FreshManifests, VersionsAssumption, SchemaAssumption
       DEF Init, CoreOK, Manifest, NoManaged, Params
  <2>2. TypeOK
    BY <1>1, <2>1, VersionsAssumption DEF Init, TypeOK, NoReport, Statuses
  <2> QED BY <1>1, <2>2 DEF Init, ConvergedApart, RunInv, RecordInv, OriginInv, Files
<1>2. KeptInv /\ KeptInv' /\ UpdateInv /\ [Next]_vars => UpdateInv'
  BY TypeStep, ConvergedStep, RunStep, OriginStep DEF UpdateInv
<1>3. Spec => []KeptInv
  BY Kept
<1>4. KeptInv /\ Init => UpdateInv
  BY <1>1 DEF UpdateInv
<1> QED BY <1>2, <1>3, <1>4, PTL DEF Spec

\* The project, the tool and the histories keep their type.
THEOREM UpdateTypeCorrect == Spec => []TypeOK
BY Updates, PTL DEF UpdateInv

\* After a completed update every managed file is current and recorded, whatever
\* runs, crashes and edits came before, unless it was reported as a conflict or
\* somebody has touched it since it was written, be it during the run.
THEOREM UntouchedConverge ==
  Spec => [](last = "updated" =>
               \A f \in Managed \ strayed :
                 LET want == Render(f, manifest.params, manifest.version) IN
                 \/ /\ disk[f] = want
                    /\ manifest.managed[f] = hashBytes(want)
                 \/ report.files[f] = "conflict" /\ side[f] = want)
<1>1. UpdateInv => (last = "updated" =>
               \A f \in Managed \ strayed :
                 LET want == Render(f, manifest.params, manifest.version) IN
                 \/ /\ disk[f] = want
                    /\ manifest.managed[f] = hashBytes(want)
                 \/ report.files[f] = "conflict" /\ side[f] = want)
  BY DEF UpdateInv, ConvergedApart, Touched
<1> QED BY <1>1, Updates, PTL

\* After a completed update that nobody interfered with, every managed file is
\* current and recorded, or a conflict with the new version beside it, whatever
\* runs, crashes and edits came before.
THEOREM UpdatesConverge == ASSUME ~EditsDuringRun PROVE Spec => []Converged
<1>1. UpdateInv => Converged
  BY DEF UpdateInv, ConvergedApart, Converged, Touched
<1> QED BY <1>1, Updates, PTL

\* What SkewNeverSilent says of one step.
SkewByStep == pc = "save" /\ last' = "updated" =>
                (gomod.require = bin /\ ~gomod.replaced) \/ report.warned

\* The manifest never overtakes the library without a warning, unless somebody
\* edits go.mod between the bump and the end of the run.
THEOREM OnlyTheBumpIsExposed == Spec /\ [][GoModLeft]_vars => SkewNeverSilent
<1>1. Init => SkewInv
  BY DEF Init, SkewInv
<1>2. KeptInv /\ TypeOK /\ SkewInv /\ [Next]_vars /\ [GoModLeft]_vars => SkewInv'
  BY SkewStep
<1>3. SkewInv /\ [Next]_vars => [SkewByStep]_vars
  BY DEF SkewInv, SkewByStep
<1>4. Spec => [](KeptInv /\ TypeOK)
  BY Updates, PTL DEF UpdateInv
<1> QED BY <1>1, <1>2, <1>3, <1>4, PTL DEF Spec, SkewNeverSilent, SkewByStep

\* The manifest never overtakes the library without a warning.
THEOREM SkewIsReported == ASSUME ~EditsDuringRun PROVE Spec => SkewNeverSilent
<1>1. [Next]_vars => [GoModLeft]_vars
  <2> SUFFICES ASSUME Next PROVE GoModLeft
    BY DEF vars
  <2>1. CASE People
    BY <2>1 DEF People, Edit, TakeOffer, EditGoMod, CountEdit, GoModLeft
  <2>2. CASE Start \/ ToolStep
    BY <2>2 DEF Start, ToolStep, LoadManifest, StartNew, CountRun, Generate, GenerateTorn,
       GenerateGoMod, GenerateGoModTorn, Classify, WriteFile, WriteTorn, bumpLibVersion,
       Save, Saving, SaveTorn, Die, Stopped, Gone, GoModLeft, project
  <2> QED BY <2>1, <2>2 DEF Next
<1> QED BY <1>1, OnlyTheBumpIsExposed, PTL DEF Spec

\* What RetryHeals says of one step.
HealsByStep ==
  /\ pc = "save" /\ last' = "updated"
  /\ attempts \subseteq {"new", "update"} \X {mem.params} \X {bin}
  => \A f \in Managed \ strayed : Foreign(f) <=> disk[f] = Torn

\* A run that was cut short is sorted out by repeating it: of the files nobody has
\* touched it reports as conflicts those that were torn and no other, whatever is
\* left of the manifest and whatever people do to other files in the meantime.
THEOREM RetriesHeal == Spec => RetryHeals
<1>1. ASSUME UpdateInv, pc = "save",
             attempts \subseteq {"new", "update"} \X {mem.params} \X {bin},
             NEW f \in Managed \ strayed
      PROVE  Foreign(f) <=> disk[f] = Torn
  <2>1. op = "update" /\ f \notin todo /\ Dealt(f)
    BY <1>1 DEF UpdateInv, RunInv, Touched
  \* A conflict is torn: nothing but an attempt at the same rendering, or a torn
  \* write, accounts for a file the manifest has not recorded.
  <2>2. ASSUME Foreign(f) PROVE disk[f] = Torn
    <3>1. PutAside(f) /\ mem.managed[f] = manifest.managed[f]
      BY <1>1, <2>1, <2>2 DEF UpdateInv, RecordInv, Dealt, Foreign
    <3>2. LeftBehind(f)
      BY <1>1, <3>1 DEF UpdateInv, OriginInv, Recorded, PutAside
    <3>3. (\E a \in attempts : disk[f] = Render(f, a[2], a[3])) => disk[f] = Want(f)
      BY <1>1 DEF Want
    <3> QED BY <3>1, <3>2, <3>3 DEF LeftBehind, PutAside
  \* What is torn is no rendering, so it was not dealt with in any other way.
  <2>3. ASSUME disk[f] = Torn PROVE Foreign(f)
    <3>1. Want(f) # Torn
      <4>1. f \in Files /\ mem.params \in Params /\ bin \in Versions
        BY <1>1 DEF UpdateInv, KeptInv, CoreOK, Manifest, Files
      <4> QED BY <4>1, ContentsAssumption DEF Want, Render
    <3> QED BY <1>1, <2>1, <2>3, <3>1 DEF Dealt, Noted, Foreign
  <2> QED BY <2>2, <2>3
<1>2. UpdateInv /\ [Next]_vars => [HealsByStep]_vars
  BY <1>1 DEF HealsByStep
<1> QED BY <1>2, Updates, PTL DEF Spec, RetryHeals, HealsByStep
=============================================================================
