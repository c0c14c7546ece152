--------------------------- MODULE ScratchUpdate ---------------------------
(***************************************************************************)
(* A generated project over its life: `scratch new` (generator.Generate),  *)
(* `scratch update` (generator.Update) by binaries of several versions,    *)
(* the manifest .scratch.yaml that ties them together, and the people who  *)
(* edit the project in between.                                            *)
(*                                                                         *)
(* A run of the tool is a sequence of file-system steps with nothing to    *)
(* undo them; a write may fail or the process may be killed at each, and   *)
(* os.WriteFile truncates before it writes, so what is left may be torn.   *)
(* The manifest is read at the start of an update and saved at its end.    *)
(*                                                                         *)
(* What a file holds is a member of Contents; a SHA-256 hash is modelled   *)
(* as an injective tag on what it is a hash of.                            *)
(***************************************************************************)
EXTENDS Naturals, FiniteSets

CONSTANTS
  Managed,        \* files of the tooling, which update rewrites
  App,            \* files of the application, which only new writes
  Contents,       \* what a file can hold
  Torn,           \* what a write cut short leaves
  HandMade,       \* what people write
  Versions,       \* versions of the binary: 0 is a build without a release tag
  Template,       \* Template[f][p][v]: what f is rendered to
  CurrentSchema,  \* the manifest schema these binaries understand
  Absent,         \* no such file
  Unreadable,     \* a manifest that is not YAML
  NoHash,         \* no entry in Manifest.Managed
  EditsDuringRun, \* people edit while the tool runs
  MaxRuns, MaxEdits, MaxFailures   \* bounds for TLC

Files == Managed \cup App
GoMod == "go.mod"   \* rendered and written with the files, but not one of them here

\* ManifestParams without lib_replace, with it, or incomplete (torn manifest).
Params == {"plain", "local", "lost"}
Semver(v) == v > 0

ASSUME FilesAssumption == Managed \cap App = {} /\ GoMod \notin Files
ASSUME ContentsAssumption ==
  /\ Torn \in Contents /\ HandMade \subseteq Contents /\ Absent \notin Contents
  /\ Template \in [Files -> [Params -> [Versions -> Contents]]]
  /\ \A f \in Files, p \in Params, v \in Versions : Template[f][p][v] # Torn
ASSUME VersionsAssumption == Versions \subseteq Nat /\ 0 \in Versions
ASSUME SchemaAssumption == CurrentSchema \in Nat \ {0}

hashBytes(c) == <<"sha256", c>>
Hashes == {hashBytes(c) : c \in Contents}
ASSUME HashAssumption == NoHash \notin Hashes

VARIABLES
  disk,      \* the content of each file, or Absent
  side,      \* the content of <file>.scratch-new, or Absent
  manifest,  \* .scratch.yaml: Absent, Unreadable or a Manifest
  gomod,     \* go.mod: whether it is there and whole, require, replace
  pc,        \* where the running tool is, or "idle"
  op,        \* what it runs: "new" or "update"
  bin,       \* its version
  mem,       \* its Manifest in memory
  todo,      \* the rendered files it has not dealt with
  job,       \* the file it is about to write, where, and the status it will get
  report,    \* UpdateReport: the status of each file, LibBumped, a warning
  last,      \* how the latest run ended; "stale" once somebody edited since
  strayed,   \* history: files that people have touched since the tool wrote
             \* them, whole or torn, or that it has declared somebody's own
  attempts,  \* history: command, parameters and version of the runs cut short
             \* since the latest complete one
  used       \* how much of MaxRuns, MaxEdits, MaxFailures is used up

project == <<disk, side, manifest, gomod>>
tool == <<pc, op, bin, mem, todo, job, report>>
vars == <<project, tool, last, strayed, attempts, used>>

Statuses == {"none", "created", "updated", "unchanged", "conflict"}
NoReport == [files |-> [f \in Managed |-> "none"], bumped |-> FALSE, warned |-> FALSE]
NoJob == [file |-> "none", to |-> "disk", status |-> "none"]

Manifest == [schema : Nat, version : Versions, params : Params,
             managed : [Managed -> Hashes \cup {NoHash}]]
ASSUME ManifestAssumption == Absent \notin Manifest /\ Unreadable \notin Manifest
NoManaged == [f \in Managed |-> NoHash]

NewManifest(v, p) == [schema |-> CurrentSchema, version |-> v, params |-> p,
                      managed |-> NoManaged]

\* What yaml.Unmarshal makes of an empty file, or of the comments alone.
ZeroManifest == [schema |-> 0, version |-> 0, params |-> "lost", managed |-> NoManaged]

\* What is left of manifest m when writing it is cut short: nothing that can be
\* parsed, nothing at all, half of the parameters, or some of the hashes.
CutShort(m, p, kept) == [schema |-> m.schema, version |-> m.version, params |-> p,
  managed |-> [f \in Managed |-> IF f \in kept THEN m.managed[f] ELSE NoHash]]

TornManifests(m) == {Unreadable, ZeroManifest, CutShort(m, "lost", {})}
                      \cup {CutShort(m, m.params, kept) : kept \in SUBSET Managed}

\* Rendering is a pure function of the parameters and the version ...
Render(f, p, v) == Template[f][p][v]

\* ... which ToParams takes from the manifest and from the running binary.
Want(f) == Render(f, mem.params, bin)

\* The target directory has an entry.
NonEmpty == \/ manifest # Absent \/ gomod.state # "absent"
            \/ \E f \in Files : disk[f] # Absent
            \/ \E f \in Managed : side[f] # Absent

Init ==
  /\ disk = [f \in Files |-> Absent]
  /\ side = [f \in Managed |-> Absent]
  /\ \/ manifest = Absent
     \/ \E v \in Versions :      \* the project of a newer, incompatible scratch
          manifest = [schema |-> CurrentSchema + 1, version |-> v,
                      params |-> "plain", managed |-> NoManaged]
  /\ gomod = [state |-> "absent", require |-> 0, replaced |-> FALSE]
  /\ pc = "idle" /\ op = "new" /\ bin = 0 /\ mem = ZeroManifest
  /\ todo = {} /\ job = NoJob
  /\ report = NoReport
  /\ last = "stale" /\ strayed = Files /\ attempts = {}
  /\ used = [runs |-> 0, edits |-> 0, failures |-> 0]

-----------------------------------------------------------------------------
(* Starting and ending a run. *)

CountRun == /\ pc = "idle"
            /\ used.runs < MaxRuns
            /\ used' = [used EXCEPT !.runs = @ + 1]

\* scratch new: into an empty directory, or anywhere with --force.
StartNew(v, p, force) ==
  /\ CountRun
  /\ NonEmpty => force
  /\ pc' = "files" /\ op' = "new" /\ bin' = v
  /\ mem' = NewManifest(v, p)
  /\ todo' = Files \cup {GoMod}
  /\ report' = NoReport
  /\ last' = "running"
  /\ UNCHANGED <<project, job, strayed, attempts>>

\* scratch update: LoadManifest refuses a missing manifest, one that is not
\* YAML and one of a newer schema; anything else is a manifest.
LoadManifest(v) ==
  /\ CountRun
  /\ manifest \notin {Absent, Unreadable}
  /\ manifest.schema <= CurrentSchema
  /\ pc' = "files" /\ op' = "update" /\ bin' = v
  /\ mem' = manifest
  /\ todo' = Managed
  /\ report' = NoReport
  /\ last' = "running"
  /\ UNCHANGED <<project, job, strayed, attempts>>

\* The process is gone and its memory with it.
Gone == /\ pc' = "idle" /\ op' = "new" /\ bin' = 0
        /\ mem' = ZeroManifest /\ todo' = {} /\ job' = NoJob

\* return err, a full disk, or a kill: whatever has been written stays.
Stopped == /\ Gone
           /\ report' = NoReport
           /\ last' = "failed"
           /\ attempts' = attempts \cup {<<op, mem.params, bin>>}

CountFailure == /\ used.failures < MaxFailures
                /\ used' = [used EXCEPT !.failures = @ + 1]

Die == /\ pc # "idle"
       /\ CountFailure
       /\ Stopped
       /\ UNCHANGED <<project, strayed>>

-----------------------------------------------------------------------------
(* scratch new. *)

\* os.WriteFile of one rendered file; the hash of a managed one is noted.
Generate(f) ==
  /\ pc = "files" /\ op = "new" /\ f \in todo \cap Files
  /\ disk' = [disk EXCEPT ![f] = Want(f)]
  /\ mem' = IF f \in Managed
            THEN [mem EXCEPT !.managed[f] = hashBytes(Want(f))] ELSE mem
  /\ todo' = todo \ {f}
  /\ strayed' = strayed \ {f}
  /\ UNCHANGED <<side, manifest, gomod, pc, op, bin, job, report, last, attempts, used>>

\* go.mod is one of the rendered files: a build without a release tag requires
\* a placeholder version.
GenerateGoMod ==
  /\ pc = "files" /\ op = "new" /\ GoMod \in todo
  /\ gomod' = [state |-> "ok", require |-> bin, replaced |-> mem.params = "local"]
  /\ todo' = todo \ {GoMod}
  /\ report' = [report EXCEPT !.warned = ~Semver(bin) /\ mem.params = "plain"]
  /\ UNCHANGED <<disk, side, manifest, pc, op, bin, mem, job, last, strayed, attempts, used>>

GenerateGoModTorn ==
  /\ pc = "files" /\ op = "new" /\ GoMod \in todo
  /\ CountFailure
  /\ gomod' = [state |-> "torn", require |-> 0, replaced |-> FALSE]
  /\ Stopped
  /\ UNCHANGED <<disk, side, manifest, strayed>>

GenerateTorn(f) ==
  /\ pc = "files" /\ op = "new" /\ f \in todo \cap Files
  /\ CountFailure
  /\ disk' = [disk EXCEPT ![f] = Torn]
  /\ strayed' = strayed \ {f}
  /\ Stopped
  /\ UNCHANGED <<side, manifest, gomod>>

-----------------------------------------------------------------------------
(* scratch update, one managed file at a time, in any order. *)

\* os.ReadFile and the switch: what is to become of f.
Decide(f, to, status) ==
  /\ job' = [file |-> f, to |-> to, status |-> status]
  /\ pc' = "write"
  /\ UNCHANGED <<mem, todo, report, strayed>>

\* Mutant: a file that is already as it should be is not noted.
ClassifyUnnoted(f) ==
  /\ pc = "files" /\ op = "update" /\ f \in todo
  /\ \/ /\ disk[f] = Absent
        /\ Decide(f, "disk", "created")
     \/ /\ disk[f] = Want(f)
        /\ report' = [report EXCEPT !.files[f] = "unchanged"]
        /\ todo' = todo \ {f}
        /\ strayed' = strayed \ {f}
        /\ UNCHANGED <<pc, job, mem>>
     \/ /\ disk[f] \notin {Absent, Want(f)}
        /\ mem.managed[f] = hashBytes(disk[f])
        /\ Decide(f, "disk", "updated")
     \/ /\ disk[f] \notin {Absent, Want(f)}
        /\ mem.managed[f] # hashBytes(disk[f])
        /\ Decide(f, "side", "conflict")
  /\ UNCHANGED <<project, op, bin, last, attempts, used>>

\* Mutant: only the recorded hash is looked at, not the new one.
ClassifyByRecord(f) ==
  /\ pc = "files" /\ op = "update" /\ f \in todo
  /\ \/ disk[f] = Absent /\ Decide(f, "disk", "created")
     \/ /\ disk[f] # Absent
        /\ IF mem.managed[f] = hashBytes(disk[f]) THEN Decide(f, "disk", "updated")
           ELSE Decide(f, "side", "conflict")
  /\ UNCHANGED <<project, op, bin, last, attempts, used>>

Classify(f) ==
  /\ pc = "files" /\ op = "update" /\ f \in todo
  /\ \/ /\ disk[f] = Absent
        /\ Decide(f, "disk", "created")
     \/ /\ disk[f] = Want(f)
        /\ mem' = [mem EXCEPT !.managed[f] = hashBytes(Want(f))]
        /\ report' = [report EXCEPT !.files[f] = "unchanged"]
        /\ todo' = todo \ {f}
        /\ strayed' = strayed \ {f}
        /\ UNCHANGED <<pc, job>>
     \/ /\ disk[f] \notin {Absent, Want(f)}
        /\ mem.managed[f] = hashBytes(disk[f])
        /\ Decide(f, "disk", "updated")
     \/ /\ disk[f] \notin {Absent, Want(f)}
        /\ mem.managed[f] # hashBytes(disk[f])
        /\ Decide(f, "side", "conflict")
  /\ UNCHANGED <<project, op, bin, last, attempts, used>>

\* Mutant: on a conflict the hash of what is there is noted.
WriteFileNoted ==
  /\ pc = "write"
  /\ LET f == job.file IN
     /\ \/ /\ job.to = "disk"
           /\ disk' = [disk EXCEPT ![f] = Want(f)]
           /\ mem' = [mem EXCEPT !.managed[f] = hashBytes(Want(f))]
           /\ strayed' = strayed \ {f}
           /\ UNCHANGED side
        \/ /\ job.to = "side"
           /\ side' = [side EXCEPT ![f] = Want(f)]
           /\ mem' = [mem EXCEPT !.managed[f] = hashBytes(disk[f])]
           /\ UNCHANGED <<disk, strayed>>
     /\ report' = [report EXCEPT !.files[f] = job.status]
     /\ todo' = todo \ {f}
  /\ pc' = "files"
  /\ UNCHANGED <<manifest, gomod, op, bin, job, last, attempts, used>>

\* Mutant: the report says where the file went instead of what became of it.
WriteFileWhere ==
  /\ pc = "write"
  /\ LET f == job.file IN
     /\ \/ /\ job.to = "disk"
           /\ disk' = [disk EXCEPT ![f] = Want(f)]
           /\ mem' = [mem EXCEPT !.managed[f] = hashBytes(Want(f))]
           /\ strayed' = strayed \ {f}
           /\ UNCHANGED side
        \/ /\ job.to = "side"
           /\ side' = [side EXCEPT ![f] = Want(f)]
           /\ UNCHANGED <<disk, mem, strayed>>
     /\ report' = [report EXCEPT !.files[f] = job.to]
     /\ todo' = todo \ {f}
  /\ pc' = "files"
  /\ UNCHANGED <<manifest, gomod, op, bin, job, last, attempts, used>>

\* writeFile, and what follows it in the loop: the hash is noted unless the
\* content went to the side.
WriteFile ==
  /\ pc = "write"
  /\ LET f == job.file IN
     /\ \/ /\ job.to = "disk"
           /\ disk' = [disk EXCEPT ![f] = Want(f)]
           /\ mem' = [mem EXCEPT !.managed[f] = hashBytes(Want(f))]
           /\ strayed' = strayed \ {f}
           /\ UNCHANGED side
        \/ /\ job.to = "side"
           /\ side' = [side EXCEPT ![f] = Want(f)]
           /\ UNCHANGED <<disk, mem, strayed>>
     /\ report' = [report EXCEPT !.files[f] = job.status]
     /\ todo' = todo \ {f}
  /\ pc' = "files"
  /\ UNCHANGED <<manifest, gomod, op, bin, job, last, attempts, used>>

WriteTorn ==
  /\ pc = "write"
  /\ CountFailure
  /\ LET f == job.file IN
     \/ /\ job.to = "disk"
        /\ disk' = [disk EXCEPT ![f] = Torn]
        /\ strayed' = strayed \ {f}
        /\ UNCHANGED side
     \/ /\ job.to = "side"
        /\ side' = [side EXCEPT ![f] = Torn]
        /\ UNCHANGED <<disk, strayed>>
  /\ Stopped
  /\ UNCHANGED <<manifest, gomod>>

\* bumpLibVersion.  What it cannot do becomes a warning, never an error.  A torn
\* go.mod may or may not parse.
Bumped(b) == report' = [report EXCEPT !.bumped = b, !.warned = ~b]

\* Mutant: the replace directive is not looked at.
bumpUnderReplace ==
  /\ pc = "files" /\ op = "update" /\ todo = {}
  /\ IF Semver(bin) /\ gomod.state # "absent"
     THEN gomod' = [gomod EXCEPT !.require = bin] /\ Bumped(TRUE)
     ELSE Bumped(FALSE) /\ UNCHANGED gomod
  /\ pc' = "save"
  /\ UNCHANGED <<disk, side, manifest, op, bin, mem, todo, job, last, strayed, attempts, used>>

bumpLibVersion ==
  /\ pc = "files" /\ op = "update" /\ todo = {}
  /\ \/ /\ ~Semver(bin) \/ gomod.state # "ok"
        /\ Bumped(FALSE)
        /\ UNCHANGED <<gomod, used>>
     \/ /\ Semver(bin) /\ gomod.state # "absent"
        /\ gomod' = [gomod EXCEPT !.require = bin]
        /\ Bumped(~gomod.replaced)
        /\ UNCHANGED used
     \/ /\ Semver(bin) /\ gomod.state # "absent"
        /\ CountFailure
        /\ \E r \in {FALSE, gomod.replaced} :
             gomod' = [gomod EXCEPT !.state = "torn", !.replaced = r]
        /\ Bumped(FALSE)
  /\ pc' = "save"
  /\ UNCHANGED <<disk, side, manifest, op, bin, mem, todo, job, last, strayed, attempts>>

-----------------------------------------------------------------------------
(* Manifest.Save, the last step of both. *)

Saving == \/ pc = "save"
          \/ pc = "files" /\ op = "new" /\ todo = {}

\* What the run has declared to be somebody's own.
Conflicts == {f \in Managed : report.files[f] = "conflict"}

\* Mutant: the hashes are taken from the disk when the manifest is saved.
SaveFromDisk ==
  /\ Saving
  /\ manifest' = [mem EXCEPT !.version = bin,
                     !.managed = [f \in Managed |-> hashBytes(disk[f])]]
  /\ Gone
  /\ last' = IF op = "new" THEN "generated" ELSE "updated"
  /\ attempts' = {}
  /\ strayed' = strayed \cup Conflicts
  /\ UNCHANGED <<disk, side, gomod, report, used>>

Save ==
  /\ Saving
  /\ manifest' = [mem EXCEPT !.version = bin]
  /\ Gone
  /\ last' = IF op = "new" THEN "generated" ELSE "updated"
  /\ attempts' = {}
  /\ strayed' = strayed \cup Conflicts
  /\ UNCHANGED <<disk, side, gomod, report, used>>

SaveTorn ==
  /\ Saving
  /\ CountFailure
  /\ manifest' \in TornManifests([mem EXCEPT !.version = bin])
  /\ Stopped
  /\ UNCHANGED <<disk, side, gomod, strayed>>

-----------------------------------------------------------------------------
(* The people who work on the project. *)

CountEdit == /\ pc = "idle" \/ EditsDuringRun
             /\ used.edits < MaxEdits
             /\ used' = [used EXCEPT !.edits = @ + 1]
             /\ last' = IF pc = "idle" THEN "stale" ELSE last
             /\ UNCHANGED <<tool, manifest, attempts>>

\* Write something of their own, or delete the file.
Edit(f) ==
  /\ CountEdit
  /\ \E c \in HandMade \cup {Absent} : c # disk[f] /\ disk' = [disk EXCEPT ![f] = c]
  /\ strayed' = strayed \cup {f}
  /\ UNCHANGED <<side, gomod>>

\* Accept what update put aside.
TakeOffer(f) ==
  /\ CountEdit
  /\ side[f] # Absent
  /\ disk' = [disk EXCEPT ![f] = side[f]]
  /\ side' = [side EXCEPT ![f] = Absent]
  /\ strayed' = strayed \cup {f}
  /\ UNCHANGED gomod

\* Add or drop the replace directive, require another version, delete go.mod.
EditGoMod ==
  /\ CountEdit
  /\ gomod.state # "absent"
  /\ \/ \E v \in Versions, r \in BOOLEAN :
          gomod' = [state |-> "ok", require |-> v, replaced |-> r]
     \/ gomod' = [state |-> "absent", require |-> 0, replaced |-> FALSE]
  /\ UNCHANGED <<disk, side, strayed>>

-----------------------------------------------------------------------------
ToolStep == \/ \E f \in Files : Generate(f) \/ GenerateTorn(f)
            \/ GenerateGoMod \/ GenerateGoModTorn
            \/ \E f \in Managed : Classify(f)
            \/ WriteFile \/ WriteTorn
            \/ bumpLibVersion
            \/ Save \/ SaveTorn \/ Die

Start == \E v \in Versions :
           \/ LoadManifest(v)
           \/ \E p \in {"plain", "local"}, force \in BOOLEAN : StartNew(v, p, force)

People == \/ \E f \in Files : Edit(f)
          \/ \E f \in Managed : TakeOffer(f)
          \/ EditGoMod

Next == Start \/ ToolStep \/ People

Spec == Init /\ [][Next]_vars

-----------------------------------------------------------------------------
\* The files, the manifest and the tool's memory ...
CoreOK ==
  /\ disk \in [Files -> Contents \cup {Absent}]
  /\ side \in [Managed -> Contents \cup {Absent}]
  /\ manifest \in Manifest \cup {Absent, Unreadable}
  /\ pc \in {"idle", "files", "write", "save"}
  /\ op \in {"new", "update"}
  /\ bin \in Versions
  /\ mem \in Manifest
  /\ todo \subseteq Files \cup {GoMod}
  /\ job = NoJob \/ job \in [file : Managed, to : {"disk", "side"}, status : Statuses]

\* ... and the rest.
TypeOK ==
  /\ CoreOK
  /\ gomod \in [state : {"ok", "absent", "torn"}, require : Versions, replaced : BOOLEAN]
  /\ report \in [files : [Managed -> Statuses], bumped : BOOLEAN, warned : BOOLEAN]
  /\ last \in {"stale", "running", "failed", "generated", "updated"}
  /\ strayed \subseteq Files
  /\ attempts \subseteq {"new", "update"} \X Params \X Versions
  /\ used \in [runs : Nat, edits : Nat, failures : Nat]

\* Everything the template of f can be rendered to.
Renderings(f) == {Render(f, p, v) : p \in Params, v \in Versions}

\* update never destroys what somebody wrote: it replaces a file only if what
\* it held can be had from the tool again, and leaves the application's code
\* alone.  It holds through any sequence of updates by any binaries, forced
\* generations, interrupted runs, torn files, and a torn manifest.
HandEditsKept ==
  [][op = "update" =>
       /\ \A f \in Managed : disk'[f] # disk[f] =>
            disk[f] \in Renderings(f) \cup {Absent} \/ UNCHANGED tool
       /\ \A f \in App : disk'[f] # disk[f] => UNCHANGED tool]_vars

\* Every hash a manifest holds, on disk or in memory, is that of a rendering:
\* the record never vouches for what somebody wrote.
Vouched(m) == \A f \in Managed :
  m.managed[f] # NoHash => \E c \in Renderings(f) : m.managed[f] = hashBytes(c)

\* Together with this, RecordIsOwn is inductive.
InPlace ==
  /\ op = "update" => pc # "idle" /\ todo \subseteq Managed
  /\ pc = "write" => op = "update" /\ job.file \in Managed

\* What update is about to replace, it has found to be a rendering or missing.
WriteIsSafe ==
  pc = "write" /\ job.to = "disk" =>
    disk[job.file] \in Renderings(job.file) \cup {Absent}

RecordIsOwn == /\ Vouched(mem)
               /\ manifest \notin {Absent, Unreadable} => Vouched(manifest)

\* When an update has completed and nobody has touched the project since, each
\* managed file either is what the manifest's version renders, and is recorded
\* as such, or was reported as a conflict and what it should be lies beside it.
Converged ==
  last = "updated" =>
    \A f \in Managed :
      LET want == Render(f, manifest.params, manifest.version) IN
      \/ /\ report.files[f] \in {"created", "updated", "unchanged"}
         /\ disk[f] = want
         /\ manifest.managed[f] = hashBytes(want)
      \/ /\ report.files[f] = "conflict"
         /\ disk[f] \notin {want, Absent}
         /\ side[f] = want

\* The manifest never moves to a version the library in go.mod has not been
\* moved to, and go.mod is never left under a replace, without a warning.
SkewNeverSilent ==
  [][pc = "save" /\ last' = "updated" =>
       (gomod.require = bin /\ ~gomod.replaced) \/ report.warned]_vars

\* What a run that was cut short left is sorted out by running it again: of the
\* files that nobody has touched, whichever of them had been written, and whatever
\* is left of the manifest, exactly those are reported as conflicts that lie there
\* torn.  A truncated file matches no hash, so it is left to the person, with the
\* whole one beside it.
Foreign(f) == report.files[f] = "conflict" /\ f \notin strayed

RetryHeals ==
  [][/\ pc = "save" /\ last' = "updated"
     /\ attempts \subseteq {"new", "update"} \X {mem.params} \X {bin}
     => \A f \in Managed \ strayed : Foreign(f) <=> disk[f] = Torn]_vars

-----------------------------------------------------------------------------
(* What the documentation of the repository says, and the code does not do. *)

\* update.go: "conflict" means edited by hand.  After an update that was cut
\* short, a file the tool itself moved on is one to the next version's update,
\* because the hashes are only saved at the end.  Torn files, which are one even
\* to the same version's (RetryHeals), are left out here.
ConflictMeansEdited ==
  [][/\ pc = "save" /\ last' = "updated"
     /\ attempts \subseteq {"update"} \X Params \X Versions
     => \A f \in Managed : Foreign(f) => disk[f] = Torn]_vars
=============================================================================
