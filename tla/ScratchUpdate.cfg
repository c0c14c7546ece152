SPECIFICATION Spec
CONSTANTS
  Makefile = Makefile
  Linter = Linter
  Main = Main
  Managed <- MCManaged
  App <- MCApp
  Contents <- MCContents
  Torn = "torn"
  HandMade <- MCHandMade
  Versions <- MCVersions
  Template <- MCTemplate
  CurrentSchema = 1
  Absent = Absent
  Unreadable = Unreadable
  NoHash = NoHash
  EditsDuringRun = FALSE
  MaxRuns = 4
  MaxEdits = 1
  MaxFailures = 1
INVARIANTS TypeOK RecordIsOwn Converged
PROPERTIES HandEditsKept SkewNeverSilent RetryHeals
\* The bounds are used up.
CHECK_DEADLOCK FALSE
