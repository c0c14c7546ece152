SPECIFICATION Spec
CONSTANTS
  Makefile = Makefile
  Linter = Linter
  Main = Main
  Managed <- MCManaged
  App <- MCApp
  Contents <- MCContents
  Torn = "torn"
  HandMade <- MCHandMade
  Versions <- MCVersions
  Template <- MCTemplate
  CurrentSchema = 1
  Absent = Absent
  Unreadable = Unreadable
  NoHash = NoHash
  EditsDuringRun = TRUE
  MaxRuns = 3
  MaxEdits = 1
  MaxFailures = 0
PROPERTIES HandEditsKept
\* The bounds are used up.
CHECK_DEADLOCK FALSE
