SPECIFICATION Spec
CONSTANTS
  Demo = Demo
  Audit = Audit
  Bare = Bare
  Services <- MCServices
  Rpcs <- MCRpcs
  Offered <- MCOffered
  Foreign <- MCForeign
  Pkg <- MCPkg
  GoName <- MCGoName
  FileName <- MCFileName
  Files <- MCFiles
  ServerFile = "server.go"
  TypeServer = "type Server"
  Printable <- MCPrintable
  Skeleton = {Demo}
  Absent = Absent
  MaxRuns = 2
  MaxEdits = 2
  MaxFailures = 1
CHECK_DEADLOCK FALSE
INVARIANTS TypeOK Accounted
PROPERTIES NothingOverwritten MethodsOnce Idempotent
