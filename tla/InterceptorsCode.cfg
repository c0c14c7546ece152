SPECIFICATION Spec
CONSTANTS
  u1 = u1
  s1 = s1
  Platform = Platform
  Calls = {u1, s1}
  Stream = {s1}
  Service = Platform
  Ids <- MCIds
  Owner <- MCOwner
  TraceOf <- MCTraceOf
  Attrs = {"attrs"}
  Groups = {"group"}
  Empty = "empty"
  Traces = {"trace"}
  Nothing = Nothing
  Root = "root"
  MaxSpare = 1
  Spellings = {"info", "error"}
\* All calls are answered and every logger is derived: nothing is left to do.
CHECK_DEADLOCK FALSE
INVARIANT LoggedCodeIsSent
