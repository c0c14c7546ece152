SPECIFICATION Spec
CONSTANTS
  g1 = g1
  r1 = r1
  d1 = d1
  Calls <- MCCalls
  Kind <- MCKind
  Ports <- MCPorts
  PortOf <- MCOwnPorts
INVARIANTS NotReadyWhenStopping
\* Run returns, and its callers are done.
CHECK_DEADLOCK FALSE
