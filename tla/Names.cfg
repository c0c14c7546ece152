SPECIFICATION Spec
CONSTANTS
  Lower = {"s", "x"}
  Up <- MCUp
  Digits = {"1"}
  Reserved <- MCReserved
  MaxLength = 6
INVARIANTS CamelByRules NamesAgree StubsAreBuilt
\* Words have a bound.
CHECK_DEADLOCK FALSE
