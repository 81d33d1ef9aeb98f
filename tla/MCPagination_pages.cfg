\* Every strategy, errors, empty pages and servers that ignore the position.
SPECIFICATION Spec
CONSTANTS
  Setups <- MCSetups
  MaxPages = 4
  Faults = {"error", "blank"}
CHECK_DEADLOCK FALSE
INVARIANTS TypeOK Complete InOrder
