\* A page whose call fails.
SPECIFICATION Spec
CONSTANTS
  Setups <- Local
  MaxPages = 4
  Faults = {"error"}
CHECK_DEADLOCK FALSE
INVARIANT FetchesAll
