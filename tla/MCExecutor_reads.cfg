SPECIFICATION Spec
CONSTANTS
  Gets <- MCGets
  Writes <- MCWrites
  Clients = {c1, c2}
  c1 = c1
  c2 = c2
  None = None
  Affects <- MCAffects
  TTL = 1
  Timeout = 1
  MaxNow = 3
  MaxRev = 2
INVARIANTS TypeOK BoundedStaleness StaleOnlyByRace
SYMMETRY ClientSymmetry
