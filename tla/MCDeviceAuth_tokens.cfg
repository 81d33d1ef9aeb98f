\* Two goroutines of one process or of two, and every kind of issuer.
SPECIFICATION FairSpec
CONSTANTS
  p1 = p1
  p2 = p2
  t1 = t1
  t2 = t2
  Procs = {p1, p2}
  Threads = {t1, t2}
  Homes <- MCHomes
  Issuers = {"never", "reuse", "rotate"}
  Faults = {"stop", "lost", "disk", "mixed"}
  MaxTokens = 3
  MaxFaults = 1
INVARIANTS TypeOK Survives AutoRenews LogoutFinal
PROPERTY CallsEnd
