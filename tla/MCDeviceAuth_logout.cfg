\* A refresh and a logout.
SPECIFICATION Spec
CONSTANTS
  p1 = p1
  p2 = p2
  t1 = t1
  t2 = t2
  Procs = {p1, p2}
  Threads = {t1}
  Homes <- MCHomes
  Issuers = {"rotate"}
  Faults = {}
  MaxTokens = 3
  MaxFaults = 0
INVARIANT LogoutClears
