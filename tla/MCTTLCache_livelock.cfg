\* The response cache when the body of a key changes its length.
SPECIFICATION FairSpec
CONSTANTS
  k1 = k1
  k2 = k2
  k3 = k3
  b1 = b1
  c1 = c1
  p1 = p1
  p2 = p2
  Keys = {k1, k2}
  Bodies = {b1, c1}
  Procs = {p1, p2}
  NoEntry = NoEntry
  NoProc = NoProc
  Length <- BodyLength
  Serves <- ServesVarying
  Targets <- AllTargets
  MaxSize = 2
  TTL = 1
  Sweeping = FALSE
  MaxNow = 3
PROPERTY SetReturns
