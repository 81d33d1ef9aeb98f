\* The response cache, two goroutines and the sweeper.
SPECIFICATION FairSpec
CONSTANTS
  k1 = k1
  k2 = k2
  k3 = k3
  b1 = b1
  c1 = c1
  p1 = p1
  p2 = p2
  Keys = {k1, k2, k3}
  Bodies = {b1, c1}
  Procs = {p1, p2}
  NoEntry = NoEntry
  NoProc = NoProc
  Length <- BodyLength
  Serves <- ServesFixed
  Targets <- AllTargets
  MaxSize = 2
  TTL = 1
  Sweeping = TRUE
  MaxNow = 3
INVARIANTS TypeOK Coherent EvictionFindsVictim
PROPERTIES SetReturns LiveLossHasCause PromiseKept
