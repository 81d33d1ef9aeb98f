\* Calls with every setup, and servers from start to signal.
SPECIFICATION Spec
CONSTANTS
  p1 = p1
  p2 = p2
  Procs = {p1, p2}
  NoOne = NoOne
  Worlds <- MCWorlds
  Starts <- MCStarts
  Declared <- MCDeclared
  Lifetimes = {0, 1, 3}
  Margin = 1
  MaxRequests = 3
  MaxNow = 6
INVARIANTS ServerTypeOK Credentialed FetchesSpaced
PROPERTIES Stops RequestsEnd
