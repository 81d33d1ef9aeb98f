\* MCP over stdio, and a signal.
SPECIFICATION Spec
CONSTANTS
  p1 = p1
  p2 = p2
  Procs = {p1, p2}
  NoOne = NoOne
  Worlds <- MCWorlds
  Starts <- StdioStarts
  Declared <- MCDeclared
  Lifetimes = {0, 1, 3}
  Margin = 1
  MaxRequests = 3
  MaxNow = 5
PROPERTY Returns
