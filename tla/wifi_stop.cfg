CONSTANTS
  h1 = h1
  h2 = h2
  c1 = c1
  c2 = c2
  Holders <- MCHolders
  Conns <- MCConns
  Addrs = {a1, a2}
  None = None
  Scenarios <- MCScenarios
SPECIFICATION LiveSpec
PROPERTY StopIsComplete
CHECK_DEADLOCK FALSE
