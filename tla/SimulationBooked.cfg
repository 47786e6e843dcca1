SPECIFICATION Spec
CONSTANTS
  i1 = i1
  i2 = i2
  s1 = s1
  Threads = {t1, t2}
  Intents = {i1, i2}
  Signals = {s1}
  None = None
  Requests <- MCRequests
  Prices <- MCPrices
  Limit = 1
  Page = 1
  MaxExecs = 3
  MaxFaults = 0
INVARIANTS EveryExecutionBooked
SYMMETRY Symmetry
\* All orders may be final and every thread idle: the system may stop.
CHECK_DEADLOCK FALSE
