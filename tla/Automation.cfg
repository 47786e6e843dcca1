SPECIFICATION FairSpec
CONSTANTS
  Jobs = {j1}
  Threads = {t1}
  Workers = {w1}
  None = None
  Window = 1
  MaxRuns = 2
  MaxFaults = 1
  MaxSwitches = 1
INVARIANTS TypeOK NoneForgotten ScheduledAlone OneExecutor RetriesFollow
PROPERTIES OverIsOver EveryRunEnds
\* Once the bounds are used up everything may be over: the system may stop.
CHECK_DEADLOCK FALSE
