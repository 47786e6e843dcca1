SPECIFICATION SchedulerFairSpec
CONSTANTS
  Users = {c1, c2, c3}
  Accounts = {a1, a2}
  None = None
  MaxLoops = 3
  MaxFaults = 1
INVARIANTS OneLoop
PROPERTIES StopEndsTheLoop AccountStandsWhileLooping
\* Once MaxLoops loops were created and ended nothing more can happen.
CHECK_DEADLOCK FALSE
