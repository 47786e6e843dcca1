SPECIFICATION Spec
CONSTANTS
  Monitors = {m}
  Requests = {r1}
  Frequency = 2
  Quiet = {2}
  EndOfTime = 3
INVARIANTS TypeOK NotifiedOnce NothingElseLost
\* When time is over and the rule is gone, nothing is left to do.
CHECK_DEADLOCK FALSE
