SPECIFICATION FairSpec
CONSTANTS
  Clients = {c1}
  Workers = {w1}
  Requests = {eval, pa}
  Evaluations = {eval}
  MaxTasks = 2
  Modules = 1
  MaxCrashes = 0
PROPERTIES TasksEnd
\* The users may have nothing left to ask for: the system may stop.
CHECK_DEADLOCK FALSE
