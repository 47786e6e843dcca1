SPECIFICATION Spec
CONSTANTS
  Clients = {c1, c2}
  Workers = {w1, w2}
  Requests = {eval, pa}
  Evaluations = {eval}
  MaxTasks = 2
  Modules = 1
  MaxCrashes = 1
INVARIANTS TypeOK OnePlace OneLivePerRequest RunSettles
PROPERTIES OverIsOver
SYMMETRY Symmetry
\* The users may have nothing left to ask for: the system may stop.
CHECK_DEADLOCK FALSE
