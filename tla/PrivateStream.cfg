SPECIFICATION StreamFairSpec
CONSTANTS
  Callers = {t1, t2}
  MaxReconnect = 1
  MaxClients = 3
  MaxUnwritten = 1
INVARIANTS OneStream EndsForAReason
PROPERTIES StopTakesEffect
\* The last client may have ended and every caller be idle.
CHECK_DEADLOCK FALSE
