SPECIFICATION Spec
CONSTANTS
  Intents = {c1}
  Threads = {t1, t2}
  None = None
  Lots = 1
  Terms = {1}
  FirstTerms = 0
  MaxCrashes = 0
PROPERTIES FinalIsFinal
SYMMETRY Symmetry
\* Every order may end up final with no thread at work: the system stops.
CHECK_DEADLOCK FALSE
