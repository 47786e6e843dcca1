SPECIFICATION FairSpec
CONSTANTS
  Intents = {c1}
  Threads = {t1, t2}
  None = None
  Lots = 2
  Terms = {1}
  FirstTerms = 0
  MaxCrashes = 1
INVARIANTS AtMostOneSubmission LocalNeverAheadOfVenue LocalTermsWereAccepted
PROPERTIES KeepsPromise RequestsReturn
\* Every order may end up final with no thread at work: the system stops.
CHECK_DEADLOCK FALSE
