CONSTANTS
  Calls = {c1, c2, c3, c4, c5}
  NoCall = NoCall
SPECIFICATION FairSpec
INVARIANTS
  TypeOK
  MutualExclusion
  NoLeakedEntry
PROPERTIES
  EveryCallEnters
  ImplementsMutex
\* Every call has left: nothing remains to be done.
CHECK_DEADLOCK FALSE
