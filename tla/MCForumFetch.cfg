CONSTANTS
  old = old
  routine = routine
  new = new
  Topics <- MCTopics
  History <- MCHistory
  Routine <- MCRoutine
  MinFetched = 2
  MaxFaults = 2
SPECIFICATION FairSpec
INVARIANTS
  TypeOK
  BaselineSilentOnceRecorded
  HistoricalIsCovered
PROPERTIES
  AlertsAreNews
  VerdictIsFinal
  EveryTopicStored
  SeedingEnds
