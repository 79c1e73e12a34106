CONSTANTS
  old = old
  routine = routine
  new = new
  Topics <- MCTopics
  History <- MCHistory
  Routine <- MCRoutine
  MinFetched = 2
  MaxFaults = 0
SPECIFICATION Spec
INVARIANT
  HistoricalWasListed
