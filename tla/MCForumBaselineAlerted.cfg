CONSTANTS
  old = old
  routine = routine
  new = new
  Topics <- MCTopics
  History <- MCHistory
  Routine <- MCRoutine
  MinFetched = 2
  MaxFaults = 1
SPECIFICATION Spec
INVARIANT
  BaselineStaysSilent
