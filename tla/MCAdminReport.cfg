CONSTANTS
  aave = aave
  lido = lido
  Protocols = {aave, lido}
  Proposals = {1}
  Events = {2}
  FirstRuns <- MCFirstRuns
  SourceStates <- MCSourceStates
  RunsRead = 1
  MaxChanges = 2
SPECIFICATION Spec
INVARIANTS
  TypeOK
  ReportIsHonest
