CONSTANTS
  a = a
  b = b
  c = c
  NoOne = NoOne
  Recipients = {a, b}
  Processes = {1, 2}
  MaskedId <- MCMaskedId
  Records = {1}
  LegacyRecords = {}
  RecipientSets <- MCOneOrBoth
  RetryDelays <- MCRetryDelays
  ScanSize = 2
  BatchSize = 2
  MaxFaults = 0
SPECIFICATION Spec
INVARIANTS
  DuplicatesAreDoubts
