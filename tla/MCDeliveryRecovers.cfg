CONSTANTS
  a = a
  b = b
  c = c
  NoOne = NoOne
  Recipients = {a, b}
  Processes = {1}
  MaskedId <- MCMaskedId
  Records = {1, 2}
  LegacyRecords = {1}
  RecipientSets <- MCOneOrBoth
  RetryDelays <- MCRetryDelays
  ScanSize = 1
  BatchSize = 1
  MaxFaults = 1
SPECIFICATION FairSpec
PROPERTIES
  EventuallySettled
