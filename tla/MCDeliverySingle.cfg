CONSTANTS
  a = a
  b = b
  c = c
  NoOne = NoOne
  Recipients = {a, b, c}
  Processes = {1}
  MaskedId <- MCMaskedId
  Records = {1, 2}
  LegacyRecords = {1}
  RecipientSets <- MCMaskConfigs
  RetryDelays <- MCRetryDelays
  ScanSize = 2
  BatchSize = 2
  MaxFaults = 2
SPECIFICATION Spec
INVARIANTS
  TypeOK
  NothingStranded
  DuplicatesAreDoubts
  SentWasDelivered
  OnlyConfiguredContacted
PROPERTIES
  SentIsFinal
  SkippedIsQuiet
  BackoffRespected
CHECK_DEADLOCK FALSE
