SPECIFICATION Spec
CONSTANTS
  Scanners = {live, silent}
  Silent = {silent}
  live = live
  silent = silent
  MaxBlock = 6
  Lives <- SomeLives
INVARIANT TypeOK
INVARIANT EventsMatchDecision
INVARIANT EventsHappened
INVARIANT SamplingForgotten
INVARIANT OnlyStaleRefused
PROPERTY EventsStay
CHECK_DEADLOCK FALSE
