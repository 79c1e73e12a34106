CONSTANTS
  governance = governance
  grants = grants
  Latest = latest
  Categories = {governance, grants}
  CategoryOf <- MCCategoryOf
  LastTopic = 4
  FirstForums <- MCFirstForums
  PageSize = 1
  MaxPages = 4
  CategoryMaxPages = 3
  MaxAttempts = 2
  Timeout = 2
  BaseDelay = 1
  MaxDelay = 3
  RetryAfters = {20}
  MinFetched = 2
  WarningDays = 1
  CriticalDays = 2
  MaxMoves = 2
  MaxDay = 2
SPECIFICATION FairSpec
INVARIANTS
  RequestIsBounded
  RestingTopicsAreListed
PROPERTIES
  WatchdogIsRight
  PollEnds
