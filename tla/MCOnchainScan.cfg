SPECIFICATION FairSpec
CONSTANTS
  Worlds <- TwoProposals
  RangeSize = 3
  Overlap = 1
  LegacyHeads = {2, 4}
  MaxBlock = 6
  MaxFaults = 2
INVARIANT TypeOK
INVARIANT CursorCovers
INVARIANT HistoryIsSilent
INVARIANT NewsIsAnnounced
PROPERTY SuccessesAreComplete
PROPERTY BaselineCompletesIfStill
PROPERTY LiveReplayEnds
