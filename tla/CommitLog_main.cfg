SPECIFICATION FairSpec
CONSTANTS
  kBlockSize = 2
  kIdsInField = 2
  FirstId = 5
  MaxId = 14
  MaxHolders = 1
  Role = "MAIN"
INVARIANTS TypeOK OldestIsSmallestHeld HeadIsBlockOfOldest MarkedWereIssued
PROPERTIES ImplementsSet OldestPassesEveryId
CHECK_DEADLOCK FALSE
