CONSTANTS
  LastBoard = 1
  Pluggable <- First
  IOBoards <- First
  MAX_SCAN_FAIL = 1
  MissedCap = 3
SPECIFICATION FairSpec
CHECK_DEADLOCK FALSE
INVARIANTS TypeOK
PROPERTIES RemovedAfterMisses NeverExchanged CrashesOnRemovalOnly ImplementsWatch BoardsListed BoardsDropped SummeryFollows
