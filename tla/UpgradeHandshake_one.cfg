CONSTANTS
  Heads = {1, 3, 4, 6}
  Bodies = {0, 2, 3}
  FromClient = 2
  Chunk = 2
  Limit = 3
SPECIFICATION FairSpec
INVARIANTS UpgradeTypeOK NothingLost RefusalWhole
PROPERTIES UpgradeAnswered
CHECK_DEADLOCK FALSE
