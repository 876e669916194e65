\* Two sessions and two settled designs; a lost message, a refresh late or early.
SPECIFICATION DesignSpec
CONSTANTS
  Session = {1, 2}
  Variants = 2
  Retries = 0
  Jsx = {2}
  Inserts = {2}
  MaxPosts = 1
  MaxEvents = 1
  MaxFaults = 1
  Design = {1, 2}
  MaxRevisions = 2
  MaxRefreshes = 1
INVARIANTS
  CacheFollowsPage
  CyclingShowsSomething
  RecoveryEnds
PROPERTIES
  OnlyOverIsWrittenOff
  RecoverySparesReplacement
CHECK_DEADLOCK FALSE
