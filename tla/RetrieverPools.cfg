SPECIFICATION Spec
CONSTANTS
  Tasks = {t1, t2}
  NoTask = NoTask
  MaxSize = 1
  Retries = 3
  MaxMade = 3
  MaxSlips = 1
INVARIANTS PoolsAreOwned RefusedOnlyByClose ConnectionsAreCounted
PROPERTY CallsEnd
CHECK_DEADLOCK FALSE
