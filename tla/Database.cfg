SPECIFICATION Spec
CONSTANTS
  Threads = {t1, t2}
  Nesters = {t1, t2}
  Connections = {c1, c2}
  CacheTime = 1
  MaxDelay = 1
  MaxTime = 3
  MaxCalls = 3
  None = None
INVARIANTS TypeOK OpenOnlyInBlocks CacheIsRecent
PROPERTIES BlockDecides CallsEnd
CHECK_DEADLOCK FALSE
