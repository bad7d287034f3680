SPECIFICATION Spec
CONSTANTS
  w1 = w1
  w2 = w2
  l1 = l1
  l2 = l2
  None = None
  NoLevel = NoLevel
  Threads = {t1, t2}
  Writers = {w1, w2}
  Loggers = {l1, l2}
  Statics = {l1, l2}
  Faulty = {}
  Formatters = {}
  Releasable = {l2}
  DEBUG = 1
  MaxCalls = 2
  LevelOf <- MCLevelOf
CHECK_DEADLOCK FALSE
INVARIANT NoDanglingLogger
