SPECIFICATION FairSpec
CONSTANTS
  w1 = w1
  w2 = w2
  l1 = l1
  l2 = l2
  None = None
  NoLevel = NoLevel
  Threads = {t1, t2, t3}
  Writers = {w1, w2}
  Loggers = {l1, l2}
  Statics = {l1}
  Faulty = {w1}
  Formatters = {t2}
  Releasable = {l2}
  DEBUG = 1
  MaxCalls = 1
  LevelOf <- MCLevelOf
CHECK_DEADLOCK FALSE
PROPERTY CallsReturn
