SPECIFICATION FairSpec
CONSTANTS
  MAX_BSEM = 2
  Thread = {t1, t2, t3}
  Initials = {0, 2}
  MaxValue = 2
PROPERTIES ImplementsCountSem DownGetsThrough
CHECK_DEADLOCK FALSE
