SPECIFICATION FairSpec
CONSTANTS
  Reader = {r1}
  Writer = {w1, w2}
  Byte = {0, 1}
  PIPESIZE = 2
  Word = 4
  MaxN = 3
  None = None
  Killable = {r1, w1}
  SiblingCloses = FALSE
INVARIANTS NoUseAfterFree
PROPERTIES ImplementsQueue SleepersWoken
CHECK_DEADLOCK FALSE
