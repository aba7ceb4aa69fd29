SPECIFICATION FairSpec
CONSTANTS
  Thread = {t1, t2}
  First = t1
  Sig = {2, 3, 9, 17, 19, 20}
  Loads <- LoadsAll
INVARIANTS MaskRestored
PROPERTIES   ContUnfreezes
CHECK_DEADLOCK FALSE
