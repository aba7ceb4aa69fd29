SPECIFICATION FairSpec
CONSTANTS
  NPROC = 2
  MAX_BSEM = 1
  t1 = t1
  t2 = t2
  t3 = t3
  Thread <- Threads3
  ProcOf <- ProcOf3
  SlotOf <- SlotOf3
  CPU = {c1, c2}
  None = None
  OwnerUps = TRUE
INVARIANTS SchedPanicsNever NoLostWakeup
PROPERTIES ImplementsBinSem DownSucceeds
