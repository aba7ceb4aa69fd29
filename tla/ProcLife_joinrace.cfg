SPECIFICATION Spec
CONSTANTS
  NPROC = 2
  NTHREAD = 2
  CPU = {c1, c2}
  None = None
  MaxId = 4
  Loads <- LoadThreads
SYMMETRY CpuSymmetry
INVARIANTS NoFreedSlotRuns
CHECK_DEADLOCK FALSE
