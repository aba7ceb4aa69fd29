SPECIFICATION Spec
CONSTANTS
  NPROC = 3
  NTHREAD = 2
  CPU = {c1, c2}
  None = None
  MaxId = 4
  Loads <- LoadAll
SYMMETRY CpuSymmetry
INVARIANTS NoFreedProcRuns WaitSeesExit ParentIsAlive LastThreadExits JoinSeesExit
CHECK_DEADLOCK FALSE
