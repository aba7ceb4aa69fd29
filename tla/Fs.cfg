SPECIFICATION Spec
CONSTANTS
  Thread = {t1, t2}
  NINODES = 4
  NFILE = 2
  NOFILE = 2
  File = {"a", "b"}
  None = None
  MaxBlocks = 1
  Loads <- FsLoads
SYMMETRY ThreadSymmetry
INVARIANTS HeldStaysAllocated IputNeverBlocks LinkCountExact BlocksAccounted
