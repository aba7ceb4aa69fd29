SPECIFICATION Spec
CONSTANTS
  Op = {o1, o2, o3}
  Block = {b1, b2, b3}
  Data = {0, 1}
  Zero = 0
  None = None
  MAXOPBLOCKS = 2
  LOGSIZE = 4
  NLOG = 4
  OpBlocks = 1
  ExitKills = TRUE
SYMMETRY OpBlockSymmetry
INVARIANTS QuietIsDurable  SleeperHasWaker
PROPERTIES ImplementsAtomicDisk
