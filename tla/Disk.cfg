SPECIFICATION Spec
CONSTANTS
  Thread = {t1, t2}
  Block = {b1, b2, b3, b4}
  Data = {0, 1}
  Zero = 0
  None = None
  NBUF = 3
  NUM = 4
  MaxPinned = 1
SYMMETRY ThreadBlockSymmetry
INVARIANTS HolderSeesLastWrite DescriptorsAccounted SleepersHaveWaker
