SPECIFICATION Spec
CONSTANTS
  NPROC = 2
  NTHREAD = 1
  NPAGES = 21
  PGSIZE = 2
  FAN = 3
  Word = 64
  Sbrk <- SbrkArgs
  Programs <- TwoPrograms
INVARIANTS NoPanic PagesAccounted SizeIsMapped CopyChecksEveryPage
