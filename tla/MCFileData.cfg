SPECIFICATION Spec
CONSTANTS
  Procs = {1, 2}
  Files = {1, 2}
  Inums = {1, 2}
  NBLOCKS = 7
  NDIRECT = 1
  BSIZE = 2
  BPB = 8
  LOGSIZE = 6
  Programs <- Tests
CHECK_DEADLOCK FALSE
INVARIANTS BlocksOwned ContentsKept WriteFitsLog NothingOverwritten
