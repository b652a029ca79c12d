SPECIFICATION Spec
CONSTANTS
  p1 = p1 p2 = p2 p3 = p3
  Procs = {p1, p2, p3}
  NINODES = 11
  NINODE = 6
  NFILE = 3
  NOFILE = 2
  DIRSIZ = 14
  ImageFiles = {"README"}
  Programs <- AllPrograms
CHECK_DEADLOCK FALSE
INVARIANTS CountsExact IputInTransaction TreeSound TestsPass
PROPERTY CallsReturn
