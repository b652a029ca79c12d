SPECIFICATION Spec
CONSTANTS
  p1 = p1
  p2 = p2
  p3 = p3
  v0 = v0
  v1 = v1
  Procs <- ThreeProcs
  Values <- OneValue
  NBLOCKS = 3
  MAXOPBLOCKS = 2
  LOGSIZE = 4
  NLOG = 4
  OPMAX = 1
  MaxCrashes = 0
INVARIANT NoPanic
PROPERTY SleeperWakes
