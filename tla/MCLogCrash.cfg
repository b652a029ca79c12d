SPECIFICATION Spec
CONSTANTS
  p1 = p1
  p2 = p2
  p3 = p3
  v0 = v0
  v1 = v1
  Procs <- TwoProcs
  Values <- TwoValues
  NBLOCKS = 2
  MAXOPBLOCKS = 3
  LOGSIZE = 6
  NLOG = 6
  OPMAX = 2
  MaxCrashes = 2
SYMMETRY Symmetry
INVARIANT IndInv
PROPERTY CrashAtomic
