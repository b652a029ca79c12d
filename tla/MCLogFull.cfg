SPECIFICATION Spec
CONSTANTS
  p1 = p1
  p2 = p2
  p3 = p3
  v0 = v0
  Procs <- ThreeProcs
  Values <- OneValue
  NBLOCKS = 6
  MAXOPBLOCKS = 2
  LOGSIZE = 6
  NLOG = 6
  OPMAX = 2
  MaxCrashes = 0
SYMMETRY Symmetry
INVARIANT NoPanic
