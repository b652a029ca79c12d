SPECIFICATION SafetySpec
CONSTANTS
  p1 = p1 p2 = p2 p3 = p3 p4 = p4
  k1 = k1 k2 = k2 k3 = k3 k4 = k4
  v0 = v0 v1 = v1
  Procs <- ThreeProcs
  Blocks <- ThreeBlocks
  Values <- TwoValues
  Outer <- OneEach
  Nested <- NoPairs
  NBUF = 2
  MaxPinned = 1
  ReadErrors = FALSE
SYMMETRY Symmetry
INVARIANT BuffersSound
PROPERTY CacheIsStore
