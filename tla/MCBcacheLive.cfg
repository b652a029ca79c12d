SPECIFICATION Spec
CONSTANTS
  p1 = p1 p2 = p2 p3 = p3 p4 = p4
  k1 = k1 k2 = k2 k3 = k3 k4 = k4
  v0 = v0 v1 = v1
  Procs <- FourProcs
  Blocks <- TwoBlocks
  Values <- OneValue
  Outer <- TwoEach
  Nested <- FirstBefore
  NBUF = 3
  MaxPinned = 0
  ReadErrors = TRUE
CHECK_DEADLOCK FALSE
PROPERTY BreadReturns
