SPECIFICATION SafetySpec
CONSTANTS
  w1 = w1 w2 = w2 r1 = r1
  Writers <- TwoWriters
  Readers <- OneReader
  Killable <- AllProcs
  Bytes = {0}
  PIPESIZE = 2
  WORD = 4
  MaxN = 3
  MaxWrites = 3
CHECK_DEADLOCK FALSE
INVARIANT NoLostWakeup
