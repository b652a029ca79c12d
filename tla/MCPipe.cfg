SPECIFICATION Spec
CONSTANTS
  w1 = w1 w2 = w2 r1 = r1
  Writers <- TwoWriters
  Readers <- OneReader
  Killable <- AllReaders
  Bytes = {0, 1}
  PIPESIZE = 2
  WORD = 4
  MaxN = 3
  MaxWrites = 2
CHECK_DEADLOCK FALSE
INVARIANT PipeSound
PROPERTIES PipeIsQueue CallReturns
