SPECIFICATION Spec
CONSTANTS
  Procs = {1, 2, 3}
  NPAGES = 13
  KTABS = 1
  NPTENTRIES = 2
  NPDE = 3
  Programs <- Executables
  Amounts <- Sbrks
  MaxCalls = 4
  CPUs = {c1, c2}
  Locks = {1, 2}
  NoCpu = NoCpu
  Sleepers = {p1, p2}
  TICKS = 4
  SleepTimes = {0, 2, 3}
  MaxLate = 1
  Nobody = Nobody
  Timer = Timer
  TtyReaders = {p1, p2}
  INPUT_BUF = 3
  INDICES = 6
  Keys = {"a", "cr", "nul", "^D", "^U", "^H", "^P"}
  ReadSizes = {0, 2}
  MAXARGS = 3
  NJOBS = 5
  Scripts <- Typed
  Malformed <- NotCommands
  HeapUnits = 8
  NALLOC = 4
  Requests = {0, 1, 3, 8}
  FSSIZE = 18
  BlockSize = 4
  DirentSize = 1
  NDIRECTS = 2
  NINDIRECT = 2
  IPB = 3
  NLOG = 2
  Images <- FileSizes
INVARIANTS
  PagesAccounted
  SpacesSound
  SpinInv
  SleepsAsAsked
  ReadersServed
  LineUnderstood
  WiredAsTyped
  ForegroundFirst
  HeapSound
  ImageSound
PROPERTIES
  BigArgsFail
  SleepReturns
  ConsoleIsLineQueue
  EofReturnsZero
  EveryLineEnds
CHECK_DEADLOCK FALSE
