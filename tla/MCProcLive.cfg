SPECIFICATION Spec
CONSTANTS
  c1 = c1 c2 = c2
  NPROC = 3
  CPUs <- OneCpu
  KillPids <- ChildPids
  MaxPid = 3
PROPERTIES RunnableRuns OrphanReaped KilledExits
