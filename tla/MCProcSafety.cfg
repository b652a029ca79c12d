SPECIFICATION SafetySpec
CONSTANTS
  c1 = c1 c2 = c2
  NPROC = 4
  CPUs <- TwoCpus
  KillPids <- OnePid
  MaxPid = 4
SYMMETRY Symmetry
INVARIANTS StacksOwned ProcessTree PcountExact
