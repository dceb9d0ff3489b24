SPECIFICATION StatsSpec
CONSTANTS
  a1 = a1
  a2 = a2
  a3 = a3
  m1 = m1
  m2 = m2
  m3 = m3
  m4 = m4
  v1 = v1
  v2 = v2
  v3 = v3
  v4 = v4
  Zero = Zero
  NULL = NULL
  MAX_BACKENDS = 2
  Addr <- MCAddr
  Mac <- MCMac
  Veth <- MCVeth
  VIP = vip
  Lists <- ListsGrowShrink
  Faults = {"attach"}
  cpu0 = cpu0
  cpu1 = cpu1
  CPU <- MCCPU
  Client = client0
  Host = host
  Other = other
  MaxFrames = 2
SYMMETRY CpuSymmetry
INVARIANTS
  RowWithinSlot
  StableRowsExact
