SPECIFICATION FairSpec
CONSTANTS
  t1 = t1  t2 = t2  b1 = b1  b2 = b2  b3 = b3
  RThread = RThread  Intr = Intr  NoOwner = NoOwner  Idle = Idle  Bounce = Bounce
  Threads = {t1, t2}
  Buffers = {b1, b2, b3}
  Prio <- DefaultPrio
  Requests <- AlignedRequests
  IntrRequests <- NoReads
  BufSectors = 3  BounceSectors = 2  AccuMax = 2
  DirSectors = {20}
  Commands = {"DiskReady", "Search"}
  AltReads = {FALSE}  AccuReads = TRUE  DeviceFails = TRUE
INVARIANTS CompleteReadDelivers BounceExclusive
PROPERTIES ReadsEnd WaitersReturn
