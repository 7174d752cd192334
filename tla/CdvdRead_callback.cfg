SPECIFICATION Spec
CONSTANTS
  t1 = t1  t2 = t2  b1 = b1  b2 = b2  b3 = b3
  RThread = RThread  Intr = Intr  NoOwner = NoOwner  Idle = Idle  Bounce = Bounce
  Threads = {t1, t2}
  Buffers = {b1, b2, b3}
  Prio <- EqualPrio
  Requests <- PacedRequests
  IntrRequests <- PacedCallback
  BufSectors = 2  BounceSectors = 2  AccuMax = 1
  DirSectors = {20}
  Commands = {"Break", "Callback"}
  AltReads = {TRUE, FALSE}  AccuReads = TRUE  DeviceFails = TRUE
INVARIANTS RequestKept IdleIsSignalled ShortReadLeavesError
PROPERTIES SyncReturnsAfterRead ImplementsReadSlot
