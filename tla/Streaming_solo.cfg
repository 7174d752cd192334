SPECIFICATION FsvStSpec
CONSTANTS
  StThread = StThread  Ring = Ring  b1 = b1
  RThread = RThread  Intr = Intr  NoOwner = NoOwner  Bounce = Bounce
  Threads = {StThread}
  Buffers = {Ring, b1}
  Prio <- DefaultPrio
  Requests <- NoRequests
  IntrRequests <- NoReads
  BufSectors = 4  BounceSectors = 2  AccuMax = 1
  DirSectors = {}
  Commands = {}
  AltReads = {FALSE}  AccuReads = TRUE  DeviceFails = FALSE
  StBankmax = 2  StBanksize = 2  LsnMod = 8
  Starts = {0, 4}
  ReadSizes = {1, 2, 3, 4, 5}
  Blocking = {FALSE}
  FromEE = {TRUE, FALSE}
  StCommands = {"Stop", "Stat", "Pause", "Resume"}
  FsvStReads = {1, 3, 5}
INVARIANTS RingConsistent RingHoldsStream EeGetsStream
