SPECIFICATION StFairSpec
CONSTANTS
  StThread = StThread  Ring = Ring  game = game  b1 = b1
  RThread = RThread  Intr = Intr  NoOwner = NoOwner  Bounce = Bounce
  Threads = {StThread}
  Buffers = {Ring, b1}
  Prio <- DefaultPrio
  Requests <- NoRequests
  IntrRequests <- NoReads
  BufSectors = 4  BounceSectors = 2  AccuMax = 1
  DirSectors = {}
  Commands = {}
  AltReads = {FALSE}  AccuReads = TRUE  DeviceFails = FALSE
  StBankmax = 2  StBanksize = 2  LsnMod = 8
  Starts = {0, 4}
  ReadSizes = {2, 4}
  Blocking = {TRUE, FALSE}
  FromEE = {TRUE, FALSE}
  StCommands = {"Stop"}

PROPERTY StReadReturns StreamAdvances
