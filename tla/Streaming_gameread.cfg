SPECIFICATION StSpec
CONSTANTS
  StThread = StThread  Ring = Ring  game = game  b1 = b1
  RThread = RThread  Intr = Intr  NoOwner = NoOwner  Bounce = Bounce
  Threads = {StThread, game}
  Buffers = {Ring, b1}
  Prio <- GamePrio
  Requests <- GameRequests
  IntrRequests <- NoReads
  BufSectors = 4  BounceSectors = 2  AccuMax = 8
  DirSectors = {}
  Commands = {}
  AltReads = {FALSE}  AccuReads = FALSE  DeviceFails = FALSE
  StBankmax = 2  StBanksize = 2  LsnMod = 8
  Starts = {0, 4}
  ReadSizes = {1, 3}
  Blocking = {FALSE}
  FromEE = {TRUE, FALSE}
  StCommands = {}

PROPERTY OnlyOwnReadsCount
