SPECIFICATION StSpec
CONSTANTS
  StThread = StThread  Ring = Ring  game = game  b1 = b1
  RThread = RThread  Intr = Intr  NoOwner = NoOwner  Bounce = Bounce
  Threads = {StThread, game}
  Buffers = {Ring, b1}
  Prio <- DefaultPrio
  Requests <- GameRequests
  IntrRequests <- NoReads
  BufSectors = 1  BounceSectors = 1  AccuMax = 8
  DirSectors = {}
  Commands = {"Callback"}
  AltReads = {FALSE}  AccuReads = FALSE  DeviceFails = FALSE
  StBankmax = 1  StBanksize = 1  LsnMod = 2
  Starts = {0}
  ReadSizes = {1}
  Blocking = {FALSE}
  FromEE = {FALSE}
  StCommands = {"Stop", "Pause", "Resume", "Init", "Stat"}

INVARIANT StOneOwner
VIEW WithoutData
