SPECIFICATION FsFairSpec
CONSTANTS
  NoThread = NoThread  NoRead = NoRead
  movie = movie  dir = dir  absent = absent
  t1 = t1  t2 = t2  Other = Other
  Threads = {t1, t2}
  Paths <- SomePaths
  Lsn <- DiscLsn  Size <- DiscSize
  Dirs = {dir}
  SectorSize = 2  MaxFd = 2  RootLba = 20
  ReadSizes = {4}
  SeekOffsets <- Offsets
  WordMod = 32
  Calls <- SomeCalls  MaxRaw = 1
INVARIANTS ReadReturnsFile HandlesKept SemaphoresHeld
PROPERTY CallsReturn
CHECK_DEADLOCK FALSE
