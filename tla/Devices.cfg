SPECIFICATION DevSpec
CONSTANTS
  CdUnits = 2  SectorSizes = {1, 2, 4}  MAX_SIZE = 3
  SCSI_RA_SECTORS = 4  MAX_USB_SECTORS = 2  MaxN = 4  MaxFails = 1
  LBAs <- SomeLBAs  Reads <- SomeReads
  Byte = 2  Nibble = 2  MaxCmd48 = 3  MemBlocks = 6  MaxFaults = 2
  FifoSize = 2  RETRIES = 2  Blk = 2  LbaStart = 1
  PartSpecs <- TwoParts  HddReads <- SomeHddReads
  NumParts = 2  PartSectors = 4  LsnMod = 16
  MAX_SMB_SECTORS = 2  SmbMem = 4  KeepAlives = 2  MaxSmbFaults = 1
  SmbReads <- SomeSmbReads
  BdUnits <- SomeBds  SectorUnits = 2  BdLba = 3  BdmMem = 2  CountMod = 4  Plugs = 3
  BdmReads <- SomeBdmReads
  ScmdThreads = {1, 2}  ScmdCalls <- SomeScmdCalls  RetryLimit = 1  MaxLeftover = 2
INVARIANTS ReadCDDelivers NothingLeftOver HddDelivers ErrorHasCause SmbDelivers InStep BdmDelivers AnswersOwn
PROPERTY DeviceReturns
CHECK_DEADLOCK FALSE
