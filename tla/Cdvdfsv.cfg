SPECIFICATION FsvFairSpec
CONSTANTS
  NoRead = NoRead
  FsSectors = 1  SectorSize = 8  Align = 4
  Reads <- SomeReads  Chains <- SomeChains  IopReads <- SomeIopReads
  EeUnits = 40
  MaxShort = 1  MaxOther = 1
INVARIANTS ReadeeDelivers OnlyDestination FsBufNotOverrun ProgressDelivered ChainDelivers
PROPERTY RpcReturns
