CONSTANTS
  IntMod = 4
  ChunkMax = 2
  TxMax = 2
  MaxEdges = 3
SPECIFICATION FairSpec
INVARIANTS TypeOK NoLostInterrupt NoLostService OneTransaction
PROPERTIES TransmitDrains ReceiveDrains
