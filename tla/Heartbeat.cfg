CONSTANTS
  PerMode = 3
  TxSlots = 2
  MaxLag = 2
  CountdownBeats = 2
SPECIFICATION FairSpec
INVARIANTS SamePeriod LedSolidDuringReset ClientMirrorsServer
PROPERTIES ModesAlternate
