CONSTANTS
  PerMode = 3
  TxSlots = 2
  MaxLag = 0
  CountdownBeats = 2
SPECIFICATION Spec
INVARIANT OnlyStaleDiscarded
