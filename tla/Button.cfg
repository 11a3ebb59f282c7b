CONSTANTS
  W = 8
  Debounce = 1
  Hold = 5
  ResetDelay = 2
  MaxStall = 2
SPECIFICATION FairButton
INVARIANTS OneEventPerPress GenuineLongPress RestartAfterDelay
PROPERTIES NoBounce HoldArmsReset ReleaseCompletes
