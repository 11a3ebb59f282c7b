CONSTANTS
  W = 12
  Debounce = 2
  Hold = 4
  Delay = 1
  StartDelay = 2
  MaxStall = 2
SPECIFICATION Spec
INVARIANTS TypeOK StopIsFinal PauseAgrees
