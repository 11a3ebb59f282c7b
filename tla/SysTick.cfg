CONSTANTS
  ScalerMs = 2
  ScalerUs = 1
  UsPerMs = 2
  PeriodMs = 3
  Period = 6
  W = 8
  MaxGap = 5
  Counts = {1, 4}
  MaxTicks = 24
SPECIFICATION Spec
INVARIANTS MsExact TimeoutExact RttExact
