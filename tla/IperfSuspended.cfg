CONSTANTS
  W = 12
  StartDelay = 1
  EndTime = 6
  PressGap = 3
  MaxStall = 2
  IdMod = 4
SPECIFICATION IperfSpec
INVARIANT SuspendedOnlyDuringIperf
