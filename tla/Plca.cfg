CONSTANTS
  W = 20
  BeaconDelay = 4
  MaxStall = 3
  RegSize = 2
SPECIFICATION PlcaSpec
INVARIANTS ChecksGoOn ChecksSpaced
PROPERTIES StatusFollows
