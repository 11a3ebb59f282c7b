CONSTANTS
  MaxWrite = 2
  MaxRead = 6
SPECIFICATION HostSpec
INVARIANTS NoWriteCollision WireFollowsRequest ResultRight
PROPERTIES PollEnds
