SPECIFICATION FairSpec
CONSTANTS
  MAXEVENTS = 1
  MaxSent = 5
  Burst = 3
  Kinds = {"resize", "stop", "down", "hidden", "shown", "other"}
INVARIANTS SafeAfterFrame EventsInMemory InOrder LostAtTheDoor LatestSize
PROPERTY StopEnds
CHECK_DEADLOCK FALSE
