SPECIFICATION FairSpec
CONSTANTS
    Counts = {2, 4, 6}
    DirectSizes = {1}
    AnalyzeSize = 5
    Requests = {3}
    TIMEOUT = 1
    FrameTicks = 1
    Silent = FALSE
    MaxSamples = 4
    MaxDirect = 1
INVARIANTS ReadsTheRing NewestLast FlushHalves BuffersReturned EmptyReadReturns
PROPERTIES FrameEnds
