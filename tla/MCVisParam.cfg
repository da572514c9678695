SPECIFICATION Spec
CONSTANTS
    MAXEVENTS = 0
    Rate = Rate
    Scalars = {Rate}
    Objects = {Colours}
    Collections = {Images}
    Watched = {Rate}
    Listeners = {x, y}
    NoListener = NoListener
    OtherEvent = OtherEvent
    Values = {0, 1}
    Source <- SourceOf
    LastFirst = TRUE
    MaxDepth = 2
INVARIANTS Synced CallbacksKnow WalksStandOnEntries
