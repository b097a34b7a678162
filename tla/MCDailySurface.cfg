\* A parked or engaged target and the last day: the model may stop.
CHECK_DEADLOCK FALSE
SPECIFICATION FairSpec
CONSTANTS
    Touches <- MCTouches
    Opens <- MCOpens
    Closes <- MCCloses
    ShortArc <- MCShort
    Grace = 1
    MaxDay = 3
    MaxFaults = 1
    NoCard = NoCard
INVARIANTS
    CardedOnce
PROPERTIES
    ResolvedAreLeftAlone
    RecordedCardsAnswer
    DrainsOnlyFinished
    DueTouchesAreCarded
    FinishedArcsDrain
