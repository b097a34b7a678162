SPECIFICATION PollFairSpec
CONSTANTS
    s1 = s1
    t1 = t1
    c1 = c1
    c2 = c2
    N = 3
    Sources <- MCSources
    Home <- MCHome
    Topics <- MCTopics
    Relevance <- MCRelevance
    Hostile <- MCHostile
    Unreadable <- MCUnreadable
    Cycles <- MCCycles
    MAX_ITEMS_PER_POLL = 2
    MaxTrust = 1
    MaxFaults = 1
    None = None
INVARIANTS
    RecordedItemsAreFollowedUp
    ProposalsBounded
PROPERTIES
    ReadableItemsAreTracked
