\* Every edit made: the card may be declined and nothing is left to do.
CHECK_DEADLOCK FALSE
SPECIFICATION TodoFairSpec
CONSTANTS
    k1 = k1
    g1 = g1
    y1 = y1
    y2 = y2
    Cards <- MCCards
    Initiatives <- MCInitiatives
    Syncs <- MCSyncs
    MaxEvents = 2
    MaxPages = 8
    Nil = Nil
INVARIANTS
    AssignmentIsKept
    OneRowPerTask
PROPERTIES
    TheChangeWins
    SyncConverges
