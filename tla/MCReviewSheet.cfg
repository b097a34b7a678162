\* Everything decided and nothing sourced: the sheet may rest.
CHECK_DEADLOCK FALSE
SPECIFICATION SheetFairSpec
CONSTANTS
    r1 = r1
    r2 = r2
    r3 = r3
    h1 = h1
    h2 = h2
    Rows <- MCRows
    Segment <- MCSegment
    Fit <- MCFit
    Hands <- MCHands
    Window = 2
    UnscoredSlots = 1
    ReserveSlots = 1
    MinSample = 2
    Scored <- MCScored
    PageSize = 2
    Modals <- MCModals
    MaxEdits = 1
    MaxFaults = 1
    None = None
INVARIANTS
    TargetCarriesCorrections
PROPERTIES
    SheetShowsDecisions
    CandidatesSurface
