\* The last run finished and every firm reviewed: the model may stop.
CHECK_DEADLOCK FALSE
SPECIFICATION Spec
CONSTANTS
    a1 = a1
    a2 = a2
    b1 = b1
    Firms <- MCFirms
    OutOfList <- MCOutOfList
    TargetN = 2
    Share = 50
    ShareMax = 50
    MaxRounds = 2
    StuckPerRound = 2
    MaxRuns = 2
    MayCrash = TRUE
SYMMETRY Symmetry
INVARIANTS
    SheetWithinTarget
    ClaimsAreAnswered
PROPERTIES
    ReviewIsFinal
