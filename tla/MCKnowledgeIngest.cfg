\* Every edit made and ingested: the model may stop.
CHECK_DEADLOCK FALSE
SPECIFICATION Spec
CONSTANTS
    n1 = n1
    n2 = n2
    x1 = x1
    x2 = x2
    p1 = p1
    p2 = p2
    r1 = r1
    Notes <- MCNotes
    Texts <- MCTexts
    Pollers <- MCPollers
    Requests <- MCRequests
    None = None
    MaxNotesPerRun = 1
    MaxClock = 3
    MaxFaults = 1
SYMMETRY Symmetry
INVARIANTS
    DuplicatesBounded
    WatermarkCovers
