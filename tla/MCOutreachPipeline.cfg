\* Every firm parked or dropped: the model may stop.
CHECK_DEADLOCK FALSE
SPECIFICATION Spec
CONSTANTS
    f1 = f1
    f2 = f2
    f0 = f0
    d1 = d1
    d2 = d2
    Firms <- MCFirms
    Seeded <- MCSeeded
    Reengagement <- MCNone
    ColdCeiling = 1
    WarmCeiling = 1
    Decisions <- MCDecisions
    Idle = Idle
SYMMETRY Symmetry
INVARIANTS
    CapacityOvershootBounded
    AcceptedIsPromoted
    SlotsHoldArcs
PROPERTIES
    NeverWorkedTwice
