\* Every request decided and every card greyed: the model may stop.
CHECK_DEADLOCK FALSE
SPECIFICATION FairSpec
CONSTANTS
    r1 = r1
    i1 = i1
    i2 = i2
    op = op
    stranger = stranger
    Rows <- MCRows
    HighConsequence <- MCRows
    Registered <- MCRows
    Users <- MCUsers
    Operator = op
    Unset = unset
    Interactions <- MCInteractions
    MaxFaults = 3
    NoRow = NoRow
    Idle = Idle
    Nothing = Nothing
INVARIANTS
    ShippedOnlyAsDecided
    PostedCardsAnswer
PROPERTIES
    DecisionIsFinal
    RequestsReachTheOperator
    ImplementsGate
