SPECIFICATION Spec
CONSTANTS
    Sourcing = Sourcing
    Crimm = Crimm
    Capture = Capture
    Group = Group
    System = System
    Agents = {Sourcing, Crimm}
    Labels = {Capture}
    Budgets <- MCBudgets
    BudgetsOf <- MCBudgetsOf
    Ceiling <- MCCeiling
    Runs = {r1, r2}
    MaxCalls = 2
    MaxCost = 1
    MaxLedger = 3
    Days = 1
    Idle = Idle
INVARIANTS
    OvershootBounded
