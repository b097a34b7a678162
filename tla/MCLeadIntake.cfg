\* Every delivery made, every day gone, the target decided: nothing is left to do.
CHECK_DEADLOCK FALSE
SPECIFICATION FairSpec
CONSTANTS
    l1 = l1
    l2 = l2
    f1 = f1
    w1 = w1
    w2 = w2
    Leads <- MCLeads
    Firms <- MCFirms
    Workers <- MCWorkers
    Hosts <- MCHosts
    Pains = 1
    MaxPosts <- MCMaxPosts
    MaxDays = 2
    MaxFaults = 1
    None = None
INVARIANTS
    QualifiedOnce
    NewestTriggerWins
PROPERTIES
    LeadsAreDealtWith
