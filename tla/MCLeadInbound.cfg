\* The intake decides a target whose last trigger is a lead.
CHECK_DEADLOCK FALSE
SPECIFICATION Spec
CONSTANTS
    l1 = l1
    l2 = l2
    f1 = f1
    w1 = w1
    w2 = w2
    Leads <- MCLeads
    Firms <- MCFirms
    Workers <- MCWorkers
    Hosts <- MCHosts
    Pains = 1
    MaxPosts <- MCMaxPosts
    MaxDays = 2
    MaxFaults = 0
    None = None
INVARIANT InboundNeverRunsTheArc
