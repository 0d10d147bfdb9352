SPECIFICATION FairSpec
CONSTANTS
    thread = thread
    hi = hi
    Radio = Radio
    LpTimer = LpTimer
    Rsch = Rsch
    Clients <- MCClients
    Prio <- MCPrio
    MaxNest = 2
    LateIrq = FALSE
INVARIANTS
    Exclusive
    NestingAsserts
    IdleConsistent
PROPERTIES
    PendingDelivered
