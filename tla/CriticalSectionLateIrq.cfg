SPECIFICATION Spec
CONSTANTS
    thread = thread
    hi = hi
    Radio = Radio
    LpTimer = LpTimer
    Rsch = Rsch
    Clients <- MCClients
    Prio <- MCPrio
    MaxNest = 2
    LateIrq = TRUE
INVARIANT
    RadioMaskedInSection
