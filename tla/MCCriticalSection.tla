------------------------- MODULE MCCriticalSection -------------------------
(* Two clients (a thread and an interrupt more urgent than RADIO) beside the *)
(* three interrupts of the driver.                                          *)
EXTENDS CriticalSection, TLC

CONSTANTS thread, hi

MCClients == {thread, hi}

MCPrio == (Rsch :> 0) @@ (hi :> 1) @@ (Radio :> 2) @@ (LpTimer :> 3)
            @@ (thread :> 4)
=============================================================================
