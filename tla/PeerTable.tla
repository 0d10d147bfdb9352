----------------------------- MODULE PeerTable -----------------------------
(***************************************************************************)
(* What nrf_802154_bsmap.h promises to the lookups of the RADIO interrupt: *)
(* a table from peers to records that a call of the thread changes one     *)
(* peer at a time, each in a single step, from what it was to what the     *)
(* call asks for, and completely before the next call begins.  No lookup   *)
(* sees a record that was never written, misses a peer that stays in the   *)
(* table or sees a change taken back.                                      *)
(***************************************************************************)
EXTENDS FiniteSets, Integers

CONSTANTS
    Peers,     \* addresses
    Records,   \* what may be stored for one
    Capacity,
    absent     \* no record

VARIABLES
    table,     \* what a lookup of each peer returns now
    goal       \* what it returns once the call in progress is over

vars == <<table, goal>>

Tables == [Peers -> Records \cup {absent}]

Size(t) == Cardinality({p \in Peers : t[p] # absent})

Init ==
    /\ table = [p \in Peers |-> absent]
    /\ goal = table

\* A call begins; the previous one is complete.
Begin ==
    /\ goal = table
    /\ goal' \in Tables /\ Size(goal') <= Capacity
    /\ UNCHANGED table

\* It takes effect for one peer.
Apply(p) ==
    /\ table' = [table EXCEPT ![p] = goal[p]]
    /\ UNCHANGED goal

\* nrf_802154_bsmap_clear takes effect for all of them.
Clear ==
    /\ goal = table
    /\ table' = [p \in Peers |-> absent]
    /\ goal' = table'

Next == Begin \/ (\E p \in Peers : Apply(p)) \/ Clear

Spec == Init /\ [][Next]_vars
============================================================================
