------------------------------- MODULE Bsmap -------------------------------
(***************************************************************************)
(* The binary search map of the 802.15.4 driver                            *)
(* (driver/src/nrf_802154_bsmap.c): a sorted array that a thread changes   *)
(* while the RADIO interrupt may look a key up between any two of its      *)
(* writes.  The interrupt is never preempted by the thread, so a lookup is *)
(* an operator on the current state.                                       *)
(*                                                                         *)
(* A write of the thread is a sequence of moves, each filling one slot of  *)
(* the array.  While a reachable slot is being overwritten its old content *)
(* is shown from the auxiliary memory.  A memcpy into the array is two     *)
(* steps, with the slot torn in between.  What is left in slots beyond the *)
(* last key, and in the auxiliary memory when no index points there, counts*)
(* as torn: a lookup that reads it is an error either way.                 *)
(***************************************************************************)
EXTENDS Integers, Sequences

CONSTANTS
    Keys,      \* ordered by memcmp; integers here
    CAPACITY,
    torn,      \* memory in the middle of a memcpy, or not in use
    none

ASSUME BsmapAssumption ==
    Keys \subseteq Int /\ Keys # {} /\ CAPACITY \in Nat \ {0}

INDEX_INVALID == -1

VARIABLES
    memory,    \* p_memory: the entries
    keysCount, \* keys_count
    auxIdx,    \* entry_idx_in_aux
    aux,       \* the entry in p_aux_memory
    moves,     \* what the write in progress still has to do
    step       \* where the first of them is: stage, show, tear, fill, grow, end

mapVars  == <<memory, keysCount, auxIdx, aux>>
bsmapVars == <<mapVars, moves, step>>

Slots == 0..(CAPACITY - 1)

\* nrf_802154_bsmap_init
BsmapInit ==
    /\ memory = [i \in Slots |-> torn]
    /\ keysCount = 0
    /\ auxIdx = INDEX_INVALID /\ aux = torn
    /\ moves = <<>> /\ step = "stage"

-----------------------------------------------------------------------------
(* Lookups *)

\* entry_ptr_from_whatever_get
Entry(i) == IF i = auxIdx THEN aux ELSE memory[i]

\* binary_search: the index found, or where the key belongs; stopped at a
\* torn entry, whose comparison has no meaning.
BinarySearch(key) ==
    LET search[w \in [a : 0..CAPACITY, b : 0..CAPACITY]] ==
            LET c == w.a + (w.b - w.a) \div 2 IN
            IF w.a >= w.b THEN [index |-> w.a, found |-> FALSE]
            ELSE IF Entry(c) = torn \/ Entry(c).key = key
            THEN [index |-> c, found |-> TRUE]
            ELSE search[IF key < Entry(c).key THEN [w EXCEPT !.b = c]
                                              ELSE [w EXCEPT !.a = c + 1]]
    IN  search[[a |-> 0, b |-> keysCount]]

\* nrf_802154_bsmap_rec_get
RecGet(key) ==
    LET s == BinarySearch(key) IN
    IF ~s.found THEN none
    ELSE IF Entry(s.index) = torn THEN torn ELSE Entry(s.index).value

-----------------------------------------------------------------------------
(* Writes *)

\* One slot is to be filled, from another slot or with a new entry.  A slot
\* beyond the last key is written in place, and then becomes reachable.
FromSlot(slot, source) == [slot |-> slot, source |-> source, entry |-> none]
NewEntry(slot, key, value) ==
    [slot |-> slot, source |-> INDEX_INVALID, entry |-> [key |-> key, value |-> value]]

\* Mutant: the entries are shifted from the lowest.
ShiftUpFromBelow(from) ==
    [n \in 1..(keysCount - from) |-> FromSlot(from + n, from + n - 1)]

\* entries_shift_up
ShiftUp(from) ==
    [n \in 1..(keysCount - from) |-> FromSlot(keysCount + 1 - n, keysCount - n)]

\* entries_shift_down
ShiftDown(to) ==
    [n \in 1..(keysCount - 1 - to) |-> FromSlot(to + n - 1, to + n)]

\* nrf_802154_bsmap_rec_write, unless the map is full
WriteMoves(key, value) ==
    LET s == BinarySearch(key) IN
    IF s.found THEN <<NewEntry(s.index, key, value)>>
    ELSE ShiftUp(s.index) \o <<NewEntry(s.index, key, value)>>

WriteFits(key) == BinarySearch(key).found \/ keysCount < CAPACITY

\* entry_delete: the move into no slot is the decrement of keys_count.
DeleteMoves(index) == ShiftDown(index) \o <<FromSlot(INDEX_INVALID, INDEX_INVALID)>>

Idle == moves = <<>>

Move == Head(moves)

Reachable == Move.slot < keysCount

\* The content the current move writes
Content == IF Move.source = INDEX_INVALID THEN Move.entry ELSE memory[Move.source]

MoveOver == moves' = Tail(moves) /\ step' = "stage"

\* entry_to_aux_memory_swap: the copy
Stage ==
    /\ ~Idle /\ step = "stage" /\ Move.slot # INDEX_INVALID
    /\ aux' = IF Reachable THEN memory[Move.slot] ELSE aux
    /\ step' = IF Reachable THEN "show" ELSE "tear"
    /\ UNCHANGED <<memory, keysCount, auxIdx, moves>>

\* entry_to_aux_memory_swap: the index
Show ==
    /\ ~Idle /\ step = "show"
    /\ auxIdx' = Move.slot
    /\ step' = "tear"
    /\ UNCHANGED <<memory, keysCount, aux, moves>>

\* entry_write_content, entry_from_key_val_direct_write and the memcpy of
\* entry_value_update
Tear ==
    /\ ~Idle /\ step = "tear"
    /\ memory' = [memory EXCEPT ![Move.slot] = torn]
    /\ step' = "fill"
    /\ UNCHANGED <<keysCount, auxIdx, aux, moves>>

Fill ==
    /\ ~Idle /\ step = "fill"
    /\ memory' = [memory EXCEPT ![Move.slot] = Content]
    /\ step' = IF Reachable THEN "end" ELSE "grow"
    /\ UNCHANGED <<keysCount, auxIdx, aux, moves>>

\* keys_count++ of entries_shift_up and of nrf_802154_bsmap_rec_write
Grow ==
    /\ ~Idle /\ step = "grow"
    /\ keysCount' = keysCount + 1
    /\ MoveOver
    /\ UNCHANGED <<memory, auxIdx, aux>>

\* entry_to_aux_memory_swap_end
End ==
    /\ ~Idle /\ step = "end"
    /\ auxIdx' = INDEX_INVALID /\ aux' = torn
    /\ MoveOver
    /\ UNCHANGED <<memory, keysCount>>

\* keys_count-- of entry_delete
Shrink ==
    /\ ~Idle /\ step = "stage" /\ Move.slot = INDEX_INVALID
    /\ keysCount' = keysCount - 1
    /\ memory' = [memory EXCEPT ![keysCount'] = torn]
    /\ MoveOver
    /\ UNCHANGED <<auxIdx, aux>>

\* nrf_802154_bsmap_clear
BsmapClear ==
    /\ keysCount' = 0
    /\ memory' = [i \in Slots |-> torn]
    /\ UNCHANGED <<auxIdx, aux, moves, step>>

BsmapStep == Stage \/ Show \/ Tear \/ Fill \/ Grow \/ End \/ Shrink
=============================================================================
