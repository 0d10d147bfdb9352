------------------------------ MODULE AckData ------------------------------
(***************************************************************************)
(* The data the 802.15.4 driver puts into ACKs, kept per peer              *)
(* (driver/src/mac_features/ack_generator/nrf_802154_ack_data.c) in a      *)
(* binary search map: the pending bit and the information elements.  The   *)
(* higher layer calls from one thread; the RADIO interrupt looks a peer up *)
(* at any time to generate an ACK.  The tables of short and of extended    *)
(* addresses are alike; this is one of them.  The switch that makes every  *)
(* pending bit 1 (nrf_802154_ack_data_enable) is left on.                  *)
(***************************************************************************)
EXTENDS Bsmap, FiniteSets

CONSTANTS
    Methods,         \* values of m_src_matching_method
    Elements,        \* information elements: records with id, length and data
    MAX_ACK_IE_SIZE  \* NRF_802154_MAX_ACK_IE_SIZE

ASSUME AckDataAssumption ==
    /\ Methods \subseteq {"THREAD", "ZIGBEE", "ALWAYS_1"} /\ Methods # {}
    /\ \A e \in Elements : e.length \in Nat \ {0}
    /\ MAX_ACK_IE_SIZE \in Nat

\* ie_data.len: what the elements of a record take
Length(ie) ==
    LET upTo[n \in 0..Len(ie)] == IF n = 0 THEN 0 ELSE upTo[n - 1] + ie[n].length
    IN  upTo[Len(ie)]

\* What the memory for the elements of a record can hold
Sequels == {ie \in UNION {[1..n -> Elements] : n \in 0..MAX_ACK_IE_SIZE} :
               Length(ie) <= MAX_ACK_IE_SIZE}

Records == [bit : BOOLEAN, ie : Sequels]

\* The markers are no entries, records or indices.
ASSUME MarkersAssumption ==
    /\ torn \notin [key : Keys, value : Records]
    /\ none \notin Records \cup Int

VARIABLES
    method,    \* m_src_matching_method, chosen before the radio is enabled
    iter,      \* index of the iterator of nrf_802154_ack_data_reset, or none
    reset,     \* the data type it resets
    goal,      \* ghost: the table once the call in progress is over
    pend,      \* ghost: peers for which the pending bit is set
    elems      \* ghost: the elements set for each peer

ghosts      == <<goal, pend, elems>>
ackDataVars == <<bsmapVars, method, iter, reset, ghosts>>

\* nrf_802154_ack_data_init
AckDataInit ==
    /\ BsmapInit
    /\ method \in Methods
    /\ iter = none /\ reset = none
    /\ goal = [k \in Keys |-> none]
    /\ pend = {} /\ elems = [k \in Keys |-> {}]

-----------------------------------------------------------------------------
(* Records *)

\* peer_rec_pending_bit_when_record_doesnt_exist
DefaultBit == method = "ZIGBEE"

\* peer_rec_fill_defaults_that_could_be_deleted
DefaultRec == [bit |-> DefaultBit, ie |-> <<>>]

\* Mutant: the elements are forgotten when the pending bit has its default.
CanBeDeletedByBit(rec) == method # "ALWAYS_1" => rec.bit = DefaultBit

\* Mutant: a record of the default pending bit is kept.
CanBeDeletedThread(rec) ==
    /\ method # "ALWAYS_1" => ~rec.bit
    /\ rec.ie = <<>>

\* peer_rec_can_be_deleted
CanBeDeleted(rec) ==
    /\ method # "ALWAYS_1" => rec.bit = DefaultBit
    /\ rec.ie = <<>>

\* ie_data_set: none if the element does not fit
IeDataSet(ie, e) ==
    LET same == {n \in DOMAIN ie : ie[n].id = e.id} IN
    IF same # {}
    THEN LET n == CHOOSE m \in same : TRUE IN
         IF ie[n].length = e.length THEN [ie EXCEPT ![n] = e] ELSE none
    ELSE IF Length(ie) + e.length <= MAX_ACK_IE_SIZE THEN Append(ie, e) ELSE none

\* peer_rec_by_data_type_clear
ClearedRec(rec, type) ==
    IF type = "IE" THEN [rec EXCEPT !.ie = <<>>] ELSE [rec EXCEPT !.bit = DefaultBit]

-----------------------------------------------------------------------------
(* Calls of the higher layer.  Each begins the write it leads to. *)

\* The record a call finds, or the default one
RecOrDefault(k) == LET r == RecGet(k) IN IF r = none THEN DefaultRec ELSE r

\* The end of nrf_802154_ack_data_for_addr_set and _clear: a record that
\* changes nothing is deleted, or not written.
Store(k, rec) ==
    LET s == BinarySearch(k) IN
    /\ step' = "stage"
    /\ moves' = IF ~CanBeDeleted(rec) THEN WriteMoves(k, rec)
                ELSE IF s.found THEN DeleteMoves(s.index) ELSE <<>>
    /\ goal' = [goal EXCEPT ![k] = IF CanBeDeleted(rec) THEN none ELSE rec]
    /\ UNCHANGED <<mapVars, method, iter, reset>>

Ready == Idle /\ iter = none

\* nrf_802154_ack_data_for_addr_set with NRF_802154_ACK_DATA_PENDING_BIT
SetPendingBit(k) ==
    LET rec == [RecOrDefault(k) EXCEPT !.bit = ~DefaultBit] IN
    /\ Ready
    /\ ~CanBeDeleted(rec) => WriteFits(k)
    /\ Store(k, rec)
    /\ pend' = pend \cup {k}
    /\ UNCHANGED elems

\* nrf_802154_ack_data_for_addr_set with NRF_802154_ACK_DATA_IE
SetIe(k, e) ==
    LET rec == RecOrDefault(k)
        ie  == IeDataSet(rec.ie, e)
    IN  /\ Ready
        /\ ie # none /\ WriteFits(k)
        /\ Store(k, [rec EXCEPT !.ie = ie])
        /\ elems' = [elems EXCEPT ![k] = {x \in @ : x.id # e.id} \cup {e}]
        /\ UNCHANGED pend

\* nrf_802154_ack_data_for_addr_clear of a peer that has a record
ClearPeer(k, type) ==
    /\ Ready /\ RecGet(k) # none
    /\ Store(k, ClearedRec(RecGet(k), type))
    /\ pend' = IF type = "IE" THEN pend ELSE pend \ {k}
    /\ elems' = IF type = "IE" THEN [elems EXCEPT ![k] = {}] ELSE elems

\* nrf_802154_bsmap_iterator_begin, backward
IterBegin == keysCount - 1

\* nrf_802154_ack_data_reset up to its loop
ResetBegin(type) ==
    LET kept(k) == ClearedRec(goal[k], type) IN
    /\ Ready
    /\ iter' = IterBegin /\ reset' = type
    /\ goal' = [k \in Keys |->
                   IF goal[k] = none \/ CanBeDeleted(kept(k)) THEN none ELSE kept(k)]
    /\ pend' = IF type = "IE" THEN pend ELSE {}
    /\ elems' = IF type = "IE" THEN [k \in Keys |-> {}] ELSE elems
    /\ UNCHANGED <<bsmapVars, method>>

\* nrf_802154_bsmap_iterator_next of a backward iteration
IterNext == iter - 1

\* One turn of the loop of nrf_802154_ack_data_reset; the iterator moves on
\* when the turn's write is done, which nothing reads before.
ResetTurn ==
    /\ Idle /\ iter # none /\ iter \in 0..(keysCount - 1)
    /\ LET e   == Entry(iter)
           rec == ClearedRec(e.value, reset)
       IN  /\ moves' = IF CanBeDeleted(rec) THEN DeleteMoves(iter)
                                            ELSE <<NewEntry(iter, e.key, rec)>>
           /\ iter' = IterNext
    /\ step' = "stage"
    /\ UNCHANGED <<mapVars, method, reset, ghosts>>

\* nrf_802154_bsmap_iterator_is_valid fails; nrf_802154_bsmap_iterator_finish
ResetEnd ==
    /\ Idle /\ iter # none /\ iter \notin 0..(keysCount - 1)
    /\ iter' = none /\ reset' = none
    /\ UNCHANGED <<bsmapVars, method, ghosts>>

\* nrf_802154_peer_table_clear
TableClear ==
    /\ Ready
    /\ BsmapClear
    /\ goal' = [k \in Keys |-> none]
    /\ pend' = {} /\ elems' = [k \in Keys |-> {}]
    /\ UNCHANGED <<method, iter, reset>>

Calls ==
    \/ \E k \in Keys : SetPendingBit(k)
    \/ \E k \in Keys, e \in Elements : SetIe(k, e)
    \/ \E k \in Keys, type \in {"IE", "PENDING_BIT"} : ClearPeer(k, type)
    \/ \E type \in {"IE", "PENDING_BIT"} : ResetBegin(type)
    \/ ResetTurn \/ ResetEnd
    \/ TableClear

AckDataNext ==
    \/ Calls
    \/ BsmapStep /\ UNCHANGED <<method, iter, reset, ghosts>>

AckDataSpec == AckDataInit /\ [][AckDataNext]_ackDataVars

-----------------------------------------------------------------------------
(* What an ACK carries *)

\* nrf_802154_ack_data_pending_bit_should_be_set for a data request with a
\* short source address
PendingBit(rec) ==
    method = "ALWAYS_1" \/ IF rec = none THEN DefaultBit ELSE rec.bit

-----------------------------------------------------------------------------
(* Properties *)

\* The array, the auxiliary index and the iterator stay within the capacity, and
\* no record grows past the memory for its elements.
TableTypeOK ==
    /\ keysCount \in 0..CAPACITY
    /\ auxIdx \in Slots \cup {INDEX_INVALID}
    /\ \A i \in Slots : memory[i] = torn \/ memory[i].key \in Keys
    /\ goal \in [Keys -> Records \cup {none}]
    /\ iter = none \/ iter \in -1..(CAPACITY - 1)

\* What the RADIO interrupt finds for a peer, at any moment
Seen == [k \in Keys |-> RecGet(k)]

Table == INSTANCE PeerTable WITH
    Peers <- Keys, Capacity <- CAPACITY, absent <- none, table <- Seen

\* Lookups are safe against the writes they interrupt, as nrf_802154_bsmap.h
\* says: whatever the thread is in the middle of, a lookup of any peer returns
\* its record before or after the call, the change happens once, and other
\* peers' records stay visible while the array is shifted.
LookupsAtomic == Table!Spec

\* The ACK generated for a peer carries what the calls have asked for: the bit
\* according to the matching method and the last element of each kind, though
\* both share a record that is dropped when it seems to say nothing, and each
\* kind is reset independently of the other.
AcksCarryWhatWasSet ==
    /\ TableTypeOK
    /\ \A k \in Keys :
          /\ PendingBit(goal[k]) <=> (method = "ALWAYS_1"
                                      \/ (k \in pend <=> method = "THREAD"))
          /\ elems[k] = IF goal[k] = none THEN {}
                        ELSE {goal[k].ie[n] : n \in DOMAIN goal[k].ie}

\* A peer takes up a place of the table only while it needs one: places freed
\* by clearing one kind of data or by a reset are not lost to other peers.
NoWastedPlace ==
    Ready => keysCount = Cardinality({k \in Keys :
                 elems[k] # {} \/ (method # "ALWAYS_1" /\ k \in pend)})
============================================================================
