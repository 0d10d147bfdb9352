-------------------------- MODULE DelayedTrxProofs --------------------------
(***************************************************************************)
(* The delayed operations, for any number of slots and any identifiers:    *)
(* the assertions hold, every accepted window and frame has one outcome,   *)
(* and slots, timers, timeslots and the queue agree.                       *)
(***************************************************************************)
EXTENDS DelayedTrx, FiniteSetTheorems, WellFoundedInduction, TLAPS

\* A callback of the scheduler is at work on the window isr.id.
Opening == isr.pc \in {"request", "notify", "release"}

\* The window isr.id has been refused, and told so, but its slot is not free yet.
Refused(i) == isr.pc = "release" /\ ~isr.ok /\ isr.id = i

\* A cancellation is at work on slot hl.slot; it has stopped the window if ok.
Cancelling == hl.pc \in {"timeslot", "timer", "finish"}
HasStopped(s) ==
    /\ hl.pc \in {"timer", "finish"} /\ hl.ok
    /\ hl.slot = s /\ id[s] = hl.id

\* Identifier, state and timer of each slot.
IdsOK ==
    /\ \A s, r \in Slots : id[s] = id[r] /\ id[s] # INVALID => s = r
    /\ \A s \in Slots : st[s] = "STOPPED" => timer[s] = "idle" /\ id[s] = INVALID
    /\ \A s \in Slots : id[s] = INVALID =>
          st[s] = "STOPPED" \/ (hl.pc = "request" /\ hl.slot = s)

TimersOK ==
    /\ \A s \in Slots : timer[s] # "idle" => st[s] = "ONGOING"
    /\ \A s, r \in Slots : timer[s] # "idle" /\ timer[r] # "idle" => s = r
    /\ \A s \in Slots : timer[s] = "fired" <=>
          isr.pc \in {"latch", "timeout"} /\ isr.slot = s

\* Who is bound to end a slot in use.
PendingOK ==
    \A s \in Slots : st[s] = "PENDING" =>
        \/ id[s] \in ts
        \/ hl.pc = "request" /\ hl.slot = s
        \/ HasStopped(s)

OngoingOK ==
    \A s \in Slots : st[s] = "ONGOING" =>
        \/ timer[s] # "idle"
        \/ isr.pc \in {"request", "notify"} /\ isr.slot = s
        \/ isr.pc = "release" /\ ~isr.ok /\ isr.slot = s
        \/ hl.pc = "finish" /\ HasStopped(s)

\* A timeslot belongs to a window that waits for it, or its callback is running.
TimeslotsOK ==
    \A i \in ts \cap Ids :
        \/ \E s \in Slots : id[s] = i /\ st[s] = "PENDING"
        \/ Opening /\ isr.id = i

\* The callback holds its timeslot; until the window is open its slot is its own.
OpeningOK ==
    /\ Opening => /\ isr.id \in ts \cap Ids
                  /\ \A s \in Slots : id[s] = isr.id => st[s] = "ONGOING"
    /\ isr.pc \in {"request", "notify"} \/ (isr.pc = "release" /\ ~isr.ok) =>
          /\ st[isr.slot] = "ONGOING" /\ id[isr.slot] = isr.id
          /\ timer[isr.slot] = "idle"

QueueOK ==
    /\ isr.pc = "request" => qMem[qRd] = isr.slot /\ qWr = IncrementModulo(qRd)
    /\ isr.pc # "request" => qRd = qWr
    /\ isr.pc = "notify" => qMem[isr.ptr] = isr.slot

\* A reception being requested has taken its slot and no one knows its identifier.
RequestOK ==
    hl.pc = "request" =>
        /\ hl.id \in Ids /\ hl.id \notin ts
        /\ st[hl.slot] = "PENDING" /\ id[hl.slot] = INVALID
        /\ \A s \in Slots : id[s] # hl.id

\* A cancellation's slot carries its identifier until something frees the slot;
\* what it has stopped nobody else ends, and what it has not stopped has ended.
CancelOK ==
    /\ Cancelling => /\ hl.id \in Ids
                     /\ \A s \in Slots : id[s] = hl.id => s = hl.slot
                     /\ id[hl.slot] \in {hl.id, INVALID}
    /\ hl.pc \in {"timer", "finish"} =>
          /\ hl.id \notin ts
          /\ hl.ok => id[hl.slot] = hl.id /\ timer[hl.slot] = "idle"
    /\ hl.pc = "timer" => hl.op # "scheduled" /\ (hl.ok => st[hl.slot] = "PENDING")
    /\ hl.pc = "finish" /\ ~hl.ok /\ hl.op # "scheduled" => id[hl.slot] = INVALID

\* The transmit slot.
TxOK ==
    /\ txSt = "STOPPED" => txId = INVALID
    /\ txSt = "ONGOING" <=> txOp
    /\ txSt # "STOPPED" /\ hl.pc # "txRequest" => txId = DTX
    /\ hl.pc \in {"txRequest", "txFinish"} => txSt = "PENDING" /\ DTX \notin ts
    /\ DTX \in ts => txSt = "PENDING" /\ txId = DTX
    /\ txSt = "PENDING" => DTX \in ts \/ hl.pc \in {"txRequest", "txFinish"}
    /\ txOwed = IF txSt = "STOPPED" \/ hl.pc = "txRequest" THEN 0 ELSE 1

\* Exactly the windows in a slot are owed an outcome, but for a refused one.
OwedOK ==
    \A i \in Ids : owed[i] = IF Live(i) /\ ~Refused(i) THEN 1 ELSE 0

IInv ==
    /\ TypeOK /\ AssertsHold
    /\ IdsOK /\ TimersOK /\ PendingOK /\ OngoingOK /\ TimeslotsOK
    /\ OpeningOK /\ QueueOK /\ RequestOK /\ CancelOK /\ TxOK /\ OwedOK

-----------------------------------------------------------------------------
\* The slots are finitely many, so a search for the first of some finds one.
LEMMA MinExists ==
    ASSUME NEW S, S \subseteq Slots, S # {}
    PROVE  Min(S) \in S
  <1>. DEFINE Upto(m) == {r \in S : r <= m}
              T == {Upto(m) : m \in S}
  <1>1. S \subseteq Int
    BY DelayedAssumption DEF Slots
  <1>2. IsFiniteSet(S)
    <2>1. 0 \in Int /\ DRX_SLOTS - 1 \in Int
      BY DelayedAssumption
    <2>2. IsFiniteSet(Slots)
      BY <2>1, FS_Interval DEF Slots
    <2>. QED
      BY <2>2, FS_Subset
  <1>3. T \subseteq FiniteSubsetsOf(S) /\ T # {}
    <2>1. T \subseteq SUBSET S /\ T # {}
      OBVIOUS
    <2>. QED
      BY <1>2, <2>1, FS_FiniteSubsetsOfFinite
  <1>4. PICK x \in T : \A y \in T : <<y, x>> \notin StrictSubsetOrdering(S)
    <2>1. IsWellFoundedOn(StrictSubsetOrdering(S), FiniteSubsetsOf(S))
      BY FS_StrictSubsetOrderingWellFounded
    <2>. HIDE DEF T
    <2>. QED
      BY <2>1, <1>3, WFMin
  <1>5. PICK m \in S : x = Upto(m)
    OBVIOUS
  <1>6. ASSUME NEW r \in S PROVE m <= r
    <2>1. SUFFICES ASSUME r < m PROVE FALSE
      BY <1>1
    <2>2. r \in Int /\ m \in Int /\ r < m
      BY <1>1, <2>1
    <2>3. ASSUME NEW q \in S, q <= r PROVE q <= m
      BY <1>1, <2>2, <2>3
    <2>4. Upto(r) \subseteq Upto(m)
      BY <2>3
    <2>5. m \in Upto(m) /\ m \notin Upto(r)
      BY <2>2
    <2>6. <<Upto(r), x>> \in StrictSubsetOrdering(S)
      BY <1>5, <2>4, <2>5 DEF StrictSubsetOrdering
    <2>. QED
      BY <1>4, <2>6
  <1>. QED
    BY <1>6 DEF Min

\* A set whose members are all the same counts for at most one.
LEMMA AtMostOne ==
    ASSUME NEW S, \A s, r \in S : s = r
    PROVE  Cardinality(S) = IF S = {} THEN 0 ELSE 1
  <1>1. CASE S = {}
    BY <1>1, FS_EmptySet
  <1>2. ASSUME NEW s \in S PROVE Cardinality(S) = 1
    <2>1. S = {s}
      OBVIOUS
    <2>. QED
      BY <2>1, FS_Singleton
  <1>. QED
    BY <1>1, <1>2

\* Identifiers are unique, so a window loses one outcome if its slot is ended.
LEMMA EndedCount ==
    ASSUME IdsOK, NEW A, A \subseteq Slots
    PROVE  Ended(A) =
               [i \in Ids |-> owed[i] - IF \E s \in A : id[s] = i THEN 1 ELSE 0]
  <1>1. ASSUME NEW i \in Ids
        PROVE  Cardinality({s \in A : id[s] = i}) =
                   IF \E s \in A : id[s] = i THEN 1 ELSE 0
    <2>. DEFINE S == {s \in A : id[s] = i}
    <2>1. \A s, r \in S : s = r
      BY DelayedAssumption DEF IdsOK
    <2>2. Cardinality(S) = IF S = {} THEN 0 ELSE 1
      <3>. HIDE DEF S
      <3>. QED
        BY <2>1, AtMostOne
    <2>3. S = {} <=> ~ \E s \in A : id[s] = i
      OBVIOUS
    <2>. QED
      BY <2>2, <2>3
  <1>. QED
    BY <1>1 DEF Ended

\* dly_rx_data_by_id_search finds the one slot that carries the identifier.
LEMMA FoundOne ==
    ASSUME IdsOK, NEW i \in Ids, Found(i) # {}
    PROVE  /\ Cardinality(Found(i)) = 1
           /\ Min(Found(i)) \in Slots /\ id[Min(Found(i))] = i
           /\ \A s \in Slots : id[s] = i => s = Min(Found(i))
  <1>1. \A s, r \in Found(i) : s = r
    BY DelayedAssumption DEF IdsOK, Found
  <1>2. Cardinality(Found(i)) = 1
    BY <1>1, AtMostOne
  <1>3. Min(Found(i)) \in Found(i)
    BY MinExists DEF Found
  <1>. QED
    BY <1>1, <1>2, <1>3 DEF Found

\* The next entry of the ring is another one.
LEMMA NextEntry ==
    ASSUME NEW v \in Slots
    PROVE  IncrementModulo(v) \in Slots /\ IncrementModulo(v) # v
  BY DelayedAssumption DEF Slots, IncrementModulo

-----------------------------------------------------------------------------
\* Nothing is scheduled at first.
LEMMA InitIInv == Init => IInv
  <1>. SUFFICES ASSUME Init PROVE IInv
    OBVIOUS
  <1>1. 0 \in Slots
    BY DelayedAssumption DEF Slots
  <1>2. TypeOK
    <2>1. NoIsr \in [pc : IsrPcs, slot : Slots, id : Ids \cup {INVALID},
                     ok : BOOLEAN, ptr : Slots]
      BY <1>1, Zenon DEF NoIsr, IsrPcs
    <2>2. NoCall \in [pc : HlPcs, op : Calls, slot : Slots,
                      id : Ids \cup {INVALID}, ok : BOOLEAN]
      BY <1>1, Zenon DEF NoCall, HlPcs, Calls
    <2>3. 0 \in Int
      OBVIOUS
    <2>. QED
      BY <1>1, <2>1, <2>2, <2>3, Zenon DEF Init, TypeOK, OpStates
  <1>3. AssertsHold /\ IdsOK /\ TimersOK /\ PendingOK /\ OngoingOK /\ TimeslotsOK
    BY DEF Init, NoIsr, NoCall, AssertsHold, IdsOK, TimersOK, PendingOK,
       OngoingOK, TimeslotsOK
  <1>4. OpeningOK /\ QueueOK /\ RequestOK /\ CancelOK /\ TxOK
    BY DEF Init, NoIsr, NoCall, OpeningOK, Opening, QueueOK, RequestOK, CancelOK,
       Cancelling, TxOK
  <1>5. OwedOK
    BY DelayedAssumption DEF Init, OwedOK, Live
  <1>. QED
    BY <1>2, <1>3, <1>4, <1>5 DEF IInv

\* nrf_802154_delayed_trx_receive_cancel_all goes on with a slot in use.
LEMMA VisitFromNext ==
    ASSUME NEW from \in Int, VisitFrom(from)
    PROVE  \/ hl' = NoCall
           \/ \E s \in Slots : /\ s >= from /\ id[s] # INVALID
                               /\ hl' = [pc |-> "timeslot", op |-> "all", slot |-> s,
                                         id |-> id[s], ok |-> FALSE]
  <1>1. CASE NextActive(from) = {}
    BY <1>1 DEF VisitFrom
  <1>2. CASE NextActive(from) # {}
    <2>1. Min(NextActive(from)) \in NextActive(from)
      BY <1>2, MinExists DEF NextActive
    <2>. QED
      BY <1>2, <2>1 DEF VisitFrom, NextActive, NoCall
  <1>. QED
    BY <1>1, <1>2

\* available_dly_rx_slot_get takes a slot that was stopped.
LEMMA ReceiveTakes ==
    ASSUME NEW i \in Ids, Receive(i)
    PROVE  \E s \in Slots : /\ st[s] = "STOPPED"
                            /\ st' = [st EXCEPT ![s] = "PENDING"]
                            /\ hl' = [pc |-> "request", op |-> "receive", slot |-> s,
                                      id |-> i, ok |-> FALSE]
  <1>. DEFINE S == {r \in Slots : st[r] = "STOPPED"}
  <1>1. S \subseteq Slots /\ S # {}
    BY DEF Receive
  <1>2. Min(S) \in S
    <2>. HIDE DEF S
    <2>. QED
      BY <1>1, MinExists
  <1>. QED
    BY <1>2 DEF Receive, NoCall

-----------------------------------------------------------------------------
\* The windows in the slots A end: the balance stays a balance.
LEMMA EndedType ==
    ASSUME IInv, NEW A, A \subseteq Slots
    PROVE  Ended(A) \in [Ids -> Int]
  <1>1. Ended(A) = [i \in Ids |-> owed[i] - IF \E s \in A : id[s] = i THEN 1 ELSE 0]
    BY EndedCount DEF IInv
  <1>. QED
    BY <1>1 DEF IInv, TypeOK

\* The type invariant in three parts: slots, the other data, the two contexts.
SlotType ==
    /\ st \in [Slots -> OpStates] /\ id \in [Slots -> Ids \cup {INVALID}]
    /\ timer \in [Slots -> {"idle", "running", "fired"}]
    /\ frame \in [Slots -> BOOLEAN]
RestType ==
    /\ qMem \in [Slots -> Slots] /\ qWr \in Slots /\ qRd \in Slots
    /\ txSt \in OpStates /\ txId \in {INVALID, DTX} /\ txOp \in BOOLEAN
    /\ ts \subseteq Ids \cup {DTX}
    /\ owed \in [Ids -> Int] /\ txOwed \in Int
ContextType ==
    /\ isr \in [pc : IsrPcs, slot : Slots, id : Ids \cup {INVALID},
                ok : BOOLEAN, ptr : Slots]
    /\ hl \in [pc : HlPcs, op : Calls, slot : Slots,
               id : Ids \cup {INVALID}, ok : BOOLEAN]

\* The call goes on, or it returns.
LEMMA VisitType ==
    ASSUME SlotType, NEW from \in Int, VisitFrom(from)
    PROVE  hl' \in [pc : HlPcs, op : Calls, slot : Slots,
                    id : Ids \cup {INVALID}, ok : BOOLEAN]
  <1>1. CASE hl' = NoCall
    <2>1. 0 \in Slots
      BY DelayedAssumption DEF Slots
    <2>. QED
      BY <1>1, <2>1 DEF NoCall, HlPcs, Calls
  <1>2. ASSUME NEW s \in Slots, hl' = [pc |-> "timeslot", op |-> "all", slot |-> s,
                                       id |-> id[s], ok |-> FALSE]
        PROVE  hl' \in [pc : HlPcs, op : Calls, slot : Slots,
                        id : Ids \cup {INVALID}, ok : BOOLEAN]
    BY <1>2 DEF SlotType, HlPcs, Calls
  <1>. QED
    BY <1>1, <1>2, VisitFromNext

\* Freeing slots keeps the types.
LEMMA FreeType ==
    ASSUME SlotType, NEW A, Free(A)
    PROVE  /\ st' \in [Slots -> OpStates] /\ id' \in [Slots -> Ids \cup {INVALID}]
           /\ frame' \in [Slots -> BOOLEAN]
  <1>1. st' \in [Slots -> OpStates] /\ id' \in [Slots -> Ids \cup {INVALID}]
    BY DEF SlotType, Free, OpStates
  <1>2. frame' \in [Slots -> BOOLEAN]
    BY Zenon DEF Free
  <1>. QED
    BY <1>1, <1>2

\* Every variable stays in its range.
LEMMA NextTypes == ASSUME IInv, [Next]_vars PROVE (SlotType /\ RestType /\ ContextType)'
  <1>. USE DelayedAssumption DEF slotVars, queueVars, txVars
  <1>0. SlotType /\ RestType /\ ContextType /\ 0 \in Slots
    BY DEF IInv, TypeOK, Slots, SlotType, RestType, ContextType
  <1>. USE <1>0 DEF SlotType, RestType, ContextType, ThreadRuns, NoCall, NoIsr, OpStates,
            IsrPcs, HlPcs, Calls
  <1>1. ASSUME NEW i \in Ids, Receive(i) PROVE (SlotType /\ RestType /\ ContextType)'
    <2>1. PICK s \in Slots : /\ st' = [st EXCEPT ![s] = "PENDING"]
                             /\ hl' = [pc |-> "request", op |-> "receive", slot |-> s,
                                       id |-> i, ok |-> FALSE]
      BY <1>1, ReceiveTakes
    <2>. QED
      <3>1. UNCHANGED <<id, timer, frame, queueVars, txVars, ts, isr, owed, txOwed>>
        BY <1>1 DEF Receive
      <3>. QED
        BY <2>1, <3>1
  <1>2. CASE ReceiveRequest
    <2>1. hl.id \in Ids
      BY <1>2 DEF ReceiveRequest, IInv, RequestOK
    <2>2. SlotType'
      <3>1. CASE Free({hl.slot})
        BY <1>2, <3>1, FreeType DEF ReceiveRequest
      <3>2. CASE id' = [id EXCEPT ![hl.slot] = hl.id] /\ UNCHANGED <<st, frame>>
        BY <1>2, <2>1, <3>2 DEF ReceiveRequest
      <3>. QED
        BY <1>2, <3>1, <3>2 DEF ReceiveRequest
    <2>3. RestType'
      BY <1>2, <2>1 DEF ReceiveRequest
    <2>4. ContextType'
      BY <1>2 DEF ReceiveRequest
    <2>. QED
      BY <2>2, <2>3, <2>4
  <1>3. ASSUME NEW i \in Ids, NEW op \in {"cancel", "scheduled"}, Cancel(op, i)
        PROVE  (SlotType /\ RestType /\ ContextType)'
    <2>1. Min(Found(i)) \in Slots
      BY <1>3, FoundOne DEF Cancel, IInv
    <2>2. hl' = [pc |-> "timeslot", op |-> op, slot |-> Min(Found(i)), id |-> i,
                 ok |-> FALSE]
      BY <1>3 DEF Cancel
    <2>. QED
      BY <1>3, <2>1, <2>2 DEF Cancel
  <1>4. CASE CancelAll
    <2>1. ContextType'
      <3>1. VisitFrom(0)
        BY <1>4 DEF CancelAll
      <3>. QED
        BY <1>4, <3>1, VisitType DEF CancelAll
    <2>. QED
      BY <1>4, <2>1 DEF CancelAll
  <1>5. CASE CancelTimeslot
    <2>1. (hl.id \in ts) \in BOOLEAN
      OBVIOUS
    <2>. QED
      BY <1>5, <2>1 DEF CancelTimeslot
  <1>6. CASE CancelTimer
    BY <1>6 DEF CancelTimer
  <1>7. CASE CancelFinish
    <2>1. ContextType'
      <3>1. hl.slot + 1 \in Int
        BY DEF Slots
      <3>2. CASE hl.op = "all"
        BY <1>7, <3>1, <3>2, VisitType DEF CancelFinish
      <3>3. CASE hl.op # "all"
        <4>1. hl' = NoCall /\ isr' = isr
          BY <1>7, <3>3, Zenon DEF CancelFinish
        <4>. QED
          BY <4>1
      <3>. QED
        BY <3>2, <3>3
    <2>2. SlotType'
      BY <1>7, FreeType DEF CancelFinish
    <2>3. hl.id \in Ids
      BY <1>7 DEF CancelFinish, IInv, CancelOK, Cancelling
    <2>4. RestType'
      BY <1>7, <2>3 DEF CancelFinish
    <2>. QED
      BY <2>1, <2>2, <2>4
  <1>8. CASE Transmit
    BY <1>8 DEF Transmit
  <1>9. CASE TransmitRequest
    BY <1>9 DEF TransmitRequest
  <1>10. CASE TransmitCancel
    BY <1>10 DEF TransmitCancel
  <1>11. CASE TransmitCancelFinish
    BY <1>11 DEF TransmitCancelFinish
  <1>12. ASSUME NEW i \in Ids, RxTimeslotStarted(i)
         PROVE  (SlotType /\ RestType /\ ContextType)'
    <2>1. Min(Found(i)) \in Slots
      BY <1>12, FoundOne DEF RxTimeslotStarted, IInv
    <2>2. SlotType'
      BY <1>12 DEF RxTimeslotStarted
    <2>3. RestType'
      BY <1>12, <2>1, NextEntry DEF RxTimeslotStarted
    <2>4. ContextType'
      BY <1>12, <2>1 DEF RxTimeslotStarted
    <2>. QED
      BY <2>2, <2>3, <2>4
  <1>13. ASSUME NEW a \in BOOLEAN, NEW b \in BOOLEAN, TxTimeslotStarted(a, b)
         PROVE  (SlotType /\ RestType /\ ContextType)'
    <2>1. Ended(Removed) \in [Ids -> Int]
      BY EndedType DEF Removed
    <2>2. SlotType'
      <3>1. CASE a
        BY <1>13, <3>1, FreeType DEF TxTimeslotStarted, AbortAllOngoing
      <3>. QED
        BY <1>13, <3>1 DEF TxTimeslotStarted
    <2>3. RestType'
      BY <1>13, <2>1 DEF TxTimeslotStarted, AbortAllOngoing
    <2>4. ContextType'
      BY <1>13 DEF TxTimeslotStarted
    <2>. QED
      BY <2>2, <2>3, <2>4
  <1>14. ASSUME NEW s \in Slots, TimerFires(s) PROVE (SlotType /\ RestType /\ ContextType)'
    <2>1. SlotType'
      BY <1>14 DEF TimerFires
    <2>2. RestType'
      BY <1>14 DEF TimerFires
    <2>3. ContextType'
      BY <1>14 DEF TimerFires
    <2>. QED
      BY <2>1, <2>2, <2>3
  <1>15. ASSUME NEW ok \in BOOLEAN, ReceiveAttempt(ok)
         PROVE  (SlotType /\ RestType /\ ContextType)'
    <2>1. IncrementModulo(qRd) \in Slots
      BY NextEntry
    <2>2. SlotType' /\ RestType'
      BY <1>15, <2>1 DEF ReceiveAttempt
    <2>3. ContextType'
      BY <1>15 DEF ReceiveAttempt
    <2>. QED
      BY <2>2, <2>3
  <1>16. CASE ResultNotifySuccess
    <2>1. Ended(Removed) \in [Ids -> Int]
      BY EndedType DEF Removed
    <2>2. SlotType'
      BY <1>16 DEF ResultNotifySuccess
    <2>3. RestType' /\ ContextType'
      BY <1>16, <2>1 DEF ResultNotifySuccess
    <2>. QED
      BY <2>2, <2>3
  <1>17. CASE ResultNotifyFailure
    <2>1. Ended({qMem[isr.ptr]}) \in [Ids -> Int]
      BY EndedType
    <2>2. SlotType'
      BY <1>17 DEF ResultNotifyFailure
    <2>3. RestType'
      BY <1>17, <2>1 DEF ResultNotifyFailure
    <2>4. ContextType'
      BY <1>17 DEF ResultNotifyFailure
    <2>. QED
      BY <2>2, <2>3, <2>4
  <1>18. CASE ReleaseTimeslot
    BY <1>18, FreeType DEF ReleaseTimeslot
  <1>19. CASE TimeoutLatch
    <2>1. SlotType' /\ RestType' /\ hl' = hl
      BY <1>19 DEF TimeoutLatch
    <2>2. isr' = [isr EXCEPT !.pc = "timeout", !.ok = frame[isr.slot]]
      BY <1>19 DEF TimeoutLatch
    <2>3. frame[isr.slot] \in BOOLEAN
      OBVIOUS
    <2>. QED
      BY <2>1, <2>2, <2>3
  <1>20. CASE Timeout
    <2>1. Ended({isr.slot}) \in [Ids -> Int]
      BY EndedType
    <2>. QED
      <3>1. CASE isr.ok
        BY <1>20, <3>1 DEF Timeout
      <3>2. CASE ~isr.ok
        <4>1. SlotType'
          BY <1>20, <3>2, FreeType DEF Timeout
        <4>2. RestType'
          BY <1>20, <2>1, <3>2 DEF Timeout
        <4>3. ContextType'
          BY <1>20 DEF Timeout
        <4>. QED
          BY <4>1, <4>2, <4>3
      <3>. QED
        BY <3>1, <3>2
  <1>21. CASE CoreTerminate
    <2>1. Ended(Removed) \in [Ids -> Int]
      BY EndedType DEF Removed
    <2>. QED
      BY <1>21, <2>1, FreeType DEF CoreTerminate, AbortAllOngoing
  <1>22. CASE RxStartedHook
    <2>1. frame' \in [Slots -> BOOLEAN]
      BY <1>22, Zenon DEF RxStartedHook
    <2>2. isr' = isr \/ isr' = [isr EXCEPT !.ok = ~isr.ok]
      BY <1>22, Zenon DEF RxStartedHook
    <2>3. isr' \in [pc : IsrPcs, slot : Slots, id : Ids \cup {INVALID},
                   ok : BOOLEAN, ptr : Slots]
      BY <2>2
    <2>4. UNCHANGED <<st, id, timer, queueVars, txVars, ts, hl, owed, txOwed, assertsHold>>
      BY <1>22, Zenon DEF RxStartedHook
    <2>. QED
      BY <2>1, <2>3, <2>4
  <1>23. CASE TxEnds
    <2>1. SlotType' /\ ContextType'
      BY <1>23 DEF TxEnds
    <2>2. txSt' \in OpStates /\ txId' \in {INVALID, DTX} /\ txOp' \in BOOLEAN
      BY <1>23 DEF TxEnds
    <2>3. txOwed' \in Int
      BY <1>23 DEF TxEnds
    <2>. QED
      BY <1>23, <2>1, <2>2, <2>3 DEF TxEnds
  <1>24. ASSUME NEW s \in Slots, FrameEnds(s) PROVE (SlotType /\ RestType /\ ContextType)'
    BY <1>24 DEF FrameEnds
  <1>25. CASE UNCHANGED vars
    BY <1>25 DEF vars
  <1>. QED
    BY <1>1, <1>2, <1>3, <1>4, <1>5, <1>6, <1>7, <1>8, <1>9, <1>10, <1>11, <1>12, <1>13,
       <1>14, <1>15, <1>16, <1>17, <1>18, <1>19, <1>20, <1>21, <1>22, <1>23, <1>24,
       <1>25
    DEF Next, HigherLayer, HigherLayerSteps, CallbackStarts, CallbackSteps, Core

\* Where an assertion is evaluated, the invariant makes it true.
LEMMA NextAsserts == ASSUME IInv, [Next]_vars PROVE assertsHold' = TRUE
  <1>. USE DelayedAssumption DEF Assert, ThreadRuns
  <1>0. assertsHold = TRUE
    BY Zenon DEF IInv, TypeOK, AssertsHold
  <1>1. CASE ReceiveRequest
    BY <1>0, <1>1 DEF ReceiveRequest, IInv, RequestOK
  <1>2. ASSUME NEW i \in Ids, NEW op \in {"cancel", "scheduled"}, Cancel(op, i)
        PROVE  assertsHold' = TRUE
    <2>1. Cardinality(Found(i)) = 1
      BY <1>2, FoundOne DEF Cancel, IInv
    <2>. QED
      BY <1>0, <1>2, <2>1 DEF Cancel
  <1>3. CASE TransmitRequest
    BY <1>0, <1>3 DEF TransmitRequest, IInv, TxOK
  <1>4. CASE TransmitCancelFinish
    BY <1>0, <1>4 DEF TransmitCancelFinish, IInv, TxOK
  <1>5. ASSUME NEW i \in Ids, RxTimeslotStarted(i) PROVE assertsHold' = TRUE
    <2>1. Cardinality(Found(i)) = 1
      BY <1>5, FoundOne DEF RxTimeslotStarted, IInv
    <2>2. ~QueueIsFull
      BY <1>5, NextEntry DEF RxTimeslotStarted, IInv, TypeOK, QueueOK, QueueIsFull
    <2>. QED
      BY <1>0, <1>5, <2>1, <2>2 DEF RxTimeslotStarted
  <1>6. \A s \in Removed : st[s] = "ONGOING"
    BY DEF Removed, IInv, TimersOK
  <1>7. ASSUME NEW a \in BOOLEAN, NEW b \in BOOLEAN, TxTimeslotStarted(a, b)
        PROVE  assertsHold' = TRUE
    <2>1. txId = DTX /\ txSt = "PENDING"
      BY <1>7 DEF TxTimeslotStarted, IInv, TxOK
    <2>. QED
      BY <1>0, <1>6, <1>7, <2>1 DEF TxTimeslotStarted, AbortAllOngoing
  <1>8. CASE ResultNotifySuccess
    <2>1. timer[qMem[isr.ptr]] # "fired"
      BY <1>8 DEF ResultNotifySuccess, IInv, TypeOK, TimersOK, QueueOK
    <2>. QED
      BY <1>0, <1>6, <1>8, <2>1 DEF ResultNotifySuccess
  <1>9. CASE ReleaseTimeslot
    BY <1>0, <1>9 DEF ReleaseTimeslot, IInv, OpeningOK, Opening
  <1>10. CASE Timeout
    <2>1. st[isr.slot] = "ONGOING"
      BY <1>10 DEF Timeout, IInv, TypeOK, TimersOK
    <2>. QED
      BY <1>0, <1>10, <2>1 DEF Timeout
  <1>11. CASE CoreTerminate
    BY <1>0, <1>6, <1>11 DEF CoreTerminate, AbortAllOngoing
  <1>12. CASE TxEnds
    BY <1>0, <1>12 DEF TxEnds, IInv, TxOK
  <1>13. CASE UNCHANGED assertsHold
    BY <1>0, <1>13
  <1>. QED
    <2>1. ASSUME NEW i \in Ids, Receive(i) PROVE UNCHANGED assertsHold
      BY <2>1 DEF Receive
    <2>2. CASE CancelAll \/ CancelTimeslot \/ CancelTimer \/ CancelFinish
      BY <2>2, <1>0 DEF CancelAll, CancelTimeslot, CancelTimer, CancelFinish
    <2>3. CASE Transmit \/ TransmitCancel \/ ResultNotifyFailure \/ TimeoutLatch \/ RxStartedHook
      BY <2>3, <1>0 DEF Transmit, TransmitCancel, ResultNotifyFailure, TimeoutLatch, RxStartedHook
    <2>4. ASSUME NEW s \in Slots, TimerFires(s) \/ FrameEnds(s) PROVE UNCHANGED assertsHold
      BY <2>4 DEF TimerFires, FrameEnds
    <2>5. ASSUME NEW ok \in BOOLEAN, ReceiveAttempt(ok) PROVE UNCHANGED assertsHold
      BY <2>5 DEF ReceiveAttempt
    <2>6. CASE UNCHANGED vars
      BY <1>0, <2>6 DEF vars
    <2>. QED
      BY <1>1, <1>2, <1>3, <1>4, <1>5, <1>7, <1>8, <1>9, <1>10, <1>11, <1>12, <1>13,
         <2>1, <2>2, <2>3, <2>4, <2>5, <2>6, <1>0
      DEF Next, HigherLayer, HigherLayerSteps, CallbackStarts, CallbackSteps, Core

\* The parts of the invariant that relate the slots and the contexts.
Slotwise == IdsOK /\ TimersOK /\ PendingOK /\ OngoingOK /\ TimeslotsOK
Contexts == OpeningOK /\ QueueOK /\ RequestOK /\ CancelOK /\ TxOK /\ OwedOK

\* The windows in the slots A, whose timers were running, are aborted.
Aborts(A) ==
    /\ \A s \in Slots :
          /\ id'[s] = IF s \in A THEN INVALID ELSE id[s]
          /\ st'[s] = IF s \in A THEN "STOPPED" ELSE st[s]
          /\ timer'[s] = IF s \in A THEN "idle" ELSE timer[s]
    /\ owed' = [i \in Ids |-> owed[i] - IF \E s \in A : id[s] = i THEN 1 ELSE 0]

\* dly_rx_all_ongoing_abort ends the windows whose timer was still running ...
LEMMA AbortEffect ==
    ASSUME IdsOK, NEW ok, AbortAllOngoing(ok)
    PROVE  \E A : A \subseteq {s \in Slots : timer[s] = "running"} /\ Aborts(A)
  <1>1. Removed = {s \in Slots : timer[s] = "running"}
    BY DEF Removed
  <1>2. owed' = [i \in Ids |-> owed[i] - IF \E s \in Removed : id[s] = i THEN 1 ELSE 0]
    BY <1>1, EndedCount DEF AbortAllOngoing
  <1>3. Aborts(Removed)
    BY <1>2 DEF Aborts, AbortAllOngoing, Free
  <1>. QED
    BY <1>1, <1>3

\* ... and a frame that is refused before it leaves them alone.
LEMMA NoAbortEffect ==
    ASSUME TypeOK, UNCHANGED <<slotVars, owed>>
    PROVE  \E A : A \subseteq {s \in Slots : timer[s] = "running"} /\ Aborts(A)
  <1>1. owed' = [i \in Ids |-> owed[i] - IF \E s \in {} : id[s] = i THEN 1 ELSE 0]
    BY DEF TypeOK
  <1>2. Aborts({})
    BY <1>1 DEF Aborts, slotVars
  <1>. QED
    BY <1>2

\* Every step of the three contexts.
LEMMA NextParts == ASSUME IInv, [Next]_vars PROVE (Slotwise /\ Contexts)'
  <1>. USE DelayedAssumption DEF IInv, TypeOK, OpStates, Slotwise, Contexts,
           IdsOK, TimersOK, PendingOK, OngoingOK, TimeslotsOK, OpeningOK,
           Opening, QueueOK, RequestOK, CancelOK, Cancelling, HasStopped, TxOK,
           OwedOK, Live, Refused, ThreadRuns, NoCall, NoIsr, Free,
           slotVars, queueVars, txVars
  <1>1. ASSUME NEW i \in Ids, Receive(i) PROVE (Slotwise /\ Contexts)'
    <2>1. PICK s \in Slots : /\ st[s] = "STOPPED"
                             /\ st' = [st EXCEPT ![s] = "PENDING"]
                             /\ hl' = [pc |-> "request", op |-> "receive", slot |-> s,
                                       id |-> i, ok |-> FALSE]
      BY <1>1, ReceiveTakes
    <2>2. /\ isr.pc = "idle" /\ hl.pc = "idle" /\ \A r \in Slots : id[r] # i
          /\ UNCHANGED <<id, timer, frame, queueVars, txVars, ts, isr, owed, txOwed>>
      BY <1>1 DEF Receive, NotPresent, Found
    <2>3. i \notin ts
      BY <2>2
    <2>4. IdsOK' /\ TimersOK'
      BY <2>1, <2>2, <2>3
    <2>5. PendingOK' /\ OngoingOK' /\ TimeslotsOK'
      BY <2>1, <2>2, <2>3
    <2>6. OpeningOK' /\ QueueOK' /\ RequestOK' /\ CancelOK'
      BY <2>1, <2>2, <2>3
    <2>7. TxOK' /\ OwedOK'
      BY <2>1, <2>2, <2>3
    <2>. QED
      BY <2>4, <2>5, <2>6, <2>7
  <1>2. CASE ReceiveRequest
    <2>1. CASE /\ hl.id \notin ts /\ ts' = ts \cup {hl.id}
               /\ id' = [id EXCEPT ![hl.slot] = hl.id]
               /\ owed' = [owed EXCEPT ![hl.id] = @ + 1]
               /\ UNCHANGED <<st, frame>>
      <3>1. IdsOK' /\ TimersOK'
        BY <1>2, <2>1 DEF ReceiveRequest
      <3>2. PendingOK' /\ OngoingOK' /\ TimeslotsOK'
        BY <1>2, <2>1 DEF ReceiveRequest
      <3>3. OpeningOK' /\ QueueOK' /\ RequestOK' /\ CancelOK'
        BY <1>2, <2>1 DEF ReceiveRequest
      <3>4. TxOK' /\ OwedOK'
        BY <1>2, <2>1 DEF ReceiveRequest
      <3>. QED
        BY <3>1, <3>2, <3>3, <3>4
    <2>2. CASE Free({hl.slot}) /\ UNCHANGED <<ts, owed>>
      <3>1. IdsOK' /\ TimersOK'
        BY <1>2, <2>2 DEF ReceiveRequest
      <3>2. PendingOK' /\ OngoingOK' /\ TimeslotsOK'
        BY <1>2, <2>2 DEF ReceiveRequest
      <3>3. OpeningOK' /\ QueueOK' /\ RequestOK' /\ CancelOK'
        BY <1>2, <2>2 DEF ReceiveRequest
      <3>4. TxOK' /\ OwedOK'
        BY <1>2, <2>2 DEF ReceiveRequest
      <3>. QED
        BY <3>1, <3>2, <3>3, <3>4
    <2>. QED
      BY <1>2, <2>1, <2>2 DEF ReceiveRequest
  <1>3. ASSUME NEW i \in Ids, NEW op \in {"cancel", "scheduled"}, Cancel(op, i)
        PROVE  (Slotwise /\ Contexts)'
    <2>1. /\ Min(Found(i)) \in Slots /\ id[Min(Found(i))] = i
          /\ \A r \in Slots : id[r] = i => r = Min(Found(i))
      BY <1>3, FoundOne DEF Cancel
    <2>2. /\ hl' = [pc |-> "timeslot", op |-> op, slot |-> Min(Found(i)), id |-> i,
                    ok |-> FALSE]
          /\ isr.pc = "idle" /\ hl.pc = "idle"
          /\ UNCHANGED <<slotVars, queueVars, txVars, ts, isr, owed, txOwed>>
      BY <1>3 DEF Cancel
    <2>3. IdsOK' /\ TimersOK'
      BY <2>1, <2>2
    <2>4. PendingOK' /\ OngoingOK' /\ TimeslotsOK'
      BY <2>1, <2>2
    <2>5. OpeningOK' /\ QueueOK' /\ RequestOK' /\ CancelOK'
      BY <2>1, <2>2
    <2>6. TxOK' /\ OwedOK'
      BY <2>1, <2>2
    <2>. QED
      BY <2>3, <2>4, <2>5, <2>6
  <1>4. CASE CancelAll
    <2>1. PICK s \in Slots : /\ id[s] # INVALID
                             /\ hl' = [pc |-> "timeslot", op |-> "all", slot |-> s,
                                       id |-> id[s], ok |-> FALSE]
      <3>1. NextActive(0) # {} /\ VisitFrom(0)
        BY <1>4 DEF CancelAll
      <3>2. hl'.pc # "idle"
        BY <3>1 DEF VisitFrom
      <3>. QED
        BY <3>1, <3>2, VisitFromNext
    <2>2. /\ isr.pc = "idle" /\ hl.pc = "idle"
          /\ UNCHANGED <<slotVars, queueVars, txVars, ts, isr, owed, txOwed>>
      BY <1>4 DEF CancelAll
    <2>3. IdsOK' /\ TimersOK'
      BY <2>1, <2>2
    <2>4. PendingOK' /\ OngoingOK' /\ TimeslotsOK'
      BY <2>1, <2>2
    <2>5. OpeningOK' /\ QueueOK' /\ RequestOK' /\ CancelOK'
      BY <2>1, <2>2
    <2>6. TxOK' /\ OwedOK'
      BY <2>1, <2>2
    <2>. QED
      BY <2>3, <2>4, <2>5, <2>6
  <1>5. CASE CancelTimeslot
    <2>. USE <1>5 DEF CancelTimeslot
    <2>1. /\ hl'.slot = hl.slot /\ hl'.id = hl.id /\ hl'.op = hl.op
          /\ hl'.pc = IF hl.op = "scheduled" THEN "finish" ELSE "timer"
          /\ hl'.ok <=> hl.id \in ts
      OBVIOUS
    <2>2. hl.id \in ts => /\ id[hl.slot] = hl.id /\ st[hl.slot] = "PENDING"
                          /\ timer[hl.slot] = "idle"
      OBVIOUS
    <2>3. IdsOK' /\ TimersOK'
      BY <2>1, <2>2
    <2>4. PendingOK' /\ OngoingOK' /\ TimeslotsOK'
      BY <2>1, <2>2
    <2>5. OpeningOK' /\ QueueOK' /\ RequestOK' /\ CancelOK'
      BY <2>1, <2>2
    <2>6. TxOK' /\ OwedOK'
      BY <2>1, <2>2
    <2>. QED
      BY <2>3, <2>4, <2>5, <2>6
  <1>6. CASE CancelTimer
    <2>. USE <1>6 DEF CancelTimer
    <2>1. /\ hl'.slot = hl.slot /\ hl'.id = hl.id /\ hl'.op = hl.op
          /\ hl'.pc = "finish"
          /\ hl'.ok <=> hl.ok \/ timer[hl.slot] = "running"
      OBVIOUS
    <2>2. /\ timer[hl.slot] = "running" => id[hl.slot] = hl.id /\ st[hl.slot] = "ONGOING"
          /\ ~hl.ok /\ timer[hl.slot] # "running" => id[hl.slot] = INVALID
      OBVIOUS
    <2>3. \A s \in Slots :
             timer'[s] = IF s = hl.slot /\ timer[s] = "running" THEN "idle" ELSE timer[s]
      OBVIOUS
    <2>4. IdsOK' /\ TimersOK'
      BY <2>1, <2>2, <2>3
    <2>5. PendingOK' /\ OngoingOK' /\ TimeslotsOK'
      BY <2>1, <2>2, <2>3
    <2>6. OpeningOK' /\ QueueOK' /\ RequestOK' /\ CancelOK'
      BY <2>1, <2>2, <2>3
    <2>7. TxOK' /\ OwedOK'
      BY <2>1, <2>2, <2>3
    <2>. QED
      BY <2>4, <2>5, <2>6, <2>7
  <1>7. CASE CancelFinish
    <2>. USE <1>7 DEF CancelFinish
    <2>1. /\ isr.pc = "idle" /\ hl.pc = "finish"
          /\ UNCHANGED <<timer, queueVars, txVars, ts, isr, txOwed>>
      OBVIOUS
    <2>2. \/ hl' = NoCall
          \/ \E s \in Slots : /\ s # hl.slot /\ id[s] # INVALID
                              /\ hl' = [pc |-> "timeslot", op |-> "all", slot |-> s,
                                        id |-> id[s], ok |-> FALSE]
      <3>1. CASE hl.op = "all"
        <4>1. hl.slot \in Int /\ hl.slot + 1 \in Int /\ Slots \subseteq Int
          BY DEF Slots
        <4>2. VisitFrom(hl.slot + 1)
          BY <3>1
        <4>. QED
          BY <4>1, <4>2, VisitFromNext
      <3>. QED
        BY <3>1
    <2>3. \A s \in Slots : /\ id'[s] = IF s = hl.slot /\ hl.ok THEN INVALID ELSE id[s]
                           /\ st'[s] = IF s = hl.slot /\ hl.ok THEN "STOPPED" ELSE st[s]
      BY DEF Stopped
    <2>4. owed' = IF hl.ok THEN [owed EXCEPT ![hl.id] = @ - 1] ELSE owed
      OBVIOUS
    <2>5. hl.ok => /\ id[hl.slot] = hl.id /\ timer[hl.slot] = "idle"
                   /\ hl.id \notin ts
      OBVIOUS
    <2>6. IdsOK' /\ TimersOK'
      BY <2>1, <2>2, <2>3, <2>4, <2>5
    <2>7. PendingOK' /\ OngoingOK' /\ TimeslotsOK'
      BY <2>1, <2>2, <2>3, <2>4, <2>5
    <2>8. OpeningOK' /\ QueueOK' /\ RequestOK' /\ CancelOK'
      BY <2>1, <2>2, <2>3, <2>4, <2>5
    <2>9. TxOK' /\ OwedOK'
      BY <2>1, <2>2, <2>3, <2>4, <2>5
    <2>. QED
      BY <2>6, <2>7, <2>8, <2>9
  <1>8. CASE Transmit
    <2>1. IdsOK' /\ TimersOK'
      BY <1>8 DEF Transmit
    <2>2. PendingOK' /\ OngoingOK' /\ TimeslotsOK'
      BY <1>8 DEF Transmit
    <2>3. OpeningOK' /\ QueueOK' /\ RequestOK' /\ CancelOK'
      BY <1>8 DEF Transmit
    <2>4. TxOK' /\ OwedOK'
      BY <1>8 DEF Transmit
    <2>. QED
      BY <2>1, <2>2, <2>3, <2>4
  <1>9. CASE TransmitRequest
    <2>1. IdsOK' /\ TimersOK'
      BY <1>9 DEF TransmitRequest
    <2>2. PendingOK' /\ OngoingOK' /\ TimeslotsOK'
      BY <1>9 DEF TransmitRequest
    <2>3. OpeningOK' /\ QueueOK' /\ RequestOK' /\ CancelOK'
      BY <1>9 DEF TransmitRequest
    <2>4. TxOK' /\ OwedOK'
      BY <1>9 DEF TransmitRequest
    <2>. QED
      BY <2>1, <2>2, <2>3, <2>4
  <1>10. CASE TransmitCancel
    <2>1. IdsOK' /\ TimersOK'
      BY <1>10 DEF TransmitCancel
    <2>2. PendingOK' /\ OngoingOK' /\ TimeslotsOK'
      BY <1>10 DEF TransmitCancel
    <2>3. OpeningOK' /\ QueueOK' /\ RequestOK' /\ CancelOK'
      BY <1>10 DEF TransmitCancel
    <2>4. TxOK' /\ OwedOK'
      BY <1>10 DEF TransmitCancel
    <2>. QED
      BY <2>1, <2>2, <2>3, <2>4
  <1>11. CASE TransmitCancelFinish
    <2>1. IdsOK' /\ TimersOK'
      BY <1>11 DEF TransmitCancelFinish
    <2>2. PendingOK' /\ OngoingOK' /\ TimeslotsOK'
      BY <1>11 DEF TransmitCancelFinish
    <2>3. OpeningOK' /\ QueueOK' /\ RequestOK' /\ CancelOK'
      BY <1>11 DEF TransmitCancelFinish
    <2>4. TxOK' /\ OwedOK'
      BY <1>11 DEF TransmitCancelFinish
    <2>. QED
      BY <2>1, <2>2, <2>3, <2>4
  <1>12. ASSUME NEW i \in Ids, RxTimeslotStarted(i) PROVE (Slotwise /\ Contexts)'
    <2>. DEFINE s == Min(Found(i))
    <2>1. isr.pc = "idle" /\ i \in ts /\ Found(i) # {}
      BY <1>12 DEF RxTimeslotStarted
    <2>2. s \in Slots /\ id[s] = i /\ \A r \in Slots : id[r] = i => r = s
      BY <2>1, FoundOne
    <2>3. st[s] = "PENDING" /\ timer[s] = "idle"
      BY <2>1, <2>2
    <2>4. /\ st' = [st EXCEPT ![s] = "ONGOING"]
          /\ qMem' = [qMem EXCEPT ![qWr] = s] /\ qWr' = IncrementModulo(qWr)
          /\ isr' = [pc |-> "request", slot |-> s, id |-> i, ok |-> FALSE, ptr |-> 0]
          /\ UNCHANGED <<id, timer, frame, qRd, txVars, ts, hl, owed, txOwed>>
      BY <1>12, <2>3 DEF RxTimeslotStarted
    <2>. HIDE DEF s
    <2>5. IdsOK' /\ TimersOK'
      BY <2>1, <2>2, <2>3, <2>4
    <2>6. PendingOK' /\ OngoingOK' /\ TimeslotsOK'
      BY <2>1, <2>2, <2>3, <2>4
    <2>7. OpeningOK' /\ QueueOK' /\ RequestOK' /\ CancelOK'
      BY <2>1, <2>2, <2>3, <2>4
    <2>8. TxOK' /\ OwedOK'
      BY <2>1, <2>2, <2>3, <2>4
    <2>. QED
      BY <2>5, <2>6, <2>7, <2>8
  <1>13. ASSUME NEW a \in BOOLEAN, NEW b \in BOOLEAN, TxTimeslotStarted(a, b)
         PROVE  (Slotwise /\ Contexts)'
    <2>1. PICK A : /\ A \subseteq {s \in Slots : timer[s] = "running"}
                   /\ Aborts(A)
      BY <1>13, AbortEffect, NoAbortEffect DEF TxTimeslotStarted
    <2>2. /\ isr.pc = "idle" /\ DTX \in ts /\ ts' = ts \ {DTX}
          /\ txSt' = IF b THEN "ONGOING" ELSE "STOPPED"
          /\ txOp' = b /\ txId' = IF b THEN txId ELSE INVALID
          /\ txOwed' = IF b THEN txOwed ELSE txOwed - 1
          /\ UNCHANGED <<queueVars, isr, hl>>
      BY <1>13 DEF TxTimeslotStarted
    <2>3. IdsOK' /\ TimersOK'
      BY <2>1, <2>2 DEF Aborts
    <2>4. PendingOK' /\ OngoingOK' /\ TimeslotsOK'
      BY <2>1, <2>2 DEF Aborts
    <2>5. OpeningOK' /\ QueueOK' /\ RequestOK' /\ CancelOK'
      BY <2>1, <2>2 DEF Aborts
    <2>6. TxOK' /\ OwedOK'
      BY <2>1, <2>2 DEF Aborts
    <2>. QED
      BY <2>3, <2>4, <2>5, <2>6
  <1>14. ASSUME NEW s \in Slots, TimerFires(s) PROVE (Slotwise /\ Contexts)'
    <2>1. IdsOK' /\ TimersOK'
      BY <1>14 DEF TimerFires
    <2>2. PendingOK' /\ OngoingOK' /\ TimeslotsOK'
      BY <1>14 DEF TimerFires
    <2>3. OpeningOK' /\ QueueOK' /\ RequestOK' /\ CancelOK'
      BY <1>14 DEF TimerFires
    <2>4. TxOK' /\ OwedOK'
      BY <1>14 DEF TimerFires
    <2>. QED
      BY <2>1, <2>2, <2>3, <2>4
  <1>15. ASSUME NEW ok \in BOOLEAN, ReceiveAttempt(ok) PROVE (Slotwise /\ Contexts)'
    <2>1. IdsOK' /\ TimersOK'
      BY <1>15, NextEntry DEF ReceiveAttempt
    <2>2. PendingOK' /\ OngoingOK' /\ TimeslotsOK'
      BY <1>15, NextEntry DEF ReceiveAttempt
    <2>3. OpeningOK' /\ QueueOK' /\ RequestOK' /\ CancelOK'
      BY <1>15, NextEntry DEF ReceiveAttempt
    <2>4. TxOK' /\ OwedOK'
      BY <1>15, NextEntry DEF ReceiveAttempt
    <2>. QED
      BY <2>1, <2>2, <2>3, <2>4
  <1>16. CASE ResultNotifySuccess
    <2>1. qMem[isr.ptr] = isr.slot /\ isr.slot \in Slots
      BY <1>16 DEF ResultNotifySuccess
    <2>2. isr.pc = "notify" /\ isr.ok /\ isr.slot \notin Removed
      BY <1>16 DEF ResultNotifySuccess, Removed
    <2>3. /\ isr'.pc = "release" /\ isr'.ok /\ isr'.id = isr.id /\ isr'.slot = isr.slot
          /\ UNCHANGED <<queueVars, txVars, ts, hl, txOwed>>
      BY <1>16 DEF ResultNotifySuccess
    <2>4. \A s \in Slots :
             /\ id'[s] = IF s \in Removed THEN INVALID ELSE id[s]
             /\ st'[s] = IF s \in Removed THEN "STOPPED" ELSE st[s]
             /\ timer'[s] = IF s = isr.slot THEN "running"
                            ELSE IF s \in Removed THEN "idle" ELSE timer[s]
      BY <1>16, <2>1 DEF ResultNotifySuccess
    <2>5. owed' = [i \in Ids |-> owed[i] - IF \E s \in Removed : id[s] = i THEN 1 ELSE 0]
      <3>1. owed' = Ended(Removed)
        BY <1>16, Zenon DEF ResultNotifySuccess
      <3>2. Removed \subseteq Slots
        BY DEF Removed
      <3>3. Ended(Removed) =
               [i \in Ids |-> owed[i] - IF \E s \in Removed : id[s] = i THEN 1 ELSE 0]
        <4>. HIDE DEF Removed
        <4>. QED
          BY <3>2, EndedCount
      <3>. QED
        BY <3>1, <3>3, Zenon
    <2>6. IdsOK' /\ TimersOK'
      BY <2>1, <2>2, <2>3, <2>4, <2>5 DEF Removed
    <2>7. PendingOK' /\ OngoingOK' /\ TimeslotsOK'
      BY <2>1, <2>2, <2>3, <2>4, <2>5 DEF Removed
    <2>8. OpeningOK' /\ QueueOK' /\ RequestOK' /\ CancelOK'
      BY <2>1, <2>2, <2>3, <2>4, <2>5 DEF Removed
    <2>9. TxOK' /\ OwedOK'
      BY <2>1, <2>2, <2>3, <2>4, <2>5 DEF Removed
    <2>. QED
      BY <2>6, <2>7, <2>8, <2>9
  <1>17. CASE ResultNotifyFailure
    <2>. USE <1>17 DEF ResultNotifyFailure
    <2>1. qMem[isr.ptr] = isr.slot /\ isr.slot \in Slots
      OBVIOUS
    <2>2. owed' = [i \in Ids |-> owed[i] - IF id[isr.slot] = i THEN 1 ELSE 0]
      <3>1. Ended({isr.slot}) =
                [i \in Ids |-> owed[i] - IF \E s \in {isr.slot} : id[s] = i THEN 1 ELSE 0]
        BY <2>1, EndedCount
      <3>. QED
        BY <2>1, <3>1
    <2>3. /\ isr.pc = "notify" /\ ~isr.ok /\ id[isr.slot] = isr.id
          /\ isr'.pc = "release" /\ isr'.id = isr.id /\ ~isr'.ok
          /\ UNCHANGED id
      OBVIOUS
    <2>4. OwedOK'
      <3>1. \A i \in Ids : /\ Live(i)' <=> Live(i)
                           /\ Refused(i)' <=> i = isr.id
                           /\ owed[i] = IF Live(i) THEN 1 ELSE 0
        BY <2>3
      <3>2. \A i \in Ids : i = isr.id => Live(i)
        BY <2>1, <2>3
      <3>3. \A i \in Ids : owed'[i] = IF Live(i) /\ i # isr.id THEN 1 ELSE 0
        <4>. HIDE DEF IInv, Live, Refused, ResultNotifyFailure
        <4>. QED
          BY <2>2, <2>3, <3>1, <3>2
      <3>4. ASSUME NEW i \in Ids
            PROVE  (owed[i] = IF Live(i) /\ ~Refused(i) THEN 1 ELSE 0)'
        <4>1. /\ owed'[i] = IF Live(i) /\ i # isr.id THEN 1 ELSE 0
              /\ Live(i)' <=> Live(i)
              /\ Refused(i)' <=> i = isr.id
          BY <3>1, <3>3
        <4>. HIDE DEF IInv, Live, Refused, ResultNotifyFailure
        <4>. QED
          BY <4>1, Zenon
      <3>. QED
        BY <3>4
    <2>5. IdsOK' /\ TimersOK'
      BY <2>1
    <2>6. PendingOK' /\ OngoingOK' /\ TimeslotsOK'
      BY <2>1
    <2>7. OpeningOK' /\ QueueOK' /\ RequestOK' /\ CancelOK' /\ TxOK'
      BY <2>1
    <2>. QED
      BY <2>4, <2>5, <2>6, <2>7
  <1>18. CASE ReleaseTimeslot
    <2>1. IdsOK' /\ TimersOK'
      BY <1>18 DEF ReleaseTimeslot
    <2>2. PendingOK' /\ OngoingOK' /\ TimeslotsOK'
      BY <1>18 DEF ReleaseTimeslot
    <2>3. OpeningOK' /\ QueueOK' /\ RequestOK' /\ CancelOK'
      BY <1>18 DEF ReleaseTimeslot
    <2>4. TxOK' /\ OwedOK'
      BY <1>18 DEF ReleaseTimeslot
    <2>. QED
      BY <2>1, <2>2, <2>3, <2>4
  <1>19. CASE TimeoutLatch
    <2>1. IdsOK' /\ TimersOK'
      BY <1>19 DEF TimeoutLatch
    <2>2. PendingOK' /\ OngoingOK' /\ TimeslotsOK'
      BY <1>19 DEF TimeoutLatch
    <2>3. OpeningOK' /\ QueueOK' /\ RequestOK' /\ CancelOK'
      BY <1>19 DEF TimeoutLatch
    <2>4. TxOK' /\ OwedOK'
      BY <1>19 DEF TimeoutLatch
    <2>. QED
      BY <2>1, <2>2, <2>3, <2>4
  <1>20. CASE Timeout
    <2>1. isr.pc = "timeout" /\ isr.slot \in Slots /\ timer[isr.slot] = "fired"
      BY <1>20 DEF Timeout
    <2>2. isr' = NoIsr /\ UNCHANGED <<queueVars, txVars, ts, hl, txOwed>>
      BY <1>20 DEF Timeout
    <2>3. CASE isr.ok
      <3>1. timer' = [timer EXCEPT ![isr.slot] = "running"] /\ UNCHANGED <<st, id, owed>>
        BY <1>20, <2>3 DEF Timeout
      <3>2. IdsOK' /\ TimersOK'
        BY <2>1, <2>2, <3>1
      <3>3. PendingOK' /\ OngoingOK' /\ TimeslotsOK'
        BY <2>1, <2>2, <3>1
      <3>4. OpeningOK' /\ QueueOK' /\ RequestOK' /\ CancelOK'
        BY <2>1, <2>2, <3>1
      <3>5. TxOK' /\ OwedOK'
        BY <2>1, <2>2, <3>1
      <3>. QED
        BY <3>2, <3>3, <3>4, <3>5
    <2>4. CASE ~isr.ok
      <3>1. timer' = [timer EXCEPT ![isr.slot] = "idle"] /\ Free({isr.slot})
        BY <1>20, <2>4 DEF Timeout
      <3>2. owed' = [i \in Ids |-> owed[i] - IF \E s \in {isr.slot} : id[s] = i THEN 1 ELSE 0]
        BY <1>20, <2>1, <2>4, EndedCount DEF Timeout
      <3>3. IdsOK' /\ TimersOK'
        BY <2>1, <2>2, <3>1, <3>2
      <3>4. PendingOK' /\ OngoingOK' /\ TimeslotsOK'
        BY <2>1, <2>2, <3>1, <3>2
      <3>5. OpeningOK' /\ QueueOK' /\ RequestOK' /\ CancelOK'
        BY <2>1, <2>2, <3>1, <3>2
      <3>6. TxOK' /\ OwedOK'
        BY <2>1, <2>2, <3>1, <3>2
      <3>. QED
        BY <3>3, <3>4, <3>5, <3>6
    <2>. QED
      BY <2>3, <2>4
  <1>21. CASE CoreTerminate
    <2>1. PICK A : /\ A \subseteq {s \in Slots : timer[s] = "running"}
                   /\ Aborts(A)
      BY <1>21, AbortEffect DEF CoreTerminate
    <2>2. UNCHANGED <<queueVars, txVars, ts, isr, hl, txOwed>>
      BY <1>21 DEF CoreTerminate
    <2>3. IdsOK' /\ TimersOK'
      BY <2>1, <2>2 DEF Aborts
    <2>4. PendingOK' /\ OngoingOK' /\ TimeslotsOK'
      BY <2>1, <2>2 DEF Aborts
    <2>5. OpeningOK' /\ QueueOK' /\ RequestOK' /\ CancelOK'
      BY <2>1, <2>2 DEF Aborts
    <2>6. TxOK' /\ OwedOK'
      BY <2>1, <2>2 DEF Aborts
    <2>. QED
      BY <2>3, <2>4, <2>5, <2>6
  <1>22. CASE RxStartedHook
    BY <1>22 DEF RxStartedHook
  <1>23. CASE TxEnds
    <2>1. IdsOK' /\ TimersOK'
      BY <1>23 DEF TxEnds
    <2>2. PendingOK' /\ OngoingOK' /\ TimeslotsOK'
      BY <1>23 DEF TxEnds
    <2>3. OpeningOK' /\ QueueOK' /\ RequestOK' /\ CancelOK'
      BY <1>23 DEF TxEnds
    <2>4. TxOK' /\ OwedOK'
      BY <1>23 DEF TxEnds
    <2>. QED
      BY <2>1, <2>2, <2>3, <2>4
  <1>24. ASSUME NEW s \in Slots, FrameEnds(s) PROVE (Slotwise /\ Contexts)'
    BY <1>24 DEF FrameEnds
  <1>25. CASE UNCHANGED vars
    BY <1>25 DEF vars
  <1>. HIDE DEF Slotwise, Contexts, IInv
  <1>. QED
    BY <1>1, <1>2, <1>3, <1>4, <1>5, <1>6, <1>7, <1>8, <1>9, <1>10, <1>11, <1>12, <1>13,
       <1>14, <1>15, <1>16, <1>17, <1>18, <1>19, <1>20, <1>21, <1>22, <1>23, <1>24,
       <1>25
    DEF Next, HigherLayer, HigherLayerSteps, CallbackStarts, CallbackSteps, Core

\* Every step keeps the invariant.
LEMMA NextIInv == ASSUME IInv, [Next]_vars PROVE IInv'
  <1>1. (SlotType /\ RestType /\ ContextType)'
    BY NextTypes
  <1>2. assertsHold' = TRUE
    BY NextAsserts
  <1>3. TypeOK' /\ AssertsHold'
    BY <1>1, <1>2 DEF TypeOK, AssertsHold, SlotType, RestType, ContextType
  <1>4. (Slotwise /\ Contexts)'
    BY NextParts
  <1>. QED
    BY <1>3, <1>4 DEF IInv, Slotwise, Contexts

-----------------------------------------------------------------------------
\* The inductive invariant holds in every state of the delayed operations.
THEOREM DelayedInvariant == Spec => []IInv
  <1>1. IInv /\ [Next]_vars => IInv'
    BY NextIInv
  <1>. QED
    BY <1>1, InitIInv, PTL DEF Spec

\* No assertion of nrf_802154_delayed_trx.c fails, however the callbacks and the
\* core preempt a call.
THEOREM DelayedAsserts == Spec => []AssertsHold
  <1>1. IInv => AssertsHold
    BY DEF IInv
  <1>. QED
    BY <1>1, DelayedInvariant, PTL

\* Every accepted window and every accepted frame has exactly one outcome: none
\* is notified twice, none that is over is still owed one.
THEOREM DelayedOutcomes == Spec => []OutcomeOnce
  <1>1. IInv => OutcomeOnce
    <2>. SUFFICES ASSUME IInv PROVE OutcomeOnce
      OBVIOUS
    <2>1. \A i \in Ids : owed[i] \in {0, 1}
      BY DEF IInv, OwedOK
    <2>2. txOwed \in {0, 1}
      BY DEF IInv, TxOK
    <2>3. isr.pc = "idle" => \A i \in Ids : owed[i] = 1 <=> Live(i)
      BY DEF IInv, OwedOK, Refused
    <2>4. hl.pc = "idle" => (txOwed = 1 <=> txSt # "STOPPED")
      BY DEF IInv, TxOK
    <2>. QED
      BY <2>1, <2>2, <2>3, <2>4 DEF OutcomeOnce
  <1>. QED
    BY <1>1, DelayedInvariant, PTL

\* No slot is stranded, a free slot is quiet, one window is open at a time, and
\* the identifier queue gives an attempt its own slot.
THEOREM DelayedSlots == Spec => []SlotsConsistent
  <1>1. IInv => SlotsConsistent
    <2>. SUFFICES ASSUME IInv PROVE SlotsConsistent
      OBVIOUS
    <2>1. NeverStranded
      BY DelayedAssumption DEF IInv, TypeOK, OpStates, PendingOK, OngoingOK, TxOK,
         HasStopped, NeverStranded
    <2>2. FreeSlotQuiet
      BY DEF IInv, IdsOK, FreeSlotQuiet
    <2>3. OneWindow
      <3>. DEFINE S == {s \in Slots : timer[s] # "idle"}
      <3>1. \A s, r \in S : s = r
        BY DEF IInv, TimersOK
      <3>2. Cardinality(S) = IF S = {} THEN 0 ELSE 1
        <4>. HIDE DEF S
        <4>. QED
          BY <3>1, AtMostOne
      <3>. QED
        BY <3>2 DEF OneWindow
    <2>4. QueueMatchesAttempt
      BY DEF IInv, QueueOK, QueueMatchesAttempt
    <2>. QED
      BY <2>1, <2>2, <2>3, <2>4 DEF IInv, SlotsConsistent
  <1>. QED
    BY <1>1, DelayedInvariant, PTL
=============================================================================
