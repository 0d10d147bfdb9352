----------------------------- MODULE AckProofs -----------------------------
(***************************************************************************)
(* Theorems about ACKs: about the ones that are awaited, the ACK timeout   *)
(* procedure, and about the ones that are sent, the data kept for them.    *)
(*                                                                         *)
(* AckTimeout: for any frames, any timeouts and any number of refusals     *)
(* that fit into MAX_RETRY_DELAY, as long as the timer interrupt ends      *)
(* before the next frame is on the air (~SlowIsr).                         *)
(*                                                                         *)
(* AckData: for any keys, any capacity, any elements and matching methods, *)
(* with lookups between any two memory writes.                             *)
(***************************************************************************)
EXTENDS AckData, AckTimeout, FiniteSetTheorems, WellFoundedInduction, TLAPS

(* The ACK timeout *)

\* An active procedure times the frame in m_tx.frame, which is on the air or
\* whose ACK is awaited; only timeout_timer_fired clears the flag late.
ActiveOK ==
    active => /\ mpFrame = frame
              /\ isr = "clear" \/ (core # "OTHER" /\ onAir)
              /\ isr = "request" => param = mpFrame

\* From the start of a frame until the start of its ACK the procedure is active;
\* the timer waits in its list unless its interrupt is running, and never while
\* it is.
WaitOK ==
    /\ timer => isr = "idle"
    /\ core = "TX" /\ onAir => active /\ timer /\ isr = "idle"
    /\ core = "RX_ACK" => onAir
    /\ core = "RX_ACK" /\ ~ackOnAir =>
          active /\ isr # "clear" /\ (isr = "idle" => timer)

\* What m_dt has grown by is what the core has refused.
DelayOK ==
    /\ dt + MaxRefusals <= MAX_RETRY_DELAY + refused
    /\ isr = "retry" => dt + 1 + MaxRefusals <= MAX_RETRY_DELAY + refused

IInv == TypeOK /\ AssertsHold /\ ActiveOK /\ WaitOK /\ DelayOK

-----------------------------------------------------------------------------
\* Nothing is transmitted and no timer runs before the first request.
LEMMA InitIInv == Init => IInv
  <1>. SUFFICES ASSUME Init PROVE IInv
    OBVIOUS
  <1>1. PICK t \in Timeouts : TRUE
    BY ConstantsAssumption
  <1>2. t \in Nat /\ MaxRefusals \in Nat /\ MAX_RETRY_DELAY \in Nat
        /\ t + MaxRefusals <= MAX_RETRY_DELAY
    BY ConstantsAssumption, RefusalsAssumption
  <1>3. TypeOK
    <2>1. 0 \in 0..MAX_RETRY_DELAY /\ 0 \in 0..MaxRefusals
      BY <1>2
    <2>. QED
      BY <2>1, Zenon DEF Init, TypeOK
  <1>4. AssertsHold /\ ActiveOK /\ WaitOK
    BY DEF Init, AssertsHold, ActiveOK, WaitOK
  <1>5. DelayOK
    BY <1>2 DEF Init, DelayOK
  <1>. QED
    BY <1>3, <1>4, <1>5 DEF IInv

\* Every step of the timer, the radio, the scheduler and the thread.
LEMMA NextIInv == ASSUME ~SlowIsr, IInv, [Next]_vars PROVE IInv'
  <1>. USE DEF IInv, TypeOK, AssertsHold, ActiveOK, WaitOK, DelayOK, procVars,
               isrVars, coreVars
  <1>0. MaxRefusals \in Nat /\ MAX_RETRY_DELAY \in Nat /\ Timeouts \subseteq Nat
    BY ConstantsAssumption
  <1>1. CASE Expires
    BY <1>0, <1>1 DEF Expires
  <1>2. CASE Fired
    BY <1>0, <1>2 DEF Fired
  <1>3. CASE Handled
    BY <1>0, <1>3 DEF Handled, TimeoutApplies
  <1>4. CASE Refused
    BY <1>0, <1>4 DEF Refused
  <1>5. CASE Finished
    BY <1>0, <1>5 DEF Finished
  <1>6. CASE Retry
    BY <1>0, <1>6 DEF Retry, Assert, RetryTimer
  <1>7. CASE TransmitStarted
    <2>1. timeout \in Nat /\ timeout + MaxRefusals <= MAX_RETRY_DELAY
      BY <1>0, RefusalsAssumption
    <2>. QED
      BY <1>0, <1>7, <2>1 DEF TransmitStarted, MayStart, Start, StartTime, AddSucceeds,
         Assert
  <1>8. CASE Transmitted
    BY <1>0, <1>8 DEF Transmitted, EndedHook, CoreGoesOn, Assert, Stop
  <1>9. CASE AckStarted
    BY <1>0, <1>9 DEF AckStarted, Assert, Stop
  <1>10. CASE AckEnded
    BY <1>0, <1>10 DEF AckEnded, EndedHook, CoreGoesOn, Assert, Stop
  <1>11. CASE CcaBusy
    BY <1>0, <1>11 DEF CcaBusy, EndedHook, CoreGoesOn, Assert, Stop
  <1>12. CASE Preempted
    BY <1>0, <1>12 DEF Preempted, Terminated, CoreGoesOn, Stop
  <1>13. CASE Enter
    BY <1>0, <1>13 DEF Enter
  <1>14. ASSUME NEW force \in BOOLEAN, NEW next \in {"TX", "OTHER"},
                Request(force, next)
         PROVE  IInv'
    BY <1>0, <1>14 DEF Request, Terminated, Stop, Yields
  <1>15. ASSUME NEW t \in Timeouts, TimeSet(t)
         PROVE  IInv'
    BY <1>0, <1>15 DEF TimeSet
  <1>16. CASE UNCHANGED vars
    BY <1>0, <1>16 DEF vars
  <1>. QED
    BY <1>1, <1>2, <1>3, <1>4, <1>5, <1>6, <1>7, <1>8, <1>9, <1>10, <1>11, <1>12, <1>13, <1>14, <1>15, <1>16 DEF Next,
       TimerIrq, RadioIrq, Thread

\* The inductive invariant holds in every state of the procedure.
THEOREM AckTimeoutInvariant == ~SlowIsr => (Spec => []IInv)
  <1>1. ASSUME ~SlowIsr PROVE Spec => []IInv
    <2>1. IInv /\ [Next]_vars => IInv'
      BY <1>1, NextIInv
    <2>. QED
      BY <2>1, InitIInv, PTL DEF Spec
  <1>. QED
    BY <1>1

\* No assertion of the hooks fails, the retries stay below their limit, and
\* neither a retry nor a start adds the armed timer of a procedure in progress.
THEOREM AckTimeoutAsserts == ~SlowIsr => (Spec => []AssertsHold)
  <1>1. IInv => AssertsHold
    BY DEF IInv
  <1>. QED
    BY <1>1, AckTimeoutInvariant, PTL

\* An awaited ACK is timed, for its own frame, and the procedure does not outlive
\* the transmission.
THEOREM AckTimeoutMatches == ~SlowIsr => (Spec => []ProcedureMatchesWait)
  <1>1. IInv => ProcedureMatchesWait
    BY DEF IInv, TypeOK, ActiveOK, WaitOK, ProcedureMatchesWait,
           AwaitedAckIsTimed, NoLeftoverProcedure
  <1>. QED
    BY <1>1, AckTimeoutInvariant, PTL

-----------------------------------------------------------------------------
(* The array of nrf_802154_bsmap.c *)

\* What a slot in use holds
Entries == [key : Keys, value : Records]

Moves == [slot : Int, source : Int, entry : Entries \cup {none}]

\* The slots that a lookup can reach
Reached == 0..(keysCount - 1)

\* The slot that the current move fills, and the last one before it is given up
Flux == IF Idle THEN INDEX_INVALID
        ELSE IF Move.slot = INDEX_INVALID THEN keysCount - 1 ELSE Move.slot

\* The other slots
Settled == Reached \ {Flux}

Last == moves[Len(moves)]

\* The write in progress ends with a new entry, not with the loss of one.
Writing == ~Idle /\ Last.slot # INDEX_INVALID

\* The memory holds entries wherever a lookup can look.
MapType ==
    /\ keysCount \in 0..CAPACITY
    /\ moves \in Seq(Moves)
    /\ step \in {"stage", "show", "tear", "fill", "grow", "end"}
    /\ memory \in [Slots -> Entries \cup {torn}]
    /\ \A x \in Reached : Entry(x) \in Entries

\* What a write has left to do: entries are shifted up from Flux to the slot of the
\* new entry, or down from Flux to the end.
MovesOK ==
    /\ Writing =>
          /\ Last.source = INDEX_INVALID /\ Last.entry \in Entries
          /\ Last.slot \in 0..Flux /\ Flux <= keysCount /\ Flux < CAPACITY
          /\ Len(moves) = Flux - Last.slot + 1
          /\ \A n \in 1..(Flux - Last.slot) : moves[n] = FromSlot(Flux + 1 - n, Flux - n)
    /\ ~Idle /\ ~Writing =>
          /\ Flux \in Reached
          /\ Len(moves) = keysCount - Flux
          /\ \A n \in 1..(Len(moves) - 1) : moves[n] = FromSlot(Flux + n - 1, Flux + n)
          /\ Last = FromSlot(INDEX_INVALID, INDEX_INVALID)

\* The auxiliary memory shows the slot in flux exactly while its content changes.
StepOK ==
    /\ auxIdx = IF ~Idle /\ step \in {"tear", "fill", "end"} /\ Flux < keysCount
                THEN Flux ELSE INDEX_INVALID
    /\ Idle => step = "stage"
    /\ step # "stage" => Move.slot # INDEX_INVALID
    /\ step \in {"show", "end"} => Flux < keysCount
    /\ step = "show" => aux = memory[Flux]
    /\ step = "grow" => Flux = keysCount
    /\ step \in {"grow", "end"} => memory[Flux] = Content

\* Settled entries are in order, and leave room for the new entry.
OrderOK ==
    /\ \A x, y \in Settled : x < y => Entry(x).key < Entry(y).key
    /\ Writing => \A x \in Settled :
          IF x < Last.slot THEN Entry(x).key < Last.entry.key
                           ELSE Last.entry.key < Entry(x).key

\* The slot in flux shows what it is updated from, what has been copied to
\* its neighbour, or what is deleted.
FluxOK ==
    Flux \in Reached =>
       IF Writing
       THEN \/ Flux = Last.slot /\ Entry(Flux).key = Last.entry.key
            \/ Flux + 1 < keysCount /\ Entry(Flux) = Entry(Flux + 1)
       ELSE \/ Flux > 0 /\ Entry(Flux) = Entry(Flux - 1)
            \/ /\ goal[Entry(Flux).key] = none
               /\ \A x \in Settled :
                     IF x < Flux THEN Entry(x).key < Entry(Flux).key
                                 ELSE Entry(Flux).key < Entry(x).key

(* The table of nrf_802154_ack_data.c *)

\* What a reset leaves of a record
Kept(rec) == LET c == ClearedRec(rec, reset) IN IF CanBeDeleted(c) THEN none ELSE c

\* What becomes of a settled entry
Want(x) == IF iter # none /\ x <= iter THEN Kept(Entry(x).value) ELSE Entry(x).value

\* Settled entries and the new one make up the table that is asked for.
GoalOK ==
    /\ \A x \in Settled : goal[Entry(x).key] = Want(x)
    /\ Writing => goal[Last.entry.key] = Last.entry.value
    /\ \A k \in Keys : goal[k] # none =>
          (\E x \in Settled : Entry(x).key = k) \/ (Writing /\ Last.entry.key = k)

\* The iterator is below what changes.
IterOK ==
    iter # none => /\ iter \in -1..(keysCount - 1)
                   /\ ~Idle => iter < Flux
                   /\ Writing => iter < Last.slot

\* Each record of the table says something, and has one element of a kind.
RecordsOK ==
    /\ goal \in [Keys -> Records \cup {none}]
    /\ \A k \in Keys : goal[k] # none =>
          /\ ~CanBeDeleted(goal[k])
          /\ \A m, n \in DOMAIN goal[k].ie : goal[k].ie[m].id = goal[k].ie[n].id => m = n

\* The table says what was set.
GhostsOK ==
    /\ pend \subseteq Keys /\ elems \in [Keys -> SUBSET Elements]
    /\ \A k \in Keys :
          /\ method # "ALWAYS_1" => (k \in pend <=> goal[k] # none /\ goal[k].bit # DefaultBit)
          /\ elems[k] = IF goal[k] = none THEN {} ELSE {goal[k].ie[n] : n \in DOMAIN goal[k].ie}

ArrayOK == MapType /\ MovesOK /\ StepOK /\ OrderOK /\ FluxOK
TableOK == /\ GoalOK /\ IterOK /\ RecordsOK /\ GhostsOK
           /\ method \in Methods
TableIInv == ArrayOK /\ TableOK

-----------------------------------------------------------------------------
(* Induction *)

\* A set of natural numbers has a least one.
LEMMA LeastNatural ==
    ASSUME NEW T \in SUBSET Nat, T # {}
    PROVE  \E m \in T : \A n \in T : m <= n
  <1>1. PICK m \in T : \A n \in T : ~ (<<n, m>> \in OpToRel(<, Nat))
    BY NatLessThanWellFounded, WFMin, Zenon
  <1>2. \A n \in T : n < m => <<n, m>> \in OpToRel(<, Nat)
    BY Zenon DEF OpToRel
  <1>3. \A n \in T : ~(n < m)
    BY <1>1, <1>2, Zenon
  <1>. QED
    BY <1>3

\* Induction over an interval, for the set S of the numbers that have a property.
LEMMA Induct ==
    ASSUME NEW S, NEW N \in Nat, 0 \in S, \A n \in 1..N : n - 1 \in S => n \in S
    PROVE  0..N \subseteq S
  <1>. DEFINE T == (0..N) \ S
  <1>. SUFFICES ASSUME T # {} PROVE FALSE
    OBVIOUS
  <1>1. T \in SUBSET Nat
    OBVIOUS
  <1>2. PICK m \in T : \A n \in T : m <= n
    <2>. HIDE DEF T
    <2>. QED
      BY <1>1, LeastNatural, Zenon
  <1>. QED
    BY <1>2

-----------------------------------------------------------------------------
(* The binary search *)

Windows == [a : 0..CAPACITY, b : 0..CAPACITY]

Middle(w) == w.a + (w.b - w.a) \div 2

Hit(key, w) == Entry(Middle(w)) = torn \/ Entry(Middle(w)).key = key

\* The half of a window that is left after a comparison
Half(key, w) == IF key < Entry(Middle(w)).key THEN [w EXCEPT !.b = Middle(w)]
                                              ELSE [w EXCEPT !.a = Middle(w) + 1]

\* What the search of a window returns if f is the search of its halves
Looks(f, key, w) ==
    IF w.a >= w.b THEN [index |-> w.a, found |-> FALSE]
    ELSE IF Hit(key, w) THEN [index |-> Middle(w), found |-> TRUE]
    ELSE f[Half(key, w)]

Search(key) == CHOOSE f : f = [w \in Windows |-> Looks(f, key, w)]

\* BinarySearch starts from the whole array.
LEMMA SearchIs == \A key : BinarySearch(key) = Search(key)[[a |-> 0, b |-> keysCount]]
  BY Zenon DEF BinarySearch, Search, Windows, Looks, Half, Hit, Middle

\* A half is smaller than its window.
LEMMA HalfSmaller ==
    ASSUME NEW key, NEW w \in Windows, w.a < w.b
    PROVE  /\ Middle(w) \in w.a..(w.b - 1)
           /\ Half(key, w) \in Windows
           /\ Half(key, w) = [a |-> w.a, b |-> Middle(w)]
              \/ Half(key, w) = [a |-> Middle(w) + 1, b |-> w.b]
           /\ Half(key, w).b - Half(key, w).a < w.b - w.a
  <1>1. w.a \in Nat /\ w.b \in Nat /\ w.a <= CAPACITY /\ w.b <= CAPACITY /\ CAPACITY \in Nat
    BY BsmapAssumption DEF Windows
  <1>2. \A d \in Nat : d > 0 => d \div 2 \in 0..(d - 1)
    OBVIOUS
  <1>3. Middle(w) \in w.a..(w.b - 1)
    BY <1>1, <1>2 DEF Middle
  <1>4. Half(key, w) = [a |-> w.a, b |-> Middle(w)]
        \/ Half(key, w) = [a |-> Middle(w) + 1, b |-> w.b]
    BY DEF Half, Windows
  <1>. QED
    BY <1>1, <1>3, <1>4 DEF Windows

\* The search is well defined: a function that searches the windows up to a size can be
\* extended to those of the next size.
LEMMA SearchExists ==
    ASSUME NEW key
    PROVE  \E f : f = [w \in Windows |-> Looks(f, key, w)]
  <1>. DEFINE Upto(n) == {w \in Windows : w.b - w.a <= n}
              S == {n \in 0..CAPACITY : \E f : \A w \in Upto(n) : f[w] = Looks(f, key, w)}
  <1>0. CAPACITY \in Nat
    BY BsmapAssumption
  <1>1. 0 \in S
    <2>. DEFINE f == [w \in Windows |-> [index |-> w.a, found |-> FALSE]]
    <2>1. ASSUME NEW w \in Upto(0) PROVE f[w] = Looks(f, key, w)
      <3>1. w.a >= w.b
        BY DEF Windows
      <3>. QED
        BY <3>1 DEF Looks
    <2>. HIDE DEF f, Upto
    <2>. QED
      BY <1>0, <2>1
  <1>2. ASSUME NEW n \in 1..CAPACITY, n - 1 \in S PROVE n \in S
    <2>1. PICK f : \A w \in Upto(n - 1) : f[w] = Looks(f, key, w)
      BY <1>2
    <2>. DEFINE h == [w \in Windows |-> IF w \in Upto(n - 1) THEN f[w] ELSE Looks(f, key, w)]
    <2>2. ASSUME NEW w \in Upto(n) PROVE h[w] = Looks(h, key, w)
      <3>1. h[w] = Looks(f, key, w)
        BY <2>1
      <3>2. CASE w.a < w.b
        <4>1. Half(key, w) \in Windows /\ Half(key, w).b - Half(key, w).a < w.b - w.a
          BY <3>2, HalfSmaller
        <4>2. Half(key, w) \in Upto(n - 1)
          <5>1. \A v \in Windows : v.a \in Int /\ v.b \in Int
            BY DEF Windows
          <5>. QED
            BY <4>1, <5>1
        <4>3. h[Half(key, w)] = f[Half(key, w)]
          BY <4>1, <4>2
        <4>. HIDE DEF h, Upto
        <4>. QED
          BY <3>1, <4>3 DEF Looks
      <3>3. CASE ~(w.a < w.b)
        <4>1. w.a >= w.b
          BY <3>3 DEF Windows
        <4>. HIDE DEF h, Upto
        <4>. QED
          BY <3>1, <4>1 DEF Looks
      <3>. QED
        BY <3>2, <3>3
    <2>. HIDE DEF h, Upto
    <2>. QED
      BY <2>2
  <1>3. CAPACITY \in S
    <2>. HIDE DEF S
    <2>1. 0..CAPACITY \subseteq S
      BY <1>0, <1>1, <1>2, Induct
    <2>. QED
      BY <1>0, <2>1
  <1>4. PICK f : \A w \in Upto(CAPACITY) : f[w] = Looks(f, key, w)
    BY <1>3
  <1>5. \A w \in Windows : w \in Upto(CAPACITY)
    BY <1>0 DEF Windows
  <1>. DEFINE g == [w \in Windows |-> f[w]]
  <1>6. ASSUME NEW w \in Windows PROVE g[w] = Looks(g, key, w)
    <2>1. g[w] = Looks(f, key, w)
      BY <1>4, <1>5
    <2>2. w.a < w.b => g[Half(key, w)] = f[Half(key, w)]
      BY HalfSmaller
    <2>3. w.a < w.b \/ w.a >= w.b
      BY DEF Windows
    <2>. HIDE DEF g
    <2>. QED
      BY <2>1, <2>2, <2>3 DEF Looks
  <1>7. g = [w \in Windows |-> Looks(g, key, w)]
    <2>1. g = [w \in Windows |-> g[w]]
      OBVIOUS
    <2>. HIDE DEF g
    <2>. QED
      BY <1>6, <2>1
  <1>. QED
    BY <1>7, Zenon

\* A window is searched by its middle and one of its halves.
LEMMA SearchDef ==
    ASSUME NEW key, NEW w \in Windows
    PROVE  Search(key)[w] = Looks(Search(key), key, w)
  <1>1. Search(key) = [v \in Windows |-> Looks(Search(key), key, v)]
    BY SearchExists, Zenon DEF Search
  <1>. DEFINE s == Search(key)
  <1>2. s = [v \in Windows |-> Looks(s, key, v)]
    BY <1>1
  <1>. HIDE DEF s
  <1>3. s[w] = Looks(s, key, w)
    BY <1>2
  <1>. QED
    BY <1>3 DEF s

\* What a lookup of key finds in an array in order: its index, or where it belongs
FindsIt(key, r) ==
    IF r.found THEN r.index \in Reached /\ Entry(r.index).key = key
    ELSE /\ r.index \in 0..keysCount
         /\ \A x \in Reached : IF x < r.index THEN Entry(x).key < key ELSE key < Entry(x).key

\* Entries never decrease, and those with the same key are the same.
InOrder ==
    /\ keysCount \in 0..CAPACITY
    /\ \A x \in Reached : Entry(x) \in Entries
    /\ \A x, y \in Reached : x < y => Entry(x).key < Entry(y).key \/ Entry(x) = Entry(y)

\* The key is in the window, if it is anywhere.
Bracket(key, w) ==
    /\ w.a <= w.b /\ w.b <= keysCount
    /\ \A x \in Reached : (x < w.a => Entry(x).key < key) /\ (w.b <= x => key < Entry(x).key)

\* What an entry holds, and that it is not torn.
LEMMA EntryFacts ==
    ASSUME NEW e \in Entries
    PROVE  e.key \in Keys /\ e.key \in Int /\ e.value \in Records /\ e # torn
  <1>1. torn \notin Entries
    BY MarkersAssumption, Zenon DEF Entries
  <1>2. e # torn
    BY <1>1, Zenon
  <1>3. e.key \in Keys /\ e.value \in Records
    BY DEF Entries
  <1>. QED
    BY <1>2, <1>3, BsmapAssumption

\* Whatever its length, nrf_802154_bsmap's binary search of an array in order finds
\* a key that is there, and for one that is not the slot where it belongs.
THEOREM SearchFinds ==
    ASSUME InOrder, NEW key \in Keys
    PROVE  FindsIt(key, BinarySearch(key))
  <1>. DEFINE s == Search(key)
              Upto(n) == {w \in Windows : w.b - w.a <= n}
              S == {n \in 0..CAPACITY : \A w \in Upto(n) :
                       Bracket(key, w) => FindsIt(key, s[w])}
  <1>0. /\ CAPACITY \in Nat /\ keysCount \in Nat /\ key \in Int /\ keysCount <= CAPACITY
        /\ \A x \in Reached : Entry(x).key \in Int /\ Entry(x) # torn
        /\ \A x \in Reached : x \in Int
    BY BsmapAssumption, EntryFacts DEF InOrder, Reached
  <1>1. \A w \in Windows : w.a \in Nat /\ w.b \in Nat
    BY DEF Windows
  <1>s. \A w \in Windows : s[w] = Looks(s, key, w)
    BY SearchDef
  <1>. HIDE DEF s
  <1>2. ASSUME NEW w \in Windows, Bracket(key, w), ~(w.a < w.b)
        PROVE  FindsIt(key, s[w])
    <2>1. w.a = w.b
      BY <1>0, <1>1, <1>2 DEF Bracket
    <2>2. s[w] = [index |-> w.a, found |-> FALSE]
      <3>1. s[w] = Looks(s, key, w) /\ w.a >= w.b
        BY <1>s, <1>1, <2>1
      <3>. QED
        BY <3>1, Zenon DEF Looks
    <2>. QED
      BY <1>0, <1>1, <1>2, <2>1, <2>2 DEF Bracket, FindsIt
  <1>3. 0 \in S
    BY <1>0, <1>1, <1>2
  <1>4. ASSUME NEW n \in 1..CAPACITY, n - 1 \in S PROVE n \in S
    <2>1. SUFFICES ASSUME NEW w \in Upto(n), Bracket(key, w), w.a < w.b
                   PROVE  FindsIt(key, s[w])
      BY <1>2
    <2>. DEFINE m == Middle(w)
    <2>2. /\ m \in w.a..(w.b - 1) /\ m \in Reached
          /\ Half(key, w) \in Windows
          /\ Half(key, w).b - Half(key, w).a < w.b - w.a
      BY <1>0, <1>1, <2>1, HalfSmaller DEF Bracket, Reached
    <2>l. s[w] = Looks(s, key, w) /\ ~(w.a >= w.b)
      BY <1>s, <1>1, <2>1
    <2>3. CASE Entry(m).key = key
      <3>1. s[w] = [index |-> m, found |-> TRUE]
        BY <2>3, <2>l, Zenon DEF Looks, Hit
      <3>. QED
        BY <2>2, <2>3, <3>1 DEF FindsIt
    <2>4. CASE Entry(m).key # key
      <3>1. s[w] = s[Half(key, w)]
        BY <1>0, <2>2, <2>4, <2>l, Zenon DEF Looks, Hit
      <3>2. Half(key, w) \in Upto(n - 1)
        BY <1>1, <2>2
      <3>3. Bracket(key, Half(key, w))
        <4>1. \A x \in Reached : (x < m => Entry(x).key <= Entry(m).key)
                                 /\ (m < x => Entry(m).key <= Entry(x).key)
          <5>1. \A x \in Reached : (x < m => Entry(x).key < Entry(m).key \/ Entry(x) = Entry(m))
                                   /\ (m < x => Entry(m).key < Entry(x).key \/ Entry(m) = Entry(x))
            BY <2>2 DEF InOrder
          <5>. HIDE DEF m
          <5>. QED
            BY <1>0, <2>2, <5>1
        <4>2. CASE key < Entry(m).key
          <5>1. Half(key, w) = [w EXCEPT !.b = m]
            BY <4>2 DEF Half
          <5>2. Half(key, w).a = w.a /\ Half(key, w).b = m
            BY <5>1 DEF Windows
          <5>. HIDE DEF m
          <5>. QED
            BY <1>0, <1>1, <2>1, <2>2, <4>1, <4>2, <5>2 DEF Bracket
        <4>3. CASE ~(key < Entry(m).key)
          <5>1. Half(key, w) = [w EXCEPT !.a = m + 1]
            BY <4>3 DEF Half
          <5>2. Half(key, w).a = m + 1 /\ Half(key, w).b = w.b
            BY <5>1 DEF Windows
          <5>. HIDE DEF m
          <5>. QED
            BY <1>0, <1>1, <2>1, <2>2, <2>4, <4>1, <4>3, <5>2 DEF Bracket
        <4>. QED
          BY <4>2, <4>3
      <3>. QED
        BY <1>4, <3>1, <3>2, <3>3
    <2>. QED
      BY <2>3, <2>4
  <1>5. CAPACITY \in S
    <2>. HIDE DEF S
    <2>1. 0..CAPACITY \subseteq S
      BY <1>0, <1>3, <1>4, Induct
    <2>. QED
      BY <1>0, <2>1
  <1>. DEFINE w == [a |-> 0, b |-> keysCount]
  <1>6. w \in Windows /\ w \in Upto(CAPACITY) /\ Bracket(key, w)
    BY <1>0 DEF Windows, Bracket, Reached
  <1>7. FindsIt(key, s[w])
    <2>. HIDE DEF w, Upto
    <2>. QED
      BY <1>5, <1>6
  <1>. QED
    BY <1>7, SearchIs, Zenon DEF s

\* What a lookup returns: the record of an entry with the key, if there is one.
LEMMA LookupFinds ==
    ASSUME InOrder, NEW key \in Keys
    PROVE  /\ \A x \in Reached : Entry(x).key = key =>
                 BinarySearch(key).found /\ RecGet(key) = Entry(x).value
           /\ (\A x \in Reached : Entry(x).key # key) =>
                 ~BinarySearch(key).found /\ RecGet(key) = none
  <1>. DEFINE s == BinarySearch(key)
  <1>0. /\ key \in Int
        /\ \A x \in Reached : Entry(x).key \in Int /\ Entry(x) # torn /\ x \in Int
    BY BsmapAssumption, EntryFacts DEF InOrder, Reached
  <1>1. FindsIt(key, s)
    BY SearchFinds
  <1>2. RecGet(key) = IF ~s.found THEN none
                      ELSE IF Entry(s.index) = torn THEN torn ELSE Entry(s.index).value
    BY DEF RecGet
  <1>. HIDE DEF s
  <1>3. ASSUME NEW x \in Reached, Entry(x).key = key
        PROVE  s.found /\ RecGet(key) = Entry(x).value
    <2>1. s.found
      BY <1>0, <1>1, <1>3 DEF FindsIt
    <2>2. s.index \in Reached /\ Entry(s.index).key = key
      BY <1>1, <2>1 DEF FindsIt
    <2>3. Entry(x) = Entry(s.index)
      <3>1. x < s.index => Entry(x).key < Entry(s.index).key \/ Entry(x) = Entry(s.index)
        BY <2>2 DEF InOrder
      <3>2. s.index < x => Entry(s.index).key < Entry(x).key \/ Entry(s.index) = Entry(x)
        BY <2>2 DEF InOrder
      <3>. QED
        BY <1>0, <1>3, <2>2, <3>1, <3>2
    <2>. QED
      BY <1>0, <1>2, <2>1, <2>2, <2>3
  <1>4. ASSUME \A x \in Reached : Entry(x).key # key
        PROVE  ~s.found /\ RecGet(key) = none
    BY <1>1, <1>2, <1>4 DEF FindsIt
  <1>. QED
    BY <1>3, <1>4 DEF s
-----------------------------------------------------------------------------
(* The array while it is written *)

\* What is left of a sequence without its head.
LEMMA TailFacts ==
    ASSUME NEW S, NEW s \in Seq(S), s # <<>>
    PROVE  /\ Len(s) \in Nat \ {0} /\ Head(s) = s[1]
           /\ Tail(s) \in Seq(S) /\ Len(Tail(s)) = Len(s) - 1
           /\ \A n \in 1..(Len(s) - 1) : Tail(s)[n] = s[n + 1]
           /\ Tail(s) = <<>> <=> Len(s) = 1
  <1>1. Len(s) \in Nat \ {0} /\ Head(s) = s[1]
    OBVIOUS
  <1>2. Tail(s) \in Seq(S) /\ Len(Tail(s)) = Len(s) - 1
    OBVIOUS
  <1>3. \A n \in 1..(Len(s) - 1) : Tail(s)[n] = s[n + 1]
    OBVIOUS
  <1>4. \A t \in Seq(S) : t = <<>> <=> Len(t) = 0
    OBVIOUS
  <1>. QED
    BY <1>1, <1>2, <1>3, <1>4

\* Numbers of the invariant
LEMMA ArrayNumbers ==
    ASSUME MapType, MovesOK
    PROVE  /\ CAPACITY \in Nat \ {0} /\ keysCount \in Nat /\ keysCount <= CAPACITY
           /\ Reached \subseteq Nat /\ Settled \subseteq Reached /\ Flux \in Int
           /\ \A x : x \in Reached <=> x \in Nat /\ x < keysCount
           /\ \A x \in Reached : x \in Slots
           /\ Idle => Flux = INDEX_INVALID /\ Settled = Reached
           /\ ~Idle => Flux \in Nat /\ Flux <= keysCount /\ Flux \in Slots
           /\ Writing => /\ ~Idle
                         /\ Last.slot \in Nat /\ Last.slot <= Flux
                         /\ Last.entry.key \in Keys /\ Last.entry.key \in Int
                         /\ Last.entry.value \in Records
           /\ ~Idle /\ ~Writing => Flux < keysCount
  <1>1. CAPACITY \in Nat \ {0} /\ keysCount \in Nat /\ keysCount <= CAPACITY
    BY BsmapAssumption DEF MapType
  <1>2. \A x : x \in Reached <=> x \in Nat /\ x < keysCount
    BY <1>1 DEF Reached
  <1>3. \A x \in Reached : x \in Slots
    BY <1>1, <1>2 DEF Slots
  <1>4. Idle => Flux = INDEX_INVALID /\ Settled = Reached
    BY <1>2 DEF Flux, Settled, INDEX_INVALID
  <1>5. CASE Idle
    BY <1>1, <1>2, <1>3, <1>4, <1>5 DEF Writing, Settled, INDEX_INVALID
  <1>6. CASE Writing
    <2>1. ~Idle
      BY <1>6 DEF Writing
    <2>2. Last.slot \in 0..Flux /\ Flux <= keysCount /\ Flux < CAPACITY /\ Last.entry \in Entries
      BY <1>6 DEF MovesOK
    <2>3. Flux \in Int
      <3>1. moves \in Seq(Moves) /\ moves # <<>>
        BY <2>1 DEF MapType, Idle
      <3>2. Move = moves[1] /\ moves[1] \in Moves
        BY <3>1 DEF Move
      <3>3. Move.slot \in Int
        BY <3>2 DEF Moves
      <3>. QED
        BY <1>1, <3>3 DEF Flux, INDEX_INVALID
    <2>4. Flux \in Nat /\ Last.slot \in Nat /\ Last.slot <= Flux /\ Flux \in Slots
      BY <1>1, <2>2, <2>3 DEF Slots
    <2>5. Last.entry.key \in Keys /\ Last.entry.key \in Int /\ Last.entry.value \in Records
      BY <2>2, EntryFacts
    <2>. QED
      BY <1>1, <1>2, <1>3, <1>6, <2>1, <2>2, <2>4, <2>5 DEF Settled
  <1>7. CASE ~Idle /\ ~Writing
    <2>1. Flux \in Reached
      BY <1>7 DEF MovesOK
    <2>. QED
      BY <1>1, <1>2, <1>3, <1>7, <2>1 DEF Settled
  <1>. QED
    BY <1>5, <1>6, <1>7

\* Whatever a write is in the middle of, what lookups see is in order.
LEMMA ArrayInOrder == ASSUME ArrayOK PROVE InOrder
  <1>1. MapType /\ MovesOK /\ OrderOK /\ FluxOK
    BY DEF ArrayOK
  <1>2. /\ keysCount \in Nat /\ Reached \subseteq Nat /\ Flux \in Int
        /\ \A x : x \in Reached <=> x \in Nat /\ x < keysCount
        /\ Writing => Last.slot \in Nat /\ Last.entry.key \in Int
    BY <1>1, ArrayNumbers
  <1>3. \A x \in Reached : Entry(x) \in Entries /\ Entry(x).key \in Int
    BY <1>1, EntryFacts DEF MapType
  <1>4. ASSUME NEW x \in Reached, NEW y \in Reached, x < y
        PROVE  Entry(x).key < Entry(y).key \/ Entry(x) = Entry(y)
    <2>1. x \in Nat /\ y \in Nat /\ x < keysCount /\ y < keysCount
      BY <1>2
    <2>2. CASE x # Flux /\ y # Flux
      BY <1>1, <1>4, <2>2 DEF OrderOK, Settled
    <2>3. CASE (x = Flux \/ y = Flux) /\ Writing
      <3>1. \A z \in Reached : z # Flux =>
               IF z < Last.slot THEN Entry(z).key < Last.entry.key
                                ELSE Last.entry.key < Entry(z).key
        BY <1>1, <2>3 DEF OrderOK, Settled
      <3>2. CASE Flux = Last.slot /\ Entry(Flux).key = Last.entry.key
        BY <1>2, <1>3, <1>4, <2>1, <2>3, <3>1, <3>2
      <3>3. CASE Flux + 1 < keysCount /\ Entry(Flux) = Entry(Flux + 1)
        <4>1. Flux + 1 \in Reached /\ Flux + 1 # Flux
          BY <1>2, <2>1, <2>3, <3>3
        <4>2. \A z \in Reached : z # Flux =>
                 /\ z < Flux + 1 => Entry(z).key < Entry(Flux + 1).key
                 /\ Flux + 1 < z => Entry(Flux + 1).key < Entry(z).key
          BY <1>1, <4>1 DEF OrderOK, Settled
        <4>. QED
          BY <1>2, <1>3, <1>4, <2>1, <2>3, <3>3, <4>2
      <3>. QED
        BY <1>1, <2>3, <3>2, <3>3 DEF FluxOK
    <2>4. CASE (x = Flux \/ y = Flux) /\ ~Writing
      <3>1. CASE Flux > 0 /\ Entry(Flux) = Entry(Flux - 1)
        <4>1. Flux - 1 \in Reached /\ Flux - 1 # Flux
          BY <1>2, <2>1, <2>4, <3>1
        <4>2. \A z \in Reached : z # Flux =>
                 /\ z < Flux - 1 => Entry(z).key < Entry(Flux - 1).key
                 /\ Flux - 1 < z => Entry(Flux - 1).key < Entry(z).key
          BY <1>1, <4>1 DEF OrderOK, Settled
        <4>. QED
          BY <1>2, <1>3, <1>4, <2>1, <2>4, <3>1, <4>2
      <3>2. CASE \A z \in Settled : IF z < Flux THEN Entry(z).key < Entry(Flux).key
                                                ELSE Entry(Flux).key < Entry(z).key
        BY <1>2, <1>3, <1>4, <2>1, <2>4, <3>2 DEF Settled
      <3>. QED
        BY <1>1, <2>4, <3>1, <3>2 DEF FluxOK
    <2>. QED
      BY <2>2, <2>3, <2>4
  <1>. QED
    BY <1>1, <1>3, <1>4 DEF InOrder, MapType

\* The moves that are left after the current one
LEMMA NextMove ==
    ASSUME MapType, MovesOK, ~Idle, moves' = Tail(moves)
    PROVE  /\ Len(moves) \in Nat \ {0} /\ Move = moves[1]
           /\ moves' \in Seq(Moves) /\ Len(moves') = Len(moves) - 1
           /\ \A n \in 1..(Len(moves) - 1) : moves'[n] = moves[n + 1]
           /\ Idle' <=> Len(moves) = 1
           /\ Len(moves) > 1 => Last' = Last /\ Move' = moves[2]
           /\ Writing' <=> Writing /\ Len(moves) > 1
  <1>1. moves \in Seq(Moves) /\ moves # <<>>
    BY DEF MapType, Idle
  <1>2. /\ Len(moves) \in Nat \ {0} /\ Head(moves) = moves[1]
        /\ moves' \in Seq(Moves) /\ Len(moves') = Len(moves) - 1
        /\ \A n \in 1..(Len(moves) - 1) : moves'[n] = moves[n + 1]
        /\ moves' = <<>> <=> Len(moves) = 1
    BY <1>1, TailFacts
  <1>3. Idle' <=> Len(moves) = 1
    BY <1>2 DEF Idle
  <1>4. ASSUME Len(moves) > 1 PROVE Last' = Last /\ Move' = moves[2]
    <2>1. Last' = moves'[Len(moves')] /\ Move' = Head(moves')
      BY DEF Last, Move
    <2>2. moves' # <<>>
      BY <1>2, <1>4
    <2>3. Head(moves') = moves'[1]
      BY <1>2, <2>2, TailFacts
    <2>. QED
      BY <1>2, <1>4, <2>1, <2>3 DEF Last
  <1>5. Writing' <=> Writing /\ Len(moves) > 1
    <2>1. CASE Len(moves) = 1
      BY <1>3, <2>1 DEF Writing
    <2>2. CASE Len(moves) > 1
      <3>1. Writing' <=> ~Idle' /\ Last'.slot # INDEX_INVALID
        BY DEF Writing, INDEX_INVALID
      <3>. QED
        BY <1>3, <1>4, <2>2, <3>1 DEF Writing
    <2>. QED
      BY <1>2, <2>1, <2>2
  <1>. QED
    BY <1>2, <1>3, <1>4, <1>5 DEF Move

\* The current move, and the slot of the one after it
LEMMA MoveIs ==
    ASSUME MapType, MovesOK, ~Idle
    PROVE  /\ Writing /\ Len(moves) = 1 =>
                 Flux = Last.slot /\ Move = Last /\ Content = Last.entry
           /\ Writing /\ Len(moves) > 1 =>
                 /\ Flux > Last.slot /\ Flux - 1 \in Reached
                 /\ Move = FromSlot(Flux, Flux - 1) /\ Content = memory[Flux - 1]
                 /\ moves[2].slot = Flux - 1
           /\ ~Writing /\ Len(moves) > 1 =>
                 /\ Flux + 1 \in Reached
                 /\ Move = FromSlot(Flux, Flux + 1) /\ Content = memory[Flux + 1]
                 /\ moves[2].slot = IF Len(moves) = 2 THEN INDEX_INVALID ELSE Flux + 1
           /\ ~Writing /\ Len(moves) = 1 => Flux = keysCount - 1 /\ Move.slot = INDEX_INVALID
           /\ Len(moves) \in Nat \ {0}
           /\ Move.slot # INDEX_INVALID <=> Writing \/ Len(moves) > 1
           /\ Move.slot # INDEX_INVALID => Move.slot = Flux
  <1>0. /\ Len(moves) \in Nat \ {0} /\ Move = moves[1]
    <2>1. moves \in Seq(Moves) /\ moves # <<>>
      BY DEF MapType, Idle
    <2>. QED
      BY <2>1, TailFacts DEF Move
  <1>n. /\ Flux \in Nat /\ keysCount \in Nat /\ Flux <= keysCount
        /\ Writing => Last.slot \in Nat /\ Last.slot <= Flux
        /\ \A x : x \in Reached <=> x \in Nat /\ x < keysCount
    BY ArrayNumbers
  <1>f. Flux = IF Move.slot = INDEX_INVALID THEN keysCount - 1 ELSE Move.slot
    BY DEF Flux
  <1>c. /\ Len(moves) = 1 \/ Len(moves) > 1
        /\ Len(moves) > 1 => Len(moves) = 2 \/ Len(moves) > 2
        /\ Len(moves) > 2 => Len(moves) # 2
        /\ Len(moves) = 1 => ~(Len(moves) > 1)
    <2>1. \A n \in Nat \ {0} : /\ n = 1 \/ n > 1
                               /\ n > 1 => n = 2 \/ n > 2
                               /\ n > 2 => n # 2
                               /\ n = 1 => ~(n > 1)
      OBVIOUS
    <2>. QED
      BY <1>0, <2>1, Zenon
  <1>1. CASE Writing
    <2>1. /\ Last.source = INDEX_INVALID
          /\ Len(moves) = Flux - Last.slot + 1
          /\ \A n \in 1..(Flux - Last.slot) : moves[n] = FromSlot(Flux + 1 - n, Flux - n)
      BY <1>1 DEF MovesOK
    <2>2. CASE Len(moves) = 1
      <3>1. Move = Last
        BY <1>0, <2>2 DEF Last
      <3>2. Last.slot \in Nat
        BY <1>1, <1>n
      <3>. QED
        BY <1>1, <1>n, <2>1, <2>2, <3>1, <3>2 DEF Content, INDEX_INVALID
    <2>3. CASE Len(moves) > 1
      <3>1. Move = FromSlot(Flux, Flux - 1)
        BY <1>0, <1>1, <1>n, <2>1, <2>3
      <3>2. moves[2].slot = Flux - 1
        <4>1. CASE Len(moves) = 2
          BY <1>1, <1>n, <2>1, <4>1 DEF Last
        <4>2. CASE Len(moves) > 2
          <5>1. moves[2] = FromSlot(Flux + 1 - 2, Flux - 2)
            BY <1>1, <1>n, <2>1, <4>2
          <5>. QED
            BY <1>n, <5>1 DEF FromSlot
        <4>. QED
          BY <1>c, <2>3, <4>1, <4>2, Zenon
      <3>3. Flux > Last.slot /\ Flux - 1 \in Nat /\ Flux - 1 \in Reached
        BY <1>1, <1>n, <2>1, <2>3
      <3>4. Move.slot = Flux /\ Move.source = Flux - 1
        BY <3>1 DEF FromSlot
      <3>. QED
        BY <1>0, <1>1, <1>n, <2>3, <3>1, <3>2, <3>3, <3>4 DEF Content, INDEX_INVALID
    <2>. QED
      BY <1>c, <2>2, <2>3, Zenon
  <1>2. CASE ~Writing
    <2>1. /\ Flux \in Reached
          /\ Len(moves) = keysCount - Flux
          /\ \A n \in 1..(Len(moves) - 1) : moves[n] = FromSlot(Flux + n - 1, Flux + n)
          /\ Last = FromSlot(INDEX_INVALID, INDEX_INVALID)
      BY <1>2 DEF MovesOK
    <2>2. CASE Len(moves) = 1
      <3>1. Move = FromSlot(INDEX_INVALID, INDEX_INVALID)
        BY <1>0, <2>1, <2>2 DEF Last
      <3>2. Move.slot = INDEX_INVALID
        BY <3>1 DEF FromSlot
      <3>3. Flux = keysCount - 1
        <4>1. 1 = keysCount - Flux
          BY <2>1, <2>2, Zenon
        <4>. QED
          BY <1>n, <4>1
      <3>. QED
        BY <1>0, <1>2, <1>c, <2>2, <3>2, <3>3, Zenon
    <2>3. CASE Len(moves) > 1
      <3>1. Move = FromSlot(Flux, Flux + 1)
        <4>1. moves[1] = FromSlot(Flux + 1 - 1, Flux + 1)
          BY <1>0, <2>1, <2>3
        <4>2. Flux + 1 - 1 = Flux
          BY <1>n
        <4>. QED
          BY <1>0, <4>1, <4>2
      <3>2. moves[2].slot = IF Len(moves) = 2 THEN INDEX_INVALID ELSE Flux + 1
        <4>1. CASE Len(moves) = 2
          <5>1. moves[2] = FromSlot(INDEX_INVALID, INDEX_INVALID)
            BY <2>1, <4>1 DEF Last
          <5>2. moves[2].slot = INDEX_INVALID
            BY <5>1 DEF FromSlot
          <5>. QED
            BY <4>1, <5>2, Zenon
        <4>2. CASE Len(moves) > 2
          <5>1. moves[2] = FromSlot(Flux + 2 - 1, Flux + 2)
            BY <1>0, <2>1, <4>2
          <5>2. moves[2].slot = Flux + 1
            BY <1>n, <5>1 DEF FromSlot
          <5>. QED
            BY <1>c, <4>2, <5>2, Zenon
        <4>. QED
          BY <1>c, <2>3, <4>1, <4>2, Zenon
      <3>3. Flux + 1 \in Reached /\ Flux + 1 \in Nat
        BY <1>n, <2>1, <2>3
      <3>4. Move.slot = Flux /\ Move.source = Flux + 1
        BY <3>1 DEF FromSlot
      <3>. QED
        BY <1>0, <1>2, <1>n, <2>3, <3>1, <3>2, <3>3, <3>4 DEF Content, INDEX_INVALID
    <2>. QED
      BY <1>c, <2>2, <2>3, Zenon
  <1>. QED
    BY <1>1, <1>2

\* A step that leaves moves and what lookups see alone
LEMMA Quiet ==
    ASSUME TableIInv, keysCount' = keysCount, moves' = moves,
           \A x \in Reached : Entry(x)' = Entry(x),
           UNCHANGED <<method, iter, reset, ghosts>>
    PROVE  /\ Idle' <=> Idle
           /\ Flux' = Flux /\ Reached' = Reached /\ Move' = Move
           /\ (\A x \in Reached : Entry(x) \in Entries)'
           /\ MovesOK' /\ OrderOK' /\ FluxOK' /\ TableOK'
  <1>0. MapType /\ MovesOK /\ OrderOK /\ FluxOK /\ GoalOK /\ IterOK /\ RecordsOK /\ GhostsOK
        /\ method \in Methods
    BY DEF TableIInv, ArrayOK, TableOK
  <1>1. /\ Idle' <=> Idle
        /\ Flux' = Flux /\ Reached' = Reached /\ Move' = Move
        /\ Settled' = Settled /\ Last' = Last /\ (Writing' <=> Writing)
    BY DEF Idle, Flux, Move, Reached, Settled, Last, Writing, INDEX_INVALID
  <1>u. method' = method /\ iter' = iter /\ reset' = reset /\ goal' = goal
        /\ pend' = pend /\ elems' = elems
    BY DEF ghosts
  <1>n. /\ keysCount \in Nat /\ Flux \in Int /\ Settled \subseteq Reached
        /\ \A x : x \in Reached <=> x \in Nat /\ x < keysCount
    BY <1>0, ArrayNumbers
  <1>2. (\A x \in Reached : Entry(x) \in Entries)'
    <2>1. \A x \in Reached' : Entry(x)' \in Entries
      BY <1>0, <1>1 DEF MapType
    <2>. QED
      BY <2>1 DEF Entries
  <1>3. MovesOK'
    BY <1>0, <1>1 DEF MovesOK, FromSlot, INDEX_INVALID, Entries
  <1>4. OrderOK'
    BY <1>0, <1>1, <1>n DEF OrderOK
  <1>5. FluxOK'
    <2>1. Flux \in Reached => /\ Flux > 0 => Flux - 1 \in Reached
                              /\ Flux + 1 < keysCount => Flux + 1 \in Reached
      BY <1>n
    <2>. QED
      BY <1>0, <1>1, <1>n, <1>u, <2>1 DEF FluxOK
  <1>6. GoalOK'
    <2>1. \A x \in Settled : Want(x)' = Want(x)
      BY <1>n, <1>u DEF Want, Kept, ClearedRec, CanBeDeleted, DefaultBit
    <2>. QED
      BY <1>0, <1>1, <1>n, <1>u, <2>1 DEF GoalOK
  <1>7. IterOK'
    BY <1>0, <1>1, <1>u DEF IterOK
  <1>8. RecordsOK'
    BY <1>0, <1>u DEF RecordsOK, CanBeDeleted, DefaultBit
  <1>9. GhostsOK'
    BY <1>0, <1>u DEF GhostsOK, DefaultBit
  <1>. QED
    BY <1>0, <1>1, <1>2, <1>3, <1>4, <1>5, <1>6, <1>7, <1>8, <1>9, <1>u DEF TableOK

\* The auxiliary memory stands for the slot in flux only.
LEMMA ContentFacts ==
    ASSUME ArrayOK
    PROVE  /\ \A x \in Settled : Entry(x) = memory[x]
           /\ ~Idle /\ Writing /\ Len(moves) = 1 => Content = Last.entry
           /\ ~Idle /\ Writing /\ Len(moves) > 1 => Content = Entry(Flux - 1)
           /\ ~Idle /\ ~Writing /\ Len(moves) > 1 => Content = Entry(Flux + 1)
           /\ ~Idle /\ Move.slot # INDEX_INVALID => Content \in Entries
           /\ ~Idle /\ Move.slot # INDEX_INVALID => Move.slot = Flux
  <1>1. MapType /\ MovesOK /\ StepOK
    BY DEF ArrayOK
  <1>n. /\ keysCount \in Nat /\ Flux \in Int /\ Settled \subseteq Reached
        /\ \A x : x \in Reached <=> x \in Nat /\ x < keysCount
    BY <1>1, ArrayNumbers
  <1>2. auxIdx = Flux \/ auxIdx = -1
    BY <1>1 DEF StepOK, INDEX_INVALID
  <1>3. \A x \in Settled : Entry(x) = memory[x]
    BY <1>2, <1>n DEF Settled, Entry
  <1>4. CASE Idle
    BY <1>3, <1>4
  <1>5. CASE ~Idle
    <2>1. /\ Writing /\ Len(moves) = 1 => Content = Last.entry
          /\ Writing /\ Len(moves) > 1 => Flux - 1 \in Reached /\ Content = memory[Flux - 1]
          /\ ~Writing /\ Len(moves) > 1 => Flux + 1 \in Reached /\ Content = memory[Flux + 1]
          /\ Len(moves) \in Nat \ {0}
          /\ Move.slot # INDEX_INVALID <=> Writing \/ Len(moves) > 1
          /\ Move.slot # INDEX_INVALID => Move.slot = Flux
      BY <1>1, <1>5, MoveIs
    <2>2. /\ Flux - 1 \in Reached => Flux - 1 \in Settled
          /\ Flux + 1 \in Reached => Flux + 1 \in Settled
      BY <1>n DEF Settled
    <2>3. /\ Writing /\ Len(moves) > 1 => Flux - 1 \in Reached /\ Content = Entry(Flux - 1)
          /\ ~Writing /\ Len(moves) > 1 => Flux + 1 \in Reached /\ Content = Entry(Flux + 1)
      BY <1>3, <2>1, <2>2, Zenon
    <2>4. Writing => Last.entry \in Entries
      BY <1>1 DEF MovesOK
    <2>5. \A n \in Nat \ {0} : n = 1 \/ n > 1
      OBVIOUS
    <2>6. \A x \in Reached : Entry(x) \in Entries
      BY <1>1 DEF MapType
    <2>7. Move.slot # INDEX_INVALID => Content \in Entries
      BY <2>1, <2>3, <2>4, <2>5, <2>6, Zenon
    <2>. QED
      BY <1>3, <1>5, <2>1, <2>3, <2>7, Zenon
  <1>. QED
    BY <1>4, <1>5

\* The steps of a move that no lookup can see
LEMMA QuietStep ==
    ASSUME TableIInv, Stage \/ Show \/ Tear \/ Fill, UNCHANGED <<method, iter, reset, ghosts>>
    PROVE  /\ TableIInv'
           /\ keysCount' = keysCount /\ goal' = goal /\ \A x \in Reached : Entry(x)' = Entry(x)
  <1>0. ArrayOK /\ MapType /\ MovesOK /\ StepOK /\ ~Idle
    BY DEF TableIInv, ArrayOK, Stage, Show, Tear, Fill
  <1>n. /\ keysCount \in Nat /\ Flux \in Nat /\ Flux \in Slots /\ Flux <= keysCount
        /\ \A x \in Reached : x \in Slots /\ x \in Nat
        /\ \A x : x \in Reached <=> x \in Nat /\ x < keysCount
    BY <1>0, ArrayNumbers
  <1>c. /\ \A x \in Settled : Entry(x) = memory[x]
        /\ Move.slot # INDEX_INVALID => Content \in Entries /\ Move.slot = Flux
    BY <1>0, ContentFacts
  <1>m. Move.slot # INDEX_INVALID
    BY <1>0 DEF StepOK, Stage, Show, Tear, Fill
  <1>s. /\ keysCount' = keysCount /\ moves' = moves
        /\ goal' = goal
    BY DEF Stage, Show, Tear, Fill, ghosts
  <1>1. CASE Stage
    <2>1. auxIdx = INDEX_INVALID /\ auxIdx' = INDEX_INVALID /\ memory' = memory
      BY <1>0, <1>1 DEF StepOK, Stage
    <2>2. \A x \in Reached : Entry(x) = memory[x] /\ Entry(x)' = memory[x]
      BY <1>n, <2>1 DEF Entry, INDEX_INVALID
    <2>3. /\ Idle' <=> Idle
          /\ Flux' = Flux /\ Reached' = Reached /\ Move' = Move
          /\ (\A x \in Reached : Entry(x) \in Entries)'
          /\ MovesOK' /\ OrderOK' /\ FluxOK' /\ TableOK'
      BY <1>s, <2>2, Quiet
    <2>4. step' = IF Flux < keysCount THEN "show" ELSE "tear"
      BY <1>1, <1>m, <1>c DEF Stage, Reachable
    <2>5. Flux < keysCount => aux' = memory[Flux]
      BY <1>1, <1>m, <1>c DEF Stage, Reachable
    <2>6. StepOK'
      BY <1>0, <1>m, <1>n, <1>s, <2>1, <2>3, <2>4, <2>5 DEF StepOK, INDEX_INVALID
    <2>7. MapType'
      BY <1>0, <1>s, <2>1, <2>3, <2>4 DEF MapType, Slots, Entries, Moves
    <2>. QED
      BY <1>s, <2>2, <2>3, <2>6, <2>7 DEF TableIInv, ArrayOK
  <1>2. CASE Show
    <2>1. /\ auxIdx = INDEX_INVALID /\ auxIdx' = Flux /\ memory' = memory /\ aux' = aux
          /\ step' = "tear" /\ aux = memory[Flux] /\ Flux < keysCount
      BY <1>0, <1>2, <1>m, <1>c DEF StepOK, Show
    <2>2. \A x \in Reached : Entry(x) = memory[x] /\ Entry(x)' = memory[x]
      BY <1>n, <2>1 DEF Entry, INDEX_INVALID
    <2>3. /\ Idle' <=> Idle
          /\ Flux' = Flux /\ Reached' = Reached /\ Move' = Move
          /\ (\A x \in Reached : Entry(x) \in Entries)'
          /\ MovesOK' /\ OrderOK' /\ FluxOK' /\ TableOK'
      BY <1>s, <2>2, Quiet
    <2>6. StepOK'
      BY <1>0, <1>m, <1>n, <1>s, <2>1, <2>3 DEF StepOK, INDEX_INVALID
    <2>7. MapType'
      BY <1>0, <1>s, <2>1, <2>3 DEF MapType, Slots, Entries, Moves
    <2>. QED
      BY <1>s, <2>2, <2>3, <2>6, <2>7 DEF TableIInv, ArrayOK
  <1>3. CASE Tear \/ Fill
    <2>1. /\ auxIdx' = auxIdx /\ aux' = aux
          /\ memory' = [memory EXCEPT ![Flux] = IF Tear THEN torn ELSE Content]
          /\ auxIdx = IF Flux < keysCount THEN Flux ELSE INDEX_INVALID
      BY <1>0, <1>3, <1>m, <1>c DEF StepOK, Tear, Fill
    <2>2. \A x \in Reached : Entry(x)' = Entry(x)
      <3>1. ASSUME NEW x \in Reached PROVE Entry(x)' = Entry(x)
        <4>1. CASE x = Flux
          <5>1. auxIdx = x
            BY <1>n, <2>1, <4>1
          <5>. QED
            BY <2>1, <5>1 DEF Entry
        <4>2. CASE x # Flux
          <5>1. memory'[x] = memory[x]
            BY <1>0, <1>n, <2>1, <4>2 DEF MapType
          <5>. QED
            BY <2>1, <5>1 DEF Entry
        <4>. QED
          BY <4>1, <4>2
      <3>. QED
        BY <3>1
    <2>3. /\ Idle' <=> Idle
          /\ Flux' = Flux /\ Reached' = Reached /\ Move' = Move
          /\ (\A x \in Reached : Entry(x) \in Entries)'
          /\ MovesOK' /\ OrderOK' /\ FluxOK' /\ TableOK'
      BY <1>s, <2>2, Quiet
    <2>4. /\ memory' \in [Slots -> Entries \cup {torn}]
          /\ memory'[Flux] = IF Tear THEN torn ELSE Content
          /\ \A x \in Slots : x # Flux => memory'[x] = memory[x]
      BY <1>0, <1>c, <1>m, <1>n, <2>1 DEF MapType
    <2>5. Content' = Content
      <3>1. Move.source = INDEX_INVALID \/ (Move.source \in Slots /\ Move.source # Flux)
        <4>1. /\ Writing \/ Len(moves) > 1
              /\ Writing /\ Len(moves) = 1 => Move = Last
              /\ Writing /\ Len(moves) > 1 => Flux - 1 \in Reached /\ Move = FromSlot(Flux, Flux - 1)
              /\ ~Writing /\ Len(moves) > 1 => Flux + 1 \in Reached /\ Move = FromSlot(Flux, Flux + 1)
              /\ Len(moves) = 1 \/ Len(moves) > 1
          <5>1. /\ Move.slot # INDEX_INVALID <=> Writing \/ Len(moves) > 1
                /\ Len(moves) \in Nat \ {0}
                /\ Writing /\ Len(moves) = 1 => Move = Last
                /\ Writing /\ Len(moves) > 1 => Flux - 1 \in Reached /\ Move = FromSlot(Flux, Flux - 1)
                /\ ~Writing /\ Len(moves) > 1 => Flux + 1 \in Reached /\ Move = FromSlot(Flux, Flux + 1)
            BY <1>0, MoveIs
          <5>2. \A n \in Nat \ {0} : n = 1 \/ n > 1
            OBVIOUS
          <5>. QED
            BY <1>m, <5>1, <5>2, Zenon
        <4>2. CASE Writing /\ Len(moves) = 1
          BY <1>0, <4>1, <4>2 DEF MovesOK
        <4>3. CASE Writing /\ Len(moves) > 1
          <5>1. Move.source = Flux - 1
            BY <4>1, <4>3 DEF FromSlot
          <5>. QED
            BY <1>n, <4>1, <4>3, <5>1
        <4>4. CASE ~Writing /\ Len(moves) > 1
          <5>1. Move.source = Flux + 1
            BY <4>1, <4>4 DEF FromSlot
          <5>. QED
            BY <1>n, <4>1, <4>4, <5>1
        <4>. QED
          BY <4>1, <4>2, <4>3, <4>4, Zenon
      <3>2. Content' = IF Move.source = INDEX_INVALID THEN Move.entry ELSE memory'[Move.source]
        BY <2>3 DEF Content, INDEX_INVALID
      <3>. QED
        BY <2>4, <3>1, <3>2 DEF Content
    <2>6. StepOK'
      <3>1. CASE Tear
        <4>1. step' = "fill" /\ step = "tear"
          BY <3>1 DEF Tear
        <4>. QED
          BY <1>0, <1>m, <1>n, <1>s, <2>1, <2>3, <4>1 DEF StepOK, INDEX_INVALID
      <3>2. CASE ~Tear /\ Fill
        <4>1. step' = (IF Flux < keysCount THEN "end" ELSE "grow") /\ step = "fill"
          BY <1>c, <1>m, <3>2 DEF Fill, Reachable
        <4>2. memory'[Flux] = Content'
          BY <2>4, <2>5, <3>2
        <4>. QED
          BY <1>0, <1>m, <1>n, <1>s, <2>1, <2>3, <4>1, <4>2 DEF StepOK, INDEX_INVALID
      <3>. QED
        BY <1>3, <3>1, <3>2
    <2>7. MapType'
      <3>1. step' \in {"fill", "end", "grow"}
        BY <1>3 DEF Tear, Fill
      <3>. QED
        BY <1>0, <1>s, <2>3, <2>4, <3>1 DEF MapType, Slots, Entries, Moves
    <2>. QED
      BY <1>s, <2>2, <2>3, <2>6, <2>7 DEF TableIInv, ArrayOK
  <1>. QED
    BY <1>1, <1>2, <1>3

\* What the steps do that end a move into a slot: lookups see its content.
Lands ==
    /\ moves' = Tail(moves) /\ step' = "stage" /\ auxIdx' = INDEX_INVALID /\ memory' = memory
    /\ keysCount' = IF Flux = keysCount THEN keysCount + 1 ELSE keysCount
    /\ Reached' = Reached \cup {Flux}
    /\ \A x \in Reached' : Entry(x)' = IF x = Flux THEN Content ELSE Entry(x)
    /\ Content \in Entries

\* The last step of a move leaves its content in the slot in flux, and no other change.
LEMMA Landing ==
    ASSUME ArrayOK, Grow \/ End
    PROVE  Lands /\ ~Idle /\ (Writing \/ Len(moves) > 1)
  <1>0. MapType /\ MovesOK /\ StepOK /\ ~Idle
    BY DEF ArrayOK, Grow, End
  <1>n. /\ keysCount \in Nat /\ Flux \in Nat /\ Flux <= keysCount
        /\ \A x \in Reached : x \in Nat
        /\ \A x : x \in Reached <=> x \in Nat /\ x < keysCount
    BY <1>0, ArrayNumbers
  <1>m. Move.slot # INDEX_INVALID
    BY <1>0 DEF StepOK, Grow, End
  <1>c. /\ \A x \in Settled : Entry(x) = memory[x]
        /\ Content \in Entries /\ Move.slot = Flux
    BY <1>0, <1>m, ContentFacts
  <1>w. Writing \/ Len(moves) > 1
    BY <1>0, <1>m, MoveIs
  <1>1. /\ moves' = Tail(moves) /\ step' = "stage" /\ memory' = memory
        /\ memory[Flux] = Content
    BY <1>0 DEF Grow, End, MoveOver, StepOK
  <1>2. /\ auxIdx' = INDEX_INVALID
        /\ keysCount' = IF Flux = keysCount THEN keysCount + 1 ELSE keysCount
    <2>1. CASE Grow
      BY <1>0, <1>n, <2>1 DEF Grow, StepOK
    <2>2. CASE End
      BY <1>0, <1>n, <2>2 DEF End, StepOK
    <2>. QED
      BY <2>1, <2>2
  <1>3. Reached' = Reached \cup {Flux}
    <2>1. Reached' = 0..(keysCount' - 1)
      BY DEF Reached
    <2>2. CASE Flux = keysCount
      <3>1. keysCount' = keysCount + 1
        BY <1>2, <2>2
      <3>. QED
        BY <1>n, <2>1, <2>2, <3>1 DEF Reached
    <2>3. CASE Flux # keysCount
      <3>1. keysCount' = keysCount
        BY <1>2, <2>3
      <3>2. Flux \in Reached
        BY <1>n, <2>3
      <3>3. Reached' = Reached
        BY <2>1, <3>1 DEF Reached
      <3>. QED
        BY <3>2, <3>3
    <2>. QED
      BY <2>2, <2>3
  <1>4. \A x \in Nat : Entry(x)' = memory[x]
    BY <1>1, <1>2 DEF Entry, INDEX_INVALID
  <1>5. \A x \in Reached' : x \in Nat /\ (x = Flux \/ x \in Settled)
    BY <1>3, <1>n DEF Settled
  <1>6. \A x \in Reached' : Entry(x)' = IF x = Flux THEN Content ELSE Entry(x)
    BY <1>1, <1>4, <1>5, <1>c
  <1>. QED
    BY <1>0, <1>1, <1>2, <1>3, <1>6, <1>c, <1>w DEF Lands

\* What is to become of an entry, after a step that leaves the call alone
LEMMA WantNext ==
    ASSUME method' = method, iter' = iter, reset' = reset
    PROVE  \A x : Want(x)' = IF iter # none /\ x <= iter THEN Kept(Entry(x)'.value)
                                                         ELSE Entry(x)'.value
  <1>1. ASSUME NEW x PROVE Kept(Entry(x).value)' = Kept(Entry(x)'.value)
    BY DEF Kept, ClearedRec, CanBeDeleted, DefaultBit
  <1>. QED
    BY <1>1 DEF Want

\* Nothing is left to do: the map is as StepOK and MapType say.
LEMMA RestOK ==
    ASSUME MapType, moves' \in Seq(Moves), step' = "stage", auxIdx' = INDEX_INVALID,
           memory' \in [Slots -> Entries \cup {torn}], keysCount' \in 0..CAPACITY,
           \A x \in Reached' : Entry(x)' \in Entries
    PROVE  MapType' /\ StepOK'
  <1>1. MapType'
    BY DEF MapType, Slots, Entries, Moves
  <1>2. StepOK'
    BY DEF StepOK, INDEX_INVALID
  <1>. QED
    BY <1>1, <1>2

\* The new entry is in its slot: the write is over.
LEMMA NewLands ==
    ASSUME TableIInv, Lands, Writing, Len(moves) = 1, UNCHANGED <<method, iter, reset, ghosts>>
    PROVE  TableIInv' /\ Idle'
  <1>0. MapType /\ MovesOK /\ OrderOK /\ FluxOK /\ GoalOK /\ IterOK /\ RecordsOK /\ GhostsOK
        /\ method \in Methods /\ ~Idle /\ ArrayOK
    BY DEF TableIInv, ArrayOK, TableOK, Writing
  <1>u. method' = method /\ iter' = iter /\ reset' = reset /\ goal' = goal
        /\ pend' = pend /\ elems' = elems
    BY DEF ghosts
  <1>f. PICK f : f = Flux
    OBVIOUS
  <1>n. /\ CAPACITY \in Nat /\ keysCount \in Nat /\ f \in Nat /\ f <= keysCount
        /\ keysCount <= CAPACITY /\ f < CAPACITY
        /\ \A x : x \in Reached <=> x \in Nat /\ x < keysCount
        /\ Last.entry.key \in Int /\ Last.entry \in Entries /\ Last.entry.key \in Keys
    BY <1>0, <1>f, ArrayNumbers DEF MovesOK
  <1>1. f = Last.slot /\ Content = Last.entry
    BY <1>0, <1>f, MoveIs
  <1>2. moves' \in Seq(Moves) /\ Idle' /\ ~Writing'
    <2>1. moves' = Tail(moves)
      BY DEF Lands
    <2>2. /\ moves' \in Seq(Moves)
          /\ Idle' <=> Len(moves) = 1
      BY <1>0, <2>1, NextMove
    <2>. QED
      BY <2>2 DEF Writing
  <1>3. Flux' = INDEX_INVALID
    BY <1>2 DEF Flux, INDEX_INVALID
  <1>4. /\ Reached' = Settled \cup {f}
        /\ Settled' = Reached'
        /\ keysCount' \in Nat /\ keysCount' <= CAPACITY /\ keysCount <= keysCount'
        /\ \A x \in Reached' : Entry(x)' = IF x = f THEN Last.entry ELSE Entry(x)
    <2>1. /\ Reached' = Reached \cup {f}
          /\ \A x \in Reached' : Entry(x)' = IF x = f THEN Content ELSE Entry(x)
          /\ keysCount' = IF f = keysCount THEN keysCount + 1 ELSE keysCount
      BY <1>f DEF Lands
    <2>2. Reached' = Settled \cup {f}
      BY <1>f, <2>1 DEF Settled
    <2>3. -1 \notin Reached'
      BY <1>n, <2>1
    <2>4. Settled' = Reached'
      BY <1>3, <2>3 DEF Settled, INDEX_INVALID
    <2>. QED
      BY <1>1, <1>n, <2>1, <2>2, <2>4
  <1>5. \A x \in Settled : x \in Nat /\ x # f /\ Entry(x) \in Entries /\ Entry(x).key \in Int
    BY <1>0, <1>f, <1>n, EntryFacts DEF Settled, MapType
  <1>6. \A x \in Reached' : Entry(x)' \in Entries
    BY <1>4, <1>5, <1>n
  <1>7. MapType' /\ StepOK'
    <2>1. memory' = memory /\ step' = "stage" /\ auxIdx' = INDEX_INVALID
      BY DEF Lands
    <2>2. memory' \in [Slots -> Entries \cup {torn}] /\ keysCount' \in 0..CAPACITY
      BY <1>0, <1>4, <1>n, <2>1 DEF MapType
    <2>. QED
      BY <1>0, <1>2, <1>6, <2>1, <2>2, RestOK
  <1>8. MovesOK'
    BY <1>2 DEF MovesOK
  <1>9. OrderOK'
    <2>1. ASSUME NEW x \in Settled', NEW y \in Settled', x < y
          PROVE  Entry(x)'.key < Entry(y)'.key
      <3>0. /\ Entry(x)' = IF x = f THEN Last.entry ELSE Entry(x)
            /\ Entry(y)' = IF y = f THEN Last.entry ELSE Entry(y)
        BY <1>4
      <3>s. \A z \in Settled : IF z < f THEN Entry(z).key < Last.entry.key
                                        ELSE Last.entry.key < Entry(z).key
        BY <1>0, <1>1 DEF OrderOK
      <3>1. CASE x \in Settled /\ y \in Settled
        BY <1>0, <1>5, <2>1, <3>0, <3>1 DEF OrderOK
      <3>2. CASE x = f /\ y \in Settled
        BY <1>5, <1>n, <2>1, <3>0, <3>2, <3>s
      <3>3. CASE y = f /\ x \in Settled
        BY <1>5, <1>n, <2>1, <3>0, <3>3, <3>s
      <3>4. CASE x = f /\ y = f
        BY <1>n, <2>1, <3>4
      <3>. QED
        BY <1>4, <3>1, <3>2, <3>3, <3>4
    <2>. QED
      BY <1>2, <2>1 DEF OrderOK
  <1>10. FluxOK'
    BY <1>3, <1>4, <1>5, <1>n DEF FluxOK, INDEX_INVALID
  <1>11. GoalOK'
    <2>1. ASSUME NEW x \in Settled' PROVE goal'[Entry(x)'.key] = Want(x)'
      <3>0. Want(x)' = IF iter # none /\ x <= iter THEN Kept(Entry(x)'.value) ELSE Entry(x)'.value
        BY <1>u, WantNext
      <3>1. CASE x \in Settled
        <4>1. Entry(x)' = Entry(x)
          BY <1>4, <1>5, <3>1
        <4>2. goal[Entry(x).key] = Want(x)
          BY <1>0, <3>1 DEF GoalOK
        <4>. QED
          BY <1>u, <3>0, <4>1, <4>2, Zenon DEF Want
      <3>2. CASE x = f
        <4>1. ~(iter # none /\ x <= iter)
          BY <1>0, <1>1, <1>n, <3>2 DEF IterOK
        <4>2. Entry(x)' = Last.entry
          BY <1>4, <3>2
        <4>. QED
          BY <1>0, <1>u, <3>0, <4>1, <4>2 DEF GoalOK
      <3>. QED
        BY <1>4, <3>1, <3>2
    <2>2. ASSUME NEW k \in Keys, goal'[k] # none PROVE \E x \in Settled' : Entry(x)'.key = k
      <3>1. (\E x \in Settled : Entry(x).key = k) \/ Last.entry.key = k
        BY <1>0, <1>u, <2>2 DEF GoalOK
      <3>. QED
        BY <1>4, <1>5, <3>1
    <2>. QED
      BY <1>2, <2>1, <2>2 DEF GoalOK
  <1>12. IterOK'
    BY <1>0, <1>2, <1>4, <1>n, <1>u DEF IterOK
  <1>13. RecordsOK'
    BY <1>0, <1>u DEF RecordsOK, CanBeDeleted, DefaultBit
  <1>14. GhostsOK'
    BY <1>0, <1>u DEF GhostsOK, DefaultBit
  <1>. QED
    BY <1>0, <1>2, <1>7, <1>8, <1>9, <1>10, <1>11, <1>12, <1>13, <1>14, <1>u DEF TableIInv, ArrayOK, TableOK

\* An entry has been copied to its neighbour f: its own slot g is in flux.
LEMMA ShiftFacts ==
    ASSUME ArrayOK, Lands, ~Idle, Len(moves) > 1, NEW f, f = Flux, NEW g, g = Flux'
    PROVE  /\ ~Idle' /\ (Writing' <=> Writing) /\ Last' = Last
           /\ f \in Nat /\ g \in Nat /\ g = (IF Writing THEN f - 1 ELSE f + 1)
           /\ g \in Settled /\ f \notin Settled
           /\ Writing => f > Last.slot
           /\ ~Writing => f \in Reached
           /\ f \in Reached' /\ g \in Reached'
           /\ Settled' = (Settled \ {g}) \cup {f}
           /\ \A x \in Reached' : Entry(x)' = IF x = f THEN Entry(g) ELSE Entry(x)
           /\ keysCount' \in Nat /\ keysCount' <= CAPACITY /\ keysCount <= keysCount'
           /\ ~Writing => keysCount' = keysCount
           /\ \A x : x \in Reached' <=> x \in Nat /\ x < keysCount'
           /\ moves' \in Seq(Moves) /\ Len(moves') = Len(moves) - 1
           /\ \A n \in 1..(Len(moves) - 1) : moves'[n] = moves[n + 1]
  <1>0. MapType /\ MovesOK
    BY DEF ArrayOK
  <1>n. /\ CAPACITY \in Nat /\ keysCount \in Nat /\ f \in Nat /\ f <= keysCount
        /\ keysCount <= CAPACITY /\ f < CAPACITY
        /\ \A x : x \in Reached <=> x \in Nat /\ x < keysCount
        /\ ~Writing => f < keysCount
    BY <1>0, ArrayNumbers DEF Slots
  <1>1. /\ moves' = Tail(moves)
        /\ keysCount' = IF f = keysCount THEN keysCount + 1 ELSE keysCount
        /\ Reached' = Reached \cup {f}
        /\ \A x \in Reached' : Entry(x)' = IF x = f THEN Content ELSE Entry(x)
    BY DEF Lands
  <1>2. /\ moves' \in Seq(Moves) /\ Len(moves') = Len(moves) - 1
        /\ \A n \in 1..(Len(moves) - 1) : moves'[n] = moves[n + 1]
        /\ Last' = Last /\ Move' = moves[2]
        /\ Writing' <=> Writing
        /\ Idle' <=> Len(moves) = 1
    BY <1>0, <1>1, NextMove
  <1>3. ~Idle'
    <2>1. \A n \in Int : n > 1 => n # 1
      OBVIOUS
    <2>2. Len(moves) \in Int
      BY <1>0, MoveIs
    <2>. QED
      BY <1>2, <2>1, <2>2, Zenon
  <1>4. Flux' = IF moves[2].slot = INDEX_INVALID THEN keysCount' - 1 ELSE moves[2].slot
    BY <1>2, <1>3 DEF Flux, INDEX_INVALID
  <1>5. /\ g = (IF Writing THEN f - 1 ELSE f + 1) /\ g \in Reached
        /\ Content = Entry(g)
        /\ Writing => f > Last.slot
    <2>1. CASE Writing
      <3>1. f - 1 \in Reached /\ moves[2].slot = f - 1 /\ f > Last.slot
        BY <1>0, <2>1, MoveIs
      <3>2. Content = Entry(f - 1)
        BY <2>1, ContentFacts
      <3>. QED
        BY <1>4, <1>n, <2>1, <3>1, <3>2 DEF INDEX_INVALID
    <2>2. CASE ~Writing
      <3>1. /\ f + 1 \in Reached
            /\ moves[2].slot = IF Len(moves) = 2 THEN INDEX_INVALID ELSE f + 1
        BY <1>0, <2>2, MoveIs
      <3>2. Content = Entry(f + 1)
        BY <2>2, ContentFacts
      <3>3. CASE Len(moves) = 2
        <4>1. Len(moves) = keysCount - f
          BY <2>2 DEF MovesOK, ArrayOK
        <4>2. 2 = keysCount - f
          BY <3>3, <4>1
        <4>3. g = keysCount' - 1 /\ keysCount' = keysCount
          BY <1>1, <1>4, <1>n, <2>2, <3>1, <3>3
        <4>4. g = f + 1
          BY <1>n, <4>2, <4>3
        <4>. QED
          BY <2>2, <3>1, <3>2, <4>4
      <3>4. CASE Len(moves) # 2
        BY <1>4, <1>n, <2>2, <3>1, <3>2, <3>4 DEF INDEX_INVALID
      <3>. QED
        BY <3>3, <3>4
    <2>. QED
      BY <2>1, <2>2
  <1>6. /\ g \in Nat /\ g # f /\ g \in Settled /\ f \notin Settled
    BY <1>5, <1>n DEF Settled
  <1>7. Settled' = (Settled \ {g}) \cup {f}
    <2>1. Settled' = Reached' \ {g}
      BY DEF Settled
    <2>. QED
      BY <1>1, <1>6, <2>1 DEF Settled
  <1>8. /\ keysCount' \in Nat /\ keysCount' <= CAPACITY /\ keysCount <= keysCount'
        /\ ~Writing => keysCount' = keysCount
    BY <1>1, <1>n
  <1>9. \A x : x \in Reached' <=> x \in Nat /\ x < keysCount'
    BY <1>8 DEF Reached
  <1>10. ~Writing => f \in Reached
    BY <1>n
  <1>11. f \in Reached' /\ g \in Reached'
    BY <1>1, <1>5
  <1>. QED
    BY <1>1, <1>2, <1>3, <1>5, <1>6, <1>7, <1>8, <1>9, <1>10, <1>11, <1>n

\* An entry has been copied to its neighbour: the next move takes over from there.
LEMMA ShiftLands ==
    ASSUME TableIInv, Lands, ~Idle, Len(moves) > 1, UNCHANGED <<method, iter, reset, ghosts>>
    PROVE  TableIInv'
  <1>0. MapType /\ MovesOK /\ OrderOK /\ FluxOK /\ GoalOK /\ IterOK /\ RecordsOK /\ GhostsOK
        /\ method \in Methods /\ ArrayOK
    BY DEF TableIInv, ArrayOK, TableOK
  <1>u. method' = method /\ iter' = iter /\ reset' = reset /\ goal' = goal
        /\ pend' = pend /\ elems' = elems
    BY DEF ghosts
  <1>f. PICK f : f = Flux
    OBVIOUS
  <1>g. PICK g : g = Flux'
    OBVIOUS
  <1>n. /\ CAPACITY \in Nat /\ keysCount \in Nat /\ f <= keysCount /\ f < CAPACITY
        /\ Settled \subseteq Reached /\ Reached \subseteq Nat
        /\ Writing => Last.slot \in Nat /\ Last.entry.key \in Int
    BY <1>0, <1>f, ArrayNumbers DEF Slots
  <1>1. /\ ~Idle' /\ (Writing' <=> Writing) /\ Last' = Last
        /\ f \in Nat /\ g \in Nat /\ g = (IF Writing THEN f - 1 ELSE f + 1)
        /\ g \in Settled /\ f \notin Settled
        /\ Writing => f > Last.slot
        /\ f \in Reached' /\ g \in Reached'
        /\ Settled' = (Settled \ {g}) \cup {f}
        /\ \A x \in Reached' : Entry(x)' = IF x = f THEN Entry(g) ELSE Entry(x)
        /\ keysCount' \in Nat /\ keysCount' <= CAPACITY /\ keysCount <= keysCount'
        /\ ~Writing => keysCount' = keysCount
        /\ \A x : x \in Reached' <=> x \in Nat /\ x < keysCount'
    BY <1>0, <1>f, <1>g, ShiftFacts
  <1>2. /\ moves' \in Seq(Moves) /\ Len(moves') = Len(moves) - 1
        /\ \A n \in 1..(Len(moves) - 1) : moves'[n] = moves[n + 1]
        /\ Len(moves) \in Nat
    BY <1>0, <1>f, <1>g, ShiftFacts, MoveIs
  <1>3. \A x \in Settled : x \in Nat /\ Entry(x) \in Entries /\ Entry(x).key \in Int
    BY <1>0, <1>n, EntryFacts DEF MapType
  <1>r. \A x \in Settled' : x \in Reached'
    BY DEF Settled
  <1>4. \A x \in Reached' : Entry(x)' \in Entries
    <2>1. \A x \in Reached' : x = f \/ x \in Settled
      <3>1. \A x \in Reached' : x = g \/ x \in Settled'
        BY <1>g DEF Settled
      <3>. QED
        BY <1>1, <3>1
    <2>. QED
      BY <1>1, <1>3, <2>1
  <1>5. MapType' /\ StepOK'
    <2>1. memory' = memory /\ step' = "stage" /\ auxIdx' = INDEX_INVALID
      BY DEF Lands
    <2>2. memory' \in [Slots -> Entries \cup {torn}] /\ keysCount' \in 0..CAPACITY
      BY <1>0, <1>1, <1>n, <2>1 DEF MapType
    <2>. QED
      BY <1>0, <1>2, <1>4, <2>1, <2>2, RestOK
  <1>6. MovesOK'
    <2>1. CASE Writing
      <3>1. /\ Last.source = INDEX_INVALID /\ Last.entry \in Entries
            /\ Len(moves) = f - Last.slot + 1
            /\ \A n \in 1..(f - Last.slot) : moves[n] = FromSlot(f + 1 - n, f - n)
        BY <1>0, <1>f, <2>1 DEF MovesOK
      <3>2. Last.slot \in 0..g /\ g <= keysCount' /\ g < CAPACITY
        BY <1>1, <1>n, <2>1
      <3>3. Len(moves') = g - Last.slot + 1
        <4>1. f \in Int /\ Last.slot \in Int /\ g = f - 1
          BY <1>1, <1>n, <2>1
        <4>2. Len(moves') = Len(moves) - 1 /\ Len(moves) = f - Last.slot + 1
          BY <1>2, <3>1
        <4>. QED
          BY <4>1, <4>2
      <3>4. ASSUME NEW n \in 1..(g - Last.slot) PROVE moves'[n] = FromSlot(g + 1 - n, g - n)
        <4>1. n + 1 \in 1..(f - Last.slot) /\ n \in 1..(Len(moves) - 1)
          BY <1>1, <1>n, <2>1, <3>1
        <4>2. moves'[n] = FromSlot(f + 1 - (n + 1), f - (n + 1))
          BY <1>2, <3>1, <4>1
        <4>3. f + 1 - (n + 1) = g + 1 - n /\ f - (n + 1) = g - n
          BY <1>1, <2>1
        <4>. QED
          BY <4>2, <4>3
      <3>. QED
        BY <1>1, <1>g, <2>1, <3>1, <3>2, <3>3, <3>4 DEF MovesOK, INDEX_INVALID, Entries, FromSlot
    <2>2. CASE ~Writing
      <3>1. /\ Len(moves) = keysCount - f
            /\ \A n \in 1..(Len(moves) - 1) : moves[n] = FromSlot(f + n - 1, f + n)
            /\ Last = FromSlot(INDEX_INVALID, INDEX_INVALID)
        BY <1>0, <1>f, <2>2 DEF MovesOK
      <3>2. Len(moves') = keysCount' - g
        BY <1>1, <1>2, <1>n, <2>2, <3>1
      <3>3. ASSUME NEW n \in 1..(Len(moves') - 1) PROVE moves'[n] = FromSlot(g + n - 1, g + n)
        <4>1. n + 1 \in 1..(Len(moves) - 1) /\ n \in 1..(Len(moves) - 1)
          BY <1>2
        <4>2. moves'[n] = FromSlot(f + (n + 1) - 1, f + (n + 1))
          BY <1>2, <3>1, <4>1
        <4>3. f + (n + 1) - 1 = g + n - 1 /\ f + (n + 1) = g + n
          BY <1>1, <2>2
        <4>. QED
          BY <4>2, <4>3
      <3>. QED
        BY <1>1, <1>g, <2>2, <3>1, <3>2, <3>3 DEF MovesOK, INDEX_INVALID, FromSlot
    <2>. QED
      BY <2>1, <2>2
  <1>7. OrderOK'
    <2>1. ASSUME NEW x \in Settled', NEW y \in Settled', x < y
          PROVE  Entry(x)'.key < Entry(y)'.key
      <3>. DEFINE v == IF x = f THEN g ELSE x
                  w == IF y = f THEN g ELSE y
      <3>1. v \in Settled /\ w \in Settled /\ Entry(x)' = Entry(v) /\ Entry(y)' = Entry(w)
        BY <1>1, <1>r
      <3>2. x \in Nat /\ y \in Nat /\ x # g /\ y # g
        BY <1>1, <1>3
      <3>3. v < w
        BY <1>1, <2>1, <3>2
      <3>. HIDE DEF v, w
      <3>. QED
        BY <1>0, <3>1, <3>3 DEF OrderOK
    <2>2. ASSUME Writing, NEW x \in Settled'
          PROVE  IF x < Last.slot THEN Entry(x)'.key < Last.entry.key
                                  ELSE Last.entry.key < Entry(x)'.key
      <3>. DEFINE v == IF x = f THEN g ELSE x
      <3>1. v \in Settled /\ Entry(x)' = Entry(v)
        BY <1>1, <1>r
      <3>2. x < Last.slot <=> v < Last.slot
        BY <1>1, <1>3, <1>n, <2>2
      <3>. HIDE DEF v
      <3>. QED
        BY <1>0, <2>2, <3>1, <3>2 DEF OrderOK
    <2>. QED
      BY <1>1, <2>1, <2>2 DEF OrderOK
  <1>8. FluxOK'
    <2>1. Entry(f)' = Entry(g) /\ Entry(g)' = Entry(g)
      BY <1>1
    <2>2. CASE Writing
      <3>1. g + 1 = f /\ f < keysCount'
        BY <1>1, <2>2
      <3>2. g + 1 < keysCount' /\ Entry(g)' = Entry(g + 1)'
        BY <2>1, <3>1
      <3>. QED
        BY <1>1, <1>g, <2>2, <3>2 DEF FluxOK
    <2>3. CASE ~Writing
      <3>1. g - 1 = f /\ g > 0
        BY <1>1, <2>3
      <3>2. g > 0 /\ Entry(g)' = Entry(g - 1)'
        BY <2>1, <3>1
      <3>. QED
        BY <1>1, <1>g, <2>3, <3>2 DEF FluxOK
    <2>. QED
      BY <2>2, <2>3
  <1>i. iter # none => iter \in Int /\ iter < f /\ iter < g
    BY <1>0, <1>1, <1>f, <1>n DEF IterOK
  <1>9. GoalOK'
    <2>1. ASSUME NEW x \in Settled' PROVE goal'[Entry(x)'.key] = Want(x)'
      <3>0. Want(x)' = IF iter # none /\ x <= iter THEN Kept(Entry(x)'.value) ELSE Entry(x)'.value
        BY <1>u, WantNext
      <3>1. CASE x # f
        <4>1. x \in Settled /\ Entry(x)' = Entry(x)
          BY <1>1, <1>r, <3>1
        <4>2. goal[Entry(x).key] = Want(x)
          BY <1>0, <4>1 DEF GoalOK
        <4>. QED
          BY <1>u, <3>0, <4>1, <4>2, Zenon DEF Want
      <3>2. CASE x = f
        <4>1. ~(iter # none /\ x <= iter) /\ ~(iter # none /\ g <= iter)
          BY <1>1, <1>i, <3>2
        <4>2. Entry(x)' = Entry(g)
          BY <1>1, <3>2
        <4>3. goal[Entry(g).key] = Want(g)
          BY <1>0, <1>1 DEF GoalOK
        <4>4. Want(g) = Entry(g).value
          BY <4>1, Zenon DEF Want
        <4>. QED
          BY <1>u, <3>0, <4>1, <4>2, <4>3, <4>4, Zenon
      <3>. QED
        BY <3>1, <3>2
    <2>2. ASSUME NEW k \in Keys, goal'[k] # none
          PROVE (\E x \in Settled' : Entry(x)'.key = k) \/ (Writing /\ Last.entry.key = k)
      <3>1. (\E x \in Settled : Entry(x).key = k) \/ (Writing /\ Last.entry.key = k)
        BY <1>0, <1>u, <2>2 DEF GoalOK
      <3>2. ASSUME NEW x \in Settled, Entry(x).key = k PROVE \E y \in Settled' : Entry(y)'.key = k
        <4>1. CASE x = g
          <5>1. f \in Settled' /\ Entry(f)'.key = k
            BY <1>1, <3>2, <4>1
          <5>. QED
            BY <5>1
        <4>2. CASE x # g
          <5>1. x \in Settled' /\ x # f
            BY <1>1, <4>2
          <5>2. Entry(x)' = Entry(x)
            BY <1>1, <1>r, <5>1
          <5>. QED
            BY <3>2, <5>1, <5>2
        <4>. QED
          BY <4>1, <4>2
      <3>. QED
        BY <3>1, <3>2
    <2>3. Writing => goal'[Last.entry.key] = Last.entry.value
      BY <1>0, <1>u DEF GoalOK
    <2>. QED
      BY <1>1, <2>1, <2>2, <2>3 DEF GoalOK
  <1>10. IterOK'
    <2>1. ASSUME iter # none
          PROVE  iter \in -1..(keysCount' - 1) /\ iter < g /\ (Writing => iter < Last.slot)
      <3>1. iter \in -1..(keysCount - 1) /\ (Writing => iter < Last.slot)
        BY <1>0, <2>1 DEF IterOK
      <3>2. iter \in Int /\ -1 <= iter /\ iter < keysCount
        BY <3>1, <1>n
      <3>3. iter \in -1..(keysCount' - 1)
        <4>1. keysCount' \in Int /\ keysCount <= keysCount' /\ keysCount \in Int
          BY <1>1, <1>n
        <4>2. \A i, c, d \in Int : -1 <= i /\ i < c /\ c <= d => i \in -1..(d - 1)
          OBVIOUS
        <4>. QED
          BY <3>2, <4>1, <4>2, Zenon
      <3>. QED
        BY <3>1, <3>3, <1>i, <2>1
    <2>. QED
      BY <2>1, <1>1, <1>g, <1>u DEF IterOK
  <1>11. RecordsOK'
    BY <1>0, <1>u DEF RecordsOK, CanBeDeleted, DefaultBit
  <1>12. GhostsOK'
    BY <1>0, <1>u DEF GhostsOK, DefaultBit
  <1>. QED
    BY <1>0, <1>5, <1>6, <1>7, <1>8, <1>9, <1>10, <1>11, <1>12, <1>u DEF TableIInv, ArrayOK, TableOK

\* The last slot, whose entry is gone or has been copied down, is given up.
LEMMA Shrinks ==
    ASSUME TableIInv, Shrink, UNCHANGED <<method, iter, reset, ghosts>>
    PROVE  /\ TableIInv' /\ Idle' /\ ~Idle /\ ~Writing /\ Flux \in Reached
           /\ Reached' = Settled /\ Settled' = Settled
           /\ \A x \in Settled : Entry(x)' = Entry(x)
  <1>0. MapType /\ MovesOK /\ StepOK /\ OrderOK /\ FluxOK /\ GoalOK /\ IterOK /\ RecordsOK
        /\ GhostsOK /\ method \in Methods /\ ArrayOK /\ ~Idle
    BY DEF TableIInv, ArrayOK, TableOK, Shrink
  <1>u. method' = method /\ iter' = iter /\ reset' = reset /\ goal' = goal
        /\ pend' = pend /\ elems' = elems
    BY DEF ghosts
  <1>f. PICK f : f = Flux
    OBVIOUS
  <1>1. ~Writing /\ Len(moves) = 1 /\ f = keysCount - 1
    <2>1. /\ Move.slot # INDEX_INVALID <=> Writing \/ Len(moves) > 1
          /\ Len(moves) \in Nat \ {0}
          /\ ~Writing /\ Len(moves) = 1 => Flux = keysCount - 1
      BY <1>0, MoveIs
    <2>2. Move.slot = INDEX_INVALID
      BY DEF Shrink
    <2>3. \A n \in Nat \ {0} : n = 1 \/ n > 1
      OBVIOUS
    <2>. QED
      BY <1>f, <2>1, <2>2, <2>3, Zenon
  <1>n. /\ CAPACITY \in Nat /\ keysCount \in Nat /\ f \in Nat /\ f < keysCount
        /\ keysCount <= CAPACITY /\ Settled \subseteq Reached
        /\ \A x : x \in Reached <=> x \in Nat /\ x < keysCount
        /\ \A x \in Reached : x \in Slots
    BY <1>0, <1>1, <1>f, ArrayNumbers
  <1>2. /\ keysCount' = f /\ memory' = [memory EXCEPT ![f] = torn]
        /\ auxIdx = INDEX_INVALID /\ auxIdx' = INDEX_INVALID /\ step' = "stage"
        /\ moves' = Tail(moves)
    BY <1>0, <1>1 DEF Shrink, MoveOver, StepOK
  <1>3. moves' \in Seq(Moves) /\ Idle' /\ ~Writing'
    <2>1. /\ moves' \in Seq(Moves)
          /\ Idle' <=> Len(moves) = 1
      BY <1>0, <1>2, NextMove
    <2>. QED
      BY <1>1, <2>1 DEF Writing
  <1>4. Flux' = INDEX_INVALID
    BY <1>3 DEF Flux, INDEX_INVALID
  <1>5. Reached' = Settled /\ Settled' = Settled
    <2>1. Reached' = 0..(f - 1)
      BY <1>2 DEF Reached
    <2>2. Reached' = Settled
      BY <1>1, <1>f, <1>n, <2>1 DEF Settled
    <2>3. -1 \notin Reached'
      BY <2>1
    <2>. QED
      BY <1>4, <2>2, <2>3 DEF Settled, INDEX_INVALID
  <1>6. \A x \in Settled : Entry(x)' = Entry(x)
    <2>1. ASSUME NEW x \in Settled PROVE Entry(x)' = Entry(x)
      <3>1. x # f /\ x \in Nat /\ x \in Slots
        BY <1>f, <1>n DEF Settled
      <3>2. memory'[x] = memory[x]
        BY <1>0, <1>2, <3>1 DEF MapType
      <3>. QED
        BY <1>2, <3>1, <3>2 DEF Entry, INDEX_INVALID
    <2>. QED
      BY <2>1
  <1>7. MapType' /\ StepOK'
    <2>1. memory' \in [Slots -> Entries \cup {torn}] /\ keysCount' \in 0..CAPACITY
      BY <1>0, <1>2, <1>n DEF MapType
    <2>2. \A x \in Reached' : Entry(x)' \in Entries
      BY <1>0, <1>5, <1>6, <1>n DEF MapType
    <2>. QED
      BY <1>0, <1>2, <1>3, <2>1, <2>2, RestOK
  <1>8. MovesOK'
    BY <1>3 DEF MovesOK
  <1>9. OrderOK'
    BY <1>0, <1>3, <1>5, <1>6 DEF OrderOK
  <1>10. FluxOK'
    BY <1>4, <1>5, <1>n DEF FluxOK, INDEX_INVALID
  <1>11. GoalOK'
    <2>1. ASSUME NEW x \in Settled' PROVE goal'[Entry(x)'.key] = Want(x)'
      <3>0. Want(x)' = IF iter # none /\ x <= iter THEN Kept(Entry(x)'.value) ELSE Entry(x)'.value
        BY <1>u, WantNext
      <3>1. x \in Settled /\ Entry(x)' = Entry(x)
        BY <1>5, <1>6
      <3>2. goal[Entry(x).key] = Want(x)
        BY <1>0, <3>1 DEF GoalOK
      <3>. QED
        BY <1>u, <3>0, <3>1, <3>2, Zenon DEF Want
    <2>2. ASSUME NEW k \in Keys, goal'[k] # none PROVE \E x \in Settled' : Entry(x)'.key = k
      <3>1. \E x \in Settled : Entry(x).key = k
        BY <1>0, <1>1, <1>u, <2>2 DEF GoalOK
      <3>. QED
        BY <1>5, <1>6, <3>1
    <2>. QED
      BY <1>3, <2>1, <2>2 DEF GoalOK
  <1>12. IterOK'
    <2>1. iter # none => iter \in -1..(f - 1)
      BY <1>0, <1>f, <1>n DEF IterOK
    <2>. QED
      BY <1>2, <1>3, <1>u, <2>1 DEF IterOK
  <1>13. RecordsOK'
    BY <1>0, <1>u DEF RecordsOK, CanBeDeleted, DefaultBit
  <1>14. GhostsOK'
    BY <1>0, <1>u DEF GhostsOK, DefaultBit
  <1>15. TableIInv'
    BY <1>0, <1>7, <1>8, <1>9, <1>10, <1>11, <1>12, <1>13, <1>14, <1>u DEF TableIInv, ArrayOK, TableOK
  <1>. QED
    BY <1>0, <1>1, <1>3, <1>5, <1>6, <1>15, <1>f, <1>n

-----------------------------------------------------------------------------
(* The beginning of a write *)

\* A sequence and one more.
LEMMA AppendFacts ==
    ASSUME NEW S, NEW s \in Seq(S), NEW e \in S, NEW t, t = s \o <<e>>
    PROVE  /\ t \in Seq(S) /\ Len(t) = Len(s) + 1
           /\ \A n \in 1..Len(s) : t[n] = s[n]
           /\ t[Len(s) + 1] = e
           /\ t # <<>>
  OBVIOUS

\* A write of one move.
LEMMA OneMove ==
    ASSUME NEW S, NEW e \in S
    PROVE  /\ <<e>> \in Seq(S) /\ <<e>> # <<>> /\ Len(<<e>>) = 1
           /\ Head(<<e>>) = e /\ <<e>>[1] = e
  OBVIOUS

\* Entries are moved from slot to slot.
LEMMA MoveFacts == \A x, y \in Int : FromSlot(x, y) \in Moves
  BY DEF FromSlot, Moves

\* A record is replaced.
LEMMA UpdateMoves ==
    ASSUME keysCount \in Nat, NEW i \in Nat, i < keysCount, NEW k \in Keys, NEW v \in Records,
           keysCount' = keysCount, moves' = <<NewEntry(i, k, v)>>
    PROVE  /\ moves' \in Seq(Moves) /\ ~Idle' /\ Writing' /\ Flux' = i
           /\ Last' = NewEntry(i, k, v) /\ Len(moves') = 1 /\ Move' = NewEntry(i, k, v)
  <1>. DEFINE e == NewEntry(i, k, v)
  <1>1. e \in Moves /\ e.slot = i
    <2>1. i \in Int
      OBVIOUS
    <2>. QED
      BY <2>1 DEF NewEntry, Moves, Entries, INDEX_INVALID
  <1>2. moves' \in Seq(Moves) /\ moves' # <<>> /\ Len(moves') = 1 /\ Head(moves') = e /\ moves'[1] = e
    <2>1. moves' = <<e>>
      OBVIOUS
    <2>. QED
      BY <1>1, <2>1, OneMove, Zenon
  <1>3. ~Idle' /\ Last' = e /\ Move' = e
    BY <1>2 DEF Idle, Last, Move
  <1>. QED
    BY <1>1, <1>2, <1>3 DEF Flux, Writing, INDEX_INVALID

\* An entry is added.
LEMMA InsertMoves ==
    ASSUME keysCount \in Nat, NEW i \in Nat, i <= keysCount, NEW k \in Keys, NEW v \in Records,
           keysCount' = keysCount, moves' = ShiftUp(i) \o <<NewEntry(i, k, v)>>
    PROVE  /\ moves' \in Seq(Moves) /\ ~Idle' /\ Writing' /\ Flux' = keysCount
           /\ Last' = NewEntry(i, k, v) /\ Len(moves') = keysCount - i + 1
           /\ \A n \in 1..(keysCount - i) : moves'[n] = FromSlot(keysCount + 1 - n, keysCount - n)
  <1>. DEFINE e == NewEntry(i, k, v)
              s == ShiftUp(i)
  <1>1. e \in Moves /\ e.slot = i
    <2>1. i \in Int
      OBVIOUS
    <2>. QED
      BY <2>1 DEF NewEntry, Moves, Entries, INDEX_INVALID
  <1>2. s \in Seq(Moves) /\ Len(s) = keysCount - i
        /\ \A n \in 1..(keysCount - i) : s[n] = FromSlot(keysCount + 1 - n, keysCount - n)
    <2>1. s = [n \in 1..(keysCount - i) |-> FromSlot(keysCount + 1 - n, keysCount - n)]
      BY DEF ShiftUp
    <2>2. \A n \in 1..(keysCount - i) : FromSlot(keysCount + 1 - n, keysCount - n) \in Moves
      BY MoveFacts
    <2>3. keysCount - i \in Nat
      OBVIOUS
    <2>. HIDE DEF s
    <2>. QED
      BY <2>1, <2>2, <2>3
  <1>. HIDE DEF e, s
  <1>3. /\ moves' \in Seq(Moves) /\ Len(moves') = Len(s) + 1
        /\ \A n \in 1..Len(s) : moves'[n] = s[n]
        /\ moves'[Len(s) + 1] = e /\ moves' # <<>>
    <2>1. moves' = s \o <<e>>
      BY DEF s, e
    <2>2. s \in Seq(Moves) /\ e \in Moves
      BY <1>1, <1>2, Zenon
    <2>3. PICK t : t = moves'
      OBVIOUS
    <2>4. PICK r : r = s
      OBVIOUS
    <2>5. t = r \o <<e>> /\ r \in Seq(Moves)
      BY <2>1, <2>2, <2>3, <2>4, Zenon
    <2>6. /\ t \in Seq(Moves) /\ Len(t) = Len(r) + 1
          /\ \A n \in 1..Len(r) : t[n] = r[n]
          /\ t[Len(r) + 1] = e /\ t # <<>>
      BY <2>2, <2>5, AppendFacts
    <2>. QED
      BY <2>3, <2>4, <2>6, Zenon
  <1>4. ~Idle' /\ Last' = e
    BY <1>3 DEF Idle, Last
  <1>5. Move' = moves'[1]
    <2>1. Move' = Head(moves')
      BY DEF Move
    <2>. QED
      BY <1>3, <2>1, TailFacts
  <1>6. Move'.slot = keysCount
    <2>1. CASE i = keysCount
      BY <1>1, <1>2, <1>3, <1>5, <2>1
    <2>2. CASE i # keysCount
      <3>1. moves'[1] = FromSlot(keysCount + 1 - 1, keysCount - 1)
        BY <1>2, <1>3, <2>2
      <3>. QED
        BY <1>5, <3>1 DEF FromSlot
    <2>. QED
      BY <2>1, <2>2
  <1>7. Flux' = keysCount
    BY <1>4, <1>6 DEF Flux, INDEX_INVALID
  <1>8. Writing'
    BY <1>1, <1>4 DEF Writing, INDEX_INVALID
  <1>. QED
    BY <1>2, <1>3, <1>4, <1>7, <1>8 DEF e

\* An entry is deleted.
LEMMA RemovalMoves ==
    ASSUME keysCount \in Nat, NEW i \in Nat, i < keysCount,
           keysCount' = keysCount, moves' = DeleteMoves(i)
    PROVE  /\ moves' \in Seq(Moves) /\ ~Idle' /\ ~Writing' /\ Flux' = i
           /\ Last' = FromSlot(INDEX_INVALID, INDEX_INVALID) /\ Len(moves') = keysCount - i
           /\ \A n \in 1..(Len(moves') - 1) : moves'[n] = FromSlot(i + n - 1, i + n)
  <1>. DEFINE e == FromSlot(INDEX_INVALID, INDEX_INVALID)
              s == ShiftDown(i)
  <1>1. e \in Moves /\ e.slot = INDEX_INVALID
    BY MoveFacts DEF FromSlot, INDEX_INVALID
  <1>2. s \in Seq(Moves) /\ Len(s) = keysCount - 1 - i
        /\ \A n \in 1..(keysCount - 1 - i) : s[n] = FromSlot(i + n - 1, i + n)
    <2>1. s = [n \in 1..(keysCount - 1 - i) |-> FromSlot(i + n - 1, i + n)]
      BY DEF ShiftDown
    <2>2. \A n \in 1..(keysCount - 1 - i) : FromSlot(i + n - 1, i + n) \in Moves
      BY MoveFacts
    <2>3. keysCount - 1 - i \in Nat
      OBVIOUS
    <2>. HIDE DEF s
    <2>. QED
      BY <2>1, <2>2, <2>3
  <1>. HIDE DEF e, s
  <1>3. /\ moves' \in Seq(Moves) /\ Len(moves') = Len(s) + 1
        /\ \A n \in 1..Len(s) : moves'[n] = s[n]
        /\ moves'[Len(s) + 1] = e /\ moves' # <<>>
    <2>1. moves' = s \o <<e>>
      BY DEF s, e, DeleteMoves
    <2>2. s \in Seq(Moves) /\ e \in Moves
      BY <1>1, <1>2, Zenon
    <2>3. PICK t : t = moves'
      OBVIOUS
    <2>4. PICK r : r = s
      OBVIOUS
    <2>5. t = r \o <<e>> /\ r \in Seq(Moves)
      BY <2>1, <2>2, <2>3, <2>4, Zenon
    <2>6. /\ t \in Seq(Moves) /\ Len(t) = Len(r) + 1
          /\ \A n \in 1..Len(r) : t[n] = r[n]
          /\ t[Len(r) + 1] = e /\ t # <<>>
      BY <2>2, <2>5, AppendFacts
    <2>. QED
      BY <2>3, <2>4, <2>6, Zenon
  <1>4. ~Idle' /\ Last' = e
    BY <1>3 DEF Idle, Last
  <1>5. Move' = moves'[1]
    <2>1. Move' = Head(moves')
      BY DEF Move
    <2>. QED
      BY <1>3, <2>1, TailFacts
  <1>6. Move'.slot = IF i = keysCount - 1 THEN INDEX_INVALID ELSE i
    <2>1. CASE i = keysCount - 1
      BY <1>1, <1>2, <1>3, <1>5, <2>1
    <2>2. CASE i # keysCount - 1
      <3>1. moves'[1] = FromSlot(i + 1 - 1, i + 1)
        BY <1>2, <1>3, <2>2
      <3>. QED
        BY <1>5, <2>2, <3>1 DEF FromSlot
    <2>. QED
      BY <2>1, <2>2
  <1>7. Flux' = i
    BY <1>4, <1>6 DEF Flux, INDEX_INVALID
  <1>8. ~Writing'
    BY <1>1, <1>4 DEF Writing, INDEX_INVALID
  <1>9. Len(moves') = keysCount - i /\ Len(moves') - 1 = keysCount - 1 - i /\ Len(s) = keysCount - 1 - i
    BY <1>2, <1>3
  <1>. QED
    BY <1>2, <1>3, <1>4, <1>7, <1>8, <1>9 DEF e

\* A call that leaves the array alone, for now
LEMMA CallRest ==
    ASSUME TableIInv, Idle, UNCHANGED mapVars, step' = "stage", moves' \in Seq(Moves)
    PROVE  /\ MapType' /\ StepOK'
           /\ Reached' = Reached /\ Settled = Reached /\ keysCount' = keysCount
           /\ \A x : Entry(x)' = Entry(x)
           /\ \A x : x \in Reached <=> x \in Nat /\ x < keysCount
           /\ \A x \in Reached : Entry(x) \in Entries /\ Entry(x).key \in Int /\ Entry(x).key \in Keys
           /\ \A x, y \in Reached : x < y => Entry(x).key < Entry(y).key
           /\ keysCount \in Nat /\ CAPACITY \in Nat /\ keysCount <= CAPACITY
  <1>0. MapType /\ MovesOK /\ StepOK /\ OrderOK
    BY DEF TableIInv, ArrayOK
  <1>1. keysCount' = keysCount /\ memory' = memory /\ auxIdx' = auxIdx /\ aux' = aux
    BY DEF mapVars
  <1>2. /\ \A x : x \in Reached <=> x \in Nat /\ x < keysCount
        /\ Settled = Reached /\ keysCount \in Nat /\ CAPACITY \in Nat /\ keysCount <= CAPACITY
    BY <1>0, ArrayNumbers
  <1>3. Reached' = Reached /\ \A x : Entry(x)' = Entry(x)
    BY <1>1 DEF Reached, Entry
  <1>4. \A x \in Reached : Entry(x) \in Entries /\ Entry(x).key \in Int /\ Entry(x).key \in Keys
    BY <1>0, EntryFacts DEF MapType
  <1>5. auxIdx' = INDEX_INVALID
    BY <1>0, <1>1 DEF StepOK
  <1>6. /\ memory' \in [Slots -> Entries \cup {torn}] /\ keysCount' \in 0..CAPACITY
        /\ \A x \in Reached' : Entry(x)' \in Entries
    BY <1>0, <1>1, <1>3, <1>4 DEF MapType
  <1>7. MapType' /\ StepOK'
    BY <1>0, <1>5, <1>6, RestOK
  <1>8. \A x, y \in Reached : x < y => Entry(x).key < Entry(y).key
    BY <1>0, <1>2 DEF OrderOK
  <1>. QED
    BY <1>1, <1>2, <1>3, <1>4, <1>7, <1>8

\* The record of slot i is going to be replaced.
LEMMA StartUpdate ==
    ASSUME TableIInv, Idle, UNCHANGED mapVars, step' = "stage",
           NEW i \in Reached, NEW k \in Keys, Entry(i).key = k, NEW v \in Records,
           moves' = <<NewEntry(i, k, v)>>
    PROVE  /\ ArrayOK' /\ ~Idle' /\ Writing' /\ Flux' = i
           /\ Last'.slot = i /\ Last'.entry.key = k /\ Last'.entry.value = v
           /\ Settled' = Reached \ {i}
  <1>1. /\ keysCount \in Nat /\ i \in Nat /\ i < keysCount /\ keysCount' = keysCount
        /\ keysCount <= CAPACITY /\ CAPACITY \in Nat
    <2>1. keysCount' = keysCount
      BY DEF mapVars
    <2>. QED
      BY <2>1, ArrayNumbers DEF TableIInv, ArrayOK
  <1>2. /\ moves' \in Seq(Moves) /\ ~Idle' /\ Writing' /\ Flux' = i
        /\ Last' = NewEntry(i, k, v) /\ Len(moves') = 1
    BY <1>1, UpdateMoves
  <1>3. /\ MapType' /\ StepOK'
        /\ Reached' = Reached /\ Settled = Reached
        /\ \A x : Entry(x)' = Entry(x)
        /\ \A x : x \in Reached <=> x \in Nat /\ x < keysCount
        /\ \A x \in Reached : Entry(x).key \in Int
        /\ \A x, y \in Reached : x < y => Entry(x).key < Entry(y).key
    BY <1>2, CallRest
  <1>4. /\ Last'.slot = i /\ Last'.source = INDEX_INVALID /\ Last'.entry \in Entries
        /\ Last'.entry = [key |-> k, value |-> v]
    <2>1. i \in Int
      BY <1>1
    <2>2. /\ NewEntry(i, k, v).slot = i /\ NewEntry(i, k, v).source = INDEX_INVALID
          /\ NewEntry(i, k, v).entry = [key |-> k, value |-> v]
          /\ NewEntry(i, k, v).entry \in Entries
      BY <2>1 DEF NewEntry, Entries
    <2>3. Last' = NewEntry(i, k, v)
      BY <1>2
    <2>. QED
      BY <2>2, <2>3, Zenon
  <1>5. Last'.entry.key = k /\ Last'.entry.value = v
    BY <1>4
  <1>6. Settled' = Reached \ {i}
    BY <1>2, <1>3 DEF Settled
  <1>7. MovesOK'
    <2>1. /\ Last'.slot \in 0..i /\ i <= keysCount' /\ i < CAPACITY
          /\ Len(moves') = i - Last'.slot + 1 /\ i - Last'.slot = 0
      BY <1>1, <1>2, <1>4
    <2>2. \A n \in 1..(i - Last'.slot) : FALSE
      BY <2>1
    <2>. QED
      BY <1>2, <1>4, <2>1, <2>2 DEF MovesOK, INDEX_INVALID, Entries
  <1>8. OrderOK'
    <2>1. \A x, y \in Settled' : x < y => Entry(x)'.key < Entry(y)'.key
      BY <1>3, <1>6
    <2>2. ASSUME NEW x \in Settled'
          PROVE  IF x < i THEN Entry(x)'.key < k ELSE k < Entry(x)'.key
      <3>1. x \in Reached /\ x # i /\ x \in Nat
        BY <1>3, <1>6
      <3>. QED
        BY <1>1, <1>3, <3>1
    <2>. QED
      BY <1>4, <1>5, <2>1, <2>2 DEF OrderOK
  <1>9. FluxOK'
    BY <1>2, <1>3, <1>4, <1>5 DEF FluxOK
  <1>. QED
    BY <1>2, <1>3, <1>4, <1>5, <1>6, <1>7, <1>8, <1>9 DEF ArrayOK

\* An entry is going to be added at slot i.
LEMMA StartInsert ==
    ASSUME TableIInv, Idle, UNCHANGED mapVars, step' = "stage", keysCount < CAPACITY,
           NEW i \in 0..keysCount, NEW k \in Keys, NEW v \in Records,
           \A x \in Reached : IF x < i THEN Entry(x).key < k ELSE k < Entry(x).key,
           moves' = ShiftUp(i) \o <<NewEntry(i, k, v)>>
    PROVE  /\ ArrayOK' /\ ~Idle' /\ Writing' /\ Flux' = keysCount
           /\ Last'.slot = i /\ Last'.entry.key = k /\ Last'.entry.value = v
           /\ Settled' = Reached
  <1>1. /\ keysCount \in Nat /\ i \in Nat /\ i <= keysCount /\ keysCount' = keysCount
        /\ keysCount <= CAPACITY /\ CAPACITY \in Nat
    <2>1. keysCount' = keysCount
      BY DEF mapVars
    <2>2. keysCount \in Nat /\ CAPACITY \in Nat /\ keysCount <= CAPACITY
      BY ArrayNumbers DEF TableIInv, ArrayOK
    <2>3. i \in Nat /\ i <= keysCount
      BY <2>2
    <2>. QED
      BY <2>1, <2>2, <2>3
  <1>2. /\ moves' \in Seq(Moves) /\ ~Idle' /\ Writing' /\ Flux' = keysCount
        /\ Last' = NewEntry(i, k, v) /\ Len(moves') = keysCount - i + 1
        /\ \A n \in 1..(keysCount - i) : moves'[n] = FromSlot(keysCount + 1 - n, keysCount - n)
    BY <1>1, InsertMoves, Zenon
  <1>3. /\ MapType' /\ StepOK'
        /\ Reached' = Reached /\ Settled = Reached
        /\ \A x : Entry(x)' = Entry(x)
        /\ \A x : x \in Reached <=> x \in Nat /\ x < keysCount
        /\ \A x \in Reached : Entry(x).key \in Int
        /\ \A x, y \in Reached : x < y => Entry(x).key < Entry(y).key
    BY <1>2, CallRest, Zenon
  <1>4. /\ Last'.slot = i /\ Last'.source = INDEX_INVALID /\ Last'.entry \in Entries
        /\ Last'.entry = [key |-> k, value |-> v]
    <2>1. i \in Int
      BY <1>1
    <2>2. /\ NewEntry(i, k, v).slot = i /\ NewEntry(i, k, v).source = INDEX_INVALID
          /\ NewEntry(i, k, v).entry = [key |-> k, value |-> v]
          /\ NewEntry(i, k, v).entry \in Entries
      BY <2>1 DEF NewEntry, Entries
    <2>3. Last' = NewEntry(i, k, v)
      BY <1>2
    <2>. QED
      BY <2>2, <2>3, Zenon
  <1>5. Last'.entry.key = k /\ Last'.entry.value = v
    <2>1. \A e : e = [key |-> k, value |-> v] => e.key = k /\ e.value = v
      OBVIOUS
    <2>. QED
      BY <1>4, <2>1, Zenon
  <1>6. Settled' = Reached /\ keysCount \notin Reached
    <2>1. keysCount \notin Reached
      BY <1>1, <1>3
    <2>2. Settled' = Reached' \ {Flux'}
      BY DEF Settled
    <2>. QED
      BY <1>2, <1>3, <2>1, <2>2
  <1>7. MovesOK'
    <2>1. i \in 0..keysCount /\ keysCount <= keysCount'
      BY <1>1
    <2>. QED
      BY <1>1, <1>2, <1>4, <2>1 DEF MovesOK, INDEX_INVALID, Entries, FromSlot
  <1>8. OrderOK'
    <2>1. \A x, y \in Settled' : x < y => Entry(x)'.key < Entry(y)'.key
      BY <1>3, <1>6
    <2>2. \A x \in Settled' : IF x < i THEN Entry(x)'.key < k ELSE k < Entry(x)'.key
      BY <1>3, <1>6
    <2>. QED
      BY <1>4, <1>5, <2>1, <2>2 DEF OrderOK
  <1>9. FluxOK'
    BY <1>2, <1>3, <1>6 DEF FluxOK
  <1>. QED
    BY <1>2, <1>3, <1>4, <1>5, <1>6, <1>7, <1>8, <1>9 DEF ArrayOK

\* The entry of slot i is going to be deleted.
LEMMA StartDelete ==
    ASSUME TableIInv, Idle, UNCHANGED mapVars, step' = "stage",
           NEW i \in Reached, goal'[Entry(i).key] = none, moves' = DeleteMoves(i)
    PROVE  /\ ArrayOK' /\ ~Idle' /\ ~Writing' /\ Flux' = i
           /\ Settled' = Reached \ {i}
  <1>1. /\ keysCount \in Nat /\ i \in Nat /\ i < keysCount /\ keysCount' = keysCount
    <2>1. keysCount' = keysCount
      BY DEF mapVars
    <2>. QED
      BY <2>1, ArrayNumbers DEF TableIInv, ArrayOK
  <1>2. /\ moves' \in Seq(Moves) /\ ~Idle' /\ ~Writing' /\ Flux' = i
        /\ Last' = FromSlot(INDEX_INVALID, INDEX_INVALID) /\ Len(moves') = keysCount - i
        /\ \A n \in 1..(Len(moves') - 1) : moves'[n] = FromSlot(i + n - 1, i + n)
    BY <1>1, RemovalMoves, Zenon
  <1>3. /\ MapType' /\ StepOK'
        /\ Reached' = Reached /\ Settled = Reached
        /\ \A x : Entry(x)' = Entry(x)
        /\ \A x : x \in Reached <=> x \in Nat /\ x < keysCount
        /\ \A x \in Reached : Entry(x).key \in Int
        /\ \A x, y \in Reached : x < y => Entry(x).key < Entry(y).key
    BY <1>2, CallRest, Zenon
  <1>6. Settled' = Reached \ {i}
    BY <1>2, <1>3 DEF Settled
  <1>7. MovesOK'
    BY <1>1, <1>2, <1>3 DEF MovesOK, INDEX_INVALID, FromSlot
  <1>8. OrderOK'
    BY <1>2, <1>3, <1>6 DEF OrderOK
  <1>9. FluxOK'
    <2>1. ASSUME NEW x \in Settled'
          PROVE  IF x < i THEN Entry(x)'.key < Entry(i)'.key ELSE Entry(i)'.key < Entry(x)'.key
      <3>1. x \in Reached /\ x # i /\ x \in Nat
        BY <1>3, <1>6
      <3>. QED
        BY <1>1, <1>3, <3>1
    <2>. QED
      BY <1>2, <1>3, <2>1 DEF FluxOK
  <1>. QED
    BY <1>2, <1>3, <1>6, <1>7, <1>8, <1>9 DEF ArrayOK

-----------------------------------------------------------------------------
(* Records *)

\* What the sums of the lengths are, if f has those of fewer elements
Adds(f, ie, n) == IF n = 0 THEN 0 ELSE f[n - 1] + ie[n].length

Sums(ie) == CHOOSE f : f = [n \in 0..Len(ie) |-> Adds(f, ie, n)]

\* Length is the last of the sums.
LEMMA LengthIs == \A ie : Length(ie) = Sums(ie)[Len(ie)]
  BY Zenon DEF Length, Sums, Adds

\* The sums are defined: those up to m are extended by one more, for as long as there
\* are elements.
LEMMA SumsExist ==
    ASSUME NEW ie, NEW l \in Nat
    PROVE  \E f : f = [n \in 0..l |-> Adds(f, ie, n)]
  <1>. DEFINE S == {m \in 0..l : \E f : \A n \in 0..m : f[n] = Adds(f, ie, n)}
  <1>1. 0 \in S
    <2>. DEFINE f == [n \in 0..l |-> 0]
    <2>1. \A n \in 0..0 : f[n] = Adds(f, ie, n)
      BY DEF Adds
    <2>. HIDE DEF f
    <2>. QED
      BY <2>1
  <1>2. ASSUME NEW m \in 1..l, m - 1 \in S PROVE m \in S
    <2>1. PICK f : \A n \in 0..(m - 1) : f[n] = Adds(f, ie, n)
      BY <1>2
    <2>. DEFINE h == [n \in 0..l |-> IF n < m THEN f[n] ELSE Adds(f, ie, n)]
    <2>2. ASSUME NEW n \in 0..m PROVE h[n] = Adds(h, ie, n)
      <3>1. h[n] = Adds(f, ie, n)
        BY <2>1
      <3>2. n # 0 => h[n - 1] = f[n - 1]
        OBVIOUS
      <3>. HIDE DEF h
      <3>. QED
        BY <3>1, <3>2, Zenon DEF Adds
    <2>. HIDE DEF h
    <2>. QED
      BY <2>2
  <1>3. l \in S
    <2>. HIDE DEF S
    <2>1. 0..l \subseteq S
      BY <1>1, <1>2, Induct
    <2>. QED
      BY <2>1
  <1>4. PICK f : \A n \in 0..l : f[n] = Adds(f, ie, n)
    BY <1>3
  <1>. DEFINE g == [n \in 0..l |-> f[n]]
  <1>5. ASSUME NEW n \in 0..l PROVE g[n] = Adds(g, ie, n)
    <2>1. g[n] = Adds(f, ie, n)
      BY <1>4
    <2>2. n # 0 => g[n - 1] = f[n - 1]
      OBVIOUS
    <2>. HIDE DEF g
    <2>. QED
      BY <2>1, <2>2, Zenon DEF Adds
  <1>6. g = [n \in 0..l |-> Adds(g, ie, n)]
    <2>1. g = [n \in 0..l |-> g[n]]
      OBVIOUS
    <2>. HIDE DEF g
    <2>. QED
      BY <1>5, <2>1
  <1>. QED
    BY <1>6, Zenon

\* Each sum adds the length of one element.
LEMMA SumsDef ==
    ASSUME NEW S, NEW ie \in Seq(S)
    PROVE  /\ Sums(ie)[0] = 0
           /\ \A n \in 1..Len(ie) : Sums(ie)[n] = Sums(ie)[n - 1] + ie[n].length
  <1>0. Len(ie) \in Nat
    OBVIOUS
  <1>1. Sums(ie) = [n \in 0..Len(ie) |-> Adds(Sums(ie), ie, n)]
    BY <1>0, SumsExist, Zenon DEF Sums
  <1>. DEFINE s == Sums(ie)
  <1>2. s = [n \in 0..Len(ie) |-> Adds(s, ie, n)]
    BY <1>1
  <1>. HIDE DEF s
  <1>3. \A n \in 0..Len(ie) : s[n] = Adds(s, ie, n)
    BY <1>2
  <1>. QED
    BY <1>0, <1>3 DEF s, Adds

\* The sums depend on the lengths only.
LEMMA SumsAgree ==
    ASSUME NEW S, NEW ie \in Seq(S), NEW je \in Seq(S), NEW l \in Nat,
           l <= Len(ie), l <= Len(je), \A n \in 1..l : ie[n].length = je[n].length
    PROVE  Sums(ie)[l] = Sums(je)[l]
  <1>. DEFINE T == {n \in 0..l : Sums(ie)[n] = Sums(je)[n]}
  <1>0. Len(ie) \in Nat /\ Len(je) \in Nat
    OBVIOUS
  <1>1. /\ Sums(ie)[0] = 0 /\ Sums(je)[0] = 0
        /\ \A n \in 1..Len(ie) : Sums(ie)[n] = Sums(ie)[n - 1] + ie[n].length
        /\ \A n \in 1..Len(je) : Sums(je)[n] = Sums(je)[n - 1] + je[n].length
    BY SumsDef
  <1>2. 0 \in T
    BY <1>1
  <1>3. ASSUME NEW n \in 1..l, n - 1 \in T PROVE n \in T
    <2>1. n \in 1..Len(ie) /\ n \in 1..Len(je)
      BY <1>0
    <2>2. Sums(ie)[n - 1] = Sums(je)[n - 1]
      BY <1>3
    <2>3. Sums(ie)[n] = Sums(je)[n]
      BY <1>1, <2>1, <2>2
    <2>. QED
      BY <2>3
  <1>4. 0..l \subseteq T
    <2>. HIDE DEF T
    <2>. QED
      BY <1>2, <1>3, Induct
  <1>. QED
    BY <1>4

\* Each element takes something.
LEMMA SumsBound ==
    ASSUME NEW ie \in Seq(Elements)
    PROVE  Length(ie) \in Nat /\ Len(ie) \in Nat /\ Len(ie) <= Length(ie)
  <1>. DEFINE T == {n \in 0..Len(ie) : Sums(ie)[n] \in Nat /\ n <= Sums(ie)[n]}
  <1>0. Len(ie) \in Nat /\ \A n \in 1..Len(ie) : ie[n].length \in Nat \ {0}
    BY AckDataAssumption
  <1>1. /\ Sums(ie)[0] = 0
        /\ \A n \in 1..Len(ie) : Sums(ie)[n] = Sums(ie)[n - 1] + ie[n].length
    BY SumsDef
  <1>2. 0 \in T
    BY <1>0, <1>1
  <1>3. ASSUME NEW n \in 1..Len(ie), n - 1 \in T PROVE n \in T
    <2>. DEFINE a == Sums(ie)[n - 1]
                b == Sums(ie)[n]
                l == ie[n].length
    <2>1. a \in Nat /\ n - 1 <= a
      BY <1>3
    <2>2. l \in Nat \ {0} /\ b = a + l /\ n \in Nat /\ n \in 0..Len(ie)
      BY <1>0, <1>1
    <2>. HIDE DEF a, b, l
    <2>3. b \in Nat /\ n <= b
      BY <2>1, <2>2
    <2>. QED
      BY <2>2, <2>3 DEF b
  <1>4. 0..Len(ie) \subseteq T
    <2>. HIDE DEF T
    <2>. QED
      BY <1>0, <1>2, <1>3, Induct
  <1>5. Len(ie) \in T
    BY <1>0, <1>4
  <1>. QED
    BY <1>0, <1>5, LengthIs

\* An element is added.
LEMMA LengthAppend ==
    ASSUME NEW ie \in Seq(Elements), NEW e \in Elements
    PROVE  Length(Append(ie, e)) = Length(ie) + e.length
  <1>. DEFINE je == Append(ie, e)
  <1>1. /\ je \in Seq(Elements) /\ Len(je) = Len(ie) + 1 /\ Len(ie) \in Nat
        /\ je[Len(ie) + 1] = e /\ \A n \in 1..Len(ie) : je[n] = ie[n]
    OBVIOUS
  <1>. HIDE DEF je
  <1>2. Sums(ie)[Len(ie)] = Sums(je)[Len(ie)]
    BY <1>1, SumsAgree
  <1>3. Sums(je)[Len(ie) + 1] = Sums(je)[(Len(ie) + 1) - 1] + je[Len(ie) + 1].length
    <2>1. Len(ie) + 1 \in 1..Len(je)
      BY <1>1
    <2>. QED
      BY <1>1, <2>1, SumsDef
  <1>4. (Len(ie) + 1) - 1 = Len(ie)
    BY <1>1
  <1>5. Length(je) = Length(ie) + e.length
    BY <1>1, <1>2, <1>3, <1>4, LengthIs, Zenon
  <1>. QED
    BY <1>5 DEF je

\* An element is replaced by one of the same length.
LEMMA LengthReplace ==
    ASSUME NEW ie \in Seq(Elements), NEW e \in Elements, NEW i \in 1..Len(ie),
           ie[i].length = e.length
    PROVE  Length([ie EXCEPT ![i] = e]) = Length(ie)
  <1>. DEFINE je == [ie EXCEPT ![i] = e]
  <1>1. /\ je \in Seq(Elements) /\ Len(je) = Len(ie) /\ Len(ie) \in Nat
        /\ \A n \in 1..Len(ie) : je[n] = IF n = i THEN e ELSE ie[n]
    OBVIOUS
  <1>. HIDE DEF je
  <1>2. Sums(ie)[Len(ie)] = Sums(je)[Len(ie)]
    BY <1>1, SumsAgree
  <1>3. Length(je) = Length(ie)
    BY <1>1, <1>2, LengthIs, Zenon
  <1>. QED
    BY <1>3 DEF je

\* The elements of a record are a sequence of the length that ie_data_t has memory for.
LEMMA SequelsFacts ==
    /\ \A ie : ie \in Sequels <=> ie \in Seq(Elements) /\ Length(ie) <= MAX_ACK_IE_SIZE
    /\ <<>> \in Sequels
    /\ \A ie \in Sequels : DOMAIN ie = 1..Len(ie)
  <1>0. MAX_ACK_IE_SIZE \in Nat
    BY AckDataAssumption
  <1>1. ASSUME NEW ie \in Sequels PROVE ie \in Seq(Elements) /\ Length(ie) <= MAX_ACK_IE_SIZE
    <2>1. /\ \E n \in 0..MAX_ACK_IE_SIZE : ie \in [1..n -> Elements]
          /\ Length(ie) <= MAX_ACK_IE_SIZE
      BY DEF Sequels
    <2>2. PICK n \in 0..MAX_ACK_IE_SIZE : ie \in [1..n -> Elements]
      BY <2>1
    <2>3. n \in Nat
      BY <1>0
    <2>4. ie \in Seq(Elements)
      BY <2>2, <2>3
    <2>. QED
      BY <2>1, <2>4
  <1>2. ASSUME NEW ie \in Seq(Elements), Length(ie) <= MAX_ACK_IE_SIZE PROVE ie \in Sequels
    <2>1. Length(ie) \in Nat /\ Len(ie) \in Nat /\ Len(ie) <= Length(ie)
      BY SumsBound
    <2>2. Len(ie) \in 0..MAX_ACK_IE_SIZE
      BY <1>0, <1>2, <2>1
    <2>3. ie \in [1..Len(ie) -> Elements]
      OBVIOUS
    <2>. QED
      BY <1>2, <2>2, <2>3 DEF Sequels
  <1>3. <<>> \in Sequels
    <2>1. <<>> \in Seq(Elements) /\ Len(<<>>) = 0
      OBVIOUS
    <2>2. Length(<<>>) = 0
      BY <2>1, SumsDef, LengthIs
    <2>3. Length(<<>>) <= MAX_ACK_IE_SIZE
      BY <1>0, <2>2
    <2>. QED
      BY <1>2, <2>1, <2>3, Zenon
  <1>4. \A ie \in Sequels : DOMAIN ie = 1..Len(ie)
    BY <1>1
  <1>. QED
    BY <1>1, <1>2, <1>3, <1>4

\* A record has one element of a kind.
Distinct(rec) == \A m, n \in DOMAIN rec.ie : rec.ie[m].id = rec.ie[n].id => m = n

ElementsOf(rec) == {rec.ie[n] : n \in DOMAIN rec.ie}

\* A record keeps one part when the other is replaced.
LEMMA RecordFacts ==
    ASSUME NEW rec \in Records
    PROVE  /\ rec.bit \in BOOLEAN /\ rec.ie \in Sequels /\ rec # none
           /\ \A b \in BOOLEAN : LET r == [rec EXCEPT !.bit = b] IN
                 r \in Records /\ r.bit = b /\ r.ie = rec.ie
           /\ \A ie \in Sequels : LET r == [rec EXCEPT !.ie = ie] IN
                 r \in Records /\ r.bit = rec.bit /\ r.ie = ie
  <1>1. rec # none
    BY MarkersAssumption
  <1>. QED
    BY <1>1 DEF Records

\* The default record has no elements.
LEMMA DefaultFacts == DefaultRec \in Records /\ Distinct(DefaultRec) /\ ElementsOf(DefaultRec) = {}
                      /\ DefaultRec.bit = DefaultBit /\ DefaultBit \in BOOLEAN /\ DefaultRec.ie = <<>>
  <1>1. <<>> \in Sequels
    BY SequelsFacts
  <1>2. DefaultBit \in BOOLEAN
    BY DEF DefaultBit
  <1>3. DefaultRec \in Records /\ DefaultRec.bit = DefaultBit /\ DefaultRec.ie = <<>>
    BY <1>1, <1>2 DEF DefaultRec, Records
  <1>4. DOMAIN DefaultRec.ie = {}
    BY <1>3
  <1>. QED
    BY <1>2, <1>3, <1>4 DEF Distinct, ElementsOf

\* A record loses what is of one kind.
LEMMA ClearedFacts ==
    ASSUME NEW rec \in Records, NEW type
    PROVE  /\ ClearedRec(rec, type) \in Records
           /\ type = "IE" => ClearedRec(rec, type).bit = rec.bit /\ ClearedRec(rec, type).ie = <<>>
           /\ type # "IE" => ClearedRec(rec, type).bit = DefaultBit
                             /\ ClearedRec(rec, type).ie = rec.ie
           /\ Distinct(rec) => Distinct(ClearedRec(rec, type))
           /\ ElementsOf(ClearedRec(rec, type)) = IF type = "IE" THEN {} ELSE ElementsOf(rec)
  <1>1. <<>> \in Sequels /\ DOMAIN <<>> = {}
    BY SequelsFacts
  <1>2. DefaultBit \in BOOLEAN
    BY DEF DefaultBit
  <1>3. CASE type = "IE"
    <2>1. ClearedRec(rec, type) = [rec EXCEPT !.ie = <<>>]
      BY <1>3 DEF ClearedRec
    <2>2. ClearedRec(rec, type) \in Records /\ ClearedRec(rec, type).bit = rec.bit
          /\ ClearedRec(rec, type).ie = <<>>
      BY <1>1, <2>1, RecordFacts
    <2>3. DOMAIN ClearedRec(rec, type).ie = {}
      BY <1>1, <2>2
    <2>. QED
      BY <1>3, <2>2, <2>3 DEF Distinct, ElementsOf
  <1>4. CASE type # "IE"
    <2>1. ClearedRec(rec, type) = [rec EXCEPT !.bit = DefaultBit]
      BY <1>4 DEF ClearedRec
    <2>2. ClearedRec(rec, type) \in Records /\ ClearedRec(rec, type).bit = DefaultBit
          /\ ClearedRec(rec, type).ie = rec.ie
      BY <1>2, <2>1, RecordFacts
    <2>. QED
      BY <1>4, <2>2, Zenon DEF Distinct, ElementsOf
  <1>. QED
    BY <1>3, <1>4

\* An element is set: it replaces the one of its kind.
LEMMA ElementSet ==
    ASSUME NEW ie \in Sequels, NEW e \in Elements, IeDataSet(ie, e) # none,
           \A m, n \in DOMAIN ie : ie[m].id = ie[n].id => m = n
    PROVE  LET je == IeDataSet(ie, e) IN
           /\ je \in Sequels /\ je # <<>>
           /\ \A m, n \in DOMAIN je : je[m].id = je[n].id => m = n
           /\ {je[n] : n \in DOMAIN je} = {x \in {ie[n] : n \in DOMAIN ie} : x.id # e.id} \cup {e}
  <1>0. /\ ie \in Seq(Elements) /\ Length(ie) <= MAX_ACK_IE_SIZE /\ DOMAIN ie = 1..Len(ie)
        /\ Len(ie) \in Nat
    BY SequelsFacts
  <1>. DEFINE same == {n \in DOMAIN ie : ie[n].id = e.id}
              j == CHOOSE m \in same : TRUE
              je == IeDataSet(ie, e)
  <1>1. CASE same # {}
    <2>1. j \in same
      BY <1>1
    <2>2. j \in 1..Len(ie) /\ ie[j].id = e.id
      BY <1>0, <2>1
    <2>3. je = IF ie[j].length = e.length THEN [ie EXCEPT ![j] = e] ELSE none
      BY <1>1, Zenon DEF IeDataSet
    <2>. HIDE DEF j, same
    <2>4. ie[j].length = e.length /\ je = [ie EXCEPT ![j] = e]
      BY <2>3
    <2>5. Length(je) = Length(ie)
      <3>1. Length([ie EXCEPT ![j] = e]) = Length(ie)
        BY <1>0, <2>2, <2>4, LengthReplace, Zenon
      <3>. HIDE DEF je
      <3>. QED
        BY <2>4, <3>1, Zenon
    <2>6. /\ je \in Seq(Elements) /\ Len(je) = Len(ie) /\ DOMAIN je = DOMAIN ie
          /\ \A n \in DOMAIN ie : je[n] = IF n = j THEN e ELSE ie[n]
          /\ j \in DOMAIN ie
      BY <1>0, <2>2, <2>4
    <2>. HIDE DEF je
    <2>7. je \in Sequels
      BY <1>0, <2>5, <2>6, SequelsFacts
    <2>8. je # <<>>
      BY <2>6
    <2>9. \A n \in DOMAIN ie : ie[n].id = e.id <=> n = j
      BY <2>2, <2>6
    <2>10. \A m, n \in DOMAIN je : je[m].id = je[n].id => m = n
      BY <2>2, <2>6, <2>9
    <2>11. {je[n] : n \in DOMAIN je} = {x \in {ie[n] : n \in DOMAIN ie} : x.id # e.id} \cup {e}
      BY <2>6, <2>9
    <2>. QED
      BY <2>7, <2>8, <2>10, <2>11 DEF je
  <1>2. CASE same = {}
    <2>1. je = IF Length(ie) + e.length <= MAX_ACK_IE_SIZE THEN Append(ie, e) ELSE none
      BY <1>2, Zenon DEF IeDataSet
    <2>2. Length(ie) + e.length <= MAX_ACK_IE_SIZE /\ je = Append(ie, e)
      BY <2>1
    <2>3. Length(je) = Length(ie) + e.length
      BY <1>0, <2>2, LengthAppend
    <2>4. /\ je \in Seq(Elements) /\ DOMAIN je = 1..(Len(ie) + 1)
          /\ je[Len(ie) + 1] = e /\ \A n \in 1..Len(ie) : je[n] = ie[n]
      BY <1>0, <2>2
    <2>5. \A n \in 1..Len(ie) : ie[n].id # e.id
      BY <1>0, <1>2
    <2>. HIDE DEF j, same, je
    <2>6. je \in Sequels
      BY <2>2, <2>3, <2>4, SequelsFacts
    <2>7. je # <<>>
      BY <1>0, <2>4
    <2>8. \A n \in DOMAIN je : n \in 1..Len(ie) \/ n = Len(ie) + 1
      BY <1>0, <2>4
    <2>9. \A m, n \in DOMAIN je : je[m].id = je[n].id => m = n
      BY <1>0, <2>4, <2>5, <2>8
    <2>10. {je[n] : n \in DOMAIN je} = {x \in {ie[n] : n \in DOMAIN ie} : x.id # e.id} \cup {e}
      <3>1. 1..Len(ie) \subseteq DOMAIN je /\ Len(ie) + 1 \in DOMAIN je
        BY <1>0, <2>4
      <3>. QED
        BY <1>0, <2>4, <2>5, <2>8, <3>1
    <2>. QED
      BY <2>6, <2>7, <2>9, <2>10 DEF je
  <1>. QED
    BY <1>1, <1>2

-----------------------------------------------------------------------------
(* Calls *)

\* Between calls, the table is what was asked for.
LEMMA ReadyGoal ==
    ASSUME TableIInv, Ready
    PROVE  /\ \A x \in Reached : goal[Entry(x).key] = Entry(x).value
           /\ \A k \in Keys : goal[k] # none => \E x \in Reached : Entry(x).key = k
           /\ \A k \in Keys : /\ FindsIt(k, BinarySearch(k))
                              /\ RecGet(k) = goal[k]
                              /\ BinarySearch(k).found <=> goal[k] # none
           /\ \A k \in Keys : goal[k] # none => goal[k] \in Records
  <1>0. MapType /\ MovesOK /\ GoalOK /\ RecordsOK /\ ArrayOK /\ Idle /\ iter = none
    BY DEF TableIInv, ArrayOK, TableOK, Ready
  <1>1. Settled = Reached
    BY <1>0, ArrayNumbers
  <1>2. \A x \in Reached : goal[Entry(x).key] = Entry(x).value
    BY <1>0, <1>1, Zenon DEF GoalOK, Want
  <1>3. \A k \in Keys : goal[k] # none => \E x \in Reached : Entry(x).key = k
    BY <1>0, <1>1 DEF GoalOK, Writing
  <1>4. \A x \in Reached : Entry(x).value # none /\ Entry(x).key \in Keys
    BY <1>0, EntryFacts, RecordFacts DEF MapType
  <1>5. InOrder
    BY <1>0, ArrayInOrder
  <1>6. ASSUME NEW k \in Keys
        PROVE  /\ FindsIt(k, BinarySearch(k))
               /\ RecGet(k) = goal[k]
               /\ BinarySearch(k).found <=> goal[k] # none
    <2>1. FindsIt(k, BinarySearch(k))
      BY <1>5, SearchFinds
    <2>2. /\ \A x \in Reached : Entry(x).key = k =>
                BinarySearch(k).found /\ RecGet(k) = Entry(x).value
          /\ (\A x \in Reached : Entry(x).key # k) =>
                ~BinarySearch(k).found /\ RecGet(k) = none
      BY <1>5, LookupFinds, Zenon
    <2>3. CASE \E x \in Reached : Entry(x).key = k
      <3>1. PICK x \in Reached : Entry(x).key = k
        BY <2>3
      <3>2. goal[k] = Entry(x).value /\ Entry(x).value # none
        BY <1>2, <1>4, <3>1, Zenon
      <3>. QED
        BY <2>1, <2>2, <3>1, <3>2, Zenon
    <2>4. CASE ~\E x \in Reached : Entry(x).key = k
      <3>1. goal[k] = none
        BY <1>3, <2>4, Zenon
      <3>. QED
        BY <2>1, <2>2, <2>4, <3>1, Zenon
    <2>. QED
      BY <2>3, <2>4
  <1>7. \A k \in Keys : goal[k] # none => goal[k] \in Records
    BY <1>0 DEF RecordsOK
  <1>. QED
    BY <1>2, <1>3, <1>6, <1>7

\* What follows of goal and the records when a call sets the record of k
LEMMA StoreGoal ==
    ASSUME TableIInv, NEW k \in Keys, NEW rec \in Records, Distinct(rec), method' = method,
           goal' = [goal EXCEPT ![k] = IF CanBeDeleted(rec) THEN none ELSE rec]
    PROVE  /\ goal'[k] = (IF CanBeDeleted(rec) THEN none ELSE rec)
           /\ \A q \in Keys : q # k => goal'[q] = goal[q]
           /\ RecordsOK' /\ method' \in Methods
  <1>0. RecordsOK /\ method' \in Methods
    BY DEF TableIInv, TableOK
  <1>1. goal \in [Keys -> Records \cup {none}]
    BY <1>0 DEF RecordsOK
  <1>2. /\ goal'[k] = (IF CanBeDeleted(rec) THEN none ELSE rec)
        /\ \A q \in Keys : q # k => goal'[q] = goal[q]
        /\ goal' \in [Keys -> Records \cup {none}]
    BY <1>1
  <1>3. ASSUME NEW q \in Keys, goal'[q] # none
        PROVE  /\ ~CanBeDeleted(goal'[q])
               /\ Distinct(goal'[q])
    <2>1. CASE q = k
      BY <1>2, <1>3, <2>1
    <2>2. CASE q # k
      <3>1. goal'[q] = goal[q] /\ goal[q] # none
        BY <1>2, <1>3, <2>2
      <3>2. ~CanBeDeleted(goal[q]) /\ Distinct(goal[q])
        BY <1>0, <3>1, Zenon DEF RecordsOK, Distinct
      <3>. QED
        BY <3>1, <3>2, Zenon
    <2>. QED
      BY <2>1, <2>2
  <1>4. RecordsOK'
    <2>1. \A q \in Keys : goal'[q] # none => ~CanBeDeleted(goal[q])'
      BY <1>3 DEF CanBeDeleted, DefaultBit
    <2>. QED
      BY <1>2, <1>3, <2>1 DEF RecordsOK, Distinct
  <1>. QED
    BY <1>0, <1>2, <1>4

\* The thread begins to write a record, to delete it or to leave things as they are.
LEMMA StoreOK ==
    ASSUME TableIInv, Ready, NEW k \in Keys, NEW rec \in Records, Distinct(rec), Store(k, rec),
           ~CanBeDeleted(rec) => WriteFits(k), GhostsOK'
    PROVE  TableIInv'
  <1>u. /\ step' = "stage" /\ UNCHANGED mapVars /\ method' = method /\ iter' = none /\ iter = none
        /\ Idle
        /\ goal' = [goal EXCEPT ![k] = IF CanBeDeleted(rec) THEN none ELSE rec]
    BY DEF Store, Ready
  <1>m. moves' = IF ~CanBeDeleted(rec) THEN WriteMoves(k, rec)
                 ELSE IF BinarySearch(k).found THEN DeleteMoves(BinarySearch(k).index) ELSE <<>>
    BY DEF Store
  <1>1. /\ goal'[k] = (IF CanBeDeleted(rec) THEN none ELSE rec)
        /\ \A q \in Keys : q # k => goal'[q] = goal[q]
        /\ RecordsOK' /\ method' \in Methods
    BY <1>u, StoreGoal
  <1>2. /\ \A x \in Reached : goal[Entry(x).key] = Entry(x).value
        /\ \A q \in Keys : goal[q] # none => \E x \in Reached : Entry(x).key = q
        /\ FindsIt(k, BinarySearch(k))
        /\ BinarySearch(k).found <=> goal[k] # none
    BY ReadyGoal
  <1>3. /\ \A x \in Reached : Entry(x).key \in Keys /\ x \in Nat /\ Entry(x).key \in Int
        /\ \A x, y \in Reached : x < y => Entry(x).key < Entry(y).key
        /\ \A x : Entry(x)' = Entry(x)
    <2>1. moves \in Seq(Moves)
      BY DEF TableIInv, ArrayOK, MapType
    <2>2. \A x \in Reached : x \in Nat /\ Entry(x).key \in Int /\ Entry(x).key \in Keys
      BY <1>u, ArrayNumbers, EntryFacts DEF TableIInv, ArrayOK, MapType
    <2>3. \A x, y \in Reached : x < y => Entry(x).key < Entry(y).key
      BY <1>u, ArrayNumbers DEF TableIInv, ArrayOK, OrderOK
    <2>4. \A x : Entry(x)' = Entry(x)
      BY <1>u DEF Entry, mapVars
    <2>. QED
      BY <2>2, <2>3, <2>4
  <1>4. \A x : Want(x)' = Entry(x).value
    BY <1>3, <1>u DEF Want
  <1>5. IterOK'
    BY <1>u DEF IterOK
  <1>. DEFINE i == BinarySearch(k).index
  <1>f. /\ BinarySearch(k).found => i \in Reached /\ Entry(i).key = k
        /\ ~BinarySearch(k).found => i \in 0..keysCount /\ \A x \in Reached :
              IF x < i THEN Entry(x).key < k ELSE k < Entry(x).key
    BY <1>2 DEF FindsIt
  <1>w. WriteMoves(k, rec) = IF BinarySearch(k).found THEN <<NewEntry(i, k, rec)>>
                             ELSE ShiftUp(i) \o <<NewEntry(i, k, rec)>>
    BY Zenon DEF WriteMoves
  <1>h. WriteFits(k) => BinarySearch(k).found \/ keysCount < CAPACITY
    BY DEF WriteFits
  <1>. HIDE DEF i
  <1>o. BinarySearch(k).found => \A x \in Reached : Entry(x).key = k => x = i
    BY <1>3, <1>f
  <1>6. ASSUME ArrayOK', GoalOK' PROVE TableIInv'
    BY <1>1, <1>5, <1>6 DEF TableIInv, TableOK
  <1>7. CASE ~CanBeDeleted(rec) /\ BinarySearch(k).found
    <2>0. moves' = <<NewEntry(i, k, rec)>>
      BY <1>7, <1>m, <1>w, Zenon
    <2>1. /\ ArrayOK' /\ Writing' /\ Settled' = Reached \ {i}
          /\ Last'.entry.key = k /\ Last'.entry.value = rec
      BY <1>7, <1>f, <1>u, <2>0, StartUpdate, Zenon
    <2>2. \A x \in Settled' : Entry(x).key # k /\ x \in Reached
      BY <1>7, <1>o, <2>1
    <2>3. GoalOK'
      <3>1. \A x \in Settled' : goal'[Entry(x)'.key] = Want(x)'
        BY <1>1, <1>2, <1>3, <1>4, <2>2
      <3>2. \A q \in Keys : goal'[q] # none =>
               (\E x \in Settled' : Entry(x)'.key = q) \/ (Writing' /\ Last'.entry.key = q)
        BY <1>1, <1>2, <1>3, <1>7, <1>f, <2>1
      <3>3. goal'[Last'.entry.key] = Last'.entry.value
        BY <1>1, <1>7, <2>1
      <3>. QED
        BY <3>1, <3>2, <3>3 DEF GoalOK
    <2>. QED
      BY <1>6, <2>1, <2>3
  <1>8. CASE ~CanBeDeleted(rec) /\ ~BinarySearch(k).found
    <2>0. moves' = ShiftUp(i) \o <<NewEntry(i, k, rec)>> /\ keysCount < CAPACITY
      BY <1>8, <1>h, <1>m, <1>w, Zenon
    <2>1. /\ ArrayOK' /\ Writing' /\ Settled' = Reached
          /\ Last'.entry.key = k /\ Last'.entry.value = rec
      BY <1>8, <1>f, <1>u, <2>0, StartInsert, Zenon
    <2>i. i \in 0..keysCount
      BY <1>8, <1>f
    <2>2. \A x \in Reached : Entry(x).key # k
      BY <1>8, <1>f, <1>3
    <2>. HIDE <2>0
    <2>3. GoalOK'
      <3>1. \A x \in Settled' : goal'[Entry(x)'.key] = Want(x)'
        BY <1>1, <1>2, <1>3, <1>4, <2>1, <2>2
      <3>2. \A q \in Keys : goal'[q] # none =>
               (\E x \in Settled' : Entry(x)'.key = q) \/ (Writing' /\ Last'.entry.key = q)
        BY <1>1, <1>2, <1>3, <2>1
      <3>3. goal'[Last'.entry.key] = Last'.entry.value
        BY <1>1, <1>8, <2>1
      <3>. QED
        BY <3>1, <3>2, <3>3 DEF GoalOK
    <2>. QED
      BY <1>6, <2>1, <2>3
  <1>9. CASE CanBeDeleted(rec) /\ BinarySearch(k).found
    <2>0. moves' = DeleteMoves(i) /\ goal'[Entry(i).key] = none
      BY <1>1, <1>9, <1>f, <1>m DEF i
    <2>1. /\ ArrayOK' /\ ~Writing' /\ Settled' = Reached \ {i}
      BY <1>9, <1>f, <1>u, <2>0, StartDelete, Zenon
    <2>2. \A x \in Settled' : Entry(x).key # k /\ x \in Reached
      BY <1>9, <1>o, <2>1
    <2>3. GoalOK'
      <3>1. \A x \in Settled' : goal'[Entry(x)'.key] = Want(x)'
        BY <1>1, <1>2, <1>3, <1>4, <2>2
      <3>2. \A q \in Keys : goal'[q] # none => \E x \in Settled' : Entry(x)'.key = q
        BY <1>1, <1>2, <1>3, <1>9, <1>f, <2>1
      <3>. QED
        BY <2>1, <3>1, <3>2 DEF GoalOK
    <2>. QED
      BY <1>6, <2>1, <2>3
  <1>10. CASE CanBeDeleted(rec) /\ ~BinarySearch(k).found
    <2>0. moves' = <<>>
      BY <1>10, <1>m
    <2>1. \A q \in Keys : goal'[q] = goal[q]
      BY <1>1, <1>2, <1>10
    <2>2. moves' \in Seq(Moves) /\ Idle' /\ ~Writing'
      BY <2>0 DEF Idle, Writing
    <2>3. /\ MapType' /\ StepOK' /\ Reached' = Reached
          /\ \A x : x \in Reached <=> x \in Nat /\ x < keysCount
      BY <1>u, <2>2, CallRest, Zenon
    <2>4. Flux' = -1 /\ Settled' = Reached
      <3>1. Flux' = -1
        BY <2>2 DEF Flux, INDEX_INVALID
      <3>2. -1 \notin Reached
        BY <2>3
      <3>. QED
        BY <2>3, <3>1, <3>2 DEF Settled
    <2>5. MovesOK' /\ OrderOK' /\ FluxOK'
      BY <1>3, <2>2, <2>3, <2>4 DEF MovesOK, OrderOK, FluxOK
    <2>6. GoalOK'
      BY <1>2, <1>3, <1>4, <2>1, <2>2, <2>4 DEF GoalOK
    <2>. QED
      BY <1>6, <2>3, <2>5, <2>6 DEF ArrayOK
  <1>. QED
    BY <1>7, <1>8, <1>9, <1>10

\* The ghosts follow what the record of k says.
LEMMA StoreGhosts ==
    ASSUME TableIInv, NEW k \in Keys, NEW rec \in Records, Distinct(rec), method' = method,
           goal' = [goal EXCEPT ![k] = IF CanBeDeleted(rec) THEN none ELSE rec],
           pend' \subseteq Keys, \A q \in Keys : q # k => (q \in pend' <=> q \in pend),
           elems' \in [Keys -> SUBSET Elements], \A q \in Keys : q # k => elems'[q] = elems[q],
           elems'[k] = ElementsOf(rec),
           method # "ALWAYS_1" => (k \in pend' <=> rec.bit # DefaultBit)
    PROVE  GhostsOK'
  <1>0. GhostsOK
    BY DEF TableIInv, TableOK
  <1>1. /\ goal'[k] = (IF CanBeDeleted(rec) THEN none ELSE rec)
        /\ \A q \in Keys : q # k => goal'[q] = goal[q]
    BY StoreGoal
  <1>r. rec # none
    BY RecordFacts
  <1>d. DefaultBit' = DefaultBit
    BY DEF DefaultBit
  <1>2. ASSUME NEW q \in Keys
        PROVE  /\ method # "ALWAYS_1" =>
                     (q \in pend' <=> goal'[q] # none /\ goal'[q].bit # DefaultBit)
               /\ elems'[q] = IF goal'[q] = none THEN {} ELSE ElementsOf(goal'[q])
    <2>1. CASE q # k
      <3>1. /\ method # "ALWAYS_1" => (q \in pend <=> goal[q] # none /\ goal[q].bit # DefaultBit)
            /\ elems[q] = IF goal[q] = none THEN {} ELSE ElementsOf(goal[q])
        BY <1>0, Zenon DEF GhostsOK, ElementsOf
      <3>2. goal'[q] = goal[q] /\ elems'[q] = elems[q] /\ (q \in pend' <=> q \in pend)
        BY <1>1, <2>1
      <3>. QED
        BY <3>1, <3>2, Zenon
    <2>2. CASE q = k /\ ~CanBeDeleted(rec)
      <3>1. goal'[q] = rec
        BY <1>1, <2>2
      <3>. QED
        BY <1>r, <2>2, <3>1
    <2>3. CASE q = k /\ CanBeDeleted(rec)
      <3>1. goal'[q] = none
        BY <1>1, <2>3
      <3>2. rec.ie = <<>> /\ (method # "ALWAYS_1" => rec.bit = DefaultBit)
        BY <2>3 DEF CanBeDeleted
      <3>3. DOMAIN rec.ie = {}
        BY <3>2
      <3>4. ElementsOf(rec) = {}
        BY <3>3 DEF ElementsOf
      <3>. QED
        BY <2>3, <3>1, <3>2, <3>4
    <2>. QED
      BY <2>1, <2>2, <2>3
  <1>. QED
    BY <1>2, <1>d DEF GhostsOK, ElementsOf

\* The record a call starts from
LEMMA FoundRecord ==
    ASSUME TableIInv, Ready, NEW k \in Keys
    PROVE  /\ RecOrDefault(k) \in Records /\ Distinct(RecOrDefault(k))
           /\ ElementsOf(RecOrDefault(k)) = elems[k]
           /\ method # "ALWAYS_1" => (k \in pend <=> RecOrDefault(k).bit # DefaultBit)
           /\ RecGet(k) # none => RecGet(k) = RecOrDefault(k)
  <1>0. RecordsOK /\ GhostsOK
    BY DEF TableIInv, TableOK
  <1>1. RecGet(k) = goal[k] /\ (goal[k] # none => goal[k] \in Records)
    BY ReadyGoal
  <1>2. RecOrDefault(k) = IF goal[k] = none THEN DefaultRec ELSE goal[k]
    BY <1>1, Zenon DEF RecOrDefault
  <1>3. /\ method # "ALWAYS_1" => (k \in pend <=> goal[k] # none /\ goal[k].bit # DefaultBit)
        /\ elems[k] = IF goal[k] = none THEN {} ELSE ElementsOf(goal[k])
        /\ goal[k] # none => Distinct(goal[k])
    BY <1>0, Zenon DEF GhostsOK, ElementsOf, RecordsOK, Distinct
  <1>4. /\ DefaultRec \in Records /\ Distinct(DefaultRec) /\ ElementsOf(DefaultRec) = {}
        /\ DefaultRec.bit = DefaultBit
    BY DefaultFacts
  <1>5. CASE goal[k] = none
    BY <1>1, <1>2, <1>3, <1>4, <1>5, Zenon
  <1>6. CASE goal[k] # none
    BY <1>1, <1>2, <1>3, <1>6, Zenon
  <1>. QED
    BY <1>5, <1>6

\* nrf_802154_ack_data_for_addr_set with NRF_802154_ACK_DATA_PENDING_BIT
LEMMA SetPendingBitOK ==
    ASSUME TableIInv, NEW k \in Keys, SetPendingBit(k)
    PROVE  TableIInv'
  <1>. DEFINE old == RecOrDefault(k)
              rec == [old EXCEPT !.bit = ~DefaultBit]
  <1>1. /\ Ready /\ (~CanBeDeleted(rec) => WriteFits(k)) /\ Store(k, rec)
        /\ pend' = pend \cup {k} /\ elems' = elems
    BY Zenon DEF SetPendingBit
  <1>2. /\ old \in Records /\ Distinct(old) /\ ElementsOf(old) = elems[k]
    BY <1>1, FoundRecord
  <1>3. (~DefaultBit) \in BOOLEAN /\ (~DefaultBit) # DefaultBit
    BY DEF DefaultBit
  <1>. HIDE DEF old
  <1>4. rec \in Records /\ rec.bit = (~DefaultBit) /\ rec.ie = old.ie
    <2>1. \A b \in BOOLEAN : /\ [old EXCEPT !.bit = b] \in Records
                             /\ [old EXCEPT !.bit = b].bit = b
                             /\ [old EXCEPT !.bit = b].ie = old.ie
      BY <1>2, RecordFacts
    <2>. QED
      BY <1>3, <2>1, Zenon
  <1>. HIDE DEF rec
  <1>5. Distinct(rec) /\ ElementsOf(rec) = elems[k]
    BY <1>2, <1>4, Zenon DEF Distinct, ElementsOf
  <1>6. pend \subseteq Keys /\ elems \in [Keys -> SUBSET Elements]
    BY DEF TableIInv, TableOK, GhostsOK
  <1>7. /\ goal' = [goal EXCEPT ![k] = IF CanBeDeleted(rec) THEN none ELSE rec]
        /\ method' = method
    BY <1>1 DEF Store
  <1>8. /\ pend' \subseteq Keys /\ k \in pend'
        /\ \A q \in Keys : q # k => (q \in pend' <=> q \in pend)
    BY <1>1, <1>6
  <1>9. rec.bit # DefaultBit
    BY <1>3, <1>4, Zenon
  <1>10. GhostsOK'
    BY <1>1, <1>4, <1>5, <1>6, <1>7, <1>8, <1>9, StoreGhosts
  <1>. QED
    BY <1>1, <1>4, <1>5, <1>10, StoreOK

\* nrf_802154_ack_data_for_addr_set with NRF_802154_ACK_DATA_IE
LEMMA SetIeOK ==
    ASSUME TableIInv, NEW k \in Keys, NEW e \in Elements, SetIe(k, e)
    PROVE  TableIInv'
  <1>. DEFINE old == RecOrDefault(k)
              ie == IeDataSet(old.ie, e)
              rec == [old EXCEPT !.ie = ie]
  <1>1. /\ Ready /\ WriteFits(k) /\ ie # none /\ Store(k, rec) /\ pend' = pend
        /\ elems' = [elems EXCEPT ![k] = {x \in elems[k] : x.id # e.id} \cup {e}]
    BY Zenon DEF SetIe
  <1>2. /\ old \in Records /\ Distinct(old) /\ ElementsOf(old) = elems[k]
        /\ method # "ALWAYS_1" => (k \in pend <=> old.bit # DefaultBit)
    BY <1>1, FoundRecord
  <1>. HIDE DEF old
  <1>3. old.ie \in Sequels
    BY <1>2, RecordFacts
  <1>4. /\ ie \in Sequels
        /\ \A m, n \in DOMAIN ie : ie[m].id = ie[n].id => m = n
        /\ {ie[n] : n \in DOMAIN ie} = {x \in {old.ie[n] : n \in DOMAIN old.ie} : x.id # e.id} \cup {e}
    <2>1. \A m, n \in DOMAIN old.ie : old.ie[m].id = old.ie[n].id => m = n
      BY <1>2 DEF Distinct
    <2>. QED
      BY <1>1, <1>3, <2>1, ElementSet
  <1>. HIDE DEF ie
  <1>5. rec \in Records /\ rec.bit = old.bit /\ rec.ie = ie
    BY <1>2, <1>4, RecordFacts
  <1>. HIDE DEF rec
  <1>6. Distinct(rec) /\ ElementsOf(rec) = {x \in elems[k] : x.id # e.id} \cup {e}
    <2>1. Distinct(rec)
      BY <1>4, <1>5, Zenon DEF Distinct
    <2>2. ElementsOf(rec) = {ie[n] : n \in DOMAIN ie}
      BY <1>5, Zenon DEF ElementsOf
    <2>3. ElementsOf(old) = {old.ie[n] : n \in DOMAIN old.ie}
      BY DEF ElementsOf
    <2>. QED
      BY <1>2, <1>4, <2>1, <2>2, <2>3, Zenon
  <1>7. pend \subseteq Keys /\ elems \in [Keys -> SUBSET Elements]
    BY DEF TableIInv, TableOK, GhostsOK
  <1>8. /\ goal' = [goal EXCEPT ![k] = IF CanBeDeleted(rec) THEN none ELSE rec]
        /\ method' = method
    BY <1>1 DEF Store
  <1>9. /\ elems' \in [Keys -> SUBSET Elements] /\ elems'[k] = ElementsOf(rec)
        /\ \A q \in Keys : q # k => elems'[q] = elems[q]
    <2>. DEFINE new == {x \in elems[k] : x.id # e.id} \cup {e}
    <2>1. new \in SUBSET Elements
      BY <1>7
    <2>2. elems' = [elems EXCEPT ![k] = new]
      BY <1>1
    <2>3. ElementsOf(rec) = new
      BY <1>6
    <2>. HIDE DEF new
    <2>. QED
      BY <1>7, <2>1, <2>2, <2>3
  <1>10. method # "ALWAYS_1" => (k \in pend' <=> rec.bit # DefaultBit)
    BY <1>1, <1>2, <1>5
  <1>11. pend' \subseteq Keys /\ \A q \in Keys : q # k => (q \in pend' <=> q \in pend)
    BY <1>1, <1>7
  <1>12. GhostsOK'
    BY <1>5, <1>6, <1>8, <1>9, <1>10, <1>11, StoreGhosts
  <1>. QED
    BY <1>1, <1>5, <1>6, <1>12, StoreOK

\* nrf_802154_ack_data_for_addr_clear
LEMMA ClearPeerOK ==
    ASSUME TableIInv, NEW k \in Keys, NEW type, ClearPeer(k, type)
    PROVE  TableIInv'
  <1>. DEFINE old == RecGet(k)
              rec == ClearedRec(old, type)
  <1>1. /\ Ready /\ old # none /\ Store(k, rec)
        /\ pend' = (IF type = "IE" THEN pend ELSE pend \ {k})
        /\ elems' = (IF type = "IE" THEN [elems EXCEPT ![k] = {}] ELSE elems)
    BY DEF ClearPeer
  <1>2. /\ old \in Records /\ Distinct(old) /\ ElementsOf(old) = elems[k]
        /\ method # "ALWAYS_1" => (k \in pend <=> old.bit # DefaultBit)
    BY <1>1, FoundRecord
  <1>3. WriteFits(k)
    <2>1. BinarySearch(k).found
      BY <1>1, ReadyGoal
    <2>. QED
      BY <2>1 DEF WriteFits
  <1>. HIDE DEF old
  <1>4. /\ rec \in Records
        /\ type = "IE" => rec.bit = old.bit
        /\ type # "IE" => rec.bit = DefaultBit
        /\ Distinct(rec)
        /\ ElementsOf(rec) = IF type = "IE" THEN {} ELSE ElementsOf(old)
    BY <1>2, ClearedFacts
  <1>. HIDE DEF rec
  <1>5. pend \subseteq Keys /\ elems \in [Keys -> SUBSET Elements]
    BY DEF TableIInv, TableOK, GhostsOK
  <1>6. /\ goal' = [goal EXCEPT ![k] = IF CanBeDeleted(rec) THEN none ELSE rec]
        /\ method' = method
    BY <1>1 DEF Store
  <1>7. /\ elems' \in [Keys -> SUBSET Elements] /\ elems'[k] = ElementsOf(rec)
        /\ \A q \in Keys : q # k => elems'[q] = elems[q]
    <2>1. CASE type = "IE"
      <3>1. elems' = [elems EXCEPT ![k] = {}] /\ ElementsOf(rec) = {}
        BY <1>1, <1>4, <2>1
      <3>. QED
        BY <1>5, <3>1
    <2>2. CASE type # "IE"
      BY <1>1, <1>2, <1>4, <1>5, <2>2
    <2>. QED
      BY <2>1, <2>2
  <1>8. /\ pend' \subseteq Keys /\ \A q \in Keys : q # k => (q \in pend' <=> q \in pend)
        /\ method # "ALWAYS_1" => (k \in pend' <=> rec.bit # DefaultBit)
    BY <1>1, <1>2, <1>4, <1>5
  <1>9. GhostsOK'
    BY <1>4, <1>6, <1>7, <1>8, StoreGhosts
  <1>. QED
    BY <1>1, <1>3, <1>4, <1>9, StoreOK

\* The array and its order, when no write is in progress
LEMMA IdleArray ==
    ASSUME TableIInv, Idle, UNCHANGED bsmapVars
    PROVE  /\ ArrayOK' /\ Idle' /\ ~Writing'
           /\ Settled' = Reached /\ Settled = Reached /\ keysCount' = keysCount
           /\ \A x : Entry(x)' = Entry(x)
           /\ \A x \in Reached : Entry(x) \in Entries
           /\ \A x : x \in Reached <=> x \in Nat /\ x < keysCount
           /\ keysCount \in Nat
  <1>1. UNCHANGED mapVars /\ moves' = moves /\ step' = step
    BY DEF bsmapVars
  <1>2. moves' \in Seq(Moves) /\ step = "stage" /\ moves = <<>>
    BY <1>1 DEF TableIInv, ArrayOK, MapType, StepOK, Idle
  <1>3. /\ MapType' /\ StepOK'
        /\ Reached' = Reached /\ Settled = Reached /\ keysCount' = keysCount
        /\ \A x : Entry(x)' = Entry(x)
        /\ \A x : x \in Reached <=> x \in Nat /\ x < keysCount
        /\ \A x \in Reached : Entry(x) \in Entries
        /\ \A x, y \in Reached : x < y => Entry(x).key < Entry(y).key
        /\ keysCount \in Nat
    BY <1>1, <1>2, CallRest
  <1>4. Idle' /\ ~Writing'
    BY <1>1, <1>2 DEF Idle, Writing
  <1>5. Flux' = -1 /\ Settled' = Reached
    <2>1. Flux' = -1
      BY <1>4 DEF Flux, INDEX_INVALID
    <2>2. -1 \notin Reached
      BY <1>3
    <2>. QED
      BY <1>3, <2>1, <2>2 DEF Settled
  <1>6. MovesOK' /\ OrderOK' /\ FluxOK'
    BY <1>3, <1>4, <1>5 DEF MovesOK, OrderOK, FluxOK
  <1>. QED
    BY <1>3, <1>4, <1>5, <1>6 DEF ArrayOK

\* nrf_802154_ack_data_reset: all entries are ahead of the iterator.
LEMMA ResetBeginOK ==
    ASSUME TableIInv, NEW type, ResetBegin(type)
    PROVE  TableIInv'
  <1>. DEFINE kept(k) == ClearedRec(goal[k], type)
  <1>1. /\ Ready /\ Idle /\ iter' = keysCount - 1 /\ reset' = type
        /\ goal' = [k \in Keys |-> IF goal[k] = none \/ CanBeDeleted(kept(k)) THEN none ELSE kept(k)]
        /\ pend' = (IF type = "IE" THEN pend ELSE {})
        /\ elems' = (IF type = "IE" THEN [k \in Keys |-> {}] ELSE elems)
        /\ UNCHANGED bsmapVars /\ method' = method
    BY Zenon DEF ResetBegin, IterBegin, Ready
  <1>2. RecordsOK /\ GhostsOK /\ method \in Methods
    BY DEF TableIInv, TableOK
  <1>3. /\ ArrayOK' /\ Idle' /\ ~Writing'
        /\ Settled' = Reached /\ keysCount' = keysCount
        /\ \A x : Entry(x)' = Entry(x)
        /\ \A x \in Reached : Entry(x) \in Entries
        /\ \A x : x \in Reached <=> x \in Nat /\ x < keysCount
        /\ keysCount \in Nat
    BY <1>1, IdleArray
  <1>4. /\ \A x \in Reached : goal[Entry(x).key] = Entry(x).value
        /\ \A k \in Keys : goal[k] # none => \E x \in Reached : Entry(x).key = k
    BY <1>1, ReadyGoal
  <1>5. ASSUME NEW k \in Keys
        PROVE  /\ goal[k] = none => goal'[k] = none /\ elems[k] = {} /\ (method # "ALWAYS_1" => k \notin pend)
               /\ goal[k] # none =>
                     /\ goal'[k] = IF CanBeDeleted(kept(k)) THEN none ELSE kept(k)
                     /\ kept(k) \in Records /\ Distinct(kept(k))
                     /\ ElementsOf(kept(k)) = IF type = "IE" THEN {} ELSE elems[k]
                     /\ kept(k).bit = IF type = "IE" THEN goal[k].bit ELSE DefaultBit
                     /\ method # "ALWAYS_1" => (k \in pend <=> goal[k].bit # DefaultBit)
    <2>1. /\ goal[k] \in Records \cup {none}
          /\ goal'[k] = IF goal[k] = none \/ CanBeDeleted(kept(k)) THEN none ELSE kept(k)
      BY <1>1, <1>2 DEF RecordsOK
    <2>2. /\ method # "ALWAYS_1" => (k \in pend <=> goal[k] # none /\ goal[k].bit # DefaultBit)
          /\ elems[k] = IF goal[k] = none THEN {} ELSE ElementsOf(goal[k])
          /\ goal[k] # none => Distinct(goal[k])
      BY <1>2, Zenon DEF GhostsOK, ElementsOf, RecordsOK, Distinct
    <2>3. ASSUME goal[k] # none
          PROVE  /\ kept(k) \in Records /\ Distinct(kept(k))
                 /\ ElementsOf(kept(k)) = IF type = "IE" THEN {} ELSE elems[k]
                 /\ kept(k).bit = IF type = "IE" THEN goal[k].bit ELSE DefaultBit
      BY <2>1, <2>2, <2>3, ClearedFacts
    <2>. HIDE DEF kept
    <2>. QED
      BY <2>1, <2>2, <2>3
  <1>6. RecordsOK'
    <2>1. goal' \in [Keys -> Records \cup {none}]
      <3>1. \A k \in Keys : (IF goal[k] = none \/ CanBeDeleted(kept(k)) THEN none ELSE kept(k))
                            \in Records \cup {none}
        <4>. HIDE DEF kept
        <4>. QED
          BY <1>5
      <3>. HIDE DEF kept
      <3>. QED
        BY <1>1, <3>1
    <2>2. ASSUME NEW k \in Keys, goal'[k] # none
          PROVE  ~CanBeDeleted(goal'[k]) /\ Distinct(goal'[k])
      <3>. HIDE DEF kept
      <3>. QED
        BY <1>5, <2>2
    <2>3. \A k \in Keys : goal'[k] # none => ~CanBeDeleted(goal[k])'
      BY <1>1, <2>2 DEF CanBeDeleted, DefaultBit
    <2>. QED
      BY <2>1, <2>2, <2>3 DEF RecordsOK, Distinct
  <1>7. GhostsOK'
    <2>1. pend' \subseteq Keys /\ elems' \in [Keys -> SUBSET Elements]
      BY <1>1, <1>2 DEF GhostsOK
    <2>2. ASSUME NEW k \in Keys
          PROVE  /\ method # "ALWAYS_1" =>
                       (k \in pend' <=> goal'[k] # none /\ goal'[k].bit # DefaultBit)
                 /\ elems'[k] = IF goal'[k] = none THEN {} ELSE ElementsOf(goal'[k])
      <3>0. elems'[k] = (IF type = "IE" THEN {} ELSE elems[k])
            /\ (k \in pend' <=> type = "IE" /\ k \in pend)
        BY <1>1
      <3>1. CASE goal[k] = none
        BY <1>5, <3>0, <3>1
      <3>2. CASE goal[k] # none /\ CanBeDeleted(kept(k))
        <4>1. kept(k).ie = <<>> /\ (method # "ALWAYS_1" => kept(k).bit = DefaultBit)
          BY <3>2 DEF CanBeDeleted
        <4>. HIDE DEF kept
        <4>2. DOMAIN kept(k).ie = {}
          BY <4>1
        <4>3. ElementsOf(kept(k)) = {}
          BY <4>2 DEF ElementsOf
        <4>. QED
          BY <1>5, <3>0, <3>2, <4>1, <4>3
      <3>3. CASE goal[k] # none /\ ~CanBeDeleted(kept(k))
        <4>. HIDE DEF kept
        <4>1. goal'[k] = kept(k) /\ kept(k) # none
          BY <1>5, <3>3, RecordFacts
        <4>. QED
          BY <1>5, <3>0, <3>3, <4>1
      <3>. QED
        BY <3>1, <3>2, <3>3
    <2>3. DefaultBit' = DefaultBit
      BY <1>1 DEF DefaultBit
    <2>. QED
      BY <1>1, <2>1, <2>2, <2>3 DEF GhostsOK, ElementsOf
  <1>8. GoalOK'
    <2>1. ASSUME NEW x \in Reached PROVE goal'[Entry(x)'.key] = Want(x)'
      <3>0. iter' # none
        BY <1>1, <1>3, MarkersAssumption
      <3>1. x <= iter'
        BY <1>1, <1>3
      <3>2. Want(x)' = Kept(Entry(x).value)'
        BY <3>0, <3>1 DEF Want
      <3>3. Entry(x).key \in Keys /\ Entry(x).value \in Records /\ Entry(x).value # none
        BY <1>3, EntryFacts, RecordFacts
      <3>4. goal'[Entry(x).key] = IF CanBeDeleted(kept(Entry(x).key)) THEN none
                                                                      ELSE kept(Entry(x).key)
        <4>. HIDE DEF kept
        <4>. QED
          BY <1>4, <1>5, <3>3
      <3>5. kept(Entry(x).key) = ClearedRec(Entry(x).value, type)
        BY <1>4, Zenon
      <3>6. Kept(Entry(x).value)' = IF CanBeDeleted(ClearedRec(Entry(x).value, type)) THEN none
                                    ELSE ClearedRec(Entry(x).value, type)
        BY <1>1, <1>3 DEF Kept, ClearedRec, CanBeDeleted, DefaultBit
      <3>. HIDE DEF kept
      <3>. QED
        BY <1>3, <3>2, <3>4, <3>5, <3>6, Zenon
    <2>2. ASSUME NEW k \in Keys, goal'[k] # none PROVE \E x \in Settled' : Entry(x)'.key = k
      <3>1. goal[k] # none
        BY <1>5, <2>2
      <3>. QED
        BY <1>3, <1>4, <3>1
    <2>. QED
      BY <1>3, <2>1, <2>2 DEF GoalOK
  <1>9. IterOK'
    BY <1>1, <1>3 DEF IterOK
  <1>. QED
    BY <1>1, <1>2, <1>3, <1>6, <1>7, <1>8, <1>9 DEF TableIInv, TableOK

\* A turn of nrf_802154_ack_data_reset: the entry at the iterator is replaced or deleted,
\* which leaves those that the backward iteration has yet to visit where they are.
LEMMA ResetTurnOK ==
    ASSUME TableIInv, ResetTurn
    PROVE  TableIInv'
  <1>i. PICK i : i = iter
    OBVIOUS
  <1>. DEFINE rec == ClearedRec(Entry(i).value, reset)
  <1>1. /\ Idle /\ iter # none /\ i \in 0..(keysCount - 1) /\ iter' = i - 1
        /\ moves' = (IF CanBeDeleted(rec) THEN DeleteMoves(i) ELSE <<NewEntry(i, Entry(i).key, rec)>>)
        /\ step' = "stage" /\ UNCHANGED mapVars /\ method' = method /\ reset' = reset
        /\ goal' = goal /\ pend' = pend /\ elems' = elems
    BY <1>i, Zenon DEF ResetTurn, IterNext, ghosts
  <1>2. RecordsOK /\ GhostsOK /\ GoalOK /\ method \in Methods /\ MapType /\ MovesOK
    BY DEF TableIInv, TableOK, ArrayOK
  <1>3. /\ i \in Reached /\ i \in Nat /\ Settled = Reached /\ ~Writing /\ keysCount' = keysCount
        /\ \A x : x \in Reached <=> x \in Nat /\ x < keysCount
        /\ keysCount \in Nat
    BY <1>1, <1>2, ArrayNumbers DEF Reached, Writing, mapVars
  <1>4. Entry(i) \in Entries /\ Entry(i).key \in Keys /\ Entry(i).value \in Records
    BY <1>2, <1>3, EntryFacts DEF MapType
  <1>5. rec \in Records /\ rec # none
    BY <1>4, ClearedFacts, RecordFacts
  <1>6. goal[Entry(i).key] = IF CanBeDeleted(rec) THEN none ELSE rec
    <2>1. goal[Entry(i).key] = Want(i)
      BY <1>2, <1>3 DEF GoalOK
    <2>2. i <= iter
      BY <1>i, <1>3
    <2>3. Want(i) = Kept(Entry(i).value)
      BY <1>1, <2>2, Zenon DEF Want
    <2>. QED
      BY <2>1, <2>3, Zenon DEF Kept
  <1>. HIDE DEF rec
  <1>7. \A x : Entry(x)' = Entry(x)
    BY <1>1 DEF Entry, mapVars
  <1>8. iter' # none
    BY <1>1, <1>3, MarkersAssumption
  <1>9. ASSUME NEW x \in Reached, x # i PROVE goal'[Entry(x)'.key] = Want(x)'
    <2>1. x <= iter <=> x <= iter'
      BY <1>1, <1>3, <1>9, <1>i
    <2>2. Want(x)' = IF x <= iter' THEN Kept(Entry(x).value)' ELSE Entry(x)'.value
      BY <1>8 DEF Want
    <2>3. Kept(Entry(x).value)' = Kept(Entry(x)'.value)
      BY <1>1 DEF Kept, ClearedRec, CanBeDeleted, DefaultBit
    <2>4. Want(x) = IF x <= iter THEN Kept(Entry(x).value) ELSE Entry(x).value
      BY <1>1, Zenon DEF Want
    <2>5. goal[Entry(x).key] = Want(x)
      BY <1>2, <1>3 DEF GoalOK
    <2>6. Entry(x)' = Entry(x)
      BY <1>7
    <2>. QED
      BY <1>1, <2>1, <2>2, <2>3, <2>4, <2>5, <2>6, Zenon
  <1>10. RecordsOK'
    BY <1>1, <1>2 DEF RecordsOK, CanBeDeleted, DefaultBit
  <1>11. GhostsOK'
    BY <1>1, <1>2 DEF GhostsOK, DefaultBit
  <1>12. \A k \in Keys : goal[k] # none => \E x \in Reached : Entry(x).key = k
    BY <1>2, <1>3 DEF GoalOK
  <1>13. CASE CanBeDeleted(rec)
    <2>0. goal'[Entry(i).key] = none /\ moves' = DeleteMoves(i)
      BY <1>1, <1>6, <1>13
    <2>1. /\ ArrayOK' /\ ~Idle' /\ ~Writing' /\ Flux' = i /\ Settled' = Reached \ {i}
      BY <1>1, <1>3, <2>0, StartDelete, Zenon
    <2>2. GoalOK'
      <3>1. \A x \in Settled' : goal'[Entry(x)'.key] = Want(x)'
        BY <1>9, <2>1
      <3>2. \A k \in Keys : goal'[k] # none => \E x \in Settled' : Entry(x)'.key = k
        BY <1>1, <1>6, <1>7, <1>12, <1>13, <2>1
      <3>. QED
        BY <2>1, <3>1, <3>2 DEF GoalOK
    <2>3. IterOK'
      BY <1>1, <1>3, <2>1 DEF IterOK
    <2>. QED
      BY <1>1, <1>2, <1>10, <1>11, <2>1, <2>2, <2>3 DEF TableIInv, TableOK
  <1>14. CASE ~CanBeDeleted(rec)
    <2>0. goal[Entry(i).key] = rec /\ moves' = <<NewEntry(i, Entry(i).key, rec)>>
      BY <1>1, <1>6, <1>14
    <2>k. PICK k : k = Entry(i).key
      OBVIOUS
    <2>n. k \in Keys /\ Entry(i).key = k /\ moves' = <<NewEntry(i, k, rec)>>
      BY <1>4, <2>0, <2>k, Zenon
    <2>1. /\ ArrayOK' /\ ~Idle' /\ Writing' /\ Flux' = i /\ Settled' = Reached \ {i}
          /\ Last'.slot = i /\ Last'.entry.key = k /\ Last'.entry.value = rec
      BY <1>1, <1>3, <1>5, <2>n, StartUpdate, Zenon
    <2>2. GoalOK'
      <3>1. \A x \in Settled' : goal'[Entry(x)'.key] = Want(x)'
        BY <1>9, <2>1
      <3>2. \A q \in Keys : goal'[q] # none =>
               (\E x \in Settled' : Entry(x)'.key = q) \/ (Writing' /\ Last'.entry.key = q)
        BY <1>1, <1>7, <1>12, <2>1, <2>n
      <3>3. goal'[Last'.entry.key] = Last'.entry.value
        BY <1>1, <2>0, <2>1, <2>k
      <3>. QED
        BY <2>1, <3>1, <3>2, <3>3 DEF GoalOK
    <2>3. IterOK'
      BY <1>1, <1>3, <2>1 DEF IterOK
    <2>. QED
      BY <1>1, <1>2, <1>10, <1>11, <2>1, <2>2, <2>3 DEF TableIInv, TableOK
  <1>. QED
    BY <1>13, <1>14

\* The end of nrf_802154_ack_data_reset: no entry is left to visit.
LEMMA ResetEndOK ==
    ASSUME TableIInv, ResetEnd
    PROVE  TableIInv'
  <1>1. /\ Idle /\ iter # none /\ iter \notin 0..(keysCount - 1) /\ iter' = none
        /\ UNCHANGED bsmapVars /\ method' = method /\ goal' = goal /\ pend' = pend /\ elems' = elems
    BY DEF ResetEnd, ghosts
  <1>2. RecordsOK /\ GhostsOK /\ GoalOK /\ IterOK /\ method \in Methods
    BY DEF TableIInv, TableOK
  <1>3. /\ ArrayOK' /\ Idle' /\ ~Writing'
        /\ Settled' = Reached /\ Settled = Reached
        /\ \A x : Entry(x)' = Entry(x)
        /\ \A x : x \in Reached <=> x \in Nat /\ x < keysCount
        /\ keysCount \in Nat
    BY <1>1, IdleArray
  <1>4. iter = -1
    BY <1>1, <1>2, <1>3 DEF IterOK
  <1>5. \A x \in Reached : Want(x) = Entry(x).value
    <2>1. \A x \in Reached : ~(x <= iter)
      BY <1>3, <1>4
    <2>. QED
      BY <2>1, Zenon DEF Want
  <1>6. \A x : Want(x)' = Entry(x).value
    BY <1>1, <1>3 DEF Want
  <1>7. ~Writing
    BY <1>1 DEF Writing
  <1>8. GoalOK'
    BY <1>1, <1>2, <1>3, <1>5, <1>6, <1>7 DEF GoalOK
  <1>9. RecordsOK'
    BY <1>1, <1>2 DEF RecordsOK, CanBeDeleted, DefaultBit
  <1>10. GhostsOK'
    BY <1>1, <1>2 DEF GhostsOK, DefaultBit
  <1>11. IterOK'
    BY <1>1 DEF IterOK
  <1>. QED
    BY <1>1, <1>2, <1>3, <1>8, <1>9, <1>10, <1>11 DEF TableIInv, TableOK

\* A map without entries
LEMMA EmptyOK ==
    ASSUME keysCount = 0, moves = <<>>, step = "stage", auxIdx = INDEX_INVALID,
           memory = [x \in Slots |-> torn], iter = none, method \in Methods,
           goal = [k \in Keys |-> none], pend = {}, elems = [k \in Keys |-> {}]
    PROVE  TableIInv
  <1>1. Reached = {} /\ Idle /\ ~Writing /\ Settled = {} /\ Flux = -1
    BY DEF Reached, Idle, Writing, Settled, Flux, INDEX_INVALID
  <1>2. MapType
    BY <1>1, BsmapAssumption DEF MapType
  <1>3. MovesOK /\ StepOK /\ OrderOK /\ FluxOK
    BY <1>1 DEF MovesOK, StepOK, OrderOK, FluxOK, INDEX_INVALID
  <1>4. GoalOK /\ IterOK
    BY <1>1 DEF GoalOK, IterOK
  <1>5. RecordsOK /\ GhostsOK
    BY DEF RecordsOK, GhostsOK
  <1>. QED
    BY <1>2, <1>3, <1>4, <1>5 DEF TableIInv, ArrayOK, TableOK

\* nrf_802154_peer_table_clear
LEMMA TableClearOK ==
    ASSUME TableIInv, TableClear
    PROVE  TableIInv' /\ keysCount' = 0
  <1>1. /\ keysCount' = 0 /\ moves' = moves /\ step' = step /\ auxIdx' = auxIdx
        /\ memory' = [x \in Slots |-> torn] /\ iter' = iter /\ method' = method /\ Ready
        /\ goal' = [k \in Keys |-> none] /\ pend' = {} /\ elems' = [k \in Keys |-> {}]
    BY DEF TableClear, BsmapClear
  <1>2. moves = <<>> /\ step = "stage" /\ auxIdx = INDEX_INVALID /\ iter = none /\ method \in Methods
    BY <1>1 DEF TableIInv, ArrayOK, TableOK, StepOK, Ready, Idle
  <1>3. Reached' = {} /\ Idle' /\ ~Writing' /\ Settled' = {} /\ Flux' = -1
    BY <1>1, <1>2 DEF Reached, Idle, Writing, Settled, Flux, INDEX_INVALID
  <1>4. MapType'
    BY <1>1, <1>2, <1>3, BsmapAssumption DEF MapType, Slots, Moves, Entries
  <1>5. MovesOK' /\ StepOK' /\ OrderOK' /\ FluxOK'
    BY <1>1, <1>2, <1>3 DEF MovesOK, StepOK, OrderOK, FluxOK, INDEX_INVALID
  <1>6. GoalOK' /\ IterOK'
    BY <1>1, <1>2, <1>3 DEF GoalOK, IterOK
  <1>7. RecordsOK' /\ GhostsOK'
    BY <1>1 DEF RecordsOK, GhostsOK
  <1>. QED
    BY <1>1, <1>2, <1>4, <1>5, <1>6, <1>7 DEF TableIInv, ArrayOK, TableOK

\* The table is empty after nrf_802154_ack_data_init.
LEMMA AckDataInitOK == AckDataInit => TableIInv
  BY EmptyOK DEF AckDataInit, BsmapInit

\* The end of a move
LEMMA LandsOK ==
    ASSUME TableIInv, Grow \/ End, UNCHANGED <<method, iter, reset, ghosts>>
    PROVE  TableIInv'
  <1>1. Lands /\ ~Idle /\ (Writing \/ Len(moves) > 1)
    BY Landing DEF TableIInv
  <1>2. Len(moves) = 1 \/ Len(moves) > 1
    <2>1. Len(moves) \in Nat \ {0}
      BY <1>1, MoveIs DEF TableIInv, ArrayOK
    <2>2. \A n \in Nat \ {0} : n = 1 \/ n > 1
      OBVIOUS
    <2>. QED
      BY <2>1, <2>2, Zenon
  <1>3. CASE Len(moves) > 1
    BY <1>1, <1>3, ShiftLands, Zenon
  <1>4. CASE Len(moves) = 1 /\ Writing
    BY <1>1, <1>4, NewLands, Zenon
  <1>. QED
    BY <1>1, <1>2, <1>3, <1>4, Zenon

\* Every call of the thread and every step of a write preserves the invariant.
LEMMA AckDataNextOK == TableIInv /\ [AckDataNext]_ackDataVars => TableIInv'
  <1>. SUFFICES ASSUME TableIInv, [AckDataNext]_ackDataVars PROVE TableIInv'
    OBVIOUS
  <1>1. ASSUME NEW k \in Keys, SetPendingBit(k) PROVE TableIInv'
    BY <1>1, SetPendingBitOK, Zenon
  <1>2. ASSUME NEW k \in Keys, NEW e \in Elements, SetIe(k, e) PROVE TableIInv'
    BY <1>2, SetIeOK, Zenon
  <1>3. ASSUME NEW k \in Keys, NEW type, ClearPeer(k, type) PROVE TableIInv'
    BY <1>3, ClearPeerOK, Zenon
  <1>4. ASSUME NEW type, ResetBegin(type) PROVE TableIInv'
    BY <1>4, ResetBeginOK, Zenon
  <1>5. CASE ResetTurn
    BY <1>5, ResetTurnOK, Zenon
  <1>6. CASE ResetEnd
    BY <1>6, ResetEndOK, Zenon
  <1>7. CASE TableClear
    BY <1>7, TableClearOK, Zenon
  <1>8. CASE BsmapStep /\ UNCHANGED <<method, iter, reset, ghosts>>
    <2>1. CASE Stage \/ Show \/ Tear \/ Fill
      BY <1>8, <2>1, QuietStep, Zenon
    <2>2. CASE Grow \/ End
      BY <1>8, <2>2, LandsOK, Zenon
    <2>3. CASE Shrink
      BY <1>8, <2>3, Shrinks, Zenon
    <2>. QED
      BY <1>8, <2>1, <2>2, <2>3, Zenon DEF BsmapStep
  <1>9. CASE UNCHANGED ackDataVars
    <2>1. /\ keysCount' = keysCount /\ moves' = moves /\ memory' = memory /\ auxIdx' = auxIdx
          /\ aux' = aux /\ step' = step /\ UNCHANGED <<method, iter, reset, ghosts>>
      BY <1>9 DEF ackDataVars, bsmapVars, mapVars
    <2>2. \A x : Entry(x)' = Entry(x)
      BY <2>1 DEF Entry
    <2>3. /\ Idle' <=> Idle
          /\ Flux' = Flux /\ Reached' = Reached /\ Move' = Move
          /\ (\A x \in Reached : Entry(x) \in Entries)'
          /\ MovesOK' /\ OrderOK' /\ FluxOK' /\ TableOK'
      BY <2>1, <2>2, Quiet
    <2>4. MapType /\ StepOK
      BY DEF TableIInv, ArrayOK
    <2>5. MapType'
      BY <2>1, <2>3, <2>4 DEF MapType, Slots, Entries, Moves
    <2>6. Content' = Content
      BY <2>1, <2>3 DEF Content, INDEX_INVALID
    <2>7. StepOK'
      BY <2>1, <2>3, <2>4, <2>6 DEF StepOK, INDEX_INVALID
    <2>. QED
      BY <2>3, <2>5, <2>7 DEF TableIInv, ArrayOK
  <1>. QED
    BY <1>1, <1>2, <1>3, <1>4, <1>5, <1>6, <1>7, <1>8, <1>9, Zenon DEF AckDataNext, Calls

\* The invariant holds in every state: through all the memory writes of
\* nrf_802154_bsmap_rec_write, _rec_delete and _clear, for any keys, capacity,
\* elements and matching methods, the slots that lookups can reach hold whole entries
\* in ascending order of their keys, and with what the write and the reset have left
\* to do they make up the table that was asked for.
THEOREM TableInvariant == AckDataSpec => []TableIInv
  BY AckDataInitOK, AckDataNextOK, PTL DEF AckDataSpec

-----------------------------------------------------------------------------
(* What ACKs carry *)

\* The invariant gives the types.
LEMMA TypeFromIInv == TableIInv => TableTypeOK
  <1>. SUFFICES ASSUME TableIInv PROVE TableTypeOK
    OBVIOUS
  <1>0. MapType /\ MovesOK /\ StepOK /\ RecordsOK /\ IterOK
    BY DEF TableIInv, ArrayOK, TableOK
  <1>1. /\ CAPACITY \in Nat /\ keysCount \in Nat /\ keysCount <= CAPACITY
        /\ ~Idle => Flux \in Slots
    BY <1>0, ArrayNumbers
  <1>2. auxIdx \in Slots \cup {INDEX_INVALID}
    BY <1>0, <1>1 DEF StepOK
  <1>3. \A x \in Slots : memory[x] = torn \/ memory[x].key \in Keys
    <2>1. \A x \in Slots : memory[x] \in Entries \/ memory[x] = torn
      BY <1>0 DEF MapType
    <2>. QED
      BY <2>1, EntryFacts
  <1>4. iter = none \/ iter \in -1..(CAPACITY - 1)
    BY <1>0, <1>1 DEF IterOK
  <1>. QED
    BY <1>0, <1>1, <1>2, <1>3, <1>4 DEF TableTypeOK, MapType, RecordsOK

\* What is asked for is what was set, kind by kind.
LEMMA AcksFromIInv == TableIInv => AcksCarryWhatWasSet
  <1>. SUFFICES ASSUME TableIInv PROVE AcksCarryWhatWasSet
    OBVIOUS
  <1>0. RecordsOK /\ GhostsOK /\ method \in Methods
    BY DEF TableIInv, TableOK
  <1>1. method \in {"THREAD", "ZIGBEE", "ALWAYS_1"}
    BY <1>0, AckDataAssumption
  <1>2. ASSUME NEW k \in Keys
        PROVE  PendingBit(goal[k]) <=> (method = "ALWAYS_1" \/ (k \in pend <=> method = "THREAD"))
    <2>1. method # "ALWAYS_1" => (k \in pend <=> goal[k] # none /\ goal[k].bit # DefaultBit)
      BY <1>0 DEF GhostsOK
    <2>2. CASE method = "ALWAYS_1"
      BY <2>2 DEF PendingBit
    <2>3. CASE method # "ALWAYS_1" /\ goal[k] = none
      <3>1. k \notin pend
        BY <2>1, <2>3
      <3>2. PendingBit(goal[k]) <=> DefaultBit
        BY <2>3 DEF PendingBit
      <3>. QED
        BY <1>1, <2>3, <3>1, <3>2 DEF DefaultBit
    <2>4. CASE method # "ALWAYS_1" /\ goal[k] # none
      <3>1. goal[k].bit \in BOOLEAN
        BY <1>0, <2>4, RecordFacts DEF RecordsOK
      <3>2. PendingBit(goal[k]) <=> goal[k].bit
        BY <2>4 DEF PendingBit
      <3>. QED
        BY <1>1, <2>1, <2>4, <3>1, <3>2 DEF DefaultBit
    <2>. QED
      BY <2>2, <2>3, <2>4
  <1>3. TableTypeOK
    BY TypeFromIInv
  <1>. QED
    BY <1>0, <1>2, <1>3 DEF AcksCarryWhatWasSet, GhostsOK

\* The ACK for a peer carries what nrf_802154_ack_data_for_addr_set has set and neither
\* nrf_802154_ack_data_for_addr_clear nor nrf_802154_ack_data_reset has taken back
\* since: the pending bit that nrf_802154_ack_data_pending_bit_should_be_set tells
\* from the peer's record, and the information elements of that record.
THEOREM AcksCarry == AckDataSpec => []AcksCarryWhatWasSet
  BY TableInvariant, AcksFromIInv, PTL

-----------------------------------------------------------------------------
(* Places *)

\* Peers that have a record in a table
Users(t) == {k \in Keys : t[k] # none}

\* The entries are a bijection between slots in use and peers.
LEMMA Places ==
    ASSUME TableIInv, Ready
    PROVE  IsFiniteSet(Users(goal)) /\ Cardinality(Users(goal)) = keysCount
  <1>0. MapType /\ MovesOK /\ OrderOK /\ Idle
    BY DEF TableIInv, ArrayOK, Ready
  <1>1. /\ keysCount \in Nat /\ \A x \in Reached : x \in Nat
        /\ Settled = Reached
    BY <1>0, ArrayNumbers
  <1>2. /\ \A x \in Reached : goal[Entry(x).key] = Entry(x).value
        /\ \A k \in Keys : goal[k] # none => \E x \in Reached : Entry(x).key = k
    BY ReadyGoal
  <1>3. /\ \A x \in Reached : Entry(x).key \in Keys /\ Entry(x).key \in Int /\ Entry(x).value # none
        /\ \A x, y \in Reached : x < y => Entry(x).key < Entry(y).key
    BY <1>0, <1>1, EntryFacts, RecordFacts DEF MapType, OrderOK
  <1>. DEFINE f == [x \in Reached |-> Entry(x).key]
  <1>4. f \in Bijection(Reached, Users(goal))
    <2>1. f \in [Reached -> Users(goal)]
      BY <1>2, <1>3 DEF Users
    <2>2. \A x, y \in Reached : f[x] = f[y] => x = y
      BY <1>1, <1>3
    <2>3. \A k \in Users(goal) : \E x \in Reached : f[x] = k
      BY <1>2 DEF Users
    <2>. HIDE DEF f
    <2>. QED
      BY <2>1, <2>2, <2>3 DEF Bijection, Injection, IsInjective, Surjection
  <1>5. ExistsBijection(Reached, Users(goal))
    BY <1>4 DEF ExistsBijection
  <1>6. IsFiniteSet(Reached) /\ Cardinality(Reached) = keysCount
    <2>1. IsFiniteSet(0..(keysCount - 1))
          /\ Cardinality(0..(keysCount - 1)) = IF 0 > keysCount - 1 THEN 0 ELSE (keysCount - 1) - 0 + 1
      BY <1>1, FS_Interval
    <2>. QED
      BY <1>1, <2>1 DEF Reached
  <1>. QED
    BY <1>5, <1>6, FS_Bijection

\* Between calls, the peers with an entry are those for which something is set.
LEMMA PlacesFromIInv == TableIInv => NoWastedPlace
  <1>. SUFFICES ASSUME TableIInv, Ready
                PROVE  keysCount = Cardinality({k \in Keys :
                           elems[k] # {} \/ (method # "ALWAYS_1" /\ k \in pend)})
    BY DEF NoWastedPlace
  <1>0. RecordsOK /\ GhostsOK
    BY DEF TableIInv, TableOK
  <1>1. ASSUME NEW k \in Keys
        PROVE  goal[k] # none <=> elems[k] # {} \/ (method # "ALWAYS_1" /\ k \in pend)
    <2>1. /\ method # "ALWAYS_1" => (k \in pend <=> goal[k] # none /\ goal[k].bit # DefaultBit)
          /\ elems[k] = IF goal[k] = none THEN {} ELSE ElementsOf(goal[k])
          /\ goal[k] # none => ~CanBeDeleted(goal[k])
      BY <1>0, Zenon DEF GhostsOK, ElementsOf, RecordsOK
    <2>2. ASSUME goal[k] # none, ElementsOf(goal[k]) = {} PROVE goal[k].ie = <<>>
      <3>1. goal[k].ie \in Sequels
        BY <1>0, <2>2, RecordFacts DEF RecordsOK
      <3>2. goal[k].ie \in Seq(Elements)
        BY <3>1, SequelsFacts
      <3>3. DOMAIN goal[k].ie = {}
        BY <2>2 DEF ElementsOf
      <3>. QED
        BY <3>2, <3>3
    <2>. QED
      BY <2>1, <2>2 DEF CanBeDeleted
  <1>2. {k \in Keys : elems[k] # {} \/ (method # "ALWAYS_1" /\ k \in pend)} = Users(goal)
    BY <1>1 DEF Users
  <1>. QED
    BY <1>2, Places

\* Between calls the table of nrf_802154_ack_data.c has exactly as many entries as
\* there are peers for which something is set: peer_rec_can_be_deleted gives back
\* each place that says nothing.
THEOREM NoWaste == AckDataSpec => []NoWastedPlace
  BY TableInvariant, PlacesFromIInv, PTL

-----------------------------------------------------------------------------
(* What lookups see *)

\* Entries that a lookup can find, and those of settled slots
Shows  == {Entry(x) : x \in Reached}
Kernel == {Entry(x) : x \in Settled}

\* What a lookup returns, whatever the order it looks in
SeenIs ==
    \A k \in Keys : /\ \A e \in Shows : e.key = k => RecGet(k) = e.value
                    /\ (\A e \in Shows : e.key # k) => RecGet(k) = none

\* A lookup returns what the slots it can reach show.
LEMMA SeenInv == TableIInv => SeenIs
  <1>. SUFFICES ASSUME TableIInv, NEW k \in Keys
                PROVE  /\ \A e \in Shows : e.key = k => RecGet(k) = e.value
                       /\ (\A e \in Shows : e.key # k) => RecGet(k) = none
    BY Zenon DEF SeenIs
  <1>1. InOrder
    BY ArrayInOrder DEF TableIInv
  <1>2. /\ \A x \in Reached : Entry(x).key = k =>
              BinarySearch(k).found /\ RecGet(k) = Entry(x).value
        /\ (\A x \in Reached : Entry(x).key # k) =>
              ~BinarySearch(k).found /\ RecGet(k) = none
    BY <1>1, LookupFinds, Zenon
  <1>. QED
    BY <1>2, Zenon DEF Shows

\* A step that no lookup can see
LEMMA SeenStays ==
    ASSUME SeenIs, SeenIs', Shows' = Shows
    PROVE  Seen' = Seen
  <1>1. ASSUME NEW k \in Keys PROVE RecGet(k)' = RecGet(k)
    <2>1. /\ \A e \in Shows : e.key = k => RecGet(k) = e.value
          /\ (\A e \in Shows : e.key # k) => RecGet(k) = none
      BY DEF SeenIs
    <2>2. /\ \A e \in Shows' : e.key = k => RecGet(k)' = e.value
          /\ (\A e \in Shows' : e.key # k) => RecGet(k)' = none
      BY DEF SeenIs
    <2>3. \A e : e \in Shows' <=> e \in Shows
      OBVIOUS
    <2>4. CASE \A e \in Shows : e.key # k
      BY <2>1, <2>2, <2>3, <2>4, Zenon
    <2>5. ASSUME NEW e \in Shows, e.key = k PROVE RecGet(k)' = RecGet(k)
      BY <2>1, <2>2, <2>3, <2>5, Zenon
    <2>. QED
      BY <2>4, <2>5, Zenon
  <1>. QED
    BY <1>1 DEF Seen

\* A step that changes what lookups see of one peer
LEMMA SeenChanges ==
    ASSUME SeenIs, SeenIs', NEW p \in Keys, RecGet(p)' = goal[p],
           \A e : e.key # p => (e \in Shows' <=> e \in Shows)
    PROVE  Seen' = [Seen EXCEPT ![p] = goal[p]]
  <1>1. ASSUME NEW k \in Keys, k # p PROVE RecGet(k)' = RecGet(k)
    <2>1. /\ \A e \in Shows : e.key = k => RecGet(k) = e.value
          /\ (\A e \in Shows : e.key # k) => RecGet(k) = none
      BY DEF SeenIs
    <2>2. /\ \A e \in Shows' : e.key = k => RecGet(k)' = e.value
          /\ (\A e \in Shows' : e.key # k) => RecGet(k)' = none
      BY DEF SeenIs
    <2>3. \A e : e.key = k => (e \in Shows' <=> e \in Shows)
      BY <1>1, Zenon
    <2>. QED
      BY <2>1, <2>2, <2>3, Zenon
  <1>2. Seen' = [k \in Keys |-> RecGet(k)']
    BY DEF Seen
  <1>3. [Seen EXCEPT ![p] = goal[p]] = [k \in Keys |-> IF k = p THEN goal[p] ELSE RecGet(k)]
    BY DEF Seen
  <1>. QED
    BY <1>1, <1>2, <1>3

\* The slot in flux shows what another slot shows, or what is deleted, or the record that
\* is replaced.
LEMMA FluxShows ==
    ASSUME TableIInv
    PROVE  /\ Kernel \subseteq Shows
           /\ Flux \notin Reached => Shows = Kernel
           /\ Flux \in Reached => Shows = Kernel \cup {Entry(Flux)} /\ Entry(Flux).key \in Keys
           /\ Flux \in Reached /\ Writing =>
                 \/ Entry(Flux) \in Kernel
                 \/ Flux = Last.slot /\ Entry(Flux).key = Last.entry.key
           /\ Flux \in Reached /\ ~Writing =>
                 \/ Entry(Flux) \in Kernel
                 \/ /\ goal[Entry(Flux).key] = none
                    /\ \A e \in Kernel : e.key # Entry(Flux).key
  <1>0. MapType /\ MovesOK /\ FluxOK
    BY DEF TableIInv, ArrayOK
  <1>1. /\ Flux \in Int /\ keysCount \in Nat
        /\ \A x : x \in Reached <=> x \in Nat /\ x < keysCount
    BY <1>0, ArrayNumbers
  <1>2. \A x \in Reached : Entry(x).key \in Keys /\ Entry(x).key \in Int
    BY <1>0, EntryFacts DEF MapType
  <1>3. Kernel \subseteq Shows
    BY DEF Kernel, Shows, Settled
  <1>4. CASE Flux \notin Reached
    <2>1. Settled = Reached
      BY <1>4 DEF Settled
    <2>. QED
      BY <1>3, <1>4, <2>1 DEF Kernel, Shows
  <1>5. CASE Flux \in Reached
    <2>1. Shows = Kernel \cup {Entry(Flux)}
      BY <1>5 DEF Shows, Kernel, Settled
    <2>2. /\ Flux + 1 < keysCount => Entry(Flux + 1) \in Kernel
          /\ Flux > 0 => Entry(Flux - 1) \in Kernel
      <3>1. /\ Flux + 1 < keysCount => Flux + 1 \in Settled
            /\ Flux > 0 => Flux - 1 \in Settled
        BY <1>1, <1>5 DEF Settled
      <3>. QED
        BY <3>1 DEF Kernel
    <2>3. CASE Writing
      <3>1. \/ Flux = Last.slot /\ Entry(Flux).key = Last.entry.key
            \/ Flux + 1 < keysCount /\ Entry(Flux) = Entry(Flux + 1)
        BY <1>0, <1>5, <2>3 DEF FluxOK
      <3>. QED
        BY <1>2, <1>3, <1>5, <2>1, <2>2, <2>3, <3>1
    <2>4. CASE ~Writing
      <3>1. \/ Flux > 0 /\ Entry(Flux) = Entry(Flux - 1)
            \/ /\ goal[Entry(Flux).key] = none
               /\ \A x \in Settled :
                     IF x < Flux THEN Entry(x).key < Entry(Flux).key
                                 ELSE Entry(Flux).key < Entry(x).key
        BY <1>0, <1>5, <2>4 DEF FluxOK
      <3>2. CASE \A x \in Settled : IF x < Flux THEN Entry(x).key < Entry(Flux).key
                                                ELSE Entry(Flux).key < Entry(x).key
        <4>1. \A x \in Settled : x \in Reached /\ Entry(x).key # Entry(Flux).key
          BY <1>2, <1>5, <3>2 DEF Settled
        <4>2. \A e \in Kernel : e.key # Entry(Flux).key
          BY <4>1 DEF Kernel
        <4>. QED
          BY <1>2, <1>3, <1>5, <2>1, <2>2, <2>4, <3>1, <4>2
      <3>3. CASE Flux > 0 /\ Entry(Flux) = Entry(Flux - 1)
        BY <1>2, <1>3, <1>5, <2>1, <2>2, <2>4, <3>3
      <3>. QED
        BY <3>1, <3>2, <3>3
    <2>. QED
      BY <2>3, <2>4
  <1>. QED
    BY <1>4, <1>5

TableStep == [Table!Next]_(Table!vars)

\* A step of a write that no lookup can see.
LEMMA Stutters == ASSUME Seen' = Seen, goal' = goal PROVE TableStep
  BY DEF TableStep, Table!vars

\* A step that takes effect for one peer.
LEMMA Applies ==
    ASSUME NEW p \in Keys, Seen' = [Seen EXCEPT ![p] = goal[p]], goal' = goal
    PROVE  TableStep
  BY DEF TableStep, Table!Next, Table!Apply

\* The slot that an entry has left is not looked at any more.
LEMMA KernelStep ==
    ASSUME TableIInv, SeenIs, SeenIs', ~Writing, goal' = goal, Shows' = Kernel
    PROVE  TableStep
  <1>1. CASE Shows = Kernel
    BY <1>1, SeenStays, Stutters, Zenon
  <1>2. CASE Shows # Kernel
    <2>1. PICK e : e = Entry(Flux)
      OBVIOUS
    <2>2. /\ Shows = Kernel \cup {e} /\ e.key \in Keys /\ goal[e.key] = none
          /\ \A d \in Kernel : d.key # e.key
      BY <1>2, <2>1, FluxShows
    <2>3. PICK p : p = e.key
      OBVIOUS
    <2>4. \A d : d.key # p => (d \in Shows' <=> d \in Shows)
      <3>1. ASSUME NEW d, d.key # p PROVE d \in Shows' <=> d \in Shows
        <4>1. d # e
          BY <2>3, <3>1, Zenon
        <4>. QED
          BY <2>2, <4>1
      <3>. QED
        BY <3>1, Zenon
    <2>5. RecGet(p)' = none /\ p \in Keys /\ goal[p] = none
      <3>1. (\A d \in Shows' : d.key # p) => RecGet(p)' = none
        BY <2>2, <2>3 DEF SeenIs
      <3>. QED
        BY <2>2, <2>3, <3>1
    <2>6. Seen' = [Seen EXCEPT ![p] = goal[p]]
      BY <2>4, <2>5, SeenChanges, Zenon
    <2>. QED
      BY <2>5, <2>6, Applies, Zenon
  <1>. QED
    BY <1>1, <1>2

\* Steps of a write
LEMMA WriteSteps ==
    ASSUME TableIInv, TableIInv', SeenIs, SeenIs', BsmapStep,
           UNCHANGED <<method, iter, reset, ghosts>>
    PROVE  TableStep
  <1>g. goal' = goal
    BY DEF ghosts
  <1>a. ArrayOK
    BY DEF TableIInv
  <1>1. CASE Stage \/ Show \/ Tear \/ Fill
    <2>1. keysCount' = keysCount /\ \A x \in Reached : Entry(x)' = Entry(x)
      BY <1>1, QuietStep, Zenon
    <2>2. Shows' = Shows
      BY <2>1 DEF Shows, Reached
    <2>. QED
      BY <1>g, <2>2, SeenStays, Stutters, Zenon
  <1>2. CASE Grow \/ End
    <2>1. Lands /\ ~Idle /\ (Writing \/ Len(moves) > 1)
      BY <1>2, <1>a, Landing
    <2>2. Len(moves) = 1 \/ Len(moves) > 1
      <3>1. Len(moves) \in Nat \ {0}
        BY <2>1, MoveIs DEF TableIInv, ArrayOK
      <3>2. \A n \in Nat \ {0} : n = 1 \/ n > 1
        OBVIOUS
      <3>. QED
        BY <3>1, <3>2, Zenon
    <2>f. PICK f : f = Flux
      OBVIOUS
    <2>3. CASE Len(moves) > 1
      <3>g. PICK g : g = Flux'
        OBVIOUS
      <3>1. /\ g \in Settled /\ f \notin Settled
            /\ Writing => f > Last.slot
            /\ f \in Reached' /\ g \in Reached'
            /\ Settled' = (Settled \ {g}) \cup {f}
            /\ \A x \in Reached' : Entry(x)' = IF x = f THEN Entry(g) ELSE Entry(x)
            /\ f \in Nat
        BY <1>a, <2>1, <2>3, <2>f, <3>g, ShiftFacts
      <3>2. Reached' = Settled \cup {f}
        BY <2>f, <3>1 DEF Lands, Settled
      <3>3. Shows' = Kernel
        BY <3>1, <3>2 DEF Shows, Kernel
      <3>4. CASE ~Writing
        BY <1>g, <3>3, <3>4, KernelStep, Zenon
      <3>5. CASE Writing
        <4>1. Flux # Last.slot
          <5>1. Last.slot \in Nat
            BY <1>a, <3>5, ArrayNumbers DEF ArrayOK
          <5>. QED
            BY <2>f, <3>1, <3>5, <5>1
        <4>2. Shows = Kernel
          BY <3>5, <4>1, FluxShows
        <4>3. Shows' = Shows
          BY <3>3, <4>2
        <4>. QED
          BY <1>g, <4>3, SeenStays, Stutters, Zenon
      <3>. QED
        BY <3>4, <3>5
    <2>4. CASE Len(moves) = 1 /\ Writing
      <3>1. Content = Last.entry /\ Last.entry.key \in Keys /\ goal[Last.entry.key] = Last.entry.value
        BY <1>a, <2>4, ContentFacts, ArrayNumbers DEF ArrayOK, TableIInv, TableOK, GoalOK, Writing
      <3>2. PICK e : e = Last.entry
        OBVIOUS
      <3>3. Reached' = Settled \cup {f} /\ \A x \in Reached' : Entry(x)' = IF x = f THEN e ELSE Entry(x)
        BY <2>1, <2>f, <3>1, <3>2 DEF Lands, Settled
      <3>4. f \notin Settled
        BY <2>f DEF Settled
      <3>5. Shows' = Kernel \cup {e}
        BY <3>3, <3>4 DEF Shows, Kernel
      <3>6. PICK p : p = e.key
        OBVIOUS
      <3>7. \A d \in Shows : d \in Kernel \/ d.key = p
        BY <2>4, <3>2, <3>6, FluxShows
      <3>8. Kernel \subseteq Shows
        BY FluxShows
      <3>9. ASSUME NEW d, d.key # p PROVE d \in Shows' <=> d \in Shows
        <4>1. d # e
          BY <3>6, <3>9, Zenon
        <4>. QED
          BY <3>5, <3>7, <3>8, <3>9, <4>1
      <3>10. RecGet(p)' = goal[p] /\ p \in Keys
        <4>1. p \in Keys /\ goal[p] = e.value /\ e.key = p /\ e \in Shows'
          BY <3>1, <3>2, <3>5, <3>6
        <4>2. RecGet(p)' = e.value
          BY <4>1 DEF SeenIs
        <4>. QED
          BY <4>1, <4>2, Zenon
      <3>11. Seen' = [Seen EXCEPT ![p] = goal[p]]
        BY <3>9, <3>10, SeenChanges, Zenon
      <3>. QED
        BY <1>g, <3>10, <3>11, Applies, Zenon
    <2>. QED
      BY <2>1, <2>2, <2>3, <2>4, Zenon
  <1>3. CASE Shrink
    <2>1. /\ ~Writing /\ Reached' = Settled /\ \A x \in Settled : Entry(x)' = Entry(x)
      BY <1>3, Shrinks, Zenon
    <2>2. Shows' = Kernel
      BY <2>1 DEF Shows, Kernel
    <2>. QED
      BY <1>g, <2>1, <2>2, KernelStep, Zenon
  <1>. QED
    BY <1>1, <1>2, <1>3 DEF BsmapStep

\* A call sets out from what lookups see.
LEMMA ReadySeen == ASSUME TableIInv, Ready PROVE Seen = goal
  <1>1. \A k \in Keys : RecGet(k) = goal[k]
    BY ReadyGoal, Zenon
  <1>2. goal \in [Keys -> Records \cup {none}]
    BY DEF TableIInv, TableOK, RecordsOK
  <1>. QED
    BY <1>1, <1>2 DEF Seen

\* It asks for a table that has a place for each record.
LEMMA Begins ==
    ASSUME TableIInv, TableIInv', Ready, Seen' = Seen,
           IsFiniteSet(Users(goal')), Cardinality(Users(goal')) <= CAPACITY
    PROVE  TableStep
  <1>1. Seen = goal
    BY ReadySeen
  <1>2. goal' \in [Keys -> Records \cup {none}]
    BY DEF TableIInv, TableOK, RecordsOK
  <1>3. Table!Size(goal') <= CAPACITY
    <2>1. \A S : Table!Cardinality(S) = Cardinality(S)
      BY Zenon DEF Table!Cardinality, Cardinality
    <2>. QED
      BY <2>1 DEF Table!Size, Users
  <1>4. Table!Begin
    BY <1>1, <1>2, <1>3 DEF Table!Begin, Table!Tables
  <1>. QED
    BY <1>4 DEF TableStep, Table!Next

\* The beginning of a write shows nothing.
LEMMA SameShows ==
    ASSUME UNCHANGED mapVars
    PROVE  Shows' = Shows
  <1>1. keysCount' = keysCount /\ \A x : Entry(x)' = Entry(x)
    BY DEF mapVars, Entry
  <1>. QED
    BY <1>1 DEF Shows, Reached

\* A call that stores or deletes one record begins.
LEMMA StoreBegins ==
    ASSUME TableIInv, TableIInv', SeenIs, SeenIs', Ready, NEW k \in Keys, NEW rec, Store(k, rec),
           ~CanBeDeleted(rec) => WriteFits(k)
    PROVE  TableStep
  <1>1. /\ UNCHANGED mapVars
        /\ goal' = [goal EXCEPT ![k] = IF CanBeDeleted(rec) THEN none ELSE rec]
    BY DEF Store
  <1>2. Seen' = Seen
    BY <1>1, SameShows, SeenStays, Zenon
  <1>3. IsFiniteSet(Users(goal)) /\ Cardinality(Users(goal)) = keysCount
    BY Places
  <1>4. keysCount \in Nat /\ CAPACITY \in Nat /\ keysCount <= CAPACITY
    BY ArrayNumbers DEF TableIInv, ArrayOK
  <1>5. BinarySearch(k).found <=> k \in Users(goal)
    BY ReadyGoal DEF Users
  <1>6. goal \in [Keys -> Records \cup {none}]
    BY DEF TableIInv, TableOK, RecordsOK
  <1>7. CASE CanBeDeleted(rec) \/ k \in Users(goal)
    <2>1. Users(goal') \in SUBSET Users(goal)
      BY <1>1, <1>6, <1>7 DEF Users
    <2>2. /\ IsFiniteSet(Users(goal')) /\ Cardinality(Users(goal')) <= Cardinality(Users(goal))
          /\ Cardinality(Users(goal')) \in Nat
      BY <1>3, <2>1, FS_Subset, FS_CardinalityType
    <2>3. Cardinality(Users(goal')) <= CAPACITY
      BY <1>3, <1>4, <2>2
    <2>. QED
      BY <1>2, <2>2, <2>3, Begins
  <1>8. CASE ~CanBeDeleted(rec) /\ k \notin Users(goal)
    <2>1. keysCount < CAPACITY
      BY <1>5, <1>8 DEF WriteFits
    <2>2. Users(goal') \in SUBSET (Users(goal) \cup {k})
      BY <1>1, <1>6, <1>8 DEF Users
    <2>3. IsFiniteSet(Users(goal) \cup {k}) /\ Cardinality(Users(goal) \cup {k}) = keysCount + 1
      BY <1>3, <1>8, FS_AddElement
    <2>4. /\ IsFiniteSet(Users(goal')) /\ Cardinality(Users(goal')) <= keysCount + 1
          /\ Cardinality(Users(goal')) \in Nat
      BY <2>2, <2>3, FS_Subset, FS_CardinalityType
    <2>5. Cardinality(Users(goal')) <= CAPACITY
      BY <1>4, <2>1, <2>4
    <2>. QED
      BY <1>2, <2>4, <2>5, Begins
  <1>. QED
    BY <1>7, <1>8

\* Each call of the thread is the beginning of a change of PeerTable, or its Clear.
LEMMA CallSteps ==
    ASSUME TableIInv, TableIInv', SeenIs, SeenIs', Calls
    PROVE  TableStep
  <1>1. ASSUME NEW k \in Keys, SetPendingBit(k) PROVE TableStep
    <2>. DEFINE rec == [RecOrDefault(k) EXCEPT !.bit = ~DefaultBit]
    <2>1. Ready /\ (~CanBeDeleted(rec) => WriteFits(k)) /\ Store(k, rec)
      BY <1>1, Zenon DEF SetPendingBit
    <2>. HIDE DEF rec
    <2>. QED
      BY <2>1, StoreBegins, Zenon
  <1>2. ASSUME NEW k \in Keys, NEW e \in Elements, SetIe(k, e) PROVE TableStep
    <2>. DEFINE rec == [RecOrDefault(k) EXCEPT !.ie = IeDataSet(RecOrDefault(k).ie, e)]
    <2>1. Ready /\ WriteFits(k) /\ Store(k, rec)
      BY <1>2, Zenon DEF SetIe
    <2>. HIDE DEF rec
    <2>. QED
      BY <2>1, StoreBegins, Zenon
  <1>3. ASSUME NEW k \in Keys, NEW type, ClearPeer(k, type) PROVE TableStep
    <2>. DEFINE rec == ClearedRec(RecGet(k), type)
    <2>1. Ready /\ RecGet(k) # none /\ Store(k, rec)
      BY <1>3, Zenon DEF ClearPeer
    <2>2. WriteFits(k)
      <3>1. BinarySearch(k).found
        BY <2>1, ReadyGoal
      <3>. QED
        BY <3>1 DEF WriteFits
    <2>. HIDE DEF rec
    <2>. QED
      BY <2>1, <2>2, StoreBegins, Zenon
  <1>4. ASSUME NEW type, ResetBegin(type) PROVE TableStep
    <2>. DEFINE kept(k) == ClearedRec(goal[k], type)
    <2>1. /\ Ready /\ UNCHANGED mapVars
          /\ goal' = [k \in Keys |-> IF goal[k] = none \/ CanBeDeleted(kept(k)) THEN none ELSE kept(k)]
      BY <1>4, Zenon DEF ResetBegin, bsmapVars
    <2>2. Seen' = Seen
      BY <2>1, SameShows, SeenStays, Zenon
    <2>3. IsFiniteSet(Users(goal)) /\ Cardinality(Users(goal)) = keysCount
      BY <2>1, Places
    <2>4. Users(goal') \in SUBSET Users(goal)
      <3>. HIDE DEF kept
      <3>. QED
        BY <2>1 DEF Users
    <2>5. /\ IsFiniteSet(Users(goal')) /\ Cardinality(Users(goal')) <= keysCount
          /\ Cardinality(Users(goal')) \in Nat
      BY <2>3, <2>4, FS_Subset, FS_CardinalityType
    <2>6. keysCount \in Nat /\ CAPACITY \in Nat /\ keysCount <= CAPACITY
      BY ArrayNumbers DEF TableIInv, ArrayOK
    <2>7. Cardinality(Users(goal')) <= CAPACITY
      BY <2>5, <2>6
    <2>. QED
      BY <2>1, <2>2, <2>5, <2>7, Begins, Zenon
  <1>5. CASE ResetTurn \/ ResetEnd
    <2>1. UNCHANGED mapVars /\ goal' = goal
      BY <1>5 DEF ResetTurn, ResetEnd, bsmapVars, ghosts
    <2>. QED
      BY <2>1, SameShows, SeenStays, Stutters, Zenon
  <1>6. CASE TableClear
    <2>1. Ready /\ keysCount' = 0 /\ goal' = [k \in Keys |-> none]
      BY <1>6 DEF TableClear, BsmapClear
    <2>2. Shows' = {}
      BY <2>1 DEF Shows, Reached
    <2>3. \A k \in Keys : RecGet(k)' = none
      BY <2>2 DEF SeenIs
    <2>4. Seen' = [k \in Keys |-> none]
      BY <2>3 DEF Seen
    <2>5. Table!Clear
      BY <2>1, <2>4, ReadySeen DEF Table!Clear
    <2>. QED
      BY <2>5 DEF TableStep, Table!Next
  <1>. QED
    BY <1>1, <1>2, <1>3, <1>4, <1>5, <1>6, Zenon DEF Calls

\* Every step is a step of PeerTable or leaves what it speaks about alone.
LEMMA StepRefines ==
    TableIInv /\ TableIInv' /\ SeenIs /\ SeenIs' /\ [AckDataNext]_ackDataVars => TableStep
  <1>. SUFFICES ASSUME TableIInv, TableIInv', SeenIs, SeenIs', [AckDataNext]_ackDataVars
                PROVE  TableStep
    OBVIOUS
  <1>1. CASE Calls
    BY <1>1, CallSteps, Zenon
  <1>2. CASE BsmapStep /\ UNCHANGED <<method, iter, reset, ghosts>>
    BY <1>2, WriteSteps, Zenon
  <1>3. CASE UNCHANGED ackDataVars
    <2>1. UNCHANGED mapVars /\ goal' = goal
      BY <1>3 DEF ackDataVars, bsmapVars, ghosts
    <2>. QED
      BY <2>1, SameShows, SeenStays, Stutters, Zenon
  <1>. QED
    BY <1>1, <1>2, <1>3, Zenon DEF AckDataNext

\* The table is empty to begin with.
LEMMA InitRefines == AckDataInit /\ SeenIs => Table!Init
  <1>. SUFFICES ASSUME AckDataInit, SeenIs PROVE Table!Init
    OBVIOUS
  <1>1. keysCount = 0 /\ goal = [k \in Keys |-> none]
    BY DEF AckDataInit, BsmapInit
  <1>2. Shows = {}
    BY <1>1 DEF Shows, Reached
  <1>3. \A k \in Keys : RecGet(k) = none
    BY <1>2 DEF SeenIs
  <1>4. Seen = [k \in Keys |-> none]
    BY <1>3 DEF Seen
  <1>. QED
    BY <1>1, <1>4 DEF Table!Init

\* Lookups are atomic: though the RADIO interrupt may interrupt nrf_802154_bsmap.c
\* between any two of its memory writes, the binary search sees the table before or
\* after the change of one peer, and all other peers throughout.
THEOREM LookupsRefine == AckDataSpec => LookupsAtomic
  <1>1. TableIInv /\ TableIInv' /\ SeenIs /\ SeenIs' /\ [AckDataNext]_ackDataVars
        => [Table!Next]_(Table!vars)
    BY StepRefines DEF TableStep
  <1>. QED
    BY <1>1, TableInvariant, SeenInv, InitRefines, PTL DEF AckDataSpec, LookupsAtomic, Table!Spec
=============================================================================
