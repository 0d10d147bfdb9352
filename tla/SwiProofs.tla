----------------------------- MODULE SwiProofs -----------------------------
EXTENDS Swi, FiniteSetTheorems, WellFoundedInduction, TLAPS
(***************************************************************************)
(* Proofs about Swi, for any sources of notifications, any size of the     *)
(* secondary pool and of the ring of requests and any nesting of           *)
(* interrupts.                                                             *)
(*                                                                         *)
(* The argument: ring, stack and pools stay in agreement (RingOK); the     *)
(* ring has one entry more than there are slots, so by the pigeonhole      *)
(* principle it is not full while a slot is still to be pushed; without    *)
(* reissue the outcomes in the primary pool are of different sources       *)
(* (OutcomeOK), so by the same principle a source that is told nowhere     *)
(* finds a slot.  The refinement reads the ring as a sequence from the     *)
(* read index on (ContentsOK).                                             *)
(***************************************************************************)

\* The entries of the ring between its indices.
Pushed ==
    {e \in Entries : IF rd <= wr THEN rd <= e /\ e < wr ELSE rd <= e \/ e < wr}

\* A slot is taken while it is in the ring or on the stack, and is there once.
RingOK ==
    /\ \A e \in Pushed : mem[e] \in Slots
    /\ \A e, f \in Pushed : mem[e] = mem[f] => e = f
    /\ \A i, j \in 1..Len(stack) : stack[i] = stack[j] => i = j
    /\ \A e \in Pushed : \A j \in 1..Len(stack) : mem[e] # stack[j]
    /\ \A e \in Pushed : data[mem[e]] # "none"
    /\ \A j \in 1..Len(stack) : data[stack[j]] # "none"
    /\ \A s \in Slots : data[s] # "none" =>
           (\E e \in Pushed : mem[e] = s) \/ (\E j \in 1..Len(stack) : stack[j] = s)

\* The primary pool holds outcomes only.
PoolOK == \A s \in PrimaryPool : data[s] # "spurious"

\* The higher layer is called out with an entry of the ring, never during a
\* reinitialisation in an interrupt.
EventOK == NoLostWakeup /\ (swi = "callout" => rd # wr /\ reinit # "isr")

\* Notifications are blocked during a reinitialisation, and none is on its way.
\* In the thread it starts with the ring already drained.
BlockOK ==
    /\ blocked <=> reinit # "no"
    /\ blocked => stack = <<>>
    /\ blocked /\ reinit # "isr" => rd = wr

\* Without reissue the outcome of a source is in one place.
OutcomeOK ==
    ~Reissue => \A k \in Kinds :
        /\ \A r, s \in Slots : data[r] = k /\ data[s] = k => r = s
        /\ k \in told => \A s \in Slots : data[s] # k

\* The ring of requests holds the one request that waits.
ReqOK ==
    /\ rrd # rwr => /\ rwr = IncrementModulo(rrd, ReqQueueSize)
                    /\ rmem[rrd] \in Requesters
                    /\ reqEvent \/ swi = "req"
    /\ \A c \in Requesters : wait[c] = "waiting" => rrd # rwr /\ rmem[rrd] = c
    /\ reinit = "sleeping" => wait["thread"] # "idle"

\* No assertion has failed.
AssertsOK == ~Reissue => assertsHold

\* The inductive invariant.
IInv ==
    /\ TypeOK /\ RingOK /\ PoolOK /\ EventOK /\ BlockOK
    /\ OutcomeOK /\ ReqOK /\ AssertsOK

-----------------------------------------------------------------------------
\* The sizes of pools and ring.
LEMMA Sizes ==
    /\ NTF_PRIMARY_POOL_SIZE \in Nat /\ SECONDARY_POOL_SIZE \in Nat
    /\ NTF_QUEUE_SIZE \in Nat /\ NTF_QUEUE_SIZE >= 1
    /\ Slots = 0..(NTF_QUEUE_SIZE - 2)
    /\ PrimaryPool \subseteq Slots /\ SecondaryPool \subseteq Slots
    /\ PrimaryPool \cap SecondaryPool = {}
    /\ IsFiniteSet(Slots) /\ Cardinality(Slots) = NTF_QUEUE_SIZE - 1
    /\ IsFiniteSet(PrimaryPool) /\ Cardinality(PrimaryPool) = NTF_PRIMARY_POOL_SIZE
  <1>1. NTF_PRIMARY_POOL_SIZE \in Nat /\ SECONDARY_POOL_SIZE \in Nat
    BY SwiAssumption, FS_CardinalityType DEF NTF_PRIMARY_POOL_SIZE
  <1>2. NTF_QUEUE_SIZE \in Nat /\ NTF_QUEUE_SIZE >= 1
    BY <1>1 DEF NTF_QUEUE_SIZE
  <1>3. /\ Slots = 0..(NTF_QUEUE_SIZE - 2)
        /\ PrimaryPool \subseteq Slots /\ SecondaryPool \subseteq Slots
        /\ PrimaryPool \cap SecondaryPool = {}
    BY <1>1 DEF Slots, PrimaryPool, SecondaryPool, NTF_QUEUE_SIZE
  <1>4. IsFiniteSet(Slots) /\ Cardinality(Slots) = NTF_QUEUE_SIZE - 1
    <2>1. 0 \in Int /\ NTF_QUEUE_SIZE - 2 \in Int
      BY <1>2
    <2>2. /\ IsFiniteSet(Slots)
          /\ Cardinality(Slots) = IF 0 > NTF_QUEUE_SIZE - 2 THEN 0
                                  ELSE NTF_QUEUE_SIZE - 2 - 0 + 1
      BY <1>3, <2>1, FS_Interval
    <2>. QED
      BY <1>2, <2>2
  <1>5. IsFiniteSet(PrimaryPool) /\ Cardinality(PrimaryPool) = NTF_PRIMARY_POOL_SIZE
    <2>1. 0 \in Int /\ NTF_PRIMARY_POOL_SIZE - 1 \in Int
      BY <1>1
    <2>2. /\ IsFiniteSet(PrimaryPool)
          /\ Cardinality(PrimaryPool) = IF 0 > NTF_PRIMARY_POOL_SIZE - 1 THEN 0
                                        ELSE NTF_PRIMARY_POOL_SIZE - 1 - 0 + 1
      BY <2>1, FS_Interval DEF PrimaryPool
    <2>. QED
      BY <1>1, <2>2
  <1>. QED
    BY <1>1, <1>2, <1>3, <1>4, <1>5

\* ntf_slot_alloc finds the first of the free slots of a pool.
LEMMA FirstExists ==
    ASSUME NEW S, S \subseteq Slots, S # {}
    PROVE  First(S) \in S
  <1>. DEFINE Upto(m) == {r \in S : r <= m}
              T == {Upto(m) : m \in S}
  <1>1. S \subseteq Int
    BY Sizes
  <1>2. IsFiniteSet(S)
    BY Sizes, FS_Subset
  <1>3. T \subseteq FiniteSubsetsOf(S) /\ T # {}
    <2>1. T \subseteq SUBSET S /\ T # {}
      OBVIOUS
    <2>. QED
      BY <1>2, <2>1, FS_FiniteSubsetsOfFinite
  <1>4. PICK x \in T : \A y \in T : <<y, x>> \notin StrictSubsetOrdering(S)
    <2>1. IsWellFoundedOn(StrictSubsetOrdering(S), FiniteSubsetsOf(S))
      BY FS_StrictSubsetOrderingWellFounded
    <2>. HIDE DEF T
    <2>. QED
      BY <2>1, <1>3, WFMin
  <1>5. PICK m \in S : x = Upto(m)
    OBVIOUS
  <1>6. ASSUME NEW r \in S PROVE m <= r
    <2>1. SUFFICES ASSUME r < m PROVE FALSE
      BY <1>1
    <2>2. r \in Int /\ m \in Int /\ r < m
      BY <1>1, <2>1
    <2>3. ASSUME NEW q \in S, q <= r PROVE q <= m
      BY <1>1, <2>2, <2>3
    <2>4. Upto(r) \subseteq Upto(m)
      BY <2>3
    <2>5. m \in Upto(m) /\ m \notin Upto(r)
      BY <2>2
    <2>6. <<Upto(r), x>> \in StrictSubsetOrdering(S)
      BY <1>5, <2>4, <2>5 DEF StrictSubsetOrdering
    <2>. QED
      BY <1>4, <2>6
  <1>. QED
    BY <1>6 DEF First

\* The next index of a ring.
LEMMA NextIndex ==
    /\ \A v \in Entries : IncrementModulo(v, NTF_QUEUE_SIZE) \in Entries
    /\ \A v \in ReqEntries : /\ IncrementModulo(v, ReqQueueSize) \in ReqEntries
                             /\ IncrementModulo(v, ReqQueueSize) # v
  BY Sizes, SwiAssumption DEF Entries, ReqEntries, IncrementModulo

\* A push adds the entry at the write index, unless the ring is full.
LEMMA PushPushed ==
    ASSUME TypeOK, ~QueueIsFull(wr, rd, NTF_QUEUE_SIZE), UNCHANGED rd,
           wr' = IncrementModulo(wr, NTF_QUEUE_SIZE)
    PROVE  Pushed' = Pushed \cup {wr} /\ wr \notin Pushed
  BY Sizes DEF TypeOK, QueueIsFull, IncrementModulo, Pushed, Entries

\* A pop removes the entry at the read index.
LEMMA PopPushed ==
    ASSUME TypeOK, rd # wr, UNCHANGED wr, rd' = IncrementModulo(rd, NTF_QUEUE_SIZE)
    PROVE  Pushed' = Pushed \ {rd} /\ rd \in Pushed
  BY Sizes DEF TypeOK, IncrementModulo, Pushed, Entries

\* As many entries as slots, and one more: the ring cannot be full while a slot
\* is still to be pushed.
LEMMA NotFull ==
    ASSUME TypeOK, RingOK, stack # <<>>
    PROVE  ~QueueIsFull(wr, rd, NTF_QUEUE_SIZE)
  <1>. SUFFICES ASSUME rd = IncrementModulo(wr, NTF_QUEUE_SIZE) PROVE FALSE
    BY DEF QueueIsFull
  <1>. DEFINE f == [e \in Pushed |-> mem[e]]
              T == Slots \ {Head(stack)}
  <1>1. Head(stack) = stack[1] /\ Head(stack) \in Slots /\ 1 \in 1..Len(stack)
    BY DEF TypeOK
  <1>2. Pushed = Entries \ {wr} /\ wr \in Entries
    BY Sizes DEF TypeOK, IncrementModulo, Pushed, Entries
  <1>3. f \in [Pushed -> T]
    BY <1>1 DEF RingOK
  <1>4. IsFiniteSet(T) /\ Cardinality(T) = NTF_QUEUE_SIZE - 2
    <2>1. IsFiniteSet(T) /\ Cardinality(T) = Cardinality(Slots) - 1
      BY <1>1, Sizes, FS_RemoveElement
    <2>. QED
      BY <2>1, Sizes
  <1>5. IsFiniteSet(Pushed) /\ Cardinality(Pushed) = NTF_QUEUE_SIZE - 1
    <2>1. 0 \in Int /\ NTF_QUEUE_SIZE - 1 \in Int
      BY Sizes
    <2>2. /\ IsFiniteSet(Entries)
          /\ Cardinality(Entries) = IF 0 > NTF_QUEUE_SIZE - 1 THEN 0
                                    ELSE NTF_QUEUE_SIZE - 1 - 0 + 1
      BY <2>1, FS_Interval DEF Entries
    <2>3. Cardinality(Entries) = NTF_QUEUE_SIZE
      BY <2>2, Sizes
    <2>. QED
      BY <1>2, <2>2, <2>3, Sizes, FS_RemoveElement
  <1>6. Cardinality(T) < Cardinality(Pushed)
    BY <1>4, <1>5, Sizes
  <1>7. \E x, y \in Pushed : x # y /\ f[x] = f[y]
    <2>. HIDE DEF f, T
    <2>. QED
      BY <1>3, <1>4, <1>5, <1>6, FS_PigeonHole
  <1>. QED
    BY <1>7 DEF RingOK

\* As many slots in the primary pool as sources: the outcome of a source that is
\* told nowhere finds one free.
LEMMA SlotFound ==
    ASSUME TypeOK, PoolOK, OutcomeOK, ~Reissue, NEW k \in Kinds, ~InProgress(k)
    PROVE  FreeIn(PrimaryPool) # {}
  <1>. SUFFICES ASSUME FreeIn(PrimaryPool) = {} PROVE FALSE
    OBVIOUS
  <1>. DEFINE f == [s \in PrimaryPool |-> data[s]]
              T == Kinds \ {k}
  <1>1. \A s \in PrimaryPool : s \in Slots /\ data[s] \in Kinds /\ data[s] # k
    BY Sizes DEF FreeIn, TypeOK, PoolOK, InProgress
  <1>2. f \in [PrimaryPool -> T]
    BY <1>1
  <1>3. IsFiniteSet(T) /\ Cardinality(T) = NTF_PRIMARY_POOL_SIZE - 1
    BY SwiAssumption, FS_RemoveElement DEF NTF_PRIMARY_POOL_SIZE
  <1>4. Cardinality(T) < Cardinality(PrimaryPool)
    BY <1>3, Sizes
  <1>5. \E x, y \in PrimaryPool : x # y /\ f[x] = f[y]
    <2>1. IsFiniteSet(PrimaryPool)
      BY Sizes
    <2>. HIDE DEF f, T
    <2>. QED
      BY <1>2, <1>3, <1>4, <2>1, FS_PigeonHole
  <1>. QED
    BY <1>1, <1>5 DEF OutcomeOK
-----------------------------------------------------------------------------
\* Nothing is queued, taken or requested at first.
LEMMA InitIInv == Init => IInv
  <1>. SUFFICES ASSUME Init PROVE IInv
    OBVIOUS
  <1>1. 0 \in Entries /\ 0 \in ReqEntries
    BY Sizes, SwiAssumption DEF Entries, ReqEntries
  <1>2. TypeOK
    <2>1. stack \in Seq(Slots) /\ told \subseteq Kinds
      BY DEF Init
    <2>2. data \in [Slots -> Kinds \cup {"spurious", "none"}]
      BY DEF Init
    <2>3. mem \in [Entries -> Slots \cup {NTF_INVALID_SLOT_ID}] /\ wr \in Entries /\ rd \in Entries
      BY <1>1 DEF Init
    <2>4. /\ rmem \in [ReqEntries -> Requesters \cup {"none"}]
          /\ rwr \in ReqEntries /\ rrd \in ReqEntries
          /\ wait \in [Requesters -> {"idle", "waiting", "done"}]
      BY <1>1 DEF Init
    <2>5. /\ ntfEvent \in BOOLEAN /\ reqEvent \in BOOLEAN /\ blocked \in BOOLEAN
          /\ swi \in Positions /\ assertsHold \in BOOLEAN
          /\ reinit \in {"no", "isr", "blocked", "sleeping", "flush", "clear", "unblock"}
      BY DEF Init, Positions
    <2>. QED
      BY <2>1, <2>2, <2>3, <2>4, <2>5 DEF TypeOK
  <1>3. Pushed = {} /\ Len(stack) = 0
    BY <1>1 DEF Init, Pushed, Entries
  <1>4. RingOK
    BY <1>3 DEF Init, RingOK
  <1>5. PoolOK /\ OutcomeOK
    BY Sizes, SwiAssumption DEF Init, PoolOK, OutcomeOK
  <1>6. EventOK /\ BlockOK /\ ReqOK /\ AssertsOK
    BY DEF Init, EventOK, NoLostWakeup, BlockOK, ReqOK, AssertsOK
  <1>. QED
    BY <1>2, <1>4, <1>5, <1>6 DEF IInv

\* What a notifier takes is a free slot.
LEMMA TakeSlotFree ==
    ASSUME TypeOK, NEW pool, pool \in {PrimaryPool, SecondaryPool}, FreeIn(pool) # {}
    PROVE  /\ First(FreeIn(pool)) \in pool /\ First(FreeIn(pool)) \in Slots
           /\ data[First(FreeIn(pool))] = "none"
  <1>1. FreeIn(pool) \subseteq Slots
    BY Sizes DEF FreeIn
  <1>2. First(FreeIn(pool)) \in FreeIn(pool)
    BY <1>1, FirstExists
  <1>. QED
    BY <1>1, <1>2 DEF FreeIn

\* Every step keeps the types.
LEMMA NextTypes == ASSUME IInv, [Next]_vars PROVE TypeOK'
  <1>. USE DEF TypeOK, Positions, ntfVars, reqVars, Assert
  <1>0. TypeOK
    BY DEF IInv
  <1>1. ASSUME NEW k \in Kinds, Notify(k) PROVE TypeOK'
    <2>1. CASE FreeIn(PrimaryPool) # {} /\ TakeSlot(First(FreeIn(PrimaryPool)), k)
      BY <1>0, <1>1, <2>1, TakeSlotFree DEF Notify, TakeSlot
    <2>2. CASE UNCHANGED <<data, stack>>
      BY <1>0, <1>1, <2>2 DEF Notify
    <2>. QED
      BY <1>1, <2>1, <2>2 DEF Notify
  <1>2. ASSUME NEW k \in Kinds, TakeUp(k) PROVE TypeOK'
    BY <1>0, <1>2 DEF TakeUp
  <1>3. CASE NotifySpurious
    BY <1>0, <1>3, TakeSlotFree DEF NotifySpurious, TakeSlot
  <1>4. CASE Push
    BY <1>0, <1>4, NextIndex DEF Push, Trigger
  <1>5. CASE SwiEnter
    BY <1>0, <1>5 DEF SwiEnter
  <1>6. CASE Fetch
    BY <1>0, <1>6, NextIndex DEF Fetch, PopCommit, PopFree
  <1>7. CASE CalloutEnd
    BY <1>0, <1>7, NextIndex DEF CalloutEnd, PopCommit, PopFree
  <1>8. CASE NtfDrained \/ ReqCheck \/ ReqDrained
    BY <1>0, <1>8 DEF NtfDrained, ReqCheck, ReqDrained
  <1>9. CASE ReqServe
    BY <1>0, <1>9, NextIndex DEF ReqServe
  <1>10. ASSUME NEW c \in Requesters, Request(c) \/ Return(c) PROVE TypeOK'
    <2>1. CASE Request(c)
      BY <1>0, <2>1, NextIndex DEF Request, PushRequest
    <2>2. CASE Return(c)
      BY <1>0, <2>2 DEF Return
    <2>. QED
      BY <1>10, <2>1, <2>2
  <1>11. CASE ReinitBlock \/ ReinitIsrBlock \/ ReinitClear \/ ReinitUnblock
    BY <1>0, <1>11 DEF ReinitBlock, ReinitIsrBlock, ReinitClear, ReinitUnblock
  <1>12. CASE ReinitSleep
    BY <1>0, <1>12, NextIndex DEF ReinitSleep, PushRequest, Requesters
  <1>13. CASE ReinitSlept
    BY <1>0, <1>13, SwiAssumption DEF ReinitSlept
  <1>14. CASE ReinitFlush \/ ReinitIsrFlush
    BY <1>0, <1>14 DEF ReinitFlush, ReinitIsrFlush, Flush
  <1>15. CASE UNCHANGED vars
    BY <1>0, <1>15 DEF vars
  <1>. HIDE DEF TypeOK
  <1>. QED
    BY <1>1, <1>2, <1>3, <1>4, <1>5, <1>6, <1>7, <1>8, <1>9, <1>10, <1>11, <1>12, <1>13,
       <1>14, <1>15 DEF Next, Handler, ReinitSteps

\* Taking a free slot.
LEMMA TakeKeeps ==
    ASSUME TypeOK, RingOK, NEW s \in Slots, data[s] = "none", NEW n, n # "none",
           TakeSlot(s, n), UNCHANGED <<mem, wr, rd>>
    PROVE  RingOK'
  <1>1. Pushed' = Pushed
    BY DEF Pushed
  <1>2. /\ Len(stack') = Len(stack) + 1 /\ stack'[1] = s /\ Len(stack) \in Nat
        /\ \A j \in 1..Len(stack) : stack'[j + 1] = stack[j] /\ stack[j] \in Slots
        /\ \A j \in 2..Len(stack') : j - 1 \in 1..Len(stack) /\ stack'[j] = stack[j - 1]
    BY DEF TakeSlot, TypeOK
  <1>3. /\ data'[s] # "none" /\ \A r \in Slots : r # s => data'[r] = data[r]
        /\ \A e \in Pushed : mem[e] # s /\ mem[e] \in Slots
        /\ \A j \in 1..Len(stack) : stack[j] # s
    BY <1>2 DEF TakeSlot, TypeOK, RingOK
  <1>4. \A j \in 1..Len(stack') : j = 1 \/ j \in 2..Len(stack')
    BY <1>2
  <1>5. \A i, j \in 1..Len(stack') : stack'[i] = stack'[j] => i = j
    BY <1>2, <1>3, <1>4 DEF RingOK
  <1>6. ASSUME NEW j \in 1..Len(stack')
        PROVE  data'[stack'[j]] # "none" /\ \A e \in Pushed : mem[e] # stack'[j]
    <2>1. CASE j = 1
      BY <1>2, <1>3, <2>1
    <2>2. CASE j # 1
      <3>1. j - 1 \in 1..Len(stack) /\ stack'[j] = stack[j - 1] /\ stack[j - 1] \in Slots
        BY <1>2, <1>4, <2>2
      <3>. QED
        BY <1>3, <3>1 DEF RingOK
    <2>. QED
      BY <2>1, <2>2
  <1>7. ASSUME NEW r \in Slots, data'[r] # "none"
        PROVE  (\E e \in Pushed : mem[e] = r) \/ (\E j \in 1..Len(stack') : stack'[j] = r)
    <2>1. CASE r = s
      BY <1>2, <2>1
    <2>2. ASSUME NEW j \in 1..Len(stack), stack[j] = r
          PROVE  \E i \in 1..Len(stack') : stack'[i] = r
      <3>1. j + 1 \in 1..Len(stack') /\ stack'[j + 1] = r
        BY <1>2, <2>2
      <3>. QED
        BY <3>1
    <2>. QED
      BY <1>3, <1>7, <2>1, <2>2 DEF RingOK
  <1>8. \A e \in Pushed : data'[mem[e]] # "none"
    BY <1>3 DEF RingOK
  <1>. QED
    BY <1>1, <1>3, <1>5, <1>6, <1>7, <1>8 DEF RingOK

\* Popping the oldest entry.
LEMMA PopKeeps ==
    ASSUME TypeOK, RingOK, rd # wr, PopCommit, PopFree, UNCHANGED <<wr, stack>>
    PROVE  RingOK'
  <1>1. Pushed' = Pushed \ {rd} /\ rd \in Pushed
    BY PopPushed DEF PopCommit
  <1>2. \A e \in Pushed' : mem'[e] = mem[e]
    BY <1>1 DEF PopCommit, TypeOK, Pushed
  <1>3. mem[rd] \in Slots /\ \A r \in Slots : data'[r] = IF r = mem[rd] THEN "none" ELSE data[r]
    BY <1>1 DEF PopFree, TypeOK, RingOK
  <1>4. \A j \in 1..Len(stack) : stack[j] \in Slots
    BY DEF TypeOK
  <1>. QED
    BY <1>1, <1>2, <1>3, <1>4 DEF RingOK

\* Flushing the ring when no slot is on its way.
LEMMA FlushKeeps ==
    ASSUME TypeOK, RingOK, Flush, stack = <<>>, UNCHANGED <<wr, stack>>
    PROVE  RingOK' /\ \A s \in Slots : data'[s] = "none"
  <1>1. Pushed' = {}
    BY Sizes DEF Flush, Pushed, Entries, TypeOK
  <1>2. Len(stack) = 0
    OBVIOUS
  <1>3. \A s \in Slots : data'[s] = "none"
    BY <1>2 DEF Flush, Queued, RingOK, Pushed
  <1>. QED
    BY <1>1, <1>2, <1>3 DEF RingOK
\* Every step keeps ring, stack and slots in agreement.
LEMMA NextRing == ASSUME IInv, [Next]_vars PROVE RingOK'
  <1>0. TypeOK /\ RingOK /\ EventOK /\ BlockOK
    BY DEF IInv
  <1>1. ASSUME UNCHANGED ntfVars PROVE RingOK'
    BY <1>0, <1>1 DEF ntfVars, RingOK, Pushed
  <1>2. ASSUME NEW k \in Kinds, Notify(k) PROVE RingOK'
    <2>1. CASE FreeIn(PrimaryPool) # {}
      BY <1>0, <1>2, <2>1, TakeSlotFree, TakeKeeps, SwiAssumption DEF Notify
    <2>2. CASE FreeIn(PrimaryPool) = {}
      BY <1>1, <1>2, <2>2 DEF Notify, ntfVars
    <2>. QED
      BY <2>1, <2>2
  <1>3. CASE NotifySpurious
    BY <1>0, <1>3, TakeSlotFree, TakeKeeps DEF NotifySpurious
  <1>4. CASE Push
    <2>1. /\ Pushed' = Pushed \cup {wr} /\ wr \notin Pushed /\ wr \in Entries
          /\ \A e \in Pushed : e \in Entries
      BY <1>0, <1>4, NotFull, PushPushed DEF Push, TypeOK, Pushed
    <2>2. /\ mem'[wr] = stack[1] /\ \A e \in Pushed : mem'[e] = mem[e]
          /\ stack[1] \in Slots /\ 1 \in 1..Len(stack) /\ data' = data
      BY <1>0, <1>4, <2>1 DEF Push, TypeOK
    <2>3. /\ Len(stack') = Len(stack) - 1
          /\ \A j \in 1..Len(stack') : j + 1 \in 1..Len(stack) /\ stack'[j] = stack[j + 1]
          /\ \A j \in 2..Len(stack) : j - 1 \in 1..Len(stack') /\ stack'[j - 1] = stack[j]
          /\ Len(stack) \in Nat
      BY <1>0, <1>4 DEF Push, TypeOK
    <2>4. /\ \A e \in Pushed' : mem'[e] \in Slots
          /\ \A e, f \in Pushed' : mem'[e] = mem'[f] => e = f
      BY <1>0, <2>1, <2>2 DEF RingOK
    <2>5. ASSUME NEW i \in 1..Len(stack'), NEW j \in 1..Len(stack'), stack'[i] = stack'[j]
          PROVE  i = j
      <3>1. i + 1 \in 1..Len(stack) /\ j + 1 \in 1..Len(stack) /\ stack[i + 1] = stack[j + 1]
        BY <2>3, <2>5
      <3>2. i + 1 = j + 1
        BY <1>0, <3>1 DEF RingOK
      <3>. QED
        BY <2>3, <3>2
    <2>6. ASSUME NEW j \in 1..Len(stack')
          PROVE  data'[stack'[j]] # "none" /\ \A e \in Pushed' : mem'[e] # stack'[j]
      <3>1. j + 1 \in 1..Len(stack) /\ j + 1 # 1 /\ stack'[j] = stack[j + 1]
        BY <2>3
      <3>. QED
        BY <1>0, <2>1, <2>2, <3>1 DEF RingOK
    <2>7. \A e \in Pushed' : data'[mem'[e]] # "none"
      BY <1>0, <2>1, <2>2 DEF RingOK
    <2>8. ASSUME NEW s \in Slots, data'[s] # "none"
          PROVE  (\E e \in Pushed' : mem'[e] = s) \/ (\E j \in 1..Len(stack') : stack'[j] = s)
      <3>1. CASE \E e \in Pushed : mem[e] = s
        BY <2>1, <2>2, <3>1
      <3>2. ASSUME NEW j \in 1..Len(stack), stack[j] = s
            PROVE  (\E e \in Pushed' : mem'[e] = s) \/ (\E i \in 1..Len(stack') : stack'[i] = s)
        <4>1. CASE j = 1
          BY <2>1, <2>2, <3>2, <4>1
        <4>2. CASE j # 1
          <5>1. j - 1 \in 1..Len(stack') /\ stack'[j - 1] = s
            BY <2>3, <3>2, <4>2
          <5>. QED
            BY <5>1
        <4>. QED
          BY <4>1, <4>2
      <3>. QED
        BY <1>0, <2>2, <2>8, <3>1, <3>2 DEF RingOK
    <2>. QED
      BY <2>4, <2>5, <2>6, <2>7, <2>8 DEF RingOK
  <1>5. CASE Fetch
    BY <1>0, <1>1, <1>5, PopKeeps DEF Fetch, ntfVars
  <1>6. CASE CalloutEnd
    BY <1>0, <1>6, PopKeeps DEF CalloutEnd, EventOK
  <1>7. CASE ReinitFlush \/ ReinitIsrFlush
    BY <1>0, <1>7, FlushKeeps DEF ReinitFlush, ReinitIsrFlush, CanRun, BlockOK
  <1>8. CASE \/ \E k \in Kinds : TakeUp(k)
             \/ \E c \in Requesters : Request(c) \/ Return(c)
             \/ SwiEnter \/ NtfDrained \/ ReqCheck \/ ReqServe \/ ReqDrained
             \/ ReinitBlock \/ ReinitIsrBlock \/ ReinitSleep \/ ReinitSlept
             \/ ReinitClear \/ ReinitUnblock
    BY <1>1, <1>8 DEF TakeUp, Request, Return, SwiEnter, NtfDrained, ReqCheck, ReqServe,
       ReqDrained, ReinitBlock, ReinitIsrBlock, ReinitSleep, ReinitSlept, ReinitClear,
       ReinitUnblock
  <1>9. CASE UNCHANGED vars
    BY <1>1, <1>9 DEF vars
  <1>. QED
    BY <1>2, <1>3, <1>4, <1>5, <1>6, <1>7, <1>8, <1>9 DEF Next, Handler, ReinitSteps

\* Every step keeps outcomes apart: the primary pool holds nothing else, and the
\* outcome of a source is in one slot or told, never both.
LEMMA NextOutcome == ASSUME IInv, [Next]_vars PROVE PoolOK' /\ OutcomeOK'
  <1>0. TypeOK /\ RingOK /\ EventOK /\ BlockOK /\ PoolOK /\ OutcomeOK
    BY DEF IInv
  <1>1. ASSUME UNCHANGED data, told' \subseteq told PROVE PoolOK' /\ OutcomeOK'
    BY <1>0, <1>1 DEF PoolOK, OutcomeOK
  <1>2. ASSUME NEW k \in Kinds, Notify(k) PROVE PoolOK' /\ OutcomeOK'
    <2>1. CASE FreeIn(PrimaryPool) # {}
      <3>1. PICK s \in PrimaryPool : /\ s \in Slots /\ data[s] = "none"
                                     /\ data' = [data EXCEPT ![s] = k]
        BY <1>0, <1>2, <2>1, TakeSlotFree DEF Notify, TakeSlot
      <3>2. \A r \in Slots : data'[r] = IF r = s THEN k ELSE data[r]
        BY <1>0, <3>1 DEF TypeOK
      <3>3. PoolOK'
        BY <1>0, <3>2, Sizes, SwiAssumption DEF PoolOK
      <3>4. ~Reissue => k \notin told /\ \A r \in Slots : data[r] # k
        BY <1>2 DEF Notify, InProgress
      <3>5. OutcomeOK'
        BY <1>0, <1>2, <3>2, <3>4 DEF OutcomeOK, Notify
      <3>. QED
        BY <3>3, <3>5
    <2>2. CASE FreeIn(PrimaryPool) = {}
      BY <1>1, <1>2, <2>2 DEF Notify
    <2>. QED
      BY <2>1, <2>2
  <1>3. CASE NotifySpurious
    <2>1. PICK s \in SecondaryPool : /\ s \in Slots /\ data[s] = "none"
                                     /\ data' = [data EXCEPT ![s] = "spurious"]
      BY <1>0, <1>3, TakeSlotFree DEF NotifySpurious, TakeSlot
    <2>2. \A r \in Slots : data'[r] = IF r = s THEN "spurious" ELSE data[r]
      BY <1>0, <2>1 DEF TypeOK
    <2>. QED
      BY <1>0, <1>3, <2>1, <2>2, Sizes, SwiAssumption DEF PoolOK, OutcomeOK, NotifySpurious
  <1>4. ASSUME rd # wr, PopFree
        PROVE  /\ mem[rd] \in Slots
               /\ \A r \in Slots : data'[r] = IF r = mem[rd] THEN "none" ELSE data[r]
    <2>1. rd \in Pushed
      BY <1>0, <1>4 DEF TypeOK, Pushed, Entries
    <2>. QED
      BY <1>0, <1>4, <2>1 DEF TypeOK, PopFree, RingOK
  <1>5. CASE Fetch
    <2>1. CASE blocked
      BY <1>0, <1>4, <1>5, <2>1, Sizes, SwiAssumption DEF Fetch, PoolOK, OutcomeOK
    <2>2. CASE ~blocked
      BY <1>1, <1>5, <2>2 DEF Fetch
    <2>. QED
      BY <2>1, <2>2
  <1>6. CASE CalloutEnd
    <2>1. mem[rd] \in Slots /\ \A r \in Slots : data'[r] = IF r = mem[rd] THEN "none" ELSE data[r]
      BY <1>0, <1>4, <1>6 DEF CalloutEnd, EventOK
    <2>2. ~Reissue => told' = told \cup ({data[mem[rd]]} \cap Kinds)
      BY <1>6 DEF CalloutEnd
    <2>3. PoolOK'
      BY <1>0, <2>1, Sizes DEF PoolOK
    <2>4. OutcomeOK'
      BY <1>0, <2>1, <2>2, SwiAssumption DEF OutcomeOK
    <2>. QED
      BY <2>3, <2>4
  <1>7. CASE ReinitFlush \/ ReinitIsrFlush
    <2>1. \A s \in Slots : data'[s] = "none"
      BY <1>0, <1>7, FlushKeeps DEF ReinitFlush, ReinitIsrFlush, CanRun, BlockOK
    <2>. QED
      BY <2>1, Sizes, SwiAssumption DEF PoolOK, OutcomeOK
  <1>8. CASE \/ \E k \in Kinds : TakeUp(k)
             \/ \E c \in Requesters : Request(c) \/ Return(c)
             \/ Push \/ SwiEnter \/ NtfDrained \/ ReqCheck \/ ReqServe \/ ReqDrained
             \/ ReinitBlock \/ ReinitIsrBlock \/ ReinitSleep \/ ReinitSlept
             \/ ReinitClear \/ ReinitUnblock
    BY <1>1, <1>8 DEF TakeUp, Request, Return, Push, SwiEnter, NtfDrained, ReqCheck,
       ReqServe, ReqDrained, ReinitBlock, ReinitIsrBlock, ReinitSleep, ReinitSlept,
       ReinitClear, ReinitUnblock, ntfVars
  <1>9. CASE UNCHANGED vars
    BY <1>1, <1>9 DEF vars, ntfVars
  <1>. QED
    BY <1>2, <1>3, <1>5, <1>6, <1>7, <1>8, <1>9 DEF Next, Handler, ReinitSteps

\* No step loses the interrupt that a queued notification waits for, and none
\* starts a notification while they are blocked.
LEMMA NextEvents == ASSUME IInv, [Next]_vars PROVE EventOK' /\ BlockOK'
  <1>. USE DEF EventOK, BlockOK, NoLostWakeup, CanRun, ntfVars, reqVars
  <1>0. TypeOK /\ EventOK /\ BlockOK
    BY DEF IInv
  <1>1. ASSUME NEW k \in Kinds, Notify(k) PROVE EventOK' /\ BlockOK'
    BY <1>0, <1>1 DEF Notify
  <1>2. CASE NotifySpurious
    BY <1>0, <1>2 DEF NotifySpurious
  <1>3. CASE Push
    BY <1>0, <1>3, NotFull DEF Push, Trigger, IInv, QueueIsFull
  <1>4. CASE reinit # "isr" /\ (SwiEnter \/ Fetch \/ CalloutEnd \/ NtfDrained)
    <2>1. CASE SwiEnter
      BY <1>0, <2>1 DEF SwiEnter
    <2>2. CASE reinit # "isr" /\ Fetch
      BY <1>0, <2>2 DEF Fetch
    <2>3. CASE CalloutEnd
      BY <1>0, <2>3 DEF CalloutEnd
    <2>4. CASE NtfDrained
      BY <1>0, <2>4 DEF NtfDrained
    <2>. QED
      BY <1>4, <2>1, <2>2, <2>3, <2>4
  <1>5. CASE \/ ReqCheck \/ ReqServe \/ ReqDrained
             \/ \E k \in Kinds : TakeUp(k)
             \/ \E c \in Requesters : Request(c) \/ Return(c)
    BY <1>0, <1>5 DEF ReqCheck, ReqServe, ReqDrained, TakeUp, Request, Return
  <1>6. CASE ReinitFlush \/ ReinitIsrFlush
    BY <1>0, <1>6 DEF ReinitFlush, ReinitIsrFlush, Flush
  <1>7. CASE ReinitSlept
    BY <1>0, <1>7, SwiAssumption DEF ReinitSlept
  <1>8. CASE \/ ReinitBlock \/ ReinitIsrBlock \/ ReinitSleep
             \/ ReinitClear \/ ReinitUnblock
    BY <1>0, <1>8 DEF ReinitBlock, ReinitIsrBlock, ReinitSleep, ReinitClear, ReinitUnblock
  <1>9. CASE UNCHANGED vars
    BY <1>0, <1>9 DEF vars
  <1>. HIDE DEF EventOK, BlockOK
  <1>. QED
    BY <1>1, <1>2, <1>3, <1>4, <1>5, <1>6, <1>7, <1>8, <1>9 DEF Next, Handler, ReinitSteps

\* A request is made when none is in the ring, and its result is written before
\* the requester goes on.
LEMMA NextRequests == ASSUME IInv, [Next]_vars PROVE ReqOK'
  <1>. USE DEF ReqOK, CanRun, reqVars, Requesters
  <1>0. TypeOK /\ ReqOK
    BY DEF IInv
  <1>1. ASSUME UNCHANGED <<reqVars, reqEvent, swi, reinit>> PROVE ReqOK'
    BY <1>0, <1>1
  <1>2. ASSUME NEW c \in Requesters, CanRun(c), PushRequest(c), UNCHANGED <<rrd, swi>>,
               reinit' \in {reinit, "sleeping"},
               reinit' = "sleeping" => c = "thread" \/ reinit = "sleeping"
        PROVE  ReqOK'
    <2>1. rrd = rwr /\ rwr' = IncrementModulo(rrd, ReqQueueSize) /\ rwr' # rrd
      BY <1>0, <1>2, NextIndex DEF PushRequest, TypeOK
    <2>2. /\ rmem'[rrd] = c /\ wait'[c] = "waiting" /\ reqEvent' = TRUE
          /\ \A d \in Requesters : d # c => wait'[d] = wait[d]
      BY <1>0, <1>2, <2>1 DEF PushRequest, TypeOK
    <2>. QED
      BY <1>0, <1>2, <2>1, <2>2
  <1>3. CASE ReqServe
    <2>1. rmem[rrd] \in Requesters /\ rwr = IncrementModulo(rrd, ReqQueueSize)
      BY <1>0, <1>3 DEF ReqServe
    <2>2. /\ rrd' = rwr /\ rwr' = rwr /\ wait'[rmem[rrd]] = "done"
          /\ \A d \in Requesters : d # rmem[rrd] => wait'[d] = wait[d]
      BY <1>0, <1>3, <2>1 DEF ReqServe, TypeOK
    <2>. QED
      BY <1>0, <1>3, <2>1, <2>2 DEF ReqServe
  <1>4. CASE SwiEnter \/ Fetch \/ CalloutEnd \/ NtfDrained \/ ReqCheck \/ ReqDrained
    BY <1>0, <1>4 DEF SwiEnter, Fetch, CalloutEnd, NtfDrained, ReqCheck, ReqDrained
  <1>5. ASSUME NEW c \in Requesters, Request(c) PROVE ReqOK'
    BY <1>2, <1>5 DEF Request
  <1>6. CASE ReinitSleep
    BY <1>2, <1>6 DEF ReinitSleep
  <1>7. ASSUME NEW c \in Requesters, Return(c) PROVE ReqOK'
    BY <1>0, <1>7 DEF Return, TypeOK
  <1>8. CASE ReinitSlept
    BY <1>0, <1>8 DEF ReinitSlept, TypeOK
  <1>9. CASE \/ ReinitBlock \/ ReinitIsrBlock \/ ReinitFlush \/ ReinitIsrFlush
             \/ ReinitClear \/ ReinitUnblock
    BY <1>0, <1>9 DEF ReinitBlock, ReinitIsrBlock, ReinitFlush, ReinitIsrFlush,
       ReinitClear, ReinitUnblock
  <1>10. CASE Push \/ NotifySpurious \/ \E k \in Kinds : Notify(k) \/ TakeUp(k)
    BY <1>1, <1>10 DEF Push, NotifySpurious, Notify, TakeUp
  <1>11. CASE UNCHANGED vars
    BY <1>1, <1>11 DEF vars
  <1>. HIDE DEF ReqOK, Requesters
  <1>. QED
    BY <1>3, <1>4, <1>5, <1>6, <1>7, <1>8, <1>9, <1>10, <1>11 DEF Next, Handler, ReinitSteps

\* No step fails an assertion of the driver.
LEMMA NextAsserts == ASSUME IInv, [Next]_vars PROVE AssertsOK'
  <1>. SUFFICES ASSUME ~Reissue PROVE assertsHold' = TRUE
    BY DEF AssertsOK
  <1>0. TypeOK /\ RingOK /\ PoolOK /\ OutcomeOK /\ ReqOK /\ assertsHold = TRUE
    BY DEF IInv, AssertsOK, TypeOK
  <1>1. ASSUME NEW k \in Kinds, Notify(k) PROVE assertsHold' = TRUE
    BY <1>0, <1>1, SlotFound DEF Notify, Assert
  <1>2. CASE Push
    BY <1>0, <1>2, NotFull DEF Push, Assert
  <1>3. ASSUME NEW c \in Requesters, CanRun(c), PushRequest(c) PROVE assertsHold' = TRUE
    <2>1. rrd = rwr /\ rrd \in ReqEntries
      BY <1>0, <1>3 DEF CanRun, ReqOK, TypeOK
    <2>2. ~QueueIsFull(rwr, rrd, ReqQueueSize)
      BY <2>1, NextIndex DEF QueueIsFull
    <2>. QED
      BY <1>0, <1>3, <2>2 DEF PushRequest, Assert
  <1>4. ASSUME NEW c \in Requesters, CanRun(c), wait[c] # "idle" PROVE wait[c] = "done"
    BY <1>0, <1>4 DEF CanRun, ReqOK, TypeOK
  <1>5. CASE \E c \in Requesters : Return(c)
    BY <1>0, <1>4, <1>5 DEF Return, Assert
  <1>6. CASE ReinitSlept
    <2>1. wait["thread"] = "done"
      BY <1>0, <1>4, <1>6 DEF ReinitSlept, ReqOK, Requesters
    <2>. QED
      BY <1>0, <1>6, <2>1 DEF ReinitSlept, Assert
  <1>7. CASE ReinitSleep \/ \E c \in Requesters : Request(c)
    BY <1>3, <1>7 DEF ReinitSleep, Request, Requesters
  <1>8. CASE \/ NotifySpurious \/ Handler \/ \E k \in Kinds : TakeUp(k)
             \/ ReinitBlock \/ ReinitIsrBlock \/ ReinitFlush \/ ReinitIsrFlush
             \/ ReinitClear \/ ReinitUnblock \/ UNCHANGED vars
    BY <1>0, <1>8 DEF NotifySpurious, Handler, SwiEnter, Fetch, CalloutEnd, NtfDrained,
       ReqCheck, ReqServe, ReqDrained, TakeUp, ReinitBlock, ReinitIsrBlock, ReinitFlush,
       ReinitIsrFlush, ReinitClear, ReinitUnblock, vars
  <1>. QED
    BY <1>1, <1>2, <1>5, <1>6, <1>7, <1>8 DEF Next, ReinitSteps

\* The parts together are inductive.
LEMMA NextIInv == IInv /\ [Next]_vars => IInv'
  BY NextTypes, NextRing, NextOutcome, NextEvents, NextRequests, NextAsserts DEF IInv

-----------------------------------------------------------------------------
\* The inductive invariant holds after every step of notifiers, handler,
\* requesters and reinitialisation.
THEOREM SwiInvariant == Spec => []IInv
  BY InitIInv, NextIInv, PTL DEF Spec

\* As long as callouts start no operation and free no buffer themselves, every
\* outcome finds a slot of the primary pool, neither ring overflows, and a
\* requester finds its result written: no NRF_802154_ASSERT of notifications,
\* requests and queues fails.
THEOREM SwiAsserts == ~Reissue => (Spec => []AssertsHold)
  <1>1. ASSUME ~Reissue PROVE Spec => []AssertsHold
    <2>1. IInv => AssertsHold
      BY <1>1 DEF IInv, AssertsOK, AssertsHold
    <2>. QED
      BY <2>1, SwiInvariant, PTL
  <1>. QED
    BY <1>1

\* No slot leaks and none is reused early, and a queued notification always has
\* the interrupt that will deliver it, whatever preempts what.
THEOREM SwiQueue == Spec => []QueueConsistent
  <1>1. IInv => QueueConsistent
    <2>. SUFFICES ASSUME IInv PROVE QueueConsistent
      OBVIOUS
    <2>. DEFINE f == [e \in Pushed |-> mem[e]]
    <2>1. TypeOK /\ RingOK /\ NoLostWakeup
      BY DEF IInv, EventOK
    <2>2. DOMAIN stack = 1..Len(stack) /\ \A j \in 1..Len(stack) : stack[j] \in Slots
      BY <2>1 DEF TypeOK
    <2>3. Queued = {mem[e] : e \in Pushed}
      BY DEF Queued, Pushed
    <2>4. IsFiniteSet(Pushed)
      <3>1. 0 \in Int /\ NTF_QUEUE_SIZE - 1 \in Int
        BY Sizes
      <3>2. IsFiniteSet(Entries)
        BY <3>1, FS_Interval DEF Entries
      <3>. QED
        BY <3>2, FS_Subset DEF Pushed
    <2>5. f \in Bijection(Pushed, Queued)
      <3>1. f \in [Pushed -> Queued] /\ \A t \in Queued : \E e \in Pushed : f[e] = t
        BY <2>3
      <3>2. \A a, b \in Pushed : f[a] = f[b] => a = b
        BY <2>1 DEF RingOK
      <3>. HIDE DEF f
      <3>. QED
        BY <3>1, <3>2 DEF Bijection, Injection, Surjection, IsInjective
    <2>6. Cardinality(Queued) = Cardinality(Pushed)
      <3>1. ExistsBijection(Pushed, Queued)
        BY <2>5 DEF ExistsBijection
      <3>. QED
        BY <2>4, <3>1, FS_Bijection
    <2>7. {s \in Slots : data[s] # "none"} = Queued \cup {stack[j] : j \in DOMAIN stack}
      BY <2>1, <2>2, <2>3 DEF RingOK
    <2>8. Queued \cap {stack[j] : j \in DOMAIN stack} = {}
      BY <2>1, <2>2, <2>3 DEF RingOK
    <2>9. SlotsAccounted
      BY <2>6, <2>7, <2>8 DEF SlotsAccounted, Pushed
    <2>. QED
      BY <2>1, <2>9 DEF QueueConsistent
  <1>. QED
    BY <1>1, SwiInvariant, PTL

-----------------------------------------------------------------------------
(* The ring and the pools implement NotificationService.                    *)

\* Remainders of what is less than twice the divisor.
LEMMA ModSmall ==
    ASSUME NEW n \in Nat, n >= 1, NEW a \in 0..(2 * n - 1)
    PROVE  a % n = IF a < n THEN a ELSE a - n
  OBVIOUS

\* The j-th oldest entry of the ring.
Entry(j) == IF rd + j - 1 < NTF_QUEUE_SIZE THEN rd + j - 1 ELSE rd + j - 1 - NTF_QUEUE_SIZE

\* How many entries the ring holds.
Count == IF rd <= wr THEN wr - rd ELSE wr - rd + NTF_QUEUE_SIZE

\* The contents of the ring, without remainders.
ContentsOK ==
    /\ Count \in Nat /\ Count < NTF_QUEUE_SIZE
    /\ Contents = [j \in 1..Count |-> data[mem[Entry(j)]]]
    /\ \A j \in 1..Count : Entry(j) \in Pushed

\* It is what the remainders of the ring's indices amount to.
LEMMA ContentsIs == TypeOK => ContentsOK
  <1>. SUFFICES ASSUME TypeOK PROVE ContentsOK
    OBVIOUS
  <1>1. /\ rd \in Nat /\ wr \in Nat /\ rd < NTF_QUEUE_SIZE /\ wr < NTF_QUEUE_SIZE
        /\ NTF_QUEUE_SIZE \in Nat /\ NTF_QUEUE_SIZE >= 1
    BY Sizes DEF TypeOK, Entries
  <1>2. QueueLength = Count
    <2>. DEFINE a == wr - rd + NTF_QUEUE_SIZE
    <2>1. a \in 0..(2 * NTF_QUEUE_SIZE - 1)
      BY <1>1
    <2>2. a % NTF_QUEUE_SIZE = IF a < NTF_QUEUE_SIZE THEN a ELSE a - NTF_QUEUE_SIZE
      <3>. HIDE DEF a
      <3>. QED
        BY <1>1, <2>1, ModSmall
    <2>. QED
      BY <1>1, <2>2 DEF Count, QueueLength
  <1>3. Count \in Nat /\ Count < NTF_QUEUE_SIZE
    BY <1>1 DEF Count
  <1>4. ASSUME NEW j \in 1..Count
        PROVE  (rd + j - 1) % NTF_QUEUE_SIZE = Entry(j) /\ Entry(j) \in Pushed
    <2>. DEFINE a == rd + j - 1
    <2>1. a \in 0..(2 * NTF_QUEUE_SIZE - 1)
      BY <1>1, <1>3
    <2>2. a % NTF_QUEUE_SIZE = Entry(j)
      <3>1. a % NTF_QUEUE_SIZE = IF a < NTF_QUEUE_SIZE THEN a ELSE a - NTF_QUEUE_SIZE
        <4>. HIDE DEF a
        <4>. QED
          BY <1>1, <2>1, ModSmall
      <3>2. Entry(j) = IF a < NTF_QUEUE_SIZE THEN a ELSE a - NTF_QUEUE_SIZE
        BY <1>1, <1>3 DEF Entry
      <3>. HIDE DEF a
      <3>. QED
        BY <3>1, <3>2
    <2>3. Entry(j) \in Pushed
      BY <1>1 DEF Entry, Count, Pushed, Entries
    <2>. QED
      BY <2>2, <2>3
  <1>. QED
    BY <1>2, <1>3, <1>4 DEF Contents, ContentsOK
\* The contents do not change with slots that are not in the ring.
LEMMA SameContents ==
    ASSUME TypeOK, TypeOK', UNCHANGED <<mem, wr, rd>>,
           \A e \in Pushed : data'[mem[e]] = data[mem[e]]
    PROVE  Contents' = Contents
  <1>1. ContentsOK
    BY ContentsIs
  <1>2. ContentsOK'
    BY ContentsIs, PTL
  <1>3. Count' = Count /\ \A j \in 1..Count : Entry(j)' = Entry(j)
    BY DEF Count, Entry
  <1>. QED
    BY <1>1, <1>2, <1>3 DEF ContentsOK


\* Taking the oldest away and adding the newest commute.
LEMMA TailAppend ==
    ASSUME NEW S, NEW q \in Seq(S), q # <<>>, NEW n \in S
    PROVE  Tail(Append(q, n)) = Append(Tail(q), n)
  OBVIOUS

\* The contents are a sequence, with the entry at the read index its head.
LEMMA ContentsSeq ==
    ASSUME TypeOK, RingOK
    PROVE  /\ Contents \in Seq(Kinds \cup {"spurious", "none"}) /\ Len(Contents) = Count
           /\ rd # wr => Contents # <<>> /\ Head(Contents) = data[mem[rd]]
           /\ SubSeq(Contents, Len(Contents) + 1, Len(Contents)) = <<>>
  <1>1. ContentsOK
    BY ContentsIs
  <1>2. \A j \in 1..Count : Contents[j] \in Kinds \cup {"spurious", "none"}
    BY <1>1 DEF ContentsOK, RingOK, TypeOK
  <1>3. Contents \in Seq(Kinds \cup {"spurious", "none"}) /\ Len(Contents) = Count
    BY <1>1, <1>2 DEF ContentsOK
  <1>4. rd # wr => Count >= 1 /\ Entry(1) = rd
    BY Sizes DEF Count, Entry, TypeOK, Entries
  <1>5. rd # wr => Contents # <<>> /\ Head(Contents) = data[mem[rd]]
    BY <1>1, <1>3, <1>4 DEF ContentsOK
  <1>. QED
    BY <1>1, <1>3, <1>5 DEF ContentsOK

\* Popping takes the oldest of the contents away.
LEMMA PopContents ==
    ASSUME TypeOK, TypeOK', RingOK, rd # wr, PopCommit, PopFree, UNCHANGED wr
    PROVE  /\ Contents' = Tail(Contents) /\ Contents # <<>>
           /\ Head(Contents) = data[mem[rd]]
  <1>1. ContentsOK /\ ContentsOK'
    BY ContentsIs, PTL
  <1>2. /\ rd \in Nat /\ wr \in Nat /\ rd < NTF_QUEUE_SIZE /\ wr < NTF_QUEUE_SIZE
        /\ NTF_QUEUE_SIZE \in Nat /\ NTF_QUEUE_SIZE >= 1
    BY Sizes DEF TypeOK, Entries
  <1>3. Pushed' = Pushed \ {rd} /\ rd \in Pushed
    BY PopPushed DEF PopCommit
  <1>4. ASSUME NEW e \in Pushed, e # rd PROVE data'[mem'[e]] = data[mem[e]]
    <2>1. mem'[e] = mem[e] /\ mem[e] \in Slots /\ mem[e] # mem[rd]
      BY <1>3, <1>4 DEF PopCommit, TypeOK, RingOK, Pushed
    <2>. QED
      BY <2>1 DEF PopFree, TypeOK
  <1>5. /\ Count' = Count - 1 /\ Count >= 1 /\ Entry(1) = rd
        /\ \A j \in 1..Count' : Entry(j)' = Entry(j + 1) /\ Entry(j + 1) # rd
    BY <1>2 DEF Count, Entry, PopCommit, IncrementModulo
  <1>6. ASSUME NEW j \in 1..Count' PROVE Contents'[j] = Contents[j + 1]
    <2>1. j + 1 \in 1..Count
      BY <1>1, <1>5 DEF ContentsOK
    <2>. QED
      BY <1>1, <1>4, <1>5, <2>1 DEF ContentsOK
  <1>7. /\ Len(Contents) = Count /\ Contents \in Seq(Kinds \cup {"spurious", "none"})
        /\ Tail(Contents) = [j \in 1..(Count - 1) |-> Contents[j + 1]]
    <2>1. \A j \in 1..Count : Contents[j] \in Kinds \cup {"spurious", "none"}
      BY <1>1 DEF ContentsOK, RingOK, TypeOK
    <2>. QED
      BY <1>1, <1>5, <2>1 DEF ContentsOK
  <1>. QED
    BY <1>1, <1>5, <1>6, <1>7 DEF ContentsOK

\* Pushing appends to the contents.
LEMMA PushContents ==
    ASSUME TypeOK, TypeOK', RingOK, Push
    PROVE  Contents' = Append(Contents, data[Head(stack)])
  <1>1. ContentsOK /\ ContentsOK'
    BY ContentsIs, PTL
  <1>2. /\ rd \in Nat /\ wr \in Nat /\ rd < NTF_QUEUE_SIZE /\ wr < NTF_QUEUE_SIZE
        /\ NTF_QUEUE_SIZE \in Nat /\ NTF_QUEUE_SIZE >= 1
    BY Sizes DEF TypeOK, Entries
  <1>3. ~QueueIsFull(wr, rd, NTF_QUEUE_SIZE) /\ wr \notin Pushed
    BY NotFull, PushPushed DEF Push
  <1>4. /\ Count' = Count + 1 /\ Entry(Count + 1) = wr
        /\ \A j \in 1..Count' : Entry(j)' = Entry(j)
    BY <1>2, <1>3 DEF Count, Entry, Push, IncrementModulo, QueueIsFull
  <1>5. /\ mem'[wr] = Head(stack) /\ data' = data
        /\ \A e \in Pushed : mem'[e] = mem[e]
    BY <1>3 DEF Push, TypeOK, Pushed
  <1>6. \A j \in 1..Count : Contents'[j] = Contents[j]
    BY <1>1, <1>4, <1>5 DEF ContentsOK
  <1>7. Contents'[Count + 1] = data[Head(stack)]
    BY <1>1, <1>4, <1>5 DEF ContentsOK
  <1>8. /\ Len(Contents) = Count
        /\ Append(Contents, data[Head(stack)]) =
               [j \in 1..(Count + 1) |-> IF j = Count + 1 THEN data[Head(stack)] ELSE Contents[j]]
    <2>1. \A j \in 1..Count : Contents[j] \in Kinds \cup {"spurious", "none"}
      BY <1>1 DEF ContentsOK, RingOK, TypeOK
    <2>. QED
      BY <1>1, <2>1 DEF ContentsOK
  <1>9. \A j \in 1..(Count + 1) : j \in 1..Count \/ j = Count + 1
    BY <1>1 DEF ContentsOK
  <1>10. ASSUME NEW j \in 1..(Count + 1)
         PROVE  Contents'[j] = IF j = Count + 1 THEN data[Head(stack)] ELSE Contents[j]
    BY <1>6, <1>7, <1>9
  <1>11. Contents' = [j \in 1..(Count + 1) |-> Contents'[j]]
    BY <1>1, <1>4 DEF ContentsOK
  <1>. QED
    BY <1>8, <1>10, <1>11
-----------------------------------------------------------------------------
\* A step that changes neither the contents nor the callout is one the service
\* does not see, or the start or end of a reinitialisation.
LEMMA Unseen ==
    ASSUME Contents' = Contents, data'[mem'[rd']] = data[mem[rd]],
           swi' = "callout" <=> swi = "callout", blocked' \in BOOLEAN
    PROVE  Service!Next
  BY DEF Service!Next, Service!Reinit

\* Every step of the driver is a step of the service, or none.
LEMMA StepRefines == ASSUME IInv, IInv', [Next]_vars PROVE [Service!Next]_Service!vars
  <1>0. /\ TypeOK /\ TypeOK' /\ RingOK /\ EventOK /\ BlockOK
    BY DEF IInv
  <1>1. ASSUME UNCHANGED <<data, mem, wr, rd>>, swi' = "callout" <=> swi = "callout"
        PROVE  Service!Next
    BY <1>0, <1>1, SameContents, Unseen DEF TypeOK
  <1>2. \A e \in Pushed : mem[e] \in Slots /\ data[mem[e]] # "none"
    BY <1>0 DEF RingOK
  <1>3. ASSUME NEW s \in Slots, NEW n, data[s] = "none", data' = [data EXCEPT ![s] = n],
               UNCHANGED <<mem, wr, rd, swi, blocked>>
        PROVE  Service!Next
    <2>1. \A e \in Pushed : data'[mem[e]] = data[mem[e]]
      BY <1>0, <1>2, <1>3 DEF TypeOK
    <2>2. swi = "callout" => rd \in Pushed
      BY <1>0, Sizes DEF EventOK, TypeOK, Pushed, Entries
    <2>3. Contents' = Contents
      BY <1>0, <1>3, <2>1, SameContents
    <2>. QED
      BY <1>0, <1>3, <2>1, <2>2, <2>3 DEF Service!Next, Service!Reinit, TypeOK
  <1>4. ASSUME NEW k \in Kinds, Notify(k) PROVE Service!Next
    <2>1. CASE FreeIn(PrimaryPool) # {}
      BY <1>0, <1>3, <1>4, <2>1, TakeSlotFree DEF Notify, TakeSlot
    <2>2. CASE FreeIn(PrimaryPool) = {}
      BY <1>1, <1>4, <2>2 DEF Notify
    <2>. QED
      BY <2>1, <2>2
  <1>5. CASE NotifySpurious
    BY <1>0, <1>3, <1>5, TakeSlotFree DEF NotifySpurious, TakeSlot
  <1>6. CASE Push
    <2>. DEFINE n == data[Head(stack)]
    <2>1. Contents' = Append(Contents, n)
      BY <1>0, <1>6, PushContents
    <2>2. n \in Kinds \cup {"spurious"} /\ ~blocked /\ UNCHANGED <<blocked, swi, rd, data>>
      <3>1. 1 \in 1..Len(stack) /\ Head(stack) = stack[1] /\ stack[1] \in Slots
        BY <1>0, <1>6 DEF Push, TypeOK
      <3>. QED
        BY <1>0, <1>6, <3>1 DEF Push, TypeOK, RingOK, BlockOK
    <2>3. swi = "callout" => data'[mem'[rd]] = data[mem[rd]]
      BY <1>0, <1>6 DEF EventOK, Push, TypeOK
    <2>4. swi = "callout" => Tail(Append(Contents, n)) = Append(Tail(Contents), n)
      BY <1>0, <2>2, TailAppend, ContentsSeq DEF EventOK
    <2>. QED
      BY <2>1, <2>2, <2>3, <2>4 DEF Service!Next, Service!Accept
  <1>7. CASE Fetch /\ reinit # "isr"
    <2>1. ~blocked /\ rd # wr /\ swi = "ntf"
      BY <1>0, <1>7 DEF Fetch, BlockOK
    <2>2. swi' = "callout" /\ UNCHANGED <<data, mem, rd, wr, blocked>>
      BY <1>7, <2>1 DEF Fetch
    <2>3. Contents' = Contents
      BY <1>0, <2>2, SameContents
    <2>4. Contents # <<>> /\ Head(Contents) = data[mem[rd]]
      BY <1>0, <2>1, ContentsSeq
    <2>. QED
      BY <2>1, <2>2, <2>3, <2>4 DEF Service!Next, Service!Deliver
  <1>8. CASE CalloutEnd
    <2>1. Contents' = Tail(Contents)
      BY <1>0, <1>8, PopContents DEF CalloutEnd, EventOK
    <2>. QED
      BY <1>8, <2>1 DEF CalloutEnd, Service!Next, Service!Delivered
  <1>9. CASE ReinitFlush \/ ReinitIsrFlush
    <2>1. /\ swi # "callout" /\ blocked /\ blocked' \in BOOLEAN /\ UNCHANGED <<swi, wr>> /\ Flush
      BY <1>0, <1>9 DEF ReinitFlush, ReinitIsrFlush, CanRun, BlockOK, EventOK, TypeOK
    <2>2. Contents' = <<>>
      <3>1. ContentsOK'
        BY <1>0, ContentsIs, PTL
      <3>2. Count' = 0
        BY <1>0, <2>1, Sizes DEF Flush, Count, TypeOK, Entries
      <3>. QED
        BY <3>1, <3>2 DEF ContentsOK
    <2>3. Len(Contents) \in Nat /\ SubSeq(Contents, Len(Contents) + 1, Len(Contents)) = <<>>
      BY <1>0, ContentsSeq
    <2>. QED
      BY <2>1, <2>2, <2>3 DEF Service!Next, Service!Discard
  <1>10. CASE \/ \E k \in Kinds : TakeUp(k)
              \/ \E c \in Requesters : Request(c) \/ Return(c)
              \/ SwiEnter \/ NtfDrained \/ ReqCheck \/ ReqServe \/ ReqDrained
              \/ ReinitBlock \/ ReinitIsrBlock \/ ReinitSleep \/ ReinitSlept
              \/ ReinitClear \/ ReinitUnblock
    BY <1>1, <1>10 DEF TakeUp, Request, Return, SwiEnter, NtfDrained, ReqCheck, ReqServe,
       ReqDrained, ReinitBlock, ReinitIsrBlock, ReinitSleep, ReinitSlept, ReinitClear,
       ReinitUnblock, ntfVars
  <1>11. CASE UNCHANGED vars
    BY <1>1, <1>11 DEF vars, ntfVars
  <1>. QED
    BY <1>4, <1>5, <1>6, <1>7, <1>8, <1>9, <1>10, <1>11 DEF Next, Handler, ReinitSteps

\* Every notification accepted is delivered once, unaltered and in the order of
\* acceptance: ring, pools, interrupt and reinitialisation implement the queue
\* that NotificationService describes.
THEOREM SwiDelivers == Spec => DeliversInOrder
  <1>1. Init => Service!Init
    <2>. SUFFICES ASSUME Init PROVE Service!Init
      OBVIOUS
    <2>1. TypeOK
      BY InitIInv DEF IInv
    <2>2. Contents = <<>>
      BY <2>1, ContentsIs DEF ContentsOK, Count, Init
    <2>. QED
      BY <2>2 DEF Init, Service!Init
  <1>2. IInv /\ IInv' /\ [Next]_vars => [Service!Next]_Service!vars
    BY StepRefines
  <1>. QED
    BY <1>1, <1>2, SwiInvariant, PTL DEF Spec, DeliversInOrder, Service!Spec
=============================================================================
