------------------------ MODULE SerializationProofs ------------------------
EXTENDS Serialization, FiniteSetTheorems, WellFoundedInduction, TLAPS
(***************************************************************************)
(* Proofs about Serialization, for any threads and frames and any sizes of *)
(* the pools.                                                              *)
(*                                                                         *)
(* The argument: the notifier admits one request at a time, so what is on  *)
(* the links belongs to the call that owns it (OwnerOK); a frame is in the *)
(* request, in the driver or in its outcome and nowhere else (PlacesOK,    *)
(* FrameOK), a receive buffer in a message, in a slot or in the request to *)
(* free it (HoldersOK, FreeOK).  Neither pool can then run out, by the     *)
(* pigeonhole principle: what is to be stored is in no slot yet.           *)
(***************************************************************************)

\* The hypothesis, the setting of the passing run: responses come in time, the
\* decoder of the application core does not preempt a call that frees a buffer, and
\* there is a handle for each frame.  Callouts preempt the decoder of the network
\* core anywhere.  With LateResponses or HostPreempted TLC finds one of the
\* invariants below violated.
Orderly ==
    /\ ~LateResponses /\ ~HostPreempted
    /\ Cardinality(Frames) <= TX_BUFFERS

-----------------------------------------------------------------------------
\* TypeOK without the sizes of the maps.
Types ==
    /\ call \in [Threads -> Calls \cup {Idle}]
    /\ app \in [Frames -> {"idle", "calling", "calledOut", "sent"}]
    /\ hostSrc \subseteq Frames
    /\ hostDst \in [RxSlots -> RxBuffers \cup {none}]
    /\ notifier \in [owner : Threads \cup {none}, got : Response \cup {none}]
    /\ toNet \in Seq(Request) /\ toApp \in Seq(Response \cup Outcome \cup Received)
    /\ netDec \in Request \cup {none}
    /\ netSrc \subseteq RxBuffers
    /\ netDst \in [TxSlots -> Frames \cup {none}]
    /\ sending \subseteq TxSlots /\ taken \subseteq RxBuffers

\* The messages on the link.
Asked == {toNet[i] : i \in 1..Len(toNet)}
Sent == {toApp[i] : i \in 1..Len(toApp)}

\* There is at most one request, and no two messages to the application are alike.
LinkOK ==
    /\ Len(toNet) <= 1
    /\ \A i, j \in 1..Len(toApp) : toApp[i] = toApp[j] => i = j

\* The call that owns the notifier is the one whose request, or whose response,
\* is on its way.
OwnerOK ==
    /\ \A t \in Threads : call[t].at \in {"remove", "await"} <=> notifier.owner = t
    /\ \A t \in Threads : call[t].at = "remove" => call[t].op = "free"
    /\ \A q \in Asked : /\ q.by = notifier.owner /\ q.op = call[q.by].op
                        /\ q.op = "transmit" => q.arg = call[q.by].arg
                        /\ netDec = none /\ notifier.got = none
    /\ netDec # none => /\ netDec.by = notifier.owner /\ netDec.op = call[netDec.by].op
                        /\ netDec.op = "transmit" => netDec.arg = call[netDec.by].arg
                        /\ notifier.got = none
    /\ \A m \in Sent : m.kind = "response" =>
          /\ m.by = notifier.owner /\ m.op = call[m.by].op
          /\ Asked = {} /\ netDec = none /\ notifier.got = none
    /\ \A m, n \in Sent : m.kind = "response" /\ n.kind = "response" => m = n
    /\ notifier.got # none => /\ notifier.got.by = notifier.owner
                              /\ notifier.got.op = call[notifier.got.by].op

\* The driver transmits frame f, or its outcome is on its way.
Flying(f) ==
    \/ \E s \in sending : netDst[s] = f
    \/ \E m \in Sent : m.kind = "outcome" /\ m.frame = f

\* A response tells whether the frame was accepted, unless its outcome came first.
ResultOK(m) ==
    LET f == call[m.by].arg IN
    m.op = "transmit" =>
        IF m.ok THEN app[f] = "calling" => Flying(f) ELSE app[f] = "calling" /\ ~Flying(f)

\* A frame is in one place.
PlacesOK ==
    /\ \A s \in TxSlots : s \in sending <=> netDst[s] # none
    /\ \A r, s \in sending : netDst[r] = netDst[s] => r = s
    /\ \A m, n \in Sent : /\ m.kind = "outcome" /\ n.kind = "outcome"
                          /\ m.frame = n.frame
                          => m = n
    /\ \A m \in Sent : \A s \in sending : m.kind = "outcome" => m.frame # netDst[s]

\* The application's view of its frames agrees with where they are.
FrameOK ==
    /\ \A t, u \in Threads : /\ call[t].op = "transmit" /\ call[u].op = "transmit"
                             /\ call[t].arg = call[u].arg
                             => t = u
    /\ \A f \in Frames : /\ app[f] \in {"idle", "calledOut"} => ~Flying(f)
                         /\ app[f] = "sent" => Flying(f)
                         /\ app[f] \in {"calling", "sent"} => f \in hostSrc
    /\ \A t \in Threads : call[t].op = "transmit" =>
          /\ app[call[t].arg] \in {"calling", "calledOut"}
          /\ call[t].at = "lock" => app[call[t].arg] = "calling" /\ ~Flying(call[t].arg)
    /\ \A q \in Asked : q.op = "transmit" => app[q.arg] = "calling" /\ ~Flying(q.arg)
    /\ netDec # none /\ netDec.op = "transmit" =>
          (app[netDec.arg] = "calling" => Flying(netDec.arg))
    /\ \A m \in Sent : m.kind = "response" => ResultOK(m)
    /\ notifier.got # none => ResultOK(notifier.got)

\* Message m brings receive buffer b to the application.
Brings(m, b) ==
    \/ m.kind = "received" /\ m.buffer = b
    \/ m.kind = "outcome" /\ m.ack = b

\* Slot s is about to be released.
Removing(s) == \E t \in Threads : call[t].at = "remove" /\ call[t].arg = s

\* Receive buffer b is in a message, in a slot or in the request to free it.
Held(b) ==
    \/ \E m \in Sent : Brings(m, b)
    \/ \E s \in RxSlots : hostDst[s] = b /\ ~Removing(s)
    \/ \E q \in Asked : q.op = "free" /\ q.arg = b

\* A receive buffer has one holder.
HoldersOK ==
    /\ \A m, n \in Sent : \A b \in RxBuffers : Brings(m, b) /\ Brings(n, b) => m = n
    /\ \A m \in Sent : \A s \in RxSlots :
          hostDst[s] # none /\ Brings(m, hostDst[s]) => Removing(s)
    /\ \A m \in Sent : \A q \in Asked : q.op = "free" => ~Brings(m, q.arg)
    /\ \A r, s \in RxSlots :
          hostDst[r] = hostDst[s] /\ hostDst[r] # none /\ ~Removing(r) /\ ~Removing(s) => r = s
    /\ \A s \in RxSlots : \A q \in Asked : q.op = "free" /\ hostDst[s] = q.arg => Removing(s)
    /\ \A b \in RxBuffers : /\ Held(b) => b \in taken
                            /\ b \in taken \ raced => Held(b)

\* Calls and requests that free a buffer name one that is in use, and a buffer in
\* use has its handle unless it was received into while it was being freed.
FreeOK ==
    /\ \A t \in Threads : call[t].op = "free" /\ call[t].at # "await" => hostDst[call[t].arg] # none
    /\ \A t, u \in Threads : /\ call[t].op = "free" /\ call[u].op = "free"
                             /\ call[t].arg = call[u].arg
                             => t = u
    /\ \A q \in Asked : q.op = "free" => q.arg \in RxBuffers
    /\ netDec # none /\ netDec.op = "free" =>
          netDec.arg \in RxBuffers /\ (netDec.arg \in taken => netDec.arg \in raced)
    /\ netSrc \subseteq taken \cup Freeing /\ taken \ raced \subseteq netSrc
    /\ raced \subseteq taken /\ raced \cap netSrc \subseteq Freeing

\* The inductive invariant.
IInv ==
    /\ Types /\ NoErrors /\ LinkOK /\ OwnerOK /\ PlacesOK /\ FrameOK /\ HoldersOK /\ FreeOK
-----------------------------------------------------------------------------
(* Slots, pools and links.                                                  *)

\* Some slot is the first of those that are free.
LEMMA FirstExists ==
    ASSUME NEW n \in Nat, NEW S, S \subseteq 1..n, S # {}
    PROVE  \E s \in S : \A r \in S : s <= r
  <1>. DEFINE Upto(m) == {r \in S : r <= m}
              T == {Upto(m) : m \in S}
  <1>1. S \subseteq Int
    OBVIOUS
  <1>2. IsFiniteSet(S)
    <2>1. 1 \in Int /\ n \in Int
      OBVIOUS
    <2>2. IsFiniteSet(1..n)
      BY <2>1, FS_Interval
    <2>. QED
      BY <2>2, FS_Subset
  <1>3. T \subseteq FiniteSubsetsOf(S) /\ T # {}
    <2>1. T \subseteq SUBSET S /\ T # {}
      OBVIOUS
    <2>. QED
      BY <1>2, <2>1, FS_FiniteSubsetsOfFinite
  <1>4. PICK x \in T : \A y \in T : <<y, x>> \notin StrictSubsetOrdering(S)
    <2>1. IsWellFoundedOn(StrictSubsetOrdering(S), FiniteSubsetsOf(S))
      BY FS_StrictSubsetOrderingWellFounded
    <2>. HIDE DEF T
    <2>. QED
      BY <2>1, <1>3, WFMin
  <1>5. PICK m \in S : x = Upto(m)
    OBVIOUS
  <1>6. ASSUME NEW r \in S PROVE m <= r
    <2>1. SUFFICES ASSUME r < m PROVE FALSE
      BY <1>1
    <2>2. r \in Int /\ m \in Int /\ r < m
      BY <1>1, <2>1
    <2>3. ASSUME NEW q \in S, q <= r PROVE q <= m
      BY <1>1, <2>2, <2>3
    <2>4. Upto(r) \subseteq Upto(m)
      BY <2>3
    <2>5. m \in Upto(m) /\ m \notin Upto(r)
      BY <2>2
    <2>6. <<Upto(r), x>> \in StrictSubsetOrdering(S)
      BY <1>5, <2>4, <2>5 DEF StrictSubsetOrdering
    <2>. QED
      BY <1>4, <2>6
  <1>. QED
    BY <1>6

\* buffer_alloc takes a free slot.
LEMMA SlotFree ==
    ASSUME NEW n \in Nat, NEW dst, DOMAIN dst = 1..n, FreeSlots(dst) # {}
    PROVE  Slot(dst) \in 1..n /\ dst[Slot(dst)] = none
  <1>1. FreeSlots(dst) \subseteq 1..n
    BY DEF FreeSlots
  <1>2. \E s \in FreeSlots(dst) : \A r \in FreeSlots(dst) : s <= r
    BY <1>1, FirstExists
  <1>3. Slot(dst) \in FreeSlots(dst)
    BY <1>2 DEF Slot
  <1>. QED
    BY <1>3 DEF FreeSlots

\* A pool with as many slots as there are things to keep in them has a free slot
\* for one that is in none of them.
LEMMA SlotLeft ==
    ASSUME NEW n \in Nat, NEW S, IsFiniteSet(S), Cardinality(S) <= n, NEW x \in S,
           NEW dst \in [1..n -> S \cup {none}],
           \A s \in 1..n : dst[s] # x,
           \A r, s \in 1..n : dst[r] = dst[s] /\ dst[r] # none => r = s
    PROVE  FreeSlots(dst) # {}
  <1>. SUFFICES ASSUME FreeSlots(dst) = {} PROVE FALSE
    OBVIOUS
  <1>. DEFINE T == S \ {x}
  <1>1. \A s \in 1..n : dst[s] \in T /\ dst[s] # none
    BY DEF FreeSlots
  <1>2. dst \in [1..n -> T]
    BY <1>1
  <1>3. IsFiniteSet(T) /\ Cardinality(T) = Cardinality(S) - 1
    BY FS_RemoveElement
  <1>4. IsFiniteSet(1..n) /\ Cardinality(1..n) = n
    <2>1. 1 \in Int /\ n \in Int
      OBVIOUS
    <2>2. IsFiniteSet(1..n) /\ Cardinality(1..n) = IF 1 > n THEN 0 ELSE n - 1 + 1
      BY <2>1, FS_Interval
    <2>. QED
      BY <2>2
  <1>5. Cardinality(T) < Cardinality(1..n)
    <2>1. Cardinality(S) \in Nat
      BY FS_CardinalityType
    <2>. QED
      BY <1>3, <1>4, <2>1
  <1>6. \E r, s \in 1..n : r # s /\ dst[r] = dst[s]
    <2>. HIDE DEF T
    <2>. QED
      BY <1>2, <1>3, <1>4, <1>5, FS_PigeonHole
  <1>. QED
    BY <1>1, <1>6

\* The pools.
LEMMA Pools ==
    /\ TX_BUFFERS \in Nat /\ RX_BUFFERS \in Nat
    /\ RxBuffers \subseteq Nat /\ none \notin RxBuffers /\ none \notin Frames
    /\ none \notin Threads /\ none \notin Request /\ none \notin Response
    /\ IsFiniteSet(RxBuffers) /\ Cardinality(RxBuffers) = RX_BUFFERS
    /\ IsFiniteSet(Frames)
  <1>1. TX_BUFFERS \in Nat /\ RX_BUFFERS \in Nat \ {0} /\ IsFiniteSet(Frames)
    BY SerializationAssumption
  <1>2. RxBuffers \subseteq Nat
    BY <1>1 DEF RxBuffers
  <1>3. /\ none \notin RxBuffers /\ none \notin Frames
        /\ none \notin Threads /\ none \notin Request /\ none \notin Response
    BY <1>2, NoneAssumption
  <1>4. IsFiniteSet(RxBuffers) /\ Cardinality(RxBuffers) = RX_BUFFERS
    <2>1. RX_BUFFERS + 1 \in Int /\ 2 * RX_BUFFERS \in Int
      BY <1>1
    <2>2. /\ IsFiniteSet(RxBuffers)
          /\ Cardinality(RxBuffers) = IF RX_BUFFERS + 1 > 2 * RX_BUFFERS THEN 0
                                      ELSE 2 * RX_BUFFERS - (RX_BUFFERS + 1) + 1
      BY <2>1, FS_Interval DEF RxBuffers
    <2>. QED
      BY <1>1, <2>2
  <1>. QED
    BY <1>1, <1>2, <1>3, <1>4

\* A map with room for every key takes each of them.
LEMMA RoomForAll ==
    ASSUME NEW S, IsFiniteSet(S), NEW n \in Nat, Cardinality(S) <= n,
           NEW map, map \subseteq S, NEW k \in S
    PROVE  CanAdd(map, n, k) /\ Cardinality(map) <= n
  <1>1. /\ IsFiniteSet(map) /\ Cardinality(map) <= Cardinality(S)
        /\ Cardinality(S) = Cardinality(map) => S = map
    BY FS_Subset
  <1>2. Cardinality(map) \in Nat /\ Cardinality(S) \in Nat
    BY <1>1, FS_CardinalityType
  <1>. QED
    BY <1>1, <1>2 DEF CanAdd

\* A message sent to the application is added to those on the link.
LEMMA SendApp ==
    ASSUME Types, LinkOK, NEW m, m \notin Sent, toApp' = Append(toApp, m), UNCHANGED toNet
    PROVE  Sent' = Sent \cup {m} /\ LinkOK' /\ Asked' = Asked
  <1>1. /\ Len(toApp) \in Nat /\ Len(toApp') = Len(toApp) + 1 /\ toApp'[Len(toApp) + 1] = m
        /\ \A i \in 1..Len(toApp) : toApp'[i] = toApp[i]
        /\ \A i \in 1..Len(toApp') : i \in 1..Len(toApp) \/ i = Len(toApp) + 1
    BY DEF Types
  <1>2. Sent' = Sent \cup {m}
    <2>1. Sent' \subseteq Sent \cup {m}
      BY <1>1 DEF Sent
    <2>2. m \in Sent'
      BY <1>1 DEF Sent
    <2>3. \A i \in 1..Len(toApp) : i \in 1..Len(toApp') /\ toApp[i] = toApp'[i]
      BY <1>1
    <2>4. Sent \subseteq Sent'
      BY <2>3 DEF Sent
    <2>. QED
      BY <2>1, <2>2, <2>4
  <1>3. LinkOK'
    BY <1>1 DEF LinkOK, Sent
  <1>. QED
    BY <1>2, <1>3 DEF Asked

\* The oldest message is taken from the link.
LEMMA TakeApp ==
    ASSUME Types, LinkOK, toApp # <<>>, toApp' = Tail(toApp), UNCHANGED toNet
    PROVE  /\ Head(toApp) \in Sent /\ Sent' = Sent \ {Head(toApp)} /\ LinkOK'
           /\ Asked' = Asked
  <1>1. /\ Len(toApp) \in Nat /\ Len(toApp') = Len(toApp) - 1 /\ Head(toApp) = toApp[1]
        /\ 1 \in 1..Len(toApp)
        /\ \A i \in 1..Len(toApp') : i + 1 \in 1..Len(toApp) /\ toApp'[i] = toApp[i + 1]
        /\ \A i \in 1..Len(toApp) : i = 1 \/ (i - 1 \in 1..Len(toApp') /\ toApp'[i - 1] = toApp[i])
    BY DEF Types
  <1>2. Head(toApp) \in Sent
    BY <1>1 DEF Sent
  <1>3. ASSUME NEW i \in 1..Len(toApp') PROVE toApp'[i] \in Sent \ {Head(toApp)}
    <2>1. i + 1 \in 1..Len(toApp) /\ i + 1 # 1 /\ toApp'[i] = toApp[i + 1]
      BY <1>1
    <2>. QED
      BY <1>1, <2>1 DEF Sent, LinkOK
  <1>4. ASSUME NEW i \in 1..Len(toApp), toApp[i] # Head(toApp) PROVE toApp[i] \in Sent'
    <2>1. i - 1 \in 1..Len(toApp') /\ toApp'[i - 1] = toApp[i]
      BY <1>1, <1>4
    <2>. QED
      BY <2>1 DEF Sent
  <1>5. Sent' = Sent \ {Head(toApp)}
    BY <1>3, <1>4 DEF Sent
  <1>6. ASSUME NEW i \in 1..Len(toApp'), NEW j \in 1..Len(toApp'), toApp'[i] = toApp'[j]
        PROVE  i = j
    <2>1. i + 1 \in 1..Len(toApp) /\ j + 1 \in 1..Len(toApp) /\ toApp[i + 1] = toApp[j + 1]
      BY <1>1, <1>6
    <2>2. i + 1 = j + 1
      BY <2>1 DEF LinkOK
    <2>. QED
      BY <1>1, <2>2
  <1>. QED
    BY <1>2, <1>5, <1>6 DEF LinkOK, Asked

\* A request is sent when there is none on the link.
LEMMA SendNet ==
    ASSUME Types, LinkOK, toNet = <<>>, NEW q, toNet' = Append(toNet, q), UNCHANGED toApp
    PROVE  Asked' = {q} /\ Sent' = Sent /\ LinkOK'
  <1>1. Len(toNet') = 1 /\ toNet'[1] = q
    BY DEF Types
  <1>2. 1..Len(toNet') = {1}
    BY <1>1
  <1>. QED
    BY <1>1, <1>2 DEF Asked, Sent, LinkOK

\* The request is taken from the link.
LEMMA TakeNet ==
    ASSUME Types, LinkOK, toNet # <<>>, toNet' = Tail(toNet)
    PROVE  /\ Asked = {Head(toNet)} /\ Asked' = {} /\ toNet' = <<>> /\ Len(toNet') = 0
           /\ Head(toNet) \in Request
  <1>1. Len(toNet) = 1 /\ Head(toNet) = toNet[1] /\ toNet[1] \in Request
    <2>1. toNet \in Seq(Request) /\ toNet # <<>> /\ Len(toNet) <= 1
      BY DEF Types, LinkOK
    <2>2. Len(toNet) \in Nat /\ Len(toNet) # 0
      BY <2>1
    <2>. QED
      <3>1. Len(toNet) = 1
        <4>. DEFINE n == Len(toNet)
        <4>1. n \in Nat /\ n # 0 /\ n <= 1
          BY <2>1, <2>2
        <4>. HIDE DEF n
        <4>2. n = 1
          BY <4>1
        <4>. QED
          BY <4>2 DEF n
      <3>. QED
        BY <2>1, <3>1
  <1>2. Len(toNet') = 0 /\ toNet' = <<>>
    BY <1>1 DEF Types
  <1>3. 1..Len(toNet) = {1} /\ 1..Len(toNet') = {}
    BY <1>1, <1>2
  <1>. QED
    BY <1>1, <1>2, <1>3 DEF Asked

\* What the messages on the links are.
LEMMA LinkTypes ==
    ASSUME Types
    PROVE  /\ Asked \subseteq Request /\ Sent \subseteq Response \cup Outcome \cup Received
           /\ Asked = {} <=> toNet = <<>>
  <1>1. toNet \in Seq(Request) /\ toApp \in Seq(Response \cup Outcome \cup Received)
    BY DEF Types
  <1>2. Asked \subseteq Request
    BY <1>1 DEF Asked
  <1>3. Sent \subseteq Response \cup Outcome \cup Received
    <2>. DEFINE M == Response \cup Outcome \cup Received
    <2>1. toApp \in Seq(M)
      BY <1>1
    <2>. HIDE DEF M
    <2>2. Sent \subseteq M
      BY <2>1 DEF Sent
    <2>. QED
      BY <2>2 DEF M
  <1>4. Asked = {} <=> toNet = <<>>
    <2>1. toNet # <<>> => 1 \in 1..Len(toNet)
      BY <1>1
    <2>2. toNet = <<>> => 1..Len(toNet) = {}
      OBVIOUS
    <2>. QED
      BY <2>1, <2>2 DEF Asked
  <1>. QED
    BY <1>2, <1>3, <1>4

-----------------------------------------------------------------------------
\* Nothing is on its way at first.
LEMMA InitIInv == Init => IInv
  <1>. SUFFICES ASSUME Init PROVE IInv
    OBVIOUS
  <1>1. Types
    <2>1. /\ call \in [Threads -> Calls \cup {Idle}]
          /\ app \in [Frames -> {"idle", "calling", "calledOut", "sent"}]
          /\ hostDst \in [RxSlots -> RxBuffers \cup {none}]
          /\ netDst \in [TxSlots -> Frames \cup {none}]
      BY DEF Init
    <2>2. /\ notifier \in [owner : Threads \cup {none}, got : Response \cup {none}]
          /\ netDec \in Request \cup {none}
      BY DEF Init
    <2>3. toNet \in Seq(Request) /\ toApp \in Seq(Response \cup Outcome \cup Received)
      BY DEF Init
    <2>4. hostSrc \subseteq Frames /\ netSrc \subseteq RxBuffers /\ sending \subseteq TxSlots
          /\ taken \subseteq RxBuffers
      BY DEF Init
    <2>. QED
      BY <2>1, <2>2, <2>3, <2>4 DEF Types
  <1>2. Asked = {} /\ Sent = {} /\ Len(toNet) = 0 /\ Len(toApp) = 0
    BY DEF Init, Asked, Sent
  <1>3. /\ \A t \in Threads : call[t].op = "none" /\ call[t].at = "idle"
        /\ notifier.owner = none /\ notifier.got = none /\ netDec = none
    BY DEF Init, Idle
  <1>4. LinkOK /\ NoErrors
    BY <1>2 DEF LinkOK, NoErrors, Init
  <1>5. OwnerOK
    BY <1>2, <1>3, Pools DEF OwnerOK
  <1>6. PlacesOK /\ \A f \in Frames : ~Flying(f) /\ app[f] = "idle"
    BY <1>2 DEF Init, PlacesOK, Flying
  <1>7. FrameOK
    BY <1>2, <1>3, <1>6 DEF FrameOK
  <1>8. HoldersOK /\ FreeOK
    BY <1>2, <1>3, Pools DEF HoldersOK, FreeOK, Held, Freeing, Init
  <1>. QED
    BY <1>1, <1>4, <1>5, <1>6, <1>7, <1>8 DEF IInv

\* Call c of thread t begins: it owns nothing yet.
CallBegun(t, c) ==
    /\ Asked' = Asked /\ Sent' = Sent /\ LinkOK' /\ OwnerOK' /\ PlacesOK' /\ HoldersOK'
    /\ \A f : Flying(f)' <=> Flying(f)
    /\ \A u \in Threads : call'[u] = IF u = t THEN c ELSE call[u]
    /\ \A m \in Sent : m.kind = "response" => m.by # t /\ m.by \in Threads
    /\ notifier.got # none => notifier.got.by # t /\ notifier.got.by \in Threads
    /\ netDec # none => netDec.by # t /\ netDec.by \in Threads

\* A call that begins changes nothing but itself.
LEMMA CallBegins ==
    ASSUME IInv, NEW t \in Threads, NEW c, c.at = "lock", call[t] = Idle,
           call' = [call EXCEPT ![t] = c], UNCHANGED <<notifier, toNet, toApp, netVars, hostDst>>
    PROVE  CallBegun(t, c)
  <1>0. Types /\ LinkOK /\ OwnerOK /\ PlacesOK /\ HoldersOK
    BY DEF IInv
  <1>1. Asked' = Asked /\ Sent' = Sent
    BY DEF Asked, Sent
  <1>2. \A u \in Threads : call'[u] = IF u = t THEN c ELSE call[u]
    BY <1>0 DEF Types
  <1>3. call[t].at = "idle" /\ notifier.owner # t
    BY <1>0 DEF OwnerOK, Idle
  <1>4. LinkOK'
    BY <1>0 DEF LinkOK
  <1>5. /\ Asked \subseteq Request /\ Sent \subseteq Response \cup Outcome \cup Received
        /\ netDec \in Request \cup {none} /\ notifier.got \in Response \cup {none}
    BY <1>0, LinkTypes DEF Types
  <1>6. /\ \A q \in Asked : q.by \in Threads /\ q.by # t
        /\ \A m \in Sent : m.kind = "response" => m.by \in Threads /\ m.by # t
        /\ netDec # none => netDec.by \in Threads /\ netDec.by # t
        /\ notifier.got # none => notifier.got.by \in Threads /\ notifier.got.by # t
    BY <1>0, <1>3, <1>5 DEF OwnerOK, Request, Response, Outcome, Received
  <1>7. OwnerOK'
    BY <1>0, <1>1, <1>2, <1>3, <1>6 DEF OwnerOK, netVars
  <1>8. PlacesOK' /\ \A f : Flying(f)' <=> Flying(f)
    BY <1>0, <1>1 DEF PlacesOK, Flying, netVars
  <1>9. \A s \in RxSlots : Removing(s)' <=> Removing(s)
    BY <1>2, <1>3 DEF Removing
  <1>10. HoldersOK'
    BY <1>0, <1>1, <1>9 DEF HoldersOK, Held, Brings, netVars
  <1>. QED
    BY <1>1, <1>2, <1>3, <1>4, <1>6, <1>7, <1>8, <1>10 DEF CallBegun

\* nrf_802154_transmit_raw: there is room for the handle of the frame.
LEMMA TransmitCallKeeps ==
    ASSUME Orderly, IInv, NEW t \in Threads, NEW f \in Frames, TransmitCall(t, f)
    PROVE  IInv'
  <1>. DEFINE c == [op |-> "transmit", arg |-> f, at |-> "lock"]
  <1>0. Types /\ NoErrors /\ FrameOK /\ FreeOK /\ Asked \subseteq Request
    BY LinkTypes DEF IInv
  <1>1. CanAdd(hostSrc, TX_BUFFERS, f)
    BY <1>0, Pools, RoomForAll DEF Orderly, Types
  <1>2. /\ call[t] = Idle /\ app[f] = "idle" /\ hostSrc' = hostSrc \cup {f}
        /\ call' = [call EXCEPT ![t] = c] /\ app' = [app EXCEPT ![f] = "calling"]
        /\ UNCHANGED <<errors, hostDst, notifier, netVars, toNet, toApp>>
    BY <1>1 DEF TransmitCall
  <1>3. c \in Calls /\ c.at = "lock" /\ c.op = "transmit" /\ c.arg = f
    BY DEF Calls, Ops
  <1>. HIDE DEF c
  <1>4. Types' /\ NoErrors'
    BY <1>0, <1>2, <1>3 DEF Types, NoErrors, netVars
  <1>5. /\ Asked' = Asked /\ Sent' = Sent /\ LinkOK' /\ OwnerOK' /\ PlacesOK' /\ HoldersOK'
        /\ \A g : Flying(g)' <=> Flying(g)
        /\ \A u \in Threads : call'[u] = IF u = t THEN c ELSE call[u]
        /\ \A m \in Sent : m.kind = "response" => m.by # t /\ m.by \in Threads
        /\ notifier.got # none => notifier.got.by # t /\ notifier.got.by \in Threads
        /\ netDec # none => netDec.by # t /\ netDec.by \in Threads
    <2>1. UNCHANGED <<notifier, toNet, toApp, netVars, hostDst>>
      BY <1>2
    <2>2. CallBegun(t, c)
      BY <1>2, <1>3, <2>1, CallBegins
    <2>. QED
      BY <2>2 DEF CallBegun
  <1>6. \A g \in Frames : app'[g] = IF g = f THEN "calling" ELSE app[g]
    BY <1>0, <1>2 DEF Types
  <1>7. \A u \in Threads : call[u].op = "transmit" => call[u].arg \in Frames /\ call[u].arg # f
    BY <1>0, <1>2 DEF Types, FrameOK, Calls, Idle
  <1>8. FrameOK'
    <2>1. \A u, v \in Threads : /\ call'[u].op = "transmit" /\ call'[v].op = "transmit"
                                /\ call'[u].arg = call'[v].arg
                                => u = v
      BY <1>0, <1>3, <1>5, <1>7 DEF FrameOK
    <2>2. ~Flying(f)
      BY <1>0, <1>2 DEF FrameOK
    <2>3. \A g \in Frames : /\ app'[g] \in {"idle", "calledOut"} => ~Flying(g)
                            /\ app'[g] = "sent" => Flying(g)
                            /\ app'[g] \in {"calling", "sent"} => g \in hostSrc'
      BY <1>0, <1>2, <1>6 DEF FrameOK
    <2>4. \A u \in Threads : call'[u].op = "transmit" =>
             /\ app'[call'[u].arg] \in {"calling", "calledOut"}
             /\ call'[u].at = "lock" =>
                   app'[call'[u].arg] = "calling" /\ ~Flying(call'[u].arg)
      BY <1>0, <1>3, <1>5, <1>6, <1>7, <2>2 DEF FrameOK
    <2>5. \A q \in Asked : q.op = "transmit" => app'[q.arg] = "calling" /\ ~Flying(q.arg)
      BY <1>0, <1>2, <1>6, LinkTypes DEF FrameOK, Types
    <2>6. netDec # none /\ netDec.op = "transmit" =>
             (app'[netDec.arg] = "calling" => Flying(netDec.arg))
      BY <1>0, <1>2, <1>5, <1>6, <1>7 DEF IInv, OwnerOK, FrameOK, Types, Request
    <2>7. ASSUME NEW m, m.by \in Threads, m.by # t, ResultOK(m),
                 m.op = "transmit" => call[m.by].op = "transmit"
          PROVE  ResultOK(m)'
      BY <1>5, <1>6, <1>7, <2>7 DEF ResultOK
    <2>8. \A m \in Sent : m.kind = "response" => ResultOK(m)'
      BY <1>0, <1>5, <2>7 DEF FrameOK, IInv, OwnerOK
    <2>9. notifier.got # none => ResultOK(notifier.got)'
      <3>. DEFINE m == notifier.got
      <3>1. m # none => /\ m.by \in Threads /\ m.by # t /\ ResultOK(m)
                        /\ m.op = "transmit" => call[m.by].op = "transmit"
        BY <1>0, <1>5 DEF FrameOK, IInv, OwnerOK
      <3>2. m' = m
        BY <1>2
      <3>. HIDE DEF m
      <3>3. m # none => ResultOK(m)'
        BY <2>7, <3>1, <3>2
      <3>. QED
        BY <3>3 DEF m
    <2>. QED
      BY <1>2, <1>5, <2>1, <2>3, <2>4, <2>5, <2>6, <2>8, <2>9 DEF FrameOK, netVars
  <1>9. FreeOK'
    BY <1>0, <1>2, <1>3, <1>5 DEF FreeOK, Freeing, netVars
  <1>. QED
    BY <1>4, <1>5, <1>8, <1>9 DEF IInv

\* nrf_802154_buffer_free_raw and the calls that change no buffer.
LEMMA OtherCallKeeps ==
    ASSUME Orderly, IInv, NEW t \in Threads,
           (\E s \in RxSlots : FreeCall(t, s)) \/ SetCall(t)
    PROVE  IInv'
  <1>0. Types /\ NoErrors /\ FrameOK /\ FreeOK
    BY DEF IInv
  <1>1. PICK c \in Calls :
           /\ call[t] = Idle /\ call' = [call EXCEPT ![t] = c] /\ c.at = "lock"
           /\ c.op # "transmit"
           /\ c.op = "free" => /\ hostDst[c.arg] # none
                               /\ \A u \in Threads : call[u].op = "free" => call[u].arg # c.arg
           /\ UNCHANGED <<app, hostSrc, hostDst, notifier, netVars, toNet, toApp, errors>>
    <2>1. \A s \in RxSlots : [op |-> "free", arg |-> s, at |-> "lock"] \in Calls
      BY DEF Calls, Ops
    <2>2. [op |-> "set", arg |-> none, at |-> "lock"] \in Calls
      BY DEF Calls, Ops
    <2>3. CASE \E s \in RxSlots : FreeCall(t, s)
      <3>1. PICK s \in RxSlots : FreeCall(t, s)
        BY <2>3
      <3>. DEFINE c == [op |-> "free", arg |-> s, at |-> "lock"]
      <3>2. c \in Calls /\ c.at = "lock" /\ c.op = "free" /\ c.arg = s
        BY <2>1
      <3>3. /\ call[t] = Idle /\ call' = [call EXCEPT ![t] = c] /\ hostDst[s] # none
            /\ \A u \in Threads : call[u].op = "free" => call[u].arg # s
            /\ UNCHANGED <<app, hostSrc, hostDst, notifier, netVars, toNet, toApp, errors>>
        BY <3>1 DEF FreeCall
      <3>. HIDE DEF c
      <3>. QED
        BY <3>2, <3>3
    <2>4. CASE SetCall(t)
      <3>. DEFINE c == [op |-> "set", arg |-> none, at |-> "lock"]
      <3>1. c \in Calls /\ c.at = "lock" /\ c.op = "set"
        BY <2>2
      <3>2. /\ call[t] = Idle /\ call' = [call EXCEPT ![t] = c]
            /\ UNCHANGED <<app, hostSrc, hostDst, notifier, netVars, toNet, toApp, errors>>
        BY <2>4 DEF SetCall
      <3>. HIDE DEF c
      <3>. QED
        BY <3>1, <3>2
    <2>. QED
      BY <2>3, <2>4
  <1>2. Types' /\ NoErrors'
    BY <1>0, <1>1 DEF Types, NoErrors, netVars
  <1>3. /\ Asked' = Asked /\ Sent' = Sent /\ LinkOK' /\ OwnerOK' /\ PlacesOK' /\ HoldersOK'
        /\ \A g : Flying(g)' <=> Flying(g)
        /\ \A u \in Threads : call'[u] = IF u = t THEN c ELSE call[u]
        /\ \A m \in Sent : m.kind = "response" => m.by # t /\ m.by \in Threads
        /\ notifier.got # none => notifier.got.by # t /\ notifier.got.by \in Threads
        /\ netDec # none => netDec.by # t /\ netDec.by \in Threads
    <2>1. UNCHANGED <<notifier, toNet, toApp, netVars, hostDst>>
      BY <1>1
    <2>2. CallBegun(t, c)
      BY <1>1, <2>1, CallBegins
    <2>. QED
      BY <2>2 DEF CallBegun
  <1>4. FrameOK'
    <2>1. /\ \A m \in Sent : m.kind = "response" => ResultOK(m)'
          /\ notifier.got # none => ResultOK(notifier.got)'
      <3>1. ASSUME NEW m, m.by \in Threads, m.by # t, ResultOK(m) PROVE ResultOK(m)'
        BY <1>1, <1>3, <3>1 DEF ResultOK
      <3>. QED
        BY <1>0, <1>1, <1>3, <3>1 DEF FrameOK
    <2>. QED
      BY <1>0, <1>1, <1>3, <2>1 DEF FrameOK, netVars
  <1>5. FreeOK'
    BY <1>0, <1>1, <1>3 DEF FreeOK, Freeing, netVars
  <1>. QED
    BY <1>2, <1>3, <1>4, <1>5 DEF IInv

\* While the notifier is free nothing is asked and nothing answered.
LEMMA Quiet ==
    ASSUME IInv, notifier.owner = none
    PROVE  /\ Asked = {} /\ toNet = <<>> /\ netDec = none /\ notifier.got = none
           /\ \A m \in Sent : m.kind # "response"
           /\ \A t \in Threads : call[t].at \notin {"remove", "await"}
  <1>1. Types /\ OwnerOK
    BY DEF IInv
  <1>2. /\ Asked \subseteq Request /\ Sent \subseteq Response \cup Outcome \cup Received
        /\ netDec \in Request \cup {none} /\ notifier.got \in Response \cup {none}
        /\ Asked = {} <=> toNet = <<>>
    BY <1>1, LinkTypes DEF Types
  <1>. QED
    BY <1>1, <1>2, Pools DEF OwnerOK, Request, Response, Outcome, Received

\* A request is sent by the owner of the notifier, and what it carries is in use.
LEMMA LockAndSendKeeps ==
    ASSUME Orderly, IInv, NEW t \in Threads, LockAndSend(t)
    PROVE  IInv'
  <1>. DEFINE c == call[t]
              q == [op |-> c.op, by |-> t, arg |-> Handle(c)]
              d == [c EXCEPT !.at = IF c.op = "free" THEN "remove" ELSE "await"]
  <1>0. Types /\ NoErrors /\ LinkOK /\ OwnerOK /\ PlacesOK /\ FrameOK /\ HoldersOK /\ FreeOK
    BY DEF IInv
  <1>1. /\ c.at = "lock" /\ notifier.owner = none
        /\ notifier' = [owner |-> t, got |-> none] /\ toNet' = Append(toNet, q)
        /\ UNCHANGED <<app, hostSrc, hostDst, netVars, toApp, errors>>
    BY DEF LockAndSend, LockFree
  <1>2. /\ Asked = {} /\ toNet = <<>> /\ netDec = none /\ notifier.got = none
        /\ \A m \in Sent : m.kind # "response"
        /\ \A u \in Threads : call[u].at \notin {"remove", "await"}
    BY <1>1, Quiet
  <1>3. c \in Calls
    BY <1>0, <1>1 DEF Types, Idle
  <1>4. /\ d \in Calls /\ d.op = c.op /\ d.arg = c.arg
        /\ d.at = IF c.op = "free" THEN "remove" ELSE "await"
    BY <1>3 DEF Calls
  <1>5. call' = [call EXCEPT ![t] = d] /\ \A u \in Threads : call'[u] = IF u = t THEN d ELSE call[u]
    BY <1>0, <1>3 DEF Types, LockAndSend
  <1>6. /\ q.op = c.op /\ q.by = t
        /\ q.op # "free" => q.arg = c.arg
        /\ q.op = "free" => q.arg = hostDst[c.arg]
    BY DEF Handle
  <1>7. /\ c.op = "free" => c.arg \in RxSlots /\ hostDst[c.arg] \in RxBuffers
        /\ c.op = "transmit" => c.arg \in Frames
        /\ c.op \in Ops
    BY <1>0, <1>1, <1>3 DEF Types, FreeOK, Calls
  <1>8. q \in Request
    <2>1. q.arg \in Frames \cup RxBuffers \cup {none}
      BY <1>3, <1>6, <1>7 DEF Calls, Ops
    <2>. QED
      BY <1>7, <2>1 DEF Request
  <1>. HIDE DEF q, d
  <1>9. Asked' = {q} /\ Sent' = Sent /\ LinkOK'
    BY <1>0, <1>1, <1>2, SendNet
  <1>10. Types' /\ NoErrors'
    <2>1. toNet' \in Seq(Request)
      BY <1>0, <1>1, <1>8 DEF Types
    <2>2. call' \in [Threads -> Calls \cup {Idle}]
      BY <1>0, <1>4, <1>5 DEF Types
    <2>. QED
      BY <1>0, <1>1, <2>1, <2>2 DEF Types, NoErrors, netVars
  <1>11. OwnerOK'
    BY <1>0, <1>1, <1>2, <1>4, <1>5, <1>6, <1>9 DEF OwnerOK, netVars
  <1>12. PlacesOK' /\ \A g : Flying(g)' <=> Flying(g)
    BY <1>0, <1>1, <1>9 DEF PlacesOK, Flying, netVars
  <1>13. FrameOK'
    BY <1>0, <1>1, <1>2, <1>4, <1>5, <1>6, <1>9, <1>12 DEF FrameOK, netVars
  <1>14. /\ \A s \in RxSlots : ~Removing(s)
         /\ \A s \in RxSlots : Removing(s)' <=> c.op = "free" /\ s = c.arg
    BY <1>2, <1>4, <1>5 DEF Removing
  <1>15. HoldersOK'
    <2>1. \A m \in Sent : q.op = "free" => ~Brings(m, q.arg)
      BY <1>0, <1>6, <1>7, <1>14, Pools DEF HoldersOK
    <2>2. \A m \in Sent : \A s \in RxSlots : hostDst[s] # none => ~Brings(m, hostDst[s])
      BY <1>0, <1>14 DEF HoldersOK
    <2>3. \A s \in RxSlots : q.op = "free" /\ hostDst[s] = q.arg => Removing(s)'
      BY <1>0, <1>6, <1>7, <1>14, Pools DEF HoldersOK
    <2>4. \A b \in RxBuffers :
             (\E s \in RxSlots : hostDst[s] = b /\ ~Removing(s))
                 <=> \/ \E s \in RxSlots : hostDst[s] = b /\ ~Removing(s)'
                     \/ q.op = "free" /\ q.arg = b
      BY <1>6, <1>7, <1>14, <2>3
    <2>5. Asked = {} /\ taken' = taken /\ raced' = raced /\ hostDst' = hostDst
      BY <1>1, <1>2 DEF netVars
    <2>6. \A m, b : Brings(m, b)' <=> Brings(m, b)
      BY DEF Brings
    <2>7. \A b \in RxBuffers : Held(b)' <=> Held(b)
      BY <1>9, <2>4, <2>5, <2>6 DEF Held
    <2>. QED
      BY <1>0, <1>9, <1>14, <2>1, <2>2, <2>3, <2>5, <2>6, <2>7 DEF HoldersOK
  <1>16. FreeOK'
    BY <1>0, <1>1, <1>2, <1>4, <1>5, <1>6, <1>7, <1>9 DEF FreeOK, Freeing, netVars
  <1>. QED
    BY <1>9, <1>10, <1>11, <1>12, <1>13, <1>15, <1>16 DEF IInv

\* The slot is released while the request to free its buffer is on its way: the
\* application no longer holds the buffer.
LEMMA FreeRemoveKeeps ==
    ASSUME Orderly, IInv, NEW t \in Threads, FreeRemove(t)
    PROVE  IInv'
  <1>. DEFINE c == call[t]
              d == [c EXCEPT !.at = "await"]
  <1>0. Types /\ NoErrors /\ LinkOK /\ OwnerOK /\ PlacesOK /\ FrameOK /\ HoldersOK /\ FreeOK
    BY DEF IInv
  <1>1. /\ c.at = "remove" /\ hostDst' = [hostDst EXCEPT ![c.arg] = none]
        /\ UNCHANGED <<app, hostSrc, notifier, netVars, toNet, toApp, errors>>
    BY DEF FreeRemove
  <1>2. c \in Calls /\ c.op = "free" /\ c.arg \in RxSlots /\ notifier.owner = t
    <2>1. c \in Calls /\ c.op = "free" /\ notifier.owner = t
      BY <1>0, <1>1 DEF Types, Idle, OwnerOK
    <2>. QED
      BY <2>1 DEF Calls
  <1>3. d \in Calls /\ d.op = "free" /\ d.arg = c.arg /\ d.at = "await"
    BY <1>2 DEF Calls
  <1>4. call' = [call EXCEPT ![t] = d] /\ \A u \in Threads : call'[u] = IF u = t THEN d ELSE call[u]
    BY <1>0, <1>2 DEF Types, FreeRemove
  <1>. HIDE DEF d
  <1>5. /\ hostDst' \in [RxSlots -> RxBuffers \cup {none}]
        /\ \A s \in RxSlots : hostDst'[s] = IF s = c.arg THEN none ELSE hostDst[s]
    BY <1>0, <1>1, <1>2 DEF Types
  <1>6. Types' /\ NoErrors'
    BY <1>0, <1>1, <1>3, <1>4, <1>5 DEF Types, NoErrors, netVars
  <1>7. Asked' = Asked /\ Sent' = Sent /\ LinkOK'
    BY <1>0, <1>1 DEF Asked, Sent, LinkOK
  <1>8. /\ Asked \subseteq Request /\ Sent \subseteq Response \cup Outcome \cup Received
        /\ netDec \in Request \cup {none} /\ notifier.got \in Response \cup {none}
    BY <1>0, LinkTypes DEF Types
  <1>9. OwnerOK'
    BY <1>0, <1>1, <1>2, <1>3, <1>4, <1>7 DEF OwnerOK, netVars
  <1>10. PlacesOK' /\ \A g : Flying(g)' <=> Flying(g)
    BY <1>0, <1>1, <1>7 DEF PlacesOK, Flying, netVars
  <1>11. FrameOK'
    <2>1. /\ \A m \in Sent : m.kind = "response" => ResultOK(m)'
          /\ notifier.got # none => ResultOK(notifier.got)'
      <3>1. \A u \in Threads : call'[u].arg = call[u].arg
        BY <1>3, <1>4
      <3>2. ASSUME NEW m, m.by \in Threads, ResultOK(m) PROVE ResultOK(m)'
        BY <1>1, <1>10, <3>1, <3>2 DEF ResultOK
      <3>3. /\ \A m \in Sent : m.kind = "response" => m.by \in Threads
            /\ notifier.got # none => notifier.got.by \in Threads
        BY <1>8 DEF Response, Outcome, Received
      <3>. QED
        BY <1>0, <1>1, <3>2, <3>3 DEF FrameOK
    <2>. QED
      BY <1>0, <1>1, <1>2, <1>3, <1>4, <1>7, <1>10, <2>1 DEF FrameOK, netVars
  <1>12. \A s \in RxSlots : (Removing(s) <=> s = c.arg) /\ ~Removing(s)'
    BY <1>0, <1>1, <1>2, <1>3, <1>4 DEF Removing, OwnerOK
  <1>13. HoldersOK'
    <2>1. \A m, b : Brings(m, b)' <=> Brings(m, b)
      BY DEF Brings
    <2>2. \A b \in RxBuffers :
             (\E s \in RxSlots : hostDst'[s] = b /\ ~Removing(s)')
                 <=> \E s \in RxSlots : hostDst[s] = b /\ ~Removing(s)
      BY <1>5, <1>12, Pools
    <2>3. taken' = taken /\ raced' = raced
      BY <1>1 DEF netVars
    <2>4. /\ \A m \in Sent : \A s \in RxSlots : hostDst'[s] # none => ~Brings(m, hostDst'[s])
          /\ \A s \in RxSlots : \A q \in Asked : q.op = "free" => hostDst'[s] # q.arg
      BY <1>0, <1>5, <1>12, Pools DEF HoldersOK, FreeOK
    <2>5. \A r, s \in RxSlots : hostDst'[r] = hostDst'[s] /\ hostDst'[r] # none => r = s
      BY <1>0, <1>5, <1>12 DEF HoldersOK
    <2>6. \A b \in RxBuffers : Held(b)' <=> Held(b)
      BY <1>7, <2>1, <2>2 DEF Held
    <2>. QED
      BY <1>0, <1>7, <2>1, <2>3, <2>4, <2>5, <2>6 DEF HoldersOK
  <1>14. FreeOK'
    BY <1>0, <1>1, <1>2, <1>3, <1>4, <1>5, <1>7 DEF FreeOK, Freeing, netVars, Types, Calls
  <1>. QED
    BY <1>6, <1>7, <1>9, <1>10, <1>11, <1>13, <1>14 DEF IInv

\* A call returns with the response to its own request.
LEMMA ReturnKeeps ==
    ASSUME Orderly, IInv, NEW t \in Threads, Return(t)
    PROVE  IInv'
  <1>. DEFINE c == call[t]
              m == notifier.got
              f == c.arg
              to == IF m.ok /\ app[f] = "calling" THEN "sent" ELSE "idle"
  <1>0. Types /\ NoErrors /\ LinkOK /\ OwnerOK /\ PlacesOK /\ FrameOK /\ HoldersOK /\ FreeOK
    BY DEF IInv
  <1>1. /\ c.at = "await" /\ notifier.owner = t /\ m # none
        /\ notifier' = [owner |-> none, got |-> none]
        /\ UNCHANGED <<hostSrc, hostDst, netVars, toNet, toApp, errors>>
        /\ call' = [call EXCEPT ![t] = Idle]
        /\ IF c.op = "transmit" THEN app' = [app EXCEPT ![f] = to] ELSE app' = app
    BY DEF Return, Orderly, Raise, EndCall, KeepHandle, Returned
  <1>2. /\ Asked = {} /\ netDec = none /\ m.by = t /\ m.op = c.op
        /\ \A n \in Sent : n.kind # "response"
    BY <1>0, <1>1 DEF OwnerOK
  <1>3. \A u \in Threads : call'[u] = IF u = t THEN Idle ELSE call[u]
    BY <1>0, <1>1 DEF Types
  <1>4. Asked' = Asked /\ Sent' = Sent /\ LinkOK'
    BY <1>0, <1>1 DEF Asked, Sent, LinkOK
  <1>5. c.op = "transmit" => f \in Frames
    BY <1>0, <1>1 DEF Types, Idle, Calls
  <1>6. \A g \in Frames : app'[g] = IF c.op = "transmit" /\ g = f THEN to ELSE app[g]
    BY <1>0, <1>1, <1>5 DEF Types
  <1>7. Types' /\ NoErrors'
    BY <1>0, <1>1 DEF Types, NoErrors, netVars
  <1>8. OwnerOK'
    BY <1>0, <1>1, <1>2, <1>3, <1>4, Pools DEF OwnerOK, netVars, Idle
  <1>9. PlacesOK' /\ \A g : Flying(g)' <=> Flying(g)
    BY <1>0, <1>1, <1>4 DEF PlacesOK, Flying, netVars
  <1>10. FrameOK'
    <2>1. c.op = "transmit" => /\ app[f] \in {"calling", "calledOut"}
                               /\ IF m.ok THEN app[f] = "calling" => Flying(f) ELSE ~Flying(f)
      <3>1. ResultOK(m)
        BY <1>0, <1>1 DEF FrameOK
      <3>. QED
        BY <1>0, <1>2, <3>1 DEF FrameOK, ResultOK
    <2>2. \A g \in Frames : /\ app'[g] \in {"idle", "calledOut"} => ~Flying(g)
                            /\ app'[g] = "sent" => Flying(g)
                            /\ app'[g] \in {"calling", "sent"} => g \in hostSrc
      BY <1>0, <1>6, <2>1 DEF FrameOK
    <2>3. \A u \in Threads \ {t} : call[u].op = "transmit" =>
             call[u].arg \in Frames /\ app'[call[u].arg] = app[call[u].arg]
      BY <1>0, <1>6 DEF FrameOK, Types, Calls, Idle
    <2>. QED
      BY <1>0, <1>1, <1>2, <1>3, <1>4, <1>9, <2>2, <2>3 DEF FrameOK, netVars, Idle
  <1>11. \A s \in RxSlots : ~Removing(s) /\ ~Removing(s)'
    BY <1>0, <1>1, <1>3 DEF Removing, OwnerOK, Idle
  <1>12. HoldersOK'
    BY <1>0, <1>1, <1>4, <1>11 DEF HoldersOK, Held, Brings, netVars
  <1>13. FreeOK'
    BY <1>0, <1>1, <1>2, <1>3, <1>4 DEF FreeOK, Freeing, netVars, Idle
  <1>. QED
    BY <1>4, <1>7, <1>8, <1>9, <1>10, <1>12, <1>13 DEF IInv

\* The driver takes the frame of a request: it is the one place the frame is in.
LEMMA DecodeAcceptedKeeps ==
    ASSUME Orderly, IInv, NEW s \in TxSlots, netDst[s] = none, NEW m, m.op = "transmit",
           Asked = {m}, Asked' = {}, Len(toNet') = 0, toNet' = <<>>, netDec = none,
           m \in Request, m.arg \in Frames, netDec' = m, sending' = sending \cup {s},
           netDst' = [netDst EXCEPT ![s] = m.arg],
           UNCHANGED <<hostVars, netSrc, taken, raced, toApp, errors>>
    PROVE  IInv'
  <1>0. Types /\ NoErrors /\ LinkOK /\ OwnerOK /\ PlacesOK /\ FrameOK /\ HoldersOK /\ FreeOK
    BY DEF IInv
  <1>1. Sent' = Sent /\ LinkOK'
    BY <1>0 DEF Sent, LinkOK
  <1>2. /\ m.by = notifier.owner /\ m.op = call[m.by].op /\ m.arg = call[m.by].arg
        /\ notifier.got = none /\ \A n \in Sent : n.kind # "response"
        /\ app[m.arg] = "calling" /\ ~Flying(m.arg)
    BY <1>0 DEF OwnerOK, FrameOK
  <1>3. /\ netDst' \in [TxSlots -> Frames \cup {none}]
        /\ \A r \in TxSlots : netDst'[r] = IF r = s THEN m.arg ELSE netDst[r]
    BY <1>0 DEF Types
  <1>4. Types' /\ NoErrors'
    <2>1. toNet' \in Seq(Request)
      OBVIOUS
    <2>. QED
      BY <1>0, <1>3, <2>1 DEF Types, NoErrors, hostVars
  <1>5. OwnerOK'
    BY <1>0, <1>1, <1>2 DEF OwnerOK, hostVars
  <1>6. s \notin sending /\ sending \subseteq TxSlots /\ m.arg # none
    BY <1>0, Pools DEF PlacesOK, Types
  <1>7. \A g : Flying(g)' <=> Flying(g) \/ g = m.arg
    BY <1>1, <1>3, <1>6 DEF Flying
  <1>8. PlacesOK'
    BY <1>0, <1>1, <1>2, <1>3, <1>6 DEF PlacesOK, Flying
  <1>9. FrameOK'
    <2>1. \A t \in Threads : call[t].op = "transmit" /\ call[t].arg = m.arg => t = m.by
      <3>1. m.by \in Threads
        BY DEF Request
      <3>. QED
        BY <1>0, <1>2, <3>1 DEF FrameOK
    <2>2. call[m.by].at # "lock"
      <3>1. m.by \in Threads
        BY DEF Request
      <3>. QED
        BY <1>0, <1>2, <3>1 DEF OwnerOK
    <2>. QED
      BY <1>0, <1>1, <1>2, <1>7, <2>1, <2>2 DEF FrameOK, hostVars
  <1>10. HoldersOK' /\ FreeOK'
    <2>1. \A r \in RxSlots : Removing(r)' <=> Removing(r)
      BY DEF Removing, hostVars
    <2>2. \A b \in RxBuffers : Held(b)' <=> Held(b)
      BY <1>1, <2>1 DEF Held, Brings, hostVars
    <2>. QED
      BY <1>0, <1>1, <2>1, <2>2 DEF HoldersOK, FreeOK, Freeing, Brings, hostVars
  <1>. QED
    BY <1>1, <1>4, <1>5, <1>8, <1>9, <1>10 DEF IInv

\* A response is sent to the call whose request was decoded.
LEMMA RespondKeeps ==
    ASSUME Orderly, IInv, NEW m \in Request, NEW result \in BOOLEAN,
           m.by = notifier.owner, m.op = call[m.by].op, notifier.got = none,
           \A n \in Sent : n.kind # "response",
           m.op = "transmit" => IF result THEN app[m.arg] = "calling" => Flying(m.arg)
                                ELSE app[m.arg] = "calling" /\ ~Flying(m.arg),
           m.op = "transmit" => m.arg = call[m.by].arg,
           \A q \in Asked : q = m /\ m.op # "free",
           toNet' = <<>>, netDec' = none, Respond(m, result), netSrc' = taken \ raced,
           UNCHANGED <<hostVars, netDst, sending, taken, raced, errors>>
    PROVE  IInv'
  <1>. DEFINE r == [kind |-> "response", op |-> m.op, by |-> m.by, ok |-> result]
  <1>0. Types /\ NoErrors /\ LinkOK /\ OwnerOK /\ PlacesOK /\ FrameOK /\ HoldersOK /\ FreeOK
    BY DEF IInv
  <1>1. /\ toApp' = Append(toApp, r) /\ r \in Response /\ r.kind = "response" /\ r.op = m.op
        /\ r.by = m.by /\ r.ok = result
    BY DEF Respond, Response, Request
  <1>. HIDE DEF r
  <1>2. Asked' = {} /\ Len(toNet') = 0
    BY DEF Asked
  <1>3. Sent' = Sent \cup {r}
    <2>1. /\ Len(toApp) \in Nat /\ Len(toApp') = Len(toApp) + 1 /\ toApp'[Len(toApp) + 1] = r
          /\ \A i \in 1..Len(toApp) : toApp'[i] = toApp[i]
          /\ \A i \in 1..Len(toApp') : i \in 1..Len(toApp) \/ i = Len(toApp) + 1
      BY <1>0, <1>1 DEF Types
    <2>2. Sent' \subseteq Sent \cup {r}
      BY <2>1 DEF Sent
    <2>3. r \in Sent'
      BY <2>1 DEF Sent
    <2>4. \A i \in 1..Len(toApp) : i \in 1..Len(toApp') /\ toApp[i] = toApp'[i]
      BY <2>1
    <2>5. Sent \subseteq Sent'
      BY <2>4 DEF Sent
    <2>. QED
      BY <2>2, <2>3, <2>5
  <1>4. LinkOK'
    <2>1. /\ Len(toApp) \in Nat /\ Len(toApp') = Len(toApp) + 1 /\ toApp'[Len(toApp) + 1] = r
          /\ \A i \in 1..Len(toApp) : toApp'[i] = toApp[i] /\ toApp[i] # r
          /\ \A i \in 1..Len(toApp') : i \in 1..Len(toApp) \/ i = Len(toApp) + 1
      BY <1>0, <1>1 DEF Types, Sent
    <2>. QED
      BY <1>0, <1>2, <2>1 DEF LinkOK
  <1>5. Types' /\ NoErrors'
    <2>1. toNet' \in Seq(Request)
      OBVIOUS
    <2>2. toApp' \in Seq(Response \cup Outcome \cup Received)
      <3>. DEFINE M == Response \cup Outcome \cup Received
      <3>1. toApp \in Seq(M) /\ r \in M
        BY <1>0, <1>1 DEF Types
      <3>. HIDE DEF M
      <3>2. Append(toApp, r) \in Seq(M)
        BY <3>1
      <3>. QED
        BY <1>1, <3>2 DEF M
    <2>. QED
      BY <1>0, <2>1, <2>2 DEF Types, NoErrors, hostVars
  <1>6. OwnerOK'
    BY <1>0, <1>1, <1>2, <1>3 DEF OwnerOK, hostVars
  <1>7. PlacesOK' /\ \A g : Flying(g)' <=> Flying(g)
    BY <1>0, <1>1, <1>3 DEF PlacesOK, Flying
  <1>8. FrameOK'
    <2>1. ResultOK(r)'
      BY <1>1, <1>7 DEF ResultOK, hostVars
    <2>. QED
      BY <1>0, <1>1, <1>2, <1>3, <1>7, <2>1 DEF FrameOK, hostVars
  <1>9. \A x \in RxSlots : Removing(x)' <=> Removing(x)
    BY DEF Removing, hostVars
  <1>10. HoldersOK'
    <2>1. \A b : ~Brings(r, b)
      BY <1>1 DEF Brings
    <2>2. \A n, b : Brings(n, b)' <=> Brings(n, b)
      BY DEF Brings
    <2>3. \A b \in RxBuffers : (\E n \in Sent' : Brings(n, b)) <=> \E n \in Sent : Brings(n, b)
      BY <1>3, <2>1
    <2>4. \A q \in Asked : q.op # "free"
      OBVIOUS
    <2>5. hostDst' = hostDst
      BY DEF hostVars
    <2>6. \A b \in RxBuffers : Held(b)' <=> Held(b)
      BY <1>2, <1>9, <2>2, <2>3, <2>4, <2>5 DEF Held
    <2>. QED
      BY <1>0, <1>2, <1>3, <1>9, <2>1, <2>2, <2>5, <2>6 DEF HoldersOK
  <1>11. FreeOK'
    BY <1>0, <1>2 DEF FreeOK, Freeing, hostVars
  <1>. QED
    BY <1>4, <1>5, <1>6, <1>7, <1>8, <1>10, <1>11 DEF IInv

\* The network core decodes a request: there is a slot for its frame, and the
\* buffer it frees is in use.
LEMMA NetDecodeKeeps ==
    ASSUME Orderly, IInv, NetDecode
    PROVE  IInv'
  <1>. DEFINE m == Head(toNet)
  <1>0. Types /\ NoErrors /\ LinkOK /\ OwnerOK /\ PlacesOK /\ FrameOK /\ HoldersOK /\ FreeOK
    BY DEF IInv
  <1>1. toNet # <<>> /\ netDec = none /\ toNet' = Tail(toNet) /\ UNCHANGED <<hostVars, netSrc, raced>>
    BY DEF NetDecode
  <1>2. Asked = {m} /\ Asked' = {} /\ toNet' = <<>> /\ Len(toNet') = 0 /\ m \in Request
    BY <1>0, <1>1, TakeNet
  <1>3. /\ m.op = "transmit" => DecodeTransmit(m) /\ UNCHANGED taken
        /\ m.op # "transmit" =>
              /\ netDec' = m
              /\ taken' = IF m.op = "free" /\ m.arg \in netSrc THEN taken \ {m.arg} ELSE taken
              /\ UNCHANGED <<netDst, sending, toApp, errors>>
    BY DEF NetDecode
  <1>. HIDE DEF m
  <1>4. m.by \in Threads /\ m.op \in Ops
    BY <1>2 DEF Request
  <1>5. /\ m.by = notifier.owner /\ m.op = call[m.by].op
        /\ m.op = "transmit" => m.arg = call[m.by].arg
        /\ notifier.got = none /\ \A n \in Sent : n.kind # "response"
    BY <1>0, <1>2 DEF OwnerOK
  <1>6. CASE m.op = "transmit"
    <2>1. m.arg \in Frames
      <3>1. call[m.by] \in Calls \cup {Idle}
        BY <1>0, <1>4 DEF Types
      <3>2. call[m.by].op = "transmit"
        BY <1>5, <1>6
      <3>3. call[m.by] \in Calls
        BY <3>1, <3>2 DEF Idle
      <3>4. call[m.by].arg \in Frames
        BY <3>2, <3>3 DEF Calls
      <3>. QED
        BY <1>5, <1>6, <3>4
    <2>2. app[m.arg] = "calling" /\ ~Flying(m.arg)
      BY <1>0, <1>2, <1>6 DEF FrameOK
    <2>3. FreeSlots(netDst) # {}
      <3>1. \A r \in TxSlots : netDst[r] # m.arg
        BY <1>0, <2>1, <2>2, Pools DEF Flying, PlacesOK
      <3>2. \A r, s \in TxSlots : netDst[r] = netDst[s] /\ netDst[r] # none => r = s
        BY <1>0 DEF PlacesOK
      <3>3. netDst \in [1..TX_BUFFERS -> Frames \cup {none}]
        BY <1>0 DEF Types, TxSlots
      <3>. QED
        BY <2>1, <3>1, <3>2, <3>3, Pools, SlotLeft DEF Orderly, TxSlots
    <2>. DEFINE s == Slot(netDst)
    <2>4. s \in TxSlots /\ netDst[s] = none
      BY <1>0, <2>3, Pools, SlotFree DEF Types, TxSlots
    <2>5. /\ \/ /\ netDst' = [netDst EXCEPT ![s] = m.arg]
                /\ sending' = sending \cup {s} /\ netDec' = m /\ UNCHANGED toApp
             \/ Respond(m, FALSE) /\ UNCHANGED <<netDec, netDst, sending>>
          /\ UNCHANGED <<errors, taken>>
      BY <1>3, <1>6, <2>3 DEF DecodeTransmit, RefusedRemoved
    <2>. HIDE DEF s
    <2>6. CASE /\ netDst' = [netDst EXCEPT ![s] = m.arg]
               /\ sending' = sending \cup {s} /\ netDec' = m /\ UNCHANGED toApp
      <3>1. UNCHANGED <<hostVars, netSrc, taken, raced, toApp, errors>>
        BY <1>1, <2>5, <2>6
      <3>. QED
        BY <1>1, <1>2, <1>6, <2>1, <2>4, <2>6, <3>1, DecodeAcceptedKeeps
    <2>7. CASE Respond(m, FALSE) /\ UNCHANGED <<netDec, netDst, sending>>
      <3>1. UNCHANGED <<hostVars, netDst, sending, taken, raced, errors>>
        BY <1>1, <2>5, <2>7
      <3>2. netSrc' = taken \ raced /\ netDec' = none
        BY <1>0, <1>1, <2>7 DEF FreeOK, Freeing
      <3>3. \A q \in Asked : q = m /\ m.op # "free"
        BY <1>2, <1>6
      <3>4. m.op = "transmit" => IF FALSE THEN app[m.arg] = "calling" => Flying(m.arg)
                                 ELSE app[m.arg] = "calling" /\ ~Flying(m.arg)
        BY <2>2
      <3>. QED
        BY <1>2, <1>5, <2>7, <3>1, <3>2, <3>3, <3>4, RespondKeeps
    <2>. QED
      BY <2>5, <2>6, <2>7
  <1>7. CASE m.op # "transmit"
    <2>0. /\ m.op = "free" => m.arg \in RxBuffers /\ m.arg \in taken
          /\ netSrc = taken \ raced /\ raced \subseteq taken /\ m # none
      <3>1. m.op = "free" => m.arg \in RxBuffers
        BY <1>0, <1>2 DEF FreeOK
      <3>2. m.op = "free" => m.arg \in taken
        BY <1>0, <1>2, <3>1 DEF HoldersOK, Held
      <3>3. netSrc = taken \ raced /\ raced \subseteq taken
        BY <1>0, <1>1 DEF FreeOK, Freeing
      <3>. QED
        BY <1>2, <3>1, <3>2, <3>3, Pools
    <2>1. /\ netDec' = m /\ UNCHANGED <<netDst, sending, toApp, errors, hostVars, netSrc, raced>>
          /\ taken' = IF m.op = "free" THEN taken \ ({m.arg} \ raced) ELSE taken
      BY <1>1, <1>3, <1>7, <2>0
    <2>2. Sent' = Sent /\ LinkOK'
      BY <1>0, <1>2, <2>1 DEF Sent, LinkOK
    <2>3. Types' /\ NoErrors'
      <3>1. toNet' \in Seq(Request)
        BY <1>2
      <3>. QED
        BY <1>0, <1>2, <2>1, <3>1 DEF Types, NoErrors, hostVars
    <2>4. OwnerOK'
      BY <1>0, <1>2, <1>5, <1>7, <2>1, <2>2 DEF OwnerOK, hostVars
    <2>5. PlacesOK' /\ \A g : Flying(g)' <=> Flying(g)
      BY <1>0, <2>1, <2>2 DEF PlacesOK, Flying
    <2>6. FrameOK'
      BY <1>0, <1>2, <1>5, <1>7, <2>1, <2>2, <2>5 DEF FrameOK, hostVars
    <2>7. \A r \in RxSlots : Removing(r)' <=> Removing(r)
      BY <2>1 DEF Removing, hostVars
    <2>8. HoldersOK'
      <3>1. \A n, b : Brings(n, b)' <=> Brings(n, b)
        BY DEF Brings
      <3>2. hostDst' = hostDst
        BY <2>1 DEF hostVars
      <3>3. ASSUME NEW b \in RxBuffers
            PROVE  (Held(b)' => b \in taken') /\ (b \in taken' \ raced => Held(b)')
        <4>1. Held(b)' <=> Held(b) /\ ~(m.op = "free" /\ b = m.arg)
          BY <1>0, <1>2, <2>2, <2>7, <3>1, <3>2 DEF HoldersOK, Held
        <4>2. (Held(b) => b \in taken) /\ (b \in taken \ raced => Held(b))
          BY <1>0 DEF HoldersOK
        <4>. QED
          BY <2>1, <4>1, <4>2
      <3>. QED
        BY <1>0, <1>2, <2>1, <2>2, <2>7, <3>1, <3>2, <3>3 DEF HoldersOK
    <2>9. FreeOK'
      <3>1. Freeing' = IF m.op = "free" THEN {m.arg} ELSE {}
        BY <2>0, <2>1 DEF Freeing
      <3>2. /\ netSrc' \subseteq taken' \cup Freeing' /\ taken' \ raced' \subseteq netSrc'
            /\ raced' \subseteq taken' /\ raced' \cap netSrc' \subseteq Freeing'
            /\ m.op = "free" /\ m.arg \in taken' => m.arg \in raced'
        BY <2>0, <2>1, <3>1
      <3>. QED
        BY <1>0, <1>2, <2>0, <2>1, <3>2 DEF FreeOK, hostVars
    <2>. QED
      BY <2>2, <2>3, <2>4, <2>5, <2>6, <2>8, <2>9 DEF IInv
  <1>. QED
    BY <1>6, <1>7

\* The network core answers the request it decoded.
LEMMA NetRespondKeeps ==
    ASSUME Orderly, IInv, NetRespond
    PROVE  IInv'
  <1>. DEFINE m == netDec
  <1>0. Types /\ OwnerOK /\ FrameOK /\ FreeOK
    BY DEF IInv
  <1>1. /\ m # none /\ m \in Request /\ HandleRemoved(m) /\ Respond(m, TRUE) /\ netDec' = none
        /\ UNCHANGED <<hostVars, netDst, sending, taken, raced, toNet, errors>>
    BY <1>0 DEF NetRespond, Types
  <1>2. Asked = {}
    BY <1>0, <1>1 DEF OwnerOK
  <1>3. /\ m.by = notifier.owner /\ m.op = call[m.by].op
        /\ m.op = "transmit" => m.arg = call[m.by].arg
        /\ notifier.got = none /\ \A n \in Sent : n.kind # "response"
    BY <1>0, <1>1 DEF OwnerOK
  <1>4. m.op = "transmit" => IF TRUE THEN app[m.arg] = "calling" => Flying(m.arg)
                             ELSE app[m.arg] = "calling" /\ ~Flying(m.arg)
    BY <1>0, <1>1 DEF FrameOK
  <1>5. netSrc' = taken \ raced
    BY <1>0, <1>1 DEF HandleRemoved, FreeOK, Freeing
  <1>6. toNet' = <<>>
    BY <1>0, <1>1, <1>2, LinkTypes
  <1>7. \A q \in Asked : q = m /\ m.op # "free"
    BY <1>2
  <1>8. UNCHANGED <<hostVars, netDst, sending, taken, raced, errors>>
    BY <1>1
  <1>. HIDE DEF m
  <1>. QED
    BY <1>1, <1>3, <1>4, <1>5, <1>6, <1>7, <1>8, RespondKeeps

\* A message m that brings buffer a (or none) is sent to the application.
LEMMA BufferSent ==
    ASSUME IInv, NEW m, NEW a, a \in RxBuffers \cup {none}, a \notin taken, m \notin Sent,
           \A b \in RxBuffers : Brings(m, b) <=> b = a,
           Sent' = Sent \cup {m}, Asked' = Asked,
           taken' = IF a = none THEN taken ELSE taken \cup {a},
           netSrc' = IF a = none THEN netSrc ELSE netSrc \cup {a},
           raced' = raced \cup ({a} \cap Freeing),
           UNCHANGED <<hostVars, netDec>>
    PROVE  HoldersOK' /\ FreeOK'
  <1>0. Types /\ HoldersOK /\ FreeOK
    BY DEF IInv
  <1>1. \A n, b : Brings(n, b)' <=> Brings(n, b)
    BY DEF Brings
  <1>2. \A s \in RxSlots : Removing(s)' <=> Removing(s)
    BY DEF Removing, hostVars
  <1>3. hostDst' = hostDst /\ call' = call
    BY DEF hostVars
  <1>4. a # none => /\ \A n \in Sent : ~Brings(n, a)
                    /\ \A s \in RxSlots : hostDst[s] = a => Removing(s)
                    /\ \A q \in Asked : q.op = "free" => q.arg # a
    BY <1>0 DEF HoldersOK, Held
  <1>5. \A s \in RxSlots : hostDst[s] # none => hostDst[s] \in RxBuffers
    BY <1>0 DEF Types
  <1>6. \A q \in Asked : q.op = "free" => q.arg \in RxBuffers
    BY <1>0 DEF FreeOK
  <1>7. HoldersOK'
    <2>1. \A n, o \in Sent' : \A b \in RxBuffers : Brings(n, b) /\ Brings(o, b) => n = o
      BY <1>0, <1>4, Pools DEF HoldersOK
    <2>2. \A n \in Sent' : \A s \in RxSlots :
             hostDst[s] # none /\ Brings(n, hostDst[s]) => Removing(s)
      <3>1. \A n \in Sent : \A s \in RxSlots :
               hostDst[s] # none /\ Brings(n, hostDst[s]) => Removing(s)
        BY <1>0 DEF HoldersOK
      <3>2. \A s \in RxSlots : hostDst[s] # none /\ Brings(m, hostDst[s]) => hostDst[s] = a
        BY <1>5
      <3>3. \A s \in RxSlots : hostDst[s] # none /\ Brings(m, hostDst[s]) => Removing(s)
        BY <1>4, <3>2
      <3>. QED
        BY <3>1, <3>3
    <2>3. \A n \in Sent' : \A q \in Asked : q.op = "free" => ~Brings(n, q.arg)
      <3>1. \A n \in Sent : \A q \in Asked : q.op = "free" => ~Brings(n, q.arg)
        BY <1>0 DEF HoldersOK
      <3>2. \A q \in Asked : q.op = "free" => ~Brings(m, q.arg)
        BY <1>4, <1>6, Pools
      <3>. QED
        BY <3>1, <3>2
    <2>4. ASSUME NEW b \in RxBuffers
          PROVE  (Held(b)' => b \in taken') /\ (b \in taken' \ raced' => Held(b)')
      <3>1. Held(b)' <=> Held(b) \/ b = a
        BY <1>1, <1>2, <1>3 DEF Held
      <3>2. (Held(b) => b \in taken) /\ (b \in taken \ raced => Held(b)) /\ b # none
        BY <1>0, Pools DEF HoldersOK
      <3>. QED
        BY <3>1, <3>2
    <2>. QED
      BY <1>0, <1>1, <1>2, <1>3, <2>1, <2>2, <2>3, <2>4 DEF HoldersOK
  <1>8. FreeOK'
    <2>1. Freeing' = Freeing /\ none \notin Freeing
      BY <1>0, Pools DEF Freeing, FreeOK
    <2>2. /\ netSrc' \subseteq taken' \cup Freeing' /\ taken' \ raced' \subseteq netSrc'
          /\ raced' \subseteq taken' /\ raced' \cap netSrc' \subseteq Freeing'
      BY <1>0, <2>1 DEF FreeOK
    <2>3. netDec # none /\ netDec.op = "free" =>
             netDec.arg \in RxBuffers /\ (netDec.arg \in taken' => netDec.arg \in raced')
      BY <1>0, <2>1 DEF FreeOK, Freeing
    <2>. QED
      BY <1>0, <1>3, <2>2, <2>3 DEF FreeOK
  <1>. QED
    BY <1>7, <1>8

\* nrf_802154_received_timestamp_raw: the driver hands over a buffer that nobody
\* holds, and there is room for its handle.
LEMMA FrameReceivedKeeps ==
    ASSUME Orderly, IInv, NEW b \in RxBuffers, FrameReceived(b)
    PROVE  IInv'
  <1>. DEFINE m == [kind |-> "received", buffer |-> b]
  <1>0. Types /\ NoErrors /\ LinkOK /\ OwnerOK /\ PlacesOK /\ FrameOK /\ HoldersOK /\ FreeOK
    BY DEF IInv
  <1>1. CanAdd(netSrc, RX_BUFFERS, b)
    <2>1. IsFiniteSet(RxBuffers) /\ RX_BUFFERS \in Nat /\ Cardinality(RxBuffers) <= RX_BUFFERS
      BY Pools
    <2>2. netSrc \subseteq RxBuffers
      BY <1>0 DEF Types
    <2>. QED
      BY <2>1, <2>2, RoomForAll
  <1>2. /\ b \notin taken /\ taken' = taken \cup {b} /\ netSrc' = netSrc \cup {b}
        /\ toApp' = Append(toApp, m) /\ raced' = raced \cup ({b} \cap Freeing)
        /\ UNCHANGED <<hostVars, netDec, netDst, sending, toNet, errors>>
    BY <1>1 DEF FrameReceived
  <1>3. m \in Received /\ m.kind = "received" /\ m.buffer = b
    BY DEF Received
  <1>. HIDE DEF m
  <1>4. \A a \in RxBuffers : Brings(m, a) <=> a = b
    BY <1>3 DEF Brings
  <1>5. m \notin Sent
    BY <1>0, <1>2, <1>4 DEF HoldersOK, Held
  <1>6. Sent' = Sent \cup {m} /\ LinkOK' /\ Asked' = Asked
    BY <1>0, <1>2, <1>5, SendApp
  <1>7. HoldersOK' /\ FreeOK'
    <2>1. UNCHANGED <<hostVars, netDec>> /\ b # none /\ b \in RxBuffers \cup {none}
      BY <1>2, Pools
    <2>. QED
      BY <1>2, <1>4, <1>5, <1>6, <2>1, BufferSent
  <1>8. Types' /\ NoErrors'
    <2>1. toApp' \in Seq(Response \cup Outcome \cup Received)
      <3>. DEFINE M == Response \cup Outcome \cup Received
      <3>1. toApp \in Seq(M) /\ m \in M
        BY <1>0, <1>3 DEF Types
      <3>. HIDE DEF M
      <3>2. Append(toApp, m) \in Seq(M)
        BY <3>1
      <3>. QED
        BY <1>2, <3>2 DEF M
    <2>. QED
      BY <1>0, <1>2, <2>1 DEF Types, NoErrors, hostVars
  <1>9. OwnerOK'
    BY <1>0, <1>2, <1>3, <1>6 DEF OwnerOK, hostVars
  <1>10. PlacesOK' /\ \A g : Flying(g)' <=> Flying(g)
    BY <1>0, <1>2, <1>3, <1>6 DEF PlacesOK, Flying
  <1>11. FrameOK'
    <2>1. \A n : ResultOK(n)' <=> ResultOK(n)
      BY <1>2, <1>10 DEF ResultOK, hostVars
    <2>. QED
      BY <1>0, <1>2, <1>3, <1>6, <1>10, <2>1 DEF FrameOK, hostVars
  <1>. QED
    BY <1>6, <1>7, <1>8, <1>9, <1>10, <1>11 DEF IInv

\* nrf_802154_transmit_failed and nrf_802154_transmitted_raw: the frame passes from
\* the driver to the outcome, the ACK to the application.
LEMMA CallOutKeeps ==
    ASSUME Orderly, IInv, NEW s \in TxSlots, CallOut(s)
    PROVE  IInv'
  <1>0. Types /\ NoErrors /\ LinkOK /\ OwnerOK /\ PlacesOK /\ FrameOK /\ HoldersOK /\ FreeOK
    BY DEF IInv
  <1>1. PICK a \in RxBuffers \cup {none} :
           /\ s \in sending /\ a \notin taken
           /\ taken' = (IF a = none THEN taken ELSE taken \cup {a})
           /\ netSrc' = (IF a = none THEN netSrc ELSE netSrc \cup {a})
           /\ raced' = raced \cup ({a} \cap Freeing)
           /\ toApp' = Append(toApp, [kind |-> "outcome", frame |-> netDst[s], ack |-> a])
           /\ netDst' = [netDst EXCEPT ![s] = none] /\ sending' = sending \ {s}
           /\ UNCHANGED <<hostVars, netDec, toNet, errors>>
    <2>1. CASE TransmissionEnds(s)
      <3>1. none \notin taken /\ none \notin Freeing
        BY <1>0, Pools DEF Types, Freeing, FreeOK
      <3>. QED
        BY <2>1, <3>1 DEF TransmissionEnds
    <2>2. CASE \E b \in RxBuffers : Acknowledged(s, b)
      <3>1. PICK b \in RxBuffers : Acknowledged(s, b)
        BY <2>2
      <3>2. CanAdd(netSrc, RX_BUFFERS, b)
        <4>1. IsFiniteSet(RxBuffers) /\ RX_BUFFERS \in Nat /\ Cardinality(RxBuffers) <= RX_BUFFERS
          BY Pools
        <4>2. netSrc \subseteq RxBuffers
          BY <1>0 DEF Types
        <4>. QED
          BY <4>1, <4>2, RoomForAll
      <3>3. b # none
        BY Pools
      <3>. QED
        BY <3>1, <3>2, <3>3 DEF Acknowledged
    <2>. QED
      BY <2>1, <2>2 DEF CallOut
  <1>. DEFINE f == netDst[s]
              m == [kind |-> "outcome", frame |-> f, ack |-> a]
  <1>2. f \in Frames
    BY <1>0, <1>1 DEF Types, PlacesOK
  <1>3. m \in Outcome /\ m.kind = "outcome" /\ m.frame = f /\ m.ack = a /\ toApp' = Append(toApp, m)
    BY <1>1, <1>2 DEF Outcome
  <1>. HIDE DEF m
  <1>4. \A b \in RxBuffers : Brings(m, b) <=> b = a
    BY <1>3 DEF Brings
  <1>5. m \notin Sent
    BY <1>0, <1>1, <1>3 DEF PlacesOK
  <1>6. Sent' = Sent \cup {m} /\ LinkOK' /\ Asked' = Asked
    BY <1>0, <1>1, <1>3, <1>5, SendApp
  <1>7. HoldersOK' /\ FreeOK'
    <2>1. UNCHANGED <<hostVars, netDec>>
      BY <1>1
    <2>. QED
      BY <1>1, <1>4, <1>5, <1>6, <2>1, BufferSent
  <1>8. /\ netDst' \in [TxSlots -> Frames \cup {none}]
        /\ \A r \in TxSlots : netDst'[r] = IF r = s THEN none ELSE netDst[r]
    BY <1>0, <1>1 DEF Types
  <1>9. Types' /\ NoErrors'
    <2>1. toApp' \in Seq(Response \cup Outcome \cup Received)
      <3>. DEFINE M == Response \cup Outcome \cup Received
      <3>1. toApp \in Seq(M) /\ m \in M
        BY <1>0, <1>3 DEF Types
      <3>. HIDE DEF M
      <3>2. Append(toApp, m) \in Seq(M)
        BY <3>1
      <3>. QED
        BY <1>3, <3>2 DEF M
    <2>. QED
      BY <1>0, <1>1, <1>8, <2>1 DEF Types, NoErrors, hostVars
  <1>10. OwnerOK'
    BY <1>0, <1>1, <1>3, <1>6 DEF OwnerOK, hostVars
  <1>11. sending \subseteq TxSlots
    BY <1>0 DEF Types
  <1>12. \A g : Flying(g)' <=> Flying(g)
    BY <1>0, <1>1, <1>3, <1>6, <1>8, <1>11 DEF Flying, PlacesOK
  <1>13. PlacesOK'
    <2>1. /\ \A r \in TxSlots : r \in sending' <=> netDst'[r] # none
          /\ \A r, q \in sending' : netDst'[r] = netDst'[q] => r = q
      BY <1>0, <1>1, <1>8, <1>11 DEF PlacesOK
    <2>2. \A n, o \in Sent' : /\ n.kind = "outcome" /\ o.kind = "outcome"
                              /\ n.frame = o.frame
                              => n = o
      BY <1>0, <1>1, <1>3, <1>6 DEF PlacesOK
    <2>3. \A n \in Sent' : \A r \in sending' : n.kind = "outcome" => n.frame # netDst'[r]
      BY <1>0, <1>1, <1>3, <1>6, <1>8, <1>11 DEF PlacesOK
    <2>. QED
      BY <2>1, <2>2, <2>3 DEF PlacesOK
  <1>14. FrameOK'
    <2>1. \A n : ResultOK(n)' <=> ResultOK(n)
      BY <1>1, <1>12 DEF ResultOK, hostVars
    <2>. QED
      BY <1>0, <1>1, <1>3, <1>6, <1>12, <2>1 DEF FrameOK, hostVars
  <1>. QED
    BY <1>6, <1>7, <1>9, <1>10, <1>13, <1>14 DEF IInv

\* A buffer that a message brought is paired with a slot of the application core.
LEMMA BufferStored ==
    ASSUME IInv, NEW m \in Sent, NEW b \in RxBuffers, Brings(m, b),
           \A a \in RxBuffers : Brings(m, a) => a = b,
           \A s \in RxSlots : ~Removing(s), NEW s \in RxSlots, hostDst[s] = none,
           hostDst' = [hostDst EXCEPT ![s] = b], Sent' = Sent \ {m}, Asked' = Asked,
           UNCHANGED <<call, netVars>>
    PROVE  HoldersOK' /\ FreeOK' /\ hostDst' \in [RxSlots -> RxBuffers \cup {none}]
  <1>0. Types /\ HoldersOK /\ FreeOK
    BY DEF IInv
  <1>1. \A n, a : Brings(n, a)' <=> Brings(n, a)
    BY DEF Brings
  <1>2. \A r \in RxSlots : ~Removing(r)'
    BY DEF Removing
  <1>3. /\ hostDst' \in [RxSlots -> RxBuffers \cup {none}]
        /\ \A r \in RxSlots : hostDst'[r] = IF r = s THEN b ELSE hostDst[r]
    BY <1>0 DEF Types
  <1>4. /\ \A n \in Sent : Brings(n, b) => n = m
        /\ \A r \in RxSlots : hostDst[r] # b
        /\ \A q \in Asked : q.op = "free" => q.arg # b
        /\ b \in taken /\ b # none
    BY <1>0, Pools DEF HoldersOK, Held
  <1>5. HoldersOK'
    <2>1. \A n \in Sent' : \A r \in RxSlots : hostDst'[r] # none => ~Brings(n, hostDst'[r])
      BY <1>0, <1>3, <1>4 DEF HoldersOK
    <2>2. \A x, r \in RxSlots : hostDst'[x] = hostDst'[r] /\ hostDst'[x] # none => x = r
      BY <1>0, <1>3, <1>4 DEF HoldersOK
    <2>3. \A r \in RxSlots : \A q \in Asked : q.op = "free" => hostDst'[r] # q.arg
      BY <1>0, <1>3, <1>4 DEF HoldersOK
    <2>4. ASSUME NEW a \in RxBuffers
          PROVE  Held(a)' <=> Held(a)
      <3>1. CASE a = b
        BY <1>2, <1>3, <1>4, <3>1 DEF Held
      <3>2. CASE a # b
        <4>1. (\E n \in Sent' : Brings(n, a)) <=> \E n \in Sent : Brings(n, a)
          BY <3>2
        <4>2. (\E r \in RxSlots : hostDst'[r] = a) <=> \E r \in RxSlots : hostDst[r] = a
          BY <1>3, <3>2, Pools
        <4>. QED
          BY <1>1, <1>2, <4>1, <4>2 DEF Held
      <3>. QED
        BY <3>1, <3>2
    <2>5. taken' = taken /\ raced' = raced
      BY DEF netVars
    <2>. QED
      BY <1>0, <1>1, <1>2, <2>1, <2>2, <2>3, <2>4, <2>5 DEF HoldersOK
  <1>6. FreeOK'
    <2>1. \A r \in RxSlots : hostDst[r] # none => hostDst'[r] # none
      BY <1>3, <1>4
    <2>2. \A t \in Threads : call[t].op = "free" => call[t].arg \in RxSlots
      BY <1>0 DEF Types, Idle, Calls
    <2>. QED
      BY <1>0, <2>1, <2>2 DEF FreeOK, Freeing, netVars
  <1>. QED
    BY <1>3, <1>5, <1>6

\* There is a slot of the application core for a buffer that a message brings.
LEMMA SlotForBuffer ==
    ASSUME IInv, NEW m \in Sent, NEW b \in RxBuffers, Brings(m, b),
           \A s \in RxSlots : ~Removing(s)
    PROVE  FreeSlots(hostDst) # {} /\ Slot(hostDst) \in RxSlots /\ hostDst[Slot(hostDst)] = none
  <1>0. Types /\ HoldersOK
    BY DEF IInv
  <1>1. FreeSlots(hostDst) # {}
    <2>1. \A s \in RxSlots : hostDst[s] # b
      BY <1>0, Pools DEF HoldersOK
    <2>2. \A r, s \in RxSlots : hostDst[r] = hostDst[s] /\ hostDst[r] # none => r = s
      BY <1>0 DEF HoldersOK
    <2>3. hostDst \in [1..RX_BUFFERS -> RxBuffers \cup {none}]
      BY <1>0 DEF Types, RxSlots
    <2>4. IsFiniteSet(RxBuffers) /\ RX_BUFFERS \in Nat /\ Cardinality(RxBuffers) <= RX_BUFFERS
      BY Pools
    <2>. QED
      BY <2>1, <2>2, <2>3, <2>4, SlotLeft DEF RxSlots
  <1>. QED
    BY <1>0, <1>1, Pools, SlotFree DEF Types, RxSlots

\* nrf_802154_spinel_decode_cmd_prop_value_is on the application core: a response
\* finds its call, an outcome its frame, and a buffer a slot.
LEMMA HostDecodeKeeps ==
    ASSUME Orderly, IInv, HostDecode
    PROVE  IInv'
  <1>m. PICK m : m = Head(toApp)
    OBVIOUS
  <1>0. Types /\ NoErrors /\ LinkOK /\ OwnerOK /\ PlacesOK /\ FrameOK /\ HoldersOK /\ FreeOK
    BY DEF IInv
  <1>1. /\ toApp # <<>> /\ \A t \in Threads : call[t].at # "remove"
        /\ toApp' = Tail(toApp) /\ UNCHANGED <<call, netVars, toNet>>
    BY DEF HostDecode, Orderly
  <1>2. /\ m.kind = "response" => DecodeResponse(m)
        /\ m.kind = "outcome" => DecodeOutcome(m)
        /\ m.kind = "received" => DecodeReceived(m)
    BY <1>m DEF HostDecode
  <1>3. /\ m \in Sent /\ Sent' = Sent \ {m} /\ LinkOK' /\ Asked' = Asked
        /\ Sent \subseteq Response \cup Outcome \cup Received
    <2>1. UNCHANGED toNet
      BY <1>1
    <2>. QED
      BY <1>m, <1>0, <1>1, <2>1, TakeApp, LinkTypes
  <1>4. toApp' \in Seq(Response \cup Outcome \cup Received)
    <2>. DEFINE M == Response \cup Outcome \cup Received
    <2>1. toApp \in Seq(M)
      BY <1>0 DEF Types
    <2>. HIDE DEF M
    <2>2. Tail(toApp) \in Seq(M)
      BY <1>1, <2>1
    <2>. QED
      BY <1>1, <2>2 DEF M
  <1>5. \A s \in RxSlots : ~Removing(s) /\ ~Removing(s)'
    BY <1>1 DEF Removing
  <1>6. CASE m.kind = "response"
    <2>1. m \in Response
      BY <1>3, <1>6 DEF Outcome, Received
    <2>2. /\ m.by = notifier.owner /\ m.op = call[m.by].op /\ m.by \in Threads
          /\ Asked = {} /\ netDec = none /\ notifier.got = none
          /\ \A n \in Sent' : n.kind # "response"
      BY <1>0, <1>3, <1>6, <2>1 DEF OwnerOK, Response
    <2>3. /\ notifier' = [notifier EXCEPT !.got = m]
          /\ UNCHANGED <<app, hostSrc, hostDst, errors>>
      <3>1. Accepts(m)
        BY <2>2, Pools DEF Accepts
      <3>. QED
        BY <1>2, <1>6, <3>1 DEF DecodeResponse
    <2>4. /\ notifier'.owner = notifier.owner /\ notifier'.got = m
          /\ notifier' \in [owner : Threads \cup {none}, got : Response \cup {none}]
      BY <1>0, <2>1, <2>3 DEF Types
    <2>5. Types' /\ NoErrors'
      BY <1>0, <1>1, <1>4, <2>3, <2>4 DEF Types, NoErrors, netVars
    <2>6. OwnerOK'
      BY <1>0, <1>1, <1>3, <2>2, <2>4 DEF OwnerOK, netVars
    <2>7. PlacesOK' /\ \A g : Flying(g)' <=> Flying(g)
      BY <1>0, <1>1, <1>3, <1>6 DEF PlacesOK, Flying, netVars
    <2>8. FrameOK'
      <3>1. ResultOK(m)'
        <4>1. ResultOK(m)
          BY <1>0, <1>3, <1>6 DEF FrameOK
        <4>. QED
          BY <1>1, <2>3, <2>7, <4>1 DEF ResultOK
      <3>. QED
        BY <1>0, <1>1, <1>3, <2>2, <2>3, <2>4, <2>7, <3>1 DEF FrameOK, netVars
    <2>9. HoldersOK'
      <3>1. \A n, b : Brings(n, b)' <=> Brings(n, b)
        BY DEF Brings
      <3>2. \A b : ~Brings(m, b)
        BY <1>6 DEF Brings
      <3>3. \A b \in RxBuffers : (\E n \in Sent' : Brings(n, b)) <=> \E n \in Sent : Brings(n, b)
        BY <1>3, <3>2
      <3>4. taken' = taken /\ raced' = raced /\ hostDst' = hostDst
        BY <1>1, <2>3 DEF netVars
      <3>5. \A b \in RxBuffers : Held(b)' <=> Held(b)
        BY <1>3, <1>5, <3>1, <3>3, <3>4 DEF Held
      <3>. QED
        BY <1>0, <1>3, <1>5, <3>1, <3>4, <3>5 DEF HoldersOK
    <2>10. FreeOK'
      BY <1>0, <1>1, <1>3, <2>3 DEF FreeOK, Freeing, netVars
    <2>. QED
      BY <1>3, <2>5, <2>6, <2>7, <2>8, <2>9, <2>10 DEF IInv
  <1>7. CASE m.kind = "outcome"
    <2>. DEFINE f == m.frame
                to == IF app[f] = "calling" THEN "calledOut" ELSE "idle"
    <2>1. f \in Frames /\ m.ack \in RxBuffers \cup {none}
      BY <1>3, <1>7 DEF Response, Received, Outcome
    <2>2. Flying(f) /\ app[f] \in {"calling", "sent"} /\ f \in hostSrc
      <3>1. Flying(f)
        BY <1>3, <1>7 DEF Flying
      <3>2. app[f] \in {"calling", "sent"}
        BY <1>0, <2>1, <3>1 DEF FrameOK, Types
      <3>. QED
        BY <1>0, <2>1, <3>1, <3>2 DEF FrameOK
    <2>3. m.ack # none => Brings(m, m.ack)
      BY <1>7 DEF Brings
    <2>4. m.ack # none => /\ FreeSlots(hostDst) # {} /\ Slot(hostDst) \in RxSlots
                          /\ hostDst[Slot(hostDst)] = none
      BY <1>3, <1>5, <2>1, <2>3, SlotForBuffer
    <2>5. /\ hostSrc' = hostSrc \ {f} /\ app' = [app EXCEPT ![f] = to]
          /\ hostDst' = (IF m.ack = none THEN hostDst
                         ELSE [hostDst EXCEPT ![Slot(hostDst)] = m.ack])
          /\ UNCHANGED <<notifier, errors>>
      BY <1>2, <1>7, <2>2, <2>4 DEF DecodeOutcome, Raise
    <2>6. \A g \in Frames : app'[g] = IF g = f THEN to ELSE app[g]
      BY <1>0, <2>5 DEF Types
    <2>7. /\ HoldersOK' /\ FreeOK'
          /\ hostDst' \in [RxSlots -> RxBuffers \cup {none}]
      <3>1. CASE m.ack = none
        <4>1. \A n, b : Brings(n, b)' <=> Brings(n, b)
          BY DEF Brings
        <4>2. \A b \in RxBuffers : ~Brings(m, b)
          BY <1>7, <3>1, Pools DEF Brings
        <4>3. \A b \in RxBuffers : (\E n \in Sent' : Brings(n, b)) <=> \E n \in Sent : Brings(n, b)
          BY <1>3, <4>2
        <4>4. taken' = taken /\ raced' = raced /\ hostDst' = hostDst
          BY <1>1, <2>5, <3>1 DEF netVars
        <4>5. HoldersOK'
          <5>1. \A b \in RxBuffers : Held(b)' <=> Held(b)
            BY <1>3, <1>5, <4>1, <4>3, <4>4 DEF Held
          <5>. QED
            BY <1>0, <1>3, <1>5, <4>1, <4>4, <5>1 DEF HoldersOK
        <4>6. FreeOK'
          BY <1>0, <1>1, <1>3, <4>4 DEF FreeOK, Freeing, netVars
        <4>. QED
          BY <1>0, <4>4, <4>5, <4>6 DEF Types
      <3>2. CASE m.ack # none
        <4>1. m.ack \in RxBuffers /\ \A b \in RxBuffers : Brings(m, b) => b = m.ack
          BY <1>7, <2>1, <3>2 DEF Brings
        <4>2. hostDst' = [hostDst EXCEPT ![Slot(hostDst)] = m.ack] /\ UNCHANGED <<call, netVars>>
          BY <1>1, <2>5, <3>2
        <4>. QED
          BY <1>3, <1>5, <2>3, <2>4, <3>2, <4>1, <4>2, BufferStored
      <3>. QED
        BY <3>1, <3>2
    <2>8. Types' /\ NoErrors'
      BY <1>0, <1>1, <1>4, <2>5, <2>7 DEF Types, NoErrors, netVars
    <2>9. OwnerOK'
      BY <1>0, <1>1, <1>3, <2>5 DEF OwnerOK, netVars
    <2>10. PlacesOK'
      BY <1>0, <1>1, <1>3 DEF PlacesOK, netVars
    <2>11. /\ \A g : Flying(g)' => Flying(g)
           /\ \A g : g # f => (Flying(g) => Flying(g)')
           /\ ~Flying(f)'
      BY <1>0, <1>1, <1>3, <1>7 DEF Flying, PlacesOK, netVars
    <2>12. FrameOK'
      <3>1. \A g \in Frames : /\ app'[g] \in {"idle", "calledOut"} => ~Flying(g)'
                              /\ app'[g] = "sent" => Flying(g)'
                              /\ app'[g] \in {"calling", "sent"} => g \in hostSrc'
        BY <1>0, <2>1, <2>5, <2>6, <2>11 DEF FrameOK
      <3>2. \A t \in Threads : call[t].op = "transmit" => call[t].arg \in Frames
        BY <1>0 DEF Types, Idle, Calls
      <3>3. \A t \in Threads : call[t].op = "transmit" =>
               /\ app'[call[t].arg] \in {"calling", "calledOut"}
               /\ call[t].at = "lock" => app'[call[t].arg] = "calling" /\ ~Flying(call[t].arg)'
        <4>1. ASSUME NEW t \in Threads, call[t].op = "transmit"
              PROVE  /\ app[call[t].arg] \in {"calling", "calledOut"}
                     /\ call[t].at = "lock" =>
                           app[call[t].arg] = "calling" /\ ~Flying(call[t].arg)
          BY <1>0, <4>1 DEF FrameOK
        <4>2. ASSUME NEW g \in Frames, app[g] \in {"calling", "calledOut"}
              PROVE  app'[g] \in {"calling", "calledOut"}
          BY <2>2, <2>6, <4>2
        <4>3. ASSUME NEW g \in Frames, ~Flying(g), app[g] = "calling"
              PROVE  app'[g] = "calling" /\ ~Flying(g)'
          BY <2>2, <2>6, <2>11, <4>3
        <4>4. call' = call
          BY <1>1
        <4>. HIDE DEF f, to
        <4>. QED
          BY <3>2, <4>1, <4>2, <4>3, <4>4
      <3>4. /\ \A q \in Asked : q.op = "transmit" => q.arg \in Frames
            /\ netDec # none /\ netDec.op = "transmit" => netDec.arg \in Frames
        <4>1. Asked \subseteq Request /\ netDec \in Request \cup {none}
          BY <1>0, LinkTypes DEF Types
        <4>2. /\ \A q \in Asked : q.by \in Threads
              /\ netDec # none => netDec.by \in Threads
          BY <4>1 DEF Request
        <4>. QED
          BY <1>0, <3>2, <4>2 DEF OwnerOK
      <3>5. /\ \A q \in Asked : q.op = "transmit" => app'[q.arg] = "calling" /\ ~Flying(q.arg)'
            /\ netDec # none /\ netDec.op = "transmit" =>
                  (app'[netDec.arg] = "calling" => Flying(netDec.arg)')
        <4>1. /\ \A q \in Asked : q.op = "transmit" => app[q.arg] = "calling" /\ ~Flying(q.arg)
              /\ netDec # none /\ netDec.op = "transmit" =>
                    (app[netDec.arg] = "calling" => Flying(netDec.arg))
          BY <1>0 DEF FrameOK
        <4>2. ASSUME NEW g \in Frames, ~Flying(g), app[g] = "calling"
              PROVE  app'[g] = "calling" /\ ~Flying(g)'
          BY <2>2, <2>6, <2>11, <4>2
        <4>3. ASSUME NEW g \in Frames, app[g] = "calling" => Flying(g), app'[g] = "calling"
              PROVE  Flying(g)'
          BY <2>6, <2>11, <4>3
        <4>4. netDec' = netDec
          BY <1>1 DEF netVars
        <4>5. \A q \in Asked : q.op = "transmit" => app'[q.arg] = "calling" /\ ~Flying(q.arg)'
          BY <3>4, <4>1, <4>2
        <4>6. netDec # none /\ netDec.op = "transmit" =>
                  (app'[netDec.arg] = "calling" => Flying(netDec.arg)')
          BY <3>4, <4>1, <4>3, <4>4
        <4>. QED
          BY <4>5, <4>6
      <3>6. ASSUME NEW n, n.op = "transmit" => call[n.by].arg \in Frames, ResultOK(n)
            PROVE  ResultOK(n)'
        BY <1>1, <2>2, <2>6, <2>11, <3>6 DEF ResultOK
      <3>7. /\ \A n \in Sent : n.kind = "response" /\ n.op = "transmit" => call[n.by].arg \in Frames
            /\ notifier.got # none /\ notifier.got.op = "transmit" =>
                  call[notifier.got.by].arg \in Frames
        <4>1. /\ \A n \in Sent : n.kind = "response" => n.by \in Threads
              /\ notifier.got # none => notifier.got.by \in Threads
          BY <1>0, <1>3 DEF Types, Response, Outcome, Received
        <4>. QED
          BY <1>0, <3>2, <4>1 DEF OwnerOK
      <3>8. /\ \A n \in Sent : n.kind = "response" => ResultOK(n)'
            /\ notifier.got # none => ResultOK(notifier.got)'
        BY <1>0, <2>5, <3>6, <3>7 DEF FrameOK
      <3>. QED
        BY <1>0, <1>1, <1>3, <2>5, <3>1, <3>3, <3>5, <3>8 DEF FrameOK, netVars
    <2>. QED
      BY <1>3, <2>7, <2>8, <2>9, <2>10, <2>12 DEF IInv
  <1>8. CASE m.kind = "received"
    <2>. DEFINE b == m.buffer
    <2>1. b \in RxBuffers /\ Brings(m, b) /\ \A a \in RxBuffers : Brings(m, a) => a = b
      BY <1>3, <1>8 DEF Response, Outcome, Received, Brings
    <2>2. /\ FreeSlots(hostDst) # {} /\ Slot(hostDst) \in RxSlots
          /\ hostDst[Slot(hostDst)] = none
      BY <1>3, <1>5, <2>1, SlotForBuffer
    <2>3. /\ hostDst' = [hostDst EXCEPT ![Slot(hostDst)] = b]
          /\ UNCHANGED <<app, hostSrc, notifier, errors>> /\ UNCHANGED <<call, netVars>>
      BY <1>1, <1>2, <1>8, <2>2 DEF DecodeReceived
    <2>4. HoldersOK' /\ FreeOK' /\ hostDst' \in [RxSlots -> RxBuffers \cup {none}]
      BY <1>3, <1>5, <2>1, <2>2, <2>3, BufferStored
    <2>5. Types' /\ NoErrors'
      BY <1>0, <1>1, <1>4, <2>3, <2>4 DEF Types, NoErrors, netVars
    <2>6. OwnerOK'
      BY <1>0, <1>1, <1>3, <2>3 DEF OwnerOK, netVars
    <2>7. PlacesOK' /\ \A g : Flying(g)' <=> Flying(g)
      BY <1>0, <1>1, <1>3, <1>8 DEF PlacesOK, Flying, netVars
    <2>8. FrameOK'
      <3>1. \A n : ResultOK(n)' <=> ResultOK(n)
        BY <1>1, <2>3, <2>7 DEF ResultOK
      <3>. QED
        BY <1>0, <1>1, <1>3, <2>3, <2>7, <3>1 DEF FrameOK, netVars
    <2>. QED
      BY <1>3, <2>4, <2>5, <2>6, <2>7, <2>8 DEF IInv
  <1>9. m.kind \in {"response", "outcome", "received"}
    BY <1>3 DEF Response, Outcome, Received
  <1>. QED
    BY <1>6, <1>7, <1>8, <1>9

\* Every step keeps the invariant.
LEMMA NextIInv == Orderly /\ IInv /\ [Next]_vars => IInv'
  <1>. SUFFICES ASSUME Orderly, IInv, [Next]_vars PROVE IInv'
    OBVIOUS
  <1>1. CASE Next
    <2>1. ASSUME NEW t \in Threads, NEW f \in Frames, TransmitCall(t, f) PROVE IInv'
      BY <2>1, TransmitCallKeeps
    <2>2. ASSUME NEW t \in Threads, (\E s \in RxSlots : FreeCall(t, s)) \/ SetCall(t) PROVE IInv'
      BY <2>2, OtherCallKeeps
    <2>3. ASSUME NEW t \in Threads, LockAndSend(t) PROVE IInv'
      BY <2>3, LockAndSendKeeps
    <2>4. ASSUME NEW t \in Threads, FreeRemove(t) PROVE IInv'
      BY <2>4, FreeRemoveKeeps
    <2>5. ASSUME NEW t \in Threads, Return(t) PROVE IInv'
      BY <2>5, ReturnKeeps
    <2>6. ASSUME NEW b \in RxBuffers, FrameReceived(b) PROVE IInv'
      BY <2>6, FrameReceivedKeeps
    <2>7. ASSUME NEW s \in TxSlots, CallOut(s) PROVE IInv'
      BY <2>7, CallOutKeeps
    <2>. QED
      BY <1>1, <2>1, <2>2, <2>3, <2>4, <2>5, <2>6, <2>7, NetDecodeKeeps, NetRespondKeeps,
         HostDecodeKeeps DEF Next
  <1>2. CASE UNCHANGED vars
    <2>1. UNCHANGED <<call, app, hostSrc, hostDst, notifier, netDec, netSrc, netDst, sending, taken,
                      raced, toNet, toApp, errors>>
      BY <1>2 DEF vars, hostVars, netVars
    <2>2. /\ Asked' = Asked /\ Sent' = Sent
          /\ \A g : Flying(g)' <=> Flying(g)
          /\ \A s : Removing(s)' <=> Removing(s)
          /\ \A m, b : Brings(m, b)' <=> Brings(m, b)
      BY <2>1 DEF Asked, Sent, Flying, Brings, Removing
    <2>3. \A m : ResultOK(m)' <=> ResultOK(m)
      BY <2>1, <2>2 DEF ResultOK
    <2>4. Types' /\ NoErrors' /\ LinkOK'
      BY <2>1 DEF IInv, Types, NoErrors, LinkOK
    <2>5. OwnerOK' /\ PlacesOK' /\ FreeOK'
      BY <2>1, <2>2 DEF IInv, OwnerOK, PlacesOK, FreeOK, Freeing
    <2>6. FrameOK'
      BY <2>1, <2>2, <2>3 DEF IInv, FrameOK
    <2>7. HoldersOK'
      BY <2>1, <2>2 DEF IInv, HoldersOK, Held
    <2>. QED
      BY <2>4, <2>5, <2>6, <2>7 DEF IInv
  <1>. QED
    BY <1>1, <1>2

-----------------------------------------------------------------------------
\* The frames, buffers and calls of the two cores stay paired, whatever the
\* interleaving of threads, decoders and callouts.
THEOREM SerInvariant == Orderly => (Spec => []IInv)
  <1>1. ASSUME Orderly PROVE Spec => []IInv
    <2>1. IInv /\ [Next]_vars => IInv'
      BY <1>1, NextIInv
    <2>. QED
      BY <2>1, InitIInv, PTL DEF Spec
  <1>. QED
    BY <1>1

\* No error is raised.
THEOREM SerErrors == Orderly => (Spec => []NoErrors)
  <1>1. ASSUME Orderly PROVE Spec => []NoErrors
    <2>1. IInv => NoErrors
      BY DEF IInv
    <2>2. Spec => []IInv
      BY <1>1, SerInvariant
    <2>. QED
      BY <2>1, <2>2, PTL
  <1>. QED
    BY <1>1

\* A call takes the response to its own request.
THEOREM SerResponse == Orderly => (Spec => []ResponseMatches)
  <1>1. ASSUME Orderly PROVE Spec => []ResponseMatches
    <2>1. IInv => ResponseMatches
      BY DEF IInv, OwnerOK, ResponseMatches
    <2>2. Spec => []IInv
      BY <1>1, SerInvariant
    <2>. QED
      BY <2>1, <2>2, PTL
  <1>. QED
    BY <1>1

\* Where the messages of the links are.
LEMMA Places ==
    ASSUME Types
    PROVE  /\ DOMAIN toNet = 1..Len(toNet) /\ DOMAIN toApp = 1..Len(toApp)
           /\ \A i \in DOMAIN toNet : toNet[i] \in Asked
           /\ \A i \in DOMAIN toApp : toApp[i] \in Sent
           /\ \A q \in Asked : \E i \in DOMAIN toNet : q = toNet[i]
           /\ \A m \in Sent : \E i \in DOMAIN toApp : m = toApp[i]
  <1>1. DOMAIN toNet = 1..Len(toNet) /\ DOMAIN toApp = 1..Len(toApp)
    BY DEF Types
  <1>. QED
    BY <1>1 DEF Asked, Sent

\* A frame that is on its way is in one place.
LEMMA OneCarrier ==
    ASSUME IInv, NEW f \in Frames, Flying(f), \A q \in Asked : ~(q.op = "transmit" /\ q.arg = f)
    PROVE  \E x : Carriers(f) = {x}
  <1>0. Types /\ LinkOK /\ PlacesOK
    BY DEF IInv
  <1>. DEFINE R == {i \in DOMAIN toNet : toNet[i].op = "transmit" /\ toNet[i].arg = f}
              S == {s \in sending : netDst[s] = f}
              O == {i \in DOMAIN toApp : toApp[i].kind = "outcome" /\ toApp[i].frame = f}
  <1>1. R = {}
    BY <1>0, Places
  <1>2. Carriers(f) = {<<"driver", s>> : s \in S} \cup {<<"outcome", i>> : i \in O}
    <2>1. Carriers(f) = {<<"request", i>> : i \in R} \cup {<<"driver", s>> : s \in S}
                        \cup {<<"outcome", i>> : i \in O}
      BY DEF Carriers
    <2>. HIDE DEF R, S, O
    <2>. QED
      BY <1>1, <2>1
  <1>3. CASE \E s \in sending : netDst[s] = f
    <2>1. PICK s \in sending : netDst[s] = f
      BY <1>3
    <2>2. S = {s}
      BY <1>0, <2>1 DEF PlacesOK
    <2>3. O = {}
      BY <1>0, <2>1, Places DEF PlacesOK
    <2>. HIDE DEF S, O
    <2>4. Carriers(f) = {<<"driver", s>>}
      BY <1>2, <2>2, <2>3
    <2>. QED
      BY <2>4
  <1>4. CASE \E m \in Sent : m.kind = "outcome" /\ m.frame = f
    <2>1. PICK i \in DOMAIN toApp : toApp[i].kind = "outcome" /\ toApp[i].frame = f
      BY <1>0, <1>4, Places
    <2>2. toApp[i] \in Sent
      BY <1>0, Places
    <2>3. S = {}
      BY <1>0, <2>1, <2>2 DEF PlacesOK
    <2>4. ASSUME NEW j \in DOMAIN toApp, toApp[j].kind = "outcome", toApp[j].frame = f PROVE j = i
      <3>1. toApp[j] = toApp[i]
        BY <1>0, <2>1, <2>2, <2>4, Places DEF PlacesOK
      <3>. QED
        BY <1>0, <3>1, Places DEF LinkOK
    <2>5. O = {i}
      BY <2>1, <2>4
    <2>. HIDE DEF S, O
    <2>6. Carriers(f) = {<<"outcome", i>>}
      BY <1>2, <2>3, <2>5
    <2>. QED
      BY <2>6
  <1>. QED
    BY <1>3, <1>4 DEF Flying

\* A frame that is not on its way is nowhere.
LEMMA NoCarrier ==
    ASSUME IInv, NEW f \in Frames, ~Flying(f), \A q \in Asked : ~(q.op = "transmit" /\ q.arg = f)
    PROVE  Carriers(f) = {}
  <1>0. Types
    BY DEF IInv
  <1>1. /\ {i \in DOMAIN toNet : toNet[i].op = "transmit" /\ toNet[i].arg = f} = {}
        /\ {s \in sending : netDst[s] = f} = {}
        /\ {i \in DOMAIN toApp : toApp[i].kind = "outcome" /\ toApp[i].frame = f} = {}
    BY <1>0, Places DEF Flying
  <1>. QED
    BY <1>1 DEF Carriers

\* A frame the application believes is being transmitted is, once, and its handle
\* is known; no outcome is on its way for a frame the application has back.
THEOREM SerTracked == Orderly => (Spec => []TransmissionTracked)
  <1>1. ASSUME Orderly PROVE Spec => []TransmissionTracked
    <2>1. IInv => TransmissionTracked
      <3>. SUFFICES ASSUME IInv PROVE TransmissionTracked
        OBVIOUS
      <3>0. Types /\ NoErrors /\ OwnerOK /\ FrameOK
        BY DEF IInv
      <3>1. TypeOK
        <4>1. IsFiniteSet(Frames) /\ TX_BUFFERS \in Nat /\ Cardinality(Frames) <= TX_BUFFERS
          BY <1>1, Pools DEF Orderly
        <4>2. hostSrc \subseteq Frames /\ netSrc \subseteq RxBuffers
          BY <3>0 DEF Types
        <4>3. Cardinality(hostSrc) <= TX_BUFFERS
          <5>1. IsFiniteSet(hostSrc) /\ Cardinality(hostSrc) <= Cardinality(Frames)
            BY <4>1, <4>2, FS_Subset
          <5>2. Cardinality(hostSrc) \in Nat /\ Cardinality(Frames) \in Nat
            BY <4>1, <5>1, FS_CardinalityType
          <5>. QED
            BY <4>1, <5>1, <5>2
        <4>4. Cardinality(netSrc) <= RX_BUFFERS
          <5>1. IsFiniteSet(RxBuffers) /\ Cardinality(RxBuffers) = RX_BUFFERS
            BY Pools
          <5>2. Cardinality(netSrc) <= Cardinality(RxBuffers)
            BY <4>2, <5>1, FS_Subset
          <5>. QED
            BY <5>1, <5>2
        <4>5. errors \subseteq {"NO_MEMORY", "INVALID_BUFFER", "RESPONSE_TIMEOUT"}
          BY <3>0 DEF NoErrors
        <4>6. raced \subseteq taken
          BY DEF IInv, FreeOK
        <4>. QED
          BY <3>0, <4>3, <4>4, <4>5, <4>6 DEF Types, TypeOK
      <3>2. ASSUME NEW f \in Frames, app[f] \in {"sent", "idle"}
            PROVE  \A q \in Asked : ~(q.op = "transmit" /\ q.arg = f)
        BY <3>0, <3>2 DEF FrameOK
      <3>3. ASSUME NEW f \in Frames, app[f] = "sent"
            PROVE  f \in hostSrc /\ Cardinality(Carriers(f)) = 1
        <4>1. f \in hostSrc /\ Flying(f)
          BY <3>0, <3>3 DEF FrameOK
        <4>2. PICK x : Carriers(f) = {x}
          BY <3>2, <3>3, <4>1, OneCarrier
        <4>. QED
          BY <4>1, <4>2, FS_Singleton
      <3>4. ASSUME NEW f \in Frames, app[f] = "idle" PROVE Carriers(f) = {}
        <4>1. ~Flying(f)
          BY <3>0, <3>4 DEF FrameOK
        <4>. QED
          BY <3>2, <3>4, <4>1, NoCarrier
      <3>. QED
        BY <3>1, <3>3, <3>4 DEF TransmissionTracked
    <2>2. Spec => []IInv
      BY <1>1, SerInvariant
    <2>. QED
      BY <2>1, <2>2, PTL
  <1>. QED
    BY <1>1

\* A receive buffer is held once or, if it is free or was received into while it
\* was being freed, not at all.
LEMMA HeldOnce ==
    ASSUME IInv, NEW b \in RxBuffers
    PROVE  IF Held(b) THEN \E x : Holders(b) = {x} ELSE Holders(b) = {}
  <1>0. Types /\ LinkOK /\ HoldersOK
    BY DEF IInv
  <1>. DEFINE M == {i \in DOMAIN toApp :
                      \/ toApp[i].kind = "received" /\ toApp[i].buffer = b
                      \/ toApp[i].kind = "outcome" /\ toApp[i].ack = b}
              S == {s \in RxSlots : hostDst[s] = b /\
                      \A t \in Threads : ~(call[t].at = "remove" /\ call[t].arg = s)}
              R == {i \in DOMAIN toNet : toNet[i].op = "free" /\ toNet[i].arg = b}
  <1>1. Holders(b) = {<<"message", i>> : i \in M} \cup {<<"slot", s>> : s \in S}
                     \cup {<<"request", i>> : i \in R}
    BY DEF Holders
  <1>2. M = {i \in DOMAIN toApp : Brings(toApp[i], b)}
    BY DEF Brings
  <1>3. S = {s \in RxSlots : hostDst[s] = b /\ ~Removing(s)}
    BY DEF Removing
  <1>4. /\ \A i \in M : toApp[i] \in Sent
        /\ \A i \in R : toNet[i] \in Asked
        /\ Held(b) <=> M # {} \/ S # {} \/ R # {}
    <2>1. M # {} <=> \E m \in Sent : Brings(m, b)
      BY <1>0, <1>2, Places
    <2>2. S # {} <=> \E s \in RxSlots : hostDst[s] = b /\ ~Removing(s)
      BY <1>3
    <2>3. R # {} <=> \E q \in Asked : q.op = "free" /\ q.arg = b
      BY <1>0, Places
    <2>4. Held(b) <=> \/ \E m \in Sent : Brings(m, b)
                      \/ \E s \in RxSlots : hostDst[s] = b /\ ~Removing(s)
                      \/ \E q \in Asked : q.op = "free" /\ q.arg = b
      BY DEF Held
    <2>5. (\A i \in M : toApp[i] \in Sent) /\ \A i \in R : toNet[i] \in Asked
      BY <1>0, Places
    <2>. HIDE DEF M, S, R
    <2>. QED
      BY <2>1, <2>2, <2>3, <2>4, <2>5
  <1>5. \A i, j \in M : i = j
    <2>1. \A i, j \in M : toApp[i] = toApp[j]
      BY <1>0, <1>2, <1>4 DEF HoldersOK
    <2>2. M \subseteq 1..Len(toApp)
      BY <1>0, Places
    <2>. HIDE DEF M
    <2>. QED
      BY <1>0, <2>1, <2>2 DEF LinkOK
  <1>6. \A r, s \in S : r = s
    BY <1>0, <1>3, Pools DEF HoldersOK
  <1>7. \A i, j \in R : i = j
    <2>1. R \subseteq 1..Len(toNet) /\ Len(toNet) \in Nat /\ Len(toNet) <= 1
      BY <1>0, Places DEF LinkOK, Types
    <2>. DEFINE n == Len(toNet)
    <2>. HIDE DEF R, n
    <2>2. \A i, j \in 1..n : i = j
      BY <2>1 DEF n
    <2>. QED
      BY <2>1, <2>2 DEF n
  <1>8. (M # {} => S = {} /\ R = {}) /\ (S # {} => R = {})
    <2>1. ASSUME NEW i \in M, NEW s \in S PROVE FALSE
      BY <1>0, <1>2, <1>3, <1>4, Pools DEF HoldersOK
    <2>2. ASSUME NEW i \in M, NEW j \in R PROVE FALSE
      BY <1>0, <1>2, <1>4 DEF HoldersOK
    <2>3. ASSUME NEW s \in S, NEW j \in R PROVE FALSE
      BY <1>0, <1>3, <1>4 DEF HoldersOK
    <2>. HIDE DEF M, S, R
    <2>. QED
      BY <2>1, <2>2, <2>3
  <1>. HIDE DEF M, S, R
  <1>9. CASE ~Held(b)
    BY <1>1, <1>4, <1>9
  <1>10. CASE Held(b)
    <2>1. CASE M # {}
      <3>1. PICK i : M = {i}
        BY <1>5, <2>1
      <3>2. Holders(b) = {<<"message", i>>}
        BY <1>1, <1>8, <3>1
      <3>. QED
        BY <1>10, <3>2
    <2>2. CASE S # {}
      <3>1. PICK s : S = {s}
        BY <1>6, <2>2
      <3>2. Holders(b) = {<<"slot", s>>}
        BY <1>1, <1>8, <3>1
      <3>. QED
        BY <1>10, <3>2
    <2>3. CASE R # {}
      <3>1. PICK i : R = {i}
        BY <1>7, <2>3
      <3>2. Holders(b) = {<<"request", i>>}
        BY <1>1, <1>8, <3>1
      <3>. QED
        BY <1>10, <3>2
    <2>. QED
      BY <1>4, <1>10, <2>1, <2>2, <2>3
  <1>. QED
    BY <1>9, <1>10

\* No receive buffer is held twice, and one with a frame is held and known to the
\* source map of the network core unless it was received into between its release
\* and the removal of its handle, wherever the callouts preempt the decoder.
THEOREM SerAccounted == Orderly => (Spec => []RxBuffersAccounted)
  <1>1. ASSUME Orderly PROVE Spec => []RxBuffersAccounted
    <2>1. IInv => RxBuffersAccounted
      <3>. SUFFICES ASSUME IInv PROVE RxBuffersAccounted
        OBVIOUS
      <3>1. ASSUME NEW b \in RxBuffers
            PROVE  Cardinality(Holders(b)) = IF Held(b) THEN 1 ELSE 0
        <4>1. CASE Held(b)
          <5>1. PICK x : Holders(b) = {x}
            BY <4>1, HeldOnce
          <5>2. Cardinality({x}) = 1
            BY FS_Singleton
          <5>. QED
            BY <4>1, <5>1, <5>2
        <4>2. CASE ~Held(b)
          <5>1. Holders(b) = {}
            BY <4>2, HeldOnce
          <5>2. Cardinality({}) = 0
            BY FS_EmptySet
          <5>. QED
            BY <4>2, <5>1, <5>2
        <4>. QED
          BY <4>1, <4>2
      <3>2. \A b \in RxBuffers : (Held(b) => b \in taken) /\ (b \in taken \ raced => Held(b))
        BY DEF IInv, HoldersOK
      <3>3. taken \ raced \subseteq netSrc /\ netSrc \subseteq taken \cup Freeing
        BY DEF IInv, FreeOK
      <3>. QED
        BY <3>1, <3>2, <3>3 DEF RxBuffersAccounted
    <2>2. Spec => []IInv
      BY <1>1, SerInvariant
    <2>. QED
      BY <2>1, <2>2, PTL
  <1>. QED
    BY <1>1
=============================================================================
