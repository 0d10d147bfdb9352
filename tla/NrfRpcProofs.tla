---------------------------- MODULE NrfRpcProofs ----------------------------
(***************************************************************************)
(* Proofs about the command layer of nRF RPC, for any threads, contexts    *)
(* and depth of nesting.                                                   *)
(*                                                                         *)
(* First the account of contexts, AInv, which holds whatever is sent,      *)
(* refused, aborted or timed out: a thread has a context exactly while     *)
(* frames of its stack use it, and use_count is their number.              *)
(*                                                                         *)
(* Then the routes, RInv.  A call that waits is in at most one place: in a *)
(* packet, in the message of a context, or in a handler.  Wherever it is,  *)
(* it still leads back to the context of its caller, and a command issued  *)
(* by a handler leads to the context that waits for this handler.  A       *)
(* thread has at most one call that nothing has answered yet, so a message *)
(* finds the message slot empty and the right call on top of the stack.    *)
(***************************************************************************)
EXTENDS NrfRpc, FiniteSetTheorems, TLAPS

\* What a stack, a packet and a context hold.
CmdFrame == [k : {"cmd"}, st : {"lock", "reserve", "send", "get"}, conv : Nat \ {0},
             parent : Nat, h : BOOLEAN, old : BOOLEAN]
FreshFrame == [k : {"exec"}, st : {"alloc", "decode", "run"}, conv : Nat \ {0},
               src : Ctxs \cup {Unknown}, fresh : {TRUE}]
NestedFrame == [k : {"exec"}, st : {"decode", "run"}, conv : Nat \ {0}, fresh : {FALSE}]
EvtFrame == [k : {"evt"}, st : {"decode", "run"}]
RspFrame == [k : {"rsp"}, st : {"decode"}]
Frame == CmdFrame \cup FreshFrame \cup NestedFrame \cup EvtFrame \cup RspFrame

Packet == [type : {"CMD", "RSP"}, src : Ctxs \cup {Unknown}, dst : Ctxs \cup {Unknown},
           conv : Nat \ {0}, parent : Nat]
          \cup [type : {"EVT", "ACK"}, src : {Unknown}, dst : {Unknown}, conv : {0}, parent : {0}]
Message == Packet \cup [type : {HANDLED}, conv : Nat \ {0}] \cup {NoMsg, ABORT}
Context == [reserved : BOOLEAN, use : Nat, remote : Ctxs \cup {Unknown}, handler : BOOLEAN,
            owner : Threads \cup {NoOne}, msg : Message]

Types ==
    /\ stack \in [Threads -> Seq(Frame)]
    /\ tls \in [Threads -> Ctxs \cup {NoOne}]
    /\ ctx \in [Peers -> [Ctxs -> Context]]
    /\ net \in [Peers -> Seq(Packet)]
    /\ rx \in [Peers -> {"idle", "admit", "decode"}]
    /\ cleanup \in [Peers -> Threads \cup {NoOne, Stopper}]
    /\ stops \in [Peers -> Nat] /\ stopAt \in [Peers -> SUBSET Ctxs]
    /\ calls \in Nat
    /\ \A p \in Peers : rx[p] = "admit" => net[p] # <<>>

\* A call waits below the commands that its answer depends on.
StackOK ==
    \A t \in Threads : \A n \in 1..Len(stack[t]) :
        LET f == stack[t][n]
            below == stack[t][n - 1] IN
        /\ n < Len(stack[t]) => \/ f.k = "cmd" /\ f.st = "get"
                                \/ f.k \in {"exec", "evt"} /\ f.st = "run"
        /\ f.k = "evt" => n = 1
        /\ f.k = "exec" => (f.fresh <=> n = 1)
        /\ n > 1 => IF f.k = "exec" THEN below.k = "cmd" ELSE below.k \in {"exec", "evt"}
        /\ f.k = "cmd" => /\ n <= MaxDepth
                          /\ f.parent = IF n > 1 /\ below.k = "exec" THEN below.conv ELSE 0

\* The frames of thread t that use its context.
InUse(f) == \/ f.k = "cmd" /\ f.st \in {"send", "get"}
            \/ f.k = "exec" /\ f.st # "alloc" /\ f.fresh
Uses(t) == {n \in 1..Len(stack[t]) : InUse(stack[t][n])}

\* A thread has a context while it uses one, alone and locked unless it waits.
AccountOK ==
    /\ \A t \in Threads : tls[t] # NoOne <=> Uses(t) # {}
    /\ \A t \in Threads : tls[t] # NoOne =>
          /\ Mine(t).reserved /\ Mine(t).use = Cardinality(Uses(t))
          /\ Mine(t).owner = t \/ (Mine(t).owner = NoOne /\ Waits(t))
    /\ \A t, u \in Threads : PeerOf(t) = PeerOf(u) /\ tls[t] = tls[u] /\ tls[t] # NoOne => t = u
    /\ \A p \in Peers : \A i \in Ctxs :
          /\ ctx[p][i].reserved => \E t \in Threads : PeerOf(t) = p /\ tls[t] = i
          /\ ~ctx[p][i].reserved => ctx[p][i].owner = NoOne
    /\ \A t \in Threads : At(t, "cmd", "reserve") => tls[t] = NoOne

AInv == Types /\ StackOK /\ AccountOK

-----------------------------------------------------------------------------
(* Peers, stacks and contexts.                                              *)

\* There are two peers.
LEMMA TwoPeers ==
    \A p \in Peers : /\ Other(p) \in Peers /\ Other(p) # p
                     /\ \A q \in Peers : q # p => q = Other(p)
  <1>. SUFFICES ASSUME NEW p \in Peers
                PROVE  /\ Other(p) \in Peers /\ Other(p) # p
                       /\ \A q \in Peers : q # p => q = Other(p)
    OBVIOUS
  <1>1. IsFiniteSet(Peers) /\ Cardinality(Peers) = 2
    BY PeersAssumption
  <1>2. IsFiniteSet(Peers \ {p}) /\ Cardinality(Peers \ {p}) = Cardinality(Peers) - 1
    BY <1>1, FS_RemoveElement
  <1>3. Cardinality(Peers \ {p}) = 1
    BY <1>1, <1>2
  <1>4. PICK r : Peers \ {p} = {r}
    BY <1>2, <1>3, FS_Singleton
  <1>. QED
    BY <1>4 DEF Other

\* A thread belongs to one peer.
LEMMA ThreadPeer ==
    /\ \A t \in Threads : PeerOf(t) \in Peers
    /\ \A t \in Threads, p \in Peers : t \in AppThreads[p] \cup PoolThreads[p] <=> PeerOf(t) = p
    /\ \A p \in Peers : AppThreads[p] \cup PoolThreads[p] \subseteq Threads
  <1>1. \A p \in Peers : AppThreads[p] \cup PoolThreads[p] \subseteq Threads
    BY DEF Threads
  <1>2. ASSUME NEW t \in Threads
        PROVE  PeerOf(t) \in Peers /\ t \in AppThreads[PeerOf(t)] \cup PoolThreads[PeerOf(t)]
    <2>1. \E p \in Peers : t \in AppThreads[p] \cup PoolThreads[p]
      BY DEF Threads
    <2>. QED
      BY <2>1 DEF PeerOf
  <1>3. ASSUME NEW t \in Threads, NEW p \in Peers, t \in AppThreads[p] \cup PoolThreads[p]
        PROVE  PeerOf(t) = p
    BY <1>2, <1>3, PeersAssumption
  <1>. QED
    BY <1>1, <1>2, <1>3

Pushed(t, f) ==
    /\ stack' \in [Threads -> Seq(Frame)]
    /\ \A u \in Threads : u # t => stack'[u] = stack[u]
    /\ Len(stack'[t]) = Len(stack[t]) + 1 /\ stack'[t][Len(stack[t]) + 1] = f
    /\ \A n \in 1..Len(stack[t]) : stack'[t][n] = stack[t][n]

Popped(t) ==
    /\ stack' \in [Threads -> Seq(Frame)]
    /\ \A u \in Threads : u # t => stack'[u] = stack[u]
    /\ Len(stack'[t]) = Len(stack[t]) - 1
    /\ \A n \in 1..(Len(stack[t]) - 1) : stack'[t][n] = stack[t][n]

Replaced(t, f) ==
    /\ stack' \in [Threads -> Seq(Frame)]
    /\ \A u \in Threads : u # t => stack'[u] = stack[u]
    /\ Len(stack'[t]) = Len(stack[t]) /\ stack'[t][Len(stack[t])] = f
    /\ \A n \in 1..(Len(stack[t]) - 1) : stack'[t][n] = stack[t][n]

\* A new call or handler: one frame on top, the others as they were.
LEMMA PushLemma ==
    ASSUME Types, NEW t \in Threads, NEW f \in Frame, Push(t, f)
    PROVE  Pushed(t, f)
  <1>1. stack \in [Threads -> Seq(Frame)]
    BY DEF Types
  <1>2. stack'[t] = Append(stack[t], f) /\ \A u \in Threads : u # t => stack'[u] = stack[u]
    BY <1>1 DEF Push
  <1>3. stack[t] \in Seq(Frame)
    BY <1>1
  <1>. DEFINE s == stack[t]
  <1>4. /\ Append(s, f) \in Seq(Frame) /\ Len(Append(s, f)) = Len(s) + 1
        /\ Append(s, f)[Len(s) + 1] = f
        /\ \A n \in 1..Len(s) : Append(s, f)[n] = s[n]
    BY <1>3
  <1>5. stack' \in [Threads -> Seq(Frame)]
    BY <1>1, <1>4 DEF Push
  <1>. QED
    BY <1>2, <1>4, <1>5 DEF Pushed

\* A call or a handler returns: the frame on top goes.
LEMMA PopLemma ==
    ASSUME Types, NEW t \in Threads, stack[t] # <<>>, Pop(t)
    PROVE  Popped(t)
  <1>1. stack \in [Threads -> Seq(Frame)]
    BY DEF Types
  <1>. DEFINE s == stack[t]
              r == SubSeq(s, 1, Len(s) - 1)
  <1>2. stack' = [stack EXCEPT ![t] = r]
    BY DEF Pop
  <1>3. s \in Seq(Frame) /\ s # <<>>
    BY <1>1
  <1>4. Len(s) \in Nat /\ Len(s) # 0
    BY <1>3
  <1>5. r \in Seq(Frame) /\ Len(r) = Len(s) - 1 /\ \A n \in 1..(Len(s) - 1) : r[n] = s[n]
    BY <1>3, <1>4
  <1>6. /\ stack' \in [Threads -> Seq(Frame)] /\ stack'[t] = r
        /\ \A u \in Threads : u # t => stack'[u] = stack[u]
    BY <1>1, <1>2, <1>5
  <1>. QED
    BY <1>5, <1>6 DEF Popped

\* The frame on top is replaced.
LEMMA ReplaceLemma ==
    ASSUME Types, NEW t \in Threads, stack[t] # <<>>, NEW f \in Frame,
           stack' = [stack EXCEPT ![t][Len(stack[t])] = f]
    PROVE  Replaced(t, f)
  <1>1. stack \in [Threads -> Seq(Frame)]
    BY DEF Types
  <1>. DEFINE s == stack[t]
              r == [s EXCEPT ![Len(s)] = f]
  <1>2. stack' = [stack EXCEPT ![t] = r]
    BY <1>1
  <1>3. s \in Seq(Frame) /\ s # <<>>
    BY <1>1
  <1>4. Len(s) \in Nat /\ Len(s) # 0
    BY <1>3
  <1>5. r \in Seq(Frame) /\ Len(r) = Len(s) /\ r[Len(s)] = f
        /\ \A n \in 1..(Len(s) - 1) : r[n] = s[n]
    BY <1>3, <1>4
  <1>6. /\ stack' \in [Threads -> Seq(Frame)] /\ stack'[t] = r
        /\ \A u \in Threads : u # t => stack'[u] = stack[u]
    BY <1>1, <1>2, <1>5
  <1>. QED
    BY <1>5, <1>6 DEF Replaced

\* The frame on top of a stack is its last.
LEMMA TopLemma ==
    ASSUME Types, NEW t \in Threads, stack[t] # <<>>
    PROVE  /\ Len(stack[t]) \in Nat \ {0} /\ Len(stack[t]) \in 1..Len(stack[t])
           /\ Top(t) = stack[t][Len(stack[t])] /\ Top(t) \in Frame
  <1>1. stack[t] \in Seq(Frame)
    BY DEF Types
  <1>2. Len(stack[t]) \in Nat /\ Len(stack[t]) # 0
    BY <1>1
  <1>. QED
    BY <1>1, <1>2 DEF Top

\* The frame on top moves to another step of its code.
LEMMA GotoLemma ==
    ASSUME Types, NEW t \in Threads, stack[t] # <<>>, NEW st,
           [Top(t) EXCEPT !.st = st] \in Frame, Goto(t, st)
    PROVE  Replaced(t, [Top(t) EXCEPT !.st = st])
  <1>1. stack \in [Threads -> Seq(Frame)]
    BY DEF Types
  <1>2. stack' = [stack EXCEPT ![t][Len(stack[t])] = [Top(t) EXCEPT !.st = st]]
    BY <1>1 DEF Goto, Top
  <1>. QED
    BY <1>2, ReplaceLemma

\* Thread t writes c to its context.
LEMMA SetMineLemma ==
    ASSUME Types, NEW t \in Threads, tls[t] # NoOne, NEW c \in Context, SetMine(t, c)
    PROVE  /\ ctx' \in [Peers -> [Ctxs -> Context]]
           /\ \A p \in Peers : \A i \in Ctxs :
                 ctx'[p][i] = IF p = PeerOf(t) /\ i = tls[t] THEN c ELSE ctx[p][i]
  <1>1. ctx \in [Peers -> [Ctxs -> Context]] /\ tls[t] \in Ctxs /\ PeerOf(t) \in Peers
    BY ThreadPeer DEF Types
  <1>2. ctx' = [ctx EXCEPT ![PeerOf(t)][tls[t]] = c]
    BY DEF SetMine
  <1>. QED
    BY <1>1, <1>2

\* The context of a thread.
LEMMA MineLemma ==
    ASSUME Types, NEW t \in Threads, tls[t] # NoOne
    PROVE  tls[t] \in Ctxs /\ Mine(t) = ctx[PeerOf(t)][tls[t]] /\ Mine(t) \in Context
  <1>1. ctx \in [Peers -> [Ctxs -> Context]] /\ tls[t] \in Ctxs /\ PeerOf(t) \in Peers
    BY ThreadPeer DEF Types
  <1>. QED
    BY <1>1 DEF Mine

\* The frames that use a context are finitely many.
LEMMA UsesFinite ==
    ASSUME Types, NEW t \in Threads
    PROVE  /\ IsFiniteSet(Uses(t)) /\ Cardinality(Uses(t)) \in Nat
           /\ Cardinality(Uses(t)) = 0 <=> Uses(t) = {}
  <1>1. Len(stack[t]) \in Nat
    BY DEF Types
  <1>2. IsFiniteSet(1..Len(stack[t]))
    <2>1. 1 \in Int /\ Len(stack[t]) \in Int
      BY <1>1
    <2>. QED
      BY <2>1, FS_Interval
  <1>3. Uses(t) \subseteq 1..Len(stack[t])
    BY DEF Uses
  <1>4. IsFiniteSet(Uses(t))
    BY <1>2, <1>3, FS_Subset
  <1>. QED
    BY <1>4, FS_CardinalityType, FS_EmptySet

\* A frame that others may be put on.
Settled(f) == \/ f.k = "cmd" /\ f.st = "get"
              \/ f.k \in {"exec", "evt"} /\ f.st = "run"

\* A frame is pushed: onto one that waits for it, if there is one.
LEMMA PushStack ==
    ASSUME Types, StackOK, NEW t \in Threads, NEW f \in Frame, Pushed(t, f),
           stack[t] # <<>> =>
              /\ Settled(Top(t))
              /\ f.k \in {"cmd", "exec"} /\ (f.k = "exec" => ~f.fresh)
              /\ IF f.k = "exec" THEN Top(t).k = "cmd" ELSE Top(t).k \in {"exec", "evt"},
           stack[t] = <<>> => (f.k = "exec" => f.fresh),
           f.k = "cmd" => /\ Len(stack[t]) < MaxDepth
                          /\ f.parent = Conv(t)
    PROVE  /\ StackOK' /\ Uses(t)' = Uses(t) \cup (IF InUse(f) THEN {Len(stack[t]) + 1} ELSE {})
           /\ \A u \in Threads : u # t => Uses(u)' = Uses(u)
  <1>. DEFINE l == Len(stack[t])
  <1>1. /\ l \in Nat /\ Len(stack'[t]) = l + 1 /\ stack'[t][l + 1] = f
        /\ \A n \in 1..l : stack'[t][n] = stack[t][n]
        /\ \A u \in Threads : u # t => stack'[u] = stack[u]
        /\ MaxDepth \in Nat
    BY PeersAssumption DEF Pushed, Types
  <1>2. l # 0 => stack[t] # <<>> /\ Top(t) = stack[t][l]
    BY DEF Top
  <1>3. l = 0 => stack[t] = <<>>
    BY DEF Types
  <1>4. Conv(t) = IF l # 0 /\ stack[t][l].k = "exec" THEN stack[t][l].conv ELSE 0
    BY <1>2, <1>3 DEF Conv
  <1>5. \A n \in 1..Len(stack'[t]) : n \in 1..l \/ n = l + 1
    BY <1>1
  <1>6. ASSUME NEW n \in 1..l
        PROVE  LET g == stack'[t][n]
                   below == stack'[t][n - 1] IN
               /\ n < l + 1 => Settled(g)
               /\ g.k = "evt" => n = 1
               /\ g.k = "exec" => (g.fresh <=> n = 1)
               /\ n > 1 => IF g.k = "exec" THEN below.k = "cmd" ELSE below.k \in {"exec", "evt"}
               /\ g.k = "cmd" => /\ n <= MaxDepth
                                 /\ g.parent = IF n > 1 /\ below.k = "exec" THEN below.conv ELSE 0
    <2>1. stack'[t][n] = stack[t][n] /\ (n > 1 => stack'[t][n - 1] = stack[t][n - 1])
      BY <1>1
    <2>2. l # 0 /\ (n = l \/ n < l)
      BY <1>1
    <2>3. Settled(stack[t][n])
      BY <1>1, <1>2, <2>2 DEF StackOK, Settled
    <2>. QED
      BY <2>1, <2>3 DEF StackOK
  <1>7. LET g == stack'[t][l + 1]
            below == stack'[t][l] IN
        /\ g.k = "evt" => l + 1 = 1
        /\ g.k = "exec" => (g.fresh <=> l + 1 = 1)
        /\ l + 1 > 1 => IF g.k = "exec" THEN below.k = "cmd" ELSE below.k \in {"exec", "evt"}
        /\ g.k = "cmd" => /\ l + 1 <= MaxDepth
                          /\ g.parent = IF l + 1 > 1 /\ below.k = "exec" THEN below.conv ELSE 0
    <2>1. l # 0 => stack'[t][l] = stack[t][l]
      BY <1>1
    <2>2. CASE l = 0
      BY <1>1, <1>3, <1>4, <2>2
    <2>3. CASE l # 0
      BY <1>1, <1>2, <1>4, <2>1, <2>3
    <2>. QED
      BY <2>2, <2>3
  <1>8. StackOK'
    <2>1. ASSUME NEW u \in Threads, NEW n \in 1..Len(stack'[u])
          PROVE  LET g == stack'[u][n]
                     below == stack'[u][n - 1] IN
                 /\ n < Len(stack'[u]) => Settled(g)
                 /\ g.k = "evt" => n = 1
                 /\ g.k = "exec" => (g.fresh <=> n = 1)
                 /\ n > 1 => IF g.k = "exec" THEN below.k = "cmd" ELSE below.k \in {"exec", "evt"}
                 /\ g.k = "cmd" => /\ n <= MaxDepth
                                   /\ g.parent = IF n > 1 /\ below.k = "exec" THEN below.conv ELSE 0
      <3>1. CASE u # t
        BY <1>1, <3>1 DEF StackOK, Settled
      <3>2. CASE u = t /\ n \in 1..l
        <4>. HIDE DEF l
        <4>. QED
          BY <1>1, <1>6, <3>2
      <3>3. CASE u = t /\ n = l + 1
        <4>1. ~(n < Len(stack'[u])) /\ n - 1 = l
          BY <1>1, <3>3
        <4>. HIDE DEF l
        <4>. QED
          BY <1>7, <3>3, <4>1
      <3>. QED
        BY <1>5, <3>1, <3>2, <3>3
    <2>. QED
      BY <2>1 DEF StackOK, Settled
  <1>9. Uses(t)' = Uses(t) \cup (IF InUse(f) THEN {l + 1} ELSE {})
    <2>1. Uses(t)' = {n \in 1..(l + 1) : InUse(stack'[t][n])}
      BY <1>1 DEF Uses, InUse
    <2>2. \A n : n \in 1..(l + 1) <=> n \in 1..l \/ n = l + 1
      BY <1>1
    <2>. HIDE DEF l
    <2>3. \A n : n \in Uses(t)' <=> (n \in 1..l /\ InUse(stack[t][n])) \/ (n = l + 1 /\ InUse(f))
      <3>1. ASSUME NEW n PROVE n \in 1..l => stack'[t][n] = stack[t][n]
        BY <1>1
      <3>2. l + 1 \notin 1..l
        BY <1>1
      <3>. QED
        BY <1>1, <2>1, <2>2, <3>1, <3>2
    <2>. QED
      BY <2>3 DEF Uses, l
  <1>10. \A u \in Threads : u # t => Uses(u)' = Uses(u)
    BY <1>1 DEF Uses, InUse
  <1>. QED
    BY <1>8, <1>9, <1>10

\* A frame is popped.
LEMMA PopStack ==
    ASSUME Types, StackOK, NEW t \in Threads, stack[t] # <<>>, Popped(t)
    PROVE  /\ StackOK' /\ Uses(t)' = Uses(t) \ {Len(stack[t])}
           /\ \A u \in Threads : u # t => Uses(u)' = Uses(u)
  <1>. DEFINE l == Len(stack[t])
  <1>1. /\ l \in Nat \ {0} /\ Len(stack'[t]) = l - 1
        /\ \A n \in 1..(l - 1) : stack'[t][n] = stack[t][n]
        /\ \A u \in Threads : u # t => stack'[u] = stack[u]
    BY TopLemma DEF Popped
  <1>2. StackOK'
    <2>1. ASSUME NEW u \in Threads, NEW n \in 1..Len(stack'[u])
          PROVE  LET g == stack'[u][n]
                     below == stack'[u][n - 1] IN
                 /\ n < Len(stack'[u]) => Settled(g)
                 /\ g.k = "evt" => n = 1
                 /\ g.k = "exec" => (g.fresh <=> n = 1)
                 /\ n > 1 => IF g.k = "exec" THEN below.k = "cmd" ELSE below.k \in {"exec", "evt"}
                 /\ g.k = "cmd" => /\ n <= MaxDepth
                                   /\ g.parent = IF n > 1 /\ below.k = "exec" THEN below.conv ELSE 0
      <3>1. CASE u # t
        BY <1>1, <3>1 DEF StackOK, Settled
      <3>2. CASE u = t
        <4>1. /\ stack'[t][n] = stack[t][n] /\ n \in 1..l /\ n < l
              /\ n > 1 => stack'[t][n - 1] = stack[t][n - 1]
          BY <1>1, <3>2
        <4>. QED
          BY <3>2, <4>1 DEF StackOK, Settled
      <3>. QED
        BY <3>1, <3>2
    <2>. QED
      BY <2>1 DEF StackOK, Settled
  <1>3. Uses(t)' = Uses(t) \ {l}
    <2>1. Uses(t)' = {n \in 1..(l - 1) : InUse(stack'[t][n])}
      BY <1>1 DEF Uses, InUse
    <2>2. \A n : n \in 1..(l - 1) <=> n \in 1..l /\ n # l
      BY <1>1
    <2>. HIDE DEF l
    <2>3. \A n : n \in Uses(t)' <=> n \in 1..l /\ n # l /\ InUse(stack[t][n])
      BY <1>1, <2>1, <2>2
    <2>. QED
      BY <2>3 DEF Uses, l
  <1>4. \A u \in Threads : u # t => Uses(u)' = Uses(u)
    BY <1>1 DEF Uses, InUse
  <1>. QED
    BY <1>2, <1>3, <1>4

\* The frame on top goes on.
LEMMA ReplaceStack ==
    ASSUME Types, StackOK, NEW t \in Threads, stack[t] # <<>>, NEW f \in Frame, Replaced(t, f),
           f.k = Top(t).k \/ (Top(t).k = "cmd" /\ f.k = "rsp"),
           f.k = "cmd" => f.parent = Top(t).parent,
           f.k = "exec" => f.fresh = Top(t).fresh
    PROVE  /\ StackOK'
           /\ Uses(t)' = (Uses(t) \ {Len(stack[t])})
                         \cup (IF InUse(f) THEN {Len(stack[t])} ELSE {})
           /\ \A u \in Threads : u # t => Uses(u)' = Uses(u)
  <1>. DEFINE l == Len(stack[t])
  <1>1. /\ l \in Nat \ {0} /\ Len(stack'[t]) = l /\ stack'[t][l] = f
        /\ \A n \in 1..(l - 1) : stack'[t][n] = stack[t][n]
        /\ \A u \in Threads : u # t => stack'[u] = stack[u]
        /\ Top(t) = stack[t][l] /\ l \in 1..l
    BY TopLemma DEF Replaced
  <1>2. StackOK'
    <2>1. ASSUME NEW u \in Threads, NEW n \in 1..Len(stack'[u])
          PROVE  LET g == stack'[u][n]
                     below == stack'[u][n - 1] IN
                 /\ n < Len(stack'[u]) => Settled(g)
                 /\ g.k = "evt" => n = 1
                 /\ g.k = "exec" => (g.fresh <=> n = 1)
                 /\ n > 1 => IF g.k = "exec" THEN below.k = "cmd" ELSE below.k \in {"exec", "evt"}
                 /\ g.k = "cmd" => /\ n <= MaxDepth
                                   /\ g.parent = IF n > 1 /\ below.k = "exec" THEN below.conv ELSE 0
      <3>1. CASE u # t
        BY <1>1, <3>1 DEF StackOK, Settled
      <3>2. CASE u = t /\ n # l
        <4>1. /\ stack'[t][n] = stack[t][n] /\ n \in 1..l /\ n < l
              /\ n > 1 => stack'[t][n - 1] = stack[t][n - 1]
          BY <1>1, <3>2
        <4>. QED
          BY <3>2, <4>1 DEF StackOK, Settled
      <3>3. CASE u = t /\ n = l
        <4>1. /\ stack'[t][n] = f /\ ~(n < Len(stack'[u]))
              /\ n > 1 => stack'[t][n - 1] = stack[t][n - 1]
          BY <1>1, <3>3
        <4>2. LET g == stack[t][l]
                  below == stack[t][l - 1] IN
              /\ g.k = "evt" => l = 1
              /\ g.k = "exec" => (g.fresh <=> l = 1)
              /\ l > 1 => IF g.k = "exec" THEN below.k = "cmd" ELSE below.k \in {"exec", "evt"}
              /\ g.k = "cmd" => /\ l <= MaxDepth
                                /\ g.parent = IF l > 1 /\ below.k = "exec" THEN below.conv ELSE 0
          BY <1>1 DEF StackOK
        <4>. HIDE DEF l
        <4>. QED
          BY <1>1, <3>3, <4>1, <4>2
      <3>. QED
        BY <3>1, <3>2, <3>3
    <2>. QED
      BY <2>1 DEF StackOK, Settled
  <1>3. Uses(t)' = (Uses(t) \ {l}) \cup (IF InUse(f) THEN {l} ELSE {})
    <2>1. Uses(t)' = {n \in 1..l : InUse(stack'[t][n])}
      BY <1>1 DEF Uses, InUse
    <2>2. \A n : n \in 1..l /\ n # l => n \in 1..(l - 1)
      BY <1>1
    <2>. HIDE DEF l
    <2>3. \A n : n \in Uses(t)' <=> (n \in 1..l /\ n # l /\ InUse(stack[t][n])) \/ (n = l /\ InUse(f))
      BY <1>1, <2>1, <2>2
    <2>. QED
      BY <2>3 DEF Uses, l
  <1>4. \A u \in Threads : u # t => Uses(u)' = Uses(u)
    BY <1>1 DEF Uses, InUse
  <1>. QED
    BY <1>2, <1>3, <1>4

-----------------------------------------------------------------------------
(* Who uses which context.                                                  *)

\* Threads other than t go on as they are.
Elsewhere(t) ==
    \A u \in Threads : u # t => /\ stack'[u] = stack[u] /\ tls'[u] = tls[u] /\ Uses(u)' = Uses(u)

\* What the other threads do shows in their own stacks only.
LEMMA ElsewhereAt ==
    ASSUME NEW t \in Threads, Elsewhere(t)
    PROVE  \A u \in Threads : u # t =>
              /\ Waits(u)' <=> Waits(u)
              /\ At(u, "cmd", "reserve")' <=> At(u, "cmd", "reserve")
  BY DEF Elsewhere, Waits, At, Top

\* No context is taken or given back.
LEMMA Steady ==
    ASSUME Types, AccountOK, NEW t \in Threads, Elsewhere(t), tls'[t] = tls[t],
           Uses(t)' = Uses(t), ctx' \in [Peers -> [Ctxs -> Context]],
           \A p \in Peers : \A i \in Ctxs :
              /\ ctx'[p][i].reserved = ctx[p][i].reserved /\ ctx'[p][i].use = ctx[p][i].use
              /\ ctx'[p][i].owner = ctx[p][i].owner,
           tls[t] # NoOne /\ Mine(t).owner = NoOne => Waits(t)',
           At(t, "cmd", "reserve")' => tls[t] = NoOne
    PROVE  AccountOK'
  <1>1. \A u \in Threads : tls'[u] = tls[u] /\ Uses(u)' = Uses(u)
    BY DEF Elsewhere
  <1>2. \A u \in Threads : tls[u] # NoOne => tls[u] \in Ctxs /\ PeerOf(u) \in Peers
    BY ThreadPeer DEF Types
  <1>3. \A u \in Threads : tls[u] # NoOne =>
           /\ Mine(u)'.reserved = Mine(u).reserved /\ Mine(u)'.use = Mine(u).use
           /\ Mine(u)'.owner = Mine(u).owner
    BY <1>1, <1>2 DEF Mine
  <1>4. /\ \A u \in Threads : u # t => (Waits(u)' <=> Waits(u))
        /\ \A u \in Threads : At(u, "cmd", "reserve")' => tls[u] = NoOne
    BY ElsewhereAt DEF AccountOK
  <1>5. \A u \in Threads : tls'[u] # NoOne =>
          /\ Mine(u)'.reserved /\ Mine(u)'.use = Cardinality(Uses(u)')
          /\ Mine(u)'.owner = u \/ (Mine(u)'.owner = NoOne /\ Waits(u)')
    BY <1>1, <1>3, <1>4 DEF AccountOK
  <1>. QED
    BY <1>1, <1>4, <1>5 DEF AccountOK

\* Thread t goes on with its context.
LEMMA OwnChange ==
    ASSUME Types, AccountOK, NEW t \in Threads, Elsewhere(t), tls'[t] = tls[t], tls[t] # NoOne,
           NEW c \in Context, SetMine(t, c), c.reserved, c.use = Cardinality(Uses(t)'),
           Uses(t)' # {}, c.owner = t \/ (c.owner = NoOne /\ Waits(t)'),
           ~At(t, "cmd", "reserve")'
    PROVE  AccountOK' /\ ctx' \in [Peers -> [Ctxs -> Context]]
  <1>1. \A u \in Threads : tls'[u] = tls[u] /\ (u # t => Uses(u)' = Uses(u))
    BY DEF Elsewhere
  <1>2. \A u \in Threads : tls[u] # NoOne => tls[u] \in Ctxs /\ PeerOf(u) \in Peers
    BY ThreadPeer DEF Types
  <1>3. /\ ctx' \in [Peers -> [Ctxs -> Context]]
        /\ \A p \in Peers : \A i \in Ctxs :
              ctx'[p][i] = IF p = PeerOf(t) /\ i = tls[t] THEN c ELSE ctx[p][i]
    BY SetMineLemma
  <1>4. Mine(t)' = c /\ \A u \in Threads : u # t /\ tls[u] # NoOne => Mine(u)' = Mine(u)
    BY <1>1, <1>2, <1>3 DEF Mine, AccountOK
  <1>5. /\ \A u \in Threads : u # t => (Waits(u)' <=> Waits(u))
        /\ \A u \in Threads : At(u, "cmd", "reserve")' => tls[u] = NoOne
    BY ElsewhereAt DEF AccountOK
  <1>6. \A u \in Threads : tls'[u] # NoOne =>
          /\ Mine(u)'.reserved /\ Mine(u)'.use = Cardinality(Uses(u)')
          /\ Mine(u)'.owner = u \/ (Mine(u)'.owner = NoOne /\ Waits(u)')
    BY <1>1, <1>4, <1>5 DEF AccountOK
  <1>7. \A u \in Threads : tls'[u] # NoOne <=> Uses(u)' # {}
    BY <1>1 DEF AccountOK
  <1>8. \A p \in Peers : \A i \in Ctxs :
          /\ ctx'[p][i].reserved => \E u \in Threads : PeerOf(u) = p /\ tls'[u] = i
          /\ ~ctx'[p][i].reserved => ctx'[p][i].owner = NoOne
    BY <1>1, <1>3 DEF AccountOK
  <1>9. \A u, v \in Threads : PeerOf(u) = PeerOf(v) /\ tls'[u] = tls'[v] /\ tls'[u] # NoOne => u = v
    BY <1>1 DEF AccountOK
  <1>. QED
    BY <1>1, <1>3, <1>5, <1>6, <1>7, <1>8, <1>9 DEF AccountOK

\* Thread t gives its context back.
LEMMA OwnFree ==
    ASSUME Types, AccountOK, NEW t \in Threads, Elsewhere(t), tls'[t] = NoOne, tls[t] # NoOne,
           NEW c \in Context, SetMine(t, c), ~c.reserved, c.owner = NoOne, Uses(t)' = {}
    PROVE  AccountOK' /\ ctx' \in [Peers -> [Ctxs -> Context]]
  <1>1. \A u \in Threads : u # t => tls'[u] = tls[u] /\ Uses(u)' = Uses(u)
    BY DEF Elsewhere
  <1>2. \A u \in Threads : tls[u] # NoOne => tls[u] \in Ctxs /\ PeerOf(u) \in Peers
    BY ThreadPeer DEF Types
  <1>3. /\ ctx' \in [Peers -> [Ctxs -> Context]]
        /\ \A p \in Peers : \A i \in Ctxs :
              ctx'[p][i] = IF p = PeerOf(t) /\ i = tls[t] THEN c ELSE ctx[p][i]
    BY SetMineLemma
  <1>4. \A u \in Threads : u # t /\ tls[u] # NoOne => Mine(u)' = Mine(u)
    BY <1>1, <1>2, <1>3 DEF Mine, AccountOK
  <1>5. /\ \A u \in Threads : u # t => (Waits(u)' <=> Waits(u))
        /\ \A u \in Threads : At(u, "cmd", "reserve")' => tls'[u] = NoOne
    BY <1>1, ElsewhereAt DEF AccountOK
  <1>6. \A u \in Threads : tls'[u] # NoOne =>
          /\ Mine(u)'.reserved /\ Mine(u)'.use = Cardinality(Uses(u)')
          /\ Mine(u)'.owner = u \/ (Mine(u)'.owner = NoOne /\ Waits(u)')
    BY <1>1, <1>4, <1>5 DEF AccountOK
  <1>7. \A u \in Threads : tls'[u] # NoOne <=> Uses(u)' # {}
    BY <1>1 DEF AccountOK
  <1>8. \A p \in Peers : \A i \in Ctxs :
          /\ ctx'[p][i].reserved => \E u \in Threads : PeerOf(u) = p /\ tls'[u] = i
          /\ ~ctx'[p][i].reserved => ctx'[p][i].owner = NoOne
    <2>1. ASSUME NEW p \in Peers, NEW i \in Ctxs, ctx'[p][i].reserved
          PROVE  \E u \in Threads : PeerOf(u) = p /\ tls'[u] = i
      <3>1. ~(p = PeerOf(t) /\ i = tls[t]) /\ ctx[p][i].reserved
        BY <1>3, <2>1
      <3>2. PICK u \in Threads : PeerOf(u) = p /\ tls[u] = i
        BY <3>1 DEF AccountOK
      <3>. QED
        BY <1>1, <3>1, <3>2
    <2>. QED
      BY <1>3, <2>1 DEF AccountOK
  <1>9. \A u, v \in Threads : PeerOf(u) = PeerOf(v) /\ tls'[u] = tls'[v] /\ tls'[u] # NoOne => u = v
    BY <1>1 DEF AccountOK
  <1>. QED
    BY <1>3, <1>5, <1>6, <1>7, <1>8, <1>9 DEF AccountOK

\* Thread t takes a free context.
LEMMA OwnAlloc ==
    ASSUME Types, AccountOK, NEW t \in Threads, tls[t] = NoOne, NEW i \in Ctxs,
           NEW remote \in Ctxs \cup {Unknown}, AllocOn(t, i, remote),
           \A u \in Threads : u # t => stack'[u] = stack[u] /\ Uses(u)' = Uses(u),
           NEW n, Uses(t)' = {n}, ~At(t, "cmd", "reserve")'
    PROVE  /\ AccountOK' /\ ctx' \in [Peers -> [Ctxs -> Context]]
           /\ tls' \in [Threads -> Ctxs \cup {NoOne}]
  <1>. DEFINE p == PeerOf(t)
              c == [ctx[p][i] EXCEPT !.reserved = TRUE, !.owner = t, !.use = 1,
                                     !.remote = remote, !.handler = FALSE]
  <1>1. /\ p \in Peers /\ ctx \in [Peers -> [Ctxs -> Context]] /\ ctx[p][i] \in Context
        /\ i # NoOne /\ tls \in [Threads -> Ctxs \cup {NoOne}]
    BY ThreadPeer, PeersAssumption DEF Types
  <1>2. /\ ~ctx[p][i].reserved /\ ctx' = [ctx EXCEPT ![p][i] = c] /\ tls' = [tls EXCEPT ![t] = i]
    BY DEF AllocOn
  <1>3. c \in Context /\ c.reserved /\ c.owner = t /\ c.use = 1
    BY <1>1 DEF Context
  <1>. HIDE DEF c
  <1>4. /\ ctx' \in [Peers -> [Ctxs -> Context]]
        /\ \A q \in Peers : \A j \in Ctxs :
              ctx'[q][j] = IF q = p /\ j = i THEN c ELSE ctx[q][j]
    BY <1>1, <1>2, <1>3
  <1>5. /\ tls' \in [Threads -> Ctxs \cup {NoOne}] /\ tls'[t] = i
        /\ \A u \in Threads : u # t => tls'[u] = tls[u]
    BY <1>1, <1>2
  <1>6. Elsewhere(t)
    BY <1>5 DEF Elsewhere
  <1>7. \A u \in Threads : tls[u] # NoOne => /\ tls[u] \in Ctxs /\ PeerOf(u) \in Peers
                                            /\ ~(PeerOf(u) = p /\ tls[u] = i)
    BY <1>2, ThreadPeer DEF Types, AccountOK, Mine
  <1>8. Mine(t)' = c /\ \A u \in Threads : u # t /\ tls[u] # NoOne => Mine(u)' = Mine(u)
    BY <1>1, <1>4, <1>5, <1>7 DEF Mine
  <1>9. /\ \A u \in Threads : u # t => (Waits(u)' <=> Waits(u))
        /\ \A u \in Threads : At(u, "cmd", "reserve")' => tls'[u] = NoOne
    BY <1>5, <1>6, ElsewhereAt DEF AccountOK
  <1>10. Cardinality(Uses(t)') = 1
    BY FS_Singleton
  <1>11. \A u \in Threads : tls'[u] # NoOne =>
          /\ Mine(u)'.reserved /\ Mine(u)'.use = Cardinality(Uses(u)')
          /\ Mine(u)'.owner = u \/ (Mine(u)'.owner = NoOne /\ Waits(u)')
    <2>1. ASSUME NEW u \in Threads, u # t, tls'[u] # NoOne
          PROVE  /\ Mine(u)'.reserved /\ Mine(u)'.use = Cardinality(Uses(u)')
                 /\ Mine(u)'.owner = u \/ (Mine(u)'.owner = NoOne /\ Waits(u)')
      <3>1. tls[u] # NoOne /\ Mine(u)' = Mine(u) /\ Uses(u)' = Uses(u) /\ (Waits(u)' <=> Waits(u))
        BY <1>5, <1>8, <1>9, <2>1
      <3>. QED
        BY <3>1 DEF AccountOK
    <2>2. /\ Mine(t)'.reserved /\ Mine(t)'.use = Cardinality(Uses(t)')
          /\ Mine(t)'.owner = t
      BY <1>3, <1>8, <1>10
    <2>. QED
      BY <2>1, <2>2
  <1>12. \A u \in Threads : tls'[u] # NoOne <=> Uses(u)' # {}
    <2>1. ASSUME NEW u \in Threads, u # t PROVE tls'[u] # NoOne <=> Uses(u)' # {}
      BY <1>5, <2>1 DEF AccountOK
    <2>2. tls'[t] # NoOne /\ Uses(t)' # {}
      BY <1>1, <1>5
    <2>. QED
      BY <2>1, <2>2
  <1>13. \A q \in Peers : \A j \in Ctxs :
          /\ ctx'[q][j].reserved => \E u \in Threads : PeerOf(u) = q /\ tls'[u] = j
          /\ ~ctx'[q][j].reserved => ctx'[q][j].owner = NoOne
    <2>1. ASSUME NEW q \in Peers, NEW j \in Ctxs, ctx'[q][j].reserved
          PROVE  \E u \in Threads : PeerOf(u) = q /\ tls'[u] = j
      <3>1. CASE q = p /\ j = i
        BY <1>5, <3>1
      <3>2. CASE ~(q = p /\ j = i)
        <4>1. PICK u \in Threads : PeerOf(u) = q /\ tls[u] = j
          BY <1>4, <2>1, <3>2 DEF AccountOK
        <4>2. j # NoOne
          BY PeersAssumption
        <4>. QED
          BY <1>5, <4>1, <4>2
      <3>. QED
        BY <3>1, <3>2
    <2>. QED
      BY <1>3, <1>4, <2>1 DEF AccountOK
  <1>14. \A u, v \in Threads : PeerOf(u) = PeerOf(v) /\ tls'[u] = tls'[v] /\ tls'[u] # NoOne => u = v
    BY <1>5, <1>7 DEF AccountOK
  <1>. QED
    BY <1>4, <1>5, <1>9, <1>11, <1>12, <1>13, <1>14 DEF AccountOK

\* The frame below was waiting for the one popped.
LEMMA PopTop ==
    ASSUME Types, StackOK, NEW t \in Threads, stack[t] # <<>>, Popped(t)
    PROVE  stack'[t] # <<>> => Settled(Top(t)')
  <1>. DEFINE l == Len(stack[t])
  <1>1. /\ l \in Nat \ {0} /\ Len(stack'[t]) = l - 1 /\ stack'[t] \in Seq(Frame)
        /\ \A n \in 1..(l - 1) : stack'[t][n] = stack[t][n]
    BY TopLemma DEF Popped
  <1>2. SUFFICES ASSUME stack'[t] # <<>> PROVE Settled(Top(t)')
    OBVIOUS
  <1>3. Len(stack'[t]) # 0
    <2>. DEFINE s == stack'[t]
    <2>1. s \in Seq(Frame) /\ s # <<>>
      BY <1>1, <1>2
    <2>. HIDE DEF s
    <2>2. Len(s) # 0
      BY <2>1
    <2>. QED
      BY <2>2 DEF s
  <1>4. Top(t)' = stack'[t][l - 1]
    BY <1>1 DEF Top
  <1>5. l - 1 \in 1..l /\ l - 1 \in 1..(l - 1) /\ l - 1 < l
    <2>1. l \in Nat \ {0} /\ l - 1 # 0
      BY <1>1, <1>3
    <2>. HIDE DEF l
    <2>. QED
      BY <2>1
  <1>6. Top(t)' = stack[t][l - 1]
    BY <1>1, <1>4, <1>5
  <1>. QED
    BY <1>5, <1>6 DEF StackOK, Settled

\* A context is locked by its thread unless the thread waits.
LEMMA Locked ==
    ASSUME AccountOK, NEW t \in Threads, tls[t] # NoOne, ~Waits(t)
    PROVE  Mine(t).owner = t /\ t # NoOne
  BY PeersAssumption DEF AccountOK

\* Where a thread is shows in the frame on top.
LEMMA AtTop ==
    ASSUME NEW t \in Threads, NEW k, NEW st
    PROVE  /\ At(t, k, st) => stack[t] # <<>> /\ Top(t).k = k /\ Top(t).st = st
           /\ At(t, k, st) /\ ~(k = "cmd" /\ st = "get") => ~Waits(t)
           /\ At(t, k, st)' => stack'[t] # <<>> /\ Top(t)'.k = k /\ Top(t)'.st = st
           /\ At(t, "cmd", "reserve")' => stack'[t] # <<>> /\ ~Settled(Top(t)')
  BY DEF At, Waits, Settled

\* cmd_ctx_release: the context goes back with its last user.
LEMMA ReleaseLemma ==
    ASSUME Types, AccountOK, NEW t \in Threads, tls[t] # NoOne, NEW d \in Context,
           d.reserved, d.owner = t, d.use = Mine(t).use, SetMine(t, Released(d)),
           tls' = IF Released(d).reserved THEN tls ELSE [tls EXCEPT ![t] = NoOne],
           \A u \in Threads : u # t => stack'[u] = stack[u] /\ Uses(u)' = Uses(u),
           NEW l \in Uses(t), Uses(t)' = Uses(t) \ {l}, ~At(t, "cmd", "reserve")'
    PROVE  /\ AccountOK' /\ ctx' \in [Peers -> [Ctxs -> Context]]
           /\ tls' \in [Threads -> Ctxs \cup {NoOne}]
  <1>1. d.use = Cardinality(Uses(t)) /\ IsFiniteSet(Uses(t)) /\ Cardinality(Uses(t)) \in Nat
    BY UsesFinite DEF AccountOK
  <1>2. IsFiniteSet(Uses(t)') /\ Cardinality(Uses(t)') = Cardinality(Uses(t)) - 1
    BY <1>1, FS_RemoveElement
  <1>3. Cardinality(Uses(t)') \in Nat /\ (Cardinality(Uses(t)') = 0 <=> Uses(t)' = {})
    BY <1>2, FS_CardinalityType, FS_EmptySet
  <1>4. tls' \in [Threads -> Ctxs \cup {NoOne}] /\ Elsewhere(t)
    BY DEF Types, Elsewhere
  <1>5. CASE d.use = 1
    <2>1. Released(d) \in Context /\ ~Released(d).reserved /\ Released(d).owner = NoOne
      BY <1>5 DEF Released, Freed, Context
    <2>2. tls'[t] = NoOne /\ Uses(t)' = {}
      BY <1>1, <1>2, <1>3, <1>5, <2>1 DEF Types
    <2>. QED
      BY <1>4, <2>1, <2>2, OwnFree
  <1>6. CASE d.use # 1
    <2>1. d.use \in Nat /\ d.use # 0 /\ d.use - 1 \in Nat /\ Uses(t)' # {}
      BY <1>1, <1>2, <1>3, <1>6
    <2>2. /\ Released(d) \in Context /\ Released(d).reserved /\ Released(d).owner = t
          /\ Released(d).use = Cardinality(Uses(t)')
      BY <1>1, <1>2, <1>6, <2>1 DEF Released, Context
    <2>3. tls'[t] = tls[t]
      BY <2>2
    <2>. QED
      BY <1>4, <2>1, <2>2, <2>3, OwnChange
  <1>. QED
    BY <1>5, <1>6

\* A packet is sent to the other peer.
LEMMA SendLemma ==
    ASSUME Types, NEW p \in Peers, NEW x \in Packet, Send(p, x)
    PROVE  /\ net' \in [Peers -> Seq(Packet)]
           /\ net'[Other(p)] = Append(net[Other(p)], x)
           /\ \A q \in Peers : q # Other(p) => net'[q] = net[q]
           /\ \A q \in Peers : net[q] # <<>> => net'[q] # <<>>
  <1>1. net \in [Peers -> Seq(Packet)] /\ Other(p) \in Peers
    BY TwoPeers DEF Types
  <1>2. Append(net[Other(p)], x) \in Seq(Packet) /\ Append(net[Other(p)], x) # <<>>
    BY <1>1
  <1>3. net' = [net EXCEPT ![Other(p)] = Append(net[Other(p)], x)]
    BY DEF Send
  <1>. QED
    BY <1>1, <1>2, <1>3

\* The oldest packet is taken.
LEMMA TakenLemma ==
    ASSUME Types, NEW p \in Peers, net[p] # <<>>, Taken(p)
    PROVE  /\ net' \in [Peers -> Seq(Packet)] /\ Head(net[p]) \in Packet
           /\ net'[p] = Tail(net[p]) /\ \A q \in Peers : q # p => net'[q] = net[q]
  <1>1. net \in [Peers -> Seq(Packet)] /\ net[p] \in Seq(Packet)
    BY DEF Types
  <1>2. Tail(net[p]) \in Seq(Packet) /\ Head(net[p]) \in Packet
    BY <1>1
  <1>. QED
    BY <1>1, <1>2 DEF Taken

-----------------------------------------------------------------------------
(* Each step keeps the account of contexts.                                 *)

\* The call a handler is running has a number.
LEMMA ConvType ==
    ASSUME Types, NEW t \in Threads
    PROVE  Conv(t) \in Nat
  BY TopLemma DEF Conv, Frame, CmdFrame, FreshFrame, NestedFrame, EvtFrame, RspFrame

\* nrf_rpc_cmd: a new frame that uses no context yet.
LEMMA CmdStartAccount ==
    ASSUME AInv, NEW t \in Threads, CmdStart(t)
    PROVE  AInv'
  <1>0. Types /\ StackOK /\ AccountOK
    BY DEF AInv
  <1>1. PICK h \in BOOLEAN :
           Push(t, [k |-> "cmd", st |-> "lock", conv |-> calls + 1, parent |-> Conv(t),
                    h |-> h, old |-> FALSE])
    BY DEF CmdStart
  <1>. DEFINE f == [k |-> "cmd", st |-> "lock", conv |-> calls + 1, parent |-> Conv(t),
                    h |-> h, old |-> FALSE]
  <1>2. /\ stack[t] = <<>> \/ At(t, "exec", "run") \/ At(t, "evt", "run")
        /\ Len(stack[t]) < MaxDepth /\ calls' = calls + 1
        /\ UNCHANGED <<tls, ctx, cleanup, rpcVars, net, rx>>
    BY DEF CmdStart
  <1>3. /\ f \in Frame /\ f.k = "cmd" /\ f.parent = Conv(t) /\ ~InUse(f) /\ f.st = "lock"
    BY <1>0, ConvType DEF Frame, CmdFrame, InUse, Types
  <1>. HIDE DEF f
  <1>4. Pushed(t, f)
    BY <1>0, <1>1, <1>3, PushLemma DEF f
  <1>5. stack[t] # <<>> => Settled(Top(t)) /\ Top(t).k \in {"exec", "evt"}
    BY <1>2, AtTop DEF Settled
  <1>6. ~Waits(t)
    BY <1>5 DEF Waits, At
  <1>7. /\ StackOK' /\ Uses(t)' = Uses(t)
        /\ \A u \in Threads : u # t => Uses(u)' = Uses(u)
    BY <1>0, <1>2, <1>3, <1>4, <1>5, PushStack
  <1>8. Types'
    BY <1>0, <1>2, <1>4 DEF Types, Pushed, rpcVars
  <1>9. Top(t)' = f
    BY <1>4 DEF Top, Pushed
  <1>10. AccountOK'
    <2>1. Elsewhere(t) /\ tls'[t] = tls[t]
      BY <1>2, <1>4, <1>7 DEF Elsewhere, Pushed
    <2>2. tls[t] # NoOne => Mine(t).owner # NoOne
      BY <1>0, <1>6, Locked
    <2>3. ~At(t, "cmd", "reserve")'
      BY <1>3, <1>9 DEF At
    <2>4. ctx' = ctx /\ ctx' \in [Peers -> [Ctxs -> Context]]
      BY <1>0, <1>2 DEF Types
    <2>. QED
      BY <1>0, <1>7, <2>1, <2>2, <2>3, <2>4, Steady
  <1>. QED
    BY <1>7, <1>8, <1>10 DEF AInv

\* cmd_ctx_reserve in a thread that has a context counts one more use.
LEMMA CmdLockAccount ==
    ASSUME AInv, NEW t \in Threads, CmdLock(t)
    PROVE  AInv'
  <1>0. Types /\ StackOK /\ AccountOK /\ PeerOf(t) \in Peers
    BY ThreadPeer DEF AInv
  <1>1. /\ At(t, "cmd", "lock") /\ UNCHANGED <<tls, rpcVars, net, rx, histVars>>
    BY DEF CmdLock
  <1>2. stack[t] # <<>> /\ Top(t).k = "cmd" /\ Top(t).st = "lock" /\ ~Waits(t) /\ Top(t) \in Frame
    BY <1>0, <1>1, AtTop, TopLemma
  <1>3. Top(t) \in CmdFrame /\ ~InUse(Top(t))
    BY <1>2 DEF Frame, FreshFrame, NestedFrame, EvtFrame, RspFrame, InUse
  <1>l. Len(stack[t]) \notin Uses(t)
    BY <1>0, <1>2, <1>3, TopLemma DEF Uses
  <1>4. tls[t] # NoOne => Mine(t).owner = t /\ t # NoOne
    BY <1>0, <1>2, Locked
  <1>5. CASE Pop(t) /\ UNCHANGED <<ctx, cleanup>>
    <2>1. Popped(t)
      BY <1>0, <1>2, <1>5, PopLemma
    <2>2. /\ StackOK' /\ Uses(t)' = Uses(t)
          /\ \A u \in Threads : u # t => Uses(u)' = Uses(u)
      BY <1>0, <1>2, <1>l, <2>1, PopStack
    <2>3. ~At(t, "cmd", "reserve")'
      BY <1>0, <1>2, <2>1, PopTop, AtTop
    <2>4. Types'
      BY <1>0, <1>1, <1>5, <2>1 DEF Types, Popped, rpcVars, histVars
    <2>5. AccountOK'
      <3>1. Elsewhere(t) /\ tls'[t] = tls[t] /\ ctx' = ctx /\ ctx' \in [Peers -> [Ctxs -> Context]]
        BY <1>0, <1>1, <1>5, <2>1, <2>2 DEF Elsewhere, Popped, Types
      <3>2. tls[t] # NoOne => Mine(t).owner # NoOne
        BY <1>4
      <3>. QED
        BY <1>0, <2>2, <2>3, <3>1, <3>2, Steady
    <2>. QED
      BY <2>2, <2>4, <2>5 DEF AInv
  <1>6. CASE /\ tls[t] # NoOne /\ SetMine(t, [Mine(t) EXCEPT !.use = @ + 1])
             /\ Goto(t, "send") /\ UNCHANGED cleanup
    <2>. DEFINE f == [Top(t) EXCEPT !.st = "send"]
                c == [Mine(t) EXCEPT !.use = @ + 1]
    <2>1. f \in Frame /\ f.k = "cmd" /\ f.st = "send" /\ InUse(f) /\ f.parent = Top(t).parent
      BY <1>3 DEF Frame, CmdFrame, InUse
    <2>2. Replaced(t, f)
      BY <1>0, <1>2, <1>6, <2>1, GotoLemma
    <2>. HIDE DEF f
    <2>3. /\ StackOK' /\ Uses(t)' = Uses(t) \cup {Len(stack[t])}
          /\ \A u \in Threads : u # t => Uses(u)' = Uses(u)
      BY <1>0, <1>2, <1>l, <2>1, <2>2, ReplaceStack
    <2>4. /\ Mine(t) \in Context /\ Mine(t).use = Cardinality(Uses(t)) /\ Mine(t).reserved
          /\ Mine(t).owner = t
      BY <1>0, <1>4, <1>6, MineLemma DEF AccountOK
    <2>5. c \in Context /\ c.use = Mine(t).use + 1 /\ c.reserved /\ c.owner = t
      BY <2>4 DEF Context
    <2>6. Cardinality(Uses(t)') = Cardinality(Uses(t)) + 1
      <3>1. IsFiniteSet(Uses(t))
        BY <1>0, UsesFinite
      <3>. QED
        BY <1>l, <2>3, <3>1, FS_AddElement
    <2>. HIDE DEF c
    <2>7. Top(t)' = f
      BY <2>2 DEF Top, Replaced
    <2>8. AccountOK' /\ ctx' \in [Peers -> [Ctxs -> Context]]
      <3>1. Elsewhere(t) /\ tls'[t] = tls[t]
        BY <1>1, <2>2, <2>3 DEF Elsewhere, Replaced
      <3>2. ~At(t, "cmd", "reserve")'
        BY <2>1, <2>7 DEF At
      <3>3. c.use = Cardinality(Uses(t)') /\ Uses(t)' # {}
        BY <2>3, <2>4, <2>5, <2>6
      <3>4. SetMine(t, c)
        BY <1>6 DEF c
      <3>. QED
        BY <1>0, <1>6, <2>5, <3>1, <3>2, <3>3, <3>4, OwnChange
    <2>9. Types'
      BY <1>0, <1>1, <1>6, <2>2, <2>8 DEF Types, Replaced, rpcVars, histVars
    <2>. QED
      BY <2>3, <2>8, <2>9 DEF AInv
  <1>7. CASE /\ tls[t] = NoOne /\ cleanup' = [cleanup EXCEPT ![PeerOf(t)] = t]
             /\ Goto(t, "reserve") /\ UNCHANGED ctx
    <2>. DEFINE f == [Top(t) EXCEPT !.st = "reserve"]
    <2>1. f \in Frame /\ f.k = "cmd" /\ ~InUse(f) /\ f.parent = Top(t).parent
      BY <1>3 DEF Frame, CmdFrame, InUse
    <2>2. Replaced(t, f)
      BY <1>0, <1>2, <1>7, <2>1, GotoLemma
    <2>. HIDE DEF f
    <2>3. /\ StackOK' /\ Uses(t)' = Uses(t)
          /\ \A u \in Threads : u # t => Uses(u)' = Uses(u)
      BY <1>0, <1>2, <1>l, <2>1, <2>2, ReplaceStack
    <2>4. Types'
      BY <1>0, <1>1, <1>7, <2>2 DEF Types, Replaced, rpcVars, histVars
    <2>5. AccountOK'
      <3>1. Elsewhere(t) /\ tls'[t] = tls[t] /\ ctx' = ctx /\ ctx' \in [Peers -> [Ctxs -> Context]]
        BY <1>0, <1>1, <1>7, <2>2, <2>3 DEF Elsewhere, Replaced, Types
      <3>. QED
        BY <1>0, <1>7, <2>3, <3>1, Steady
    <2>. QED
      BY <2>3, <2>4, <2>5 DEF AInv
  <1>. QED
    BY <1>5, <1>6, <1>7 DEF CmdLock

\* cmd_ctx_reserve in a thread without a context takes a free one.
LEMMA CmdReserveAccount ==
    ASSUME AInv, NEW t \in Threads, CmdReserve(t)
    PROVE  AInv'
  <1>0. Types /\ StackOK /\ AccountOK /\ PeerOf(t) \in Peers
    BY ThreadPeer DEF AInv
  <1>1. /\ At(t, "cmd", "reserve") /\ UNCHANGED <<rpcVars, net, rx, histVars>>
        /\ Goto(t, "send") /\ cleanup' = [cleanup EXCEPT ![PeerOf(t)] = NoOne]
    BY DEF CmdReserve
  <1>2. PICK i \in Ctxs : AllocOn(t, i, Unknown)
    BY DEF CmdReserve
  <1>3. /\ stack[t] # <<>> /\ Top(t).k = "cmd" /\ Top(t).st = "reserve" /\ Top(t) \in Frame
        /\ tls[t] = NoOne
    BY <1>0, <1>1, AtTop, TopLemma DEF AccountOK
  <1>. DEFINE f == [Top(t) EXCEPT !.st = "send"]
  <1>4. Top(t) \in CmdFrame
    BY <1>3 DEF Frame, FreshFrame, NestedFrame, EvtFrame, RspFrame
  <1>5. f \in Frame /\ f.k = "cmd" /\ f.st = "send" /\ InUse(f) /\ f.parent = Top(t).parent
    BY <1>4 DEF Frame, CmdFrame, InUse
  <1>6. Replaced(t, f)
    BY <1>0, <1>1, <1>3, <1>5, GotoLemma
  <1>. HIDE DEF f
  <1>7. /\ StackOK' /\ Uses(t)' = {Len(stack[t])}
        /\ \A u \in Threads : u # t => Uses(u)' = Uses(u)
    <2>1. Uses(t) = {}
      BY <1>0, <1>3 DEF AccountOK
    <2>. QED
      BY <1>0, <1>3, <1>5, <1>6, <2>1, ReplaceStack
  <1>8. Top(t)' = f
    BY <1>6 DEF Top, Replaced
  <1>9. /\ AccountOK' /\ ctx' \in [Peers -> [Ctxs -> Context]]
        /\ tls' \in [Threads -> Ctxs \cup {NoOne}]
    <2>1. ~At(t, "cmd", "reserve")'
      BY <1>5, <1>8 DEF At
    <2>2. \A u \in Threads : u # t => stack'[u] = stack[u] /\ Uses(u)' = Uses(u)
      BY <1>6, <1>7 DEF Replaced
    <2>. QED
      BY <1>0, <1>2, <1>3, <1>7, <2>1, <2>2, OwnAlloc
  <1>10. Types'
    BY <1>0, <1>1, <1>6, <1>9 DEF Types, Replaced, rpcVars, histVars
  <1>. QED
    BY <1>7, <1>9, <1>10 DEF AInv

\* The use that was counted before send is still there after it.
LEMMA CmdSendAccount ==
    ASSUME AInv, NEW t \in Threads, CmdSend(t)
    PROVE  AInv'
  <1>0. Types /\ StackOK /\ AccountOK /\ PeerOf(t) \in Peers
    BY ThreadPeer DEF AInv
  <1>. DEFINE f == [Top(t) EXCEPT !.st = "get", !.old = Mine(t).handler]
              c == [Mine(t) EXCEPT !.handler = Top(t).h]
              x == [type |-> "CMD", src |-> tls[t], dst |-> Mine(t).remote,
                    conv |-> Top(t).conv, parent |-> Top(t).parent]
  <1>1. /\ At(t, "cmd", "send") /\ UNCHANGED <<tls, cleanup, rpcVars, rx, histVars>>
        /\ Send(PeerOf(t), x) /\ SetMine(t, c)
        /\ stack' = [stack EXCEPT ![t][Len(stack[t])] = f]
    BY DEF CmdSend
  <1>2. stack[t] # <<>> /\ Top(t).k = "cmd" /\ Top(t).st = "send" /\ ~Waits(t) /\ Top(t) \in Frame
    BY <1>0, <1>1, AtTop, TopLemma
  <1>3. Top(t) \in CmdFrame /\ InUse(Top(t))
    BY <1>2 DEF Frame, FreshFrame, NestedFrame, EvtFrame, RspFrame, InUse
  <1>4. Len(stack[t]) \in Uses(t)
    BY <1>0, <1>2, <1>3, TopLemma DEF Uses
  <1>5. tls[t] # NoOne /\ tls[t] \in Ctxs /\ Mine(t) \in Context /\ Mine(t).owner = t /\ t # NoOne
    <2>1. tls[t] # NoOne
      BY <1>0, <1>4 DEF AccountOK
    <2>. QED
      BY <1>0, <1>2, <2>1, MineLemma, Locked
  <1>6. f \in Frame /\ f.k = "cmd" /\ f.st = "get" /\ InUse(f) /\ f.parent = Top(t).parent
    BY <1>3, <1>5 DEF Frame, CmdFrame, InUse, Context
  <1>7. x \in Packet
    BY <1>3, <1>5 DEF Packet, CmdFrame, Context
  <1>8. c \in Context /\ c.reserved = Mine(t).reserved /\ c.use = Mine(t).use /\ c.owner = t
    BY <1>3, <1>5 DEF Context, CmdFrame
  <1>. HIDE DEF f, c, x
  <1>9. Replaced(t, f)
    BY <1>0, <1>1, <1>2, <1>6, ReplaceLemma
  <1>10. /\ StackOK' /\ Uses(t)' = Uses(t)
         /\ \A u \in Threads : u # t => Uses(u)' = Uses(u)
    BY <1>0, <1>2, <1>4, <1>6, <1>9, ReplaceStack
  <1>11. AccountOK' /\ ctx' \in [Peers -> [Ctxs -> Context]]
    <2>1. Elsewhere(t) /\ tls'[t] = tls[t]
      BY <1>1, <1>9, <1>10 DEF Elsewhere, Replaced
    <2>2. ~At(t, "cmd", "reserve")'
      BY <1>6, <1>9 DEF At, Top, Replaced
    <2>3. c.reserved /\ c.use = Cardinality(Uses(t)') /\ Uses(t)' # {}
      BY <1>0, <1>4, <1>5, <1>8, <1>10 DEF AccountOK
    <2>. QED
      BY <1>0, <1>1, <1>5, <1>8, <2>1, <2>2, <2>3, OwnChange
  <1>12. Types'
    <2>1. net' \in [Peers -> Seq(Packet)] /\ \A q \in Peers : net[q] # <<>> => net'[q] # <<>>
      BY <1>0, <1>1, <1>7, SendLemma
    <2>. QED
      BY <1>0, <1>1, <1>9, <1>11, <2>1 DEF Types, Replaced, rpcVars, histVars
  <1>. QED
    BY <1>10, <1>11, <1>12 DEF AInv

\* nrf_rpc_os_msg_get unlocks a context only for a thread that waits.
LEMMA MsgSleepAccount ==
    ASSUME AInv, NEW t \in Threads, MsgSleep(t)
    PROVE  AInv'
  <1>0. Types /\ StackOK /\ AccountOK
    BY DEF AInv
  <1>. DEFINE c == [Mine(t) EXCEPT !.owner = NoOne]
  <1>1. /\ At(t, "cmd", "get") /\ SetMine(t, c)
        /\ UNCHANGED <<stack, tls, cleanup, rpcVars, net, rx, histVars>>
    BY DEF MsgSleep
  <1>2. stack[t] # <<>> /\ Top(t).k = "cmd" /\ Top(t).st = "get"
    BY <1>1, AtTop
  <1>3. Len(stack[t]) \in Uses(t)
    BY <1>0, <1>2, TopLemma DEF Uses, InUse
  <1>4. tls[t] # NoOne /\ Mine(t) \in Context
    <2>1. tls[t] # NoOne
      BY <1>0, <1>3 DEF AccountOK
    <2>. QED
      BY <1>0, <2>1, MineLemma
  <1>5. c \in Context /\ c.reserved = Mine(t).reserved /\ c.use = Mine(t).use /\ c.owner = NoOne
    BY <1>4 DEF Context
  <1>. HIDE DEF c
  <1>6. StackOK' /\ \A u \in Threads : Uses(u)' = Uses(u)
    BY <1>0, <1>1 DEF StackOK, Uses, InUse
  <1>7. AccountOK' /\ ctx' \in [Peers -> [Ctxs -> Context]]
    <2>1. Elsewhere(t) /\ tls'[t] = tls[t]
      BY <1>1, <1>6 DEF Elsewhere
    <2>2. ~At(t, "cmd", "reserve")' /\ Waits(t)'
      BY <1>1, <1>2 DEF At, Top, Waits
    <2>3. c.reserved /\ c.use = Cardinality(Uses(t)') /\ Uses(t)' # {}
      BY <1>0, <1>3, <1>4, <1>5, <1>6 DEF AccountOK
    <2>. QED
      BY <1>0, <1>1, <1>4, <1>5, <2>1, <2>2, <2>3, OwnChange
  <1>8. Types'
    BY <1>0, <1>1, <1>7 DEF Types, rpcVars, histVars
  <1>. QED
    BY <1>6, <1>7, <1>8 DEF AInv

\* A thread inside nrf_rpc_os_msg_get has a context.
LEMMA WaitFacts ==
    ASSUME AInv, NEW t \in Threads, Waits(t)
    PROVE  /\ stack[t] # <<>> /\ Top(t) \in CmdFrame /\ Top(t).k = "cmd" /\ Top(t).st = "get"
           /\ Len(stack[t]) \in Uses(t)
           /\ tls[t] # NoOne /\ tls[t] \in Ctxs /\ Mine(t) \in Context /\ Mine(t).reserved
           /\ Mine(t).use = Cardinality(Uses(t)) /\ Mine(t).owner \in {t, NoOne}
  <1>0. Types /\ AccountOK
    BY DEF AInv
  <1>1. stack[t] # <<>> /\ Top(t).k = "cmd" /\ Top(t).st = "get"
    BY DEF Waits, At
  <1>2. Top(t) \in Frame /\ Len(stack[t]) \in 1..Len(stack[t]) /\ Top(t) = stack[t][Len(stack[t])]
    BY <1>0, <1>1, TopLemma
  <1>3. Top(t) \in CmdFrame
    BY <1>1, <1>2 DEF Frame, FreshFrame, NestedFrame, EvtFrame, RspFrame
  <1>4. Len(stack[t]) \in Uses(t)
    BY <1>1, <1>2 DEF Uses, InUse
  <1>5. tls[t] # NoOne
    BY <1>0, <1>4 DEF AccountOK
  <1>6. tls[t] \in Ctxs /\ Mine(t) \in Context
    BY <1>0, <1>5, MineLemma
  <1>. QED
    BY <1>0, <1>1, <1>3, <1>4, <1>5, <1>6 DEF AccountOK

\* The end of nrf_rpc_cmd_common: its frame goes and so does its use of the context.
LEMMA ReturnLemma ==
    ASSUME AInv, NEW t \in Threads, Waits(t), NEW c \in Context, c.reserved, c.owner = t,
           c.use = Mine(t).use, Return(t, c), stack' \in [Threads -> Seq(Frame)], StackOK',
           \A u \in Threads : u # t => stack'[u] = stack[u] /\ Uses(u)' = Uses(u),
           Uses(t)' = Uses(t) \ {Len(stack[t])}, ~At(t, "cmd", "reserve")',
           UNCHANGED <<cleanup, rpcVars, net, rx, histVars>>
    PROVE  AInv'
  <1>0. Types /\ AccountOK
    BY DEF AInv
  <1>1. PICK d : d = [c EXCEPT !.handler = Top(t).old, !.msg = NoMsg]
    OBVIOUS
  <1>2. d \in Context /\ d.reserved /\ d.owner = t /\ d.use = Mine(t).use
    BY <1>1, WaitFacts DEF Context, CmdFrame, Message
  <1>3. /\ SetMine(t, Released(d))
        /\ tls' = IF Released(d).reserved THEN tls ELSE [tls EXCEPT ![t] = NoOne]
    BY <1>1 DEF Return
  <1>4. tls[t] # NoOne /\ Len(stack[t]) \in Uses(t)
    BY WaitFacts
  <1>5. /\ AccountOK' /\ ctx' \in [Peers -> [Ctxs -> Context]]
        /\ tls' \in [Threads -> Ctxs \cup {NoOne}]
    BY <1>0, <1>2, <1>3, <1>4, ReleaseLemma
  <1>6. Types'
    BY <1>0, <1>5 DEF Types, rpcVars, histVars
  <1>. QED
    BY <1>5, <1>6 DEF AInv

\* A call that returns leaves the stack.
LEMMA ReturnPops ==
    ASSUME AInv, NEW t \in Threads, Waits(t), Pop(t),
           Return(t, [Mine(t) EXCEPT !.owner = t]),
           UNCHANGED <<cleanup, rpcVars, net, rx, histVars>>
    PROVE  AInv'
  <1>0. Types /\ StackOK /\ stack[t] # <<>>
    BY WaitFacts DEF AInv
  <1>1. PICK c : c = [Mine(t) EXCEPT !.owner = t]
    OBVIOUS
  <1>2. c \in Context /\ c.reserved /\ c.owner = t /\ c.use = Mine(t).use
    BY <1>1, WaitFacts DEF Context
  <1>3. Popped(t)
    BY <1>0, PopLemma
  <1>4. /\ StackOK' /\ Uses(t)' = Uses(t) \ {Len(stack[t])}
        /\ \A u \in Threads : u # t => Uses(u)' = Uses(u)
    BY <1>0, <1>3, PopStack
  <1>5. ~At(t, "cmd", "reserve")'
    BY <1>0, <1>3, PopTop, AtTop
  <1>6. /\ stack' \in [Threads -> Seq(Frame)]
        /\ \A u \in Threads : u # t => stack'[u] = stack[u] /\ Uses(u)' = Uses(u)
    BY <1>3, <1>4 DEF Popped
  <1>7. Return(t, c)
    BY <1>1
  <1>. QED
    BY <1>2, <1>4, <1>5, <1>6, <1>7, ReturnLemma

\* wait_for_response returns without a response to decode, or times out.
LEMMA CmdReturnAccount ==
    ASSUME AInv, NEW t \in Threads, CmdReturn(t) \/ CmdTimeout(t)
    PROVE  AInv'
  <1>1. CASE CmdReturn(t)
    <2>1. /\ Waits(t) /\ Pop(t) /\ Return(t, [Mine(t) EXCEPT !.owner = t])
          /\ UNCHANGED <<cleanup, rpcVars, net, rx, histVars>>
      BY <1>1 DEF CmdReturn, Got, Waits
    <2>. QED
      BY <2>1, ReturnPops
  <1>2. CASE CmdTimeout(t)
    <2>1. /\ Waits(t) /\ Pop(t) /\ Return(t, [Mine(t) EXCEPT !.owner = t])
          /\ UNCHANGED <<cleanup, rpcVars, net, rx, histVars>>
      BY <1>2 DEF CmdTimeout, Waits
    <2>. QED
      BY <2>1, ReturnPops
  <1>. QED
    BY <1>1, <1>2

\* wait_for_response returns a response.
LEMMA CmdResponseAccount ==
    ASSUME AInv, NEW t \in Threads, CmdResponse(t)
    PROVE  AInv'
  <1>0. Types /\ StackOK /\ stack[t] # <<>> /\ Waits(t) /\ Return(t, [Mine(t) EXCEPT !.owner = t])
        /\ UNCHANGED <<cleanup, rpcVars, net, rx, histVars>>
    BY WaitFacts DEF AInv, CmdResponse, Got, Waits
  <1>1. CASE Pop(t)
    BY <1>0, <1>1, ReturnPops
  <1>2. CASE stack' = [stack EXCEPT ![t][Len(stack[t])] = [k |-> "rsp", st |-> "decode"]]
    <2>1. PICK f : f = [k |-> "rsp", st |-> "decode"]
      OBVIOUS
    <2>2. f \in Frame /\ f.k = "rsp" /\ ~InUse(f)
      BY <2>1 DEF Frame, RspFrame, InUse
    <2>3. Replaced(t, f)
      BY <1>0, <1>2, <2>1, <2>2, ReplaceLemma
    <2>4. Top(t).k = "cmd"
      BY <1>0, WaitFacts
    <2>5. /\ StackOK' /\ Uses(t)' = Uses(t) \ {Len(stack[t])}
          /\ \A u \in Threads : u # t => Uses(u)' = Uses(u)
      BY <1>0, <2>2, <2>3, <2>4, ReplaceStack
    <2>6. ~At(t, "cmd", "reserve")'
      BY <2>2, <2>3 DEF At, Top, Replaced
    <2>7. /\ stack' \in [Threads -> Seq(Frame)]
          /\ \A u \in Threads : u # t => stack'[u] = stack[u] /\ Uses(u)' = Uses(u)
      BY <2>3, <2>5 DEF Replaced
    <2>8. PICK c : c = [Mine(t) EXCEPT !.owner = t]
      OBVIOUS
    <2>9. c \in Context /\ c.reserved /\ c.owner = t /\ c.use = Mine(t).use /\ Return(t, c)
      BY <1>0, <2>8, WaitFacts DEF Context
    <2>. QED
      BY <1>0, <2>5, <2>6, <2>7, <2>9, ReturnLemma
  <1>. QED
    BY <1>1, <1>2 DEF CmdResponse

\* A refused command releases the use that it had reserved.
LEMMA CmdSendFailsAccount ==
    ASSUME AInv, NEW t \in Threads, CmdSendFails(t)
    PROVE  AInv'
  <1>0. Types /\ StackOK /\ AccountOK
    BY DEF AInv
  <1>1. /\ At(t, "cmd", "send") /\ SetMine(t, Released(Mine(t))) /\ Pop(t)
        /\ tls' = IF Mine(t).use = 1 THEN [tls EXCEPT ![t] = NoOne] ELSE tls
        /\ UNCHANGED <<cleanup, rpcVars, net, rx, histVars>>
    BY DEF CmdSendFails
  <1>2. stack[t] # <<>> /\ Top(t).k = "cmd" /\ Top(t).st = "send" /\ ~Waits(t)
    BY <1>1, AtTop
  <1>3. Len(stack[t]) \in Uses(t)
    BY <1>0, <1>2, TopLemma DEF Uses, InUse
  <1>4. tls[t] # NoOne
    BY <1>0, <1>3 DEF AccountOK
  <1>5. PICK d : d = Mine(t)
    OBVIOUS
  <1>6. d \in Context /\ d.reserved /\ d.owner = t /\ d.use = Mine(t).use
    BY <1>0, <1>2, <1>4, <1>5, MineLemma, Locked DEF AccountOK
  <1>7. Popped(t)
    BY <1>0, <1>1, <1>2, PopLemma
  <1>8. /\ StackOK' /\ Uses(t)' = Uses(t) \ {Len(stack[t])}
        /\ \A u \in Threads : u # t => Uses(u)' = Uses(u)
    BY <1>0, <1>2, <1>7, PopStack
  <1>9. ~At(t, "cmd", "reserve")'
    BY <1>0, <1>2, <1>7, PopTop, AtTop
  <1>10. Released(d).reserved <=> d.use # 1
    BY <1>6 DEF Released, Freed, Context
  <1>11. tls' = IF Released(d).reserved THEN tls ELSE [tls EXCEPT ![t] = NoOne]
    BY <1>1, <1>6, <1>10
  <1>12. \A u \in Threads : u # t => stack'[u] = stack[u] /\ Uses(u)' = Uses(u)
    BY <1>7, <1>8 DEF Popped
  <1>13. SetMine(t, Released(d))
    BY <1>1, <1>5
  <1>14. /\ AccountOK' /\ ctx' \in [Peers -> [Ctxs -> Context]]
         /\ tls' \in [Threads -> Ctxs \cup {NoOne}]
    BY <1>0, <1>3, <1>4, <1>6, <1>8, <1>9, <1>11, <1>12, <1>13, ReleaseLemma
  <1>15. Types'
    BY <1>0, <1>1, <1>7, <1>14 DEF Types, Popped, rpcVars, histVars
  <1>. QED
    BY <1>8, <1>14, <1>15 DEF AInv

\* A recursive command runs on the context of the thread that waits.
LEMMA CmdRecursiveAccount ==
    ASSUME AInv, NEW t \in Threads, CmdRecursive(t)
    PROVE  AInv'
  <1>0. Types /\ StackOK /\ AccountOK /\ Waits(t)
    BY DEF AInv, CmdRecursive, Got, Waits
  <1>. DEFINE c == [[Mine(t) EXCEPT !.owner = t] EXCEPT !.remote = Mine(t).msg.src, !.msg = NoMsg]
              f == [k |-> "exec", st |-> "decode", conv |-> Mine(t).msg.conv, fresh |-> FALSE]
  <1>1. /\ SetMine(t, c) /\ Push(t, f) /\ Mine(t).msg.type = "CMD"
        /\ UNCHANGED <<tls, cleanup, rpcVars, net, rx, histVars>>
    BY <1>0, WaitFacts DEF CmdRecursive, Context
  <1>2. /\ stack[t] # <<>> /\ Top(t).k = "cmd" /\ Top(t).st = "get"
        /\ tls[t] # NoOne /\ Mine(t) \in Context /\ Mine(t).reserved
        /\ Mine(t).use = Cardinality(Uses(t)) /\ Len(stack[t]) \in Uses(t)
    BY <1>0, WaitFacts
  <1>3. Mine(t).msg.src \in Ctxs \cup {Unknown} /\ Mine(t).msg.conv \in Nat \ {0}
    BY <1>1, <1>2 DEF Context, Message, Packet, HANDLED, NoMsg, ABORT
  <1>4. /\ c \in Context /\ c.reserved = Mine(t).reserved /\ c.use = Mine(t).use /\ c.owner = t
    BY <1>2, <1>3 DEF Context, Message
  <1>5. f \in Frame /\ f.k = "exec" /\ ~f.fresh /\ ~InUse(f)
    BY <1>3 DEF Frame, NestedFrame, InUse
  <1>. HIDE DEF f, c
  <1>6. Pushed(t, f)
    BY <1>0, <1>1, <1>5, PushLemma
  <1>7. /\ StackOK' /\ Uses(t)' = Uses(t)
        /\ \A u \in Threads : u # t => Uses(u)' = Uses(u)
    BY <1>0, <1>2, <1>5, <1>6, PushStack DEF Settled
  <1>8. AccountOK' /\ ctx' \in [Peers -> [Ctxs -> Context]]
    <2>1. Elsewhere(t) /\ tls'[t] = tls[t]
      BY <1>1, <1>6, <1>7 DEF Elsewhere, Pushed
    <2>2. ~At(t, "cmd", "reserve")'
      BY <1>5, <1>6 DEF At, Top, Pushed
    <2>3. c.reserved /\ c.use = Cardinality(Uses(t)') /\ Uses(t)' # {}
      BY <1>2, <1>4, <1>7
    <2>. QED
      BY <1>0, <1>1, <1>2, <1>4, <2>1, <2>2, <2>3, OwnChange
  <1>9. Types'
    BY <1>0, <1>1, <1>6, <1>8 DEF Types, Pushed, rpcVars, histVars
  <1>. QED
    BY <1>7, <1>8, <1>9 DEF AInv

\* A frame that does not use the context leaves the stack.
LEMMA PopIdle ==
    ASSUME AInv, NEW t \in Threads, stack[t] # <<>>, ~InUse(Top(t)), ~Waits(t), Pop(t),
           UNCHANGED <<tls, ctx>>
    PROVE  StackOK' /\ AccountOK' /\ stack' \in [Threads -> Seq(Frame)]
  <1>0. Types /\ StackOK /\ AccountOK
    BY DEF AInv
  <1>1. Popped(t)
    BY <1>0, PopLemma
  <1>2. Len(stack[t]) \notin Uses(t)
    BY <1>0, TopLemma DEF Uses
  <1>3. /\ StackOK' /\ Uses(t)' = Uses(t)
        /\ \A u \in Threads : u # t => Uses(u)' = Uses(u)
    BY <1>0, <1>1, <1>2, PopStack
  <1>4. ~At(t, "cmd", "reserve")'
    BY <1>0, <1>1, PopTop, AtTop
  <1>5. /\ Elsewhere(t) /\ tls'[t] = tls[t] /\ ctx' = ctx /\ ctx' \in [Peers -> [Ctxs -> Context]]
        /\ stack' \in [Threads -> Seq(Frame)]
    BY <1>0, <1>1, <1>3 DEF Elsewhere, Popped, Types
  <1>6. tls[t] # NoOne => Mine(t).owner # NoOne
    BY <1>0, Locked
  <1>7. AccountOK'
    BY <1>0, <1>3, <1>4, <1>5, <1>6, Steady
  <1>. QED
    BY <1>3, <1>5, <1>7

\* The receive thread or nrf_rpc_stop works: no stack changes, and a context
\* only gets a message.
LEMMA Quiet ==
    ASSUME AInv, UNCHANGED <<stack, tls>>, ctx' \in [Peers -> [Ctxs -> Context]],
           \A p \in Peers : \A i \in Ctxs :
              /\ ctx'[p][i].reserved = ctx[p][i].reserved /\ ctx'[p][i].use = ctx[p][i].use
              /\ ctx'[p][i].owner = ctx[p][i].owner
    PROVE  StackOK' /\ AccountOK'
  <1>0. Types /\ StackOK /\ AccountOK
    BY DEF AInv
  <1>1. StackOK'
    BY <1>0 DEF StackOK
  <1>2. \A t \in Threads : /\ Uses(t)' = Uses(t) /\ Waits(t)' = Waits(t)
                           /\ At(t, "cmd", "reserve")' = At(t, "cmd", "reserve")
    BY DEF Uses, InUse, Waits, At, Top
  <1>3. \A t \in Threads : tls[t] # NoOne =>
           /\ Mine(t)'.reserved = Mine(t).reserved /\ Mine(t)'.use = Mine(t).use
           /\ Mine(t)'.owner = Mine(t).owner
    <2>1. \A t \in Threads : tls[t] # NoOne => PeerOf(t) \in Peers /\ tls[t] \in Ctxs
      BY <1>0, ThreadPeer DEF Types
    <2>. QED
      BY <2>1 DEF Mine
  <1>4. \A t \in Threads : tls[t] # NoOne =>
          /\ Mine(t)'.reserved /\ Mine(t)'.use = Cardinality(Uses(t)')
          /\ Mine(t)'.owner = t \/ (Mine(t)'.owner = NoOne /\ Waits(t)')
    BY <1>0, <1>2, <1>3 DEF AccountOK
  <1>5. AccountOK'
    BY <1>0, <1>2, <1>4 DEF AccountOK
  <1>. QED
    BY <1>1, <1>5

\* The frame of a decoded response used no context.
LEMMA RspDecodedAccount ==
    ASSUME AInv, NEW t \in Threads, RspDecoded(t)
    PROVE  AInv'
  <1>0. Types /\ PeerOf(t) \in Peers
    BY ThreadPeer DEF AInv
  <1>1. /\ At(t, "rsp", "decode") /\ DecodingDone(PeerOf(t)) /\ Pop(t)
        /\ UNCHANGED <<tls, ctx>> /\ UNCHANGED <<cleanup, rpcVars, net, histVars>>
    BY DEF RspDecoded
  <1>2. stack[t] # <<>> /\ ~InUse(Top(t)) /\ ~Waits(t)
    BY <1>1, AtTop DEF InUse
  <1>3. StackOK' /\ AccountOK' /\ stack' \in [Threads -> Seq(Frame)]
    BY <1>1, <1>2, PopIdle
  <1>4. Types'
    BY <1>0, <1>1, <1>3 DEF Types, DecodingDone, rpcVars, histVars
  <1>. QED
    BY <1>3, <1>4 DEF AInv

\* The frame of an event handler used no context.
LEMMA EvtAckAccount ==
    ASSUME AInv, NEW t \in Threads, EvtAck(t)
    PROVE  AInv'
  <1>0. Types /\ PeerOf(t) \in Peers
    BY ThreadPeer DEF AInv
  <1>1. PICK x : x = [type |-> "ACK", src |-> Unknown, dst |-> Unknown, conv |-> 0, parent |-> 0]
    OBVIOUS
  <1>2. /\ At(t, "evt", "run") /\ Send(PeerOf(t), x) /\ Pop(t)
        /\ UNCHANGED <<tls, ctx>> /\ UNCHANGED <<cleanup, rpcVars, rx, histVars>>
    BY <1>1 DEF EvtAck
  <1>3. stack[t] # <<>> /\ ~InUse(Top(t)) /\ ~Waits(t)
    BY <1>2, AtTop DEF InUse
  <1>4. StackOK' /\ AccountOK' /\ stack' \in [Threads -> Seq(Frame)]
    BY <1>2, <1>3, PopIdle
  <1>5. x \in Packet
    BY <1>1 DEF Packet
  <1>6. net' \in [Peers -> Seq(Packet)] /\ \A q \in Peers : net[q] # <<>> => net'[q] # <<>>
    BY <1>0, <1>2, <1>5, SendLemma
  <1>7. Types'
    BY <1>0, <1>2, <1>4, <1>6 DEF Types, rpcVars, histVars
  <1>. QED
    BY <1>4, <1>7 DEF AInv

\* nrf_rpc_evt needs no context.
LEMMA EvtSendAccount ==
    ASSUME AInv, NEW t \in Threads, EvtSend(t)
    PROVE  AInv'
  <1>0. Types /\ PeerOf(t) \in Peers
    BY ThreadPeer DEF AInv
  <1>1. PICK x : x = [type |-> "EVT", src |-> Unknown, dst |-> Unknown, conv |-> 0, parent |-> 0]
    OBVIOUS
  <1>2. /\ Send(PeerOf(t), x) /\ UNCHANGED <<stack, tls>> /\ ctx' = ctx
        /\ UNCHANGED <<cleanup, rpcVars, rx, calls, acks>>
    BY <1>1 DEF EvtSend
  <1>3. ctx' \in [Peers -> [Ctxs -> Context]]
    BY <1>0, <1>2 DEF Types
  <1>4. StackOK' /\ AccountOK'
    BY <1>2, <1>3, Quiet
  <1>5. x \in Packet
    BY <1>1 DEF Packet
  <1>6. net' \in [Peers -> Seq(Packet)] /\ \A q \in Peers : net[q] # <<>> => net'[q] # <<>>
    BY <1>0, <1>2, <1>5, SendLemma
  <1>7. Types'
    BY <1>0, <1>2, <1>6 DEF Types, rpcVars
  <1>. QED
    BY <1>4, <1>7 DEF AInv

\* nrf_rpc_decoding_done needs no context.
LEMMA ExecDecodeAccount ==
    ASSUME AInv, NEW t \in Threads, ExecDecode(t)
    PROVE  AInv'
  <1>0. Types /\ StackOK /\ AccountOK /\ PeerOf(t) \in Peers
    BY ThreadPeer DEF AInv
  <1>1. /\ At(t, "exec", "decode") \/ At(t, "evt", "decode")
        /\ DecodingDone(PeerOf(t)) /\ Goto(t, "run")
        /\ UNCHANGED <<tls, ctx, cleanup, rpcVars, net, histVars>>
    BY DEF ExecDecode
  <1>2. /\ stack[t] # <<>> /\ Top(t).k \in {"exec", "evt"} /\ Top(t).st = "decode" /\ ~Waits(t)
        /\ Top(t) \in Frame
    BY <1>0, <1>1, AtTop, TopLemma
  <1>. DEFINE f == [Top(t) EXCEPT !.st = "run"]
  <1>3. /\ f \in Frame /\ f.k = Top(t).k /\ f.st = "run"
        /\ InUse(f) <=> InUse(Top(t))
        /\ f.k = "exec" => f.fresh = Top(t).fresh
    <2>1. Top(t) \in FreshFrame \cup NestedFrame \cup EvtFrame
      BY <1>2 DEF Frame, CmdFrame, RspFrame
    <2>2. CASE Top(t) \in FreshFrame
      BY <1>2, <2>2 DEF Frame, FreshFrame, InUse
    <2>3. CASE Top(t) \in NestedFrame
      BY <1>2, <2>3 DEF Frame, NestedFrame, InUse
    <2>4. CASE Top(t) \in EvtFrame
      BY <1>2, <2>4 DEF Frame, EvtFrame, InUse
    <2>. QED
      BY <2>1, <2>2, <2>3, <2>4
  <1>4. Replaced(t, f)
    BY <1>0, <1>1, <1>2, <1>3, GotoLemma
  <1>. HIDE DEF f
  <1>5. /\ StackOK' /\ Uses(t)' = Uses(t)
        /\ \A u \in Threads : u # t => Uses(u)' = Uses(u)
    <2>1. Len(stack[t]) \in Uses(t) <=> InUse(Top(t))
      BY <1>0, <1>2, TopLemma DEF Uses
    <2>2. f.k # "cmd"
      BY <1>2, <1>3
    <2>. QED
      BY <1>0, <1>2, <1>3, <1>4, <2>1, <2>2, ReplaceStack
  <1>6. AccountOK'
    <2>1. /\ Elsewhere(t) /\ tls'[t] = tls[t] /\ ctx' = ctx
          /\ ctx' \in [Peers -> [Ctxs -> Context]]
      BY <1>0, <1>1, <1>4, <1>5 DEF Elsewhere, Replaced, Types
    <2>2. tls[t] # NoOne => Mine(t).owner # NoOne
      BY <1>0, <1>2, Locked
    <2>3. ~At(t, "cmd", "reserve")'
      BY <1>3, <1>4 DEF At, Top, Replaced
    <2>. QED
      BY <1>0, <1>5, <2>1, <2>2, <2>3, Steady
  <1>7. Types'
    BY <1>0, <1>1, <1>4 DEF Types, Replaced, DecodingDone, rpcVars, histVars
  <1>. QED
    BY <1>5, <1>6, <1>7 DEF AInv

\* A handler that got a context of its own is alone on its stack.
LEMMA FreshAlone ==
    ASSUME Types, StackOK, NEW t \in Threads, stack[t] # <<>>, Top(t).k = "exec", Top(t).fresh
    PROVE  Len(stack[t]) = 1 /\ Uses(t) \subseteq {1}
  <1>1. PICK l : l = Len(stack[t])
    OBVIOUS
  <1>a. l \in 1..Len(stack[t]) /\ Top(t) = stack[t][l]
    BY <1>1, TopLemma
  <1>b. Top(t).k = "exec" => (Top(t).fresh <=> l = 1)
    BY <1>a DEF StackOK
  <1>2. Len(stack[t]) = 1
    BY <1>1, <1>b
  <1>. QED
    BY <1>2 DEF Uses

\* parse_incoming_packet takes a free context for a new conversation.
LEMMA ExecAllocAccount ==
    ASSUME AInv, NEW t \in Threads, ExecAlloc(t)
    PROVE  AInv'
  <1>0. Types /\ StackOK /\ AccountOK
    BY DEF AInv
  <1>1. /\ At(t, "exec", "alloc") /\ Goto(t, "decode")
        /\ UNCHANGED <<cleanup, rpcVars, net, rx, histVars>>
    BY DEF ExecAlloc
  <1>2. PICK i \in Ctxs : AllocOn(t, i, Top(t).src)
    BY DEF ExecAlloc
  <1>3. stack[t] # <<>> /\ Top(t).k = "exec" /\ Top(t).st = "alloc" /\ Top(t) \in Frame
    BY <1>0, <1>1, AtTop, TopLemma
  <1>4. Top(t) \in FreshFrame
    BY <1>3 DEF Frame, CmdFrame, NestedFrame, EvtFrame, RspFrame
  <1>. DEFINE f == [Top(t) EXCEPT !.st = "decode"]
  <1>5. /\ f \in Frame /\ f.k = "exec" /\ f.st = "decode" /\ f.fresh /\ InUse(f)
        /\ Top(t).fresh /\ Top(t).src \in Ctxs \cup {Unknown} /\ ~InUse(Top(t))
    BY <1>3, <1>4 DEF Frame, FreshFrame, InUse
  <1>6. Replaced(t, f)
    BY <1>0, <1>1, <1>3, <1>5, GotoLemma
  <1>. HIDE DEF f
  <1>7. Len(stack[t]) = 1 /\ Uses(t) = {}
    <2>1. Len(stack[t]) \notin Uses(t)
      BY <1>0, <1>3, <1>5, TopLemma DEF Uses
    <2>. QED
      BY <1>0, <1>3, <1>5, <2>1, FreshAlone
  <1>8. /\ StackOK' /\ Uses(t)' = {1}
        /\ \A u \in Threads : u # t => Uses(u)' = Uses(u)
    BY <1>0, <1>3, <1>5, <1>6, <1>7, ReplaceStack
  <1>9. /\ AccountOK' /\ ctx' \in [Peers -> [Ctxs -> Context]]
        /\ tls' \in [Threads -> Ctxs \cup {NoOne}]
    <2>1. ~At(t, "cmd", "reserve")'
      BY <1>5, <1>6 DEF At, Top, Replaced
    <2>2. \A u \in Threads : u # t => stack'[u] = stack[u] /\ Uses(u)' = Uses(u)
      BY <1>6, <1>8 DEF Replaced
    <2>3. tls[t] = NoOne
      BY <1>0, <1>7 DEF AccountOK
    <2>. QED
      BY <1>0, <1>2, <1>5, <1>8, <2>1, <2>2, <2>3, OwnAlloc
  <1>10. Types'
    BY <1>0, <1>1, <1>6, <1>9 DEF Types, Replaced, rpcVars, histVars
  <1>. QED
    BY <1>8, <1>9, <1>10 DEF AInv

\* cmd_ctx_free after a handler that the context was taken for.
LEMMA ExecRespondAccount ==
    ASSUME AInv, NEW t \in Threads, ExecRespond(t)
    PROVE  AInv'
  <1>0. Types /\ StackOK /\ AccountOK /\ PeerOf(t) \in Peers
    BY ThreadPeer DEF AInv
  <1>1. PICK x : x = [type |-> "RSP", src |-> Unknown, dst |-> Mine(t).remote,
                      conv |-> Top(t).conv, parent |-> 0]
    OBVIOUS
  <1>2. /\ At(t, "exec", "run") /\ Send(PeerOf(t), x) /\ Pop(t)
        /\ UNCHANGED <<cleanup, rpcVars, rx, histVars>>
    BY <1>1 DEF ExecRespond
  <1>3. /\ stack[t] # <<>> /\ Top(t).k = "exec" /\ Top(t).st = "run" /\ ~Waits(t)
        /\ Top(t) \in Frame
    BY <1>0, <1>2, AtTop, TopLemma
  <1>4. Top(t) \in FreshFrame \cup NestedFrame
    BY <1>3 DEF Frame, CmdFrame, EvtFrame, RspFrame
  <1>5. Top(t).fresh \in BOOLEAN /\ Top(t).conv \in Nat \ {0}
    BY <1>4 DEF FreshFrame, NestedFrame
  <1>6. Uses(t) # {}
    <2>1. CASE Top(t).fresh
      BY <1>0, <1>3, <2>1, TopLemma DEF Uses, InUse
    <2>2. CASE ~Top(t).fresh
      <3>1. PICK l : l = Len(stack[t])
        OBVIOUS
      <3>2. l \in Nat \ {0} /\ Top(t) = stack[t][l] /\ l \in 1..Len(stack[t])
        BY <1>0, <1>3, <3>1, TopLemma
      <3>3. l # 1 /\ l > 1
        BY <1>0, <1>3, <2>2, <3>2 DEF StackOK
      <3>4. stack[t][l - 1].k = "cmd" /\ l - 1 \in 1..Len(stack[t]) /\ l - 1 < Len(stack[t])
        BY <1>0, <1>3, <3>1, <3>2, <3>3 DEF StackOK
      <3>5. stack[t][l - 1].st = "get"
        BY <1>0, <3>4 DEF StackOK
      <3>. QED
        BY <3>4, <3>5 DEF Uses, InUse
    <2>. QED
      BY <1>5, <2>1, <2>2
  <1>7. tls[t] # NoOne
    BY <1>0, <1>6 DEF AccountOK
  <1>8. Mine(t) \in Context /\ Mine(t).owner = t
    BY <1>0, <1>3, <1>7, MineLemma, Locked
  <1>9. x \in Packet
    BY <1>1, <1>5, <1>8 DEF Packet, Context
  <1>10. net' \in [Peers -> Seq(Packet)] /\ \A q \in Peers : net[q] # <<>> => net'[q] # <<>>
    BY <1>0, <1>2, <1>9, SendLemma
  <1>11. CASE Top(t).fresh
    <2>1. SetMine(t, Freed(Mine(t))) /\ tls' = [tls EXCEPT ![t] = NoOne]
      BY <1>11 DEF ExecRespond
    <2>2. Popped(t)
      BY <1>0, <1>2, <1>3, PopLemma
    <2>3. /\ StackOK' /\ Uses(t)' = {}
          /\ \A u \in Threads : u # t => Uses(u)' = Uses(u)
      BY <1>0, <1>3, <1>11, <2>2, FreshAlone, PopStack
    <2>4. PICK c : c = Freed(Mine(t))
      OBVIOUS
    <2>5. c \in Context /\ ~c.reserved /\ c.owner = NoOne
      BY <1>8, <2>4 DEF Freed, Context
    <2>6. /\ Elsewhere(t) /\ tls'[t] = NoOne /\ tls' \in [Threads -> Ctxs \cup {NoOne}]
      BY <1>0, <2>1, <2>2, <2>3 DEF Elsewhere, Popped, Types
    <2>7. AccountOK' /\ ctx' \in [Peers -> [Ctxs -> Context]]
      BY <1>0, <1>7, <2>1, <2>3, <2>4, <2>5, <2>6, OwnFree
    <2>8. Types'
      BY <1>0, <1>2, <1>10, <2>2, <2>6, <2>7 DEF Types, Popped, rpcVars, histVars
    <2>. QED
      BY <2>3, <2>7, <2>8 DEF AInv
  <1>12. CASE ~Top(t).fresh
    <2>1. UNCHANGED <<tls, ctx>> /\ ~InUse(Top(t))
      BY <1>3, <1>12 DEF ExecRespond, InUse
    <2>2. StackOK' /\ AccountOK' /\ stack' \in [Threads -> Seq(Frame)]
      BY <1>2, <1>3, <2>1, PopIdle
    <2>3. Types'
      BY <1>0, <1>2, <1>10, <2>1, <2>2 DEF Types, rpcVars, histVars
    <2>. QED
      BY <2>2, <2>3 DEF AInv
  <1>. QED
    BY <1>5, <1>11, <1>12

\* receive_handler drops or admits a packet.
LEMMA RxCheckAccount ==
    ASSUME AInv, NEW p \in Peers, RxCheck(p)
    PROVE  AInv'
  <1>0. Types
    BY DEF AInv
  <1>1. /\ UNCHANGED <<stack, tls>> /\ ctx' = ctx /\ UNCHANGED <<cleanup, rpcVars, histVars>>
        /\ rx[p] = "idle" /\ net[p] # <<>>
    BY DEF RxCheck
  <1>2. ctx' \in [Peers -> [Ctxs -> Context]]
    BY <1>0, <1>1 DEF Types
  <1>3. StackOK' /\ AccountOK'
    BY <1>1, <1>2, Quiet
  <1>4. CASE Taken(p) /\ UNCHANGED rx
    <2>1. net' \in [Peers -> Seq(Packet)] /\ \A q \in Peers : q # p => net'[q] = net[q]
      BY <1>0, <1>1, <1>4, TakenLemma
    <2>2. Types'
      BY <1>0, <1>1, <1>2, <1>4, <2>1 DEF Types, rpcVars, histVars
    <2>. QED
      BY <1>3, <2>2 DEF AInv
  <1>5. CASE rx' = [rx EXCEPT ![p] = "admit"] /\ UNCHANGED net
    <2>1. Types'
      BY <1>0, <1>1, <1>2, <1>5 DEF Types, rpcVars, histVars
    <2>. QED
      BY <1>3, <2>1 DEF AInv
  <1>. QED
    BY <1>4, <1>5 DEF RxCheck

\* A handler that has just got its thread uses no context yet.
LEMMA RxPoolAccount ==
    ASSUME AInv, NEW p \in Peers, RxPool(p)
    PROVE  AInv'
  <1>0. Types /\ StackOK /\ AccountOK
    BY DEF AInv
  <1>. DEFINE x == Head(net[p])
  <1>1. PICK f : f = IF x.type = "EVT" THEN [k |-> "evt", st |-> "decode"]
                     ELSE [k |-> "exec", st |-> "alloc", conv |-> x.conv,
                           src |-> x.src, fresh |-> TRUE]
    OBVIOUS
  <1>2. PICK t \in PoolThreads[p] : stack[t] = <<>> /\ Push(t, f)
    BY <1>1 DEF RxPool
  <1>3. /\ rx[p] = "admit" /\ net[p] # <<>> /\ Taken(p) /\ AfterDelivery(p)
        /\ x.type = "EVT" \/ x.type = "CMD"
        /\ UNCHANGED <<tls, ctx, cleanup, rpcVars, histVars>>
    BY <1>0 DEF RxPool, RxNext, Types
  <1>4. t \in Threads
    BY <1>2, ThreadPeer
  <1>5. /\ net' \in [Peers -> Seq(Packet)] /\ x \in Packet
        /\ \A q \in Peers : q # p => net'[q] = net[q]
    BY <1>0, <1>3, TakenLemma
  <1>6. f \in Frame /\ ~InUse(f) /\ f.k \in {"evt", "exec"} /\ (f.k = "exec" => f.fresh)
    BY <1>1, <1>3, <1>5 DEF Frame, EvtFrame, FreshFrame, InUse, Packet
  <1>7. Pushed(t, f)
    BY <1>0, <1>2, <1>4, <1>6, PushLemma
  <1>8. /\ StackOK' /\ Uses(t)' = Uses(t)
        /\ \A u \in Threads : u # t => Uses(u)' = Uses(u)
    BY <1>0, <1>2, <1>4, <1>6, <1>7, PushStack
  <1>9. AccountOK'
    <2>1. /\ Elsewhere(t) /\ tls'[t] = tls[t] /\ ctx' = ctx
          /\ ctx' \in [Peers -> [Ctxs -> Context]]
      BY <1>0, <1>3, <1>4, <1>7, <1>8 DEF Elsewhere, Pushed, Types
    <2>2. ~Waits(t)
      BY <1>2 DEF Waits, At
    <2>3. tls[t] # NoOne => Mine(t).owner # NoOne
      BY <1>0, <1>4, <2>2, Locked
    <2>4. ~At(t, "cmd", "reserve")'
      BY <1>6, <1>7 DEF At, Top, Pushed
    <2>. QED
      BY <1>0, <1>4, <1>8, <2>1, <2>3, <2>4, Steady
  <1>10. Types'
    BY <1>0, <1>3, <1>5, <1>7 DEF Types, Pushed, AfterDelivery, rpcVars, histVars
  <1>. QED
    BY <1>8, <1>9, <1>10 DEF AInv

\* nrf_rpc_os_msg_set: a message is put into a context.
MsgPut(p, i, m) == ctx' = [ctx EXCEPT ![p][i].msg = m]

\* It changes nothing else there.
LEMMA MsgSet ==
    ASSUME Types, NEW p \in Peers, NEW i \in Ctxs, NEW m \in Message, MsgPut(p, i, m)
    PROVE  /\ ctx' \in [Peers -> [Ctxs -> Context]]
           /\ \A q \in Peers : \A j \in Ctxs :
                 /\ ctx'[q][j].reserved = ctx[q][j].reserved /\ ctx'[q][j].use = ctx[q][j].use
                 /\ ctx'[q][j].owner = ctx[q][j].owner /\ ctx'[q][j].remote = ctx[q][j].remote
                 /\ ctx'[q][j].handler = ctx[q][j].handler
                 /\ ctx'[q][j].msg = IF q = p /\ j = i THEN m ELSE ctx[q][j].msg
  <1>1. ctx \in [Peers -> [Ctxs -> Context]]
    BY DEF Types
  <1>2. PICK c : c = [ctx[p][i] EXCEPT !.msg = m]
    OBVIOUS
  <1>3. ctx[p][i] \in Context
    BY <1>1
  <1>4. /\ c \in Context /\ c.reserved = ctx[p][i].reserved /\ c.use = ctx[p][i].use
        /\ c.owner = ctx[p][i].owner /\ c.remote = ctx[p][i].remote
        /\ c.handler = ctx[p][i].handler /\ c.msg = m
    BY <1>2, <1>3 DEF Context
  <1>5. ctx' = [ctx EXCEPT ![p] = [ctx[p] EXCEPT ![i] = c]]
    BY <1>1, <1>2 DEF MsgPut
  <1>6. /\ ctx' \in [Peers -> [Ctxs -> Context]]
        /\ \A q \in Peers : \A j \in Ctxs :
              ctx'[q][j] = IF q = p /\ j = i THEN c ELSE ctx[q][j]
    BY <1>1, <1>4, <1>5
  <1>. QED
    BY <1>4, <1>6

\* nrf_rpc_os_msg_set changes the message of a context only.
LEMMA RxContextAccount ==
    ASSUME AInv, NEW p \in Peers, RxContext(p)
    PROVE  AInv'
  <1>0. Types
    BY DEF AInv
  <1>. DEFINE x == Head(net[p])
  <1>1. /\ UNCHANGED <<stack, tls>> /\ UNCHANGED <<cleanup, rpcVars, histVars>> /\ Taken(p)
        /\ rx[p] = "admit" /\ net[p] # <<>> /\ x.type \in {"CMD", "RSP"} /\ x.dst # Unknown
    BY <1>0 DEF RxContext, RxNext, Types
  <1>2. /\ net' \in [Peers -> Seq(Packet)] /\ x \in Packet
        /\ \A q \in Peers : q # p => net'[q] = net[q]
    BY <1>0, <1>1, TakenLemma
  <1>3. x.dst \in Ctxs /\ [type |-> HANDLED, conv |-> x.conv] \in Message /\ x \in Message
    BY <1>1, <1>2 DEF Packet, Message
  <1>4. /\ rx' \in [Peers -> {"idle", "admit", "decode"}]
        /\ \A q \in Peers : rx'[q] = "admit" => q # p /\ rx[q] = "admit"
    BY <1>0 DEF RxContext, AfterDelivery, Types
  <1>5. /\ ctx' \in [Peers -> [Ctxs -> Context]]
        /\ \A q \in Peers : \A j \in Ctxs :
              /\ ctx'[q][j].reserved = ctx[q][j].reserved /\ ctx'[q][j].use = ctx[q][j].use
              /\ ctx'[q][j].owner = ctx[q][j].owner
    <2>1. CASE ctx' = ctx
      BY <1>0, <2>1 DEF Types
    <2>2. CASE ctx' = [ctx EXCEPT ![p][x.dst].msg = [type |-> HANDLED, conv |-> x.conv]]
      <3>1. MsgPut(p, x.dst, [type |-> HANDLED, conv |-> x.conv])
        BY <2>2 DEF MsgPut
      <3>. QED
        BY <1>0, <1>3, <3>1, MsgSet
    <2>3. CASE ctx' = [ctx EXCEPT ![p][x.dst].msg = x]
      <3>1. MsgPut(p, x.dst, x)
        BY <2>3 DEF MsgPut
      <3>. QED
        BY <1>0, <1>3, <3>1, MsgSet
    <2>. QED
      BY <2>1, <2>2, <2>3 DEF RxContext
  <1>6. StackOK' /\ AccountOK'
    BY <1>1, <1>5, Quiet
  <1>7. Types'
    BY <1>0, <1>1, <1>2, <1>4, <1>5 DEF Types, rpcVars, histVars
  <1>. QED
    BY <1>6, <1>7 DEF AInv

\* An acknowledgment concerns no context.
LEMMA RxAckAccount ==
    ASSUME AInv, NEW p \in Peers, RxAck(p)
    PROVE  AInv'
  <1>0. Types
    BY DEF AInv
  <1>1. /\ UNCHANGED <<stack, tls>> /\ ctx' = ctx /\ UNCHANGED <<cleanup, rpcVars, calls, evts>>
        /\ Taken(p) /\ rx' = [rx EXCEPT ![p] = "idle"] /\ net[p] # <<>>
    BY <1>0 DEF RxAck, RxNext, Types
  <1>2. ctx' \in [Peers -> [Ctxs -> Context]]
    BY <1>0, <1>1 DEF Types
  <1>3. StackOK' /\ AccountOK'
    BY <1>1, <1>2, Quiet
  <1>4. net' \in [Peers -> Seq(Packet)] /\ \A q \in Peers : q # p => net'[q] = net[q]
    BY <1>0, <1>1, TakenLemma
  <1>5. Types'
    BY <1>0, <1>1, <1>2, <1>4 DEF Types, rpcVars
  <1>. QED
    BY <1>3, <1>5 DEF AInv

\* nrf_rpc_stop and nrf_rpc_resume change the message of contexts only.
LEMMA StopAccount ==
    ASSUME AInv, NEW p \in Peers,
           StopStart(p) \/ StopAbort(p) \/ StopEnd(p) \/ Resume(p)
    PROVE  AInv'
  <1>0. Types
    BY DEF AInv
  <1>1. UNCHANGED <<stack, tls>> /\ UNCHANGED <<net, rx, histVars>>
    BY DEF StopStart, StopAbort, StopEnd, Resume
  <1>2. /\ ctx' \in [Peers -> [Ctxs -> Context]]
        /\ \A q \in Peers : \A j \in Ctxs :
              /\ ctx'[q][j].reserved = ctx[q][j].reserved /\ ctx'[q][j].use = ctx[q][j].use
              /\ ctx'[q][j].owner = ctx[q][j].owner
    <2>1. CASE ctx' = ctx
      BY <1>0, <2>1 DEF Types
    <2>2. CASE ctx' # ctx
      <3>1. PICK i \in stopAt[p] : MsgPut(p, i, ABORT)
        BY <2>2 DEF StopStart, StopAbort, StopEnd, Resume, MsgPut
      <3>2. i \in Ctxs /\ ABORT \in Message
        BY <1>0, <3>1 DEF Types, Message
      <3>. QED
        BY <1>0, <3>1, <3>2, MsgSet
    <2>. QED
      BY <2>1, <2>2
  <1>3. StackOK' /\ AccountOK'
    BY <1>1, <1>2, Quiet
  <1>4. /\ cleanup' \in [Peers -> Threads \cup {NoOne, Stopper}]
        /\ stops' \in [Peers -> Nat] /\ stopAt' \in [Peers -> SUBSET Ctxs]
    <2>1. CASE StopStart(p)
      BY <1>0, <2>1 DEF Types, StopStart
    <2>2. CASE StopAbort(p)
      <3>1. PICK i \in stopAt[p] : stopAt' = [stopAt EXCEPT ![p] = @ \ {i}]
        BY <2>2 DEF StopAbort
      <3>2. stopAt[p] \ {i} \in SUBSET Ctxs /\ stopAt' = [stopAt EXCEPT ![p] = stopAt[p] \ {i}]
        BY <1>0, <3>1 DEF Types
      <3>3. cleanup' = cleanup /\ stops' = stops
        BY <2>2 DEF StopAbort
      <3>. QED
        BY <1>0, <3>2, <3>3 DEF Types
    <2>3. CASE StopEnd(p)
      BY <1>0, <2>3 DEF Types, StopEnd
    <2>4. CASE Resume(p)
      BY <1>0, <2>4 DEF Types, Resume
    <2>. QED
      BY <2>1, <2>2, <2>3, <2>4
  <1>5. Types'
    BY <1>0, <1>1, <1>2, <1>4 DEF Types, histVars
  <1>. QED
    BY <1>3, <1>5 DEF AInv

\* nrf_rpc_init leaves every context free.
LEMMA InitAccount ==
    ASSUME Init
    PROVE  AInv
  <1>1. FreeCtx \in Context
    BY DEF FreeCtx, Context, Message
  <1>2. Types
    BY <1>1 DEF Init, Types
  <1>3. \A t \in Threads : stack[t] = <<>> /\ tls[t] = NoOne /\ Len(stack[t]) = 0
    BY DEF Init
  <1>4. StackOK
    BY <1>3 DEF StackOK
  <1>5. \A t \in Threads : Uses(t) = {}
    BY <1>3 DEF Uses
  <1>6. \A p \in Peers : \A i \in Ctxs : ~ctx[p][i].reserved /\ ctx[p][i].owner = NoOne
    BY DEF Init, FreeCtx
  <1>7. AccountOK
    BY <1>3, <1>5, <1>6 DEF AccountOK
  <1>. QED
    BY <1>2, <1>4, <1>7 DEF AInv

\* Every step keeps the account.
LEMMA NextAccount ==
    ASSUME AInv, [Next]_vars
    PROVE  AInv'
  <1>1. ASSUME NEW t \in Threads,
               CmdStart(t) \/ EvtSend(t) \/ Step(t) \/ CmdTimeout(t) \/ CmdSendFails(t)
        PROVE  AInv'
    BY <1>1, CmdStartAccount, EvtSendAccount, CmdLockAccount, CmdReserveAccount, CmdSendAccount,
       MsgSleepAccount, CmdReturnAccount, CmdResponseAccount, RspDecodedAccount,
       CmdRecursiveAccount, ExecAllocAccount, ExecDecodeAccount, ExecRespondAccount,
       EvtAckAccount, CmdSendFailsAccount DEF Step
  <1>2. ASSUME NEW p \in Peers, Receive(p) \/ StopStart(p) \/ Stop(p) \/ Resume(p)
        PROVE  AInv'
    BY <1>2, RxCheckAccount, RxPoolAccount, RxContextAccount, RxAckAccount, StopAccount
       DEF Receive, Stop
  <1>3. CASE UNCHANGED vars
    <2>1. /\ UNCHANGED <<stack, tls>> /\ ctx' = ctx
          /\ UNCHANGED <<cleanup, stops, stopAt, net, rx, calls>>
      BY <1>3 DEF vars, rpcVars, histVars
    <2>2. Types'
      BY <2>1 DEF Types, AInv
    <2>3. StackOK' /\ AccountOK'
      BY <2>1, <2>2, Quiet DEF Types
    <2>. QED
      BY <2>2, <2>3 DEF AInv
  <1>. QED
    BY <1>1, <1>2, <1>3 DEF Next, Finished

\* The inductive invariant of the account of contexts.
THEOREM RpcInvariant == Spec => []AInv
  <1>1. Init => AInv
    BY InitAccount
  <1>2. AInv /\ [Next]_vars => AInv'
    BY NextAccount
  <1>. QED
    BY <1>1, <1>2, PTL DEF Spec

\* What cmd_ctx_alloc and cmd_ctx_release keep in use_count and in the pool is
\* what the threads really use.
LEMMA AccountExact ==
    ASSUME AInv
    PROVE  ContextAccounting
  <1>0. Types /\ AccountOK
    BY DEF AInv
  <1>. SUFFICES ASSUME NEW p \in Peers, NEW i \in Ctxs
                PROVE  LET users == {t \in AppThreads[p] \cup PoolThreads[p] : tls[t] = i} IN
                       /\ ctx[p][i].reserved <=> Cardinality(users) = 1
                       /\ Cardinality(users) <= 1
                       /\ \A t \in users : /\ ctx[p][i].use = UsesOf(t)
                                           /\ ctx[p][i].owner = t \/ Waits(t)
    BY DEF ContextAccounting
  <1>. DEFINE users == {t \in AppThreads[p] \cup PoolThreads[p] : tls[t] = i}
  <1>1. i # NoOne
    BY PeersAssumption
  <1>2. \A t \in users : t \in Threads /\ PeerOf(t) = p /\ tls[t] = i /\ Mine(t) = ctx[p][i]
    BY ThreadPeer DEF Mine
  <1>3. \A t \in Threads : PeerOf(t) = p /\ tls[t] = i => t \in users
    BY ThreadPeer
  <1>4. \A t \in users : /\ ctx[p][i].use = UsesOf(t) /\ ctx[p][i].reserved
                         /\ ctx[p][i].owner = t \/ Waits(t)
    <2>1. \A t : UsesOf(t) = Cardinality(Uses(t))
      BY DEF UsesOf, Uses, InUse
    <2>2. \A t \in users : /\ ctx[p][i].reserved /\ ctx[p][i].use = Cardinality(Uses(t))
                           /\ ctx[p][i].owner = t \/ Waits(t)
      BY <1>0, <1>1, <1>2 DEF AccountOK
    <2>. QED
      BY <2>1, <2>2
  <1>. HIDE DEF users
  <1>5. CASE users = {}
    <2>1. Cardinality(users) = 0
      BY <1>5, FS_EmptySet
    <2>2. ~ctx[p][i].reserved
      BY <1>0, <1>3, <1>5 DEF AccountOK
    <2>. QED
      BY <1>5, <2>1, <2>2 DEF users
  <1>6. CASE users # {}
    <2>1. PICK t : t \in users
      BY <1>6
    <2>2. users = {t}
      BY <1>0, <1>1, <1>2, <2>1 DEF AccountOK
    <2>3. Cardinality(users) = 1
      BY <2>2, FS_Singleton
    <2>. QED
      BY <1>4, <2>1, <2>3 DEF users
  <1>. QED
    BY <1>5, <1>6

\* Nesting, and with it use_count, is bounded.
LEMMA UseBounded ==
    ASSUME AInv, NEW t \in Threads, tls[t] # NoOne
    PROVE  Mine(t).use \in 0..MaxDepth
  <1>0. Types /\ StackOK /\ AccountOK /\ MaxDepth \in Nat \ {0}
    BY PeersAssumption DEF AInv
  <1>1. Uses(t) \subseteq 1..MaxDepth
    <2>. SUFFICES ASSUME NEW n \in Uses(t)
                  PROVE  n \in 1..MaxDepth
      OBVIOUS
    <2>1. n \in 1..Len(stack[t]) /\ n \in Nat /\ InUse(stack[t][n]) /\ Len(stack[t]) \in Nat
      BY <1>0 DEF Uses, Types
    <2>2. CASE stack[t][n].k = "cmd"
      BY <1>0, <2>1, <2>2 DEF StackOK
    <2>3. CASE stack[t][n].k # "cmd"
      <3>1. stack[t][n].k = "exec" /\ stack[t][n].fresh
        BY <2>1, <2>3 DEF InUse
      <3>2. stack[t][n].k = "exec" => (stack[t][n].fresh <=> n = 1)
        BY <1>0, <2>1 DEF StackOK
      <3>3. n = 1
        BY <3>1, <3>2
      <3>. QED
        BY <1>0, <3>3
    <2>. QED
      BY <2>2, <2>3
  <1>2. IsFiniteSet(1..MaxDepth) /\ Cardinality(1..MaxDepth) = MaxDepth
    <2>1. 1 \in Int /\ MaxDepth \in Int /\ MaxDepth >= 1
      BY <1>0
    <2>2. IsFiniteSet(1..MaxDepth) /\ Cardinality(1..MaxDepth) = MaxDepth - 1 + 1
      BY <2>1, FS_Interval
    <2>. QED
      BY <2>1, <2>2
  <1>3. Cardinality(Uses(t)) <= MaxDepth /\ Cardinality(Uses(t)) \in Nat
    BY <1>0, <1>1, <1>2, FS_Subset, UsesFinite
  <1>4. Mine(t).use = Cardinality(Uses(t))
    BY <1>0 DEF AccountOK
  <1>. QED
    BY <1>0, <1>3, <1>4

\* use_count is bounded in the contexts that threads have, and in all of them.
UsedBound == \A p \in Peers : \A i \in Ctxs : ctx[p][i].reserved => ctx[p][i].use \in 0..MaxDepth
AllBound == \A p \in Peers : \A i \in Ctxs : ctx[p][i].use \in 0..MaxDepth

\* use_count of the contexts that threads have is bounded by their depth.
LEMMA UsedBounded == AInv => UsedBound
  <1>. SUFFICES ASSUME AInv, NEW p \in Peers, NEW i \in Ctxs, ctx[p][i].reserved
                PROVE  ctx[p][i].use \in 0..MaxDepth
    BY DEF UsedBound
  <1>1. PICK t \in Threads : PeerOf(t) = p /\ tls[t] = i
    BY DEF AInv, AccountOK
  <1>2. tls[t] # NoOne /\ Mine(t) = ctx[p][i]
    BY <1>1, PeersAssumption DEF Mine
  <1>. QED
    BY <1>2, UseBounded

\* cmd_ctx_free leaves use_count as it is, cmd_ctx_release at 0.
UseStep ==
    \A p \in Peers : \A i \in Ctxs :
        ctx'[p][i].use = ctx[p][i].use \/ ctx'[p][i].reserved \/ ctx'[p][i].use = 0

\* A step of thread t on its context: use_count stays, or the context is
\* in use, or it is 0.
LEMMA MineUse ==
    ASSUME AInv, NEW t \in Threads, tls[t] # NoOne, NEW c \in Context, SetMine(t, c),
           c.use = Mine(t).use \/ c.reserved \/ c.use = 0
    PROVE  UseStep
  <1>0. Types
    BY DEF AInv
  <1>. QED
    BY <1>0, SetMineLemma, MineLemma DEF UseStep

\* cmd_ctx_release frees a context when its use_count is 0.
LEMMA ReleasedUse ==
    ASSUME NEW c \in Context, c.reserved, c.use # 0
    PROVE  Released(c) \in Context /\ (Released(c).reserved \/ Released(c).use = 0)
  <1>1. CASE c.use = 1
    <2>1. PICK d : d = [c EXCEPT !.use = 0]
      OBVIOUS
    <2>2. d \in Context /\ d.use = 0
      BY <2>1 DEF Context
    <2>3. Released(c) = [d EXCEPT !.reserved = FALSE, !.owner = NoOne]
      BY <1>1, <2>1 DEF Released, Freed
    <2>. QED
      BY <2>2, <2>3 DEF Context
  <1>2. CASE c.use # 1
    <2>1. Released(c) = [c EXCEPT !.use = @ - 1] /\ c.use - 1 \in Nat
      BY <1>2 DEF Released, Context
    <2>. QED
      BY <2>1 DEF Context
  <1>. QED
    BY <1>1, <1>2

\* The end of nrf_rpc_cmd_common leaves a context in use, or use_count 0.
LEMMA ReturnUse ==
    ASSUME AInv, NEW t \in Threads, Waits(t), Return(t, [Mine(t) EXCEPT !.owner = t])
    PROVE  UseStep
  <1>1. PICK d : d = [[Mine(t) EXCEPT !.owner = t] EXCEPT !.handler = Top(t).old, !.msg = NoMsg]
    OBVIOUS
  <1>2. /\ tls[t] # NoOne /\ Mine(t) \in Context /\ Mine(t).reserved /\ Top(t).old \in BOOLEAN
        /\ Mine(t).use = Cardinality(Uses(t)) /\ Uses(t) # {}
    BY WaitFacts DEF CmdFrame
  <1>3. Mine(t).use # 0
    BY <1>2, UsesFinite DEF AInv
  <1>4. d \in Context /\ d.reserved /\ d.use = Mine(t).use
    BY <1>1, <1>2 DEF Context, Message
  <1>5. PICK c : c = Released(d)
    OBVIOUS
  <1>6. c \in Context /\ (c.reserved \/ c.use = 0)
    BY <1>3, <1>4, <1>5, ReleasedUse
  <1>7. SetMine(t, c)
    BY <1>1, <1>5 DEF Return
  <1>. QED
    BY <1>2, <1>6, <1>7, MineUse

\* No step leaves a use_count above 0 that the context did not have before,
\* unless it is in use.
LEMMA NextUse ==
    ASSUME AInv, [Next]_vars
    PROVE  UseStep
  <1>0. Types /\ AccountOK
    BY DEF AInv
  <1>u. ctx' = ctx => UseStep
    BY DEF UseStep
  <1>m. ASSUME NEW p \in Peers, NEW i \in Ctxs, NEW m \in Message, MsgPut(p, i, m)
        PROVE  UseStep
    BY <1>0, <1>m, MsgSet DEF UseStep
  <1>a. ASSUME NEW t \in Threads, NEW i \in Ctxs, NEW r, AllocOn(t, i, r)
        PROVE  UseStep
    <2>1. ctx \in [Peers -> [Ctxs -> Context]] /\ PeerOf(t) \in Peers
      BY <1>0, ThreadPeer DEF Types
    <2>2. PICK c : c = [ctx[PeerOf(t)][i] EXCEPT !.reserved = TRUE, !.owner = t, !.use = 1,
                                                 !.remote = r, !.handler = FALSE]
      OBVIOUS
    <2>3. ctx[PeerOf(t)][i] \in Context
      BY <2>1
    <2>4. c.reserved
      BY <2>2, <2>3 DEF Context
    <2>5. ctx' = [ctx EXCEPT ![PeerOf(t)] = [ctx[PeerOf(t)] EXCEPT ![i] = c]]
      BY <1>a, <2>1, <2>2 DEF AllocOn
    <2>. QED
      BY <2>1, <2>4, <2>5 DEF UseStep
  <1>1. ASSUME NEW t \in Threads,
               CmdStart(t) \/ EvtSend(t) \/ Step(t) \/ CmdTimeout(t) \/ CmdSendFails(t)
        PROVE  UseStep
    <2>1. CASE CmdStart(t) \/ EvtSend(t) \/ RspDecoded(t) \/ ExecDecode(t) \/ EvtAck(t)
      BY <1>u, <2>1 DEF CmdStart, EvtSend, RspDecoded, ExecDecode, EvtAck
    <2>2. CASE CmdReturn(t) \/ CmdResponse(t) \/ CmdTimeout(t)
      BY <2>2, ReturnUse DEF CmdReturn, CmdResponse, CmdTimeout, Got, Waits
    <2>3. CASE CmdReserve(t) \/ ExecAlloc(t)
      BY <1>a, <2>3 DEF CmdReserve, ExecAlloc
    <2>4. CASE CmdLock(t)
      <3>1. CASE ctx' = ctx
        BY <1>u, <3>1
      <3>2. CASE tls[t] # NoOne /\ SetMine(t, [Mine(t) EXCEPT !.use = @ + 1])
        <4>1. Mine(t) \in Context /\ Mine(t).reserved
          BY <1>0, <3>2, MineLemma DEF AccountOK
        <4>2. PICK c : c = [Mine(t) EXCEPT !.use = @ + 1]
          OBVIOUS
        <4>3. c \in Context /\ c.reserved
          BY <4>1, <4>2 DEF Context
        <4>. QED
          BY <3>2, <4>2, <4>3, MineUse
      <3>. QED
        BY <2>4, <3>1, <3>2 DEF CmdLock
    <2>5. CASE CmdSend(t)
      <3>1. At(t, "cmd", "send")
        BY <2>5 DEF CmdSend
      <3>2. stack[t] # <<>> /\ Top(t).k = "cmd" /\ Top(t).st = "send" /\ Top(t) \in Frame
        BY <1>0, <3>1, AtTop, TopLemma
      <3>3. Len(stack[t]) \in Uses(t) /\ Top(t).h \in BOOLEAN
        BY <1>0, <3>2, TopLemma
           DEF Uses, InUse, Frame, CmdFrame, FreshFrame, NestedFrame, EvtFrame, RspFrame
      <3>4. tls[t] # NoOne
        BY <1>0, <3>3 DEF AccountOK
      <3>5. PICK c : c = [Mine(t) EXCEPT !.handler = Top(t).h]
        OBVIOUS
      <3>6. c \in Context /\ c.use = Mine(t).use
        BY <1>0, <3>3, <3>4, <3>5, MineLemma DEF Context
      <3>7. SetMine(t, c)
        BY <2>5, <3>5 DEF CmdSend
      <3>. QED
        BY <3>4, <3>6, <3>7, MineUse
    <2>6. CASE MsgSleep(t)
      <3>1. Waits(t) /\ SetMine(t, [Mine(t) EXCEPT !.owner = NoOne])
        BY <2>6 DEF MsgSleep, Waits
      <3>2. PICK c : c = [Mine(t) EXCEPT !.owner = NoOne]
        OBVIOUS
      <3>3. c \in Context /\ c.use = Mine(t).use /\ tls[t] # NoOne
        BY <3>1, <3>2, WaitFacts DEF Context
      <3>. QED
        BY <3>1, <3>2, <3>3, MineUse
    <2>7. CASE CmdRecursive(t)
      <3>1. Waits(t) /\ Mine(t) \in Context /\ tls[t] # NoOne
        BY <2>7, WaitFacts DEF CmdRecursive, Got, Waits
      <3>2. PICK c : c = [[Mine(t) EXCEPT !.owner = t] EXCEPT !.remote = Mine(t).msg.src,
                                                              !.msg = NoMsg]
        OBVIOUS
      <3>3. SetMine(t, c) /\ Mine(t).msg.type = "CMD"
        BY <2>7, <3>1, <3>2 DEF CmdRecursive, Context
      <3>4. Mine(t).msg.src \in Ctxs \cup {Unknown}
        BY <3>1, <3>3 DEF Context, Message, Packet, HANDLED, NoMsg, ABORT
      <3>5. c \in Context /\ c.use = Mine(t).use
        BY <3>1, <3>2, <3>4 DEF Context, Message
      <3>. QED
        BY <3>1, <3>3, <3>5, MineUse
    <2>8. CASE CmdSendFails(t)
      <3>1. At(t, "cmd", "send") /\ SetMine(t, Released(Mine(t)))
        BY <2>8 DEF CmdSendFails
      <3>2. stack[t] # <<>> /\ Top(t).k = "cmd" /\ Top(t).st = "send"
        BY <3>1, AtTop
      <3>3. Len(stack[t]) \in Uses(t)
        BY <1>0, <3>2, TopLemma DEF Uses, InUse
      <3>4. tls[t] # NoOne
        BY <1>0, <3>3 DEF AccountOK
      <3>5. Mine(t) \in Context /\ Mine(t).reserved /\ Mine(t).use # 0
        BY <1>0, <3>3, <3>4, MineLemma, UsesFinite DEF AccountOK
      <3>6. PICK c : c = Released(Mine(t))
        OBVIOUS
      <3>7. c \in Context /\ (c.reserved \/ c.use = 0)
        BY <3>5, <3>6, ReleasedUse
      <3>. QED
        BY <3>1, <3>4, <3>6, <3>7, MineUse
    <2>9. CASE ExecRespond(t)
      <3>1. CASE ctx' = ctx
        BY <1>u, <3>1
      <3>2. CASE ctx' # ctx
        <4>1. At(t, "exec", "run") /\ Top(t).fresh /\ SetMine(t, Freed(Mine(t)))
          BY <2>9, <3>2 DEF ExecRespond
        <4>2. Len(stack[t]) \in Uses(t)
          BY <1>0, <4>1, TopLemma, AtTop DEF Uses, InUse
        <4>3. tls[t] # NoOne
          BY <1>0, <4>2 DEF AccountOK
        <4>4. PICK c : c = Freed(Mine(t))
          OBVIOUS
        <4>5. c \in Context /\ c.use = Mine(t).use
          BY <1>0, <4>3, <4>4, MineLemma DEF Freed, Context
        <4>. QED
          BY <4>1, <4>3, <4>4, <4>5, MineUse
      <3>. QED
        BY <3>1, <3>2
    <2>. QED
      BY <1>1, <2>1, <2>2, <2>3, <2>4, <2>5, <2>6, <2>7, <2>8, <2>9 DEF Step
  <1>2. ASSUME NEW p \in Peers, Receive(p) \/ StopStart(p) \/ Stop(p) \/ Resume(p)
        PROVE  UseStep
    <2>1. CASE RxCheck(p) \/ RxPool(p) \/ RxAck(p) \/ StopStart(p) \/ StopEnd(p) \/ Resume(p)
      BY <1>u, <2>1 DEF RxCheck, RxPool, RxAck, StopStart, StopEnd, Resume
    <2>2. CASE RxContext(p)
      <3>. DEFINE x == Head(net[p])
      <3>1. /\ net[p] # <<>> /\ x.type \in {"CMD", "RSP"} /\ x.dst # Unknown /\ Taken(p)
        BY <1>0, <2>2 DEF RxContext, RxNext, Types
      <3>2. x \in Packet
        BY <1>0, <3>1, TakenLemma
      <3>3. x.dst \in Ctxs /\ [type |-> HANDLED, conv |-> x.conv] \in Message /\ x \in Message
        BY <3>1, <3>2 DEF Packet, Message
      <3>4. \/ ctx' = ctx \/ MsgPut(p, x.dst, [type |-> HANDLED, conv |-> x.conv])
            \/ MsgPut(p, x.dst, x)
        BY <2>2 DEF RxContext, MsgPut
      <3>. QED
        BY <1>u, <1>m, <3>3, <3>4
    <2>3. CASE StopAbort(p)
      <3>1. ctx' = ctx \/ \E i \in stopAt[p] : MsgPut(p, i, ABORT)
        BY <2>3 DEF StopAbort, MsgPut
      <3>2. stopAt[p] \subseteq Ctxs /\ ABORT \in Message
        BY <1>0 DEF Types, Message
      <3>. QED
        BY <1>u, <1>m, <3>1, <3>2
    <2>. QED
      BY <1>2, <2>1, <2>2, <2>3 DEF Receive, Stop
  <1>3. CASE UNCHANGED vars
    BY <1>u, <1>3 DEF vars
  <1>. QED
    BY <1>1, <1>2, <1>3 DEF Next, Finished

\* use_count stays in range in every context, free ones included.
LEMMA BoundStep ==
    ASSUME AInv, AllBound, UsedBound', [Next]_vars
    PROVE  AllBound'
  <1>1. UseStep
    BY NextUse
  <1>2. MaxDepth \in Nat
    BY PeersAssumption
  <1>. QED
    BY <1>1, <1>2 DEF AllBound, UsedBound, UseStep

\* The fields of struct nrf_rpc_cmd_ctx, the thread-local context index and
\* the holder of cleanup_mutex stay in their ranges.
THEOREM RpcTypes == Spec => []TypeOK
  <1>1. Spec => []UsedBound
    BY RpcInvariant, UsedBounded, PTL
  <1>2. Init => AllBound
    BY PeersAssumption DEF Init, AllBound, FreeCtx
  <1>3. AInv /\ AllBound /\ UsedBound' /\ [Next]_vars => AllBound'
    BY BoundStep
  <1>4. Spec => []AllBound
    BY <1>1, <1>2, <1>3, RpcInvariant, PTL DEF Spec
  <1>5. AInv /\ AllBound => TypeOK
    <2>. SUFFICES ASSUME AInv, AllBound
                  PROVE  TypeOK
      OBVIOUS
    <2>1. Types
      BY DEF AInv
    <2>2. \A p \in Peers, i \in Ctxs : ctx[p][i] \in Context
      BY <2>1 DEF Types
    <2>3. \A p \in Peers, i \in Ctxs :
            LET c == ctx[p][i] IN
            /\ c.reserved \in BOOLEAN /\ c.handler \in BOOLEAN
            /\ c.remote \in Ctxs \cup {Unknown} /\ c.owner \in Threads \cup {NoOne}
      BY <2>2 DEF Context
    <2>. QED
      BY <2>1, <2>3 DEF TypeOK, AllBound, Types
  <1>. QED
    BY <1>4, <1>5, RpcInvariant, PTL

\* cmd_ctx_alloc and cmd_ctx_release: each context belongs to at most one
\* thread, use_count is the number of its users, and it is locked by the thread
\* unless that waits in nrf_rpc_os_msg_get; whatever is sent, aborted, times out
\* or fails.
THEOREM RpcAccounting == Spec => []ContextAccounting
  <1>1. AInv => ContextAccounting
    BY AccountExact
  <1>. QED
    BY <1>1, RpcInvariant, PTL

-----------------------------------------------------------------------------
(* Where the packets of a call go.                                          *)

\* Packets on their way to p.
Packets(p) == {net[p][i] : i \in 1..Len(net[p])}

\* Frame n of thread t waits for the response to call c.
Calls(t, n, c) ==
    /\ n \in 1..Len(stack[t]) /\ stack[t][n].k = "cmd" /\ stack[t][n].st = "get"
    /\ stack[t][n].conv = c

\* Frame n of thread t runs the handler of call c.
Runs(t, n, c) ==
    n \in 1..Len(stack[t]) /\ stack[t][n].k = "exec" /\ stack[t][n].conv = c

\* x belongs to a call: it asks for its handler, or answers it.
Asks(x) == x.type = "CMD"
Answers(x) == x.type \in {"RSP", HANDLED}
Talks(x) == Asks(x) \/ Answers(x)

\* Call c is in a packet, in the message of a context, in a handler.
Sent(c) == \E p \in Peers : \E i \in 1..Len(net[p]) : Talks(net[p][i]) /\ net[p][i].conv = c
Held(c) == \E p \in Peers : \E i \in Ctxs : Talks(ctx[p][i].msg) /\ ctx[p][i].msg.conv = c
Running(c) == \E t \in Threads, n \in Nat : Runs(t, n, c)

\* Call c waits with context i of peer p.
Waiting(c, p, i) ==
    \E t \in Threads, n \in Nat : Calls(t, n, c) /\ PeerOf(t) = p /\ tls[t] = i

\* Command x is on its way to peer p: to a new context, or to the call whose
\* handler issued it.
AskOK(x, p) ==
    \E t \in Threads, n \in Nat :
        /\ Calls(t, n, x.conv) /\ PeerOf(t) # p /\ x.src = tls[t] /\ x.parent = stack[t][n].parent
        /\ IF x.parent = 0 THEN x.dst = Unknown ELSE Waiting(x.parent, p, x.dst)

\* Frame k of thread u runs the handler of a call of the other peer, and
\* answers to the context of the caller.
RunOK(u, k) ==
    LET f == stack[u][k] IN
    \E t \in Threads, n \in Nat :
        /\ Calls(t, n, f.conv) /\ PeerOf(t) # PeerOf(u)
        /\ IF f.st = "alloc" THEN f.src = tls[t] ELSE Mine(u).remote = tls[t]
        /\ stack[t][n].parent = IF k = 1 THEN 0 ELSE stack[u][k - 1].conv

\* A number names one call, and its handler runs once.
ConvOK ==
    /\ \A t \in Threads : \A n \in 1..Len(stack[t]) :
          stack[t][n].k = "cmd" => stack[t][n].conv <= calls
    /\ \A t, u \in Threads : \A n \in 1..Len(stack[t]), m \in 1..Len(stack[u]) :
          /\ stack[t][n].k = stack[u][m].k /\ stack[t][n].k \in {"cmd", "exec"}
          /\ stack[t][n].conv = stack[u][m].conv
          => t = u /\ n = m

\* A call is in one place.
NetOK ==
    \A p, q \in Peers : \A i \in 1..Len(net[p]), j \in 1..Len(net[q]) :
       Talks(net[p][i]) /\ Talks(net[q][j]) /\ net[p][i].conv = net[q][j].conv => p = q /\ i = j
HoldOK ==
    \A p, q \in Peers : \A i, j \in Ctxs :
       /\ Talks(ctx[p][i].msg) /\ Talks(ctx[q][j].msg)
       /\ ctx[p][i].msg.conv = ctx[q][j].msg.conv
       => p = q /\ i = j
PlaceOK ==
    \A c \in Nat : ~(Sent(c) /\ Held(c)) /\ ~(Sent(c) /\ Running(c)) /\ ~(Held(c) /\ Running(c))

\* What is on its way reaches the thread that waits for it.
PacketOK(x, p) == /\ Asks(x) => AskOK(x, p)
                  /\ Answers(x) => Waiting(x.conv, p, x.dst)
MessageOK(x, p, i) == /\ Asks(x) => AskOK(x, p) /\ x.dst = i
                      /\ Answers(x) => Waiting(x.conv, p, i)
                      /\ x # NoMsg => Talks(x)
RouteOK ==
    /\ \A p \in Peers : \A x \in Packets(p) : PacketOK(x, p)
    /\ \A p \in Peers : \A i \in Ctxs : MessageOK(ctx[p][i].msg, p, i)
    /\ \A t \in Threads : \A n \in 1..Len(stack[t]) : stack[t][n].k = "exec" => RunOK(t, n)
    /\ \A t \in Threads : At(t, "cmd", "send") /\ Top(t).parent = 0 => Mine(t).remote = Unknown

NoStops == \A p \in Peers : stopAt[p] = {}

RInv == ConvOK /\ NetOK /\ HoldOK /\ PlaceOK /\ RouteOK /\ NoStops

-----------------------------------------------------------------------------
\* The number of a call that waits, runs or talks is not 0; a thread that waits
\* or runs a handler has a context.
LEMMA CallFacts ==
    ASSUME AInv, NEW t \in Threads, NEW n, NEW c
    PROVE  /\ Calls(t, n, c) => /\ c \in Nat \ {0} /\ n \in Nat \ {0} /\ n \in Uses(t)
                                /\ tls[t] # NoOne /\ tls[t] \in Ctxs
                                /\ stack[t][n].parent \in Nat /\ stack[t][n] \in CmdFrame
           /\ Runs(t, n, c) => /\ c \in Nat \ {0} /\ n \in Nat \ {0}
                               /\ stack[t][n].st # "alloc" => tls[t] # NoOne /\ tls[t] \in Ctxs
  <1>0. Types /\ StackOK /\ AccountOK
    BY DEF AInv
  <1>1. stack[t] \in Seq(Frame) /\ \A k \in 1..Len(stack[t]) : stack[t][k] \in Frame /\ k \in Nat \ {0}
    BY <1>0 DEF Types
  <1>t. tls[t] # NoOne => tls[t] \in Ctxs
    BY <1>0 DEF Types
  <1>u. Uses(t) # {} => tls[t] # NoOne
    BY <1>0 DEF AccountOK
  <1>2. ASSUME Calls(t, n, c)
        PROVE  /\ c \in Nat \ {0} /\ n \in Nat \ {0} /\ n \in Uses(t)
               /\ tls[t] # NoOne /\ tls[t] \in Ctxs
               /\ stack[t][n].parent \in Nat /\ stack[t][n] \in CmdFrame
    <2>1. /\ n \in 1..Len(stack[t]) /\ stack[t][n].k = "cmd" /\ stack[t][n].st = "get"
          /\ stack[t][n].conv = c /\ stack[t][n] \in Frame
      BY <1>1, <1>2 DEF Calls
    <2>2. stack[t][n] \in CmdFrame
      BY <2>1 DEF Frame, FreshFrame, NestedFrame, EvtFrame, RspFrame
    <2>3. n \in Uses(t)
      BY <2>1 DEF Uses, InUse
    <2>. QED
      BY <1>1, <1>t, <1>u, <2>1, <2>2, <2>3 DEF CmdFrame
  <1>3. ASSUME Runs(t, n, c)
        PROVE  /\ c \in Nat \ {0} /\ n \in Nat \ {0}
               /\ stack[t][n].st # "alloc" => tls[t] # NoOne /\ tls[t] \in Ctxs
    <2>1. /\ n \in 1..Len(stack[t]) /\ stack[t][n].k = "exec"
          /\ stack[t][n].conv = c /\ stack[t][n] \in Frame /\ n \in Nat \ {0}
      BY <1>1, <1>3 DEF Runs
    <2>2. stack[t][n] \in FreshFrame \cup NestedFrame
      BY <2>1 DEF Frame, CmdFrame, EvtFrame, RspFrame
    <2>3. c \in Nat \ {0} /\ stack[t][n].fresh \in BOOLEAN
      BY <2>1, <2>2 DEF FreshFrame, NestedFrame
    <2>4. stack[t][n].st # "alloc" => Uses(t) # {}
      <3>1. CASE stack[t][n].fresh
        BY <2>1, <3>1 DEF Uses, InUse
      <3>2. CASE ~stack[t][n].fresh
        <4>1. stack[t][n].k = "exec" => (stack[t][n].fresh <=> n = 1)
          BY <1>0, <2>1 DEF StackOK
        <4>2. n > 1 /\ n - 1 \in 1..Len(stack[t]) /\ n - 1 < Len(stack[t])
          BY <1>0, <2>1, <3>2, <4>1 DEF Types
        <4>3. stack[t][n - 1].k = "cmd"
          BY <1>0, <2>1, <4>2 DEF StackOK
        <4>4. stack[t][n - 1].st = "get"
          BY <1>0, <4>2, <4>3 DEF StackOK
        <4>. QED
          BY <4>2, <4>3, <4>4 DEF Uses, InUse
      <3>. QED
        BY <2>3, <3>1, <3>2
    <2>. QED
      BY <1>t, <1>u, <2>1, <2>3, <2>4
  <1>. QED
    BY <1>2, <1>3

\* A command issued by a handler lies above it, and a handler that a waiting
\* thread runs lies above the call that it is part of.
LEMMA Layers ==
    ASSUME AInv, NEW t \in Threads, NEW n, NEW c
    PROVE  /\ Calls(t, n, c) /\ stack[t][n].parent # 0 =>
                 n > 1 /\ Runs(t, n - 1, stack[t][n].parent) /\ stack[t][n - 1].st = "run"
           /\ Calls(t, n, c) /\ n # Len(stack[t]) =>
                 n + 1 \in 1..Len(stack[t]) /\ stack[t][n + 1].k = "exec"
           /\ Runs(t, n, c) /\ n # 1 => Calls(t, n - 1, stack[t][n - 1].conv)
  <1>0. Types /\ StackOK /\ Len(stack[t]) \in Nat
    BY DEF AInv, Types
  <1>1. ASSUME Calls(t, n, c), stack[t][n].parent # 0
        PROVE  n > 1 /\ Runs(t, n - 1, stack[t][n].parent) /\ stack[t][n - 1].st = "run"
    <2>1. n \in 1..Len(stack[t]) /\ stack[t][n].k = "cmd"
      BY <1>1 DEF Calls
    <2>2. n > 1 /\ stack[t][n - 1].k = "exec" /\ stack[t][n].parent = stack[t][n - 1].conv
      BY <1>0, <1>1, <2>1 DEF StackOK
    <2>3. n - 1 \in 1..Len(stack[t]) /\ n - 1 < Len(stack[t])
      BY <1>0, <2>1, <2>2
    <2>4. stack[t][n - 1].st = "run"
      BY <1>0, <2>2, <2>3 DEF StackOK
    <2>. QED
      BY <2>2, <2>3, <2>4 DEF Runs
  <1>2. ASSUME Calls(t, n, c), n # Len(stack[t])
        PROVE  n + 1 \in 1..Len(stack[t]) /\ stack[t][n + 1].k = "exec"
    <2>1. n \in 1..Len(stack[t]) /\ stack[t][n].k = "cmd"
      BY <1>2 DEF Calls
    <2>2. PICK m : m = n + 1
      OBVIOUS
    <2>3. m \in 1..Len(stack[t]) /\ m > 1 /\ m - 1 = n
      BY <1>0, <1>2, <2>1, <2>2
    <2>4. stack[t][m].k = "exec"
      BY <1>0, <2>1, <2>3 DEF StackOK
    <2>. QED
      BY <2>2, <2>3, <2>4
  <1>3. ASSUME Runs(t, n, c), n # 1
        PROVE  Calls(t, n - 1, stack[t][n - 1].conv)
    <2>1. n \in 1..Len(stack[t]) /\ stack[t][n].k = "exec" /\ n > 1
      BY <1>0, <1>3 DEF Runs
    <2>2. stack[t][n - 1].k = "cmd" /\ n - 1 \in 1..Len(stack[t]) /\ n - 1 < Len(stack[t])
      BY <1>0, <2>1 DEF StackOK
    <2>3. stack[t][n - 1].st = "get"
      BY <1>0, <2>2 DEF StackOK
    <2>. QED
      BY <2>2, <2>3 DEF Calls
  <1>. QED
    BY <1>1, <1>2, <1>3

\* The frame that waits for call c is one.
LEMMA CallUnique ==
    ASSUME ConvOK, NEW t \in Threads, NEW u \in Threads, NEW n, NEW m, NEW c
    PROVE  /\ Calls(t, n, c) /\ Calls(u, m, c) => t = u /\ n = m
           /\ Runs(t, n, c) /\ Runs(u, m, c) => t = u /\ n = m
  BY DEF ConvOK, Calls, Runs

\* A call whose handler is not running is the innermost of its thread.
LEMMA NotBuried ==
    ASSUME AInv, RInv, NEW t \in Threads, NEW n, NEW c, Calls(t, n, c), ~Running(c)
    PROVE  n = Len(stack[t])
  <1>. SUFFICES ASSUME n # Len(stack[t])
                PROVE  FALSE
    OBVIOUS
  <1>1. PICK m : m = n + 1
    OBVIOUS
  <1>2. m \in 1..Len(stack[t]) /\ stack[t][m].k = "exec" /\ n \in Nat \ {0} /\ c # 0
        /\ stack[t][n].conv = c
    BY <1>1, Layers, CallFacts DEF Calls
  <1>3. m # 1 /\ m - 1 = n
    BY <1>1, <1>2
  <1>4. RunOK(t, m)
    BY <1>2 DEF RInv, RouteOK
  <1>5. PICK t2 \in Threads, n2 \in Nat :
           /\ Calls(t2, n2, stack[t][m].conv)
           /\ stack[t2][n2].parent = stack[t][m - 1].conv
    BY <1>3, <1>4 DEF RunOK
  <1>6. stack[t2][n2].parent = c
    BY <1>2, <1>3, <1>5
  <1>7. Runs(t2, n2 - 1, c) /\ n2 > 1
    BY <1>2, <1>5, <1>6, Layers
  <1>8. n2 - 1 \in Nat
    BY <1>7
  <1>. QED
    BY <1>7, <1>8 DEF Running

\* Nor is anything above a call whose handler has issued a command that has not
\* been taken up yet: the command x would be running.
LEMMA NotBuriedAsk ==
    ASSUME AInv, RInv, NEW t \in Threads, NEW n, NEW u \in Threads, NEW m, NEW c,
           Calls(u, m, c), stack[u][m].parent # 0, Calls(t, n, stack[u][m].parent), ~Running(c)
    PROVE  n = Len(stack[t])
  <1>. SUFFICES ASSUME n # Len(stack[t])
                PROVE  FALSE
    OBVIOUS
  <1>1. PICK k : k = n + 1
    OBVIOUS
  <1>2. PICK e : e = stack[u][m].parent
    OBVIOUS
  <1>3. k \in 1..Len(stack[t]) /\ stack[t][k].k = "exec" /\ n \in Nat \ {0} /\ e # 0
        /\ stack[t][n].conv = e
    BY <1>1, <1>2, Layers, CallFacts DEF Calls
  <1>4. k # 1 /\ k - 1 = n
    BY <1>1, <1>3
  <1>5. RunOK(t, k)
    BY <1>3 DEF RInv, RouteOK
  <1>6. PICK t2 \in Threads, n2 \in Nat :
           /\ Calls(t2, n2, stack[t][k].conv)
           /\ stack[t2][n2].parent = stack[t][k - 1].conv
    BY <1>4, <1>5 DEF RunOK
  <1>7. stack[t2][n2].parent = e
    BY <1>3, <1>4, <1>6
  <1>8. Runs(t2, n2 - 1, e) /\ n2 > 1 /\ Runs(u, m - 1, e) /\ m > 1
    BY <1>2, <1>3, <1>6, <1>7, Layers
  <1>9. t2 = u /\ n2 - 1 = m - 1
    BY <1>8, CallUnique DEF RInv
  <1>10. n2 = m
    <2>1. m \in Nat
      BY CallFacts
    <2>. QED
      BY <1>9, <2>1
  <1>11. stack[t][k].conv = c
    BY <1>6, <1>9, <1>10 DEF Calls
  <1>12. Runs(t, k, c) /\ k \in Nat
    BY <1>3, <1>1, <1>11 DEF Runs
  <1>. QED
    BY <1>12 DEF Running

\* Call c has one place.
LEMMA OnePlace ==
    ASSUME AInv, RInv
    PROVE  /\ \A p \in Peers : \A x \in Packets(p) : Talks(x) =>
                 /\ x.conv \in Nat \ {0} /\ Sent(x.conv) /\ ~Held(x.conv) /\ ~Running(x.conv)
           /\ \A p \in Peers : \A i \in Ctxs : Talks(ctx[p][i].msg) =>
                 /\ ctx[p][i].msg.conv \in Nat \ {0} /\ Held(ctx[p][i].msg.conv)
                 /\ ~Sent(ctx[p][i].msg.conv) /\ ~Running(ctx[p][i].msg.conv)
  <1>0. Types /\ PlaceOK
    BY DEF AInv, RInv
  <1>1. \A p \in Peers : \A x \in Packets(p) : x \in Packet
    BY <1>0 DEF Packets, Types
  <1>2. \A x \in Packet : Talks(x) => x.conv \in Nat \ {0}
    BY DEF Packet, Talks, Asks, Answers, HANDLED
  <1>3. \A p \in Peers : \A x \in Packets(p) : Talks(x) => Sent(x.conv)
    BY DEF Packets, Sent
  <1>4. \A p \in Peers : \A i \in Ctxs : ctx[p][i].msg \in Message
    BY <1>0 DEF Types, Context
  <1>5. \A x \in Message : Talks(x) => x.conv \in Nat \ {0}
    BY DEF Message, Packet, Talks, Asks, Answers, HANDLED, NoMsg, ABORT
  <1>6. \A p \in Peers : \A i \in Ctxs : Talks(ctx[p][i].msg) => Held(ctx[p][i].msg.conv)
    BY DEF Held
  <1>. QED
    BY <1>0, <1>1, <1>2, <1>3, <1>4, <1>5, <1>6 DEF PlaceOK

\* A packet or message x for context i of peer p concerns the innermost call of
\* the thread t that has this context, and t waits.
Concerns(x, t) ==
    /\ Waits(t)
    /\ Answers(x) => x.conv = Top(t).conv
    /\ Asks(x) => x.parent = Top(t).conv /\ x.parent # 0

\* What is on its way to context i finds a thread that waits with it for just
\* that.
LEMMA Arrives ==
    ASSUME AInv, RInv, NEW p \in Peers, NEW i \in Ctxs, NEW x, Talks(x), ~Running(x.conv),
           Asks(x) => AskOK(x, p) /\ x.dst = i,
           Answers(x) => Waiting(x.conv, p, i)
    PROVE  \E t \in Threads : PeerOf(t) = p /\ tls[t] = i /\ Concerns(x, t)
  <1>e. ~(Asks(x) /\ Answers(x))
    BY DEF Asks, Answers, HANDLED
  <1>t. \A t \in Threads, n \in Nat, c \in Nat :
           Calls(t, n, c) /\ n = Len(stack[t]) => Waits(t) /\ Top(t).conv = c
    <2>. SUFFICES ASSUME NEW t \in Threads, NEW n \in Nat, NEW c \in Nat, Calls(t, n, c),
                         n = Len(stack[t])
                  PROVE  Waits(t) /\ Top(t).conv = c
      OBVIOUS
    <2>1. stack[t] # <<>>
      BY DEF Calls
    <2>. QED
      BY <2>1 DEF Calls, Waits, At, Top
  <1>1. CASE Answers(x)
    <2>1. PICK t \in Threads, n \in Nat : Calls(t, n, x.conv) /\ PeerOf(t) = p /\ tls[t] = i
      BY <1>1 DEF Waiting
    <2>2. n = Len(stack[t]) /\ x.conv \in Nat
      BY <2>1, NotBuried, CallFacts
    <2>. QED
      BY <1>e, <1>t, <1>1, <2>1, <2>2 DEF Concerns
  <1>2. CASE Asks(x)
    <2>1. PICK u \in Threads, m \in Nat :
            /\ Calls(u, m, x.conv) /\ x.parent = stack[u][m].parent
            /\ IF x.parent = 0 THEN x.dst = Unknown ELSE Waiting(x.parent, p, x.dst)
      BY <1>2 DEF AskOK
    <2>2. x.parent # 0 /\ Waiting(x.parent, p, i)
      BY <1>2, <2>1, PeersAssumption
    <2>3. PICK t \in Threads, n \in Nat : Calls(t, n, x.parent) /\ PeerOf(t) = p /\ tls[t] = i
      BY <2>2 DEF Waiting
    <2>4. n = Len(stack[t]) /\ x.parent \in Nat
      BY <2>1, <2>2, <2>3, NotBuriedAsk, CallFacts
    <2>. QED
      BY <1>e, <1>t, <1>2, <2>2, <2>3, <2>4 DEF Concerns
  <1>. QED
    BY <1>1, <1>2 DEF Talks

\* The message in a context concerns the call that waits there.
LEMMA MessageArrives ==
    ASSUME AInv, RInv, NEW p \in Peers, NEW i \in Ctxs, Talks(ctx[p][i].msg)
    PROVE  \E t \in Threads : PeerOf(t) = p /\ tls[t] = i /\ Concerns(ctx[p][i].msg, t)
  <1>1. PICK x : x = ctx[p][i].msg
    OBVIOUS
  <1>2. MessageOK(x, p, i) /\ Talks(x) /\ ~Running(x.conv)
    BY <1>1, OnePlace DEF RInv, RouteOK
  <1>3. \E t \in Threads : PeerOf(t) = p /\ tls[t] = i /\ Concerns(x, t)
    BY <1>2, Arrives DEF MessageOK
  <1>. QED
    BY <1>1, <1>3

\* A thread that owns context i of peer p is the only one.
LEMMA ContextOne ==
    ASSUME AInv, NEW t \in Threads, NEW u \in Threads, PeerOf(t) = PeerOf(u), tls[t] = tls[u],
           tls[t] # NoOne
    PROVE  t = u
  BY DEF AInv, AccountOK

\* So a response or a recursive command reaches the call it belongs to.
LEMMA Routed ==
    ASSUME AInv, RInv
    PROVE  RoutedToInitiator
  <1>. SUFFICES ASSUME NEW t \in Threads, Waits(t)
                PROVE  /\ Msg(t).type \in {"RSP", HANDLED} => Msg(t).conv = Top(t).conv
                       /\ Msg(t).type = "CMD" => Msg(t).parent = Top(t).conv
    BY DEF RoutedToInitiator
  <1>1. PICK p : p = PeerOf(t)
    OBVIOUS
  <1>2. PICK i : i = tls[t]
    OBVIOUS
  <1>3. p \in Peers /\ i \in Ctxs /\ i # NoOne /\ Msg(t) = ctx[p][i].msg
    BY <1>1, <1>2, WaitFacts, ThreadPeer DEF Msg, Mine
  <1>4. CASE Talks(Msg(t))
    <2>1. PICK u \in Threads : PeerOf(u) = p /\ tls[u] = i /\ Concerns(Msg(t), u)
      BY <1>3, <1>4, MessageArrives
    <2>2. u = t
      BY <1>1, <1>2, <1>3, <2>1, ContextOne
    <2>. QED
      BY <2>1, <2>2 DEF Concerns, Asks, Answers
  <1>5. CASE ~Talks(Msg(t))
    BY <1>5 DEF Talks, Asks, Answers
  <1>. QED
    BY <1>4, <1>5

\* A context with a message has a thread that waits, so it is not free.
LEMMA FreeEmpty ==
    ASSUME AInv, RInv
    PROVE  FreeSlotEmpty
  <1>. SUFFICES ASSUME NEW p \in Peers, NEW i \in Ctxs, ~ctx[p][i].reserved, ctx[p][i].msg # NoMsg
                PROVE  FALSE
    BY DEF FreeSlotEmpty
  <1>1. Talks(ctx[p][i].msg)
    BY DEF RInv, RouteOK, MessageOK
  <1>2. PICK t \in Threads : PeerOf(t) = p /\ tls[t] = i
    BY <1>1, MessageArrives
  <1>3. tls[t] # NoOne /\ Mine(t) = ctx[p][i]
    BY <1>2, PeersAssumption DEF Mine
  <1>. QED
    BY <1>3 DEF AInv, AccountOK

\* Two packets or messages that concern the innermost call of one thread are of
\* the same call: its response, or the one command its handler waits for.
LEMMA SameCall ==
    ASSUME AInv, RInv, NEW t \in Threads, NEW p \in Peers, NEW q \in Peers, NEW x, NEW y,
           Talks(x), Talks(y), Concerns(x, t), Concerns(y, t),
           Asks(x) => AskOK(x, p), Asks(y) => AskOK(y, q),
           ~Running(x.conv), ~Running(y.conv)
    PROVE  x.conv = y.conv
  <1>1. \A z, r : Asks(z) /\ Concerns(z, t) /\ AskOK(z, r) =>
           \E u \in Threads, m \in Nat : /\ Calls(u, m, z.conv) /\ Runs(u, m - 1, Top(t).conv)
                                         /\ m - 1 \in Nat
    <2>. SUFFICES ASSUME NEW z, NEW r, Asks(z), Concerns(z, t), AskOK(z, r)
                  PROVE  \E u \in Threads, m \in Nat :
                            /\ Calls(u, m, z.conv) /\ Runs(u, m - 1, Top(t).conv) /\ m - 1 \in Nat
      OBVIOUS
    <2>1. PICK u \in Threads, m \in Nat : Calls(u, m, z.conv) /\ z.parent = stack[u][m].parent
      BY DEF AskOK
    <2>2. z.parent = Top(t).conv /\ z.parent # 0
      BY DEF Concerns
    <2>3. Runs(u, m - 1, Top(t).conv) /\ m > 1
      BY <2>1, <2>2, Layers
    <2>. QED
      BY <2>1, <2>3
  <1>2. \A z : Asks(z) /\ Concerns(z, t) /\ (\E r : AskOK(z, r)) => Running(Top(t).conv)
    BY <1>1 DEF Running
  <1>3. CASE Answers(x) /\ Answers(y)
    BY <1>3 DEF Concerns
  <1>4. CASE Answers(x) /\ Asks(y)
    BY <1>2, <1>4 DEF Concerns
  <1>5. CASE Asks(x) /\ Answers(y)
    BY <1>2, <1>5 DEF Concerns
  <1>6. CASE Asks(x) /\ Asks(y)
    <2>1. PICK u \in Threads, m \in Nat :
            Calls(u, m, x.conv) /\ Runs(u, m - 1, Top(t).conv) /\ m - 1 \in Nat
      BY <1>1, <1>6
    <2>2. PICK v \in Threads, n \in Nat :
            Calls(v, n, y.conv) /\ Runs(v, n - 1, Top(t).conv) /\ n - 1 \in Nat
      BY <1>1, <1>6
    <2>3. u = v /\ m - 1 = n - 1
      BY <2>1, <2>2, CallUnique DEF RInv
    <2>4. m = n
      BY <2>3
    <2>. QED
      BY <2>1, <2>2, <2>3, <2>4 DEF Calls
  <1>. QED
    BY <1>3, <1>4, <1>5, <1>6 DEF Talks

\* receive_handler finds no message in the context it delivers a packet to.
LEMMA Deliverable ==
    ASSUME AInv, RInv, NEW p \in Peers, NEW i \in Ctxs, NEW x \in Packets(p), Talks(x), x.dst = i
    PROVE  ctx[p][i].msg = NoMsg
  <1>. SUFFICES ASSUME ctx[p][i].msg # NoMsg
                PROVE  FALSE
    OBVIOUS
  <1>1. PICK y : y = ctx[p][i].msg
    OBVIOUS
  <1>2. /\ MessageOK(y, p, i) /\ Talks(y) /\ ~Running(y.conv) /\ Held(y.conv)
        /\ PacketOK(x, p) /\ ~Running(x.conv) /\ ~Held(x.conv)
    BY <1>1, OnePlace DEF RInv, RouteOK, MessageOK
  <1>3. PICK t \in Threads : PeerOf(t) = p /\ tls[t] = i /\ Concerns(y, t)
    BY <1>2, Arrives DEF MessageOK
  <1>4. PICK u \in Threads : PeerOf(u) = p /\ tls[u] = i /\ Concerns(x, u)
    BY <1>2, Arrives DEF PacketOK
  <1>5. t = u
    BY <1>3, <1>4, ContextOne, PeersAssumption
  <1>6. x.conv = y.conv
    BY <1>2, <1>3, <1>4, <1>5, SameCall DEF MessageOK, PacketOK
  <1>. QED
    BY <1>2, <1>6

-----------------------------------------------------------------------------
(* What a step does to the places of the calls.                             *)

\* Only frame m of thread t changes, to one of new if it is still there; it is
\* on top before and after.
Frames(t, m, new) ==
    /\ m \in Nat \ {0} /\ Len(stack[t]) \in {m - 1, m} /\ Len(stack'[t]) \in {m - 1, m}
    /\ \A u \in Threads : \A n \in 1..Len(stack'[u]) :
          IF u = t /\ n = m THEN stack'[u][n] \in new
          ELSE n \in 1..Len(stack[u]) /\ stack'[u][n] = stack[u][n]
    /\ \A u \in Threads : \A n \in 1..Len(stack[u]) :
          ~(u = t /\ n = m) => n \in 1..Len(stack'[u]) /\ stack'[u][n] = stack[u][n]
    /\ \A u \in Threads : u # t => stack'[u] = stack[u]

\* A frame is pushed,
LEMMA PushFrames ==
    ASSUME Types, NEW t \in Threads, NEW f, Pushed(t, f)
    PROVE  Frames(t, Len(stack[t]) + 1, {f})
  <1>1. Len(stack[t]) \in Nat
    BY DEF Types
  <1>. QED
    BY <1>1 DEF Pushed, Frames

\* popped,
LEMMA PopFrames ==
    ASSUME Types, NEW t \in Threads, stack[t] # <<>>, Popped(t)
    PROVE  Frames(t, Len(stack[t]), {})
  <1>1. Len(stack[t]) \in Nat \ {0}
    BY TopLemma
  <1>. QED
    BY <1>1 DEF Popped, Frames

\* or replaced.
LEMMA ReplaceFrames ==
    ASSUME Types, NEW t \in Threads, stack[t] # <<>>, NEW f, Replaced(t, f)
    PROVE  Frames(t, Len(stack[t]), {f})
  <1>1. Len(stack[t]) \in Nat \ {0}
    BY TopLemma
  <1>. QED
    <2>1. \A n \in 1..Len(stack[t]) : n = Len(stack[t]) \/ n \in 1..(Len(stack[t]) - 1)
      BY <1>1
    <2>. QED
      BY <1>1, <2>1 DEF Replaced, Frames

\* A thread that keeps a context keeps the same, and the same partner.
RemoteKept ==
    \A u \in Threads : tls[u] # NoOne /\ tls'[u] # NoOne =>
        tls'[u] = tls[u] /\ Mine(u)'.remote = Mine(u).remote

\* Calls other than c0 go on as they are.
CallsKept(c0) ==
    \A u \in Threads, n \in Nat, c \in Nat : Calls(u, n, c) /\ c # c0 =>
        Calls(u, n, c)' /\ tls'[u] = tls[u] /\ stack'[u][n].parent = stack[u][n].parent

\* A handler goes on as it is.
RunKept(u, k) ==
    /\ k \in 1..Len(stack[u]) /\ stack'[u][k] = stack[u][k]
    /\ k # 1 => stack'[u][k - 1].conv = stack[u][k - 1].conv
    /\ stack[u][k].st # "alloc" => Mine(u)'.remote = Mine(u).remote

\* A call that goes on waits with the same context.
LEMMA KeepWaiting ==
    ASSUME AInv, NEW c0, CallsKept(c0), NEW c, NEW p, NEW i, Waiting(c, p, i), c # c0
    PROVE  Waiting(c, p, i)'
  <1>1. PICK t \in Threads, n \in Nat : Calls(t, n, c) /\ PeerOf(t) = p /\ tls[t] = i
    BY DEF Waiting
  <1>2. c \in Nat
    BY <1>1, CallFacts
  <1>3. Calls(t, n, c)' /\ tls'[t] = i
    BY <1>1, <1>2 DEF CallsKept
  <1>. QED
    BY <1>1, <1>3 DEF Waiting

\* A command that waits to be taken up still belongs to its caller.
LEMMA KeepAsk ==
    ASSUME AInv, NEW c0, CallsKept(c0), ~Running(c0), NEW x, NEW p, AskOK(x, p), x.conv # c0
    PROVE  AskOK(x, p)'
  <1>1. PICK t \in Threads, n \in Nat :
          /\ Calls(t, n, x.conv) /\ PeerOf(t) # p /\ x.src = tls[t]
          /\ x.parent = stack[t][n].parent
          /\ IF x.parent = 0 THEN x.dst = Unknown ELSE Waiting(x.parent, p, x.dst)
    BY DEF AskOK
  <1>2. x.conv \in Nat
    BY <1>1, CallFacts
  <1>3. Calls(t, n, x.conv)' /\ tls'[t] = tls[t] /\ stack'[t][n].parent = stack[t][n].parent
    BY <1>1, <1>2 DEF CallsKept
  <1>4. x.parent # 0 => Waiting(x.parent, p, x.dst)'
    <2>. SUFFICES ASSUME x.parent # 0
                  PROVE  Waiting(x.parent, p, x.dst)'
      OBVIOUS
    <2>1. Runs(t, n - 1, x.parent) /\ n > 1
      BY <1>1, Layers
    <2>2. Running(x.parent)
      BY <2>1 DEF Running
    <2>. QED
      BY <1>1, <2>2, KeepWaiting
  <1>. QED
    BY <1>1, <1>3, <1>4 DEF AskOK

\* A handler that goes on still answers to the context of its caller.
LEMMA KeepRun ==
    ASSUME AInv, NEW c0, CallsKept(c0), ~Running(c0), NEW u \in Threads, NEW k,
           RunKept(u, k), stack[u][k].k = "exec", RunOK(u, k)
    PROVE  RunOK(u, k)'
  <1>1. PICK t \in Threads, n \in Nat :
          /\ Calls(t, n, stack[u][k].conv) /\ PeerOf(t) # PeerOf(u)
          /\ IF stack[u][k].st = "alloc" THEN stack[u][k].src = tls[t] ELSE Mine(u).remote = tls[t]
          /\ stack[t][n].parent = IF k = 1 THEN 0 ELSE stack[u][k - 1].conv
    BY DEF RunOK
  <1>2. Runs(u, k, stack[u][k].conv)
    BY DEF RunKept, Runs
  <1>3. stack[u][k].conv # c0 /\ stack[u][k].conv \in Nat
    BY <1>2, CallFacts DEF Running
  <1>4. /\ Calls(t, n, stack[u][k].conv)' /\ tls'[t] = tls[t]
        /\ stack'[t][n].parent = stack[t][n].parent
    <2>1. PICK c : c = stack[u][k].conv
      OBVIOUS
    <2>2. Calls(t, n, c)' /\ tls'[t] = tls[t] /\ stack'[t][n].parent = stack[t][n].parent
      BY <1>1, <1>3, <2>1 DEF CallsKept
    <2>3. stack'[u][k].conv = c
      BY <2>1 DEF RunKept
    <2>. QED
      BY <2>2, <2>3
  <1>5. /\ IF stack'[u][k].st = "alloc" THEN stack'[u][k].src = tls'[t]
           ELSE Mine(u)'.remote = tls'[t]
        /\ stack'[t][n].parent = IF k = 1 THEN 0 ELSE stack'[u][k - 1].conv
    BY <1>1, <1>4 DEF RunKept
  <1>. QED
    BY <1>1, <1>4, <1>5 DEF RunOK

\* RouteOK after a step that retires call c0, or none.
LEMMA RouteStep ==
    ASSUME AInv, RInv, NEW c0, CallsKept(c0), ~Running(c0),
           \A p \in Peers : \A x : x \in Packets(p)' =>
              PacketOK(x, p)' \/ (x \in Packets(p) /\ (Talks(x) => x.conv # c0)),
           \A p \in Peers : \A i \in Ctxs :
              \/ MessageOK(ctx[p][i].msg, p, i)'
              \/ ctx'[p][i].msg = NoMsg
              \/ /\ ctx'[p][i].msg = ctx[p][i].msg
                 /\ Talks(ctx[p][i].msg) => ctx[p][i].msg.conv # c0,
           \A u \in Threads : \A k \in 1..Len(stack'[u]) :
              stack'[u][k].k = "exec" => RunOK(u, k)' \/ RunKept(u, k),
           \A u \in Threads : (At(u, "cmd", "send") /\ Top(u).parent = 0 => Mine(u).remote = Unknown)'
    PROVE  RouteOK'
  <1>0. RouteOK
    BY DEF RInv
  <1>1. ASSUME NEW p \in Peers, NEW x, x \in Packets(p), Talks(x) => x.conv # c0
        PROVE  PacketOK(x, p)'
    <2>1. PacketOK(x, p)
      BY <1>0, <1>1 DEF RouteOK
    <2>2. Asks(x) => AskOK(x, p)'
      BY <1>1, <2>1, KeepAsk DEF PacketOK, Talks
    <2>3. Answers(x) => Waiting(x.conv, p, x.dst)'
      BY <1>1, <2>1, KeepWaiting DEF PacketOK, Talks
    <2>. QED
      BY <2>2, <2>3 DEF PacketOK
  <1>2. ASSUME NEW p \in Peers, NEW i \in Ctxs, ctx'[p][i].msg = ctx[p][i].msg,
               Talks(ctx[p][i].msg) => ctx[p][i].msg.conv # c0
        PROVE  MessageOK(ctx[p][i].msg, p, i)'
    <2>1. PICK x : x = ctx[p][i].msg
      OBVIOUS
    <2>2. MessageOK(x, p, i) /\ (Talks(x) => x.conv # c0)
      BY <1>0, <1>2, <2>1 DEF RouteOK
    <2>3. Asks(x) => AskOK(x, p)'
      BY <2>2, KeepAsk DEF MessageOK, Talks
    <2>4. Answers(x) => Waiting(x.conv, p, i)'
      BY <2>2, KeepWaiting DEF MessageOK, Talks
    <2>5. MessageOK(x, p, i)'
      BY <2>2, <2>3, <2>4 DEF MessageOK
    <2>6. ctx'[p][i].msg = x
      BY <1>2, <2>1
    <2>. QED
      BY <2>5, <2>6
  <1>3. ASSUME NEW p \in Peers, NEW i \in Ctxs, ctx'[p][i].msg = NoMsg
        PROVE  MessageOK(ctx[p][i].msg, p, i)'
    BY <1>3 DEF MessageOK, Asks, Answers, NoMsg, HANDLED
  <1>4. ASSUME NEW u \in Threads, NEW k \in 1..Len(stack'[u]), stack'[u][k].k = "exec",
               RunKept(u, k)
        PROVE  RunOK(u, k)'
    <2>1. stack[u][k].k = "exec" /\ k \in 1..Len(stack[u])
      BY <1>4 DEF RunKept
    <2>2. RunOK(u, k)
      BY <1>0, <2>1 DEF RouteOK
    <2>. QED
      BY <1>4, <2>1, <2>2, KeepRun
  <1>5. \A p \in Peers : \A x : x \in Packets(p)' => PacketOK(x, p)'
    BY <1>1
  <1>6. \A p \in Peers : \A i \in Ctxs : MessageOK(ctx[p][i].msg, p, i)'
    BY <1>2, <1>3
  <1>7. \A u \in Threads : \A k \in 1..Len(stack'[u]) : stack'[u][k].k = "exec" => RunOK(u, k)'
    BY <1>4
  <1>. QED
    BY <1>5, <1>6, <1>7 DEF RouteOK

\* ConvOK after a step on frame m of thread t.
LEMMA ConvStep ==
    ASSUME AInv, ConvOK, NEW t \in Threads, NEW m, NEW new, Frames(t, m, new),
           calls' \in {calls, calls + 1},
           \A f \in new :
              /\ f.k = "cmd" => \/ calls' = calls + 1 /\ f.conv = calls + 1
                               \/ /\ m \in 1..Len(stack[t]) /\ stack[t][m].k = "cmd"
                                  /\ stack[t][m].conv = f.conv
              /\ f.k = "exec" => ~Running(f.conv) \/ Runs(t, m, f.conv)
    PROVE  ConvOK'
  <1>0. /\ calls \in Nat
        /\ \A u \in Threads : \A n \in 1..Len(stack[u]) : n \in Nat
    BY DEF AInv, Types
  <1>c. \A u \in Threads : \A n \in 1..Len(stack[u]) :
           stack[u][n].k = "cmd" => stack[u][n].conv \in Nat /\ stack[u][n].conv <= calls
    <2>. SUFFICES ASSUME NEW u \in Threads, NEW n \in 1..Len(stack[u]), stack[u][n].k = "cmd"
                  PROVE  stack[u][n].conv \in Nat /\ stack[u][n].conv <= calls
      OBVIOUS
    <2>1. stack[u][n] \in Frame
      BY DEF AInv, Types
    <2>2. stack[u][n].conv \in Nat
      BY <2>1 DEF Frame, CmdFrame, FreshFrame, NestedFrame, EvtFrame, RspFrame
    <2>. QED
      BY <2>2 DEF ConvOK
  <1>1. ASSUME NEW u \in Threads, NEW n \in 1..Len(stack'[u]), stack'[u][n].k = "cmd"
        PROVE  stack'[u][n].conv <= calls'
    <2>1. CASE u = t /\ n = m
      BY <1>0, <1>c, <1>1, <2>1 DEF Frames
    <2>2. CASE ~(u = t /\ n = m)
      BY <1>0, <1>c, <1>1, <2>2 DEF Frames
    <2>. QED
      BY <2>1, <2>2
  <1>2. ASSUME NEW u \in Threads, NEW v \in Threads,
               NEW n \in 1..Len(stack'[u]), NEW l \in 1..Len(stack'[v]),
               stack'[u][n].k = stack'[v][l].k, stack'[u][n].k \in {"cmd", "exec"},
               stack'[u][n].conv = stack'[v][l].conv,
               ~(v = t /\ l = m)
        PROVE  u = v /\ n = l
    <2>1. l \in 1..Len(stack[v]) /\ stack'[v][l] = stack[v][l]
      BY <1>2 DEF Frames
    <2>2. CASE u = t /\ n = m
      <3>1. PICK f \in new : f = stack'[u][n]
        BY <2>2 DEF Frames
      <3>2. CASE f.k = "cmd"
        <4>1. /\ stack[v][l].k = "cmd" /\ stack[v][l].conv = f.conv
              /\ stack[v][l].conv \in Nat /\ stack[v][l].conv <= calls
          BY <1>c, <1>2, <2>1, <3>1, <3>2
        <4>2. f.conv # calls + 1
          BY <1>0, <4>1
        <4>3. m \in 1..Len(stack[t]) /\ stack[t][m].k = "cmd" /\ stack[t][m].conv = f.conv
          BY <3>2, <4>2
        <4>4. t = v /\ m = l
          BY <2>1, <4>1, <4>3 DEF ConvOK
        <4>. QED
          BY <2>2, <4>4
      <3>3. CASE f.k = "exec"
        <4>1. Runs(v, l, f.conv) /\ l \in Nat
          BY <1>0, <1>2, <2>1, <3>1, <3>3 DEF Runs
        <4>2. Runs(t, m, f.conv)
          BY <3>3, <4>1 DEF Running
        <4>. QED
          BY <2>2, <4>1, <4>2, CallUnique
      <3>. QED
        BY <1>2, <3>1, <3>2, <3>3
    <2>3. CASE ~(u = t /\ n = m)
      BY <1>2, <2>1, <2>3 DEF Frames, ConvOK
    <2>. QED
      BY <2>2, <2>3
  <1>3. ASSUME NEW u \in Threads, NEW v \in Threads,
               NEW n \in 1..Len(stack'[u]), NEW l \in 1..Len(stack'[v]),
               stack'[u][n].k = stack'[v][l].k, stack'[u][n].k \in {"cmd", "exec"},
               stack'[u][n].conv = stack'[v][l].conv
        PROVE  u = v /\ n = l
    <2>1. CASE ~(v = t /\ l = m)
      BY <1>2, <1>3, <2>1
    <2>2. CASE ~(u = t /\ n = m)
      BY <1>2, <1>3, <2>2
    <2>. QED
      BY <2>1, <2>2
  <1>. QED
    BY <1>1, <1>3 DEF ConvOK

\* Handlers after a step on frame m of thread t.
LEMMA RunningStep ==
    ASSUME AInv, ConvOK, NEW t \in Threads, NEW m, NEW new, Frames(t, m, new)
    PROVE  /\ \A c \in Nat : Running(c)' =>
                 Running(c) \/ \E f \in new : f.k = "exec" /\ f.conv = c
           /\ \A c \in Nat : Runs(t, m, c) /\ Running(c)' => \E f \in new : f.k = "exec" /\ f.conv = c
  <1>. SUFFICES ASSUME NEW c \in Nat, Running(c)', ~\E f \in new : f.k = "exec" /\ f.conv = c
                PROVE  Running(c) /\ ~Runs(t, m, c)
    OBVIOUS
  <1>1. PICK u \in Threads, n \in Nat : Runs(u, n, c)'
    BY DEF Running
  <1>2. n \in 1..Len(stack'[u]) /\ stack'[u][n].k = "exec" /\ stack'[u][n].conv = c
    BY <1>1 DEF Runs
  <1>3. ~(u = t /\ n = m)
    BY <1>2 DEF Frames
  <1>4. Runs(u, n, c)
    BY <1>2, <1>3 DEF Frames, Runs
  <1>. QED
    BY <1>3, <1>4, CallUnique DEF Running

\* Packets after one is sent.
LEMMA SendStep ==
    ASSUME AInv, NetOK, NEW p \in Peers, NEW x \in Packet, Send(p, x), Talks(x) => ~Sent(x.conv)
    PROVE  /\ NetOK'
           /\ \A c : Sent(c)' => Sent(c) \/ (Talks(x) /\ x.conv = c)
           /\ \A q \in Peers : \A y : y \in Packets(q)' =>
                 y \in Packets(q) \/ (q = Other(p) /\ y = x)
  <1>1. /\ net'[Other(p)] = Append(net[Other(p)], x) /\ Other(p) \in Peers
        /\ \A q \in Peers : q # Other(p) => net'[q] = net[q]
    BY SendLemma, TwoPeers DEF AInv
  <1>2. PICK s : s = net[Other(p)]
    OBVIOUS
  <1>3. s \in Seq(Packet) /\ Len(s) \in Nat
    BY <1>1, <1>2 DEF AInv, Types
  <1>4. /\ Len(Append(s, x)) = Len(s) + 1 /\ Append(s, x)[Len(s) + 1] = x
        /\ \A i \in 1..Len(s) : Append(s, x)[i] = s[i]
    BY <1>3
  <1>5. \A q \in Peers : \A i \in 1..Len(net'[q]) :
          \/ i \in 1..Len(net[q]) /\ net'[q][i] = net[q][i]
          \/ q = Other(p) /\ i = Len(s) + 1 /\ net'[q][i] = x
    <2>. SUFFICES ASSUME NEW q \in Peers, NEW i \in 1..Len(net'[q])
                  PROVE  \/ i \in 1..Len(net[q]) /\ net'[q][i] = net[q][i]
                         \/ q = Other(p) /\ i = Len(s) + 1 /\ net'[q][i] = x
      OBVIOUS
    <2>1. CASE q # Other(p)
      BY <1>1, <2>1
    <2>2. CASE q = Other(p)
      <3>1. net'[q] = Append(s, x) /\ i \in 1..(Len(s) + 1) /\ net[q] = s
        BY <1>1, <1>2, <1>4, <2>2
      <3>2. i \in 1..Len(s) \/ i = Len(s) + 1
        BY <1>3, <3>1
      <3>. QED
        BY <1>4, <2>2, <3>1, <3>2
    <2>. QED
      BY <2>1, <2>2
  <1>6. \A c : Sent(c)' => Sent(c) \/ (Talks(x) /\ x.conv = c)
    BY <1>5 DEF Sent
  <1>7. \A q \in Peers : \A y : y \in Packets(q)' =>
           y \in Packets(q) \/ (q = Other(p) /\ y = x)
    BY <1>5 DEF Packets
  <1>8. ASSUME NEW q \in Peers, NEW r \in Peers, NEW i \in 1..Len(net'[q]),
               NEW j \in 1..Len(net'[r]), Talks(net'[q][i]), Talks(net'[r][j]),
               net'[q][i].conv = net'[r][j].conv
        PROVE  q = r /\ i = j
    <2>1. CASE /\ i \in 1..Len(net[q]) /\ net'[q][i] = net[q][i]
               /\ j \in 1..Len(net[r]) /\ net'[r][j] = net[r][j]
      BY <1>8, <2>1 DEF NetOK
    <2>2. CASE /\ i \in 1..Len(net[q]) /\ net'[q][i] = net[q][i] /\ net'[r][j] = x
      BY <1>8, <2>2 DEF Sent
    <2>3. CASE /\ j \in 1..Len(net[r]) /\ net'[r][j] = net[r][j] /\ net'[q][i] = x
      BY <1>8, <2>3 DEF Sent
    <2>4. CASE q = Other(p) /\ i = Len(s) + 1 /\ r = Other(p) /\ j = Len(s) + 1
      BY <2>4
    <2>. QED
      BY <1>5, <2>1, <2>2, <2>3, <2>4
  <1>9. NetOK'
    BY <1>8 DEF NetOK
  <1>. QED
    BY <1>6, <1>7, <1>9

\* Packets after the oldest is taken.
LEMMA TakenStep ==
    ASSUME AInv, NetOK, NEW p \in Peers, net[p] # <<>>, Taken(p)
    PROVE  /\ NetOK' /\ Head(net[p]) \in Packets(p) /\ Head(net[p]) \in Packet
           /\ \A c : Sent(c)' => Sent(c)
           /\ Talks(Head(net[p])) => \A c : Sent(c)' => c # Head(net[p]).conv
           /\ \A q \in Peers : \A y : y \in Packets(q)' => y \in Packets(q)
  <1>1. /\ net'[p] = Tail(net[p]) /\ Head(net[p]) \in Packet
        /\ \A q \in Peers : q # p => net'[q] = net[q]
    BY TakenLemma DEF AInv
  <1>2. PICK s : s = net[p]
    OBVIOUS
  <1>3. s \in Seq(Packet) /\ Len(s) \in Nat /\ s # <<>> /\ Len(s) # 0
    BY <1>2 DEF AInv, Types
  <1>4. /\ Len(Tail(s)) = Len(s) - 1 /\ Head(s) = s[1]
        /\ \A i \in 1..(Len(s) - 1) : Tail(s)[i] = s[i + 1]
    BY <1>3
  <1>5. \A q \in Peers : \A i \in 1..Len(net'[q]) :
          LET j == IF q = p THEN i + 1 ELSE i IN
          j \in 1..Len(net[q]) /\ net'[q][i] = net[q][j]
    <2>. SUFFICES ASSUME NEW q \in Peers, NEW i \in 1..Len(net'[q])
                  PROVE  LET j == IF q = p THEN i + 1 ELSE i IN
                         j \in 1..Len(net[q]) /\ net'[q][i] = net[q][j]
      OBVIOUS
    <2>1. CASE q # p
      BY <1>1, <2>1
    <2>2. CASE q = p
      <3>1. net'[q] = Tail(s) /\ i \in 1..(Len(s) - 1) /\ net[q] = s
        BY <1>1, <1>2, <1>4, <2>2
      <3>2. i + 1 \in 1..Len(s)
        BY <1>3, <3>1
      <3>. QED
        BY <1>4, <2>2, <3>1, <3>2
    <2>. QED
      BY <2>1, <2>2
  <1>6. Head(net[p]) \in Packets(p) /\ 1 \in 1..Len(net[p]) /\ Head(net[p]) = net[p][1]
    BY <1>2, <1>3, <1>4 DEF Packets
  <1>7. \A c : Sent(c)' => Sent(c)
    BY <1>5 DEF Sent
  <1>8. \A q \in Peers : \A y : y \in Packets(q)' => y \in Packets(q)
    BY <1>5 DEF Packets
  <1>9. ASSUME Talks(Head(net[p])), NEW c, Sent(c)'
        PROVE  c # Head(net[p]).conv
    <2>1. PICK q \in Peers : \E i \in 1..Len(net'[q]) : Talks(net'[q][i]) /\ net'[q][i].conv = c
      BY <1>9 DEF Sent
    <2>2. PICK i \in 1..Len(net'[q]) : Talks(net'[q][i]) /\ net'[q][i].conv = c
      BY <2>1
    <2>3. PICK j \in 1..Len(net[q]) : j = (IF q = p THEN i + 1 ELSE i) /\ net'[q][i] = net[q][j]
      BY <1>5
    <2>4. ~(q = p /\ j = 1)
      BY <2>3
    <2>. QED
      BY <1>6, <1>9, <2>2, <2>3, <2>4 DEF NetOK
  <1>10. ASSUME NEW q \in Peers, NEW r \in Peers, NEW i \in 1..Len(net'[q]),
                NEW j \in 1..Len(net'[r]), Talks(net'[q][i]), Talks(net'[r][j]),
                net'[q][i].conv = net'[r][j].conv
         PROVE  q = r /\ i = j
    <2>1. PICK k \in 1..Len(net[q]) : k = (IF q = p THEN i + 1 ELSE i) /\ net'[q][i] = net[q][k]
      BY <1>5
    <2>2. PICK l \in 1..Len(net[r]) : l = (IF r = p THEN j + 1 ELSE j) /\ net'[r][j] = net[r][l]
      BY <1>5
    <2>3. q = r /\ k = l
      <3>1. /\ Talks(net[q][k]) /\ Talks(net[r][l])
            /\ net[q][k].conv = net[r][l].conv
        BY <1>10, <2>1, <2>2
      <3>. QED
        BY <3>1 DEF NetOK
    <2>. QED
      BY <2>1, <2>2, <2>3
  <1>11. NetOK'
    BY <1>10 DEF NetOK
  <1>. QED
    BY <1>1, <1>6, <1>7, <1>8, <1>9, <1>11

\* Messages only go.
MessagesKept ==
    \A p \in Peers : \A i \in Ctxs : ctx'[p][i].msg = ctx[p][i].msg \/ ctx'[p][i].msg = NoMsg

\* Where messages only go, no call gets a second place.
LEMMA HeldStep ==
    ASSUME HoldOK, MessagesKept
    PROVE  HoldOK' /\ \A c : Held(c)' => Held(c)
  <1>1. ~Talks(NoMsg)
    BY DEF Talks, Asks, Answers, NoMsg, HANDLED
  <1>2. \A p \in Peers : \A i \in Ctxs : Talks(ctx'[p][i].msg) => ctx'[p][i].msg = ctx[p][i].msg
    BY <1>1 DEF MessagesKept
  <1>3. HoldOK'
    BY <1>2 DEF HoldOK
  <1>. QED
    BY <1>2, <1>3 DEF Held

\* A thread that waits, or runs a handler that got its context, has one.
HasContext ==
    \A t \in Threads : \A n \in 1..Len(stack[t]) :
        \/ stack[t][n].k = "cmd" /\ stack[t][n].st \in {"send", "get"}
        \/ stack[t][n].k = "exec" /\ stack[t][n].st # "alloc"
        => tls[t] # NoOne /\ tls[t] \in Ctxs

\* A thread in the middle of a call or of a handler has a context,
LEMMA ContextHad == AInv => HasContext
  <1>. SUFFICES ASSUME AInv, NEW t \in Threads, NEW n \in 1..Len(stack[t]),
                       \/ stack[t][n].k = "cmd" /\ stack[t][n].st \in {"send", "get"}
                       \/ stack[t][n].k = "exec" /\ stack[t][n].st # "alloc"
                PROVE  tls[t] # NoOne /\ tls[t] \in Ctxs
    BY DEF HasContext
  <1>1. CASE stack[t][n].k = "cmd" /\ stack[t][n].st \in {"send", "get"}
    <2>1. n \in Uses(t)
      BY <1>1 DEF Uses, InUse
    <2>2. tls[t] # NoOne
      BY <2>1 DEF AInv, AccountOK
    <2>. QED
      BY <2>2 DEF AInv, Types
  <1>2. CASE stack[t][n].k = "exec" /\ stack[t][n].st # "alloc"
    <2>1. Runs(t, n, stack[t][n].conv)
      BY <1>2 DEF Runs
    <2>. QED
      BY <1>2, <2>1, CallFacts
  <1>. QED
    BY <1>1, <1>2

\* after a step as well.
LEMMA ContextHadNext == AInv' => HasContext'
  BY ContextHad, PTL

\* The calls and handlers that a step on frame m of thread t leaves alone.
LEMMA CallsKeep ==
    ASSUME AInv, AInv', NEW t \in Threads, NEW m, NEW new, Frames(t, m, new), RemoteKept,
           NEW c0, \A c \in Nat : Calls(t, m, c) => c = c0
    PROVE  CallsKept(c0)
  <1>. SUFFICES ASSUME NEW u \in Threads, NEW n \in Nat, NEW c \in Nat, Calls(u, n, c), c # c0
                PROVE  /\ Calls(u, n, c)' /\ tls'[u] = tls[u]
                       /\ stack'[u][n].parent = stack[u][n].parent
    BY DEF CallsKept
  <1>1. n \in 1..Len(stack[u]) /\ ~(u = t /\ n = m)
    BY DEF Calls
  <1>2. n \in 1..Len(stack'[u]) /\ stack'[u][n] = stack[u][n]
    BY <1>1 DEF Frames
  <1>3. Calls(u, n, c)'
    BY <1>2 DEF Calls
  <1>4. tls[u] # NoOne
    BY CallFacts
  <1>5. tls'[u] # NoOne
    BY <1>2, <1>3, ContextHadNext DEF HasContext, Calls
  <1>. QED
    BY <1>2, <1>3, <1>4, <1>5 DEF RemoteKept

\* A step of thread t on frame m leaves every other handler as it is.
LEMMA RunsKeep ==
    ASSUME AInv, AInv', NEW t \in Threads, NEW m, NEW new, Frames(t, m, new), RemoteKept,
           NEW u \in Threads, NEW k \in 1..Len(stack'[u]), ~(u = t /\ k = m),
           stack'[u][k].k = "exec"
    PROVE  RunKept(u, k)
  <1>1. k \in 1..Len(stack[u]) /\ stack'[u][k] = stack[u][k]
    BY DEF Frames
  <1>2. k # 1 => stack'[u][k - 1].conv = stack[u][k - 1].conv
    <2>. SUFFICES ASSUME k # 1
                  PROVE  stack'[u][k - 1] = stack[u][k - 1]
      OBVIOUS
    <2>1. Len(stack'[u]) \in Nat /\ k - 1 \in 1..Len(stack'[u])
      BY DEF AInv, Types
    <2>2. ~(u = t /\ k - 1 = m)
      BY <2>1 DEF Frames
    <2>. QED
      BY <2>1, <2>2 DEF Frames
  <1>3. stack[u][k].st # "alloc" => Mine(u)'.remote = Mine(u).remote
    BY <1>1, ContextHad, ContextHadNext DEF HasContext, RemoteKept
  <1>. QED
    BY <1>1, <1>2, <1>3 DEF RunKept

\* The last conjunct of RouteOK: a new conversation has no partner yet.
SendKept(t) ==
    (At(t, "cmd", "send") /\ Top(t).parent = 0 => Mine(t).remote = Unknown)'

\* A step of thread t leaves the commands that others are about to send alone.
LEMMA SendKeep ==
    ASSUME AInv, AInv', RInv, NEW t \in Threads, NEW m, NEW new, Frames(t, m, new), RemoteKept,
           SendKept(t), NEW u \in Threads
    PROVE  SendKept(u)
  <1>1. CASE u = t
    BY <1>1
  <1>2. CASE u # t
    <2>1. stack'[u] = stack[u]
      BY <1>2 DEF Frames
    <2>. SUFFICES ASSUME At(u, "cmd", "send")', Top(u)'.parent = 0
                  PROVE  Mine(u)'.remote = Unknown
      BY DEF SendKept
    <2>2. At(u, "cmd", "send") /\ Top(u).parent = 0
      BY <2>1 DEF At, Top
    <2>3. Mine(u).remote = Unknown
      BY <2>2 DEF RInv, RouteOK
    <2>4. stack[u] # <<>> /\ Top(u).k = "cmd" /\ Top(u).st = "send"
      BY <2>2, AtTop
    <2>5. /\ Len(stack[u]) \in 1..Len(stack[u]) /\ stack[u][Len(stack[u])].k = "cmd"
          /\ stack[u][Len(stack[u])].st = "send"
      BY <2>4, TopLemma DEF AInv
    <2>6. tls[u] # NoOne /\ tls'[u] # NoOne
      BY <2>1, <2>5, ContextHad, ContextHadNext DEF HasContext
    <2>. QED
      BY <2>3, <2>6 DEF RemoteKept
  <1>. QED
    BY <1>1, <1>2

\* No packet of a call is sent.
NetStill ==
    /\ NetOK' /\ \A c : Sent(c)' => Sent(c)
    /\ \A q \in Peers : \A y : y \in Packets(q)' => y \in Packets(q) \/ ~Talks(y)

\* The net does not change,
LEMMA NetSame ==
    ASSUME RInv, net' = net
    PROVE  NetStill
  BY DEF RInv, NetOK, Sent, Packets, NetStill

\* loses a packet,
LEMMA NetTaken ==
    ASSUME AInv, RInv, NEW p \in Peers, net[p] # <<>>, Taken(p)
    PROVE  NetStill
  BY TakenStep DEF RInv, NetStill

\* or gets an event or an acknowledgment.
LEMMA NetSent ==
    ASSUME AInv, RInv, NEW p \in Peers, NEW x \in Packet, Send(p, x), ~Talks(x)
    PROVE  NetStill
  BY SendStep DEF RInv, NetStill

\* No call is named 0.
LEMMA NoCallZero ==
    ASSUME AInv
    PROVE  ~Running(0) /\ \A t \in Threads : \A n : ~Calls(t, n, 0)
  BY CallFacts DEF Running

\* Frame m of thread t changes, and no call moves.
LEMMA StillStep ==
    ASSUME AInv, AInv', RInv, NEW t \in Threads, NEW m, NEW new, Frames(t, m, new), RemoteKept,
           MessagesKept, SendKept(t), NetStill, \A c : ~Calls(t, m, c),
           calls' \in {calls, calls + 1}, stopAt' = stopAt,
           \A f \in new :
              /\ f.k = "cmd" => \/ calls' = calls + 1 /\ f.conv = calls + 1
                               \/ /\ m \in 1..Len(stack[t]) /\ stack[t][m].k = "cmd"
                                  /\ stack[t][m].conv = f.conv
              /\ f.k = "exec" => Runs(t, m, f.conv) /\ RunOK(t, m)'
    PROVE  RInv'
  <1>0. ConvOK /\ NetOK /\ HoldOK /\ PlaceOK /\ RouteOK /\ NoStops
    BY DEF RInv
  <1>1. ConvOK'
    BY <1>0, ConvStep
  <1>2. HoldOK' /\ \A c : Held(c)' => Held(c)
    BY <1>0, HeldStep
  <1>3. \A c \in Nat : Running(c)' => Running(c)
    <2>1. \A c \in Nat : Running(c)' => Running(c) \/ \E f \in new : f.k = "exec" /\ f.conv = c
      BY <1>0, RunningStep
    <2>2. \A f \in new : f.k = "exec" => Running(f.conv)
      <3>1. m \in Nat
        BY DEF Frames
      <3>. QED
        BY <3>1 DEF Running
    <2>. QED
      BY <2>1, <2>2
  <1>4. PlaceOK'
    BY <1>0, <1>2, <1>3 DEF PlaceOK, NetStill
  <1>5. RouteOK'
    <2>1. CallsKept(0) /\ ~Running(0)
      BY CallsKeep, NoCallZero
    <2>2. \A p \in Peers : \A x : x \in Packets(p)' =>
             PacketOK(x, p)' \/ (x \in Packets(p) /\ (Talks(x) => x.conv # 0))
      <3>1. \A x, p : ~Talks(x) => PacketOK(x, p)'
        BY DEF PacketOK, Talks
      <3>. QED
        BY <3>1, OnePlace DEF NetStill
    <2>3. \A p \in Peers : \A i \in Ctxs :
             \/ ctx'[p][i].msg = NoMsg
             \/ /\ ctx'[p][i].msg = ctx[p][i].msg
                /\ Talks(ctx[p][i].msg) => ctx[p][i].msg.conv # 0
      BY OnePlace DEF MessagesKept
    <2>4. ASSUME NEW u \in Threads, NEW k \in 1..Len(stack'[u]), stack'[u][k].k = "exec"
          PROVE  RunOK(u, k)' \/ RunKept(u, k)
      <3>1. CASE u = t /\ k = m
        <4>1. stack'[u][k] \in new
          BY <3>1 DEF Frames
        <4>. QED
          BY <2>4, <3>1, <4>1
      <3>2. CASE ~(u = t /\ k = m)
        BY <2>4, <3>2, RunsKeep
      <3>. QED
        BY <3>1, <3>2
    <2>5. \A u \in Threads : SendKept(u)
      BY SendKeep
    <2>. QED
      BY <2>1, <2>2, <2>3, <2>4, <2>5, RouteStep DEF SendKept
  <1>6. NoStops' /\ NetOK'
    BY <1>0 DEF NoStops, NetStill
  <1>. QED
    BY <1>1, <1>2, <1>4, <1>5, <1>6 DEF RInv

\* No stack changes, and no call moves.
LEMMA QuietStill ==
    ASSUME AInv, AInv', RInv, stack' = stack, tls' = tls, RemoteKept, MessagesKept, NetStill,
           calls' = calls, stopAt' = stopAt
    PROVE  RInv'
  <1>0. ConvOK /\ NetOK /\ HoldOK /\ PlaceOK /\ RouteOK /\ NoStops
    BY DEF RInv
  <1>1. ConvOK'
    BY <1>0 DEF ConvOK
  <1>2. HoldOK' /\ \A c : Held(c)' => Held(c)
    BY <1>0, HeldStep
  <1>3. \A c \in Nat : Running(c)' => Running(c)
    BY DEF Running, Runs
  <1>4. PlaceOK'
    BY <1>0, <1>2, <1>3 DEF PlaceOK, NetStill
  <1>5. RouteOK'
    <2>1. CallsKept(0) /\ ~Running(0)
      <3>1. CallsKept(0)
        BY DEF CallsKept, Calls
      <3>. QED
        BY <3>1, NoCallZero
    <2>2. \A p \in Peers : \A x : x \in Packets(p)' =>
             PacketOK(x, p)' \/ (x \in Packets(p) /\ (Talks(x) => x.conv # 0))
      <3>1. \A x, p : ~Talks(x) => PacketOK(x, p)'
        BY DEF PacketOK, Talks
      <3>. QED
        BY <3>1, OnePlace DEF NetStill
    <2>3. \A p \in Peers : \A i \in Ctxs :
             \/ ctx'[p][i].msg = NoMsg
             \/ /\ ctx'[p][i].msg = ctx[p][i].msg
                /\ Talks(ctx[p][i].msg) => ctx[p][i].msg.conv # 0
      BY OnePlace DEF MessagesKept
    <2>4. ASSUME NEW u \in Threads, NEW k \in 1..Len(stack'[u]), stack'[u][k].k = "exec"
          PROVE  RunKept(u, k)
      BY <2>4, ContextHad DEF HasContext, RemoteKept, RunKept
    <2>5. ASSUME NEW u \in Threads
          PROVE  SendKept(u)
      <3>1. At(u, "cmd", "send") => tls[u] # NoOne
        <4>. SUFFICES ASSUME At(u, "cmd", "send")
                      PROVE  tls[u] # NoOne
          OBVIOUS
        <4>1. /\ Len(stack[u]) \in 1..Len(stack[u]) /\ stack[u][Len(stack[u])].k = "cmd"
              /\ stack[u][Len(stack[u])].st = "send"
          BY AtTop, TopLemma DEF AInv
        <4>. QED
          BY <4>1, ContextHad DEF HasContext
      <3>2. At(u, "cmd", "send") /\ Top(u).parent = 0 => Mine(u).remote = Unknown
        BY <1>0 DEF RouteOK
      <3>. QED
        BY <3>1, <3>2 DEF SendKept, RemoteKept, At, Top
    <2>. QED
      BY <2>1, <2>2, <2>3, <2>4, <2>5, RouteStep DEF SendKept
  <1>6. NoStops' /\ NetOK'
    BY <1>0 DEF NoStops, NetStill
  <1>. QED
    BY <1>1, <1>2, <1>4, <1>5, <1>6 DEF RInv

\* No context changes.
LEMMA CtxSame ==
    ASSUME ctx' = ctx, tls' = tls
    PROVE  RemoteKept /\ MessagesKept
  BY DEF RemoteKept, MessagesKept, Mine

\* Thread t writes its context, and may give it back.
LEMMA CtxMine ==
    ASSUME AInv, NEW t \in Threads, tls[t] # NoOne, NEW c \in Context, SetMine(t, c),
           c.remote = Mine(t).remote, c.msg = Mine(t).msg \/ c.msg = NoMsg,
           tls'[t] = tls[t] \/ tls'[t] = NoOne,
           \A u \in Threads : u # t => tls'[u] = tls[u]
    PROVE  RemoteKept /\ MessagesKept
  <1>1. \A p \in Peers : \A i \in Ctxs :
           ctx'[p][i] = IF p = PeerOf(t) /\ i = tls[t] THEN c ELSE ctx[p][i]
    BY SetMineLemma DEF AInv
  <1>2. \A u \in Threads : tls[u] # NoOne => PeerOf(u) \in Peers /\ tls[u] \in Ctxs
    BY ThreadPeer DEF AInv, Types
  <1>3. MessagesKept
    BY <1>1, <1>2 DEF MessagesKept, Mine
  <1>4. ASSUME NEW u \in Threads, tls[u] # NoOne, tls'[u] # NoOne
        PROVE  tls'[u] = tls[u] /\ Mine(u)'.remote = Mine(u).remote
    <2>1. tls'[u] = tls[u]
      BY <1>4
    <2>2. CASE u = t
      BY <1>1, <1>2, <2>1, <2>2 DEF Mine
    <2>3. CASE u # t
      <3>1. ~(PeerOf(u) = PeerOf(t) /\ tls[u] = tls[t])
        BY <1>4, <2>3, ContextOne
      <3>. QED
        BY <1>1, <1>2, <1>4, <2>1, <3>1 DEF Mine
    <2>. QED
      BY <2>2, <2>3
  <1>. QED
    BY <1>3, <1>4 DEF RemoteKept

\* Thread t gets a context.
LEMMA CtxAlloc ==
    ASSUME AInv, NEW t \in Threads, tls[t] = NoOne, NEW i \in Ctxs,
           NEW r \in Ctxs \cup {Unknown}, AllocOn(t, i, r)
    PROVE  RemoteKept /\ MessagesKept /\ tls'[t] = i /\ Mine(t)'.remote = r
  <1>0. /\ ctx \in [Peers -> [Ctxs -> Context]] /\ PeerOf(t) \in Peers
        /\ tls \in [Threads -> Ctxs \cup {NoOne}]
    BY ThreadPeer DEF AInv, Types
  <1>1. PICK c : c = [ctx[PeerOf(t)][i] EXCEPT !.reserved = TRUE, !.owner = t, !.use = 1,
                                               !.remote = r, !.handler = FALSE]
    OBVIOUS
  <1>2. ctx[PeerOf(t)][i] \in Context /\ ~ctx[PeerOf(t)][i].reserved
    BY <1>0 DEF AllocOn
  <1>3. c.remote = r /\ c.msg = ctx[PeerOf(t)][i].msg
    BY <1>1, <1>2 DEF Context
  <1>4. ctx' = [ctx EXCEPT ![PeerOf(t)] = [ctx[PeerOf(t)] EXCEPT ![i] = c]]
    BY <1>0, <1>1 DEF AllocOn
  <1>5. \A p \in Peers : \A j \in Ctxs :
           ctx'[p][j] = IF p = PeerOf(t) /\ j = i THEN c ELSE ctx[p][j]
    BY <1>0, <1>4
  <1>6. tls'[t] = i /\ \A u \in Threads : u # t => tls'[u] = tls[u]
    BY <1>0 DEF AllocOn
  <1>7. MessagesKept
    BY <1>0, <1>3, <1>5 DEF MessagesKept
  <1>8. Mine(t)'.remote = r
    BY <1>0, <1>3, <1>5, <1>6 DEF Mine
  <1>9. ASSUME NEW u \in Threads, tls[u] # NoOne
        PROVE  tls'[u] = tls[u] /\ Mine(u)'.remote = Mine(u).remote
    <2>1. u # t /\ tls'[u] = tls[u] /\ tls[u] \in Ctxs /\ PeerOf(u) \in Peers
      BY <1>0, <1>6, <1>9, ThreadPeer
    <2>2. ctx[PeerOf(u)][tls[u]].reserved
      BY <1>9 DEF AInv, AccountOK, Mine
    <2>3. ~(PeerOf(u) = PeerOf(t) /\ tls[u] = i)
      BY <1>2, <2>2
    <2>. QED
      BY <1>5, <2>1, <2>3 DEF Mine
  <1>. QED
    BY <1>6, <1>7, <1>8, <1>9 DEF RemoteKept

-----------------------------------------------------------------------------
(* Each step keeps the routes.                                              *)

\* nrf_rpc_cmd: the new call has a number of its own.
LEMMA CmdStartRoute ==
    ASSUME AInv, AInv', RInv, NEW t \in Threads, CmdStart(t)
    PROVE  RInv'
  <1>0. Types
    BY DEF AInv
  <1>1. PICK h \in BOOLEAN :
           Push(t, [k |-> "cmd", st |-> "lock", conv |-> calls + 1, parent |-> Conv(t),
                    h |-> h, old |-> FALSE])
    BY DEF CmdStart
  <1>2. PICK f : f = [k |-> "cmd", st |-> "lock", conv |-> calls + 1, parent |-> Conv(t),
                      h |-> h, old |-> FALSE]
    OBVIOUS
  <1>3. /\ f \in Frame /\ f.k = "cmd" /\ f.st = "lock" /\ f.conv = calls + 1
    BY <1>0, <1>2, ConvType DEF Frame, CmdFrame, Types
  <1>4. Pushed(t, f)
    BY <1>0, <1>1, <1>2, <1>3, PushLemma
  <1>5. Frames(t, Len(stack[t]) + 1, {f})
    BY <1>0, <1>4, PushFrames
  <1>6. /\ calls' = calls + 1 /\ net' = net /\ ctx' = ctx /\ tls' = tls /\ stopAt' = stopAt
    BY DEF CmdStart, rpcVars
  <1>7. SendKept(t)
    BY <1>3, <1>4 DEF SendKept, At, Top, Pushed
  <1>8. \A c : ~Calls(t, Len(stack[t]) + 1, c)
    BY <1>0 DEF Calls, Types
  <1>9. RemoteKept /\ MessagesKept /\ NetStill
    BY <1>6, CtxSame, NetSame
  <1>. QED
    BY <1>3, <1>5, <1>6, <1>7, <1>8, <1>9, StillStep

\* A frame that neither waits nor runs a handler is popped, and no call moves.
LEMMA PopStill ==
    ASSUME AInv, AInv', RInv, NEW t \in Threads, stack[t] # <<>>, Pop(t), ~Waits(t),
           RemoteKept, MessagesKept, NetStill, calls' = calls, stopAt' = stopAt
    PROVE  RInv'
  <1>0. Types /\ StackOK
    BY DEF AInv
  <1>1. Popped(t)
    BY <1>0, PopLemma
  <1>2. Frames(t, Len(stack[t]), {})
    BY <1>0, <1>1, PopFrames
  <1>3. stack'[t] # <<>> => Settled(Top(t)')
    BY <1>0, <1>1, PopTop
  <1>4. SendKept(t)
    BY <1>3 DEF SendKept, At, Settled
  <1>5. \A c : ~Calls(t, Len(stack[t]), c)
    BY DEF Calls, Waits, At, Top
  <1>. QED
    BY <1>2, <1>4, <1>5, StillStep

\* The first command of a conversation finds no context.
LEMMA FirstCommand ==
    ASSUME AInv, NEW t \in Threads, At(t, "cmd", "lock"), Top(t).parent = 0
    PROVE  tls[t] = NoOne
  <1>0. Types /\ StackOK /\ AccountOK
    BY DEF AInv
  <1>1. PICK l : l = Len(stack[t])
    OBVIOUS
  <1>2. /\ l \in Nat \ {0} /\ l \in 1..Len(stack[t]) /\ stack[t][l].k = "cmd"
        /\ stack[t][l].st = "lock" /\ stack[t][l].parent = 0
    BY <1>0, <1>1, AtTop, TopLemma
  <1>3. l # 1 => l = 2 /\ stack[t][1].k = "evt"
    <2>. SUFFICES ASSUME l # 1
                  PROVE  l = 2 /\ stack[t][1].k = "evt"
      OBVIOUS
    <2>1. l > 1 /\ l - 1 \in 1..Len(stack[t])
      BY <1>0, <1>2 DEF Types
    <2>2. /\ stack[t][l - 1].k \in {"exec", "evt"}
          /\ stack[t][l].parent = IF stack[t][l - 1].k = "exec" THEN stack[t][l - 1].conv ELSE 0
      BY <1>0, <1>2, <2>1 DEF StackOK
    <2>3. stack[t][l - 1].k # "exec"
      <3>. SUFFICES ASSUME stack[t][l - 1].k = "exec"
                    PROVE  FALSE
        OBVIOUS
      <3>1. Runs(t, l - 1, 0)
        BY <1>2, <2>1, <2>2 DEF Runs
      <3>. QED
        BY <3>1, CallFacts
    <2>4. l - 1 = 1
      BY <1>0, <2>1, <2>2, <2>3 DEF StackOK
    <2>. QED
      BY <1>2, <2>2, <2>3, <2>4
  <1>4. \A n \in 1..Len(stack[t]) : n = l \/ (l # 1 /\ n = 1)
    BY <1>1, <1>2, <1>3
  <1>5. Uses(t) = {}
    BY <1>2, <1>3, <1>4 DEF Uses, InUse
  <1>. QED
    BY <1>0, <1>5 DEF AccountOK

\* The command moves on before it is sent.
LEMMA GotoStill ==
    ASSUME AInv, AInv', RInv, NEW t \in Threads, stack[t] # <<>>, Top(t).k = "cmd",
           ~Waits(t), NEW st, Goto(t, st), st # "get", [Top(t) EXCEPT !.st = st] \in Frame,
           st = "send" /\ Top(t).parent = 0 => Mine(t)'.remote = Unknown,
           RemoteKept, MessagesKept, NetStill, calls' = calls, stopAt' = stopAt
    PROVE  RInv'
  <1>0. Types
    BY DEF AInv
  <1>1. PICK f : f = [Top(t) EXCEPT !.st = st]
    OBVIOUS
  <1>2. Replaced(t, f) /\ f \in Frame
    BY <1>0, <1>1, GotoLemma
  <1>3. Top(t) \in CmdFrame
    BY <1>0, TopLemma DEF Frame, FreshFrame, NestedFrame, EvtFrame, RspFrame
  <1>4. f.k = "cmd" /\ f.st = st /\ f.conv = Top(t).conv /\ f.parent = Top(t).parent
    BY <1>1, <1>3 DEF CmdFrame
  <1>5. Frames(t, Len(stack[t]), {f})
    BY <1>0, <1>2, ReplaceFrames
  <1>6. Top(t)' = f
    BY <1>2 DEF Replaced, Top
  <1>7. SendKept(t)
    BY <1>4, <1>6 DEF SendKept, At
  <1>8. \A c : ~Calls(t, Len(stack[t]), c)
    BY DEF Calls, Waits, At, Top
  <1>9. Len(stack[t]) \in 1..Len(stack[t]) /\ Top(t) = stack[t][Len(stack[t])]
    BY <1>0, TopLemma
  <1>. QED
    BY <1>4, <1>5, <1>7, <1>8, <1>9, StillStep

\* A nested command keeps the partner of its conversation.
LEMMA CmdLockRoute ==
    ASSUME AInv, AInv', RInv, NEW t \in Threads, CmdLock(t)
    PROVE  RInv' /\ MessagesKept
  <1>0. Types
    BY DEF AInv
  <1>1. /\ At(t, "cmd", "lock") /\ tls' = tls /\ net' = net /\ calls' = calls /\ stopAt' = stopAt
    BY DEF CmdLock, rpcVars, histVars
  <1>2. stack[t] # <<>> /\ Top(t).k = "cmd" /\ Top(t).st = "lock" /\ ~Waits(t) /\ Top(t) \in Frame
    BY <1>0, <1>1, AtTop, TopLemma
  <1>3. NetStill
    BY <1>1, NetSame
  <1>4. \A st \in {"send", "reserve"} : [Top(t) EXCEPT !.st = st] \in Frame
    <2>1. Top(t) \in CmdFrame
      BY <1>2 DEF Frame, FreshFrame, NestedFrame, EvtFrame, RspFrame
    <2>. QED
      BY <2>1 DEF Frame, CmdFrame
  <1>5. CASE Pop(t) /\ ctx' = ctx
    BY <1>1, <1>2, <1>3, <1>5, CtxSame, PopStill
  <1>6. CASE tls[t] # NoOne /\ SetMine(t, [Mine(t) EXCEPT !.use = @ + 1]) /\ Goto(t, "send")
    <2>1. PICK c : c = [Mine(t) EXCEPT !.use = @ + 1]
      OBVIOUS
    <2>2. Mine(t) \in Context
      BY <1>0, <1>6, MineLemma
    <2>3. c \in Context /\ c.remote = Mine(t).remote /\ c.msg = Mine(t).msg /\ SetMine(t, c)
      BY <1>6, <2>1, <2>2 DEF Context
    <2>4. RemoteKept /\ MessagesKept
      BY <1>1, <1>6, <2>3, CtxMine
    <2>5. Top(t).parent # 0
      BY <1>1, <1>6, FirstCommand
    <2>. QED
      BY <1>1, <1>2, <1>3, <1>4, <1>6, <2>4, <2>5, GotoStill
  <1>7. CASE Goto(t, "reserve") /\ ctx' = ctx
    BY <1>1, <1>2, <1>3, <1>4, <1>7, CtxSame, GotoStill
  <1>. QED
    BY <1>5, <1>6, <1>7 DEF CmdLock

\* The context of a new conversation has no partner yet.
LEMMA CmdReserveRoute ==
    ASSUME AInv, AInv', RInv, NEW t \in Threads, CmdReserve(t)
    PROVE  RInv' /\ MessagesKept
  <1>0. Types /\ AccountOK
    BY DEF AInv
  <1>1. /\ At(t, "cmd", "reserve") /\ net' = net /\ calls' = calls /\ stopAt' = stopAt
        /\ Goto(t, "send")
    BY DEF CmdReserve, rpcVars, histVars
  <1>2. /\ stack[t] # <<>> /\ Top(t).k = "cmd" /\ Top(t).st = "reserve" /\ ~Waits(t)
        /\ Top(t) \in Frame /\ tls[t] = NoOne
    BY <1>0, <1>1, AtTop, TopLemma DEF AccountOK
  <1>3. PICK i \in Ctxs : AllocOn(t, i, Unknown)
    BY DEF CmdReserve
  <1>4. RemoteKept /\ MessagesKept /\ Mine(t)'.remote = Unknown
    BY <1>2, <1>3, CtxAlloc
  <1>5. [Top(t) EXCEPT !.st = "send"] \in Frame
    <2>1. Top(t) \in CmdFrame
      BY <1>2 DEF Frame, FreshFrame, NestedFrame, EvtFrame, RspFrame
    <2>. QED
      BY <2>1 DEF Frame, CmdFrame
  <1>. QED
    BY <1>1, <1>2, <1>4, <1>5, NetSame, GotoStill

\* A refused command has not left.
LEMMA CmdSendFailsRoute ==
    ASSUME AInv, AInv', RInv, NEW t \in Threads, CmdSendFails(t)
    PROVE  RInv' /\ MessagesKept
  <1>0. Types
    BY DEF AInv
  <1>1. /\ At(t, "cmd", "send") /\ SetMine(t, Released(Mine(t))) /\ Pop(t)
        /\ tls' = IF Mine(t).use = 1 THEN [tls EXCEPT ![t] = NoOne] ELSE tls
        /\ net' = net /\ calls' = calls /\ stopAt' = stopAt
    BY DEF CmdSendFails, rpcVars, histVars
  <1>2. stack[t] # <<>> /\ Top(t).k = "cmd" /\ Top(t).st = "send" /\ ~Waits(t)
    BY <1>1, AtTop
  <1>3. Len(stack[t]) \in Uses(t)
    BY <1>0, <1>2, TopLemma DEF Uses, InUse
  <1>4. tls[t] # NoOne /\ Mine(t).reserved /\ Mine(t) \in Context /\ Mine(t).use # 0
    <2>1. tls[t] # NoOne
      BY <1>3 DEF AInv, AccountOK
    <2>. QED
      BY <1>0, <1>3, <2>1, MineLemma, UsesFinite DEF AInv, AccountOK
  <1>5. PICK c : c = Released(Mine(t))
    OBVIOUS
  <1>6. c \in Context /\ SetMine(t, c)
    BY <1>1, <1>4, <1>5, ReleasedUse
  <1>7. c.remote = Mine(t).remote /\ c.msg = Mine(t).msg
    BY <1>4, <1>5 DEF Released, Freed, Context
  <1>8. /\ tls'[t] = tls[t] \/ tls'[t] = NoOne
        /\ \A u \in Threads : u # t => tls'[u] = tls[u]
    BY <1>0, <1>1 DEF Types
  <1>9. RemoteKept /\ MessagesKept
    BY <1>4, <1>6, <1>7, <1>8, CtxMine
  <1>. QED
    BY <1>1, <1>2, <1>9, NetSame, PopStill

\* The thread that starts to wait keeps its context.
LEMMA MsgSleepRoute ==
    ASSUME AInv, AInv', RInv, NEW t \in Threads, MsgSleep(t)
    PROVE  RInv' /\ MessagesKept
  <1>1. /\ Waits(t) /\ SetMine(t, [Mine(t) EXCEPT !.owner = NoOne])
        /\ stack' = stack /\ tls' = tls /\ net' = net /\ calls' = calls /\ stopAt' = stopAt
    BY DEF MsgSleep, Waits, rpcVars, histVars
  <1>2. PICK c : c = [Mine(t) EXCEPT !.owner = NoOne]
    OBVIOUS
  <1>3. /\ c \in Context /\ c.remote = Mine(t).remote /\ c.msg = Mine(t).msg /\ SetMine(t, c)
        /\ tls[t] # NoOne
    BY <1>1, <1>2, WaitFacts DEF Context
  <1>4. RemoteKept /\ MessagesKept
    BY <1>1, <1>3, CtxMine
  <1>. QED
    BY <1>1, <1>4, NetSame, QuietStill

\* A decoded response is no longer in any place.
LEMMA RspDecodedRoute ==
    ASSUME AInv, AInv', RInv, NEW t \in Threads, RspDecoded(t)
    PROVE  RInv'
  <1>1. /\ At(t, "rsp", "decode") /\ Pop(t)
        /\ ctx' = ctx /\ tls' = tls /\ net' = net /\ calls' = calls /\ stopAt' = stopAt
    BY DEF RspDecoded, rpcVars, histVars
  <1>2. stack[t] # <<>> /\ ~Waits(t)
    BY <1>1, AtTop
  <1>. QED
    BY <1>1, <1>2, CtxSame, NetSame, PopStill

\* Acknowledgments belong to no call,
LEMMA EvtAckRoute ==
    ASSUME AInv, AInv', RInv, NEW t \in Threads, EvtAck(t)
    PROVE  RInv'
  <1>1. PICK x : x = [type |-> "ACK", src |-> Unknown, dst |-> Unknown, conv |-> 0, parent |-> 0]
    OBVIOUS
  <1>2. /\ At(t, "evt", "run") /\ Pop(t) /\ Send(PeerOf(t), x)
        /\ ctx' = ctx /\ tls' = tls /\ calls' = calls /\ stopAt' = stopAt
    BY <1>1 DEF EvtAck, rpcVars, histVars
  <1>3. stack[t] # <<>> /\ ~Waits(t)
    BY <1>2, AtTop
  <1>4. x \in Packet /\ ~Talks(x) /\ PeerOf(t) \in Peers
    BY <1>1, ThreadPeer DEF Packet, Talks, Asks, Answers, HANDLED
  <1>5. NetStill
    BY <1>2, <1>4, NetSent
  <1>. QED
    BY <1>2, <1>3, <1>5, CtxSame, PopStill

\* nor do events.
LEMMA EvtSendRoute ==
    ASSUME AInv, AInv', RInv, NEW t \in Threads, EvtSend(t)
    PROVE  RInv'
  <1>1. PICK x : x = [type |-> "EVT", src |-> Unknown, dst |-> Unknown, conv |-> 0, parent |-> 0]
    OBVIOUS
  <1>2. /\ Send(PeerOf(t), x)
        /\ stack' = stack /\ ctx' = ctx /\ tls' = tls /\ calls' = calls /\ stopAt' = stopAt
    BY <1>1 DEF EvtSend, rpcVars
  <1>3. x \in Packet /\ ~Talks(x) /\ PeerOf(t) \in Peers
    BY <1>1, ThreadPeer DEF Packet, Talks, Asks, Answers, HANDLED
  <1>4. NetStill
    BY <1>2, <1>3, NetSent
  <1>. QED
    BY <1>2, <1>4, CtxSame, QuietStill

\* receive_handler drops or admits a packet, or counts an acknowledgment.
LEMMA RxCheckRoute ==
    ASSUME AInv, AInv', RInv, NEW p \in Peers, RxCheck(p) \/ RxAck(p)
    PROVE  RInv'
  <1>1. /\ stack' = stack /\ ctx' = ctx /\ tls' = tls /\ calls' = calls /\ stopAt' = stopAt
        /\ net' = net \/ (net[p] # <<>> /\ Taken(p))
    BY DEF RxCheck, RxAck, RxNext, AInv, Types, rpcVars, histVars
  <1>2. NetStill
    BY <1>1, NetSame, NetTaken
  <1>. QED
    BY <1>1, <1>2, CtxSame, QuietStill

\* Without nrf_rpc_stop there is nothing to abort or to resume.
LEMMA StopRoute ==
    ASSUME AInv, AInv', RInv, MaxStops = 0, NEW p \in Peers,
           StopStart(p) \/ StopAbort(p) \/ StopEnd(p) \/ Resume(p)
    PROVE  RInv'
  <1>1. ~StopStart(p)
    <2>1. stops[p] \in Nat
      BY DEF AInv, Types
    <2>. QED
      BY <2>1 DEF StopStart
  <1>2. ~StopAbort(p)
    BY DEF StopAbort, RInv, NoStops
  <1>3. stack' = stack /\ ctx' = ctx /\ tls' = tls /\ calls' = calls /\ stopAt' = stopAt /\ net' = net
    BY <1>1, <1>2 DEF StopEnd, Resume, histVars
  <1>. QED
    BY <1>3, CtxSame, NetSame, QuietStill

\* The handler that thread t is about to run, or runs, moves on.
LEMMA ExecStill ==
    ASSUME AInv, AInv', RInv, NEW t \in Threads, stack[t] # <<>>, Top(t).k \in {"exec", "evt"},
           NEW st, Goto(t, st), st # "alloc", [Top(t) EXCEPT !.st = st] \in Frame,
           Top(t).k = "exec" => /\ Mine(t)'.remote = IF Top(t).st = "alloc" THEN Top(t).src
                                                     ELSE Mine(t).remote,
           RemoteKept, MessagesKept, NetStill, calls' = calls, stopAt' = stopAt
    PROVE  RInv'
  <1>0. Types
    BY DEF AInv
  <1>1. PICK f : f = [Top(t) EXCEPT !.st = st]
    OBVIOUS
  <1>2. Replaced(t, f) /\ f \in Frame
    BY <1>0, <1>1, GotoLemma
  <1>3. Top(t) \in FreshFrame \cup NestedFrame \cup EvtFrame
    BY <1>0, TopLemma DEF Frame, CmdFrame, RspFrame
  <1>4. f.k = Top(t).k /\ f.st = st
    BY <1>1, <1>3 DEF FreshFrame, NestedFrame, EvtFrame
  <1>c. f.k = "exec" => f.conv = Top(t).conv
    BY <1>1, <1>3, <1>4 DEF FreshFrame, NestedFrame, EvtFrame
  <1>5. PICK m : m = Len(stack[t])
    OBVIOUS
  <1>6. Frames(t, m, {f})
    BY <1>0, <1>2, <1>5, ReplaceFrames
  <1>7. Top(t)' = f /\ m \in 1..Len(stack[t]) /\ Top(t) = stack[t][m] /\ stack'[t][m] = f
        /\ m \in 1..Len(stack'[t])
    BY <1>0, <1>2, <1>5, TopLemma DEF Replaced, Top
  <1>8. SendKept(t)
    BY <1>4, <1>7 DEF SendKept, At
  <1>9. \A c : ~Calls(t, m, c)
    BY <1>7 DEF Calls
  <1>10. ASSUME f.k = "exec"
         PROVE  Runs(t, m, f.conv) /\ RunOK(t, m)'
    <2>1. Runs(t, m, f.conv)
      BY <1>4, <1>c, <1>7, <1>10 DEF Runs
    <2>2. RunOK(t, m)
      BY <1>4, <1>7, <1>10 DEF RInv, RouteOK
    <2>3. PICK u \in Threads, n \in Nat :
            /\ Calls(u, n, f.conv) /\ PeerOf(u) # PeerOf(t)
            /\ IF Top(t).st = "alloc" THEN Top(t).src = tls[u] ELSE Mine(t).remote = tls[u]
            /\ stack[u][n].parent = IF m = 1 THEN 0 ELSE stack[t][m - 1].conv
      BY <1>4, <1>c, <1>7, <1>10, <2>2 DEF RunOK
    <2>4. CallsKept(0) /\ f.conv \in Nat /\ f.conv # 0
      BY <1>6, <1>9, <2>3, CallsKeep, CallFacts
    <2>5. Calls(u, n, f.conv)' /\ tls'[u] = tls[u] /\ stack'[u][n].parent = stack[u][n].parent
      BY <2>3, <2>4 DEF CallsKept
    <2>6. Mine(t)'.remote = tls'[u]
      BY <1>4, <1>10, <2>3, <2>5
    <2>7. m # 1 => stack'[t][m - 1] = stack[t][m - 1]
      <3>. SUFFICES ASSUME m # 1
                    PROVE  stack'[t][m - 1] = stack[t][m - 1]
        OBVIOUS
      <3>1. m \in Nat \ {0}
        BY <1>6 DEF Frames
      <3>2. m - 1 \in 1..(Len(stack[t]) - 1)
        <4>1. m - 1 \in 1..(m - 1)
          BY <3>1
        <4>. QED
          BY <1>5, <4>1
      <3>. QED
        BY <1>2, <3>2 DEF Replaced
    <2>8. /\ stack'[t][m].conv = f.conv /\ stack'[t][m].st # "alloc"
          /\ stack'[u][n].parent = IF m = 1 THEN 0 ELSE stack'[t][m - 1].conv
      BY <1>4, <1>7, <2>3, <2>5, <2>7
    <2>9. RunOK(t, m)'
      BY <2>3, <2>5, <2>6, <2>8 DEF RunOK
    <2>. QED
      BY <2>1, <2>9
  <1>11. f.k # "cmd"
    BY <1>4
  <1>. QED
    BY <1>6, <1>8, <1>9, <1>10, <1>11, StillStep

\* cmd_ctx_alloc: the context of a handler gets the caller as its partner.
LEMMA ExecAllocRoute ==
    ASSUME AInv, AInv', RInv, NEW t \in Threads, ExecAlloc(t)
    PROVE  RInv' /\ MessagesKept
  <1>0. Types /\ StackOK /\ AccountOK
    BY DEF AInv
  <1>1. /\ At(t, "exec", "alloc") /\ Goto(t, "decode") /\ net' = net /\ calls' = calls
        /\ stopAt' = stopAt
    BY DEF ExecAlloc, rpcVars, histVars
  <1>2. PICK i \in Ctxs : AllocOn(t, i, Top(t).src)
    BY DEF ExecAlloc
  <1>3. stack[t] # <<>> /\ Top(t).k = "exec" /\ Top(t).st = "alloc" /\ Top(t) \in Frame
    BY <1>0, <1>1, AtTop, TopLemma
  <1>4. Top(t) \in FreshFrame
    BY <1>3 DEF Frame, CmdFrame, NestedFrame, EvtFrame, RspFrame
  <1>5. /\ [Top(t) EXCEPT !.st = "decode"] \in Frame /\ Top(t).fresh
        /\ Top(t).src \in Ctxs \cup {Unknown} /\ ~InUse(Top(t))
    BY <1>3, <1>4 DEF Frame, FreshFrame, InUse
  <1>6. tls[t] = NoOne
    <2>1. Len(stack[t]) \notin Uses(t)
      BY <1>0, <1>3, <1>5, TopLemma DEF Uses
    <2>2. Uses(t) = {}
      BY <1>0, <1>3, <1>5, <2>1, FreshAlone
    <2>. QED
      BY <1>0, <2>2 DEF AccountOK
  <1>7. RemoteKept /\ MessagesKept /\ Mine(t)'.remote = Top(t).src
    BY <1>2, <1>5, <1>6, CtxAlloc
  <1>. QED
    BY <1>1, <1>3, <1>5, <1>7, NetSame, ExecStill

\* nrf_rpc_decoding_done moves no call.
LEMMA ExecDecodeRoute ==
    ASSUME AInv, AInv', RInv, NEW t \in Threads, ExecDecode(t)
    PROVE  RInv'
  <1>0. Types
    BY DEF AInv
  <1>1. /\ At(t, "exec", "decode") \/ At(t, "evt", "decode")
        /\ Goto(t, "run") /\ net' = net /\ calls' = calls /\ stopAt' = stopAt
        /\ ctx' = ctx /\ tls' = tls
    BY DEF ExecDecode, rpcVars, histVars
  <1>2. /\ stack[t] # <<>> /\ Top(t).k \in {"exec", "evt"} /\ Top(t).st = "decode"
        /\ Top(t) \in Frame
    BY <1>0, <1>1, AtTop, TopLemma
  <1>3. [Top(t) EXCEPT !.st = "run"] \in Frame
    <2>1. Top(t) \in FreshFrame \cup NestedFrame \cup EvtFrame
      BY <1>2 DEF Frame, CmdFrame, RspFrame
    <2>2. CASE Top(t) \in FreshFrame
      BY <2>2 DEF Frame, FreshFrame
    <2>3. CASE Top(t) \in NestedFrame
      BY <2>3 DEF Frame, NestedFrame
    <2>4. CASE Top(t) \in EvtFrame
      BY <2>4 DEF Frame, EvtFrame
    <2>. QED
      BY <2>1, <2>2, <2>3, <2>4
  <1>4. Mine(t)'.remote = Mine(t).remote
    BY <1>1 DEF Mine
  <1>. QED
    BY <1>1, <1>2, <1>3, <1>4, NetSame, CtxSame, ExecStill

\* A call that is anywhere is waited for.
LEMMA TokenCalls ==
    ASSUME AInv, RInv, NEW c, Sent(c) \/ Held(c) \/ Running(c)
    PROVE  \E u \in Threads, n \in Nat : Calls(u, n, c)
  <1>0. RouteOK
    BY DEF RInv
  <1>1. CASE Sent(c)
    <2>1. PICK p \in Peers : \E x \in Packets(p) : Talks(x) /\ x.conv = c
      BY <1>1 DEF Sent, Packets
    <2>2. PICK x \in Packets(p) : Talks(x) /\ x.conv = c
      BY <2>1
    <2>. QED
      BY <1>0, <2>2 DEF RouteOK, PacketOK, Talks, AskOK, Waiting
  <1>2. CASE Held(c)
    <2>1. PICK p \in Peers : \E i \in Ctxs : Talks(ctx[p][i].msg) /\ ctx[p][i].msg.conv = c
      BY <1>2 DEF Held
    <2>2. PICK i \in Ctxs : Talks(ctx[p][i].msg) /\ ctx[p][i].msg.conv = c
      BY <2>1
    <2>3. PICK x : x = ctx[p][i].msg
      OBVIOUS
    <2>4. MessageOK(x, p, i) /\ Talks(x) /\ x.conv = c
      BY <1>0, <2>2, <2>3 DEF RouteOK
    <2>. QED
      BY <2>4 DEF MessageOK, Talks, AskOK, Waiting
  <1>3. CASE Running(c)
    <2>1. PICK u \in Threads, n \in Nat : Runs(u, n, c)
      BY <1>3 DEF Running
    <2>2. RunOK(u, n) /\ stack[u][n].conv = c
      BY <1>0, <2>1 DEF RouteOK, Runs
    <2>. QED
      BY <2>2 DEF RunOK
  <1>. QED
    BY <1>1, <1>2, <1>3

\* send: the call, which was in no place yet, is on its way; a nested one to
\* the context of the call whose handler issues it.
LEMMA CmdSendRoute ==
    ASSUME AInv, AInv', RInv, NEW t \in Threads, CmdSend(t)
    PROVE  RInv' /\ MessagesKept
  <1>0. Types /\ ConvOK /\ NetOK /\ HoldOK /\ PlaceOK /\ RouteOK /\ NoStops /\ PeerOf(t) \in Peers
    BY ThreadPeer DEF AInv, RInv
  <1>d. PICK f : f = [Top(t) EXCEPT !.st = "get", !.old = Mine(t).handler]
    OBVIOUS
  <1>e. PICK c : c = [Mine(t) EXCEPT !.handler = Top(t).h]
    OBVIOUS
  <1>f. PICK x : x = [type |-> "CMD", src |-> tls[t], dst |-> Mine(t).remote,
                      conv |-> Top(t).conv, parent |-> Top(t).parent]
    OBVIOUS
  <1>1. /\ At(t, "cmd", "send") /\ Send(PeerOf(t), x) /\ SetMine(t, c) /\ tls' = tls
        /\ stack' = [stack EXCEPT ![t][Len(stack[t])] = f] /\ calls' = calls /\ stopAt' = stopAt
    BY <1>d, <1>e, <1>f DEF CmdSend, rpcVars, histVars
  <1>m. PICK m : m = Len(stack[t])
    OBVIOUS
  <1>2. /\ stack[t] # <<>> /\ Top(t).k = "cmd" /\ Top(t).st = "send" /\ Top(t) \in Frame
        /\ m \in 1..Len(stack[t]) /\ Top(t) = stack[t][m] /\ m \in Nat \ {0}
    BY <1>0, <1>1, <1>m, AtTop, TopLemma
  <1>3. Top(t) \in CmdFrame
    BY <1>2 DEF Frame, FreshFrame, NestedFrame, EvtFrame, RspFrame
  <1>4. tls[t] # NoOne /\ tls[t] \in Ctxs /\ Mine(t) \in Context
    <2>1. tls[t] # NoOne
      BY <1>2, ContextHad DEF HasContext
    <2>. QED
      BY <1>0, <2>1, MineLemma
  <1>5. /\ f \in Frame /\ f.k = "cmd" /\ f.st = "get" /\ f.conv = Top(t).conv
        /\ f.parent = Top(t).parent
    BY <1>3, <1>4, <1>d DEF Frame, CmdFrame, Context
  <1>6. /\ x \in Packet /\ x.type = "CMD" /\ x.src = tls[t] /\ x.dst = Mine(t).remote
        /\ x.conv = Top(t).conv /\ x.parent = Top(t).parent
    BY <1>3, <1>4, <1>f DEF Packet, CmdFrame, Context
  <1>7. c \in Context /\ c.remote = Mine(t).remote /\ c.msg = Mine(t).msg
    BY <1>3, <1>4, <1>e DEF Context, CmdFrame
  <1>8. Replaced(t, f)
    BY <1>0, <1>1, <1>2, <1>5, ReplaceLemma
  <1>9. Frames(t, m, {f})
    BY <1>0, <1>2, <1>8, <1>m, ReplaceFrames
  <1>10. RemoteKept /\ MessagesKept
    BY <1>1, <1>4, <1>7, CtxMine
  <1>11. \A n : ~Calls(t, m, n)
    BY <1>2 DEF Calls
  <1>12. CallsKept(0) /\ ~Running(0)
    BY <1>9, <1>10, <1>11, CallsKeep, NoCallZero
  <1>13. x.conv \in Nat \ {0} /\ ~Sent(x.conv) /\ ~Held(x.conv) /\ ~Running(x.conv)
    <2>. SUFFICES ASSUME Sent(x.conv) \/ Held(x.conv) \/ Running(x.conv)
                  PROVE  FALSE
      BY <1>3, <1>6 DEF CmdFrame
    <2>1. PICK u \in Threads, n \in Nat : Calls(u, n, x.conv)
      BY TokenCalls
    <2>2. u = t /\ n = m
      BY <1>0, <1>2, <1>6, <2>1 DEF ConvOK, Calls
    <2>. QED
      BY <1>11, <2>1, <2>2
  <1>14. Talks(x) /\ Asks(x) /\ ~Answers(x)
    BY <1>6 DEF Talks, Asks, Answers, HANDLED
  <1>15. /\ NetOK' /\ \A e : Sent(e)' => Sent(e) \/ x.conv = e
         /\ \A q \in Peers : \A y : y \in Packets(q)' =>
                 y \in Packets(q) \/ (q = Other(PeerOf(t)) /\ y = x)
    BY <1>0, <1>1, <1>6, <1>13, SendStep
  <1>16. HoldOK' /\ \A e : Held(e)' => Held(e)
    BY <1>0, <1>10, HeldStep
  <1>17. \A e \in Nat : Running(e)' => Running(e)
    <2>1. \A e \in Nat : Running(e)' => Running(e) \/ \E g \in {f} : g.k = "exec" /\ g.conv = e
      BY <1>0, <1>9, RunningStep
    <2>. QED
      BY <1>5, <2>1
  <1>18. PlaceOK'
    BY <1>0, <1>13, <1>15, <1>16, <1>17 DEF PlaceOK
  <1>19. ConvOK'
    BY <1>0, <1>1, <1>2, <1>5, <1>9, ConvStep
  <1>20. AskOK(x, Other(PeerOf(t)))'
    <2>1. Calls(t, m, x.conv)' /\ tls'[t] = tls[t] /\ stack'[t][m] = f
      BY <1>1, <1>2, <1>5, <1>6, <1>8, <1>m DEF Calls, Replaced
    <2>2. Other(PeerOf(t)) # PeerOf(t)
      BY <1>0, TwoPeers
    <2>3. x.parent = 0 => x.dst = Unknown
      BY <1>0, <1>1, <1>6 DEF RouteOK
    <2>4. x.parent # 0 => Waiting(x.parent, Other(PeerOf(t)), x.dst)'
      <3>. SUFFICES ASSUME x.parent # 0
                    PROVE  Waiting(x.parent, Other(PeerOf(t)), x.dst)'
        OBVIOUS
      <3>1. PICK n : n = m - 1
        OBVIOUS
      <3>2. /\ n \in 1..Len(stack[t]) /\ stack[t][n].k = "exec" /\ stack[t][n].conv = x.parent
            /\ n < Len(stack[t])
        <4>1. m > 1 /\ stack[t][m - 1].k = "exec" /\ stack[t][m].parent = stack[t][m - 1].conv
          BY <1>2, <1>6 DEF AInv, StackOK
        <4>2. n \in 1..m /\ n < m
          BY <1>2, <3>1, <4>1
        <4>. QED
          BY <1>2, <1>6, <1>m, <3>1, <4>1, <4>2
      <3>3. stack[t][n].st = "run"
        BY <3>2 DEF AInv, StackOK
      <3>4. RunOK(t, n)
        BY <1>0, <3>2 DEF RouteOK
      <3>5. PICK u \in Threads, k \in Nat :
              Calls(u, k, x.parent) /\ PeerOf(u) # PeerOf(t) /\ Mine(t).remote = tls[u]
        BY <3>2, <3>3, <3>4 DEF RunOK
      <3>6. PeerOf(u) = Other(PeerOf(t))
        BY <1>0, <3>5, TwoPeers, ThreadPeer
      <3>7. Waiting(x.parent, Other(PeerOf(t)), x.dst)
        BY <1>6, <3>5, <3>6 DEF Waiting
      <3>. QED
        BY <1>12, <3>7, KeepWaiting
    <2>. QED
      BY <1>2, <1>5, <1>6, <2>1, <2>2, <2>3, <2>4 DEF AskOK
  <1>21. RouteOK'
    <2>1. \A p \in Peers : \A y : y \in Packets(p)' =>
             PacketOK(y, p)' \/ (y \in Packets(p) /\ (Talks(y) => y.conv # 0))
      <3>1. PacketOK(x, Other(PeerOf(t)))'
        BY <1>14, <1>20 DEF PacketOK
      <3>. QED
        BY <1>15, <3>1, OnePlace
    <2>2. \A p \in Peers : \A i \in Ctxs :
             \/ ctx'[p][i].msg = NoMsg
             \/ /\ ctx'[p][i].msg = ctx[p][i].msg
                /\ Talks(ctx[p][i].msg) => ctx[p][i].msg.conv # 0
      BY <1>10, OnePlace DEF MessagesKept
    <2>3. ASSUME NEW u \in Threads, NEW k \in 1..Len(stack'[u]), stack'[u][k].k = "exec"
          PROVE  RunKept(u, k)
      <3>1. ~(u = t /\ k = m)
        BY <1>5, <1>8, <1>m, <2>3 DEF Replaced
      <3>. QED
        BY <1>9, <1>10, <2>3, <3>1, RunsKeep
    <2>4. SendKept(t)
      BY <1>5, <1>8, <1>m DEF SendKept, At, Top, Replaced
    <2>5. \A u \in Threads : SendKept(u)
      BY <1>9, <1>10, <2>4, SendKeep
    <2>. QED
      BY <1>12, <2>1, <2>2, <2>3, <2>5, RouteStep DEF SendKept
  <1>22. NoStops'
    BY <1>0, <1>1 DEF NoStops
  <1>. QED
    BY <1>10, <1>15, <1>16, <1>18, <1>19, <1>21, <1>22 DEF RInv

\* The end of nrf_rpc_cmd_common in a thread that has found a message.
Returns(t) == Return(t, [Mine(t) EXCEPT !.owner = t])

\* It empties the message of the context.
LEMMA ReturnCtx ==
    ASSUME AInv, NEW t \in Threads, Waits(t), Returns(t)
    PROVE  RemoteKept /\ MessagesKept /\ ctx'[PeerOf(t)][tls[t]].msg = NoMsg
  <1>1. PICK d : d = [[Mine(t) EXCEPT !.owner = t] EXCEPT !.handler = Top(t).old, !.msg = NoMsg]
    OBVIOUS
  <1>2. /\ tls[t] # NoOne /\ tls[t] \in Ctxs /\ Mine(t) \in Context /\ Mine(t).reserved
        /\ Top(t).old \in BOOLEAN
        /\ Mine(t).use = Cardinality(Uses(t)) /\ Uses(t) # {} /\ PeerOf(t) \in Peers
    BY WaitFacts, ThreadPeer DEF CmdFrame
  <1>3. Mine(t).use # 0
    BY <1>2, UsesFinite DEF AInv
  <1>4. /\ d \in Context /\ d.reserved /\ d.use = Mine(t).use /\ d.remote = Mine(t).remote
        /\ d.msg = NoMsg
    BY <1>1, <1>2 DEF Context, Message
  <1>5. PICK c : c = Released(d)
    OBVIOUS
  <1>6. c \in Context
    BY <1>3, <1>4, <1>5, ReleasedUse
  <1>7. c.remote = Mine(t).remote /\ c.msg = NoMsg
    <2>1. CASE d.use = 1
      <3>1. PICK e : e = [d EXCEPT !.use = 0]
        OBVIOUS
      <3>2. e \in Context /\ e.remote = Mine(t).remote /\ e.msg = NoMsg
        BY <1>4, <3>1 DEF Context
      <3>3. c = [e EXCEPT !.reserved = FALSE, !.owner = NoOne]
        BY <1>5, <2>1, <3>1 DEF Released, Freed
      <3>. QED
        BY <3>2, <3>3 DEF Context
    <2>2. CASE d.use # 1
      <3>1. c = [d EXCEPT !.use = @ - 1]
        BY <1>5, <2>2 DEF Released
      <3>. QED
        BY <1>4, <3>1 DEF Context
    <2>. QED
      BY <2>1, <2>2
  <1>8. /\ SetMine(t, c)
        /\ tls'[t] = tls[t] \/ tls'[t] = NoOne
        /\ \A u \in Threads : u # t => tls'[u] = tls[u]
    BY <1>1, <1>5 DEF Returns, Return, AInv, Types
  <1>9. RemoteKept /\ MessagesKept
    BY <1>2, <1>6, <1>7, <1>8, CtxMine
  <1>10. ctx'[PeerOf(t)][tls[t]] = c
    BY <1>2, <1>6, <1>8, SetMineLemma DEF AInv
  <1>. QED
    BY <1>7, <1>9, <1>10

\* A call returns with its response.
LEMMA ReturnRoute ==
    ASSUME AInv, AInv', RInv, NEW t \in Threads, Waits(t), Answers(Mine(t).msg),
           Returns(t), NEW new, Frames(t, Len(stack[t]), new), \A f \in new : f.k = "rsp", SendKept(t),
           net' = net, calls' = calls, stopAt' = stopAt
    PROVE  RInv'
  <1>0. ConvOK /\ NetOK /\ HoldOK /\ PlaceOK /\ RouteOK /\ NoStops /\ PeerOf(t) \in Peers
    BY ThreadPeer DEF RInv
  <1>1. PICK c0 : c0 = Top(t).conv
    OBVIOUS
  <1>2. PICK m : m = Len(stack[t])
    OBVIOUS
  <1>3. /\ tls[t] \in Ctxs /\ Top(t) = stack[t][m] /\ Top(t).conv \in Nat
    BY <1>2, WaitFacts, TopLemma DEF AInv, CmdFrame
  <1>4. PICK x : x = Mine(t).msg
    OBVIOUS
  <1>5. x = ctx[PeerOf(t)][tls[t]].msg /\ Talks(x) /\ x.conv = c0
    BY <1>1, <1>4, Routed DEF RoutedToInitiator, Msg, Talks, Answers, Mine
  <1>6. Held(c0) /\ ~Sent(c0) /\ ~Running(c0)
    BY <1>0, <1>3, <1>5, OnePlace
  <1>7. RemoteKept /\ MessagesKept /\ ctx'[PeerOf(t)][tls[t]].msg = NoMsg
    BY ReturnCtx
  <1>8. \A c \in Nat : Calls(t, m, c) => c = c0
    BY <1>1, <1>3 DEF Calls
  <1>9. CallsKept(c0)
    BY <1>2, <1>7, <1>8, CallsKeep
  <1>10. HoldOK' /\ \A c : Held(c)' => Held(c)
    BY <1>0, <1>7, HeldStep
  <1>11. \A c \in Nat : Running(c)' => Running(c)
    <2>1. \A c \in Nat : Running(c)' => Running(c) \/ \E f \in new : f.k = "exec" /\ f.conv = c
      BY <1>0, RunningStep
    <2>. QED
      BY <2>1
  <1>12. NetStill
    BY NetSame
  <1>13. PlaceOK' /\ NetOK' /\ NoStops'
    BY <1>0, <1>10, <1>11, <1>12 DEF PlaceOK, NetStill, NoStops
  <1>14. ConvOK'
    BY <1>0, ConvStep
  <1>15. RouteOK'
    <2>1. \A p \in Peers : \A y : y \in Packets(p)' =>
             y \in Packets(p) /\ (Talks(y) => y.conv # c0)
      BY <1>6, OnePlace DEF Packets
    <2>2. \A p \in Peers : \A i \in Ctxs :
             \/ ctx'[p][i].msg = NoMsg
             \/ /\ ctx'[p][i].msg = ctx[p][i].msg
                /\ Talks(ctx[p][i].msg) => ctx[p][i].msg.conv # c0
      <3>. SUFFICES ASSUME NEW p \in Peers, NEW i \in Ctxs, ctx'[p][i].msg # NoMsg,
                           Talks(ctx[p][i].msg), ctx[p][i].msg.conv = c0
                    PROVE  FALSE
        BY <1>7 DEF MessagesKept
      <3>1. p = PeerOf(t) /\ i = tls[t]
        BY <1>0, <1>3, <1>5 DEF HoldOK
      <3>. QED
        BY <1>7, <3>1
    <2>3. ASSUME NEW u \in Threads, NEW k \in 1..Len(stack'[u]), stack'[u][k].k = "exec"
          PROVE  RunKept(u, k)
      <3>1. ~(u = t /\ k = m)
        <4>. SUFFICES ASSUME u = t, k = m
                      PROVE  FALSE
          OBVIOUS
        <4>1. stack'[u][k] \in new
          BY <1>2 DEF Frames
        <4>. QED
          BY <2>3, <4>1
      <3>. QED
        BY <1>2, <1>7, <2>3, <3>1, RunsKeep
    <2>4. \A u \in Threads : SendKept(u)
      BY <1>7, SendKeep
    <2>. QED
      BY <1>6, <1>9, <2>1, <2>2, <2>3, <2>4, RouteStep DEF SendKept
  <1>. QED
    BY <1>10, <1>13, <1>14, <1>15 DEF RInv

\* The call whose response has been found ends: nothing else refers to it.
LEMMA CmdReturnRoute ==
    ASSUME AInv, AInv', RInv, NEW t \in Threads, CmdReturn(t) \/ CmdResponse(t)
    PROVE  RInv' /\ MessagesKept
  <1>0. Types /\ StackOK
    BY DEF AInv
  <1>1. /\ Waits(t) /\ Returns(t)
        /\ net' = net /\ calls' = calls /\ stopAt' = stopAt
    BY DEF CmdReturn, CmdResponse, Returns, Got, Waits, rpcVars, histVars
  <1>2. /\ stack[t] # <<>> /\ Mine(t) \in Context /\ PeerOf(t) \in Peers /\ tls[t] \in Ctxs
        /\ Top(t).k = "cmd"
    BY <1>1, WaitFacts, ThreadPeer
  <1>3. Answers(Mine(t).msg)
    <2>1. PICK c : c = [Mine(t) EXCEPT !.owner = t]
      OBVIOUS
    <2>2. c.msg.type \in {"ABORT", HANDLED, "RSP"} /\ c.msg = Mine(t).msg
      BY <1>2, <2>1 DEF CmdReturn, CmdResponse, Context
    <2>3. MessageOK(Mine(t).msg, PeerOf(t), tls[t])
      BY <1>2 DEF RInv, RouteOK, Mine
    <2>4. Mine(t).msg # NoMsg
      BY <2>2 DEF NoMsg, HANDLED
    <2>5. Talks(Mine(t).msg)
      BY <2>3, <2>4 DEF MessageOK
    <2>. QED
      BY <2>2, <2>5 DEF Talks, Asks, Answers, HANDLED
  <1>4. MessagesKept
    BY <1>1, ReturnCtx
  <1>5. CASE Pop(t)
    <2>1. Popped(t)
      BY <1>0, <1>2, <1>5, PopLemma
    <2>2. Frames(t, Len(stack[t]), {})
      BY <1>0, <1>2, <2>1, PopFrames
    <2>3. SendKept(t)
      <3>1. stack'[t] # <<>> => Settled(Top(t)')
        BY <1>0, <1>2, <2>1, PopTop
      <3>. QED
        BY <3>1 DEF SendKept, At, Settled
    <2>. QED
      BY <1>1, <1>3, <1>4, <2>2, <2>3, ReturnRoute
  <1>6. CASE stack' = [stack EXCEPT ![t][Len(stack[t])] = [k |-> "rsp", st |-> "decode"]]
    <2>1. PICK f : f = [k |-> "rsp", st |-> "decode"]
      OBVIOUS
    <2>2. f \in Frame /\ f.k = "rsp"
      BY <2>1 DEF Frame, RspFrame
    <2>3. Replaced(t, f)
      BY <1>0, <1>2, <1>6, <2>1, <2>2, ReplaceLemma
    <2>4. Frames(t, Len(stack[t]), {f})
      BY <1>0, <1>2, <2>3, ReplaceFrames
    <2>5. SendKept(t)
      BY <2>2, <2>3 DEF SendKept, At, Top, Replaced
    <2>. QED
      <3>1. PICK new : new = {f}
        OBVIOUS
      <3>2. Frames(t, Len(stack[t]), new) /\ \A g \in new : g.k = "rsp"
        BY <2>2, <2>4, <3>1
      <3>. QED
        BY <1>1, <1>3, <1>4, <2>5, <3>2, ReturnRoute
  <1>. QED
    BY <1>5, <1>6 DEF CmdReturn, CmdResponse

\* The partner of a conversation does not change: the command x that a waiting
\* thread takes up comes from the context that it talks to.
LEMMA SamePartner ==
    ASSUME AInv, RInv, NEW t \in Threads, Waits(t), Asks(Mine(t).msg),
           NEW u \in Threads, NEW n \in Nat, Calls(u, n, Mine(t).msg.conv),
           stack[u][n].parent = Mine(t).msg.parent, Len(stack[t]) # 1,
           stack[t][Len(stack[t]) - 1].k = "exec"
    PROVE  Mine(t).remote = tls[u]
  <1>1. PICK m : m = Len(stack[t])
    OBVIOUS
  <1>2. PICK c : c = Top(t).conv
    OBVIOUS
  <1>3. /\ m \in Nat \ {0} /\ m \in 1..Len(stack[t]) /\ Top(t) = stack[t][m]
        /\ stack[t][m].k = "cmd" /\ stack[t][m].st = "get" /\ m - 1 \in 1..Len(stack[t])
        /\ stack[t] # <<>>
    <2>1. stack[t] # <<>> /\ Top(t).k = "cmd" /\ Top(t).st = "get"
      BY WaitFacts
    <2>2. m \in Nat \ {0} /\ m \in 1..Len(stack[t]) /\ Top(t) = stack[t][m]
      BY <1>1, <2>1, TopLemma DEF AInv
    <2>3. m - 1 \in 1..m
      <3>1. m # 1
        BY <1>1
      <3>2. m \in Nat \ {0}
        BY <2>2
      <3>. QED
        BY <3>1, <3>2
    <2>4. m - 1 \in 1..Len(stack[t])
      BY <1>1, <2>3
    <2>. QED
      BY <2>1, <2>2, <2>4
  <1>4. Calls(t, m, c) /\ c \in Nat \ {0}
    <2>1. Calls(t, m, c)
      BY <1>2, <1>3 DEF Calls
    <2>. QED
      BY <2>1, CallFacts
  <1>5. PICK e : e = stack[t][m - 1].conv
    OBVIOUS
  <1>6. stack[t][m].parent = e /\ Runs(t, m - 1, e) /\ e # 0 /\ stack[t][m - 1].st = "run"
    <2>1. stack[t][m].parent = e /\ Runs(t, m - 1, e)
      BY <1>1, <1>3, <1>5 DEF AInv, StackOK, Runs
    <2>2. e # 0
      BY <2>1, CallFacts
    <2>. QED
      BY <1>4, <2>1, <2>2, Layers
  <1>7. RunOK(t, m - 1)
    BY <1>1, <1>3 DEF RInv, RouteOK
  <1>8. PICK v \in Threads, l \in Nat : Calls(v, l, e) /\ Mine(t).remote = tls[v]
    BY <1>5, <1>6, <1>7 DEF RunOK
  <1>9. Mine(t).msg.parent = c
    BY <1>2, Routed DEF RoutedToInitiator, Msg, Asks
  <1>10. Runs(u, n - 1, c) /\ n > 1
    BY <1>4, <1>9, Layers
  <1>11. RunOK(u, n - 1)
    BY <1>10 DEF RInv, RouteOK, Runs
  <1>12. PICK w \in Threads, k \in Nat :
            /\ Calls(w, k, c)
            /\ stack[w][k].parent = IF n - 1 = 1 THEN 0 ELSE stack[u][n - 1 - 1].conv
    BY <1>10, <1>11 DEF RunOK, Runs
  <1>13. w = t /\ k = m
    BY <1>4, <1>12, CallUnique DEF RInv
  <1>14. n - 1 # 1 /\ stack[u][n - 1 - 1].conv = e
    BY <1>6, <1>12, <1>13
  <1>15. Calls(u, n - 1 - 1, e)
    BY <1>10, <1>14, Layers
  <1>16. u = v
    <2>1. PICK j : j = n - 1 - 1
      OBVIOUS
    <2>2. Calls(u, j, e) /\ Calls(v, l, e)
      BY <1>8, <1>15, <2>1
    <2>3. ConvOK
      BY DEF RInv
    <2>. QED
      BY <2>2, <2>3, CallUnique
  <1>. QED
    BY <1>8, <1>16

\* The thread that waits takes up the command of its callee: a message becomes
\* a handler, and the partner stays the same.
LEMMA CmdRecursiveRoute ==
    ASSUME AInv, AInv', RInv, NEW t \in Threads, CmdRecursive(t)
    PROVE  RInv' /\ MessagesKept
  <1>0. /\ Types /\ ConvOK /\ NetOK /\ HoldOK /\ PlaceOK /\ RouteOK /\ NoStops
        /\ PeerOf(t) \in Peers /\ Waits(t)
    BY ThreadPeer DEF AInv, RInv, CmdRecursive, Got, Waits
  <1>x. PICK x : x = Mine(t).msg
    OBVIOUS
  <1>c. PICK c : c = [[Mine(t) EXCEPT !.owner = t] EXCEPT !.remote = x.src, !.msg = NoMsg]
    OBVIOUS
  <1>f. PICK f : f = [k |-> "exec", st |-> "decode", conv |-> x.conv, fresh |-> FALSE]
    OBVIOUS
  <1>m. PICK m : m = Len(stack[t]) + 1
    OBVIOUS
  <1>1. /\ stack[t] # <<>> /\ Top(t).k = "cmd" /\ Top(t).st = "get" /\ tls[t] # NoOne
        /\ tls[t] \in Ctxs /\ Mine(t) \in Context
    BY <1>0, WaitFacts
  <1>2. /\ SetMine(t, c) /\ Push(t, f) /\ x.type = "CMD" /\ tls' = tls /\ net' = net
        /\ calls' = calls /\ stopAt' = stopAt
    BY <1>1, <1>x, <1>c, <1>f DEF CmdRecursive, Context, rpcVars, histVars
  <1>3. x.src \in Ctxs \cup {Unknown} /\ x.conv \in Nat \ {0}
    BY <1>1, <1>2, <1>x DEF Context, Message, Packet, HANDLED, NoMsg, ABORT
  <1>4. c \in Context /\ c.remote = x.src /\ c.msg = NoMsg
    BY <1>1, <1>3, <1>c DEF Context, Message
  <1>5. f \in Frame /\ f.k = "exec" /\ f.st = "decode" /\ f.conv = x.conv
    BY <1>3, <1>f DEF Frame, NestedFrame
  <1>6. Pushed(t, f)
    BY <1>0, <1>2, <1>5, PushLemma
  <1>7. Frames(t, m, {f})
    BY <1>0, <1>6, <1>m, PushFrames
  <1>8. /\ x = ctx[PeerOf(t)][tls[t]].msg /\ Talks(x) /\ Asks(x)
        /\ MessageOK(x, PeerOf(t), tls[t])
        /\ Held(x.conv) /\ ~Sent(x.conv) /\ ~Running(x.conv)
    <2>1. x = ctx[PeerOf(t)][tls[t]].msg /\ Talks(x) /\ Asks(x)
      BY <1>2, <1>x DEF Mine, Talks, Asks
    <2>. QED
      BY <1>0, <1>1, <2>1, OnePlace DEF RouteOK
  <1>9. x.parent = Top(t).conv
    BY <1>0, <1>2, <1>x, Routed DEF RoutedToInitiator, Msg
  <1>10. PICK u \in Threads, n \in Nat :
           /\ Calls(u, n, x.conv) /\ PeerOf(u) # PeerOf(t) /\ x.src = tls[u]
           /\ x.parent = stack[u][n].parent
    BY <1>8 DEF MessageOK, AskOK
  <1>11. \A p \in Peers : \A i \in Ctxs :
            ctx'[p][i] = IF p = PeerOf(t) /\ i = tls[t] THEN c ELSE ctx[p][i]
    BY <1>0, <1>1, <1>2, <1>4, SetMineLemma
  <1>12. MessagesKept
    BY <1>4, <1>11 DEF MessagesKept
  <1>13. ASSUME NEW v \in Threads, tls[v] # NoOne, v # t
         PROVE  Mine(v)' = Mine(v)
    <2>1. ~(PeerOf(v) = PeerOf(t) /\ tls[v] = tls[t])
      BY <1>13, ContextOne
    <2>2. PeerOf(v) \in Peers /\ tls[v] \in Ctxs
      BY <1>0, <1>13, ThreadPeer DEF Types
    <2>. QED
      BY <1>2, <1>11, <2>1, <2>2 DEF Mine
  <1>14. Mine(t)'.remote = x.src
    BY <1>0, <1>1, <1>2, <1>4, <1>11 DEF Mine
  <1>15. CallsKept(0) /\ ~Running(0)
    <2>1. CallsKept(0)
      <3>. SUFFICES ASSUME NEW v \in Threads, NEW l \in Nat, NEW e \in Nat, Calls(v, l, e)
                    PROVE  /\ Calls(v, l, e)' /\ tls'[v] = tls[v]
                           /\ stack'[v][l].parent = stack[v][l].parent
        BY DEF CallsKept
      <3>1. l \in 1..Len(stack[v]) /\ ~(v = t /\ l = m)
        BY <1>0, <1>m DEF Calls, Types
      <3>2. l \in 1..Len(stack'[v]) /\ stack'[v][l] = stack[v][l]
        BY <1>7, <3>1 DEF Frames
      <3>. QED
        BY <1>2, <3>2 DEF Calls
    <2>. QED
      BY <2>1, NoCallZero
  <1>16. HoldOK' /\ (\A e : Held(e)' => Held(e)) /\ ~Held(x.conv)'
    <2>1. HoldOK' /\ \A e : Held(e)' => Held(e)
      BY <1>0, <1>12, HeldStep
    <2>2. ~Held(x.conv)'
      <3>. SUFFICES ASSUME NEW p \in Peers, NEW i \in Ctxs, Talks(ctx'[p][i].msg),
                           ctx'[p][i].msg.conv = x.conv
                    PROVE  FALSE
        BY DEF Held
      <3>1. ~(p = PeerOf(t) /\ i = tls[t])
        BY <1>4, <1>11 DEF Talks, Asks, Answers, NoMsg, HANDLED
      <3>2. ctx'[p][i].msg = ctx[p][i].msg
        BY <1>11, <3>1
      <3>. QED
        BY <1>0, <1>1, <1>8, <3>1, <3>2 DEF HoldOK
    <2>. QED
      BY <2>1, <2>2
  <1>17. \A e \in Nat : Running(e)' => Running(e) \/ e = x.conv
    <2>1. \A e \in Nat : Running(e)' => Running(e) \/ \E g \in {f} : g.k = "exec" /\ g.conv = e
      BY <1>0, <1>7, RunningStep
    <2>. QED
      BY <1>5, <2>1
  <1>18. NetStill
    BY <1>2, NetSame
  <1>19. PlaceOK' /\ NetOK' /\ NoStops'
    BY <1>0, <1>2, <1>8, <1>16, <1>17, <1>18 DEF PlaceOK, NetStill, NoStops
  <1>20. ConvOK'
    BY <1>0, <1>2, <1>5, <1>7, <1>8, ConvStep
  <1>21. RunOK(t, m)'
    <2>1. Calls(u, n, x.conv)' /\ tls'[u] = tls[u] /\ stack'[u][n].parent = stack[u][n].parent
      BY <1>3, <1>10, <1>15 DEF CallsKept
    <2>2. /\ stack'[t][m] = f /\ m # 1 /\ m - 1 = Len(stack[t])
          /\ stack'[t][m - 1] = Top(t)
      <3>1. Len(stack[t]) \in Nat \ {0} /\ Top(t) = stack[t][Len(stack[t])]
        BY <1>0, <1>1, TopLemma
      <3>. QED
        BY <1>6, <1>m, <3>1 DEF Pushed
    <2>3. /\ stack'[t][m].conv = x.conv /\ stack'[t][m].st # "alloc"
          /\ stack'[u][n].parent = stack'[t][m - 1].conv
      BY <1>5, <1>9, <1>10, <2>1, <2>2
    <2>. QED
      BY <1>10, <1>14, <2>1, <2>2, <2>3 DEF RunOK
  <1>22. ASSUME NEW v \in Threads, NEW k \in 1..Len(stack'[v]), stack'[v][k].k = "exec",
                ~(v = t /\ k = m)
         PROVE  RunKept(v, k)
    <2>1. k \in 1..Len(stack[v]) /\ stack'[v][k] = stack[v][k]
      BY <1>7, <1>22 DEF Frames
    <2>2. k # 1 => stack'[v][k - 1].conv = stack[v][k - 1].conv
      <3>. SUFFICES ASSUME k # 1
                    PROVE  stack'[v][k - 1] = stack[v][k - 1]
        OBVIOUS
      <3>1. Len(stack[v]) \in Nat /\ k - 1 \in 1..Len(stack[v]) /\ ~(v = t /\ k - 1 = m)
        BY <1>0, <1>m, <2>1 DEF Types
      <3>. QED
        BY <1>7, <3>1 DEF Frames
    <2>3. stack[v][k].st # "alloc" => Mine(v)'.remote = Mine(v).remote
      <3>1. CASE v # t
        <4>1. stack[v][k].st # "alloc" => tls[v] # NoOne
          BY <1>22, <2>1, ContextHad DEF HasContext
        <4>. QED
          BY <1>13, <3>1, <4>1
      <3>2. CASE v = t
        <4>1. PICK l : l = Len(stack[t])
          OBVIOUS
        <4>2. /\ l \in Nat \ {0} /\ l \in 1..Len(stack[t]) /\ stack[t][l].k = "cmd"
              /\ k \in 1..l /\ stack[t][k].k = "exec"
          BY <1>0, <1>1, <1>22, <2>1, <3>2, <4>1, TopLemma
        <4>3. l # 1
          BY <4>2
        <4>4. stack[t][l - 1].k \in {"exec", "evt"} /\ l - 1 \in 1..Len(stack[t])
          <5>1. l > 1 /\ l - 1 \in 1..l
            BY <4>2, <4>3
          <5>. QED
            BY <4>1, <4>2, <5>1 DEF AInv, StackOK
        <4>5. stack[t][l - 1].k # "evt"
          <5>. SUFFICES ASSUME stack[t][l - 1].k = "evt"
                        PROVE  FALSE
            OBVIOUS
          <5>1. l - 1 = 1
            BY <4>4 DEF AInv, StackOK
          <5>2. k = 1 \/ k = l
            BY <4>2, <5>1
          <5>. QED
            BY <4>2, <5>1, <5>2
        <4>6. Asks(Mine(t).msg) /\ Calls(u, n, Mine(t).msg.conv)
              /\ stack[u][n].parent = Mine(t).msg.parent
          BY <1>8, <1>10, <1>x
        <4>7. Mine(t).remote = tls[u]
          BY <1>0, <4>1, <4>3, <4>4, <4>5, <4>6, SamePartner
        <4>. QED
          BY <1>10, <1>14, <3>2, <4>7
      <3>. QED
        BY <3>1, <3>2
    <2>. QED
      BY <2>1, <2>2, <2>3 DEF RunKept
  <1>23. ASSUME NEW v \in Threads
         PROVE  SendKept(v)
    <2>1. CASE v = t
      BY <1>5, <1>6, <2>1 DEF SendKept, At, Top, Pushed
    <2>2. CASE v # t
      <3>. SUFFICES ASSUME At(v, "cmd", "send")', Top(v)'.parent = 0
                    PROVE  Mine(v)'.remote = Unknown
        BY DEF SendKept
      <3>1. At(v, "cmd", "send") /\ Top(v).parent = 0
        BY <1>6, <2>2 DEF At, Top, Pushed
      <3>2. Mine(v).remote = Unknown
        BY <1>0, <3>1 DEF RouteOK
      <3>3. /\ Len(stack[v]) \in 1..Len(stack[v]) /\ stack[v][Len(stack[v])].k = "cmd"
            /\ stack[v][Len(stack[v])].st = "send"
        BY <1>0, <3>1, AtTop, TopLemma
      <3>4. tls[v] # NoOne
        BY <3>3, ContextHad DEF HasContext
      <3>. QED
        BY <1>13, <2>2, <3>2, <3>4
    <2>. QED
      BY <2>1, <2>2
  <1>24. RouteOK'
    <2>1. \A p \in Peers : \A y : y \in Packets(p)' =>
             y \in Packets(p) /\ (Talks(y) => y.conv # 0)
      BY <1>2, OnePlace DEF Packets
    <2>2. \A p \in Peers : \A i \in Ctxs :
             \/ ctx'[p][i].msg = NoMsg
             \/ /\ ctx'[p][i].msg = ctx[p][i].msg
                /\ Talks(ctx[p][i].msg) => ctx[p][i].msg.conv # 0
      BY <1>12, OnePlace DEF MessagesKept
    <2>3. \A v \in Threads : \A k \in 1..Len(stack'[v]) :
             stack'[v][k].k = "exec" => RunOK(v, k)' \/ RunKept(v, k)
      BY <1>21, <1>22
    <2>. QED
      BY <1>15, <1>23, <2>1, <2>2, <2>3, RouteStep DEF SendKept
  <1>. QED
    BY <1>12, <1>16, <1>19, <1>20, <1>24 DEF RInv

\* nrf_rpc_rsp: the handler's thread leaves, its answer is on its way.
LEMMA ExecRespondRoute ==
    ASSUME AInv, AInv', RInv, NEW t \in Threads, ExecRespond(t)
    PROVE  RInv' /\ MessagesKept
  <1>0. /\ Types /\ StackOK /\ ConvOK /\ NetOK /\ HoldOK /\ PlaceOK /\ RouteOK /\ NoStops
        /\ PeerOf(t) \in Peers
    BY ThreadPeer DEF AInv, RInv
  <1>f. PICK f : f = Top(t)
    OBVIOUS
  <1>m. PICK m : m = Len(stack[t])
    OBVIOUS
  <1>x. PICK x : x = [type |-> "RSP", src |-> Unknown, dst |-> Mine(t).remote,
                      conv |-> f.conv, parent |-> 0]
    OBVIOUS
  <1>1. /\ At(t, "exec", "run") /\ Send(PeerOf(t), x) /\ Pop(t) /\ calls' = calls
        /\ stopAt' = stopAt
    BY <1>f, <1>x DEF ExecRespond, rpcVars, histVars
  <1>2. /\ stack[t] # <<>> /\ f.k = "exec" /\ f.st = "run" /\ f \in Frame
        /\ m \in Nat \ {0} /\ m \in 1..Len(stack[t]) /\ f = stack[t][m]
    BY <1>0, <1>1, <1>f, <1>m, AtTop, TopLemma
  <1>3. f.conv \in Nat \ {0}
    BY <1>2 DEF Frame, CmdFrame, FreshFrame, NestedFrame, EvtFrame, RspFrame
  <1>4. tls[t] # NoOne /\ tls[t] \in Ctxs /\ Mine(t) \in Context
    <2>1. tls[t] # NoOne
      BY <1>2, ContextHad DEF HasContext
    <2>. QED
      BY <1>0, <2>1, MineLemma
  <1>5. /\ x \in Packet /\ x.type = "RSP" /\ x.dst = Mine(t).remote /\ x.conv = f.conv
        /\ Answers(x) /\ ~Asks(x) /\ Talks(x)
    BY <1>3, <1>4, <1>x DEF Packet, Context, Answers, Asks, Talks, HANDLED
  <1>6. Popped(t)
    BY <1>0, <1>1, <1>2, PopLemma
  <1>7. Frames(t, m, {})
    BY <1>0, <1>2, <1>6, <1>m, PopFrames
  <1>8. RemoteKept /\ MessagesKept
    <2>1. CASE UNCHANGED <<ctx, tls>>
      BY <2>1, CtxSame
    <2>2. CASE SetMine(t, Freed(Mine(t))) /\ tls' = [tls EXCEPT ![t] = NoOne]
      <3>1. PICK c : c = Freed(Mine(t))
        OBVIOUS
      <3>2. c \in Context /\ c.remote = Mine(t).remote /\ c.msg = Mine(t).msg
        BY <1>4, <3>1 DEF Freed, Context
      <3>3. tls'[t] = NoOne /\ \A u \in Threads : u # t => tls'[u] = tls[u]
        BY <1>0, <2>2 DEF Types
      <3>. QED
        BY <1>4, <2>2, <3>1, <3>2, <3>3, CtxMine
    <2>. QED
      BY <2>1, <2>2 DEF ExecRespond
  <1>9. \A n : ~Calls(t, m, n)
    BY <1>2 DEF Calls
  <1>10. CallsKept(0) /\ ~Running(0)
    BY <1>7, <1>8, <1>9, CallsKeep, NoCallZero
  <1>11. Runs(t, m, x.conv) /\ Running(x.conv)
    BY <1>2, <1>5 DEF Runs, Running
  <1>12. ~Sent(x.conv) /\ ~Held(x.conv)
    BY <1>0, <1>3, <1>5, <1>11 DEF PlaceOK
  <1>13. /\ NetOK' /\ \A e : Sent(e)' => Sent(e) \/ x.conv = e
         /\ \A q \in Peers : \A y : y \in Packets(q)' =>
                 y \in Packets(q) \/ (q = Other(PeerOf(t)) /\ y = x)
    BY <1>0, <1>1, <1>5, <1>12, SendStep
  <1>14. HoldOK' /\ \A e : Held(e)' => Held(e)
    BY <1>0, <1>8, HeldStep
  <1>15. (\A e \in Nat : Running(e)' => Running(e)) /\ ~Running(x.conv)'
    <2>1. PICK new : new = {}
      OBVIOUS
    <2>2. Frames(t, m, new)
      BY <1>7, <2>1
    <2>3. /\ \A e \in Nat : Running(e)' => Running(e) \/ \E g \in new : g.k = "exec" /\ g.conv = e
          /\ \A e \in Nat : Runs(t, m, e) /\ Running(e)' =>
                \E g \in new : g.k = "exec" /\ g.conv = e
      BY <1>0, <2>2, RunningStep
    <2>. QED
      BY <1>3, <1>5, <1>11, <2>1, <2>3
  <1>16. PlaceOK'
    BY <1>0, <1>12, <1>13, <1>14, <1>15 DEF PlaceOK
  <1>17. ConvOK'
    BY <1>0, <1>1, <1>7, ConvStep
  <1>18. Waiting(x.conv, Other(PeerOf(t)), x.dst)'
    <2>1. RunOK(t, m)
      BY <1>0, <1>2 DEF RouteOK
    <2>2. PICK u \in Threads, n \in Nat :
            Calls(u, n, f.conv) /\ PeerOf(u) # PeerOf(t) /\ Mine(t).remote = tls[u]
      BY <1>2, <2>1 DEF RunOK
    <2>3. PeerOf(u) = Other(PeerOf(t))
      BY <1>0, <2>2, TwoPeers, ThreadPeer
    <2>4. Waiting(x.conv, Other(PeerOf(t)), x.dst)
      BY <1>5, <2>2, <2>3 DEF Waiting
    <2>. QED
      BY <1>3, <1>5, <1>10, <2>4, KeepWaiting
  <1>19. RouteOK'
    <2>1. \A p \in Peers : \A y : y \in Packets(p)' =>
             PacketOK(y, p)' \/ (y \in Packets(p) /\ (Talks(y) => y.conv # 0))
      <3>1. PacketOK(x, Other(PeerOf(t)))'
        BY <1>5, <1>18 DEF PacketOK
      <3>. QED
        BY <1>13, <3>1, OnePlace
    <2>2. \A p \in Peers : \A i \in Ctxs :
             \/ ctx'[p][i].msg = NoMsg
             \/ /\ ctx'[p][i].msg = ctx[p][i].msg
                /\ Talks(ctx[p][i].msg) => ctx[p][i].msg.conv # 0
      BY <1>8, OnePlace DEF MessagesKept
    <2>3. ASSUME NEW u \in Threads, NEW k \in 1..Len(stack'[u]), stack'[u][k].k = "exec"
          PROVE  RunKept(u, k)
      <3>1. ~(u = t /\ k = m)
        BY <1>7 DEF Frames
      <3>. QED
        BY <1>7, <1>8, <2>3, <3>1, RunsKeep
    <2>4. SendKept(t)
      <3>1. stack'[t] # <<>> => Settled(Top(t)')
        BY <1>0, <1>2, <1>6, PopTop
      <3>. QED
        BY <3>1 DEF SendKept, At, Settled
    <2>5. \A u \in Threads : SendKept(u)
      BY <1>7, <1>8, <2>4, SendKeep
    <2>. QED
      BY <1>10, <2>1, <2>2, <2>3, <2>5, RouteStep DEF SendKept
  <1>20. NoStops'
    BY <1>0, <1>1 DEF NoStops
  <1>. QED
    BY <1>8, <1>13, <1>14, <1>16, <1>17, <1>19, <1>20 DEF RInv

\* nrf_rpc_os_thread_pool_send: an event, or a command that starts a
\* conversation, goes to an idle thread of the pool.
LEMMA RxPoolRoute ==
    ASSUME AInv, AInv', RInv, NEW p \in Peers, RxPool(p)
    PROVE  RInv'
  <1>0. Types /\ ConvOK /\ NetOK /\ HoldOK /\ PlaceOK /\ RouteOK /\ NoStops
    BY DEF AInv, RInv
  <1>x. PICK x : x = Head(net[p])
    OBVIOUS
  <1>f. PICK f : f = IF x.type = "EVT" THEN [k |-> "evt", st |-> "decode"]
                     ELSE [k |-> "exec", st |-> "alloc", conv |-> x.conv,
                           src |-> x.src, fresh |-> TRUE]
    OBVIOUS
  <1>1. PICK t \in PoolThreads[p] : stack[t] = <<>> /\ Push(t, f)
    BY <1>x, <1>f DEF RxPool
  <1>2. /\ net[p] # <<>> /\ Taken(p) /\ tls' = tls /\ ctx' = ctx /\ calls' = calls
        /\ stopAt' = stopAt
        /\ x.type = "EVT" \/ (x.type = "CMD" /\ x.dst = Unknown)
    BY <1>0, <1>x DEF RxPool, RxNext, Types, rpcVars, histVars
  <1>3. t \in Threads /\ PeerOf(t) = p
    BY <1>1, ThreadPeer
  <1>4. /\ NetOK' /\ x \in Packets(p) /\ x \in Packet /\ \A c : Sent(c)' => Sent(c)
        /\ Talks(x) => \A c : Sent(c)' => c # x.conv
        /\ \A q \in Peers : \A y : y \in Packets(q)' => y \in Packets(q)
    BY <1>0, <1>2, <1>x, TakenStep
  <1>5. f \in Frame
    BY <1>2, <1>4, <1>f DEF Frame, EvtFrame, FreshFrame, Packet
  <1>6. Pushed(t, f)
    BY <1>0, <1>1, <1>3, <1>5, PushLemma
  <1>7. Len(stack[t]) = 0 /\ Len(stack'[t]) = 1 /\ stack'[t][1] = f
    <2>1. Len(stack[t]) = 0
      BY <1>1
    <2>. QED
      BY <1>6, <2>1 DEF Pushed
  <1>8. PICK new : new = {f}
    OBVIOUS
  <1>9. Frames(t, 1, new)
    <2>1. Frames(t, Len(stack[t]) + 1, {f})
      BY <1>0, <1>3, <1>6, PushFrames
    <2>. QED
      BY <1>7, <1>8, <2>1
  <1>10. RemoteKept /\ MessagesKept
    BY <1>2, CtxSame
  <1>11. \A c : ~Calls(t, 1, c)
    BY <1>7 DEF Calls
  <1>12. SendKept(t)
    BY <1>f, <1>7 DEF SendKept, At, Top
  <1>13. CASE x.type = "EVT"
    <2>1. f.k = "evt"
      BY <1>f, <1>13
    <2>2. NetStill
      BY <1>2, NetTaken
    <2>3. \A g \in new : g.k # "cmd" /\ g.k # "exec"
      BY <1>8, <2>1
    <2>. QED
      BY <1>2, <1>3, <1>9, <1>10, <1>11, <1>12, <2>2, <2>3, StillStep
  <1>14. CASE x.type = "CMD" /\ x.dst = Unknown
    <2>1. /\ f.k = "exec" /\ f.st = "alloc" /\ f.conv = x.conv /\ f.src = x.src
          /\ Asks(x) /\ Talks(x)
      BY <1>f, <1>14 DEF Asks, Talks
    <2>2. /\ x.conv \in Nat \ {0} /\ ~Held(x.conv) /\ ~Running(x.conv) /\ AskOK(x, p)
      BY <1>0, <1>4, <2>1, OnePlace DEF RouteOK, PacketOK
    <2>3. PICK u \in Threads, n \in Nat :
            /\ Calls(u, n, x.conv) /\ PeerOf(u) # p /\ x.src = tls[u]
            /\ x.parent = stack[u][n].parent
            /\ IF x.parent = 0 THEN x.dst = Unknown ELSE Waiting(x.parent, p, x.dst)
      BY <2>2 DEF AskOK
    <2>4. x.parent = 0
      <3>. SUFFICES ASSUME Waiting(x.parent, p, Unknown)
                    PROVE  FALSE
        BY <1>14, <2>3
      <3>1. PICK v \in Threads, l \in Nat : Calls(v, l, x.parent) /\ tls[v] = Unknown
        BY DEF Waiting
      <3>2. tls[v] \in Ctxs
        BY <3>1, CallFacts
      <3>. QED
        BY <3>1, <3>2, PeersAssumption
    <2>5. CallsKept(0) /\ ~Running(0)
      BY <1>3, <1>9, <1>10, <1>11, CallsKeep, NoCallZero
    <2>6. RunOK(t, 1)'
      <3>1. Calls(u, n, x.conv)' /\ tls'[u] = tls[u] /\ stack'[u][n].parent = stack[u][n].parent
        BY <2>2, <2>3, <2>5 DEF CallsKept
      <3>. QED
        BY <1>3, <1>7, <2>1, <2>3, <2>4, <3>1 DEF RunOK
    <2>7. ConvOK'
      <3>1. \A g \in new : g.k = "exec" /\ ~Running(g.conv)
        BY <1>8, <2>1, <2>2
      <3>. QED
        BY <1>0, <1>2, <1>3, <1>9, <3>1, ConvStep
    <2>8. HoldOK' /\ \A e : Held(e)' => Held(e)
      BY <1>0, <1>10, HeldStep
    <2>9. \A e \in Nat : Running(e)' => Running(e) \/ e = x.conv
      <3>1. \A e \in Nat : Running(e)' => Running(e) \/ \E g \in new : g.k = "exec" /\ g.conv = e
        BY <1>0, <1>3, <1>9, RunningStep
      <3>. QED
        BY <1>8, <2>1, <3>1
    <2>10. PlaceOK' /\ NoStops'
      BY <1>0, <1>2, <1>4, <2>1, <2>2, <2>8, <2>9 DEF PlaceOK, NoStops
    <2>11. RouteOK'
      <3>1. \A q \in Peers : \A y : y \in Packets(q)' =>
               y \in Packets(q) /\ (Talks(y) => y.conv # 0)
        BY <1>4, OnePlace
      <3>2. \A q \in Peers : \A i \in Ctxs :
               \/ ctx'[q][i].msg = NoMsg
               \/ /\ ctx'[q][i].msg = ctx[q][i].msg
                  /\ Talks(ctx[q][i].msg) => ctx[q][i].msg.conv # 0
        BY <1>10, OnePlace DEF MessagesKept
      <3>3. ASSUME NEW v \in Threads, NEW k \in 1..Len(stack'[v]), stack'[v][k].k = "exec"
            PROVE  RunOK(v, k)' \/ RunKept(v, k)
        <4>1. CASE v = t /\ k = 1
          BY <2>6, <4>1
        <4>2. CASE ~(v = t /\ k = 1)
          BY <1>3, <1>9, <1>10, <3>3, <4>2, RunsKeep
        <4>. QED
          BY <4>1, <4>2
      <3>4. \A v \in Threads : SendKept(v)
        BY <1>3, <1>9, <1>10, <1>12, SendKeep
      <3>. QED
        BY <2>5, <3>1, <3>2, <3>3, <3>4, RouteStep DEF SendKept
    <2>. QED
      BY <1>4, <2>7, <2>8, <2>10, <2>11 DEF RInv
  <1>. QED
    BY <1>2, <1>13, <1>14

\* receive_handler puts y, the packet or the mark of a handled response, into
\* context i: the token of the call moves from the net to the context.
LEMMA DeliverRoute ==
    ASSUME AInv, AInv', RInv, NEW p \in Peers, net[p] # <<>>, Taken(p), NEW i \in Ctxs, NEW x,
           x = Head(net[p]), Talks(x), x.dst = i, NEW y \in Message, MsgPut(p, i, y),
           y = x \/ (Answers(x) /\ Answers(y) /\ ~Asks(y) /\ y.conv = x.conv),
           stack' = stack, tls' = tls, calls' = calls, stopAt' = stopAt
    PROVE  RInv'
  <1>0. Types /\ ConvOK /\ NetOK /\ HoldOK /\ PlaceOK /\ RouteOK /\ NoStops
    BY DEF AInv, RInv
  <1>1. /\ NetOK' /\ x \in Packets(p) /\ (\A c : Sent(c)' => Sent(c))
        /\ \A c : Sent(c)' => c # x.conv
        /\ \A q \in Peers : \A z : z \in Packets(q)' => z \in Packets(q)
    BY <1>0, TakenStep
  <1>2. x.conv \in Nat \ {0} /\ ~Held(x.conv) /\ ~Running(x.conv) /\ PacketOK(x, p)
    BY <1>0, <1>1, OnePlace DEF RouteOK
  <1>3. \A q \in Peers : \A j \in Ctxs :
           /\ ctx'[q][j].remote = ctx[q][j].remote
           /\ ctx'[q][j].msg = IF q = p /\ j = i THEN y ELSE ctx[q][j].msg
    BY <1>0, MsgSet
  <1>4. Talks(y) /\ y.conv = x.conv
    BY DEF Talks
  <1>5. \A v \in Threads : tls[v] # NoOne => Mine(v)'.remote = Mine(v).remote
    <2>1. \A v \in Threads : tls[v] # NoOne => tls[v] \in Ctxs /\ PeerOf(v) \in Peers
      BY <1>0, ThreadPeer DEF Types
    <2>. QED
      BY <1>3, <2>1 DEF Mine
  <1>6. CallsKept(0) /\ ~Running(0)
    <2>1. CallsKept(0)
      BY DEF CallsKept, Calls
    <2>. QED
      BY <2>1, NoCallZero
  <1>7. MessageOK(y, p, i)'
    <2>1. Asks(y) => AskOK(y, p)' /\ y.dst = i
      <3>. SUFFICES ASSUME Asks(y)
                    PROVE  AskOK(y, p)' /\ y.dst = i
        OBVIOUS
      <3>1. y = x
        OBVIOUS
      <3>2. AskOK(x, p) /\ x.conv # 0
        BY <1>2, <3>1 DEF PacketOK
      <3>. QED
        BY <1>6, <3>1, <3>2, KeepAsk
    <2>2. Answers(y) => Waiting(y.conv, p, i)'
      <3>. SUFFICES ASSUME Answers(y)
                    PROVE  Waiting(x.conv, p, i)'
        BY <1>4
      <3>1. Answers(x)
        OBVIOUS
      <3>2. Waiting(x.conv, p, i) /\ x.conv # 0
        BY <1>2, <3>1 DEF PacketOK
      <3>. QED
        BY <1>6, <3>2, KeepWaiting
    <2>. QED
      BY <1>4, <2>1, <2>2 DEF MessageOK
  <1>8. HoldOK' /\ \A c : Held(c)' => Held(c) \/ c = x.conv
    <2>1. \A q \in Peers : \A j \in Ctxs : Talks(ctx'[q][j].msg) =>
             \/ q = p /\ j = i /\ ctx'[q][j].msg.conv = x.conv
             \/ /\ ctx'[q][j].msg = ctx[q][j].msg /\ ctx[q][j].msg.conv # x.conv
      <3>. SUFFICES ASSUME NEW q \in Peers, NEW j \in Ctxs, Talks(ctx'[q][j].msg)
                    PROVE  \/ q = p /\ j = i /\ ctx'[q][j].msg.conv = x.conv
                           \/ /\ ctx'[q][j].msg = ctx[q][j].msg
                              /\ ctx[q][j].msg.conv # x.conv
        OBVIOUS
      <3>1. CASE q = p /\ j = i
        BY <1>3, <1>4, <3>1
      <3>2. CASE ~(q = p /\ j = i)
        <4>1. ctx'[q][j].msg = ctx[q][j].msg
          BY <1>3, <3>2
        <4>2. Talks(ctx[q][j].msg) => Held(ctx[q][j].msg.conv)
          BY DEF Held
        <4>. QED
          BY <1>2, <4>1, <4>2
      <3>. QED
        BY <3>1, <3>2
    <2>2. HoldOK'
      <3>. SUFFICES ASSUME NEW q \in Peers, NEW r \in Peers, NEW j \in Ctxs, NEW k \in Ctxs,
                           Talks(ctx'[q][j].msg), Talks(ctx'[r][k].msg),
                           ctx'[q][j].msg.conv = ctx'[r][k].msg.conv
                    PROVE  q = r /\ j = k
        BY DEF HoldOK
      <3>1. CASE q = p /\ j = i /\ r = p /\ k = i
        BY <3>1
      <3>2. CASE ~(q = p /\ j = i) /\ ~(r = p /\ k = i)
        <4>1. ctx'[q][j].msg = ctx[q][j].msg /\ ctx'[r][k].msg = ctx[r][k].msg
          BY <2>1, <3>2
        <4>. QED
          BY <1>0, <4>1 DEF HoldOK
      <3>3. CASE (q = p /\ j = i) # (r = p /\ k = i)
        <4>1. q = p /\ j = i => ctx'[q][j].msg.conv = x.conv /\ ctx'[r][k].msg.conv # x.conv
          BY <1>3, <1>4, <2>1, <3>3
        <4>2. r = p /\ k = i => ctx'[r][k].msg.conv = x.conv /\ ctx'[q][j].msg.conv # x.conv
          BY <1>3, <1>4, <2>1, <3>3
        <4>. QED
          BY <3>3, <4>1, <4>2
      <3>. QED
        BY <3>1, <3>2, <3>3
    <2>3. ASSUME NEW c, Held(c)'
          PROVE  Held(c) \/ c = x.conv
      <3>1. PICK q \in Peers, j \in Ctxs : Talks(ctx'[q][j].msg) /\ ctx'[q][j].msg.conv = c
        BY <2>3 DEF Held
      <3>2. CASE q = p /\ j = i
        BY <1>3, <1>4, <3>1, <3>2
      <3>3. CASE ctx'[q][j].msg = ctx[q][j].msg
        BY <3>1, <3>3 DEF Held
      <3>. QED
        BY <2>1, <3>1, <3>2, <3>3
    <2>. QED
      BY <2>2, <2>3
  <1>9. \A c : Running(c)' => Running(c)
    BY DEF Running, Runs
  <1>10. PlaceOK' /\ NoStops'
    BY <1>0, <1>1, <1>2, <1>8, <1>9 DEF PlaceOK, NoStops
  <1>11. ConvOK'
    BY <1>0 DEF ConvOK
  <1>12. RouteOK'
    <2>1. \A q \in Peers : \A z : z \in Packets(q)' =>
             z \in Packets(q) /\ (Talks(z) => z.conv # 0)
      BY <1>1, OnePlace
    <2>2. \A q \in Peers : \A j \in Ctxs :
             \/ MessageOK(ctx[q][j].msg, q, j)'
             \/ ctx'[q][j].msg = NoMsg
             \/ /\ ctx'[q][j].msg = ctx[q][j].msg
                /\ Talks(ctx[q][j].msg) => ctx[q][j].msg.conv # 0
      <3>. SUFFICES ASSUME NEW q \in Peers, NEW j \in Ctxs
                    PROVE  \/ MessageOK(ctx[q][j].msg, q, j)'
                           \/ /\ ctx'[q][j].msg = ctx[q][j].msg
                              /\ Talks(ctx[q][j].msg) => ctx[q][j].msg.conv # 0
        OBVIOUS
      <3>1. CASE q = p /\ j = i
        <4>1. ctx'[q][j].msg = y
          BY <1>3, <3>1
        <4>. QED
          BY <1>7, <3>1, <4>1
      <3>2. CASE ~(q = p /\ j = i)
        BY <1>3, <3>2, OnePlace
      <3>. QED
        BY <3>1, <3>2
    <2>3. ASSUME NEW v \in Threads, NEW k \in 1..Len(stack'[v]), stack'[v][k].k = "exec"
          PROVE  RunKept(v, k)
      BY <1>5, <2>3, ContextHad DEF HasContext, RunKept
    <2>4. ASSUME NEW v \in Threads
          PROVE  SendKept(v)
      <3>. SUFFICES ASSUME At(v, "cmd", "send")', Top(v)'.parent = 0
                    PROVE  Mine(v)'.remote = Unknown
        BY DEF SendKept
      <3>1. At(v, "cmd", "send") /\ Top(v).parent = 0
        BY DEF At, Top
      <3>2. Mine(v).remote = Unknown
        BY <1>0, <3>1 DEF RouteOK
      <3>3. /\ Len(stack[v]) \in 1..Len(stack[v]) /\ stack[v][Len(stack[v])].k = "cmd"
            /\ stack[v][Len(stack[v])].st = "send"
        BY <1>0, <3>1, AtTop, TopLemma
      <3>4. tls[v] # NoOne
        BY <3>3, ContextHad DEF HasContext
      <3>. QED
        BY <1>5, <3>2, <3>4
    <2>. QED
      BY <1>6, <2>1, <2>2, <2>3, <2>4, RouteStep DEF SendKept
  <1>. QED
    BY <1>1, <1>8, <1>10, <1>11, <1>12 DEF RInv

\* What receive_handler does with a packet of a conversation.
LEMMA RxContextCases ==
    ASSUME AInv, NEW p \in Peers, RxContext(p)
    PROVE  \E x \in Packet, i \in Ctxs :
             /\ x = Head(net[p]) /\ x.dst = i /\ Talks(x) /\ net[p] # <<>> /\ Taken(p)
             /\ stack' = stack /\ tls' = tls /\ calls' = calls /\ stopAt' = stopAt
             /\ \/ ctx' = ctx
                \/ \E y \in Message : /\ MsgPut(p, i, y)
                                      /\ \/ y = x
                                         \/ /\ Answers(x) /\ Answers(y) /\ ~Asks(y)
                                            /\ y.conv = x.conv
  <1>0. Types
    BY DEF AInv
  <1>x. PICK x : x = Head(net[p])
    OBVIOUS
  <1>1. /\ net[p] # <<>> /\ Taken(p) /\ stack' = stack /\ tls' = tls /\ calls' = calls
        /\ stopAt' = stopAt /\ x.type \in {"CMD", "RSP"} /\ x.dst # Unknown
    BY <1>0, <1>x DEF RxContext, RxNext, Types, rpcVars, histVars
  <1>2. x \in Packet
    BY <1>0, <1>1, <1>x, TakenLemma
  <1>y. PICK y : y = [type |-> HANDLED, conv |-> x.conv]
    OBVIOUS
  <1>3. /\ x.dst \in Ctxs /\ x \in Message /\ Talks(x)
        /\ y \in Message /\ y.conv = x.conv /\ Answers(y) /\ ~Asks(y)
    BY <1>1, <1>2, <1>y DEF Packet, Message, Talks, Asks, Answers, HANDLED
  <1>4. \/ ctx' = ctx
        \/ x.type = "RSP" /\ MsgPut(p, x.dst, y)
        \/ MsgPut(p, x.dst, x)
    BY <1>x, <1>y DEF RxContext, MsgPut
  <1>5. x.type = "RSP" => Answers(x)
    BY DEF Answers
  <1>. QED
    BY <1>x, <1>1, <1>2, <1>3, <1>4, <1>5

\* receive_handler drops a packet of a conversation, or passes it on.
LEMMA RxContextRoute ==
    ASSUME AInv, AInv', RInv, NEW p \in Peers, RxContext(p)
    PROVE  RInv'
  <1>1. PICK x \in Packet, i \in Ctxs :
             /\ x = Head(net[p]) /\ x.dst = i /\ Talks(x) /\ net[p] # <<>> /\ Taken(p)
             /\ stack' = stack /\ tls' = tls /\ calls' = calls /\ stopAt' = stopAt
             /\ \/ ctx' = ctx
                \/ \E y \in Message : /\ MsgPut(p, i, y)
                                      /\ \/ y = x
                                         \/ /\ Answers(x) /\ Answers(y) /\ ~Asks(y)
                                            /\ y.conv = x.conv
    BY RxContextCases
  <1>2. CASE ctx' = ctx
    BY <1>1, <1>2, CtxSame, NetTaken, QuietStill
  <1>3. CASE \E y \in Message : /\ MsgPut(p, i, y)
                                /\ \/ y = x
                                   \/ Answers(x) /\ Answers(y) /\ ~Asks(y) /\ y.conv = x.conv
    BY <1>1, <1>3, DeliverRoute
  <1>. QED
    BY <1>1, <1>2, <1>3

-----------------------------------------------------------------------------
(* The routes of all calls.                                                 *)

\* A receive timeout of nrf_rpc_os_msg_get and nrf_rpc_stop leave calls whose
\* answers are still on their way: neither happens.
Prompt == ~Timeouts /\ MaxStops = 0

\* Initially there is no call.
LEMMA InitRoute ==
    ASSUME Init
    PROVE  RInv
  <1>1. /\ \A t \in Threads : stack[t] = <<>> /\ Len(stack[t]) = 0
        /\ \A p \in Peers : net[p] = <<>> /\ Len(net[p]) = 0 /\ stopAt[p] = {}
        /\ \A p \in Peers : \A i \in Ctxs : ctx[p][i].msg = NoMsg
    BY DEF Init, FreeCtx
  <1>2. ~Talks(NoMsg)
    BY DEF Talks, Asks, Answers, NoMsg, HANDLED
  <1>3. ConvOK /\ NetOK /\ NoStops
    BY <1>1 DEF ConvOK, NetOK, NoStops
  <1>4. HoldOK
    BY <1>1, <1>2 DEF HoldOK
  <1>5. \A c : ~Sent(c) /\ ~Held(c) /\ ~Running(c)
    BY <1>1, <1>2 DEF Sent, Held, Running, Runs
  <1>6. PlaceOK
    BY <1>5 DEF PlaceOK
  <1>7. RouteOK
    <2>1. \A p \in Peers : Packets(p) = {}
      BY <1>1 DEF Packets
    <2>2. \A p \in Peers : \A i \in Ctxs : MessageOK(ctx[p][i].msg, p, i)
      BY <1>1, <1>2 DEF MessageOK, Talks
    <2>3. \A t \in Threads : ~At(t, "cmd", "send")
      BY <1>1 DEF At
    <2>. QED
      BY <1>1, <2>1, <2>2, <2>3 DEF RouteOK
  <1>. QED
    BY <1>3, <1>4, <1>6, <1>7 DEF RInv

\* Every step keeps the routes.
LEMMA NextRoute ==
    ASSUME Prompt, AInv, AInv', RInv, [Next]_vars
    PROVE  RInv'
  <1>1. ASSUME NEW t \in Threads,
               CmdStart(t) \/ EvtSend(t) \/ Step(t) \/ CmdTimeout(t) \/ CmdSendFails(t)
        PROVE  RInv'
    <2>1. ~CmdTimeout(t)
      BY DEF Prompt, CmdTimeout
    <2>. QED
      BY <1>1, <2>1, CmdStartRoute, EvtSendRoute, CmdLockRoute, CmdReserveRoute, CmdSendRoute,
         MsgSleepRoute, CmdReturnRoute, RspDecodedRoute, CmdRecursiveRoute, ExecAllocRoute,
         ExecDecodeRoute, ExecRespondRoute, EvtAckRoute, CmdSendFailsRoute DEF Step
  <1>2. ASSUME NEW p \in Peers, Receive(p) \/ StopStart(p) \/ Stop(p) \/ Resume(p)
        PROVE  RInv'
    BY <1>2, RxCheckRoute, RxPoolRoute, RxContextRoute, StopRoute DEF Receive, Stop, Prompt
  <1>3. CASE UNCHANGED vars
    <2>1. /\ stack' = stack /\ tls' = tls /\ ctx' = ctx /\ net' = net /\ calls' = calls
          /\ stopAt' = stopAt
      BY <1>3 DEF vars, rpcVars, histVars
    <2>. QED
      BY <2>1, CtxSame, NetSame, QuietStill
  <1>. QED
    BY <1>1, <1>2, <1>3 DEF Next, Finished

\* A message is taken, or stays; none is put in its place.
MessagesStay ==
    \A p \in Peers, i \in Ctxs :
        ctx[p][i].msg # NoMsg => ctx'[p][i].msg \in {ctx[p][i].msg, NoMsg}

\* Every step leaves a message that has not been taken in its place.
LEMMA NextMessage ==
    ASSUME Prompt, AInv, AInv', RInv, [Next]_vars
    PROVE  MessagesStay
  <1>1. MessagesKept => MessagesStay
    BY DEF MessagesKept, MessagesStay
  <1>2. ctx' = ctx => MessagesStay
    BY DEF MessagesStay
  <1>3. ASSUME NEW t \in Threads,
               CmdStart(t) \/ EvtSend(t) \/ Step(t) \/ CmdTimeout(t) \/ CmdSendFails(t)
        PROVE  MessagesStay
    <2>1. ~CmdTimeout(t)
      BY DEF Prompt, CmdTimeout
    <2>2. CmdStart(t) \/ EvtSend(t) \/ RspDecoded(t) \/ ExecDecode(t) \/ EvtAck(t) => ctx' = ctx
      BY DEF CmdStart, EvtSend, RspDecoded, ExecDecode, EvtAck
    <2>. QED
      BY <1>1, <1>2, <1>3, <2>1, <2>2, CmdLockRoute, CmdReserveRoute, CmdSendRoute,
         MsgSleepRoute, CmdReturnRoute, CmdRecursiveRoute, ExecAllocRoute, ExecRespondRoute,
         CmdSendFailsRoute DEF Step
  <1>4. ASSUME NEW p \in Peers, RxContext(p)
        PROVE  MessagesStay
    <2>1. PICK x \in Packet, i \in Ctxs :
             /\ x = Head(net[p]) /\ x.dst = i /\ Talks(x) /\ net[p] # <<>> /\ Taken(p)
             /\ ctx' = ctx \/ \E y \in Message : MsgPut(p, i, y)
      BY <1>4, RxContextCases
    <2>2. x \in Packets(p)
      BY <2>1, TakenStep DEF RInv
    <2>3. ctx[p][i].msg = NoMsg
      BY <2>1, <2>2, Deliverable
    <2>4. ASSUME NEW y \in Message, MsgPut(p, i, y)
          PROVE  MessagesStay
      <3>1. \A q \in Peers : \A j \in Ctxs :
               ctx'[q][j].msg = IF q = p /\ j = i THEN y ELSE ctx[q][j].msg
        BY <2>4, MsgSet DEF AInv
      <3>. QED
        BY <2>3, <3>1 DEF MessagesStay
    <2>. QED
      BY <1>2, <2>1, <2>4
  <1>5. ASSUME NEW p \in Peers, Receive(p) \/ StopStart(p) \/ Stop(p) \/ Resume(p)
        PROVE  MessagesStay
    <2>1. ~StopAbort(p)
      BY DEF StopAbort, RInv, NoStops
    <2>2. \/ RxCheck(p) \/ RxPool(p) \/ RxAck(p) \/ StopStart(p) \/ StopEnd(p) \/ Resume(p)
          => ctx' = ctx
      BY DEF RxCheck, RxPool, RxAck, StopStart, StopEnd, Resume
    <2>. QED
      BY <1>2, <1>4, <1>5, <2>1, <2>2 DEF Receive, Stop
  <1>6. CASE UNCHANGED vars
    BY <1>2, <1>6 DEF vars
  <1>. QED
    BY <1>3, <1>5, <1>6 DEF Next, Finished

\* The inductive invariant of the routes.
THEOREM RpcRoutes == Prompt => (Spec => []RInv)
  <1>1. ASSUME Prompt
        PROVE  Spec => []RInv
    <2>1. Init => RInv
      BY InitRoute
    <2>2. AInv /\ AInv' /\ RInv /\ [Next]_vars => RInv'
      BY <1>1, NextRoute
    <2>. QED
      BY <2>1, <2>2, RpcInvariant, PTL DEF Spec
  <1>. QED
    BY <1>1

\* protocol_specification.rst: packets of a conversation "are correctly routed
\* to the initiating thread".  With any number of threads, contexts and nested
\* calls on both sides, a response found by wait_for_response answers the call
\* that waits there, and a recursive command comes from the handler of that call.
THEOREM RpcRouted == Prompt => (Spec => []RoutedToInitiator)
  <1>1. ASSUME Prompt
        PROVE  Spec => []RoutedToInitiator
    <2>1. Spec => []RInv
      BY <1>1, RpcRoutes
    <2>2. AInv /\ RInv => RoutedToInitiator
      BY Routed
    <2>. QED
      BY <2>1, <2>2, RpcInvariant, PTL
  <1>. QED
    BY <1>1

\* cmd_ctx_free returns a context to the pool without a message that the next
\* command would take for its own; use_count stays exact and in range.
THEOREM RpcContexts == Prompt => (Spec => []ContextsConsistent)
  <1>1. ASSUME Prompt
        PROVE  Spec => []ContextsConsistent
    <2>1. Spec => []RInv
      BY <1>1, RpcRoutes
    <2>2. AInv /\ RInv => FreeSlotEmpty
      BY FreeEmpty
    <2>3. TypeOK /\ ContextAccounting /\ FreeSlotEmpty => ContextsConsistent
      BY DEF ContextsConsistent
    <2>. QED
      BY <2>1, <2>2, <2>3, RpcInvariant, RpcTypes, RpcAccounting, PTL
  <1>. QED
    BY <1>1

\* nrf_rpc_os_tmpl.h, nrf_rpc_os_msg_set: "nRF RPC is passing one message at a
\* time, so there is no need to do FIFO here".  receive_handler never puts a
\* message over one that the waiting thread has not taken.
THEOREM RpcOneMessage == Prompt => (Spec => OneMessageAtATime)
  <1>1. ASSUME Prompt
        PROVE  Spec => OneMessageAtATime
    <2>1. Spec => []RInv
      BY <1>1, RpcRoutes
    <2>2. AInv /\ AInv' /\ RInv /\ [Next]_vars => [MessagesStay]_vars
      BY <1>1, NextMessage
    <2>3. Spec => [][MessagesStay]_vars
      BY <2>1, <2>2, RpcInvariant, PTL DEF Spec
    <2>. QED
      BY <2>3 DEF OneMessageAtATime, MessagesStay
  <1>. QED
    BY <1>1
=============================================================================
