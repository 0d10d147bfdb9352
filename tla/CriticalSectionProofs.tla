----------------------- MODULE CriticalSectionProofs -----------------------
(***************************************************************************)
(* Mutual exclusion of the driver's critical section, for any set of       *)
(* client contexts, any priorities and any nesting depth, provided no      *)
(* RADIO event fires in the window that LateIrq describes.                 *)
(***************************************************************************)
EXTENDS CriticalSection, TLAPS

\* A context has a program counter exactly while it is on the stack of
\* preempted contexts, and the stack is strictly ordered by priority.
StackOK ==
    /\ \A c \in Ctx : c \in active <=> pc[c] # "off"
    /\ \A c, d \in active : c # d => Prio[c] # Prio[d]
    /\ \A c \in Ctx : pc[c] = "forced" => c \in {Radio, LpTimer}
    /\ \A c \in Ctx : pc[c] \in {"event", "deliver"} => c = Rsch

\* All open sections belong to one active context, and a handler that is about
\* to enter by force is preempted by that owner.
OwnersOK ==
    /\ cnt = Len(owners)
    /\ \A i \in 1..Len(owners) : owners[i] \in active
    /\ \A i, j \in 1..Len(owners) : owners[i] = owners[j]
    /\ \A c \in {Radio, LpTimer} : pc[c] = "forced" =>
           \A i \in 1..Len(owners) : Prio[owners[i]] < Prio[c]

\* The permission to nest belongs to the context that owns the section.  As
\* long as no callback's request has notified in turn, at most one
\* notification runs and the permission is in force exactly while it does.
NestOK ==
    /\ \A i \in notifying : i \in 1..Len(owners)
    /\ allowed # NONE => notifying # {} /\ allowed = Prio[owners[1]]
    /\ ~renotified =>
          /\ \A i, j \in notifying : i = j
          /\ notifying # {} => allowed # NONE
          /\ ~failed

\* What the open section hides from the other interrupts.
MaskOK ==
    /\ lptimerCs <=> cnt > 0
    /\ unmasked => cnt > 0
    /\ cnt > 0 /\ notified /\ radioIrq =>
           unmasked \/ (pc[Rsch] = "deliver" /\ ~approved)

\* Where a scheduler event that the core does not know of yet can be.
EventOK ==
    /\ approved # notified => pending \/ pc[Rsch] \in {"event", "deliver"}
    /\ pending => cnt > 0
    /\ \A c \in Ctx : pc[c] = "pend" => Len(owners) = 1 /\ owners[1] = c
    /\ pc[Rsch] = "deliver" => Len(owners) > 0 /\ owners[1] = Rsch
    /\ cnt = 0 /\ pc[Rsch] # "event" => (approved => radioIrq)

IInv == TypeOK /\ StackOK /\ OwnersOK /\ NestOK /\ MaskOK /\ EventOK

-----------------------------------------------------------------------------

\* The initial state, before any context has begun, satisfies the invariant.
LEMMA InitIInv == Init => IInv
  <1> SUFFICES ASSUME Init PROVE IInv
    OBVIOUS
  <1>1. TypeOK
    <2>1. owners \in Seq(Ctx) /\ cnt \in Nat /\ allowed = NONE
      BY DEF Init
    <2>2. /\ pc \in [Ctx -> {"off", "run", "forced", "pend", "event", "deliver"}]
          /\ notifying \subseteq Nat
      BY DEF Init
    <2> QED
      BY <2>1, <2>2 DEF Init, TypeOK
  <1>2. StackOK /\ OwnersOK
    BY DEF Init, StackOK, OwnersOK, Ctx
  <1>3. NestOK
    BY DEF Init, NestOK
  <1>4. MaskOK
    <2>1. ~(cnt > 0) /\ lptimerCs = FALSE /\ unmasked = FALSE
      BY DEF Init
    <2> QED
      BY <2>1 DEF MaskOK
  <1>5. EventOK
    BY DEF Init, EventOK, Ctx
  <1> QED
    BY <1>1, <1>2, <1>3, <1>4, <1>5 DEF IInv

\* Two contexts that run are one: priorities are totally ordered.
LEMMA OneRuns ==
    ASSUME NEW c \in Ctx, NEW d \in Ctx, TypeOK, Running(c), d \in active
    PROVE  c = d \/ Prio[c] < Prio[d]
  BY DEF Running

\* The section's owner is the running context whenever that context holds a
\* section at all; nobody else's name is on any of them.
LEMMA OwnerRuns ==
    ASSUME IInv, NEW c \in Ctx, Running(c), Holds(c)
    PROVE  \A i \in 1..Len(owners) : owners[i] = c
  BY DEF IInv, TypeOK, OwnersOK, Holds

\* A handler that is about to enter by force and runs finds no open section.
LEMMA ForcedFindsFree ==
    ASSUME IInv, NEW c \in {Radio, LpTimer}, InPc(c, "forced")
    PROVE  Len(owners) = 0
  <1>1. c \in Ctx
    BY DEF Ctx
  <1>2. \A i \in 1..Len(owners) : owners[i] \in active /\ Prio[owners[i]] < Prio[c]
    BY DEF IInv, OwnersOK, InPc
  <1>3. \A i \in 1..Len(owners) : owners[i] \in Ctx
    BY DEF IInv, TypeOK
  <1>4. \A d \in active \ {c} : Prio[c] < Prio[d]
    BY DEF InPc, Running
  <1>5. \A i \in 1..Len(owners) : FALSE
    BY <1>1, <1>2, <1>3, <1>4, PrioAssumption
  <1> QED
    BY <1>5 DEF IInv, TypeOK

\* A request that is granted the section owns it already, or finds it free.
LEMMA EnterKeepsOwner ==
    ASSUME IInv, NEW c \in Ctx, Running(c), MayEnter(c, FALSE)
    PROVE  \A i \in 1..Len(owners) : owners[i] = c
  <1>1. CASE cnt = 0
    BY <1>1 DEF IInv, OwnersOK, TypeOK
  <1>2. CASE allowed = Prio[c]
    <2>1. allowed # NONE
      BY <1>2, PrioAssumption DEF NONE
    <2>2. PICK d \in Ctx : Len(owners) > 0 /\ owners[1] = d
      <3>1. PICK i \in notifying : i \in 1..Len(owners)
        BY <2>1 DEF IInv, NestOK
      <3> QED
        BY <3>1 DEF IInv, TypeOK
    <2>3. Len(owners) > 0 /\ owners[1] = d /\ allowed = Prio[d]
      BY <2>1, <2>2 DEF IInv, NestOK, TypeOK
    <2>4. d \in active
      BY <2>3 DEF IInv, OwnersOK, TypeOK
    <2>5. c = d
      BY <1>2, <2>3, <2>4 DEF IInv, StackOK, Running
    <2> QED
      BY <2>3, <2>5 DEF IInv, OwnersOK, TypeOK
  <1> QED
    BY <1>1, <1>2 DEF MayEnter

\* What is left of a stack of sections when the innermost one is closed.
LEMMA FrontFacts ==
    ASSUME NEW S, NEW s \in Seq(S), Len(s) > 0
    PROVE  /\ SubSeq(s, 1, Len(s) - 1) \in Seq(S)
           /\ Len(SubSeq(s, 1, Len(s) - 1)) = Len(s) - 1
           /\ \A i \in 1..(Len(s) - 1) : SubSeq(s, 1, Len(s) - 1)[i] = s[i]
  <1> DEFINE n == Len(s) - 1
  <1>1. n \in 0..Len(s)
    OBVIOUS
  <1> HIDE DEF n
  <1>2. SubSeq(s, 1, n) = [i \in 1..n |-> s[i]]
    BY <1>1
  <1>3. n \in Nat /\ \A i \in 1..n : s[i] \in S
    BY <1>1
  <1>4. Len(SubSeq(s, 1, n)) = n /\ SubSeq(s, 1, n) \in Seq(S)
    BY <1>2, <1>3
  <1> QED
    BY <1>2, <1>3, <1>4 DEF n

\* The granted branch of critical_section_enter is well typed.
LEMMA EnteredTypes ==
    ASSUME TypeOK, NEW c \in Ctx, Entered(c)
    PROVE  /\ owners' \in Seq(Ctx) /\ cnt' \in Nat /\ Len(owners') = Len(owners) + 1
           /\ radioIrq' \in BOOLEAN /\ lptimerCs' \in BOOLEAN
  <1>1. owners' \in Seq(Ctx) /\ cnt' \in Nat /\ Len(owners') = Len(owners) + 1
    BY DEF TypeOK, Entered
  <1>2. radioIrq' \in BOOLEAN
    BY Zenon DEF TypeOK, Entered
  <1>3. lptimerCs' \in BOOLEAN
    BY Zenon DEF TypeOK, Entered
  <1> QED
    BY <1>1, <1>2, <1>3

\* A new section is nested inside the notifications in progress.
LEMMA EnteredNest ==
    ASSUME IInv, NEW c \in Ctx, Entered(c)
    PROVE  NestOK'
  <1>1. /\ owners \in Seq(Ctx) /\ Len(owners') = Len(owners) + 1
        /\ \A i \in 1..Len(owners) : i \in 1..Len(owners') /\ owners'[i] = owners[i]
    BY DEF IInv, TypeOK, Entered
  <1>2. /\ notifying' = notifying /\ allowed' = allowed
        /\ failed' = failed /\ renotified' = renotified
    BY DEF Entered
  <1>3. \A i \in notifying : i \in 1..Len(owners')
    BY <1>1 DEF IInv, NestOK
  <1>4. notifying # {} => owners'[1] = owners[1]
    <2> SUFFICES ASSUME NEW i \in notifying PROVE owners'[1] = owners[1]
      OBVIOUS
    <2>1. i \in 1..Len(owners)
      BY DEF IInv, NestOK
    <2>2. 1 \in 1..Len(owners)
      BY <1>1, <2>1
    <2> QED
      BY <1>1, <2>2
  <1> QED
    BY <1>2, <1>3, <1>4 DEF IInv, NestOK

\* A granted request keeps the invariant.
LEMMA EnterStep ==
    ASSUME IInv, NEW c \in Ctx, Enter(c)
    PROVE  IInv'
  <1> USE PrioAssumption, RolesAssumption, RschAssumption
  <1>0. \A i \in 1..Len(owners) : owners[i] = c
    BY EnterKeepsOwner DEF Enter, InPc
  <1>1. TypeOK'
    BY EnteredTypes DEF IInv, TypeOK, Enter, Entered, rschVars
  <1>2. StackOK'
    BY DEF IInv, TypeOK, StackOK, OwnersOK, NestOK, MaskOK, EventOK, Enter,
         Entered, Running, InPc, Goto, Ctx, csVars, maskVars, rschVars
  <1>3. OwnersOK'
    BY <1>0 DEF IInv, TypeOK, StackOK, OwnersOK, NestOK, MaskOK, EventOK,
         Enter, Entered, Running, InPc, Goto, Ctx, csVars, maskVars, rschVars
  <1>4. NestOK'
    BY EnteredNest DEF Enter
  <1>5. MaskOK'
    BY DEF IInv, TypeOK, StackOK, OwnersOK, NestOK, MaskOK, EventOK, Enter,
         Entered, Running, InPc, Goto, Ctx, csVars, maskVars, rschVars
  <1>6. EventOK'
    BY <1>0 DEF IInv, TypeOK, StackOK, OwnersOK, NestOK, MaskOK, EventOK,
         Enter, Entered, Running, InPc, Goto, Ctx, csVars, maskVars, rschVars
  <1> QED
    BY <1>1, <1>2, <1>3, <1>4, <1>5, <1>6 DEF IInv

\* An entry by force keeps it: the section was free.
LEMMA ForcefullyEnterStep ==
    ASSUME IInv, NEW c \in Ctx, ForcefullyEnter(c)
    PROVE  IInv'
  <1> USE PrioAssumption, RolesAssumption, RschAssumption
  <1>0. Len(owners) = 0
    BY ForcedFindsFree DEF ForcefullyEnter, InPc, IInv, StackOK
  <1>1. TypeOK'
    BY EnteredTypes DEF IInv, TypeOK, ForcefullyEnter, Entered, Goto, rschVars
  <1>2. StackOK'
    BY DEF IInv, TypeOK, StackOK, OwnersOK, NestOK, MaskOK, EventOK,
         ForcefullyEnter, Entered, Running, InPc, Goto, Ctx, csVars, maskVars,
         rschVars
  <1>3. OwnersOK'
    BY <1>0 DEF IInv, TypeOK, StackOK, OwnersOK, NestOK, MaskOK, EventOK,
         ForcefullyEnter, Entered, Running, InPc, Goto, Ctx, csVars, maskVars,
         rschVars
  <1>4. NestOK'
    BY EnteredNest DEF ForcefullyEnter
  <1>5. MaskOK'
    BY <1>0 DEF IInv, TypeOK, StackOK, OwnersOK, NestOK, MaskOK, EventOK,
         ForcefullyEnter, Entered, Running, InPc, Goto, Ctx, csVars, maskVars,
         rschVars
  <1>6. EventOK'
    BY <1>0 DEF IInv, TypeOK, StackOK, OwnersOK, NestOK, MaskOK, EventOK,
         ForcefullyEnter, Entered, Running, InPc, Goto, Ctx, csVars, maskVars,
         rschVars
  <1> QED
    BY <1>1, <1>2, <1>3, <1>4, <1>5, <1>6 DEF IInv

\* Leaving a section keeps it; the last exit restores both masks.
LEMMA ExitStep ==
    ASSUME IInv, NEW c \in Ctx, Exit(c)
    PROVE  IInv'
  <1> USE PrioAssumption, RolesAssumption, RschAssumption
  <1>0. \A i \in 1..Len(owners) : owners[i] = c
    BY OwnerRuns DEF Exit, MayExit, InPc
  <1>1. TypeOK'
    <2>1. owners' \in Seq(Ctx) /\ cnt' \in Nat
      BY DEF IInv, TypeOK, OwnersOK, Exit, MayExit, Holds
    <2>2. radioIrq' \in BOOLEAN /\ lptimerCs' \in BOOLEAN
      BY Zenon DEF IInv, TypeOK, Exit
    <2>3. unmasked' \in BOOLEAN
      BY DEF IInv, TypeOK, Exit
    <2> QED
      BY <2>1, <2>2, <2>3 DEF IInv, TypeOK, Exit, rschVars
  <1>2. StackOK'
    BY DEF IInv, TypeOK, StackOK, OwnersOK, NestOK, MaskOK, EventOK, Exit,
         MayExit, MustProcess, Holds, Running, InPc, Goto, Ctx, csVars,
         maskVars, rschVars
  <1>3. OwnersOK'
    <2>1. Len(owners') = Len(owners) - 1 /\ Len(owners) > 0
      <3>1. owners \in Seq(Ctx) /\ Len(owners) > 0
        BY DEF IInv, TypeOK, Exit, MayExit, Holds
      <3>2. owners' = SubSeq(owners, 1, Len(owners) - 1)
        BY DEF Exit
      <3> QED
        BY <3>1, <3>2, FrontFacts
    <2>2. \A i \in 1..Len(owners') : owners'[i] = owners[i]
      BY <2>1 DEF IInv, TypeOK, Exit
    <2>3. \A i \in 1..Len(owners') : owners'[i] = c
      BY <1>0, <2>1, <2>2 DEF IInv, TypeOK
    <2>4. cnt' = Len(owners')
      BY <2>1 DEF IInv, OwnersOK, Exit
    <2>5. \A i \in 1..Len(owners') : i \in 1..Len(owners)
      BY <2>1 DEF IInv, TypeOK
    <2>6. pc' = pc /\ active' = active
      BY DEF Exit
    <2>7. \A i \in 1..Len(owners') : owners'[i] \in active'
      BY <2>2, <2>5, <2>6 DEF IInv, OwnersOK
    <2>8. \A d \in {Radio, LpTimer} : pc'[d] = "forced" =>
              \A i \in 1..Len(owners') : Prio[owners'[i]] < Prio[d]
      BY <2>2, <2>5, <2>6 DEF IInv, OwnersOK
    <2> QED
      BY <2>3, <2>4, <2>7, <2>8 DEF OwnersOK
  <1>4. NestOK'
    <2>1. /\ owners \in Seq(Ctx) /\ Len(owners) > 0
          /\ Len(owners') = Len(owners) - 1
          /\ \A i \in 1..Len(owners') : owners'[i] = owners[i]
      <3>1. owners \in Seq(Ctx) /\ Len(owners) > 0
        BY DEF IInv, TypeOK, Exit, MayExit, Holds
      <3>2. owners' = SubSeq(owners, 1, Len(owners) - 1)
        BY DEF Exit
      <3> QED
        BY <3>1, <3>2, FrontFacts
    <2>2. \A i \in notifying : i \in 1..Len(owners')
      <3> SUFFICES ASSUME NEW i \in notifying PROVE i \in 1..Len(owners')
        OBVIOUS
      <3>1. i \in 1..Len(owners) /\ i # Len(owners)
        BY DEF IInv, NestOK, Exit, MayExit
      <3> QED
        BY <2>1, <3>1
    <2>3. allowed # NONE => allowed = Prio[owners'[1]]
      <3> SUFFICES ASSUME allowed # NONE PROVE allowed = Prio[owners'[1]]
        OBVIOUS
      <3>1. PICK i \in notifying : TRUE
        BY DEF IInv, NestOK
      <3>2. 1 \in 1..Len(owners')
        BY <2>1, <2>2, <3>1
      <3> QED
        BY <2>1, <3>2 DEF IInv, NestOK
    <2>4. cnt' # 0 => failed' = failed /\ renotified' = renotified
      BY DEF IInv, TypeOK, Exit
    <2>5. cnt' = 0 => notifying = {} /\ ~failed'
      <3> SUFFICES ASSUME cnt' = 0 PROVE notifying = {} /\ ~failed'
        OBVIOUS
      <3>1. Len(owners') = 0
        BY <2>1 DEF IInv, OwnersOK, Exit
      <3>2. notifying = {}
        BY <2>2, <3>1
      <3>3. ~failed'
        BY Zenon DEF Exit
      <3> QED
        BY <3>2, <3>3
    <2>6. allowed' = allowed /\ notifying' = notifying
      BY DEF Exit
    <2> QED
      BY <2>2, <2>3, <2>4, <2>5, <2>6 DEF IInv, NestOK
  <1>5. MaskOK'
    BY DEF IInv, TypeOK, StackOK, OwnersOK, NestOK, MaskOK, EventOK, Exit,
         MayExit, MustProcess, Holds, Running, InPc, Goto, Ctx, csVars,
         maskVars, rschVars
  <1>6. EventOK'
    BY <1>0 DEF IInv, TypeOK, StackOK, OwnersOK, NestOK, MaskOK, EventOK,
         Exit, MayExit, MustProcess, Holds, Running, InPc, Goto, Ctx, csVars,
         maskVars, rschVars
  <1> QED
    BY <1>1, <1>2, <1>3, <1>4, <1>5, <1>6 DEF IInv

\* Turning to the pending event keeps it.
LEMMA FindsPendingStep ==
    ASSUME IInv, NEW c \in Ctx, ExitFindsPending(c)
    PROVE  IInv'
  <1> USE PrioAssumption, RolesAssumption, RschAssumption
  <1>1. TypeOK'
    BY DEF IInv, TypeOK, StackOK, OwnersOK, NestOK, MaskOK, EventOK,
         ExitFindsPending, MayExit, MustProcess, Holds, Running, InPc, Goto,
         Ctx, csVars, maskVars, rschVars
  <1>2. StackOK'
    BY DEF IInv, TypeOK, StackOK, OwnersOK, NestOK, MaskOK, EventOK,
         ExitFindsPending, MayExit, MustProcess, Holds, Running, InPc, Goto,
         Ctx, csVars, maskVars, rschVars
  <1>3. OwnersOK'
    BY DEF IInv, TypeOK, StackOK, OwnersOK, NestOK, MaskOK, EventOK,
         ExitFindsPending, MayExit, MustProcess, Holds, Running, InPc, Goto,
         Ctx, csVars, maskVars, rschVars
  <1>4. NestOK'
    BY DEF IInv, TypeOK, StackOK, OwnersOK, NestOK, MaskOK, EventOK,
         ExitFindsPending, MayExit, MustProcess, Holds, Running, InPc, Goto,
         Ctx, csVars, maskVars, rschVars
  <1>5. MaskOK'
    BY DEF IInv, TypeOK, StackOK, OwnersOK, NestOK, MaskOK, EventOK,
         ExitFindsPending, MayExit, MustProcess, Holds, Running, InPc, Goto,
         Ctx, csVars, maskVars, rschVars
  <1>6. EventOK'
    BY DEF IInv, TypeOK, StackOK, OwnersOK, NestOK, MaskOK, EventOK,
         ExitFindsPending, MayExit, MustProcess, Holds, Running, InPc, Goto,
         Ctx, csVars, maskVars, rschVars
  <1> QED
    BY <1>1, <1>2, <1>3, <1>4, <1>5, <1>6 DEF IInv

\* Processing the pending event keeps it.
LEMMA ProcessStep ==
    ASSUME IInv, NEW c \in Ctx, ProcessPending(c)
    PROVE  IInv'
  <1> USE PrioAssumption, RolesAssumption, RschAssumption
  <1>1. TypeOK'
    BY DEF IInv, TypeOK, StackOK, OwnersOK, NestOK, MaskOK, EventOK,
         ProcessPending, PrioChanged, Running, InPc, Goto, Ctx, csVars,
         maskVars, rschVars
  <1>2. StackOK'
    BY DEF IInv, TypeOK, StackOK, OwnersOK, NestOK, MaskOK, EventOK,
         ProcessPending, PrioChanged, Running, InPc, Goto, Ctx, csVars,
         maskVars, rschVars
  <1>3. OwnersOK'
    BY DEF IInv, TypeOK, StackOK, OwnersOK, NestOK, MaskOK, EventOK,
         ProcessPending, PrioChanged, Running, InPc, Goto, Ctx, csVars,
         maskVars, rschVars
  <1>4. NestOK'
    BY DEF IInv, TypeOK, StackOK, OwnersOK, NestOK, MaskOK, EventOK,
         ProcessPending, PrioChanged, Running, InPc, Goto, Ctx, csVars,
         maskVars, rschVars
  <1>5. MaskOK'
    BY DEF IInv, TypeOK, StackOK, OwnersOK, NestOK, MaskOK, EventOK,
         ProcessPending, PrioChanged, Running, InPc, Goto, Ctx, csVars,
         maskVars, rschVars
  <1>6. EventOK'
    BY DEF IInv, TypeOK, StackOK, OwnersOK, NestOK, MaskOK, EventOK,
         ProcessPending, PrioChanged, Running, InPc, Goto, Ctx, csVars,
         maskVars, rschVars
  <1> QED
    BY <1>1, <1>2, <1>3, <1>4, <1>5, <1>6 DEF IInv

\* Allowing nested sections keeps it.
LEMMA AllowStep ==
    ASSUME IInv, NEW c \in Ctx, NestingAllow(c)
    PROVE  IInv'
  <1> USE PrioAssumption, RolesAssumption, RschAssumption
  <1>0. \A i \in 1..Len(owners) : owners[i] = c
    BY OwnerRuns DEF NestingAllow, InPc
  <1>1. TypeOK'
    BY DEF IInv, TypeOK, StackOK, OwnersOK, NestOK, MaskOK, EventOK,
         NestingAllow, Notifying, Holds, Running, InPc, Goto, Ctx, csVars, maskVars,
         rschVars
  <1>2. StackOK'
    BY DEF IInv, TypeOK, StackOK, OwnersOK, NestOK, MaskOK, EventOK,
         NestingAllow, Notifying, Holds, Running, InPc, Goto, Ctx, csVars, maskVars,
         rschVars
  <1>3. OwnersOK'
    BY DEF IInv, TypeOK, StackOK, OwnersOK, NestOK, MaskOK, EventOK,
         NestingAllow, Notifying, Holds, Running, InPc, Goto, Ctx, csVars, maskVars,
         rschVars
  <1>4. NestOK'
    <2>1. owners \in Seq(Ctx) /\ Len(owners) \in 1..Len(owners) /\ 1 \in 1..Len(owners)
      BY DEF IInv, TypeOK, NestingAllow, Holds
    <2>2. owners' = owners /\ allowed' = Prio[owners[1]]
      BY <1>0, <2>1 DEF NestingAllow
    <2>3. notifying' = notifying \cup {Len(owners)}
      BY DEF NestingAllow
    <2>4. ~renotified' => ~renotified /\ notifying = {}
      <3>1. Notifying(c) <=> notifying # {}
        BY <1>0 DEF IInv, NestOK, Notifying
      <3> QED
        BY <3>1 DEF NestingAllow, IInv, TypeOK
    <2>5. ~renotified' => ~failed'
      <3>1. ~(cnt < 1)
        BY <2>1 DEF IInv, OwnersOK
      <3>2. ~renotified' => allowed = NONE /\ ~failed
        BY <2>4 DEF IInv, NestOK
      <3> QED
        BY <3>1, <3>2, Zenon DEF NestingAllow
    <2>6. allowed' # NONE
      BY <2>2, <2>1 DEF IInv, TypeOK, NONE
    <2> QED
      BY <2>1, <2>2, <2>3, <2>4, <2>5, <2>6 DEF IInv, NestOK
  <1>5. MaskOK'
    BY DEF IInv, TypeOK, StackOK, OwnersOK, NestOK, MaskOK, EventOK,
         NestingAllow, Notifying, Holds, Running, InPc, Goto, Ctx, csVars, maskVars,
         rschVars
  <1>6. EventOK'
    BY DEF IInv, TypeOK, StackOK, OwnersOK, NestOK, MaskOK, EventOK,
         NestingAllow, Notifying, Holds, Running, InPc, Goto, Ctx, csVars, maskVars,
         rschVars
  <1> QED
    BY <1>1, <1>2, <1>3, <1>4, <1>5, <1>6 DEF IInv

\* Denying nested sections keeps it.
LEMMA DenyStep ==
    ASSUME IInv, NEW c \in Ctx, NestingDeny(c)
    PROVE  IInv'
  <1> USE PrioAssumption, RolesAssumption, RschAssumption
  <1>1. TypeOK'
    BY DEF IInv, TypeOK, StackOK, OwnersOK, NestOK, MaskOK, EventOK,
         NestingDeny, Denies, Holds, Running, InPc, Goto, Ctx, csVars, maskVars, rschVars
  <1>2. StackOK'
    BY DEF IInv, TypeOK, StackOK, OwnersOK, NestOK, MaskOK, EventOK,
         NestingDeny, Denies, Holds, Running, InPc, Goto, Ctx, csVars, maskVars, rschVars
  <1>3. OwnersOK'
    BY DEF IInv, TypeOK, StackOK, OwnersOK, NestOK, MaskOK, EventOK,
         NestingDeny, Denies, Holds, Running, InPc, Goto, Ctx, csVars, maskVars, rschVars
  <1>4. NestOK'
    <2>1. /\ allowed' = NONE /\ notifying' = notifying \ {Len(owners)}
          /\ owners' = owners /\ renotified' = renotified
          /\ Len(owners) \in notifying
      BY DEF NestingDeny, Denies
    <2>2. ~renotified => notifying' = {} /\ ~failed'
      <3>1. ~renotified => allowed # NONE /\ \A i, j \in notifying : i = j
        BY <2>1 DEF IInv, NestOK
      <3>2. ~(cnt < 1)
        BY <2>1 DEF IInv, NestOK, TypeOK, OwnersOK
      <3> QED
        BY <2>1, <3>1, <3>2 DEF NestingDeny, Denies, IInv, NestOK, TypeOK
    <2> QED
      BY <2>1, <2>2 DEF IInv, NestOK
  <1>5. MaskOK'
    BY DEF IInv, TypeOK, StackOK, OwnersOK, NestOK, MaskOK, EventOK,
         NestingDeny, Denies, Holds, Running, InPc, Goto, Ctx, csVars, maskVars, rschVars
  <1>6. EventOK'
    BY DEF IInv, TypeOK, StackOK, OwnersOK, NestOK, MaskOK, EventOK,
         NestingDeny, Denies, Holds, Running, InPc, Goto, Ctx, csVars, maskVars, rschVars
  <1> QED
    BY <1>1, <1>2, <1>3, <1>4, <1>5, <1>6 DEF IInv

\* Offering a scheduler event keeps it, granted or not.
LEMMA OfferStep ==
    ASSUME IInv, RschOffer
    PROVE  IInv'
  <1> USE PrioAssumption, RolesAssumption, RschAssumption
  <1>0. MayEnter(Rsch, FALSE) => \A i \in 1..Len(owners) : owners[i] = Rsch
    BY EnterKeepsOwner DEF RschOffer, InPc, Ctx
  <1>1. CASE MayEnter(Rsch, FALSE) /\ Entered(Rsch) /\ Goto(Rsch, "deliver")
               /\ UNCHANGED pending
    <2>1. TypeOK'
      BY <1>1, EnteredTypes DEF IInv, TypeOK, RschOffer, Entered, Goto, Ctx
    <2>2. StackOK'
      BY <1>0, <1>1 DEF IInv, TypeOK, StackOK, OwnersOK, NestOK, MaskOK, EventOK,
         RschOffer, Entered, MayEnter, Running, InPc, Goto, Ctx, csVars, maskVars, rschVars
    <2>3. OwnersOK'
      BY <1>0, <1>1 DEF IInv, TypeOK, StackOK, OwnersOK, NestOK, MaskOK, EventOK,
         RschOffer, Entered, MayEnter, Running, InPc, Goto, Ctx, csVars, maskVars, rschVars
    <2>4. NestOK'
      BY <1>1, EnteredNest DEF Ctx
    <2>5. MaskOK'
      BY <1>0, <1>1 DEF IInv, TypeOK, StackOK, OwnersOK, NestOK, MaskOK, EventOK,
         RschOffer, Entered, MayEnter, Running, InPc, Goto, Ctx, csVars, maskVars, rschVars
    <2>6. EventOK'
      BY <1>0, <1>1 DEF IInv, TypeOK, StackOK, OwnersOK, NestOK, MaskOK, EventOK,
         RschOffer, Entered, MayEnter, Running, InPc, Goto, Ctx, csVars, maskVars, rschVars
    <2> QED
      BY <2>1, <2>2, <2>3, <2>4, <2>5, <2>6 DEF IInv
  <1>2. CASE ~MayEnter(Rsch, FALSE) /\ pending' = TRUE /\ Goto(Rsch, "run")
               /\ UNCHANGED <<csVars, maskVars>>
    <2>1. TypeOK'
      BY <1>2 DEF IInv, TypeOK, RschOffer, Goto, csVars, maskVars
    <2>2. StackOK'
      BY <1>2 DEF IInv, TypeOK, StackOK, OwnersOK, NestOK, MaskOK, EventOK,
         RschOffer, MayEnter, Running, InPc, Goto, Ctx, csVars, maskVars, rschVars
    <2>3. OwnersOK'
      BY <1>2 DEF IInv, TypeOK, StackOK, OwnersOK, NestOK, MaskOK, EventOK,
         RschOffer, MayEnter, Running, InPc, Goto, Ctx, csVars, maskVars, rschVars
    <2>4. NestOK'
      BY <1>2 DEF IInv, TypeOK, StackOK, OwnersOK, NestOK, MaskOK, EventOK,
         RschOffer, MayEnter, Running, InPc, Goto, Ctx, csVars, maskVars, rschVars
    <2>5. MaskOK'
      BY <1>2 DEF IInv, TypeOK, StackOK, OwnersOK, NestOK, MaskOK, EventOK,
         RschOffer, MayEnter, Running, InPc, Goto, Ctx, csVars, maskVars, rschVars
    <2>6. EventOK'
      BY <1>2 DEF IInv, TypeOK, StackOK, OwnersOK, NestOK, MaskOK, EventOK,
         RschOffer, MayEnter, Running, InPc, Goto, Ctx, csVars, maskVars, rschVars
    <2> QED
      BY <2>1, <2>2, <2>3, <2>4, <2>5, <2>6 DEF IInv
  <1> QED
    BY <1>1, <1>2 DEF RschOffer

\* Delivering a scheduler event keeps it.
LEMMA DeliverStep ==
    ASSUME IInv, RschDeliver
    PROVE  IInv'
  <1> USE PrioAssumption, RolesAssumption, RschAssumption
  <1>1. TypeOK'
    BY DEF IInv, TypeOK, StackOK, OwnersOK, NestOK, MaskOK, EventOK,
         RschDeliver, PrioChanged, Running, InPc, Goto, Ctx, csVars, maskVars,
         rschVars
  <1>2. StackOK'
    BY DEF IInv, TypeOK, StackOK, OwnersOK, NestOK, MaskOK, EventOK,
         RschDeliver, PrioChanged, Running, InPc, Goto, Ctx, csVars, maskVars,
         rschVars
  <1>3. OwnersOK'
    BY DEF IInv, TypeOK, StackOK, OwnersOK, NestOK, MaskOK, EventOK,
         RschDeliver, PrioChanged, Running, InPc, Goto, Ctx, csVars, maskVars,
         rschVars
  <1>4. NestOK'
    BY DEF IInv, TypeOK, StackOK, OwnersOK, NestOK, MaskOK, EventOK,
         RschDeliver, PrioChanged, Running, InPc, Goto, Ctx, csVars, maskVars,
         rschVars
  <1>5. MaskOK'
    BY DEF IInv, TypeOK, StackOK, OwnersOK, NestOK, MaskOK, EventOK,
         RschDeliver, PrioChanged, Running, InPc, Goto, Ctx, csVars, maskVars,
         rschVars
  <1>6. EventOK'
    BY DEF IInv, TypeOK, StackOK, OwnersOK, NestOK, MaskOK, EventOK,
         RschDeliver, PrioChanged, Running, InPc, Goto, Ctx, csVars, maskVars,
         rschVars
  <1> QED
    BY <1>1, <1>2, <1>3, <1>4, <1>5, <1>6 DEF IInv

\* A context that returns holds no section.
LEMMA EndStep ==
    ASSUME IInv, NEW c \in Ctx, End(c)
    PROVE  IInv'
  <1> USE PrioAssumption, RolesAssumption, RschAssumption
  <1>1. TypeOK'
    BY DEF IInv, TypeOK, StackOK, OwnersOK, NestOK, MaskOK, EventOK, End,
         Holds, Running, InPc, Goto, Ctx, csVars, maskVars, rschVars
  <1>2. StackOK'
    BY DEF IInv, TypeOK, StackOK, OwnersOK, NestOK, MaskOK, EventOK, End,
         Holds, Running, InPc, Goto, Ctx, csVars, maskVars, rschVars
  <1>3. OwnersOK'
    BY DEF IInv, TypeOK, StackOK, OwnersOK, NestOK, MaskOK, EventOK, End,
         Holds, Running, InPc, Goto, Ctx, csVars, maskVars, rschVars
  <1>4. NestOK'
    BY DEF IInv, TypeOK, StackOK, OwnersOK, NestOK, MaskOK, EventOK, End,
         Holds, Running, InPc, Goto, Ctx, csVars, maskVars, rschVars
  <1>5. MaskOK'
    BY DEF IInv, TypeOK, StackOK, OwnersOK, NestOK, MaskOK, EventOK, End,
         Holds, Running, InPc, Goto, Ctx, csVars, maskVars, rschVars
  <1>6. EventOK'
    BY DEF IInv, TypeOK, StackOK, OwnersOK, NestOK, MaskOK, EventOK, End,
         Holds, Running, InPc, Goto, Ctx, csVars, maskVars, rschVars
  <1> QED
    BY <1>1, <1>2, <1>3, <1>4, <1>5, <1>6 DEF IInv

\* A context that begins is more urgent than the section's owner.
LEMMA BeginStep ==
    ASSUME IInv, LateIrq = FALSE, NEW c \in Ctx, Begin(c)
    PROVE  IInv'
  <1> USE PrioAssumption, RolesAssumption, RschAssumption
  <1>1. TypeOK'
    BY DEF IInv, TypeOK, StackOK, OwnersOK, NestOK, MaskOK, EventOK, Begin,
         Raised, Running, InPc, Goto, Ctx, csVars, maskVars, rschVars
  <1>2. StackOK'
    BY DEF IInv, TypeOK, StackOK, OwnersOK, NestOK, MaskOK, EventOK, Begin,
         Raised, Running, InPc, Goto, Ctx, csVars, maskVars, rschVars
  <1>3. OwnersOK'
    BY DEF IInv, TypeOK, StackOK, OwnersOK, NestOK, MaskOK, EventOK, Begin,
         Raised, Running, InPc, Goto, Ctx, csVars, maskVars, rschVars
  <1>4. NestOK'
    BY DEF IInv, TypeOK, StackOK, OwnersOK, NestOK, MaskOK, EventOK, Begin,
         Raised, Running, InPc, Goto, Ctx, csVars, maskVars, rschVars
  <1>5. MaskOK'
    BY DEF IInv, TypeOK, StackOK, OwnersOK, NestOK, MaskOK, EventOK, Begin,
         Raised, Running, InPc, Goto, Ctx, csVars, maskVars, rschVars
  <1>6. EventOK'
    BY DEF IInv, TypeOK, StackOK, OwnersOK, NestOK, MaskOK, EventOK, Begin,
         Raised, Running, InPc, Goto, Ctx, csVars, maskVars, rschVars
  <1> QED
    BY <1>1, <1>2, <1>3, <1>4, <1>5, <1>6 DEF IInv

\* Every step keeps the invariant, stuttering included.
LEMMA NextIInv == ASSUME IInv, LateIrq = FALSE, [Next]_vars PROVE IInv'
  <1>1. CASE UNCHANGED vars
    BY <1>1 DEF IInv, TypeOK, StackOK, OwnersOK, NestOK, MaskOK, EventOK,
                vars, csVars, maskVars, rschVars
  <1>2. CASE \E c \in Ctx : Begin(c) \/ End(c)
    BY <1>2, BeginStep, EndStep
  <1>3. CASE \E c \in Ctx : Enter(c) \/ ForcefullyEnter(c)
    BY <1>3, EnterStep, ForcefullyEnterStep
  <1>4. CASE \E c \in Ctx :
                ExitFindsPending(c) \/ ProcessPending(c) \/ Exit(c)
    BY <1>4, FindsPendingStep, ProcessStep, ExitStep
  <1>5. CASE \E c \in Ctx : NestingAllow(c) \/ NestingDeny(c)
    BY <1>5, AllowStep, DenyStep
  <1>6. CASE RschOffer \/ RschDeliver
    BY <1>6, OfferStep, DeliverStep
  <1> QED
    BY <1>1, <1>2, <1>3, <1>4, <1>5, <1>6 DEF Next

\* The inductive invariant holds in every reachable state, provided no RADIO
\* event fires in the section that has just enabled the RADIO interrupt.
THEOREM SectionInvariant == ASSUME LateIrq = FALSE PROVE Spec => []IInv
  <1>1. Init => IInv
    BY InitIInv
  <1>2. IInv /\ [Next]_vars => IInv'
    BY NextIInv
  <1> QED
    BY <1>1, <1>2, PTL DEF Spec

\* Type correctness of the section's state.
THEOREM SectionTypes == ASSUME LateIrq = FALSE PROVE Spec => []TypeOK
  <1>1. IInv => TypeOK
    BY DEF IInv
  <1> QED
    BY <1>1, SectionInvariant, PTL

\* Mutual exclusion: critical_section_enter, forced or not, never lets a
\* second context into an open section.
THEOREM SectionExclusive == ASSUME LateIrq = FALSE PROVE Spec => []Exclusive
  <1>1. IInv => Exclusive
    BY DEF IInv, TypeOK, OwnersOK, Exclusive
  <1> QED
    BY <1>1, SectionInvariant, PTL

\* The asserts of nesting_allow and nesting_deny fail only in a section whose
\* own callback made a request that notified in turn.
THEOREM SectionNesting == ASSUME LateIrq = FALSE PROVE Spec => []NestingAsserts
  <1>1. ASSUME IInv PROVE NestingAsserts
    BY <1>1 DEF IInv, NestOK, NestingAsserts
  <1> QED
    BY <1>1, SectionInvariant, PTL

\* The prestarted timeout always finds the section free, which is why its
\* forced entry is harmless.
THEOREM SectionTimer ==
    ASSUME LateIrq = FALSE PROVE Spec => []TimerFindsSectionFree
  <1>1. ASSUME IInv PROVE TimerFindsSectionFree
    BY <1>1, ForcedFindsFree DEF TimerFindsSectionFree, IInv, OwnersOK
  <1> QED
    BY <1>1, SectionInvariant, PTL

\* No scheduler event is lost: once the section is free the core and the
\* scheduler agree and the RADIO interrupt is enabled in a timeslot.
THEOREM SectionIdle == ASSUME LateIrq = FALSE PROVE Spec => []IdleConsistent
  <1>1. ASSUME IInv PROVE IdleConsistent
    BY <1>1 DEF IInv, TypeOK, OwnersOK, EventOK, IdleConsistent
  <1> QED
    BY <1>1, SectionInvariant, PTL
=============================================================================
