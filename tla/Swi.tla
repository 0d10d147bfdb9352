--------------------------------- MODULE Swi ---------------------------------
(***************************************************************************)
(* The software interrupt of the driver: notifications to the higher layer *)
(* (nrf_802154_notification_swi.c), requests from it                       *)
(* (nrf_802154_request_swi.c), the ring buffers that carry both            *)
(* (nrf_802154_queue.c) and the handler that serves them                   *)
(* (nrf_802154_swi.c).                                                     *)
(*                                                                         *)
(* Contexts by rising priority: the thread of the higher layer, the timer  *)
(* interrupt, the SWI, the RADIO interrupt.  Code between entering and     *)
(* leaving the MCU critical section is one action.  A context goes on only *)
(* when nothing above it runs or is pending (CanRun).  A notifier that has *)
(* taken a slot may be preempted by another before it pushes it: stack.    *)
(***************************************************************************)
EXTENDS Integers, Sequences, FiniteSets

CONSTANTS
    Kinds,          \* sources of notifications that must not be lost: the
                    \* operations in progress and the receive buffers
    SECONDARY_POOL_SIZE,  \* NTF_SECONDARY_POOL_SIZE
    ReqQueueSize,   \* REQ_QUEUE_SIZE
    FlushEnabled,   \* NRF_802154_NOTIFICATION_QUEUE_FLUSH_ENABLED
    SleepResults,   \* results of the sleep request of nrf_802154_reinit
    Nesting,        \* notifiers that preempt one another: timer, SWI, RADIO
    Reissue         \* callouts start operations and free buffers themselves

ASSUME SwiAssumption ==
    /\ IsFiniteSet(Kinds) /\ {"spurious", "none"} \cap Kinds = {}
    /\ SECONDARY_POOL_SIZE \in Nat
    /\ Nesting \in Nat /\ ReqQueueSize \in Nat /\ ReqQueueSize >= 2
    /\ {FlushEnabled, Reissue} \cup SleepResults \subseteq BOOLEAN

\* One slot for the outcome of each source.
NTF_PRIMARY_POOL_SIZE == Cardinality(Kinds)
PrimaryPool == 0..(NTF_PRIMARY_POOL_SIZE - 1)
SecondaryPool ==
    NTF_PRIMARY_POOL_SIZE..(NTF_PRIMARY_POOL_SIZE + SECONDARY_POOL_SIZE - 1)
Slots == PrimaryPool \cup SecondaryPool

\* Mutant: the entry lost to the simplified queue is forgotten.
QueueSizeTight == NTF_PRIMARY_POOL_SIZE + SECONDARY_POOL_SIZE

NTF_QUEUE_SIZE == NTF_PRIMARY_POOL_SIZE + SECONDARY_POOL_SIZE + 1

Entries == 0..(NTF_QUEUE_SIZE - 1)
ReqEntries == 0..(ReqQueueSize - 1)
Requesters == {"thread", "timer"}

\* What the model leaves in an entry once it is popped; it is not read again.
NTF_INVALID_SLOT_ID == 255

VARIABLES
    data,           \* what each slot of the pools holds, "none" when not taken
    mem, wr, rd,    \* m_notifications_queue, a ring of slot identifiers
    stack,          \* slots taken and not yet pushed, the innermost first
    told,           \* sources whose outcome the higher layer has yet to take up
    blocked,        \* m_notifications_blocked
    rmem, rwr, rrd, \* m_requests_queue, a ring of requesters
    wait,           \* each requester: "idle", "waiting", or "done" (*p_result)
    ntfEvent, reqEvent,   \* the EGU events
    swi,            \* position in swi_irq_handler, "off" outside it
    reinit,         \* position in nrf_802154_reinit
    assertsHold     \* no NRF_802154_ASSERT has failed

ntfVars == <<data, mem, wr, rd, stack>>
reqVars == <<rmem, rwr, rrd, wait>>
vars == <<ntfVars, told, blocked, reqVars, ntfEvent, reqEvent, swi, reinit, assertsHold>>

Positions == {"off", "ntf", "callout", "reqCheck", "req"}

\* The pools, the rings and the positions of the contexts.
TypeOK ==
    /\ data \in [Slots -> Kinds \cup {"spurious", "none"}]
    /\ mem \in [Entries -> Slots \cup {NTF_INVALID_SLOT_ID}] /\ wr \in Entries /\ rd \in Entries
    /\ stack \in Seq(Slots)
    /\ told \subseteq Kinds /\ blocked \in BOOLEAN
    /\ rmem \in [ReqEntries -> Requesters \cup {"none"}] /\ rwr \in ReqEntries /\ rrd \in ReqEntries
    /\ wait \in [Requesters -> {"idle", "waiting", "done"}]
    /\ ntfEvent \in BOOLEAN /\ reqEvent \in BOOLEAN
    /\ swi \in Positions
    /\ reinit \in {"no", "isr", "blocked", "sleeping", "flush", "clear", "unblock"}
    /\ assertsHold \in BOOLEAN

\* nrf_802154_notification_init, nrf_802154_request_init.
Init ==
    /\ data = [s \in Slots |-> "none"]
    /\ mem = [e \in Entries |-> NTF_INVALID_SLOT_ID] /\ wr = 0 /\ rd = 0 /\ stack = <<>>
    /\ told = {} /\ blocked = FALSE
    /\ rmem = [e \in ReqEntries |-> "none"] /\ rwr = 0 /\ rrd = 0
    /\ wait = [c \in Requesters |-> "idle"]
    /\ ntfEvent = FALSE /\ reqEvent = FALSE
    /\ swi = "off" /\ reinit = "no" /\ assertsHold = TRUE

-----------------------------------------------------------------------------
\* increment_modulo.
IncrementModulo(v, size) == IF v + 1 >= size THEN 0 ELSE v + 1

\* nrf_802154_queue_is_full.
QueueIsFull(w, r, size) == r = IncrementModulo(w, size)

Assert(p) == assertsHold' = (assertsHold /\ p)

FreeIn(pool) == {s \in pool : data[s] = "none"}
First(S) == CHOOSE s \in S : \A r \in S : s <= r

\* Source k has no other outcome until the higher layer has taken this one up,
\* or only been called out with it when it reissues from the callout.
InProgress(k) ==
    \/ k \in told
    \/ \E s \in Slots : data[s] = k /\ ~(Reissue /\ swi = "callout" /\ s = mem[rd])

-----------------------------------------------------------------------------
(* Notifiers: the RADIO and timer interrupts, and requests in the SWI.     *)

\* ntf_slot_alloc and the filling of the slot.
TakeSlot(s, n) ==
    /\ data' = [data EXCEPT ![s] = n]
    /\ stack' = <<s>> \o stack

\* nrf_802154_notify_received, _transmitted, _transmit_failed, and the others
\* that must not be lost, up to the push.  While notifications are blocked the
\* outcome is dropped and its buffer freed; otherwise a slot must be found.
Notify(k) ==
    /\ ~InProgress(k) /\ ~blocked /\ Len(stack) < Nesting
    /\ IF FreeIn(PrimaryPool) # {}
       THEN TakeSlot(First(FreeIn(PrimaryPool)), k)
       ELSE UNCHANGED <<data, stack>>
    /\ Assert(FreeIn(PrimaryPool) # {})
    /\ UNCHANGED <<mem, wr, rd, told, blocked, reqVars, ntfEvent, reqEvent, swi, reinit>>

\* nrf_802154_notify_receive_failed with allow_drop, when a slot is found; it is
\* dropped otherwise.
NotifySpurious ==
    /\ ~blocked /\ FreeIn(SecondaryPool) # {} /\ Len(stack) < Nesting
    /\ TakeSlot(First(FreeIn(SecondaryPool)), "spurious")
    /\ UNCHANGED <<mem, wr, rd, told, blocked, reqVars, ntfEvent, reqEvent,
                   swi, reinit, assertsHold>>

\* Mutant: the interrupt is triggered only when its handler is not running.
TriggerIfIdle == ntfEvent' = (ntfEvent \/ swi = "off")

\* nrf_egu_task_trigger of ntf_exit.
Trigger == ntfEvent' = TRUE

\* ntf_push.
Push ==
    /\ stack # <<>>
    /\ stack' = Tail(stack)
    /\ mem' = [mem EXCEPT ![wr] = Head(stack)]
    /\ wr' = IncrementModulo(wr, NTF_QUEUE_SIZE)
    /\ Trigger
    /\ Assert(~QueueIsFull(wr, rd, NTF_QUEUE_SIZE))
    /\ UNCHANGED <<data, rd, told, blocked, reqVars, reqEvent, swi, reinit>>

-----------------------------------------------------------------------------
(* The handler of the software interrupt.                                  *)

\* Mutant: both events are cleared on entry.
SwiEnterClearsBoth ==
    /\ swi = "off" /\ (ntfEvent \/ reqEvent)
    /\ swi' = IF ntfEvent THEN "ntf" ELSE "reqCheck"
    /\ ntfEvent' = FALSE /\ reqEvent' = FALSE
    /\ UNCHANGED <<ntfVars, told, blocked, reqVars, reinit, assertsHold>>

\* swi_irq_handler: notifications first; their event is cleared before the queue
\* is drained.
SwiEnter ==
    /\ swi = "off" /\ (ntfEvent \/ reqEvent)
    /\ swi' = IF ntfEvent THEN "ntf" ELSE "reqCheck"
    /\ ntfEvent' = FALSE
    /\ UNCHANGED <<ntfVars, told, blocked, reqVars, reqEvent, reinit, assertsHold>>

\* nrf_802154_queue_pop_commit.
PopCommit ==
    /\ mem' = [mem EXCEPT ![rd] = NTF_INVALID_SLOT_ID]
    /\ rd' = IncrementModulo(rd, NTF_QUEUE_SIZE)

\* ntf_slot_free of the entry that is popped.
PopFree == data' = [data EXCEPT ![mem[rd]] = "none"]

\* Mutant: the slot is released before the higher layer is called out.
FetchAndFree ==
    /\ swi = "ntf" /\ rd # wr
    /\ swi' = "callout"
    /\ PopFree
    /\ UNCHANGED <<mem, rd>>
    /\ UNCHANGED <<wr, stack, told, blocked, reqVars, ntfEvent, reqEvent, reinit,
                   assertsHold>>

\* irq_handler_ntf_event calls the higher layer out with the oldest entry.  With
\* notifications blocked it discards that entry and leaves the loop.
Fetch ==
    /\ swi = "ntf" /\ rd # wr
    /\ IF blocked
       THEN swi' = "reqCheck" /\ PopCommit /\ PopFree
       ELSE swi' = "callout" /\ UNCHANGED <<data, mem, rd>>
    /\ UNCHANGED <<wr, stack, told, blocked, reqVars, ntfEvent, reqEvent, reinit,
                   assertsHold>>

\* The callout returns: nrf_802154_queue_pop_commit and ntf_slot_free.
CalloutEnd ==
    /\ swi = "callout"
    /\ swi' = "ntf"
    /\ told' = IF Reissue THEN told ELSE told \cup ({data[mem[rd]]} \cap Kinds)
    /\ PopCommit /\ PopFree
    /\ UNCHANGED <<wr, stack, blocked, reqVars, ntfEvent, reqEvent, reinit,
                   assertsHold>>

NtfDrained ==
    /\ swi = "ntf" /\ rd = wr
    /\ swi' = "reqCheck"
    /\ UNCHANGED <<ntfVars, told, blocked, reqVars, ntfEvent, reqEvent, reinit, assertsHold>>

\* nrf_802154_request_swi_irq_handler.
ReqCheck ==
    /\ swi = "reqCheck"
    /\ swi' = IF reqEvent THEN "req" ELSE "off"
    /\ reqEvent' = FALSE
    /\ UNCHANGED <<ntfVars, told, blocked, reqVars, ntfEvent, reinit, assertsHold>>

\* irq_handler_req_event executes the oldest request and writes its result.
ReqServe ==
    /\ swi = "req" /\ rrd # rwr
    /\ wait' = [wait EXCEPT ![rmem[rrd]] = "done"]
    /\ rmem' = [rmem EXCEPT ![rrd] = "none"]
    /\ rrd' = IncrementModulo(rrd, ReqQueueSize)
    /\ UNCHANGED <<ntfVars, told, blocked, rwr, ntfEvent, reqEvent, swi, reinit,
                   assertsHold>>

ReqDrained ==
    /\ swi = "req" /\ rrd = rwr
    /\ swi' = "off"
    /\ UNCHANGED <<ntfVars, told, blocked, reqVars, ntfEvent, reqEvent, reinit, assertsHold>>

-----------------------------------------------------------------------------
(* Requesters below the priority of the SWI.                               *)

\* External: a context runs when nothing above it runs or is pending.
CanRun(c) ==
    /\ swi = "off" /\ ~ntfEvent /\ ~reqEvent /\ stack = <<>> /\ reinit # "isr"
    /\ c = "thread" => wait["timer"] = "idle"

\* req_enter, the filling of the entry and req_exit.
PushRequest(c) ==
    /\ rmem' = [rmem EXCEPT ![rwr] = c]
    /\ rwr' = IncrementModulo(rwr, ReqQueueSize)
    /\ wait' = [wait EXCEPT ![c] = "waiting"]
    /\ reqEvent' = TRUE
    /\ Assert(~QueueIsFull(rwr, rrd, ReqQueueSize))

\* REQUEST_FUNCTION below the priority of the SWI; at or above it the function
\* of the core is called directly.
Request(c) ==
    /\ CanRun(c) /\ wait[c] = "idle" /\ (c = "thread" => reinit = "no")
    /\ PushRequest(c)
    /\ UNCHANGED <<ntfVars, told, blocked, rrd, ntfEvent, swi, reinit>>

\* The requester returns the result, which the SWI has written.
Return(c) ==
    /\ CanRun(c) /\ wait[c] # "idle" /\ (c = "thread" => reinit = "no")
    /\ wait' = [wait EXCEPT ![c] = "idle"]
    /\ Assert(wait[c] = "done")
    /\ UNCHANGED <<ntfVars, told, blocked, rmem, rwr, rrd, ntfEvent, reqEvent, swi, reinit>>

\* External: the higher layer takes an outcome up, starting the next operation or
\* freeing the receive buffer.
TakeUp(k) ==
    /\ CanRun("thread") /\ wait["thread"] = "idle" /\ reinit = "no" /\ k \in told
    /\ told' = told \ {k}
    /\ UNCHANGED <<ntfVars, blocked, reqVars, ntfEvent, reqEvent, swi, reinit,
                   assertsHold>>

-----------------------------------------------------------------------------
(* nrf_802154_reinit, in the thread.                                       *)

ReinitBlock ==
    /\ FlushEnabled /\ CanRun("thread") /\ wait["thread"] = "idle" /\ reinit = "no"
    /\ blocked' = TRUE /\ reinit' = "blocked"
    /\ UNCHANGED <<ntfVars, told, reqVars, ntfEvent, reqEvent, swi, assertsHold>>

ReinitSleep ==
    /\ CanRun("thread") /\ reinit = "blocked"
    /\ PushRequest("thread")
    /\ reinit' = "sleeping"
    /\ UNCHANGED <<ntfVars, told, blocked, rrd, ntfEvent, swi>>

\* When the sleep request fails notifications are unblocked again.
ReinitSlept ==
    /\ CanRun("thread") /\ reinit = "sleeping"
    /\ wait' = [wait EXCEPT !["thread"] = "idle"]
    /\ Assert(wait["thread"] = "done")
    /\ blocked' \in SleepResults
    /\ reinit' = IF blocked' THEN "flush" ELSE "no"
    /\ UNCHANGED <<ntfVars, told, rmem, rwr, rrd, ntfEvent, reqEvent, swi>>

\* The entries between the indices of the ring.
Queued ==
    {mem[e] : e \in {e \in Entries : IF rd <= wr THEN rd <= e /\ e < wr
                                     ELSE rd <= e \/ e < wr}}

\* nrf_802154_notification_queue_flush drains the queue ...
Flush ==
    /\ rd' = wr /\ mem' = [e \in Entries |-> NTF_INVALID_SLOT_ID]
    /\ data' = [s \in Slots |-> IF s \in Queued THEN "none" ELSE data[s]]

ReinitFlush ==
    /\ CanRun("thread") /\ reinit = "flush"
    /\ Flush /\ reinit' = "clear"
    /\ UNCHANGED <<wr, stack, told, blocked, reqVars, ntfEvent, reqEvent, swi,
                   assertsHold>>

\* ... and clears the event after it has left the MCU critical section.
ReinitClear ==
    /\ CanRun("thread") /\ reinit = "clear"
    /\ ntfEvent' = FALSE /\ reinit' = "unblock"
    /\ UNCHANGED <<ntfVars, told, blocked, reqVars, reqEvent, swi, assertsHold>>

ReinitUnblock ==
    /\ CanRun("thread") /\ reinit = "unblock"
    /\ blocked' = FALSE /\ reinit' = "no"
    /\ UNCHANGED <<ntfVars, told, reqVars, ntfEvent, reqEvent, swi, assertsHold>>

\* At or above the priority of the SWI the sleep request is executed directly and
\* the handler waits; RADIO may still interrupt.  The higher layer is idle, as
\* nrf_802154.h requires: it is not being called out.
ReinitIsrBlock ==
    /\ FlushEnabled /\ reinit = "no" /\ stack = <<>> /\ swi # "callout"
    /\ blocked' = TRUE /\ reinit' = "isr"
    /\ UNCHANGED <<ntfVars, told, reqVars, ntfEvent, reqEvent, swi, assertsHold>>

ReinitIsrFlush ==
    /\ reinit = "isr"
    /\ Flush /\ ntfEvent' = FALSE
    /\ blocked' = FALSE /\ reinit' = "no"
    /\ UNCHANGED <<wr, stack, told, reqVars, reqEvent, swi, assertsHold>>

Handler ==
    /\ reinit # "isr"
    /\ \/ SwiEnter \/ Fetch \/ CalloutEnd \/ NtfDrained
       \/ ReqCheck \/ ReqServe \/ ReqDrained

ReinitSteps ==
    \/ ReinitSleep \/ ReinitSlept \/ ReinitFlush \/ ReinitClear
    \/ ReinitUnblock \/ ReinitIsrFlush

Next ==
    \/ \E k \in Kinds : Notify(k) \/ TakeUp(k)
    \/ NotifySpurious \/ Push
    \/ Handler
    \/ \E c \in Requesters : Request(c) \/ Return(c)
    \/ ReinitBlock \/ ReinitSteps \/ ReinitIsrBlock

Spec == Init /\ [][Next]_vars

\* An interrupt that is pending is taken and its handler runs to its end; what it
\* preempted goes on.  Interrupts leave gaps: spurious failures do not arrive back
\* to back for ever.
Fairness ==
    /\ \A d \in 1..Nesting : SF_vars(Len(stack) = d /\ Push)
    /\ SF_vars(Handler) /\ SF_vars(NtfDrained)
    /\ WF_vars(ReinitIsrFlush)

FairSpec == Spec /\ Fairness
-----------------------------------------------------------------------------
\* No assertion fails: every outcome finds a slot of the primary pool ("It
\* should always be possible to notify"), neither ring overflows, and a requester
\* that goes on finds its result written.
AssertsHold == assertsHold

\* A slot is taken exactly while its notification is being filled in, queued or
\* delivered, and is in the ring once: no slot leaks and none is reused early.
SlotsAccounted ==
    LET pushed == {e \in Entries : IF rd <= wr THEN rd <= e /\ e < wr
                                   ELSE rd <= e \/ e < wr} IN
    /\ {s \in Slots : data[s] # "none"} = Queued \cup {stack[j] : j \in DOMAIN stack}
    /\ Queued \cap {stack[j] : j \in DOMAIN stack} = {}
    /\ Cardinality(Queued) = Cardinality(pushed)

\* A notification never waits in the queue without the interrupt that will
\* deliver it, although events are cleared before the queue is drained, while it
\* is, and by a reinitialisation after it has left the MCU critical section.
NoLostWakeup == rd # wr /\ ~ntfEvent => swi \in {"ntf", "callout"}

\* Slots, ring and event agree at every step of the handler, of the interrupts
\* that preempt it and of a reinitialisation.
QueueConsistent == TypeOK /\ SlotsAccounted /\ NoLostWakeup

\* An outcome that was queued reaches the higher layer or is discarded by a
\* reinitialisation.
OutcomeDelivered ==
    \A k \in Kinds :
        (\E s \in Slots : data[s] = k) ~> (\A s \in Slots : data[s] # k)

\* Every request below the priority of the SWI gets its result.
RequestAnswered == \A c \in Requesters : wait[c] = "waiting" ~> wait[c] = "done"

\* The software interrupt serves both queues: neither starves the other.
ServedEventually == OutcomeDelivered /\ RequestAnswered

-----------------------------------------------------------------------------
(* The ring and the pools implement the queue the higher layer relies on.  *)

QueueLength == (wr - rd + NTF_QUEUE_SIZE) % NTF_QUEUE_SIZE
Contents ==
    [j \in 1..QueueLength |-> data[mem[(rd + j - 1) % NTF_QUEUE_SIZE]]]

Service == INSTANCE NotificationService WITH
    Note <- Kinds \cup {"spurious"},
    pending <- IF swi = "callout" THEN Tail(Contents) ELSE Contents,
    current <- IF swi = "callout" THEN data[mem[rd]] ELSE "none",
    blocked <- blocked

\* Every notification accepted is delivered once, unaltered and in order.
DeliversInOrder == Service!Spec
=============================================================================
