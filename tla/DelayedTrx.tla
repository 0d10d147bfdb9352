----------------------------- MODULE DelayedTrx -----------------------------
(***************************************************************************)
(* Delayed transmission and delayed reception windows of the driver        *)
(* (nrf_802154_delayed_trx.c).  A window waits in a slot for its delayed   *)
(* timeslot, is opened by the scheduler's callback through a receive       *)
(* request to the core, and ends by its timeout, by an abort of the core,  *)
(* by a later window, by a refusal or by a cancellation.                   *)
(*                                                                         *)
(* Three contexts interleave.  hl is the call of the higher layer: it runs *)
(* in a thread when requests are direct (nrf_802154_request_direct.c), and *)
(* the callbacks below preempt it between any two of its steps.  isr is    *)
(* the callback of the scheduler or of the timer service, which share one  *)
(* interrupt; the thread does not run until it returns.  The core, called  *)
(* from the RADIO interrupt or from another procedure, preempts both, but  *)
(* not a critical section of its own.                                      *)
(***************************************************************************)
EXTENDS Integers, FiniteSets

CONSTANTS
    DRX_SLOTS,        \* NRF_802154_RSCH_DLY_TS_OP_DRX_SLOTS
    Ids,              \* identifiers of reception windows
    INVALID,          \* NRF_802154_RESERVED_INVALID_ID
    DTX,              \* NRF_802154_RESERVED_DTX_ID
    Reinit            \* NRF_802154_DELAYED_TRX_CANCEL_ALL_ENABLED

\* nrf_802154_queue_init needs two entries.
ASSUME DelayedAssumption ==
    /\ DRX_SLOTS \in Nat /\ DRX_SLOTS >= 2
    /\ INVALID \notin Ids /\ DTX \notin Ids /\ INVALID # DTX
    /\ Reinit \in BOOLEAN

Slots == 0..(DRX_SLOTS - 1)

VARIABLES
    st,               \* state of each slot of m_dly_rx_data
    id,               \* its identifier
    timer,            \* its timeout timer: "idle", "running" or "fired"
    frame,            \* its extension_frame is still being received
    qMem, qWr, qRd,   \* m_dly_rx_id_q, a ring of pointers to slots
    txSt, txId,       \* m_dly_tx_data[0]
    txOp,             \* the core is transmitting the delayed frame
    ts,               \* identifiers of the timeslots held by the scheduler
    isr,              \* the callback in progress
    hl,               \* the call of the higher layer in progress
    \* What the higher layer has seen; not state of the driver.
    owed,             \* windows accepted minus windows ended, per identifier
    txOwed,           \* delayed frames accepted minus outcomes
    assertsHold       \* no NRF_802154_ASSERT has failed

slotVars == <<st, id, timer, frame>>
queueVars == <<qMem, qWr, qRd>>
txVars == <<txSt, txId, txOp>>
vars == <<slotVars, queueVars, txVars, ts, isr, hl, owed, txOwed, assertsHold>>

OpStates == {"STOPPED", "PENDING", "ONGOING"}
IsrPcs == {"idle", "request", "notify", "release", "latch", "timeout"}
HlPcs == {"idle", "request", "txRequest", "timeslot", "timer", "finish",
          "txFinish"}
Calls == {"none", "receive", "cancel", "scheduled", "all"}

NoIsr == [pc |-> "idle", slot |-> 0, id |-> INVALID, ok |-> FALSE, ptr |-> 0]
NoCall == [pc |-> "idle", op |-> "none", slot |-> 0, id |-> INVALID, ok |-> FALSE]

\* The slots, the ring, the timeslots and the positions of the two contexts.
TypeOK ==
    /\ st \in [Slots -> OpStates] /\ id \in [Slots -> Ids \cup {INVALID}]
    /\ timer \in [Slots -> {"idle", "running", "fired"}]
    /\ frame \in [Slots -> BOOLEAN]
    /\ qMem \in [Slots -> Slots] /\ qWr \in Slots /\ qRd \in Slots
    /\ txSt \in OpStates /\ txId \in {INVALID, DTX} /\ txOp \in BOOLEAN
    /\ ts \subseteq Ids \cup {DTX}
    /\ isr \in [pc : IsrPcs, slot : Slots, id : Ids \cup {INVALID},
                ok : BOOLEAN, ptr : Slots]
    /\ hl \in [pc : HlPcs, op : Calls, slot : Slots,
               id : Ids \cup {INVALID}, ok : BOOLEAN]
    /\ owed \in [Ids -> Int] /\ txOwed \in Int /\ assertsHold \in BOOLEAN

\* nrf_802154_delayed_trx_init.
Init ==
    /\ st = [s \in Slots |-> "STOPPED"] /\ id = [s \in Slots |-> INVALID]
    /\ timer = [s \in Slots |-> "idle"] /\ frame = [s \in Slots |-> FALSE]
    /\ qMem = [s \in Slots |-> 0] /\ qWr = 0 /\ qRd = 0
    /\ txSt = "STOPPED" /\ txId = INVALID /\ txOp = FALSE
    /\ ts = {} /\ isr = NoIsr /\ hl = NoCall
    /\ owed = [i \in Ids |-> 0] /\ txOwed = 0 /\ assertsHold = TRUE

-----------------------------------------------------------------------------
\* increment_modulo.
IncrementModulo(v) == IF v + 1 >= DRX_SLOTS THEN 0 ELSE v + 1

QueueIsFull == qRd = IncrementModulo(qWr)

\* dly_rx_data_by_id_search: the slots that carry identifier i.  The code
\* asserts that there is at most one.
Found(i) == {s \in Slots : id[s] = i}

Min(S) == CHOOSE s \in S : \A r \in S : s <= r
Max(S) == CHOOSE s \in S : \A r \in S : s >= r

Assert(p) == assertsHold' = (assertsHold /\ p)

\* Mutant: the loop does not look at what removing the timer returned.
OngoingRegardless == {s \in Slots : st[s] = "ONGOING" /\ timer[s] # "idle"}

\* dly_rx_all_ongoing_abort: the slots whose timer it manages to remove.  A
\* timer that has fired is left to its callback.
Removed == {s \in Slots : timer[s] = "running"}

\* Identifier and state of the freed slots A.  Their extension_frame is left as
\* it is and rewritten before it is read again: here it is forgotten.
Free(A) ==
    /\ id' = [s \in Slots |-> IF s \in A THEN INVALID ELSE id[s]]
    /\ st' = [s \in Slots |-> IF s \in A THEN "STOPPED" ELSE st[s]]
    /\ frame' = [s \in Slots |-> frame[s] /\ s \notin A]

\* One outcome for each of the windows in the slots A.
Ended(A) == [i \in Ids |-> owed[i] - Cardinality({s \in A : id[s] = i})]

\* The effect of dly_rx_all_ongoing_abort on the slots: each removed window is
\* notified with DELAYED_ABORTED and its slot is freed.  ok stands for the
\* assertions made earlier in the same step.
AbortAllOngoing(ok) ==
    LET A == Removed IN
    /\ Free(A)
    /\ timer' = [s \in Slots |-> IF s \in A THEN "idle" ELSE timer[s]]
    /\ owed' = Ended(A)
    /\ Assert(ok /\ \A s \in A : st[s] = "ONGOING")

-----------------------------------------------------------------------------
(* The higher layer.  A thread runs only when no callback does.            *)

ThreadRuns(pc) == isr.pc = "idle" /\ hl.pc = pc

\* nrf_802154_delayed_trx_receive refuses an identifier that is in use.
NotPresent(i) == Found(i) = {}

\* nrf_802154_delayed_trx_receive up to available_dly_rx_slot_get, which takes
\* the first slot whose compare-and-swap finds STOPPED.
Receive(i) ==
    /\ ThreadRuns("idle") /\ NotPresent(i)
    /\ \E s \in Slots : st[s] = "STOPPED"
    /\ LET s == Min({r \in Slots : st[r] = "STOPPED"}) IN
       /\ st' = [st EXCEPT ![s] = "PENDING"]
       /\ hl' = [NoCall EXCEPT !.pc = "request", !.op = "receive",
                               !.slot = s, !.id = i]
    /\ UNCHANGED <<id, timer, frame, queueVars, txVars, ts, isr, owed, txOwed,
                   assertsHold>>

\* The rest of it: the identifier is stored and dly_op_request asks for the
\* timeslot, which the scheduler refuses when one with that identifier exists
\* and may refuse otherwise (a time in the past); then the slot is released.
ReceiveRequest ==
    /\ ThreadRuns("request")
    /\ hl' = NoCall
    /\ \/ /\ hl.id \notin ts
          /\ id' = [id EXCEPT ![hl.slot] = hl.id]
          /\ ts' = ts \cup {hl.id}
          /\ owed' = [owed EXCEPT ![hl.id] = @ + 1]
          /\ UNCHANGED <<st, frame, assertsHold>>
       \/ /\ Free({hl.slot})
          /\ Assert(st[hl.slot] = "PENDING")
          /\ UNCHANGED <<ts, owed>>
    /\ UNCHANGED <<timer, queueVars, txVars, isr, txOwed>>

\* nrf_802154_delayed_trx_receive_cancel, _receive_scheduled_cancel: look for
\* the slot.  Without one the call returns and changes nothing.
Cancel(op, i) ==
    /\ ThreadRuns("idle") /\ Found(i) # {}
    /\ hl' = [NoCall EXCEPT !.pc = "timeslot", !.op = op,
                            !.slot = Min(Found(i)), !.id = i]
    /\ Assert(Cardinality(Found(i)) = 1)
    /\ UNCHANGED <<slotVars, queueVars, txVars, ts, isr, owed, txOwed>>

\* The slots nrf_802154_delayed_trx_receive_cancel_all has still to visit: it
\* reads the identifier of each in turn and skips the inactive ones.
NextActive(from) == {s \in Slots : s >= from /\ id[s] # INVALID}

VisitFrom(from) ==
    hl' = IF NextActive(from) = {} THEN NoCall
          ELSE [NoCall EXCEPT !.pc = "timeslot", !.op = "all",
                              !.slot = Min(NextActive(from)),
                              !.id = id[Min(NextActive(from))]]

\* nrf_802154_reinit calls nrf_802154_delayed_trx_receive_cancel_all.
CancelAll ==
    /\ Reinit /\ ThreadRuns("idle") /\ NextActive(0) # {}
    /\ VisitFrom(0)
    /\ UNCHANGED <<slotVars, queueVars, txVars, ts, isr, owed, txOwed,
                   assertsHold>>

\* The second step of the three cancellations: the timeslot is cancelled if the
\* scheduler still holds it.  receive_scheduled_cancel leaves the timer alone.
CancelTimeslot ==
    /\ ThreadRuns("timeslot")
    /\ ts' = ts \ {hl.id}
    /\ hl' = [hl EXCEPT !.ok = hl.id \in ts,
                        !.pc = IF hl.op = "scheduled" THEN "finish" ELSE "timer"]
    /\ UNCHANGED <<slotVars, queueVars, txVars, isr, owed, txOwed, assertsHold>>

\* Mutant: the timer is taken for stopped whatever removing it returned.
CancelTimerAnyway ==
    /\ ThreadRuns("timer")
    /\ timer' = IF timer[hl.slot] = "running"
                THEN [timer EXCEPT ![hl.slot] = "idle"] ELSE timer
    /\ hl' = [hl EXCEPT !.ok = TRUE, !.pc = "finish"]
    /\ UNCHANGED <<st, id, frame, queueVars, txVars, ts, isr, owed, txOwed,
                   assertsHold>>

\* The third step: the timeout timer is removed if it is running.
CancelTimer ==
    /\ ThreadRuns("timer")
    /\ timer' = IF timer[hl.slot] = "running"
                THEN [timer EXCEPT ![hl.slot] = "idle"] ELSE timer
    /\ hl' = [hl EXCEPT !.ok = @ \/ timer[hl.slot] = "running", !.pc = "finish"]
    /\ UNCHANGED <<st, id, frame, queueVars, txVars, ts, isr, owed, txOwed,
                   assertsHold>>

\* The condition under which the slot is freed: receive_cancel needs a timeslot
\* or a timer to have been stopped, receive_scheduled_cancel accepts a window
\* that has ended, and receive_cancel_all does not ask.
Stopped ==
    CASE hl.op = "cancel" -> hl.ok
      [] hl.op = "scheduled" -> hl.ok \/ st[hl.slot] = "STOPPED"
      [] OTHER -> TRUE

\* The last step: the slot is freed without a notification, and the call
\* returns what it did.  A window that was still owed an outcome has now had it.
CancelFinish ==
    /\ ThreadRuns("finish")
    /\ Free(IF Stopped THEN {hl.slot} ELSE {})
    /\ owed' = IF hl.ok THEN [owed EXCEPT ![hl.id] = @ - 1] ELSE owed
    /\ IF hl.op = "all" THEN VisitFrom(hl.slot + 1) ELSE hl' = NoCall
    /\ UNCHANGED <<timer, queueVars, txVars, ts, isr, txOwed,
                   assertsHold>>

\* nrf_802154_delayed_trx_transmit: the only transmit slot is taken ...
Transmit ==
    /\ ThreadRuns("idle") /\ txSt = "STOPPED"
    /\ txSt' = "PENDING"
    /\ hl' = [NoCall EXCEPT !.pc = "txRequest"]
    /\ UNCHANGED <<slotVars, queueVars, txId, txOp, ts, isr, owed, txOwed,
                   assertsHold>>

\* ... and its timeslot requested.
TransmitRequest ==
    /\ ThreadRuns("txRequest")
    /\ hl' = NoCall
    /\ \/ /\ DTX \notin ts
          /\ txId' = DTX /\ ts' = ts \cup {DTX} /\ txOwed' = txOwed + 1
          /\ UNCHANGED <<txSt, assertsHold>>
       \/ /\ txId' = INVALID /\ txSt' = "STOPPED"
          /\ Assert(txSt = "PENDING")
          /\ UNCHANGED <<ts, txOwed>>
    /\ UNCHANGED <<slotVars, queueVars, txOp, isr, owed>>

\* nrf_802154_delayed_trx_transmit_cancel, when dly_ts_slot_release succeeds.
TransmitCancel ==
    /\ ThreadRuns("idle") /\ txId \in ts
    /\ ts' = ts \ {txId}
    /\ hl' = [NoCall EXCEPT !.pc = "txFinish"]
    /\ UNCHANGED <<slotVars, queueVars, txVars, isr, owed, txOwed, assertsHold>>

TransmitCancelFinish ==
    /\ ThreadRuns("txFinish")
    /\ hl' = NoCall
    /\ txId' = INVALID /\ txSt' = "STOPPED" /\ txOwed' = txOwed - 1
    /\ Assert(txSt = "PENDING")
    /\ UNCHANGED <<slotVars, queueVars, txOp, ts, isr, owed>>

-----------------------------------------------------------------------------
(* The callback of the scheduler: a timeslot has started.                  *)

\* rx_timeslot_started_callback up to the receive request: the slot becomes
\* ONGOING and receive_attempt pushes it.  (A window that is not found has been
\* cancelled; that takes a canceller of a higher priority, which
\* nrf_802154_rsch_delayed_timeslot_cancel forbids for precise timeslots.)
RxTimeslotStarted(i) ==
    /\ isr.pc = "idle" /\ i \in ts /\ Found(i) # {}
    /\ LET s == Min(Found(i))
           cas == st[s] = "PENDING" IN
       /\ st' = IF cas THEN [st EXCEPT ![s] = "ONGOING"] ELSE st
       /\ qMem' = IF cas THEN [qMem EXCEPT ![qWr] = s] ELSE qMem
       /\ qWr' = IF cas THEN IncrementModulo(qWr) ELSE qWr
       /\ isr' = [NoIsr EXCEPT !.pc = IF cas THEN "request" ELSE "release",
                               !.slot = s, !.id = i]
    /\ Assert(Cardinality(Found(i)) = 1 /\ ~QueueIsFull)
    /\ UNCHANGED <<id, timer, frame, qRd, txVars, ts, hl, owed, txOwed>>

\* receive_attempt: the channel update or the receive request succeeds or not,
\* and calls dly_rx_result_notify, which pops the entry; the pointer it gets is
\* followed after the MCU critical section is left.
ReceiveAttempt(ok) ==
    /\ isr.pc = "request"
    /\ qRd' = IncrementModulo(qRd)
    /\ isr' = [isr EXCEPT !.pc = "notify", !.ok = ok, !.ptr = qRd]
    /\ UNCHANGED <<slotVars, qMem, qWr, txVars, ts, hl, owed, txOwed,
                   assertsHold>>

\* dly_rx_result_notify(true), inside the critical section of the core: the
\* other windows are aborted and the timeout of this one starts.
ResultNotifySuccess ==
    /\ isr.pc = "notify" /\ isr.ok
    /\ LET p == qMem[isr.ptr]
           A == Removed IN
       /\ id' = [s \in Slots |-> IF s \in A THEN INVALID ELSE id[s]]
       /\ st' = [s \in Slots |-> IF s \in A THEN "STOPPED" ELSE st[s]]
       /\ frame' = [s \in Slots |-> frame[s] /\ s \notin A \cup {p}]
       /\ timer' = [s \in Slots |-> IF s = p THEN "running"
                                    ELSE IF s \in A THEN "idle" ELSE timer[s]]
       /\ owed' = Ended(A)
       /\ Assert(/\ \A s \in A : st[s] = "ONGOING"
                 /\ timer[p] # "fired")
    /\ isr' = [isr EXCEPT !.pc = "release"]
    /\ UNCHANGED <<queueVars, txVars, ts, hl, txOwed>>

\* dly_rx_result_notify(false): DELAYED_TIMESLOT_DENIED is notified.
ResultNotifyFailure ==
    /\ isr.pc = "notify" /\ ~isr.ok
    /\ owed' = Ended({qMem[isr.ptr]})
    /\ isr' = [isr EXCEPT !.pc = "release"]
    /\ UNCHANGED <<slotVars, queueVars, txVars, ts, hl, txOwed, assertsHold>>

\* Mutant: the slot of a failed attempt is kept.
ReleaseTimeslotOnly ==
    /\ isr.pc = "release"
    /\ ts' = ts \ {isr.id}
    /\ isr' = NoIsr
    /\ UNCHANGED <<slotVars, queueVars, txVars, hl, owed, txOwed, assertsHold>>

\* The end of rx_timeslot_started_callback: the timeslot is returned, and a slot
\* whose attempt failed is freed.
ReleaseTimeslot ==
    /\ isr.pc = "release"
    /\ ts' = ts \ {isr.id}
    /\ Free(IF isr.ok THEN {} ELSE {isr.slot})
    /\ Assert(isr.id \in ts /\ (isr.ok \/ st[isr.slot] = "ONGOING"))
    /\ isr' = NoIsr
    /\ UNCHANGED <<timer, queueVars, txVars, hl, owed, txOwed>>

\* nrf_802154_core_transmit, called by transmit_attempt with TERM_802154: once
\* the current operation may be terminated the abort hook ends the windows, and
\* a hook may still fail the frame.  The core cancels the timeslot in any case.
\* A refused frame goes through delayed_tx_failed.
TxTimeslotStarted(aborts, starts) ==
    /\ isr.pc = "idle" /\ DTX \in ts
    /\ starts => aborts
    /\ ts' = ts \ {DTX}
    /\ txOp' = starts
    /\ txSt' = IF starts THEN "ONGOING" ELSE "STOPPED"
    /\ txId' = IF starts THEN txId ELSE INVALID
    /\ txOwed' = IF starts THEN txOwed ELSE txOwed - 1
    /\ LET ok == txId = DTX /\ txSt = "PENDING" IN
       IF aborts THEN AbortAllOngoing(ok)
       ELSE Assert(ok) /\ UNCHANGED <<slotVars, owed>>
    /\ UNCHANGED <<queueVars, isr, hl>>

-----------------------------------------------------------------------------
(* The callback of the timer service: a window has lasted long enough.     *)

\* The timer leaves the list of the service; its callback is about to run.
TimerFires(s) ==
    /\ isr.pc = "idle" /\ timer[s] = "running"
    /\ timer' = [timer EXCEPT ![s] = "fired"]
    /\ isr' = [NoIsr EXCEPT !.pc = "latch", !.slot = s]
    /\ UNCHANGED <<st, id, frame, queueVars, txVars, ts, hl, owed, txOwed,
                   assertsHold>>

\* Mutant: the window is extended without a frame to wait for.
TimeoutLatchAlways ==
    /\ isr.pc = "latch"
    /\ isr' = [isr EXCEPT !.pc = "timeout", !.ok = TRUE]
    /\ UNCHANGED <<slotVars, queueVars, txVars, ts, hl, owed, txOwed, assertsHold>>

\* notify_rx_timeout reads the time stamp of the last frame, and so whether the
\* frame is still on the air.
TimeoutLatch ==
    /\ isr.pc = "latch"
    /\ isr' = [isr EXCEPT !.pc = "timeout", !.ok = frame[isr.slot]]
    /\ UNCHANGED <<slotVars, queueVars, txVars, ts, hl, owed, txOwed, assertsHold>>

\* notify_rx_timeout: the window is extended to the end of the frame, or ended
\* with DELAYED_TIMEOUT.  (The sleep request that may follow uses TERM_NONE and
\* ends no window.)
Timeout ==
    /\ isr.pc = "timeout"
    /\ isr' = NoIsr
    /\ LET s == isr.slot IN
       \/ /\ isr.ok
          /\ timer' = [timer EXCEPT ![s] = "running"]
          /\ UNCHANGED <<st, id, frame, owed, assertsHold>>
       \/ /\ ~isr.ok
          /\ timer' = [timer EXCEPT ![s] = "idle"]
          /\ owed' = Ended({s})
          /\ Free({s})
          /\ Assert(st[s] = "ONGOING")
    /\ UNCHANGED <<queueVars, txVars, ts, hl, txOwed>>

-----------------------------------------------------------------------------
(* The core, in any context that its critical section lets in.             *)

InCoreSection == isr.pc = "notify" /\ isr.ok

\* nrf_802154_delayed_trx_abort at a level of at least TERM_802154: another
\* operation of the core ends the windows.  Below that level it refuses.
CoreTerminate ==
    /\ ~InCoreSection /\ Removed # {}
    /\ AbortAllOngoing(TRUE)
    /\ UNCHANGED <<queueVars, txVars, ts, isr, hl, txOwed>>

\* nrf_802154_delayed_trx_rx_started_hook: the last ongoing slot is extended.
\* notify_rx_timeout preempted after its reading of the time stamp takes the
\* length of the new frame with the old stamp: the window may be extended or
\* not.
RxStartedHook ==
    /\ ~InCoreSection
    /\ \E s \in Slots : st[s] = "ONGOING"
    /\ LET last == Max({s \in Slots : st[s] = "ONGOING"}) IN
       /\ frame' = [frame EXCEPT ![last] = TRUE]
       /\ \/ UNCHANGED isr
          \/ /\ isr.pc = "timeout" /\ isr.slot = last
             /\ isr' = [isr EXCEPT !.ok = ~isr.ok]
    /\ UNCHANGED <<st, id, timer, queueVars, txVars, ts, hl, owed, txOwed,
                   assertsHold>>

\* External: the time by which the frame is received passes.
FrameEnds(s) ==
    /\ frame[s]
    /\ frame' = [frame EXCEPT ![s] = FALSE]
    /\ UNCHANGED <<st, id, timer, queueVars, txVars, ts, isr, hl, owed, txOwed,
                   assertsHold>>

\* delayed_tx_done, delayed_tx_failed: the core is through with the frame.
TxEnds ==
    /\ ~InCoreSection /\ txOp
    /\ txOp' = FALSE /\ txId' = INVALID /\ txSt' = "STOPPED"
    /\ txOwed' = txOwed - 1
    /\ Assert(txSt = "ONGOING")
    /\ UNCHANGED <<slotVars, queueVars, ts, isr, hl, owed>>

HigherLayer ==
    \/ \E i \in Ids : Receive(i)
    \/ \E i \in Ids, op \in {"cancel", "scheduled"} : Cancel(op, i)
    \/ CancelAll \/ Transmit \/ TransmitCancel

HigherLayerSteps ==
    \/ ReceiveRequest \/ CancelTimeslot \/ CancelTimer \/ CancelFinish
    \/ TransmitRequest \/ TransmitCancelFinish

CallbackStarts ==
    \/ \E i \in Ids : RxTimeslotStarted(i)
    \/ \E a, b \in BOOLEAN : TxTimeslotStarted(a, b)
    \/ \E s \in Slots : TimerFires(s)

CallbackSteps ==
    \/ \E ok \in BOOLEAN : ReceiveAttempt(ok)
    \/ ResultNotifySuccess \/ ResultNotifyFailure \/ ReleaseTimeslot
    \/ TimeoutLatch \/ Timeout

Core == CoreTerminate \/ RxStartedHook \/ TxEnds

Next ==
    \/ HigherLayer \/ HigherLayerSteps
    \/ CallbackStarts \/ CallbackSteps
    \/ Core \/ \E s \in Slots : FrameEnds(s)

Spec == Init /\ [][Next]_vars

\* The scheduler starts every timeslot it holds, the timer service fires every
\* timer, callbacks and calls run to their end, the core ends every frame, a
\* frame on the air ends.  What is due stays pending in its interrupt while
\* another callback runs, and the thread goes on between interrupts, hence SF.
Fairness ==
    /\ SF_vars(HigherLayerSteps) /\ WF_vars(CallbackSteps)
    /\ \A i \in Ids : SF_vars(RxTimeslotStarted(i))
    /\ SF_vars(\E a, b \in BOOLEAN : TxTimeslotStarted(a, b))
    /\ \A s \in Slots : WF_vars(FrameEnds(s)) /\ SF_vars(TimerFires(s))
    /\ SF_vars(TxEnds)

FairSpec == Spec /\ Fairness
-----------------------------------------------------------------------------
\* No NRF_802154_ASSERT of nrf_802154_delayed_trx.c fails: identifiers stay
\* unique, the queue has room, every compare-and-swap finds the state the code
\* expects, however the callbacks preempt a call.
AssertsHold == assertsHold

\* Window i is waiting or open as far as the higher layer can tell.
Live(i) == \E s \in Slots : id[s] = i

\* A window that was accepted ends exactly once: by one notification or by one
\* cancellation that reported success, never by both and never by neither.
OutcomeOnce ==
    /\ \A i \in Ids : owed[i] \in {0, 1}
    /\ txOwed \in {0, 1}
    /\ isr.pc = "idle" /\ hl.pc = "idle" =>
          /\ \A i \in Ids : owed[i] = 1 <=> Live(i)
          /\ txOwed = 1 <=> txSt # "STOPPED"

\* A slot in use is never stranded: something is bound to end it, the timeslot
\* it waits for, its timer, or the context that is working on it.
NeverStranded ==
    /\ \A s \in Slots :
          \/ st[s] = "STOPPED"
          \/ st[s] = "PENDING" /\ id[s] \in ts
          \/ st[s] = "ONGOING" /\ timer[s] # "idle"
          \/ isr.pc \in {"request", "notify", "release"} /\ isr.slot = s
          \/ hl.pc # "idle" /\ hl.slot = s
    /\ txSt = "STOPPED" \/ txOp \/ txId \in ts \/ hl.pc \in {"txRequest", "txFinish"}

\* A free slot has no timer that could fire and no timeslot that could start.
FreeSlotQuiet ==
    \A s \in Slots : st[s] = "STOPPED" => timer[s] = "idle" /\ id[s] = INVALID

\* One window is open at a time: opening one closes the others.
OneWindow == Cardinality({s \in Slots : timer[s] # "idle"}) <= 1

\* The entry dly_rx_result_notify follows is the one its receive_attempt pushed,
\* and nothing is left in the queue between attempts.
QueueMatchesAttempt ==
    /\ isr.pc = "notify" => qMem[isr.ptr] = isr.slot
    /\ isr.pc = "idle" => qRd = qWr

\* Slots, timers, timeslots and the identifier queue agree at every step of a
\* call or callback.
SlotsConsistent ==
    TypeOK /\ NeverStranded /\ FreeSlotQuiet /\ OneWindow /\ QueueMatchesAttempt

\* Every accepted window comes to an end, unless frames start on the channel for
\* ever ("@TODO protect against infinite extensions").
WindowEnds ==
    \A i \in Ids : []<>(owed[i] = 0) \/ []<>(\E s \in Slots : frame[s])

\* A delayed frame that was accepted is sent, fails or is cancelled.
TransmissionEnds == txOwed = 1 ~> txOwed = 0

\* Neither kind of delayed operation goes on for ever.
OperationsEnd == WindowEnds /\ TransmissionEnds
=============================================================================
