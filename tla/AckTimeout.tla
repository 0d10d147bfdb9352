---------------------------- MODULE AckTimeout ----------------------------
(***************************************************************************)
(* The ACK timeout procedure of the 802.15.4 driver                        *)
(* (driver/src/mac_features/nrf_802154_precise_ack_timeout.c) with the     *)
(* part of the core that drives its hooks and handles the timeout          *)
(* (driver/src/nrf_802154_core.c).                                         *)
(*                                                                         *)
(* Three contexts interleave.  The thread enters the core's section to     *)
(* make a request (inSection); the timer interrupt may preempt it there,   *)
(* and is then refused.  The RADIO interrupt and the scheduler preempt the *)
(* timer interrupt between any two of its steps, but not the section.      *)
(*                                                                         *)
(* Time is abstracted to two facts of the hardware: the timeout, which     *)
(* includes the duration of the frame, does not expire before the frame    *)
(* has ended, and a frame takes longer to ramp up and start than the timer *)
(* interrupt takes to finish (unless SlowIsr).                             *)
(***************************************************************************)
EXTENDS Naturals

CONSTANTS
    Frames,           \* transmit buffers of the higher layer
    Timeouts,         \* values of m_timeout, in units of RETRY_DELAY
    MAX_RETRY_DELAY,  \* in units of RETRY_DELAY
    MaxRefusals,      \* bound: how often the core refuses one timeout
    SlowIsr,          \* other interrupts hold up the timer interrupt
    noFrame

ASSUME ConstantsAssumption ==
    /\ Timeouts \subseteq Nat /\ Timeouts # {}
    /\ MAX_RETRY_DELAY \in Nat /\ MaxRefusals \in Nat
    /\ SlowIsr \in BOOLEAN /\ noFrame \notin Frames

\* The core has one second, MAX_RETRY_DELAY, to take the timeout up.
ASSUME RefusalsAssumption ==
    \A t \in Timeouts : t + MaxRefusals <= MAX_RETRY_DELAY

VARIABLES
    timeout,    \* m_timeout
    active,     \* m_procedure_is_active
    mpFrame,    \* mp_frame
    dt,         \* m_dt
    timer,      \* m_timer is in the list of active timers
    isr,        \* where timeout_timer_fired is: idle, fired, request, clear, retry
    param,      \* param.p_frame of the request it makes
    core,       \* m_state: TX (CCA_TX and TX), RX_ACK or any other state
    frame,      \* m_tx.frame.p_frame
    ack,        \* that frame requests an ACK
    onAir,      \* the transceiver has reported the start of the frame
    ackOnAir,   \* and the start of the ACK
    inSection,  \* the thread is inside the critical section
    refused,    \* how often the core has refused the current timeout
    failed      \* ghost: an assertion has failed

procVars == <<timeout, active, mpFrame, dt, timer>>
isrVars  == <<isr, param>>
coreVars == <<core, frame, ack, onAir, ackOnAir>>
vars     == <<procVars, isrVars, coreVars, inSection, refused, failed>>

\* nrf_802154_ack_timeout_init
Init ==
    /\ timeout \in Timeouts
    /\ active = FALSE /\ mpFrame = noFrame /\ dt = 0 /\ timer = FALSE
    /\ isr = "idle" /\ param = noFrame
    /\ core = "OTHER" /\ frame = noFrame /\ ack = FALSE
    /\ onAir = FALSE /\ ackOnAir = FALSE
    /\ inSection = FALSE /\ refused = 0 /\ failed = FALSE

-----------------------------------------------------------------------------
(* The procedure *)

Assert(condition) == failed' = (failed \/ ~condition)

\* Mutant: the timer is removed, the flag is kept.
StopKeepsFlag == timer' = FALSE /\ UNCHANGED active

\* timeout_timer_stop
Stop == active' = FALSE /\ timer' = FALSE

\* The time timeout_timer_start computes; the durations of the frame and of
\* the ACK are part of the unit's abstraction.
StartTime == timeout

\* The assertion on the result of nrf_802154_sl_timer_add.  Adding a timer
\* that the service does not own succeeds.  Changing and adding one that it
\* owns is undefined (nrf_802154_sl_timer.h); sl_opensource restarts it and
\* reports success.  That happens to the timer a retry has armed after its
\* procedure was stopped (OwnedTimerUntouched), and is a failure for any other.
AddSucceeds == ~(timer /\ active)

\* nrf_802154_ack_timeout_tx_started_hook, timeout_timer_start
Start ==
    /\ Assert(AddSucceeds)
    /\ mpFrame' = frame /\ active' = TRUE /\ timer' = TRUE
    /\ dt' = StartTime

\* nrf_802154_ack_timeout_transmitted_hook, _tx_failed_hook
EndedHook ==
    /\ Assert(frame = mpFrame \/ ~active)
    /\ Stop

\* nrf_802154_ack_timeout_abort when it does not refuse and, if a transmission
\* is what ends, the tx_failed hook, which finds the procedure stopped and
\* removes the timer again.
Terminated ==
    IF active \/ core # "OTHER" THEN Stop ELSE UNCHANGED <<active, timer>>

-----------------------------------------------------------------------------
(* The timer interrupt *)

\* The timer service calls timeout_timer_fired.  The thread leaves the section
\* before the limit of the retries.
Expires ==
    /\ timer /\ isr = "idle"
    /\ ~(core = "TX" /\ onAir)
    /\ inSection => refused < MaxRefusals
    /\ timer' = FALSE
    /\ isr' = "fired"
    /\ UNCHANGED <<timeout, active, mpFrame, dt, param, coreVars, inSection,
                   refused, failed>>

\* timeout_timer_fired: the first look at the procedure
Fired ==
    /\ isr = "fired"
    /\ isr' = IF active THEN "request" ELSE "idle"
    /\ param' = IF active THEN mpFrame ELSE noFrame
    /\ UNCHANGED <<procVars, coreVars, inSection, refused, failed>>

\* The condition of nrf_802154_core_ack_timeout_handle
TimeoutApplies == core = "RX_ACK" /\ param = frame

\* nrf_802154_core_ack_timeout_handle inside the section.  The receive or
\* sleep request it makes is not stopped by the procedure's own abort hook;
\* its notification allows no nested request.
Handled ==
    /\ isr = "request" /\ ~inSection
    /\ isr' = "clear"
    /\ core' = IF TimeoutApplies THEN "OTHER" ELSE core
    /\ onAir' = (onAir /\ ~TimeoutApplies)
    /\ ackOnAir' = (ackOnAir /\ ~TimeoutApplies)
    /\ UNCHANGED <<procVars, param, frame, ack, inSection, refused, failed>>

\* Mutant: a refusal is taken for an answer.
RefusedIgnored ==
    /\ isr = "request" /\ refused < MaxRefusals
    /\ isr' = "clear"
    /\ refused' = refused + 1
    /\ UNCHANGED <<procVars, param, coreVars, inSection, failed>>

\* critical_section_enter_and_verify_timeslot_length returns false: the
\* thread is in the section, or the timeslot is too short.
Refused ==
    /\ isr = "request" /\ refused < MaxRefusals
    /\ isr' = "retry"
    /\ refused' = refused + 1
    /\ UNCHANGED <<procVars, param, coreVars, inSection, failed>>

Finished ==
    /\ isr = "clear"
    /\ active' = FALSE
    /\ isr' = "idle" /\ param' = noFrame
    /\ UNCHANGED <<timeout, mpFrame, dt, timer, coreVars, inSection, refused, failed>>

\* Mutant: the retry counts but does not add the timer again.
RetryTimerForgotten == timer

\* The timer after nrf_802154_sl_timer_add of timeout_timer_retry
RetryTimer == TRUE

\* timeout_timer_retry.  The procedure may have been stopped since the refusal;
\* the timer is added all the same.
Retry ==
    /\ isr = "retry"
    /\ dt' = dt + 1
    /\ Assert(dt' <= MAX_RETRY_DELAY /\ ~timer)
    /\ timer' = RetryTimer
    /\ isr' = "idle" /\ param' = noFrame
    /\ UNCHANGED <<timeout, active, mpFrame, coreVars, inSection, refused>>

-----------------------------------------------------------------------------
(* The RADIO interrupt and the scheduler *)

\* The core after a transmission: another state, or the next transmission if
\* the callback, which may nest, asks for it.
CoreGoesOn ==
    /\ onAir' = FALSE /\ ackOnAir' = FALSE
    /\ \/ core' = "OTHER" /\ UNCHANGED <<frame, ack>>
       \/ core' = "TX" /\ frame' \in Frames /\ ack' \in BOOLEAN

MayStart == ~inSection /\ core = "TX" /\ ~onAir /\ (isr # "idle" => SlowIsr)

\* nrf_802154_trx_transmit_frame_started
TransmitStarted ==
    /\ MayStart
    /\ onAir' = TRUE
    /\ Start
    /\ refused' = 0
    /\ UNCHANGED <<timeout, isrVars, core, frame, ack, ackOnAir, inSection>>

\* nrf_802154_trx_transmit_frame_transmitted
Transmitted ==
    /\ ~inSection /\ core = "TX" /\ onAir
    /\ IF ack
       THEN /\ core' = "RX_ACK"
            /\ UNCHANGED <<active, timer, frame, ack, onAir, ackOnAir, failed>>
       ELSE EndedHook /\ CoreGoesOn
    /\ UNCHANGED <<timeout, mpFrame, dt, isrVars, inSection, refused>>

\* nrf_802154_trx_receive_ack_started, nrf_802154_ack_timeout_rx_ack_started_hook
AckStarted ==
    /\ ~inSection /\ core = "RX_ACK" /\ ~ackOnAir
    /\ ackOnAir' = TRUE
    /\ Assert(active)
    /\ Stop
    /\ UNCHANGED <<timeout, mpFrame, dt, isrVars, core, frame, ack, onAir,
                   inSection, refused>>

\* nrf_802154_trx_receive_ack_received, on_bad_ack
AckEnded ==
    /\ ~inSection /\ core = "RX_ACK" /\ ackOnAir
    /\ EndedHook
    /\ CoreGoesOn
    /\ UNCHANGED <<timeout, mpFrame, dt, isrVars, inSection, refused>>

\* nrf_802154_trx_transmit_frame_ccabusy: the failure of a frame that was
\* not started
CcaBusy ==
    /\ ~inSection /\ core = "TX" /\ ~onAir
    /\ EndedHook
    /\ CoreGoesOn
    /\ UNCHANGED <<timeout, mpFrame, dt, isrVars, inSection, refused>>

\* on_timeslot_ended and on_preconditions_denied: the abort hooks, then the
\* failure.  The second notifies without nesting.
Preempted ==
    /\ ~inSection /\ core # "OTHER"
    /\ Terminated
    /\ CoreGoesOn
    /\ UNCHANGED <<timeout, mpFrame, dt, isrVars, inSection, refused, failed>>

-----------------------------------------------------------------------------
(* The thread *)

Enter ==
    /\ ~inSection /\ isr = "idle"
    /\ inSection' = TRUE
    /\ UNCHANGED <<procVars, isrVars, coreVars, refused, failed>>

\* current_operation_terminate at level NRF_802154_TERM_NONE
Yields == ~active /\ core = "OTHER"

\* nrf_802154_core_transmit, _receive and _sleep: current_operation_terminate,
\* with its notification, then the new operation.
Request(force, next) ==
    /\ inSection /\ isr = "idle"
    /\ inSection' = FALSE
    /\ IF force \/ Yields
       THEN /\ Terminated
            /\ core' = next
            /\ onAir' = FALSE /\ ackOnAir' = FALSE
            /\ IF next = "TX" THEN frame' \in Frames /\ ack' \in BOOLEAN
                              ELSE UNCHANGED <<frame, ack>>
       ELSE UNCHANGED <<active, timer, coreVars>>
    /\ UNCHANGED <<timeout, mpFrame, dt, isrVars, refused, failed>>

\* nrf_802154_ack_timeout_time_set
TimeSet(t) ==
    /\ ~inSection /\ isr = "idle"
    /\ t # timeout /\ timeout' = t
    /\ UNCHANGED <<active, mpFrame, dt, timer, isrVars, coreVars, inSection,
                   refused, failed>>

-----------------------------------------------------------------------------
TimerIrq == Fired \/ Handled \/ Refused \/ Finished \/ Retry

RadioIrq ==
    TransmitStarted \/ Transmitted \/ AckStarted \/ AckEnded \/ CcaBusy

Thread ==
    \/ Enter
    \/ \E force \in BOOLEAN, next \in {"TX", "OTHER"} : Request(force, next)
    \/ \E t \in Timeouts : TimeSet(t)

Next == Expires \/ TimerIrq \/ RadioIrq \/ Preempted \/ Thread

Spec == Init /\ [][Next]_vars

\* Timers expire, interrupts run, a transmission that nothing stops starts and
\* ends, an ACK that has started ends, and the thread leaves the section.  A
\* timer or RADIO interrupt that has to wait comes when the thread goes on, hence
\* SF.  No ACK need ever come, and nothing need preempt the wait.
Fairness ==
    /\ SF_vars(Expires) /\ WF_vars(TimerIrq)
    /\ SF_vars(TransmitStarted) /\ SF_vars(Transmitted) /\ SF_vars(AckEnded)
    /\ WF_vars(\E force \in BOOLEAN, next \in {"TX", "OTHER"} : Request(force, next))

FairSpec == Spec /\ Fairness

-----------------------------------------------------------------------------
(* Properties *)

\* The procedure's variables stay in their ranges; m_dt in particular does not pass
\* MAX_RETRY_DELAY, however often the timeout is refused.
TypeOK ==
    /\ timeout \in Timeouts /\ active \in BOOLEAN /\ timer \in BOOLEAN
    /\ mpFrame \in Frames \cup {noFrame} /\ param \in Frames \cup {noFrame}
    /\ dt \in 0..MAX_RETRY_DELAY
    /\ isr \in {"idle", "fired", "request", "clear", "retry"}
    /\ core \in {"OTHER", "TX", "RX_ACK"} /\ frame \in Frames \cup {noFrame}
    /\ ack \in BOOLEAN /\ onAir \in BOOLEAN /\ ackOnAir \in BOOLEAN
    /\ inSection \in BOOLEAN /\ refused \in 0..MaxRefusals
    /\ failed \in BOOLEAN

\* The assertions of the procedure hold: no hook is called for another frame
\* than the one being timed, an ACK starts only while it is being awaited, the
\* retries stay below the limit, a retry never finds its timer armed and a start
\* never finds the timer of a procedure in progress armed, in whatever order the
\* timer, the radio and the scheduler interrupt each other.
AssertsHold == ~failed

\* nrf_802154_sl_timer.h: "A user is forbidden to modify the structure until the
\* callback is called or nrf_802154_sl_timer_remove is successfully called."
\* False for timeout_timer_start: a retry after a stop leaves the timer armed.
OwnedTimerUntouched == MayStart => ~timer

\* Whenever the timer interrupt is not running, an ACK that is awaited and has
\* not started is timed, for the frame that awaits it: no preempted stop and
\* no refused handling leaves the core waiting without a timer.
AwaitedAckIsTimed ==
    core = "RX_ACK" /\ ~ackOnAir /\ isr = "idle"
        => active /\ timer /\ mpFrame = frame

\* The procedure does not outlive its transmission: the abort hook refuses
\* every request of the lowest level while it is active, so a flag left set
\* would block them for good.
NoLeftoverProcedure ==
    isr = "idle" /\ (core = "OTHER" \/ ~onAir) => ~active

\* The procedure is active exactly for the frame whose ACK it has to time.
ProcedureMatchesWait == TypeOK /\ AwaitedAckIsTimed /\ NoLeftoverProcedure

\* A transmission waits for its ACK for a bounded time, even if the ACK never
\* comes and the core is busy each time the timer expires.
AckWaitEnds == core = "RX_ACK" ~> core # "RX_ACK"
============================================================================
