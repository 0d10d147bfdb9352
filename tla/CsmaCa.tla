------------------------------- MODULE CsmaCa -------------------------------
(***************************************************************************)
(* The CSMA-CA procedure of the driver (nrf_802154_csma_ca.c): one frame   *)
(* at a time waits a random backoff in a delayed timeslot, attempts        *)
(* CCA-then-transmit through the core, and backs off again while the       *)
(* channel is busy or the timeslot is taken away.                          *)
(*                                                                         *)
(* The radio core is seen through the tx client interface (op), the radio  *)
(* scheduler through the one delayed timeslot reserved for the procedure   *)
(* (slot).  A callback of the scheduler runs to its end before the higher  *)
(* layer, which it preempts, makes another call; the client callbacks run  *)
(* inside the core's critical section.  Hence one action per handler.      *)
(***************************************************************************)
EXTENDS Integers, FiniteSets

CONSTANTS
    MinBeValues,      \* arguments of nrf_802154_csma_ca_min_be_set
    MaxBeValues,      \* arguments of nrf_802154_csma_ca_max_be_set
    BackoffsValues,   \* arguments of nrf_802154_csma_ca_max_backoffs_set
    CoexModes,        \* arguments of nrf_802154_coex_tx_request_mode_set
    Bsim              \* the build is CONFIG_SOC_SERIES_BSIM_NRFXX

U8 == 0..255
CSMACA_BE_MAXIMUM == 8
MIN_BE_DEFAULT == 3
MAX_BE_DEFAULT == 5
MAX_CSMA_BACKOFFS_DEFAULT == 4

AllCoexModes == {"FRAME_READY", "CCA_START", "CCA_DONE", "ON_CCA_TOGGLE"}

ASSUME CsmaAssumption ==
    /\ MinBeValues \subseteq U8
    /\ MaxBeValues \subseteq U8
    /\ BackoffsValues \subseteq U8
    /\ CoexModes \subseteq AllCoexModes
    /\ Bsim \in BOOLEAN

VARIABLES
    state,            \* m_state
    nb,               \* m_nb, a uint8_t
    be,               \* m_be
    slot,             \* priority of the delayed timeslot, or "none"
    fired,            \* frame_transmit has been called for the timeslot
    op,               \* the attempt in the core: "none", "ccatx" or "tx"
    minBe, maxBe, maxBackoffs, coexMode,             \* the PIB
    \* What the higher layer has seen; not state of the driver.
    owed,             \* frames accepted minus outcomes notified
    outcome,          \* the last outcome notified
    attempts,         \* calls of nrf_802154_request_transmit for the frame
    mostBackoffs,     \* largest max_backoffs since the frame was accepted
    steadyMode,       \* the coex mode has not changed since then
    ccaPrio,          \* priority of the timeslot of the last attempt
    assertsHold       \* no NRF_802154_ASSERT has failed

procVars == <<state, nb, be, slot, fired, op>>
pibVars == <<minBe, maxBe, maxBackoffs, coexMode>>
seenVars == <<owed, outcome, attempts, mostBackoffs, steadyMode, ccaPrio,
              assertsHold>>
vars == <<procVars, pibVars, seenVars>>

States == {"IDLE", "BACKOFF", "ATTEMPTING_CCATX", "TRANSMITTING"}
Errors == {"BUSY_CHANNEL", "TIMESLOT_DENIED", "TIMESLOT_ENDED", "ABORTED",
           "NO_ACK", "INVALID_ACK", "SETUP_FAILED"}

TypeData ==
    /\ state \in States /\ nb \in U8 /\ be \in 0..CSMACA_BE_MAXIMUM
    /\ slot \in {"none", "IDLE_LISTENING", "TX"}
    /\ op \in {"none", "ccatx", "tx"}
    /\ minBe \in 0..CSMACA_BE_MAXIMUM /\ maxBe \in 0..CSMACA_BE_MAXIMUM
    /\ maxBackoffs \in U8 /\ coexMode \in AllCoexModes
    /\ owed \in Int /\ outcome \in Errors \cup {"none", "NONE"}
    /\ attempts \in Nat /\ mostBackoffs \in U8
    /\ ccaPrio \in {"none", "IDLE_LISTENING", "TX"}

TypeFlags ==
    /\ fired \in BOOLEAN
    /\ steadyMode \in BOOLEAN
    /\ assertsHold \in BOOLEAN

\* The types of m_state, the uint8_t counters and exponents, and the PIB: BE is
\* at most 8, so the number of backoff periods fits its uint8_t.
TypeOK == TypeData /\ TypeFlags

\* nrf_802154_pib_init gives the PIB its defaults.
Init ==
    /\ state = "IDLE" /\ nb = 0 /\ be = 0
    /\ slot = "none" /\ fired = FALSE /\ op = "none"
    /\ minBe = MIN_BE_DEFAULT /\ maxBe = MAX_BE_DEFAULT
    /\ maxBackoffs = MAX_CSMA_BACKOFFS_DEFAULT
    /\ coexMode = "ON_CCA_TOGGLE"
    /\ owed = 0 /\ outcome = "none" /\ attempts = 0 /\ mostBackoffs = 0
    /\ steadyMode = TRUE /\ ccaPrio = "none" /\ assertsHold = TRUE

-----------------------------------------------------------------------------
\* random_backoff_start: the priority of the timeslot decides whether coex is
\* requested during the backoff that begins with m_nb = n.
BackoffPrio(n) ==
    CASE coexMode = "FRAME_READY" -> "TX"
      [] coexMode = "CCA_START" -> IF n = 0 THEN "IDLE_LISTENING" ELSE "TX"
      [] OTHER -> "IDLE_LISTENING"

\* Mutant: only the first backoff of a frame asks for a timeslot.
RandomBackoffOnce(n, held, ok) ==
    /\ slot' = IF n = 0 THEN BackoffPrio(n) ELSE held
    /\ assertsHold' = (assertsHold /\ ok /\ held = "none")

\* random_backoff_start asks for the timeslot of the reserved identifier, which
\* is refused while that timeslot exists; held is what is left of it.  ok stands
\* for the assertions made earlier in the same handler.
RandomBackoffStart(n, held, ok) ==
    /\ slot' = BackoffPrio(n)
    /\ assertsHold' = (assertsHold /\ ok /\ held = "none")

\* csma_ca_finish_failed, csma_ca_tx_done: the outcome goes to the higher layer.
Notify(error) ==
    /\ state' = "IDLE"
    /\ owed' = owed - 1
    /\ outcome' = error

\* Mutant: one backoff too many.
ExhaustedLate(n) == n > maxBackoffs + 1

Exhausted(n) == n > maxBackoffs

\* Mutant: channel_busy does not compare the state it leaves.
FailedAnyState(s, error, held, ok) ==
    LET retryable == error \in {"BUSY_CHANNEL", "TIMESLOT_DENIED",
                                "TIMESLOT_ENDED"}
        n == (nb + 1) % 256 IN
    /\ nb' = IF retryable THEN n ELSE nb
    /\ UNCHANGED be
    /\ IF retryable /\ ~Exhausted(n)
       THEN /\ state' = "BACKOFF"
            /\ RandomBackoffStart(n, held, ok)
            /\ UNCHANGED <<owed, outcome>>
       ELSE /\ Notify(error)
            /\ slot' = held
            /\ assertsHold' = (assertsHold /\ ok)

\* channel_busy and csma_ca_failed, called with m_state = s while the timeslot
\* is held: the first disjunct is a compare-and-swap that succeeds and leaves
\* backoffs to spend, the second gives the frame up.
Failed(s, error, held, ok) ==
    LET retryable == error \in {"BUSY_CHANNEL", "TIMESLOT_DENIED",
                                "TIMESLOT_ENDED"}
                     /\ s = "ATTEMPTING_CCATX"
        n == (nb + 1) % 256 IN
    /\ IF retryable
       THEN /\ nb' = n
            /\ be' = IF be < maxBe THEN be + 1 ELSE be
       ELSE UNCHANGED <<nb, be>>
    /\ \/ /\ retryable /\ ~Exhausted(n)
          /\ state' = "BACKOFF"
          /\ RandomBackoffStart(n, held, ok)
          /\ UNCHANGED <<owed, outcome>>
       \/ /\ ~(retryable /\ ~Exhausted(n))
          /\ Notify(error)
          /\ slot' = held
          /\ assertsHold' = (assertsHold /\ ok)

\* Mutant: the state is set without comparing it.
CsmaCaStartAnyState ==
    /\ ~fired
    /\ owed < 2
    /\ state' = "BACKOFF"
    /\ nb' = 0 /\ be' = minBe
    /\ RandomBackoffStart(0, slot, TRUE)
    /\ owed' = owed + 1 /\ outcome' = "none" /\ attempts' = 0
    /\ mostBackoffs' = maxBackoffs /\ steadyMode' = TRUE
    /\ UNCHANGED <<fired, op, pibVars, ccaPrio>>

\* nrf_802154_csma_ca_start, when the compare-and-swap finds IDLE; otherwise it
\* returns TIMESLOT_DENIED and changes nothing.
CsmaCaStart ==
    /\ state = "IDLE" /\ ~fired
    /\ state' = "BACKOFF"
    /\ nb' = 0 /\ be' = minBe
    /\ RandomBackoffStart(0, slot, TRUE)
    /\ owed' = owed + 1 /\ outcome' = "none" /\ attempts' = 0
    /\ mostBackoffs' = maxBackoffs /\ steadyMode' = TRUE
    /\ UNCHANGED <<fired, op, pibVars, ccaPrio>>

\* External: the radio scheduler starts the timeslot and calls its
\* started_callback once.
SlotStart ==
    /\ slot # "none" /\ ~fired
    /\ fired' = TRUE
    /\ UNCHANGED <<state, nb, be, slot, op, pibVars, seenVars>>

\* priority_leverage: the first attempt of CCA_START raises the timeslot.
LeveragedPrio ==
    IF nb = 0 /\ coexMode = "CCA_START" /\ slot # "none" THEN "TX" ELSE slot

\* The timeslot that priority_leverage updates must exist.
LeverageAssert == nb = 0 /\ coexMode = "CCA_START" => slot # "none"

\* Mutant: the core leaves the timeslot to its owner.
SlotKept == slot

\* The end of nrf_802154_core_transmit: the timeslot is cancelled, whatever the
\* result.
SlotAfterTransmit == "none"

\* frame_transmit.  nrf_802154_core_transmit refuses without a critical section
\* or timeslot (TIMESLOT_DENIED), when the current operation may not be
\* terminated (BUSY_CHANNEL), or when a hook fails.  With the state changed
\* under the callback, the timeslot is returned.
FrameTransmit ==
    /\ fired
    /\ fired' = FALSE
    /\ UNCHANGED <<pibVars, mostBackoffs, steadyMode>>
    /\ \/ /\ state = "BACKOFF"
          /\ attempts' = attempts + 1
          /\ ccaPrio' = LeveragedPrio
          /\ \/ /\ state' = "ATTEMPTING_CCATX" /\ op' = "ccatx"
                /\ slot' = SlotAfterTransmit
                /\ assertsHold' = (assertsHold /\ LeverageAssert)
                /\ UNCHANGED <<nb, be, owed, outcome>>
             \/ /\ \E e \in {"TIMESLOT_DENIED", "BUSY_CHANNEL", "SETUP_FAILED"} :
                       Failed("ATTEMPTING_CCATX", e, SlotAfterTransmit,
                              LeverageAssert)
                /\ UNCHANGED op
       \/ /\ state # "BACKOFF"
          /\ slot' = "none"
          /\ assertsHold' = (assertsHold /\ (slot # "none" \/ state = "IDLE"))
          /\ UNCHANGED <<state, nb, be, op, owed, outcome, attempts, ccaPrio>>

\* csma_ca_tx_started: the address of the frame is on the air; in a simulation
\* build the core reports this as soon as the radio is set up, before the CCA.
TxStarted ==
    /\ op = "ccatx"
    /\ op' = "tx"
    /\ state' = IF state = "ATTEMPTING_CCATX" THEN "TRANSMITTING" ELSE state
    /\ assertsHold' = (assertsHold /\ state \in {"ATTEMPTING_CCATX", "IDLE"})
    /\ UNCHANGED <<nb, be, slot, fired, pibVars, owed, outcome, attempts,
                   mostBackoffs, steadyMode, ccaPrio>>

\* csma_ca_tx_done.
TxDone ==
    /\ op = "tx"
    /\ op' = "none"
    /\ Notify("NONE")
    /\ assertsHold' = (assertsHold /\ state \in {"TRANSMITTING", "IDLE"})
    /\ UNCHANGED <<nb, be, slot, fired, pibVars, attempts, mostBackoffs,
                   steadyMode, ccaPrio>>

\* The errors with which the core ends an attempt, before and after started.
CoreErrors ==
    {"TIMESLOT_ENDED", "ABORTED"}
      \cup (IF op = "tx" THEN {"NO_ACK", "INVALID_ACK"} ELSE {})
      \cup (IF (op = "tx") = Bsim THEN {"BUSY_CHANNEL"} ELSE {})

\* csma_ca_failed, called by the core: a busy channel, the end of the timeslot,
\* no or a wrong ACK, a denied precondition or a request that takes the radio.
TxFailed ==
    /\ op # "none"
    /\ op' = "none"
    /\ \E e \in CoreErrors : Failed(state, e, slot, TRUE)
    /\ UNCHANGED <<fired, pibVars, attempts, mostBackoffs, steadyMode, ccaPrio>>

\* nrf_802154_reinit: core_sleep_with_cancel_csma_ca terminates the attempt,
\* csma_ca_cancel drops the backoff, and the PIB gets its defaults.  The
\* notification of the terminated attempt is flushed, so the frame is dropped.
Reinit ==
    /\ state' = "IDLE" /\ slot' = "none" /\ op' = "none"
    /\ owed' = 0 /\ outcome' = "none"
    /\ minBe' = MIN_BE_DEFAULT /\ maxBe' = MAX_BE_DEFAULT
    /\ maxBackoffs' = MAX_CSMA_BACKOFFS_DEFAULT
    /\ coexMode' = "ON_CCA_TOGGLE"
    /\ UNCHANGED <<nb, be, fired, attempts, mostBackoffs, steadyMode, ccaPrio,
                   assertsHold>>

\* nrf_802154_pib_csmaca_min_be_set, when the value is accepted.
MinBeSet(v) ==
    /\ v <= CSMACA_BE_MAXIMUM
    /\ minBe' = v
    /\ UNCHANGED <<procVars, maxBe, maxBackoffs, coexMode, seenVars>>

\* nrf_802154_pib_csmaca_max_be_set, when the value is accepted.
MaxBeSet(v) ==
    /\ v <= CSMACA_BE_MAXIMUM
    /\ maxBe' = v
    /\ UNCHANGED <<procVars, minBe, maxBackoffs, coexMode, seenVars>>

\* nrf_802154_pib_csmaca_max_backoffs_set takes every value.
MaxBackoffsSet(v) ==
    /\ maxBackoffs' = v
    /\ mostBackoffs' = IF v > mostBackoffs THEN v ELSE mostBackoffs
    /\ UNCHANGED <<procVars, minBe, maxBe, coexMode, owed, outcome, attempts,
                   steadyMode, ccaPrio, assertsHold>>

\* nrf_802154_coex_tx_request_mode_set.
CoexModeSet(m) ==
    /\ coexMode' = m
    /\ steadyMode' = (steadyMode /\ m = coexMode)
    /\ UNCHANGED <<procVars, minBe, maxBe, maxBackoffs, owed, outcome, attempts,
                   mostBackoffs, ccaPrio, assertsHold>>

Next ==
    \/ CsmaCaStart \/ SlotStart \/ FrameTransmit
    \/ TxStarted \/ TxDone \/ TxFailed
    \/ Reinit
    \/ \E v \in MinBeValues : MinBeSet(v)
    \/ \E v \in MaxBeValues : MaxBeSet(v)
    \/ \E v \in BackoffsValues : MaxBackoffsSet(v)
    \/ \E m \in CoexModes : CoexModeSet(m)

Spec == Init /\ [][Next]_vars

\* The scheduler starts every timeslot and runs its callback, and the core ends
\* every attempt it has accepted (RadioCore's TransmitCompletes).
Fairness ==
    /\ WF_vars(SlotStart)
    /\ WF_vars(FrameTransmit)
    /\ WF_vars(TxStarted \/ TxDone \/ TxFailed)

FairSpec == Spec /\ Fairness

-----------------------------------------------------------------------------
\* No assertion of the procedure fails: the reserved timeslot is free whenever
\* a backoff asks for it, exists when its priority is raised or it is returned,
\* and the core reports started and done in the states that await them
\* (nrf_802154_csma_ca.c:151, :211, :277, :319, :490, :518).
AssertsHold == assertsHold

\* A frame that nrf_802154_csma_ca_start accepted is answered by exactly one
\* nrf_802154_transmitted_raw or nrf_802154_transmit_failed before the next one
\* is accepted.
OutcomeOnce == owed = IF state = "IDLE" THEN 0 ELSE 1

\* The procedure never waits for something that cannot come: in a backoff the
\* timeslot is scheduled or its callback is on the way, in an attempt the core
\* holds the frame; and nothing is left scheduled when it is over.
NeverStranded ==
    /\ state = "BACKOFF" <=> slot # "none"
    /\ state \in {"ATTEMPTING_CCATX", "TRANSMITTING"} <=> op # "none"

\* What becomes of an accepted frame: one outcome, and until then something that
\* leads to it.
FrameAccounted == OutcomeOnce /\ NeverStranded

\* The channel is assessed at most once more often than the largest
\* max_backoffs in force during the procedure.
AttemptsBounded == attempts <= mostBackoffs + 1

\* BE never exceeds the configured maximum ("Sets the maximum value of the
\* backoff exponent (BE) in the CSMA-CA algorithm", nrf_802154.h:1232).
BeWithinMax == state = "BACKOFF" => be <= maxBe

\* Coex is requested for the CCA of every attempt in the modes FRAME_READY and
\* CCA_START, and for no backoff in the others, as long as the mode is kept.
CoexRequestFollowsMode ==
    op # "none" /\ steadyMode =>
        ccaPrio = IF coexMode \in {"FRAME_READY", "CCA_START"}
                  THEN "TX" ELSE "IDLE_LISTENING"

\* "when channel is busy NB and BE shall be incremented and the device shall
\* wait random delay before next CCA procedure" (nrf_802154_csma_ca.c:286): a
\* frame fails for a busy channel only when its backoffs are spent.
BusyIsRetried ==
    [][owed' < owed /\ outcome' = "BUSY_CHANNEL" => attempts' > maxBackoffs]_vars

\* Once on the air a frame is never sent again by the procedure.
StartedIsLast ==
    [][state = "TRANSMITTING" => state' \in {"TRANSMITTING", "IDLE"}]_vars

\* A busy channel is retried while backoffs are left, and a frame on the air is
\* not, whatever the order of the core's reports and of changes to the PIB.
RetryDiscipline == BusyIsRetried /\ StartedIsLast

\* The end of the procedure is always notified (nrf_802154.h:1180).
ProcedureEnds == owed > 0 ~> owed = 0

=============================================================================
