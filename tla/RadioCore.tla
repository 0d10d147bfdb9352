----------------------------- MODULE RadioCore -----------------------------
(***************************************************************************)
(* The state machine of the 802.15.4 driver                                *)
(* (driver/src/nrf_802154_core.c) with the states of the transceiver layer *)
(* below it (driver/src/nrf_802154_trx.c).                                 *)
(*                                                                         *)
(* Every handler runs inside the driver's critical section, so it is one   *)
(* step here (module CriticalSection shows why that is sound).  The steps  *)
(* are the scheduler's priority changes, the RADIO interrupts, the ACK     *)
(* timeout and the requests of the higher layer, in any order the driver   *)
(* allows.                                                                 *)
(*                                                                         *)
(* The scheduler, the air and the higher layer are the environment.  The   *)
(* configuration is: notifications through the software interrupt, coex    *)
(* receive requests in DESTINED mode, no antenna diversity, frame          *)
(* timestamps enabled.  With direct notifications, those of the            *)
(* open-source service layer, callbacks run in the middle of handlers:     *)
(* that build is not modelled.                                             *)
(***************************************************************************)
EXTENDS Integers, FiniteSets

CONSTANTS
    NBuf,        \* NRF_802154_RX_BUFFERS
    PrioLevels,  \* priorities the scheduler may approve
    CcaDone,     \* coex TX request mode is CCA_DONE
    EdIter,      \* ED_ITER_DURATION
    EdTimes      \* durations asked of nrf_802154_energy_detection

\* rsch_prio_t
IDLE           == 0
IDLE_LISTENING == 1
PRIO_RX        == 2
PRIO_TX        == 4

ASSUME ConfigAssumption ==
    /\ NBuf \in Nat \ {0} /\ EdIter \in Nat \ {0}
    /\ PrioLevels \subseteq IDLE..PRIO_TX
    /\ {IDLE, PRIO_TX} \subseteq PrioLevels
    /\ CcaDone \in BOOLEAN
    /\ EdTimes \subseteq Nat /\ EdTimes # {}
\* Coex TX requests after CCA: without coex the approved priority is
\* RSCH_PRIO_RX (see preconditions_approved_should_be_ignored).
ASSUME CoexAssumption == CcaDone => IDLE_LISTENING \notin PrioLevels

Buffers == 1..NBuf
None    == 0

Carriers == {"CONTINUOUS_CARRIER", "MODULATED_CARRIER"}
TxStates == {"CCA_TX", "TX", "RX_ACK"}
States   == {"SLEEP", "FALLING_ASLEEP", "RX", "TX_ACK", "ED", "CCA"}
                \cup TxStates \cup Carriers

\* trx_state_t.  TXCCA and TXFRAME are TRX_STATE_TXFRAME before and after the
\* channel was found idle; TXACK_LATE is TRX_STATE_TXACK when the ACK could
\* not be triggered in time and no interrupt was enabled.
TrxStates == {"DISABLED", "IDLE", "GOING_IDLE", "RXFRAME", "RXFRAME_FINISHED",
              "RXACK", "TXCCA", "TXFRAME", "TXACK", "TXACK_LATE", "CCA", "ED",
              "FINISHED"} \cup Carriers

\* Who asks for a transmission: imm_tx, csma_ca or delayed_trx.
Clients == {"imm", "csma", "delayed"}

VARIABLES
    state,     \* m_state
    prio,      \* m_rsch_priority; the timeslot is granted iff it is not IDLE
    requested, \* last argument of nrf_802154_rsch_crit_sect_prio_request
    trx,       \* m_trx_state
    stage,     \* the frame being received: idle, header seen, destined to us
    missing,   \* missing_receive_buffer
    cur,       \* mp_current_rx_buffer
    noBuf,     \* m_no_rx_buffer_notified
    free,      \* buffers whose free flag is set
    app,       \* buffers the higher layer holds
    client,    \* m_tx.p_client
    txAck,     \* the frame in m_tx requests an ACK
    dim,       \* tx_diminished_prio
    edLeft,    \* m_ed_time_left
    edCount,   \* iterations given to nrf_802154_trx_energy_detection
    edAsked,   \* ghost: duration of the current energy detection
    edDone,    \* ghost: iterations measured for it
    open,      \* ghost: accepted operations without an outcome yet
    dup,       \* ghost: operations whose outcome was notified again
    closing,   \* the scheduler will not extend the timeslot: it will end
    rxOnIdle   \* nrf_802154_pib_rx_on_when_idle_get

rxVars  == <<stage, missing, cur, noBuf>>
bufVars == <<free, app>>
txVars  == <<client, txAck, dim>>
edVars  == <<edLeft, edCount, edAsked, edDone>>
outVars == <<open, dup>>
envVars == <<prio, closing, rxOnIdle>>
vars == <<state, requested, trx, rxVars, bufVars, txVars, edVars, outVars, envVars>>

Init ==
    /\ state = "SLEEP" /\ trx = "DISABLED"
    /\ prio = IDLE /\ requested = IDLE
    /\ stage = "idle" /\ missing = FALSE /\ cur = None /\ noBuf = FALSE
    /\ free = Buffers /\ app = {}
    /\ client = "none" /\ txAck = FALSE /\ dim = FALSE
    /\ edLeft = 0 /\ edCount = 0 /\ edAsked = 0 /\ edDone = 0
    /\ open = {} /\ dup = {}
    /\ closing = FALSE /\ rxOnIdle \in BOOLEAN

-----------------------------------------------------------------------------
(* Preconditions *)

\* min_required_rsch_prio
MinPrio(s, d) ==
    CASE s = "SLEEP" -> IDLE
      [] s \in {"FALLING_ASLEEP", "RX"} -> IDLE_LISTENING
      [] s \in {"RX_ACK", "ED", "CCA"} -> PRIO_RX
      [] s = "CCA_TX" /\ d -> IDLE_LISTENING
      [] OTHER -> PRIO_TX

\* is_state_allowed_for_prio
Allowed(p) == MinPrio(state, dim) <= p

\* timeslot_is_granted() && are_preconditions_met()
MayStart == prio # IDLE /\ Allowed(prio)

\* Mutant: the new state's priority is not requested.
StateSetOnly(s) ==
    /\ state' = s
    /\ UNCHANGED requested

\* state_set, with request_preconditions_for_state
StateSet(s) ==
    /\ state' = s
    /\ requested' = MinPrio(s, dim')

-----------------------------------------------------------------------------
(* Outcomes told to the higher layer *)

\* Mutant: a transmission that waits for its ACK is not reported.
OperationUntilSent(s) ==
    CASE s \in {"CCA_TX", "TX"} -> {"tx"}
      [] s = "ED" -> {"ed"}
      [] s = "CCA" -> {"cca"}
      [] OTHER -> {}

\* The operation a state belongs to, as far as it has an outcome to notify.
Operation(s) ==
    CASE s \in TxStates -> {"tx"}
      [] s = "ED" -> {"ed"}
      [] s = "CCA" -> {"cca"}
      [] OTHER -> {}

\* The outcomes of ended are notified and the operations begun are accepted.
Outcomes(ended, begun) ==
    /\ open' = (open \ ended) \cup begun
    /\ dup' = dup \cup (ended \ open)

\* tx_client_failed_notify / tx_client_transmitted_notify: the client is told
\* and forgotten.
TxNotify ==
    /\ Outcomes({"tx"}, {})
    /\ client' = "none"

\* Mutant: the buffer's free flag is not cleared.
DeliverStillFree ==
    /\ app' = app \cup {cur}
    /\ UNCHANGED free

\* The current buffer becomes the higher layer's (received_frame_notify).
Deliver ==
    /\ free' = free \ {cur}
    /\ app' = app \cup {cur}

-----------------------------------------------------------------------------
(* Starting an operation *)

\* nrf_802154_rx_buffer_free_find
FreeFind(f) == IF f = {} THEN None ELSE CHOOSE b \in f : \A c \in f : b <= c

\* The current buffer if it is free, else another; notify_no_rx_buffer when
\* there is none.
RxBufferSelect ==
    /\ cur' = IF cur \in free' THEN cur ELSE FreeFind(free')
    /\ missing' = (cur' = None)
    /\ noBuf' = (noBuf \/ cur' = None)

RxOff ==
    /\ stage' = "idle" /\ missing' = FALSE
    /\ UNCHANGED <<cur, noBuf>>

\* rx_init.  left is the transceiver's state if reception does not start.
RxInit(left) ==
    IF MayStart'
    THEN /\ RxBufferSelect
         /\ stage' = "idle"
         /\ trx' = "RXFRAME"
    ELSE /\ RxOff
         /\ trx' = left

\* switch_to_idle
SwitchToIdle(left) ==
    IF rxOnIdle
    THEN StateSet("RX") /\ RxInit(left)
    ELSE StateSet("SLEEP") /\ RxOff /\ trx' = left

\* tx_init up to nrf_802154_trx_transmit_frame
TxInit == MayStart' /\ trx' = IF state' = "CCA_TX" THEN "TXCCA" ELSE "TXFRAME"

\* nrf_802154_rsch_timeslot_request is refused only when the timeslot is
\* closing; preconditions may be unmet at any time.
TxInitFails == ~MayStart' \/ closing

\* ed_iter_setup with time left to measure: the whole of it, as much as the
\* closing timeslot holds, or nothing.
EdIterSetup(time, left) ==
    \/ /\ edCount' = time \div EdIter
       /\ edLeft' = 0
       /\ trx' = "ED"
    \/ /\ closing
       /\ \E n \in 1..(time \div EdIter) :
             /\ edCount' = n
             /\ edLeft' = time - n * EdIter
       /\ trx' = "ED"
    \/ /\ closing
       /\ edLeft' = time
       /\ trx' = left
       /\ UNCHANGED edCount

\* ed_init
EdInit(time, left) ==
    IF MayStart'
    THEN EdIterSetup(time, left)
    ELSE edLeft' = time /\ trx' = left /\ UNCHANGED edCount

\* cca_init
CcaInit(left) ==
    \/ MayStart' /\ trx' = "CCA"
    \/ (~MayStart' \/ closing) /\ trx' = left

\* continuous_carrier_init, modulated_carrier_init
CarrierInit(left) == trx' = IF MayStart' THEN state' ELSE left

-----------------------------------------------------------------------------
(* Terminating the current operation *)

\* nrf_802154_trx_abort
Aborted(t) == IF t \in {"DISABLED", "IDLE"} THEN t ELSE "FINISHED"

\* tx_client_can_abort and can_terminate_current_operation for a request of
\* the module by.  The hooks refuse nothing these two allow, except a request
\* that does not force during a delayed reception window, which then changes
\* nothing.
CanTerminate(force, by) ==
    \/ force
    \/ /\ client = "csma" => by = "csma"
       /\ \/ state \in {"SLEEP", "FALLING_ASLEEP"} \cup Carriers
          \/ state = "RX" /\ stage = "idle"

\* Mutant: the client of a terminated transmission is not forgotten.
TerminatedClientKept(s) == client

\* Mutant: a frame whose ACK is cut short is forgotten.
TerminatedBuffersKept(s) == UNCHANGED bufVars

\* operation_terminated_notify: a frame whose ACK is cut short is delivered,
\* a transmission's client is told and forgotten.
TerminatedBuffers(s) == IF s = "TX_ACK" THEN Deliver ELSE UNCHANGED bufVars
TerminatedClient(s)  == IF s \in TxStates THEN "none" ELSE client

-----------------------------------------------------------------------------
(* The scheduler: nrf_802154_rsch_crit_sect_prio_changed *)

\* on_timeslot_ended
TimeslotEnded ==
    /\ prio # IDLE
    /\ prio' = IDLE /\ closing' = FALSE
    /\ trx' = "DISABLED"
    /\ RxOff
    /\ UNCHANGED <<txAck, dim, edVars, rxOnIdle>>
    /\ CASE state = "FALLING_ASLEEP" ->
                StateSet("SLEEP") /\ UNCHANGED <<bufVars, client, outVars>>
         [] state = "TX_ACK" ->
                StateSet("RX") /\ Deliver /\ UNCHANGED <<client, outVars>>
         [] state \in TxStates ->
                StateSet("RX") /\ TxNotify /\ UNCHANGED bufVars
         [] OTHER ->
                UNCHANGED <<state, requested, bufVars, client, outVars>>

\* The transceiver at the start of prio_changed's second half:
\* on_timeslot_started enables it.
TrxEnabled == IF prio = IDLE THEN "IDLE" ELSE trx

\* on_preconditions_denied, then on_preconditions_approved for the state it
\* leads to.  (RX and FALLING_ASLEEP are denied only with the timeslot.)
PreconditionsDenied ==
    /\ dim' = (dim /\ state # "CCA_TX")
    /\ TerminatedBuffers(state)
    /\ client' = TerminatedClient(state)
    /\ Outcomes(Operation(state), {})
    /\ IF state \in TxStates \cup {"TX_ACK"}
       THEN StateSet("RX") /\ RxInit("FINISHED")
       ELSE /\ trx' = Aborted(TrxEnabled)
            /\ UNCHANGED <<state, requested, rxVars>>
    /\ UNCHANGED edVars

\* on_preconditions_approved
PreconditionsApproved ==
    LET left == Aborted(TrxEnabled) IN
    /\ UNCHANGED <<state, requested, bufVars, client, dim, outVars>>
    /\ UNCHANGED <<edAsked, edDone>>
    /\ \/ state = "RX" /\ RxInit(left) /\ UNCHANGED <<edLeft, edCount>>
       \/ /\ state \in {"CCA_TX", "TX"}
          /\ TxInit \/ (TxInitFails /\ trx' = left)
          /\ UNCHANGED <<rxVars, edLeft, edCount>>
       \/ state = "ED" /\ EdInit(edLeft, left) /\ UNCHANGED rxVars
       \/ state = "CCA" /\ CcaInit(left) /\ UNCHANGED <<rxVars, edLeft, edCount>>
       \/ state \in Carriers /\ CarrierInit(left) /\ UNCHANGED <<rxVars, edLeft, edCount>>

\* Mutant: every approval is ignored before the CCA is done.
ApprovalIgnoredAlways(p) == state = "CCA_TX" /\ CcaDone

\* preconditions_approved_should_be_ignored
ApprovalIgnored(p) ==
    prio = PRIO_RX /\ p = PRIO_TX /\ state = "CCA_TX" /\ CcaDone

PrioChanged(p) ==
    /\ p \notin {prio, IDLE}
    /\ prio' = p
    /\ UNCHANGED <<closing, rxOnIdle, txAck>>
    /\ CASE Allowed(prio) /\ ~Allowed(p) -> PreconditionsDenied
         [] ~Allowed(prio) /\ Allowed(p) /\ ~ApprovalIgnored(p) -> PreconditionsApproved
         [] OTHER -> /\ trx' = TrxEnabled
                     /\ UNCHANGED <<state, requested, rxVars, bufVars, client,
                                    dim, edVars, outVars>>

\* The scheduler cannot extend the timeslot any more.
TimeslotClosing ==
    /\ prio # IDLE /\ ~closing
    /\ closing' = TRUE
    /\ UNCHANGED <<state, requested, trx, rxVars, bufVars, txVars, edVars,
                   outVars, prio, rxOnIdle>>

-----------------------------------------------------------------------------
(* RADIO interrupts: reception *)

\* The radio receives only into a buffer.
Receiving == trx = "RXFRAME" /\ ~missing

\* nrf_802154_trx_receive_frame_bcmatched: the next part of the frame's header
\* passes the filter (a frame destined to this device asks for more priority,
\* a multipurpose frame does not), fails it, or no timeslot is left for the
\* frame.
BcMatched ==
    /\ Receiving
    /\ UNCHANGED <<bufVars, txVars, edVars, outVars, envVars>>
    /\ \/ /\ stage = "idle" /\ stage' = "header"
          /\ UNCHANGED <<state, requested, trx, missing, cur, noBuf>>
       \/ /\ stage = "header" /\ stage' = "destined"
          /\ requested' \in {PRIO_RX, requested}
          /\ UNCHANGED <<state, trx, missing, cur, noBuf>>
       \/ StateSet(state) /\ RxInit("FINISHED")
       \/ /\ stage = "idle" /\ closing
          /\ UNCHANGED <<state, requested>>
          /\ RxInit("FINISHED")

\* nrf_802154_trx_receive_frame_crcerror
FrameCrcError ==
    /\ Receiving
    /\ requested' = MinPrio(state, dim)
    /\ stage' = "idle"
    /\ UNCHANGED <<state, trx, missing, cur, noBuf, bufVars, txVars, edVars,
                   outVars, envVars>>

\* nrf_802154_trx_receive_frame_received of a frame that is acknowledged
\* (with the ACK triggered in time or not), passed on, or dropped into the
\* same buffer.
FrameAcked ==
    /\ Receiving
    /\ UNCHANGED <<txVars, edVars, outVars, envVars>>
    /\ \/ /\ MinPrio("TX_ACK", dim) <= prio
          /\ StateSet("TX_ACK") /\ trx' = "TXACK" /\ stage' = "idle"
          /\ UNCHANGED <<missing, cur, noBuf, bufVars>>
       \/ Deliver /\ SwitchToIdle("TXACK_LATE") /\ MinPrio("TX_ACK", dim) <= prio
       \/ Deliver /\ SwitchToIdle("RXFRAME_FINISHED") /\ MinPrio("TX_ACK", dim) > prio

FrameDelivered ==
    /\ Receiving
    /\ UNCHANGED <<txVars, edVars, outVars, envVars>>
    /\ Deliver
    /\ SwitchToIdle("RXFRAME_FINISHED")

FrameDropped ==
    /\ Receiving
    /\ UNCHANGED <<bufVars, txVars, edVars, outVars, envVars>>
    /\ StateSet(state)
    /\ RxInit("RXFRAME_FINISHED")

\* nrf_802154_trx_transmit_ack_transmitted, and _ack_started when the hooks do
\* not fit into the closing timeslot.
AckTransmitted ==
    /\ trx = "TXACK"
    /\ UNCHANGED <<txVars, edVars, outVars, envVars>>
    /\ Deliver
    /\ SwitchToIdle("FINISHED")

-----------------------------------------------------------------------------
(* RADIO interrupts: transmission *)

\* nrf_802154_trx_transmit_frame_started when the hooks do not fit into the
\* closing timeslot.
TransmitStartedLate ==
    /\ trx = "TXFRAME" /\ closing
    /\ UNCHANGED <<bufVars, txAck, dim, edVars, envVars>>
    /\ SwitchToIdle("FINISHED")
    /\ TxNotify

\* nrf_802154_trx_transmit_frame_ccaidle
CcaIdle ==
    /\ trx = "TXCCA"
    /\ trx' = "TXFRAME"
    /\ requested' = IF CcaDone THEN PRIO_TX ELSE requested
    /\ dim' = (dim /\ ~CcaDone)
    /\ UNCHANGED <<state, rxVars, bufVars, client, txAck, edVars, outVars, envVars>>

\* nrf_802154_trx_transmit_frame_ccabusy
CcaBusy ==
    /\ trx = "TXCCA"
    /\ UNCHANGED <<bufVars, txAck, dim, edVars, envVars>>
    /\ SwitchToIdle("FINISHED")
    /\ TxNotify

\* nrf_802154_trx_transmit_frame_transmitted
FrameTransmitted ==
    /\ trx = "TXFRAME"
    /\ dim' = (dim /\ state # "CCA_TX")
    /\ UNCHANGED <<bufVars, txAck, edVars, envVars>>
    /\ IF txAck
       THEN /\ StateSet("RX_ACK")
            /\ RxBufferSelect
            /\ trx' = "RXACK"
            /\ UNCHANGED <<stage, client, outVars>>
       ELSE SwitchToIdle("FINISHED") /\ TxNotify

\* nrf_802154_trx_receive_ack_received with the expected ACK: its buffer goes
\* to the higher layer.  A pending-data ACK keeps the receiver on.
AckReceived ==
    /\ trx = "RXACK" /\ ~missing
    /\ UNCHANGED <<txAck, dim, edVars, envVars>>
    /\ Deliver
    /\ SwitchToIdle("FINISHED") \/ (StateSet("RX") /\ RxInit("FINISHED"))
    /\ TxNotify

\* on_bad_ack
BadAck ==
    /\ trx = "RXACK" /\ ~missing
    /\ UNCHANGED <<bufVars, txAck, dim, edVars, envVars>>
    /\ SwitchToIdle("FINISHED")
    /\ TxNotify

\* nrf_802154_core_ack_timeout_handle for the frame in flight.
AckTimeout ==
    /\ state = "RX_ACK"
    /\ UNCHANGED <<bufVars, txAck, dim, edVars, envVars>>
    /\ IF rxOnIdle
       THEN StateSet("RX") /\ RxInit("FINISHED")
       ELSE StateSet("FALLING_ASLEEP") /\ RxOff /\ trx' = "GOING_IDLE"
    /\ TxNotify

-----------------------------------------------------------------------------
(* RADIO interrupts: the other operations *)

\* nrf_802154_trx_standalone_cca_finished
CcaFinished ==
    /\ trx = "CCA"
    /\ UNCHANGED <<bufVars, txVars, edVars, envVars>>
    /\ SwitchToIdle("FINISHED")
    /\ Outcomes({"cca"}, {})

\* nrf_802154_trx_energy_detection_finished
EdFinished ==
    /\ trx = "ED"
    /\ edDone' = edDone + edCount
    /\ UNCHANGED <<bufVars, txVars, edAsked, envVars>>
    /\ IF edLeft >= EdIter
       THEN /\ EdIterSetup(edLeft, "FINISHED")
            /\ UNCHANGED <<state, requested, rxVars, outVars>>
       ELSE /\ SwitchToIdle("FINISHED")
            /\ Outcomes({"ed"}, {})
            /\ UNCHANGED <<edLeft, edCount>>

\* nrf_802154_trx_go_idle_finished
GoIdleFinished ==
    /\ trx = "GOING_IDLE"
    /\ trx' = "IDLE"
    /\ UNCHANGED <<rxVars, bufVars, txVars, edVars, outVars, envVars>>
    /\ StateSet("SLEEP")

-----------------------------------------------------------------------------
(* Requests.  A request that may not terminate the current operation, or that *)
(* finds too little time in a closing timeslot, changes nothing.             *)

\* core_sleep: after current_operation_terminate the transceiver goes idle.
CoreSleep ==
    IF prio = IDLE
    THEN StateSet("SLEEP") /\ trx' = trx
    ELSE CASE Aborted(trx) = "IDLE" -> StateSet("SLEEP") /\ trx' = "IDLE"
           [] OTHER -> StateSet("FALLING_ASLEEP") /\ trx' = "GOING_IDLE"

\* nrf_802154_core_sleep from nrf_802154_sleep or, without force,
\* nrf_802154_sleep_if_idle.
Sleep(force) ==
    /\ state \notin {"SLEEP", "FALLING_ASLEEP"}
    /\ CanTerminate(force, "core")
    /\ TerminatedBuffers(state) /\ client' = TerminatedClient(state)
    /\ Outcomes(Operation(state), {})
    /\ UNCHANGED <<txAck, dim, edVars, envVars>>
    /\ CoreSleep
    /\ RxOff

\* nrf_802154_core_receive
Receive ==
    /\ state \notin {"RX", "TX_ACK"}
    /\ client' = TerminatedClient(state)
    /\ Outcomes(Operation(state), {})
    /\ UNCHANGED <<bufVars, txAck, dim, edVars, envVars>>
    /\ StateSet("RX")
    /\ RxInit(Aborted(trx))

\* nrf_802154_core_transmit.  The delayed client forces, its ramp-up is
\* triggered by hardware that may be missed, and it does not wait for the
\* preconditions.
Transmit(c, cca, ack) ==
    LET next == IF cca THEN "CCA_TX" ELSE "TX"
        started == prio # IDLE /\ MinPrio(next, CcaDone) <= prio IN
    /\ CanTerminate(c = "delayed", c)
    /\ c = "csma" => cca
    /\ TerminatedBuffers(state)
    /\ UNCHANGED <<edVars, envVars>>
    /\ \/ \* nrf_802154_core_hooks_tx_setup fails
          /\ client' = TerminatedClient(state)
          /\ Outcomes(Operation(state), {})
          /\ UNCHANGED <<txAck, dim>>
          /\ SwitchToIdle(Aborted(trx))
       \/ /\ dim' = CcaDone /\ txAck' = ack
          /\ StateSet(next)
          /\ client' = c
          /\ Outcomes(Operation(state), {"tx"})
          /\ RxOff
          /\ \/ TxInit
             \/ TxInitFails /\ c # "delayed" /\ trx' = Aborted(trx)
       \/ \* the trigger was missed, or the transmission may not start
          /\ c = "delayed"
          /\ dim' = CcaDone /\ txAck' = ack
          /\ client' = "none"
          /\ Outcomes(Operation(state), {})
          /\ \/ started /\ SwitchToIdle("FINISHED")
             \/ (~started \/ closing) /\ SwitchToIdle(Aborted(trx))

\* nrf_802154_core_energy_detection
EnergyDetection(time) ==
    LET asked == IF time < EdIter THEN EdIter ELSE time IN
    /\ CanTerminate(FALSE, "core")
    /\ TerminatedBuffers(state) /\ client' = TerminatedClient(state)
    /\ Outcomes(Operation(state), {"ed"})
    /\ UNCHANGED <<txAck, dim, envVars>>
    /\ StateSet("ED")
    /\ RxOff
    /\ edAsked' = time /\ edDone' = 0
    /\ EdInit(asked, Aborted(trx))

\* nrf_802154_core_cca
Cca ==
    /\ CanTerminate(FALSE, "core")
    /\ TerminatedBuffers(state) /\ client' = TerminatedClient(state)
    /\ Outcomes(Operation(state), {"cca"})
    /\ UNCHANGED <<txAck, dim, edVars, envVars>>
    /\ StateSet("CCA")
    /\ RxOff
    /\ CcaInit(Aborted(trx))

\* nrf_802154_core_continuous_carrier, nrf_802154_core_modulated_carrier
Carrier(k) ==
    /\ CanTerminate(FALSE, "core")
    /\ TerminatedBuffers(state) /\ client' = TerminatedClient(state)
    /\ Outcomes(Operation(state), {})
    /\ UNCHANGED <<txAck, dim, edVars, envVars>>
    /\ StateSet(k)
    /\ RxOff
    /\ CarrierInit(Aborted(trx))

\* nrf_802154_core_channel_update in RX: the reception starts over on the new
\* channel.  (A carrier is restarted without a change of state; in the other
\* states only the transceiver's channel changes.)
ChannelUpdate ==
    /\ state = "RX"
    /\ UNCHANGED <<bufVars, txVars, edVars, outVars, envVars>>
    /\ StateSet("RX")
    /\ RxInit(Aborted(trx))

\* nrf_802154_core_notify_buffer_free.  Too close to the timeslot's end the flag
\* is set all the same, but the receiver is not given the buffer.
BufferFree(b) ==
    /\ b \in app
    /\ app' = app \ {b} /\ free' = free \cup {b}
    /\ noBuf' = FALSE
    /\ \/ /\ missing
          /\ cur' = b /\ missing' = FALSE
       \/ /\ ~missing \/ closing
          /\ UNCHANGED <<cur, missing>>
    /\ UNCHANGED <<state, requested, trx, stage, txVars, edVars, outVars, envVars>>

\* nrf_802154_rx_on_when_idle_set
RxOnWhenIdleSet ==
    /\ rxOnIdle' = ~rxOnIdle
    /\ UNCHANGED <<state, requested, trx, rxVars, bufVars, txVars, edVars,
                   outVars, prio, closing>>

-----------------------------------------------------------------------------

Scheduler ==
    \/ TimeslotEnded \/ TimeslotClosing
    \/ \E p \in PrioLevels : PrioChanged(p)

RadioIrq ==
    \/ BcMatched \/ FrameCrcError \/ FrameAcked \/ FrameDelivered \/ FrameDropped
    \/ AckTransmitted \/ TransmitStartedLate \/ CcaIdle \/ CcaBusy
    \/ FrameTransmitted \/ AckReceived \/ BadAck
    \/ CcaFinished \/ EdFinished \/ GoIdleFinished

Requests ==
    \/ \E force \in BOOLEAN : Sleep(force)
    \/ Receive
    \/ \E c \in Clients, cca, ack \in BOOLEAN : Transmit(c, cca, ack)
    \/ \E time \in EdTimes : EnergyDetection(time)
    \/ Cca
    \/ \E k \in Carriers : Carrier(k)
    \/ ChannelUpdate
    \/ \E b \in Buffers : BufferFree(b)
    \/ RxOnWhenIdleSet

Next == Scheduler \/ RadioIrq \/ AckTimeout \/ Requests

Spec == Init /\ [][Next]_vars

\* The scheduler approves at least the priority that was asked for.
RequestGranted ==
    /\ prio < requested
    /\ \E p \in PrioLevels : p >= requested /\ PrioChanged(p)

\* What the hardware and the scheduler guarantee: a radio operation ends and
\* its interrupt is served, the ACK timer fires, a timeslot that cannot be
\* extended ends, and a request for priority that stays unanswered is granted
\* in the end.
Fairness ==
    /\ WF_vars(CcaIdle \/ CcaBusy)
    /\ WF_vars(FrameTransmitted)
    /\ WF_vars(AckTimeout)
    /\ WF_vars(AckTransmitted)
    /\ WF_vars(GoIdleFinished)
    /\ WF_vars(closing /\ TimeslotEnded)
    /\ WF_vars(RequestGranted)

FairSpec == Spec /\ Fairness

-----------------------------------------------------------------------------
(* Properties *)

\* m_state, the transceiver state, the priorities asked for and granted and the
\* receive buffer's bookkeeping stay in their ranges under every handler.
TypeOK ==
    /\ state \in States /\ trx \in TrxStates
    /\ prio \in PrioLevels /\ requested \in IDLE..PRIO_TX
    /\ stage \in {"idle", "header", "destined"}
    /\ missing \in BOOLEAN /\ noBuf \in BOOLEAN
    /\ cur \in Buffers \cup {None}
    /\ free \subseteq Buffers /\ app \subseteq Buffers
    /\ client \in Clients \cup {"none"}
    /\ txAck \in BOOLEAN /\ dim \in BOOLEAN
    /\ edLeft \in Nat /\ edCount \in Nat /\ edAsked \in Nat /\ edDone \in Nat
    /\ open \subseteq {"tx", "ed", "cca"} /\ dup \subseteq {"tx", "ed", "cca"}
    /\ closing \in BOOLEAN /\ rxOnIdle \in BOOLEAN

\* The state a RADIO interrupt of each transceiver state asserts.
ExpectedState(t) ==
    CASE t = "RXFRAME" -> {"RX"}
      [] t = "RXACK" -> {"RX_ACK"}
      [] t = "TXCCA" -> {"CCA_TX"}
      [] t = "TXFRAME" -> {"CCA_TX", "TX"}
      [] t = "TXACK" -> {"TX_ACK"}
      [] t = "CCA" -> {"CCA"}
      [] t = "ED" -> {"ED"}
      [] t \in Carriers -> {t}
      [] t = "GOING_IDLE" -> {"FALLING_ASLEEP"}
      [] OTHER -> States

\* The handlers' assertions on m_state: whatever the transceiver is doing is
\* what the driver's state says, the transceiver is on exactly inside the
\* timeslot (trx_enable and trx_antenna_update assert it), a driver in a
\* transient state has the transceiver event that ends it coming, and an idle
\* driver with a timeslot does receive.
TrxFollowsState ==
    /\ state \in ExpectedState(trx)
    /\ trx = "DISABLED" <=> prio = IDLE
    /\ state = "FALLING_ASLEEP" => trx = "GOING_IDLE"
    /\ state = "TX_ACK" => trx = "TXACK"
    /\ state = "RX_ACK" => trx = "RXACK"
    /\ state = "RX" /\ prio # IDLE => trx = "RXFRAME"

\* A client is owed an outcome exactly while its transmission is the driver's
\* operation: no handler drops it and none tells it twice.
TransmitOutcomeOnce ==
    /\ "tx" \notin dup
    /\ state \in TxStates <=> "tx" \in open

\* tx_client_failed_notify and tx_client_transmitted_notify assert that
\* m_tx.p_client is not NULL, and tx_client_can_abort asks a client that is
\* there: the driver has a client exactly while it transmits, through every
\* termination, refusal and withdrawal of a transmission.
ClientPresent == state \in TxStates <=> client # "none"

\* A buffer is either free or the higher layer's, whatever cuts a reception,
\* an ACK or its delivery short, and the radio never writes into one the
\* higher layer holds.
BufferOwnership ==
    /\ app = Buffers \ free
    /\ trx \in {"RXFRAME", "RXACK", "TXACK"} /\ ~missing => cur \in free

\* The receiver waits for a buffer only when there is none or the timeslot is
\* about to end, and the higher layer knows of the shortage.
BufferShortage ==
    /\ missing => trx \in {"RXFRAME", "RXACK"}
    /\ missing /\ ~closing => free = {}
    /\ missing /\ free = {} => noBuf
    /\ noBuf => free = {}

\* The radio runs only with the priority its state needs.  With coex requests
\* after CCA the transmission goes on while the approval is awaited.
RadioWithinPriority ==
    /\ \/ trx \in {"DISABLED", "IDLE", "FINISHED", "RXFRAME_FINISHED", "TXACK_LATE"}
       \/ Allowed(prio)
       \/ CcaDone /\ trx = "TXFRAME" /\ state = "CCA_TX"
    /\ state \in {"FALLING_ASLEEP", "TX_ACK", "RX_ACK"} => Allowed(prio)

\* The driver never asks the scheduler for less than its state needs, and
\* outside RX for no more.
RequestFollowsState ==
    /\ requested >= MinPrio(state, dim)
    /\ state # "RX" => requested = MinPrio(state, dim)

\* State, transceiver, granted and requested priority agree after every handler.
OperationConsistent ==
    TypeOK /\ TrxFollowsState /\ RadioWithinPriority /\ RequestFollowsState

\* The receive buffers between the radio and the higher layer: who owns each, and
\* what is known of a shortage.
BuffersConsistent == BufferOwnership /\ BufferShortage

\* A frame whose ACK the driver has begun to send reaches the higher layer,
\* whatever cuts the ACK short (the end of the timeslot, a withdrawn priority, a
\* request that forces its way): its sender may already count it as delivered.
AckedFrameDelivered ==
    [][state = "TX_ACK" /\ state' # "TX_ACK" => cur \in app' \ app]_vars

\* A transmission the driver accepted has an outcome in the end, although the
\* timeslot may end, the priority may be withdrawn and the ACK may be lost at
\* any point of it: the driver is busy transmitting for ever only if new
\* transmissions replace the current one again and again.
TransmitCompletes ==
    <>[]("tx" \in open) =>
        []<><<\E c \in Clients, cca, ack \in BOOLEAN : Transmit(c, cca, ack)>>_vars

\* An ACK being sent and a transceiver on its way to idle do not hold the
\* driver for ever.
TransientStatesEnd ==
    \A s \in {"TX_ACK", "FALLING_ASLEEP", "RX_ACK"} : state = s ~> state # s

\* The driver gets out of everything it has started.
OperationsEnd == TransmitCompletes /\ TransientStatesEnd

-----------------------------------------------------------------------------
(* Statements of the documentation and of assertions that the code breaks *)

\* nrf_802154_trx_energy_detection asserts that ed_count - 1 fits into the
\* EDCNT register: it is never started with zero iterations.
EdIterations == trx = "ED" => edCount >= 1

\* nrf_802154.h of nrf_802154_energy_detection: the sum of the time periods
\* during which the procedure is carried out is not less than the requested
\* time, which is rounded up to a multiple of the iteration.
EdTimeSum ==
    [][EdFinished /\ state' # "ED" => edDone' * EdIter >= edAsked]_vars

\* nrf_802154.h: an interrupted energy detection is automatically continued.
\* A procedure that continues has not been reported as failed.
InterruptedIsContinued ==
    /\ state = "ED" => "ed" \in open
    /\ state = "CCA" => "cca" \in open

\* nrf_802154_core_channel_update restarts a carrier inside the timeslot and
\* nrf_802154_trx_continuous_carrier_restart asserts that it is on the air.
CarrierRestartable == state \in Carriers /\ prio # IDLE => trx = state

\* rsch_prio_t: IDLE_LISTENING is the priority of idle listening, RX the
\* priority used when a frame is being received.
IdleListeningPriority ==
    state = "RX" /\ stage = "idle" => requested = IDLE_LISTENING

=============================================================================
