-------------------------- MODULE RadioCoreProofs --------------------------
EXTENDS RadioCore, FiniteSetTheorems, WellFoundedInduction, TLAPS
(***************************************************************************)
(* Proofs about RadioCore, for every number of receive buffers, every set *)
(* of priorities the arbiter grants and every time of energy detection.   *)
(*                                                                         *)
(* The safety properties of the runs are not inductive one by one: that a *)
(* handler finds its operation's buffer, client and outcome rests on the  *)
(* transceiver doing what the state says.  So IInv has one part that is   *)
(* inductive by itself (Control: state, transceiver and priorities) and   *)
(* four that are inductive next to it.  Each part has a lemma with one    *)
(* step for each handler.                                                  *)
(***************************************************************************)

\* tx_diminished_prio is set only for coex requests after CCA.
DimOK == dim => CcaDone

\* Types of the variables that control the driver.
ControlType ==
    /\ state \in States /\ trx \in TrxStates
    /\ prio \in PrioLevels /\ requested \in IDLE..PRIO_TX
    /\ dim \in BOOLEAN /\ closing \in BOOLEAN /\ rxOnIdle \in BOOLEAN

\* ExpectedState, transceiver state by transceiver state.
TrxOK ==
    /\ trx = "RXFRAME" => state = "RX"
    /\ trx = "RXACK" => state = "RX_ACK"
    /\ trx = "TXCCA" => state = "CCA_TX"
    /\ trx = "TXFRAME" => state \in {"CCA_TX", "TX"}
    /\ trx = "TXACK" => state = "TX_ACK"
    /\ trx = "CCA" => state = "CCA"
    /\ trx = "ED" => state = "ED"
    /\ trx \in Carriers => state = trx
    /\ trx = "GOING_IDLE" => state = "FALLING_ASLEEP"
    /\ trx = "DISABLED" <=> prio = IDLE
    /\ state = "FALLING_ASLEEP" => trx = "GOING_IDLE"
    /\ state = "TX_ACK" => trx = "TXACK"
    /\ state = "RX_ACK" => trx = "RXACK"
    /\ state = "RX" /\ prio # IDLE => trx = "RXFRAME"

Control == ControlType /\ DimOK /\ TrxOK /\ RadioWithinPriority /\ RequestFollowsState

\* TrxOK is the run's TrxFollowsState, unfolded.
LEMMA TrxOKFollows == ASSUME ControlType PROVE TrxOK <=> TrxFollowsState
  BY DEF TrxOK, TrxFollowsState, ExpectedState, ControlType, Carriers, TrxStates, States, TxStates

\* ed_init starts the detection only with its preconditions met.
LEMMA EdTrx ==
    ASSUME NEW t, NEW left, EdInit(t, left)
    PROVE  trx' \in {"ED", left} /\ (trx' = "ED" => MayStart' \/ left = "ED")
  BY DEF EdInit, EdIterSetup

\* Every handler and request leaves state, transceiver and priorities in
\* agreement: the part of the invariant that all others rest on.
LEMMA NextControl == ASSUME Control, [Next]_vars PROVE Control'
  <1>. USE ConfigAssumption, CoexAssumption
       DEF Control, ControlType, DimOK, TrxOK, RadioWithinPriority, RequestFollowsState,
           Allowed, MinPrio, IDLE, IDLE_LISTENING, PRIO_RX, PRIO_TX, Carriers, States,
           TxStates, TrxStates, MayStart, StateSet, RxInit, SwitchToIdle, Aborted,
           envVars, txVars
  <1>1. CASE TimeslotEnded
    <2>1. /\ prio # IDLE /\ prio' = IDLE /\ trx' = "DISABLED"
          /\ closing' = FALSE /\ UNCHANGED <<dim, rxOnIdle>>
      BY <1>1 DEF TimeslotEnded
    <2>2. \/ state \in {"FALLING_ASLEEP"} /\ StateSet("SLEEP")
          \/ state \in {"TX_ACK", "CCA_TX", "TX", "RX_ACK"} /\ StateSet("RX")
          \/ /\ state \notin {"FALLING_ASLEEP", "TX_ACK", "CCA_TX", "TX", "RX_ACK"}
             /\ UNCHANGED <<state, requested>>
      BY <1>1 DEF TimeslotEnded
    <2>3. IDLE \in PrioLevels
      OBVIOUS
    <2>4. ControlType' /\ DimOK'
      <3>1. state' \in States /\ requested' \in IDLE..PRIO_TX
        BY <2>1, <2>2
      <3>2. trx' \in TrxStates /\ prio' \in PrioLevels
        BY <2>1, <2>3
      <3>3. dim' \in BOOLEAN /\ closing' \in BOOLEAN /\ rxOnIdle' \in BOOLEAN
        BY <2>1
      <3>. QED
        BY <2>1, <3>1, <3>2, <3>3
    <2>5. TrxOK' /\ RadioWithinPriority' /\ RequestFollowsState'
      BY <2>1, <2>2
    <2>. QED
      BY <2>4, <2>5
  <1>2. CASE TimeslotClosing
    BY <1>2 DEF TimeslotClosing
  <1>3. ASSUME NEW p \in PrioLevels, PrioChanged(p) PROVE Control'
    <2>1. prio' = p /\ p # IDLE /\ p # prio /\ UNCHANGED <<closing, rxOnIdle>>
      BY <1>3 DEF PrioChanged
    <2>2. CASE Allowed(prio) /\ ~Allowed(p) /\ PreconditionsDenied
      <3>1. dim' \in BOOLEAN /\ (dim' => dim) /\ (state # "CCA_TX" => dim' = dim)
        BY <2>2 DEF PreconditionsDenied
      <3>2. \/ state \in {"CCA_TX", "TX", "RX_ACK", "TX_ACK"} /\ StateSet("RX") /\ RxInit("FINISHED")
            \/ /\ state \notin {"CCA_TX", "TX", "RX_ACK", "TX_ACK"}
               /\ trx' = Aborted(TrxEnabled) /\ UNCHANGED <<state, requested>>
        BY <2>2 DEF PreconditionsDenied
      <3>. QED
        BY <2>1, <2>2, <3>1, <3>2 DEF TrxEnabled
    <2>3. CASE ~Allowed(prio) /\ Allowed(p) /\ PreconditionsApproved
      <3>1. UNCHANGED <<state, requested, dim>>
        BY <2>3 DEF PreconditionsApproved
      <3>2. \/ state = "RX" /\ RxInit(Aborted(TrxEnabled))
            \/ /\ state \in {"CCA_TX", "TX"}
               /\ TxInit \/ trx' = Aborted(TrxEnabled)
            \/ /\ state = "ED" /\ trx' \in {"ED", Aborted(TrxEnabled)}
               /\ trx' = "ED" => MayStart' \/ Aborted(TrxEnabled) = "ED"
            \/ state = "CCA" /\ CcaInit(Aborted(TrxEnabled))
            \/ state \in Carriers /\ CarrierInit(Aborted(TrxEnabled))
        BY <2>3, EdTrx DEF PreconditionsApproved
      <3>. QED
        BY <2>1, <2>3, <3>1, <3>2 DEF TrxEnabled, TxInit, CcaInit, CarrierInit
    <2>4. CASE /\ trx' = TrxEnabled /\ UNCHANGED <<state, requested, dim>>
               /\ \/ ~Allowed(prio) /\ ~Allowed(p)
                  \/ Allowed(prio) /\ Allowed(p)
                  \/ ApprovalIgnored(p)
      BY <2>1, <2>4 DEF TrxEnabled, ApprovalIgnored
    <2>. QED
      <3>. HIDE DEF Control
      <3>. QED
        BY <1>3, <2>2, <2>3, <2>4 DEF PrioChanged
  <1>4. CASE BcMatched
    BY <1>4 DEF BcMatched, Receiving
  <1>5. CASE FrameCrcError
    BY <1>5 DEF FrameCrcError, Receiving
  <1>6. CASE FrameAcked
    BY <1>6 DEF FrameAcked, Receiving
  <1>7. CASE FrameDelivered
    BY <1>7 DEF FrameDelivered, Receiving
  <1>8. CASE FrameDropped
    BY <1>8 DEF FrameDropped, Receiving
  <1>9. CASE AckTransmitted
    BY <1>9 DEF AckTransmitted
  <1>10. CASE TransmitStartedLate
    BY <1>10 DEF TransmitStartedLate
  <1>11. CASE CcaIdle
    <2>1. dim' \in BOOLEAN /\ (dim' => dim /\ ~CcaDone) /\ (dim /\ ~CcaDone => dim')
      BY <1>11 DEF CcaIdle
    <2>. QED
      BY <1>11, <2>1 DEF CcaIdle
  <1>12. CASE CcaBusy
    BY <1>12 DEF CcaBusy
  <1>13. CASE FrameTransmitted
    BY <1>13 DEF FrameTransmitted
  <1>14. CASE AckReceived
    BY <1>14 DEF AckReceived
  <1>15. CASE BadAck
    BY <1>15 DEF BadAck
  <1>16. CASE CcaFinished
    BY <1>16 DEF CcaFinished
  <1>17. CASE EdFinished
    BY <1>17 DEF EdFinished, EdIterSetup
  <1>18. CASE GoIdleFinished
    BY <1>18 DEF GoIdleFinished
  <1>19. CASE AckTimeout
    BY <1>19 DEF AckTimeout
  <1>20. ASSUME NEW force \in BOOLEAN, Sleep(force) PROVE Control'
    BY <1>20 DEF Sleep, CoreSleep
  <1>21. CASE Receive
    BY <1>21 DEF Receive
  <1>22. ASSUME NEW c \in Clients, NEW cca \in BOOLEAN, NEW ack \in BOOLEAN,
                Transmit(c, cca, ack)
         PROVE  Control'
    BY <1>22 DEF Transmit, TxInit, TxInitFails
  <1>23. ASSUME NEW time \in EdTimes, EnergyDetection(time) PROVE Control'
    BY <1>23, EdTrx DEF EnergyDetection
  <1>24. CASE Cca
    BY <1>24 DEF Cca, CcaInit
  <1>25. ASSUME NEW k \in Carriers, Carrier(k) PROVE Control'
    BY <1>25 DEF Carrier, CarrierInit
  <1>26. CASE ChannelUpdate
    BY <1>26 DEF ChannelUpdate
  <1>27. ASSUME NEW b \in Buffers, BufferFree(b) PROVE Control'
    BY <1>27 DEF BufferFree
  <1>28. CASE RxOnWhenIdleSet
    BY <1>28 DEF RxOnWhenIdleSet
  <1>30. CASE UNCHANGED vars
    BY <1>30 DEF vars
  <1>. HIDE DEF Control
  <1>. QED
    BY <1>1, <1>2, <1>3, <1>4, <1>5, <1>6, <1>7, <1>8, <1>9, <1>10, <1>11, <1>12, <1>13,
       <1>14, <1>15, <1>16, <1>17, <1>18, <1>19, <1>20, <1>21, <1>22, <1>23, <1>24,
       <1>25, <1>26, <1>27, <1>28, <1>30
    DEF Next, Scheduler, RadioIrq, Requests

-----------------------------------------------------------------------------
\* Exactly a driver that transmits owes its client an outcome.
OutcomeOK ==
    /\ open \subseteq {"tx", "ed", "cca"} /\ dup \subseteq {"tx", "ed", "cca"}
    /\ "tx" \notin dup
    /\ state \in TxStates <=> "tx" \in open

\* Every handler that leaves the transmission states tells the one outcome of
\* the transmission, and none tells it elsewhere.
LEMMA NextOutcome == ASSUME Control, OutcomeOK, [Next]_vars PROVE OutcomeOK'
  <1>. USE DEF Control, ControlType, TrxOK, OutcomeOK, Outcomes, Operation, TxStates, Carriers,
     States,
           StateSet, SwitchToIdle, TxNotify, outVars
  <1>1. CASE TimeslotEnded
    BY <1>1 DEF TimeslotEnded
  <1>2. CASE TimeslotClosing
    BY <1>2 DEF TimeslotClosing
  <1>3. ASSUME NEW p \in PrioLevels, PrioChanged(p) PROVE OutcomeOK'
    <2>1. CASE PreconditionsDenied
      BY <2>1 DEF PreconditionsDenied
    <2>2. CASE PreconditionsApproved
      BY <2>2 DEF PreconditionsApproved
    <2>. QED
      BY <1>3, <2>1, <2>2 DEF PrioChanged
  <1>4. CASE BcMatched \/ FrameCrcError \/ FrameAcked \/ FrameDelivered \/ FrameDropped
    BY <1>4 DEF BcMatched, FrameCrcError, FrameAcked, FrameDelivered, FrameDropped, Receiving
  <1>5. CASE AckTransmitted \/ CcaIdle \/ GoIdleFinished
    BY <1>5 DEF AckTransmitted, CcaIdle, GoIdleFinished
  <1>6. CASE TransmitStartedLate \/ CcaBusy
    BY <1>6 DEF TransmitStartedLate, CcaBusy
  <1>7. CASE FrameTransmitted
    BY <1>7 DEF FrameTransmitted
  <1>8. CASE AckReceived \/ BadAck
    BY <1>8 DEF AckReceived, BadAck
  <1>9. CASE AckTimeout
    BY <1>9 DEF AckTimeout
  <1>10. CASE CcaFinished
    BY <1>10 DEF CcaFinished
  <1>11. CASE EdFinished
    <2>1. CASE UNCHANGED <<state, outVars>>
      BY <2>1
    <2>2. CASE SwitchToIdle("FINISHED") /\ Outcomes({"ed"}, {})
      BY <1>11, <2>2 DEF EdFinished
    <2>. QED
      BY <1>11, <2>1, <2>2 DEF EdFinished
  <1>12. ASSUME NEW force \in BOOLEAN, Sleep(force) PROVE OutcomeOK'
    BY <1>12 DEF Sleep, CoreSleep
  <1>13. CASE Receive
    BY <1>13 DEF Receive
  <1>14. ASSUME NEW c \in Clients, NEW cca \in BOOLEAN, NEW ack \in BOOLEAN,
                Transmit(c, cca, ack)
         PROVE  OutcomeOK'
    BY <1>14 DEF Transmit
  <1>15. ASSUME NEW time \in EdTimes, EnergyDetection(time) PROVE OutcomeOK'
    BY <1>15 DEF EnergyDetection
  <1>16. CASE Cca
    BY <1>16 DEF Cca
  <1>17. ASSUME NEW k \in Carriers, Carrier(k) PROVE OutcomeOK'
    BY <1>17 DEF Carrier
  <1>18. CASE ChannelUpdate \/ RxOnWhenIdleSet
    BY <1>18 DEF ChannelUpdate, RxOnWhenIdleSet
  <1>19. ASSUME NEW b \in Buffers, BufferFree(b) PROVE OutcomeOK'
    BY <1>19 DEF BufferFree
  <1>20. CASE UNCHANGED vars
    BY <1>20 DEF vars
  <1>. HIDE DEF OutcomeOK
  <1>. QED
    BY <1>1, <1>2, <1>3, <1>4, <1>5, <1>6, <1>7, <1>8, <1>9, <1>10, <1>11, <1>12, <1>13,
       <1>14, <1>15, <1>16, <1>17, <1>18, <1>19, <1>20
    DEF Next, Scheduler, RadioIrq, Requests

-----------------------------------------------------------------------------
\* The least of some buffers exists: nrf_802154_rx_buffer_free_find finds it.
LEMMA FreeFindOK ==
    ASSUME NEW f, f \subseteq Buffers, f # {}
    PROVE  FreeFind(f) \in f
  <1>. DEFINE Upto(m) == {r \in f : r <= m}
              T == {Upto(m) : m \in f}
  <1>1. f \subseteq Int
    BY ConfigAssumption DEF Buffers
  <1>2. IsFiniteSet(f)
    <2>1. 1 \in Int /\ NBuf \in Int
      BY ConfigAssumption
    <2>2. IsFiniteSet(Buffers)
      BY <2>1, FS_Interval DEF Buffers
    <2>. QED
      BY <2>2, FS_Subset
  <1>3. T \subseteq FiniteSubsetsOf(f) /\ T # {}
    <2>1. T \subseteq SUBSET f /\ T # {}
      OBVIOUS
    <2>. QED
      BY <1>2, <2>1, FS_FiniteSubsetsOfFinite
  <1>4. PICK x \in T : \A y \in T : <<y, x>> \notin StrictSubsetOrdering(f)
    <2>1. IsWellFoundedOn(StrictSubsetOrdering(f), FiniteSubsetsOf(f))
      BY FS_StrictSubsetOrderingWellFounded
    <2>. HIDE DEF T
    <2>. QED
      BY <2>1, <1>3, WFMin
  <1>5. PICK m \in f : x = Upto(m)
    OBVIOUS
  <1>6. ASSUME NEW r \in f PROVE m <= r
    <2>1. SUFFICES ASSUME r < m PROVE FALSE
      BY <1>1
    <2>2. r \in Int /\ m \in Int /\ r < m
      BY <1>1, <2>1
    <2>3. ASSUME NEW q \in f, q <= r PROVE q <= m
      BY <1>1, <2>2, <2>3
    <2>4. Upto(r) \subseteq Upto(m)
      BY <2>3
    <2>5. m \in Upto(m) /\ m \notin Upto(r)
      BY <2>2
    <2>6. <<Upto(r), x>> \in StrictSubsetOrdering(f)
      BY <1>5, <2>4, <2>5 DEF StrictSubsetOrdering
    <2>. QED
      BY <1>4, <2>6
  <1>. QED
    BY <1>6 DEF FreeFind

\* What rx_buffer selection leaves behind.
LEMMA SelectOK ==
    ASSUME free' \subseteq Buffers, noBuf \in BOOLEAN, RxBufferSelect
    PROVE  /\ cur' \in free' \cup {None} /\ (cur' = None <=> free' = {})
           /\ missing' \in BOOLEAN /\ (missing' <=> free' = {})
           /\ noBuf' \in BOOLEAN /\ (noBuf' <=> noBuf \/ free' = {})
  <1>1. None \notin Buffers
    BY ConfigAssumption DEF None, Buffers
  <1>2. cur' \in free' \cup {None} /\ (cur' = None <=> free' = {})
    BY <1>1, FreeFindOK DEF RxBufferSelect, FreeFind
  <1>3. missing' = (cur' = None) /\ noBuf' = (noBuf \/ cur' = None)
    BY DEF RxBufferSelect
  <1>. QED
    BY <1>2, <1>3

-----------------------------------------------------------------------------
\* Types of the receive buffers' bookkeeping.
BufferType ==
    /\ stage \in {"idle", "header", "destined"}
    /\ missing \in BOOLEAN /\ noBuf \in BOOLEAN
    /\ cur \in Buffers \cup {None}
    /\ free \subseteq Buffers /\ app \subseteq Buffers

\* Only a receiving transceiver waits for a buffer.
MissingOK == missing => trx \in {"RXFRAME", "RXACK"}

BuffersOK == BufferType /\ BufferOwnership /\ MissingOK /\ BufferShortage

\* The reception that ends a handler finds the buffers as the handler left them.
Selected ==
    /\ cur' \in free' \cup {None}
    /\ missing' \in BOOLEAN /\ (missing' <=> free' = {}) /\ (cur' = None => missing')
    /\ noBuf' \in BOOLEAN /\ (noBuf' <=> noBuf \/ free' = {})
Off ==
    /\ missing' = FALSE /\ cur' = cur /\ noBuf' = noBuf
    /\ trx' \notin {"RXFRAME", "RXACK", "TXACK"}

\* rx_init selects a buffer or leaves the receiver off.
LEMMA RxInitOK ==
    ASSUME free' \subseteq Buffers, noBuf \in BOOLEAN, NEW left, RxInit(left),
           left \notin {"RXFRAME", "RXACK", "TXACK"}
    PROVE  /\ stage' = "idle"
           /\ (Selected /\ trx' = "RXFRAME") \/ Off
  BY SelectOK DEF RxInit, RxOff, Selected, Off

\* switch_to_idle does the same, or goes to sleep with the receiver off.
LEMMA IdleOK ==
    ASSUME free' \subseteq Buffers, noBuf \in BOOLEAN, NEW left, SwitchToIdle(left),
           left \notin {"RXFRAME", "RXACK", "TXACK"}
    PROVE  /\ stage' = "idle"
           /\ (Selected /\ trx' = "RXFRAME") \/ Off
  BY RxInitOK DEF SwitchToIdle, RxOff, Off

\* Selecting a buffer keeps the buffers consistent.
LEMMA SelectedKeeps ==
    ASSUME BuffersOK, UNCHANGED bufVars \/ (Deliver /\ cur \in free),
           stage' \in {"idle", "header", "destined"},
           (Selected /\ trx' \in {"RXFRAME", "RXACK"}) \/ Off
    PROVE  BuffersOK'
  <1>. USE DEF BuffersOK, BufferType, BufferOwnership, MissingOK, BufferShortage, bufVars,
           Deliver
  <1>1. free' \subseteq free /\ free' \subseteq Buffers /\ app' = Buffers \ free'
    OBVIOUS
  <1>2. CASE Selected /\ trx' \in {"RXFRAME", "RXACK"}
    BY <1>1, <1>2 DEF Selected
  <1>3. CASE Off
    BY <1>1, <1>3 DEF Off
  <1>. QED
    BY <1>2, <1>3

\* An operation cut short gives its buffer away or leaves it free.
Handed == UNCHANGED bufVars \/ (Deliver /\ cur \in free)

\* current_operation_terminate gives away only the buffer in use.
LEMMA TerminatedOK ==
    ASSUME Control, BuffersOK, TerminatedBuffers(state)
    PROVE  Handed
  BY DEF Handed, TerminatedBuffers, Control, TrxOK, BuffersOK, BufferOwnership, MissingOK

\* Giving a buffer away frees none.
LEMMA HandedSubset == ASSUME BuffersOK, Handed PROVE free' \subseteq Buffers
  BY DEF Handed, BuffersOK, BufferType, bufVars, Deliver

\* A handler that ends in rx_init, or with the receiver off.
LEMMA RxInitKeeps ==
    ASSUME BuffersOK, Handed, NEW left, left \notin {"RXFRAME", "RXACK", "TXACK"},
           RxInit(left) \/ SwitchToIdle(left)
    PROVE  BuffersOK'
  <1>1. free' \subseteq Buffers /\ noBuf \in BOOLEAN
    BY HandedSubset DEF BuffersOK, BufferType
  <1>2. stage' = "idle" /\ ((Selected /\ trx' = "RXFRAME") \/ Off)
    BY <1>1, RxInitOK, IdleOK
  <1>. QED
    BY <1>2, SelectedKeeps DEF Handed

\* A handler that leaves the receiver off.
LEMMA OffKeeps ==
    ASSUME BuffersOK, Handed, Off, stage' \in {"idle", "header", "destined"}
    PROVE  BuffersOK'
  BY SelectedKeeps DEF Handed

\* nrf_802154_trx_abort does not leave the receiver on.
LEMMA AbortedOff == ASSUME NEW t PROVE Aborted(t) \notin {"RXFRAME", "RXACK", "TXACK"}
  BY DEF Aborted

\* Every handler leaves the buffers consistent.
LEMMA NextBuffers == ASSUME Control, BuffersOK, [Next]_vars PROVE BuffersOK'
  <1>. USE ConfigAssumption DEF rxVars, bufVars
  <1>stage. stage \in {"idle", "header", "destined"}
    BY DEF BuffersOK, BufferType
  <1>off. trx \notin {"RXFRAME", "RXACK"} => ~missing /\ missing = FALSE
    BY DEF BuffersOK, BufferType, MissingOK
  <1>kept. UNCHANGED bufVars => Handed
    BY DEF Handed
  <1>given. trx \in {"RXFRAME", "RXACK", "TXACK"} /\ ~missing /\ Deliver => Handed
    BY DEF Handed, BuffersOK, BufferOwnership
  <1>1. CASE TimeslotEnded
    <2>1. stage' = "idle" /\ Off
      BY <1>1 DEF TimeslotEnded, RxOff, Off
    <2>2. Handed
      BY <1>1 DEF Handed, TimeslotEnded, Control, TrxOK, BuffersOK, BufferOwnership, MissingOK,
         TxStates
    <2>. QED
      BY <2>1, <2>2, OffKeeps
  <1>2. CASE TimeslotClosing
    BY <1>2 DEF TimeslotClosing, BuffersOK, BufferType, BufferOwnership, MissingOK,
       BufferShortage
  <1>3. ASSUME NEW p \in PrioLevels, PrioChanged(p) PROVE BuffersOK'
    <2>1. CASE PreconditionsDenied /\ Allowed(prio) /\ ~Allowed(p)
      <3>1. Handed
        BY <2>1, TerminatedOK DEF PreconditionsDenied
      <3>2. CASE RxInit("FINISHED")
        BY <3>1, <3>2, RxInitKeeps
      <3>3. CASE UNCHANGED rxVars /\ trx' = Aborted(TrxEnabled) /\ state \notin TxStates \cup {"TX_ACK"}
        <4>1. state # "RX"
          BY <1>3, <2>1 DEF PrioChanged, Allowed, MinPrio, Control, ControlType, IDLE,
             IDLE_LISTENING, PRIO_TX
        <4>2. trx \notin {"RXFRAME", "RXACK"}
          BY <3>3, <4>1 DEF Control, TrxOK, TxStates
        <4>3. Off
          BY <1>off, <3>3, <4>2, AbortedOff DEF Off
        <4>. QED
          BY <1>stage, <3>1, <3>3, <4>3, OffKeeps
      <3>. QED
        BY <2>1, <3>2, <3>3 DEF PreconditionsDenied
    <2>2. CASE PreconditionsApproved /\ ~Allowed(prio)
      <3>1. Handed
        BY <2>2, <1>kept DEF PreconditionsApproved
      <3>2. CASE RxInit(Aborted(TrxEnabled))
        BY <3>1, <3>2, AbortedOff, RxInitKeeps
      <3>3. CASE state # "RX" /\ UNCHANGED rxVars
        <4>1. trx \notin {"RXFRAME", "RXACK"}
          BY <2>2 DEF Control, RadioWithinPriority
        <4>2. trx' \notin {"RXFRAME", "RXACK", "TXACK"}
          BY <2>2, <3>3, AbortedOff, EdTrx DEF PreconditionsApproved, TxInit, CcaInit,
             CarrierInit, Carriers
        <4>3. Off
          BY <1>off, <3>3, <4>1, <4>2 DEF Off
        <4>. QED
          BY <1>stage, <3>1, <3>3, <4>3, OffKeeps
      <3>. QED
        BY <2>2, <3>2, <3>3 DEF PreconditionsApproved, Carriers
    <2>3. CASE trx' = TrxEnabled /\ UNCHANGED <<rxVars, bufVars, closing>>
      <3>1. CASE prio = IDLE
        <4>1. Off
          BY <1>off, <2>3, <3>1 DEF Off, TrxEnabled, Control, TrxOK
        <4>. QED
          BY <1>stage, <1>kept, <2>3, <4>1, OffKeeps
      <3>2. CASE prio # IDLE
        BY <2>3, <3>2 DEF TrxEnabled, BuffersOK, BufferType, BufferOwnership, MissingOK,
           BufferShortage
      <3>. QED
        BY <3>1, <3>2
    <2>. QED
      BY <1>3, <2>1, <2>2, <2>3 DEF PrioChanged
  <1>4. CASE BcMatched
    <2>1. CASE RxInit("FINISHED")
      BY <1>kept, <1>4, <2>1, RxInitKeeps DEF BcMatched
    <2>2. CASE stage' \in {"header", "destined"} /\ UNCHANGED <<trx, missing, cur, noBuf>>
      BY <1>4, <2>2 DEF BcMatched, envVars, BuffersOK, BufferType, BufferOwnership, MissingOK,
         BufferShortage
    <2>. QED
      BY <1>4, <2>1, <2>2 DEF BcMatched
  <1>5. CASE FrameCrcError
    BY <1>5 DEF FrameCrcError, envVars, BuffersOK, BufferType, BufferOwnership, MissingOK,
       BufferShortage
  <1>6. CASE FrameAcked
    <2>1. CASE trx' = "TXACK" /\ stage' = "idle" /\ UNCHANGED <<missing, cur, noBuf, bufVars>>
      BY <1>6, <2>1 DEF FrameAcked, Receiving, envVars, BuffersOK, BufferType, BufferOwnership,
         MissingOK, BufferShortage
    <2>2. CASE Deliver /\ (SwitchToIdle("TXACK_LATE") \/ SwitchToIdle("RXFRAME_FINISHED"))
      BY <1>given, <1>6, <2>2, RxInitKeeps DEF FrameAcked, Receiving
    <2>. QED
      BY <1>6, <2>1, <2>2 DEF FrameAcked
  <1>7. CASE FrameDelivered
    BY <1>given, <1>7, RxInitKeeps DEF FrameDelivered, Receiving
  <1>8. CASE FrameDropped
    BY <1>kept, <1>8, RxInitKeeps DEF FrameDropped
  <1>9. CASE AckTransmitted
    BY <1>off, <1>given, <1>9, RxInitKeeps DEF AckTransmitted
  <1>10. CASE TransmitStartedLate \/ CcaBusy \/ BadAck \/ CcaFinished
    BY <1>kept, <1>10, RxInitKeeps DEF TransmitStartedLate, CcaBusy, BadAck, CcaFinished
  <1>11. CASE CcaIdle
    <2>1. Off
      BY <1>off, <1>11 DEF CcaIdle, Off
    <2>. QED
      BY <1>stage, <1>kept, <1>11, <2>1, OffKeeps DEF CcaIdle
  <1>13. CASE FrameTransmitted
    <2>1. CASE RxBufferSelect /\ trx' = "RXACK" /\ UNCHANGED stage
      <3>1. Handed /\ free' \subseteq Buffers /\ noBuf \in BOOLEAN
        BY <1>kept, <1>13, HandedSubset DEF FrameTransmitted, BuffersOK, BufferType
      <3>2. Selected
        BY <2>1, <3>1, SelectOK DEF Selected
      <3>. QED
        BY <1>stage, <2>1, <3>1, <3>2, SelectedKeeps DEF Handed
    <2>2. CASE SwitchToIdle("FINISHED")
      BY <1>kept, <1>13, <2>2, RxInitKeeps DEF FrameTransmitted
    <2>. QED
      BY <1>13, <2>1, <2>2 DEF FrameTransmitted
  <1>14. CASE AckReceived
    BY <1>given, <1>14, RxInitKeeps DEF AckReceived
  <1>17. CASE EdFinished
    <2>1. CASE SwitchToIdle("FINISHED")
      BY <1>kept, <1>17, <2>1, RxInitKeeps DEF EdFinished
    <2>2. CASE EdIterSetup(edLeft, "FINISHED") /\ UNCHANGED rxVars
      <3>1. Off
        BY <1>off, <1>17, <2>2 DEF EdFinished, EdIterSetup, Off
      <3>. QED
        BY <1>stage, <1>kept, <1>17, <2>2, <3>1, OffKeeps DEF EdFinished
    <2>. QED
      BY <1>17, <2>1, <2>2 DEF EdFinished
  <1>18. CASE GoIdleFinished
    <2>1. Off
      BY <1>off, <1>18 DEF GoIdleFinished, Off
    <2>. QED
      BY <1>stage, <1>kept, <1>18, <2>1, OffKeeps DEF GoIdleFinished
  <1>19. CASE AckTimeout
    <2>1. CASE RxInit("FINISHED")
      BY <1>kept, <1>19, <2>1, RxInitKeeps DEF AckTimeout
    <2>2. CASE RxOff /\ trx' = "GOING_IDLE"
      BY <1>kept, <1>19, <2>2, OffKeeps DEF AckTimeout, RxOff, Off
    <2>. QED
      BY <1>19, <2>1, <2>2 DEF AckTimeout
  <1>20. ASSUME NEW force \in BOOLEAN, Sleep(force) PROVE BuffersOK'
    <2>1. Off
      BY <1>20 DEF Sleep, CoreSleep, RxOff, Off, Control, TrxOK
    <2>. QED
      BY <1>20, <2>1, TerminatedOK, OffKeeps DEF Sleep, RxOff
  <1>21. CASE Receive
    BY <1>kept, <1>21, AbortedOff, RxInitKeeps DEF Receive
  <1>22. ASSUME NEW c \in Clients, NEW cca \in BOOLEAN, NEW ack \in BOOLEAN,
                Transmit(c, cca, ack)
         PROVE  BuffersOK'
    <2>1. Handed
      BY <1>22, TerminatedOK DEF Transmit
    <2>2. CASE SwitchToIdle("FINISHED") \/ SwitchToIdle(Aborted(trx))
      BY <2>1, <2>2, AbortedOff, RxInitKeeps
    <2>3. CASE RxOff /\ (TxInit \/ trx' = Aborted(trx))
      <3>1. Off
        BY <2>3, AbortedOff DEF RxOff, Off, TxInit
      <3>. QED
        BY <2>1, <2>3, <3>1, OffKeeps DEF RxOff
    <2>. QED
      BY <1>22, <2>2, <2>3 DEF Transmit
  <1>23. ASSUME NEW time \in EdTimes, EnergyDetection(time) PROVE BuffersOK'
    <2>1. Off
      BY <1>23, AbortedOff, EdTrx DEF EnergyDetection, RxOff, Off
    <2>. QED
      BY <1>23, <2>1, TerminatedOK, OffKeeps DEF EnergyDetection, RxOff
  <1>24. CASE Cca
    <2>1. Off
      BY <1>24, AbortedOff DEF Cca, CcaInit, RxOff, Off
    <2>. QED
      BY <1>24, <2>1, TerminatedOK, OffKeeps DEF Cca, RxOff
  <1>25. ASSUME NEW k \in Carriers, Carrier(k) PROVE BuffersOK'
    <2>1. Off
      BY <1>25, AbortedOff DEF Carrier, CarrierInit, StateSet, Carriers, RxOff, Off
    <2>. QED
      BY <1>25, <2>1, TerminatedOK, OffKeeps DEF Carrier, RxOff
  <1>26. CASE ChannelUpdate
    BY <1>kept, <1>26, AbortedOff, RxInitKeeps DEF ChannelUpdate
  <1>27. ASSUME NEW b \in Buffers, BufferFree(b) PROVE BuffersOK'
    <2>. USE DEF BuffersOK, BufferType, BufferOwnership, MissingOK, BufferShortage
    <2>1. /\ b \in app /\ app' = app \ {b} /\ free' = free \cup {b} /\ noBuf' = FALSE
          /\ UNCHANGED <<trx, stage, closing>>
      BY <1>27 DEF BufferFree, envVars
    <2>2. free' \subseteq Buffers /\ app' \subseteq Buffers /\ app' = Buffers \ free'
      BY <2>1
    <2>3. CASE cur' = b /\ missing' = FALSE
      BY <2>1, <2>2, <2>3
    <2>4. CASE (~missing \/ closing) /\ UNCHANGED <<cur, missing>>
      BY <2>1, <2>2, <2>4
    <2>. QED
      BY <1>27, <2>3, <2>4 DEF BufferFree
  <1>28. CASE RxOnWhenIdleSet \/ UNCHANGED vars
    BY <1>28 DEF RxOnWhenIdleSet, vars, envVars, BuffersOK, BufferType,
       BufferOwnership, MissingOK, BufferShortage
  <1>. QED
    BY <1>1, <1>2, <1>3, <1>4, <1>5, <1>6, <1>7, <1>8, <1>9, <1>10, <1>11, <1>13,
       <1>14, <1>17, <1>18, <1>19, <1>20, <1>21, <1>22, <1>23, <1>24,
       <1>25, <1>26, <1>27, <1>28
    DEF Next, Scheduler, RadioIrq, Requests

-----------------------------------------------------------------------------
\* The driver has a client exactly while it transmits.
ClientOK ==
    /\ client \in Clients \cup {"none"} /\ txAck \in BOOLEAN
    /\ ClientPresent

\* Every handler that leaves the transmission states forgets the client, and
\* none forgets it elsewhere.
LEMMA NextClient == ASSUME Control, ClientOK, [Next]_vars PROVE ClientOK'
  <1>. USE ConfigAssumption DEF Control, ControlType, TrxOK, ClientOK, ClientPresent, TxStates,
           Carriers, States, Clients, StateSet, SwitchToIdle, TxNotify,
           TerminatedClient, txVars
  <1>1. CASE TimeslotEnded
    BY <1>1 DEF TimeslotEnded
  <1>2. CASE TimeslotClosing
    BY <1>2 DEF TimeslotClosing
  <1>3. ASSUME NEW p \in PrioLevels, PrioChanged(p) PROVE ClientOK'
    <2>1. CASE PreconditionsDenied
      BY <1>3, <2>1 DEF PrioChanged, PreconditionsDenied
    <2>2. CASE PreconditionsApproved
      BY <1>3, <2>2 DEF PrioChanged, PreconditionsApproved
    <2>. QED
      BY <1>3, <2>1, <2>2 DEF PrioChanged
  <1>4. CASE BcMatched \/ FrameCrcError \/ FrameAcked \/ FrameDelivered \/ FrameDropped
    BY <1>4 DEF BcMatched, FrameCrcError, FrameAcked, FrameDelivered, FrameDropped, Receiving
  <1>5. CASE AckTransmitted \/ CcaIdle \/ GoIdleFinished
    BY <1>5 DEF AckTransmitted, CcaIdle, GoIdleFinished
  <1>6. CASE TransmitStartedLate \/ CcaBusy
    BY <1>6 DEF TransmitStartedLate, CcaBusy
  <1>7. CASE FrameTransmitted
    BY <1>7 DEF FrameTransmitted
  <1>8. CASE AckReceived \/ BadAck
    BY <1>8 DEF AckReceived, BadAck
  <1>9. CASE AckTimeout
    BY <1>9 DEF AckTimeout
  <1>10. CASE CcaFinished
    BY <1>10 DEF CcaFinished
  <1>11. CASE EdFinished
    <2>1. CASE UNCHANGED state
      BY <1>11, <2>1 DEF EdFinished
    <2>2. CASE SwitchToIdle("FINISHED")
      BY <1>11, <2>2 DEF EdFinished
    <2>. QED
      BY <1>11, <2>1, <2>2 DEF EdFinished
  <1>12. ASSUME NEW force \in BOOLEAN, Sleep(force) PROVE ClientOK'
    BY <1>12 DEF Sleep, CoreSleep
  <1>13. CASE Receive
    BY <1>13 DEF Receive
  <1>14. ASSUME NEW c \in Clients, NEW cca \in BOOLEAN, NEW ack \in BOOLEAN,
                Transmit(c, cca, ack)
         PROVE  ClientOK'
    BY <1>14 DEF Transmit
  <1>15. ASSUME NEW time \in EdTimes, EnergyDetection(time) PROVE ClientOK'
    BY <1>15 DEF EnergyDetection
  <1>16. CASE Cca
    BY <1>16 DEF Cca
  <1>17. ASSUME NEW k \in Carriers, Carrier(k) PROVE ClientOK'
    BY <1>17 DEF Carrier
  <1>18. CASE ChannelUpdate \/ RxOnWhenIdleSet
    BY <1>18 DEF ChannelUpdate, RxOnWhenIdleSet
  <1>19. ASSUME NEW b \in Buffers, BufferFree(b) PROVE ClientOK'
    BY <1>19 DEF BufferFree
  <1>20. CASE UNCHANGED vars
    BY <1>20 DEF vars
  <1>. HIDE DEF ClientOK
  <1>. QED
    BY <1>1, <1>2, <1>3, <1>4, <1>5, <1>6, <1>7, <1>8, <1>9, <1>10, <1>11, <1>12, <1>13,
       <1>14, <1>15, <1>16, <1>17, <1>18, <1>19, <1>20
    DEF Next, Scheduler, RadioIrq, Requests

\* The time of an energy detection.
EdType == edLeft \in Nat /\ edCount \in Nat /\ edAsked \in Nat /\ edDone \in Nat

\* No more iterations are started than the time left holds.
LEMMA EdSetupType ==
    ASSUME NEW time \in Nat, NEW left, EdIterSetup(time, left), edCount \in Nat
    PROVE  edLeft' \in Nat /\ edCount' \in Nat
  <1>. DEFINE q == time \div EdIter
  <1>1. EdIter \in Nat /\ EdIter > 0
    BY ConfigAssumption
  <1>2. q \in Nat /\ EdIter * q <= time
    BY <1>1
  <1>3. ASSUME NEW n \in 1..q PROVE n \in Nat /\ time - n * EdIter \in Nat
    <2>1. n \in Nat /\ n <= q
      BY <1>2, <1>3
    <2>2. EdIter * n <= EdIter * q
      <3>. HIDE DEF q
      <3>. QED
        BY <1>1, <1>2, <2>1
    <2>3. n * EdIter = EdIter * n /\ EdIter * n \in Nat /\ EdIter * q \in Nat
      BY <1>1, <1>2, <2>1
    <2>. HIDE DEF q
    <2>. QED
      BY <1>2, <2>1, <2>2, <2>3
  <1>. HIDE DEF q
  <1>. QED
    BY <1>2, <1>3 DEF EdIterSetup, q

\* The energy detection's counters stay naturals: the time left never wraps.
LEMMA NextEdType == ASSUME EdType, [Next]_vars PROVE EdType'
  <1>. USE DEF EdType, edVars
  <1>1. EdIter \in Nat /\ EdTimes \subseteq Nat
    BY ConfigAssumption
  <1>2. ASSUME NEW time \in EdTimes, EnergyDetection(time) PROVE EdType'
    <2>. DEFINE asked == IF time < EdIter THEN EdIter ELSE time
    <2>1. asked \in Nat /\ EdInit(asked, Aborted(trx)) /\ edAsked' \in Nat /\ edDone' \in Nat
      BY <1>1, <1>2 DEF EnergyDetection
    <2>2. edLeft' \in Nat /\ edCount' \in Nat
      <3>. HIDE DEF asked
      <3>. QED
        BY <2>1, EdSetupType DEF EdInit
    <2>. QED
      BY <2>1, <2>2
  <1>3. CASE EdFinished
    <2>1. edDone' \in Nat /\ edAsked' \in Nat
      BY <1>3 DEF EdFinished
    <2>2. edLeft' \in Nat /\ edCount' \in Nat
      BY <1>3, EdSetupType DEF EdFinished
    <2>. QED
      BY <2>1, <2>2
  <1>4. ASSUME NEW p \in PrioLevels, PrioChanged(p) PROVE EdType'
    <2>1. CASE PreconditionsApproved
      <3>1. edAsked' \in Nat /\ edDone' \in Nat
        BY <2>1 DEF PreconditionsApproved
      <3>2. edLeft' \in Nat /\ edCount' \in Nat
        BY <2>1, EdSetupType DEF PreconditionsApproved, EdInit
      <3>. QED
        BY <3>1, <3>2
    <2>2. CASE UNCHANGED edVars
      BY <2>2
    <2>. QED
      BY <1>4, <2>1, <2>2 DEF PrioChanged, PreconditionsDenied
  <1>5. CASE UNCHANGED edVars
    BY <1>5
  <1>6. CASE TimeslotEnded \/ TimeslotClosing \/ AckTimeout
    BY <1>6 DEF TimeslotEnded, TimeslotClosing, AckTimeout
  <1>7. CASE \/ BcMatched \/ FrameCrcError \/ FrameAcked \/ FrameDelivered \/ FrameDropped
             \/ AckTransmitted \/ TransmitStartedLate \/ CcaIdle \/ CcaBusy
             \/ FrameTransmitted \/ AckReceived \/ BadAck \/ CcaFinished \/ GoIdleFinished
    BY <1>7 DEF BcMatched, FrameCrcError, FrameAcked, FrameDelivered, FrameDropped,
       AckTransmitted, TransmitStartedLate, CcaIdle, CcaBusy, FrameTransmitted,
       AckReceived, BadAck, CcaFinished, GoIdleFinished
  <1>8. CASE \/ \E force \in BOOLEAN : Sleep(force)
             \/ Receive \/ Cca \/ ChannelUpdate \/ RxOnWhenIdleSet
             \/ \E c \in Clients, cca, ack \in BOOLEAN : Transmit(c, cca, ack)
             \/ \E k \in Carriers : Carrier(k)
             \/ \E b \in Buffers : BufferFree(b)
    BY <1>8 DEF Sleep, Receive, Cca, ChannelUpdate, RxOnWhenIdleSet, Transmit, Carrier,
       BufferFree
  <1>9. CASE UNCHANGED vars
    BY <1>9 DEF vars
  <1>. HIDE DEF EdType
  <1>. QED
    BY <1>2, <1>3, <1>4, <1>6, <1>7, <1>8, <1>9 DEF Next, Scheduler, RadioIrq, Requests

-----------------------------------------------------------------------------
\* The inductive invariant.
IInv == Control /\ OutcomeOK /\ BuffersOK /\ ClientOK /\ EdType

\* The driver sleeps outside any timeslot, with every buffer free.
LEMMA InitIInv == Init => IInv
  <1>. SUFFICES ASSUME Init PROVE IInv
    OBVIOUS
  <1>1. Control
    <2>1. state \in States /\ requested \in IDLE..PRIO_TX
      BY DEF Init, States, IDLE, PRIO_TX
    <2>2. trx \in TrxStates /\ prio \in PrioLevels
      BY ConfigAssumption DEF Init, TrxStates
    <2>3. dim \in BOOLEAN /\ closing \in BOOLEAN /\ rxOnIdle \in BOOLEAN /\ DimOK
      BY DEF Init, DimOK
    <2>4. TrxOK
      BY DEF Init, TrxOK, Carriers
    <2>5. RadioWithinPriority /\ RequestFollowsState
      BY DEF Init, RadioWithinPriority, RequestFollowsState, Allowed, MinPrio, IDLE,
         IDLE_LISTENING, PRIO_RX, PRIO_TX
    <2>. QED
      BY <2>1, <2>2, <2>3, <2>4, <2>5 DEF Control, ControlType
  <1>2. OutcomeOK
    BY DEF Init, OutcomeOK, TxStates
  <1>3. BuffersOK
    BY ConfigAssumption DEF Init, BuffersOK, BufferType, BufferOwnership, MissingOK,
       BufferShortage, Buffers, None
  <1>4. ClientOK
    BY DEF Init, ClientOK, ClientPresent, TxStates, Clients
  <1>5. EdType
    BY DEF Init, EdType
  <1>. QED
    BY <1>1, <1>2, <1>3, <1>4, <1>5 DEF IInv

\* The inductive invariant holds after every handler, for any number of buffers
\* and any priorities.
THEOREM CoreInvariant == Spec => []IInv
  <1>1. IInv /\ [Next]_vars => IInv'
    BY NextControl, NextOutcome, NextBuffers, NextClient, NextEdType DEF IInv
  <1>. QED
    BY <1>1, InitIInv, PTL DEF Spec

\* State, transceiver, granted and requested priority agree after every handler.
THEOREM CoreOperation == Spec => []OperationConsistent
  <1>1. IInv => OperationConsistent
    <2>. SUFFICES ASSUME IInv PROVE OperationConsistent
      OBVIOUS
    <2>1. TypeOK
      BY DEF IInv, Control, ControlType, OutcomeOK, BuffersOK, BufferType, ClientOK,
         EdType, TypeOK
    <2>2. TrxFollowsState
      BY TrxOKFollows DEF IInv, Control
    <2>. QED
      BY <2>1, <2>2 DEF IInv, Control, OperationConsistent
  <1>. QED
    BY <1>1, CoreInvariant, PTL

\* No handler drops the outcome of a transmission and none tells it twice.
THEOREM CoreOutcome == Spec => []TransmitOutcomeOnce
  <1>1. IInv => TransmitOutcomeOnce
    BY DEF IInv, OutcomeOK, TransmitOutcomeOnce
  <1>. QED
    BY <1>1, CoreInvariant, PTL

\* Every buffer is free or the higher layer's, the radio receives only into a free
\* one, and the receiver lacks a buffer only in a shortage the higher layer knows of.
THEOREM CoreBuffers == Spec => []BuffersConsistent
  <1>1. IInv => BuffersConsistent
    BY DEF IInv, BuffersOK, BuffersConsistent
  <1>. QED
    BY <1>1, CoreInvariant, PTL

\* The assertions of the core on m_tx.p_client hold.
THEOREM CoreClient == Spec => []ClientPresent
  <1>1. IInv => ClientPresent
    BY DEF IInv, ClientOK
  <1>. QED
    BY <1>1, CoreInvariant, PTL

-----------------------------------------------------------------------------
\* The buffer of the frame being acknowledged is given away.
Given == cur \in app' \ app

\* While an ACK is sent, the buffer of its frame is the driver's.
LEMMA AckBuffer == ASSUME IInv, state = "TX_ACK" PROVE cur \in free /\ cur \notin app
  BY DEF IInv, Control, TrxOK, BuffersOK, BufferOwnership, MissingOK

\* No handler leaves TX_ACK without handing over the frame.
LEMMA NextGiven ==
    ASSUME IInv, [Next]_vars, state = "TX_ACK", state' # "TX_ACK"
    PROVE  Given
  <1>deliver. Deliver => Given
    BY AckBuffer DEF Deliver, Given
  <1>. USE DEF StateSet, SwitchToIdle, TxStates, Carriers
  <1>trx. trx = "TXACK"
    BY DEF IInv, Control, TrxOK
  <1>terminated. TerminatedBuffers(state) => Given
    BY <1>deliver DEF TerminatedBuffers
  <1>1. CASE TimeslotEnded
    BY <1>1, <1>deliver DEF TimeslotEnded
  <1>2. ASSUME NEW p \in PrioLevels, PrioChanged(p) PROVE Given
    BY <1>2, <1>terminated DEF PrioChanged, PreconditionsDenied, PreconditionsApproved
  <1>3. CASE AckTransmitted
    BY <1>3, <1>deliver DEF AckTransmitted
  <1>4. ASSUME NEW force \in BOOLEAN, Sleep(force) PROVE Given
    BY <1>4, <1>terminated DEF Sleep
  <1>5. ASSUME NEW c \in Clients, NEW cca \in BOOLEAN, NEW ack \in BOOLEAN,
               Transmit(c, cca, ack)
        PROVE  Given
    BY <1>5, <1>terminated DEF Transmit
  <1>6. ASSUME NEW time \in EdTimes, EnergyDetection(time) PROVE Given
    BY <1>6, <1>terminated DEF EnergyDetection
  <1>7. ASSUME NEW k \in Carriers, Carrier(k) PROVE Given
    BY <1>7, <1>terminated DEF Carrier
  <1>8. CASE Cca
    BY <1>8, <1>terminated DEF Cca
  <1>9. CASE Receive \/ ChannelUpdate \/ RxOnWhenIdleSet \/ TimeslotClosing \/ AckTimeout
    BY <1>9 DEF Receive, ChannelUpdate, RxOnWhenIdleSet, TimeslotClosing, AckTimeout
  <1>10. ASSUME NEW b \in Buffers, BufferFree(b) PROVE Given
    BY <1>10 DEF BufferFree
  <1>11. CASE \/ BcMatched \/ FrameCrcError \/ FrameAcked \/ FrameDelivered \/ FrameDropped
              \/ TransmitStartedLate \/ CcaIdle \/ CcaBusy \/ FrameTransmitted
              \/ AckReceived \/ BadAck \/ CcaFinished \/ EdFinished \/ GoIdleFinished
    BY <1>11, <1>trx DEF BcMatched, FrameCrcError, FrameAcked, FrameDelivered, FrameDropped,
       Receiving, TransmitStartedLate, CcaIdle, CcaBusy, FrameTransmitted, AckReceived,
       BadAck, CcaFinished, EdFinished, GoIdleFinished
  <1>12. CASE UNCHANGED vars
    BY <1>12 DEF vars
  <1>. QED
    BY <1>1, <1>2, <1>3, <1>4, <1>5, <1>6, <1>7, <1>8, <1>9, <1>10, <1>11, <1>12
    DEF Next, Scheduler, RadioIrq, Requests

\* A frame whose ACK the driver has begun to send reaches the higher layer,
\* whatever cuts the ACK short.
THEOREM CoreAcked == Spec => AckedFrameDelivered
  <1>1. IInv /\ [Next]_vars => [state = "TX_ACK" /\ state' # "TX_ACK" => cur \in app' \ app]_vars
    BY NextGiven DEF Given
  <1>. QED
    BY <1>1, CoreInvariant, PTL DEF Spec, AckedFrameDelivered
=============================================================================
