---------------------------- MODULE CsmaCaProofs ----------------------------
(***************************************************************************)
(* The CSMA-CA procedure, for any values the higher layer gives the PIB    *)
(* and at any time, as long as max_backoffs stays below the largest value  *)
(* of the uint8_t that counts the backoffs.                                *)
(***************************************************************************)
EXTENDS CsmaCa, TLAPS

\* The values of max_backoffs for which m_nb > max_backoffs can become true.
NoWrap == 255 \notin BackoffsValues

\* A callback on its way belongs to a backoff, or to one that reinit dropped;
\* the core's phase and the state of the procedure agree.
PhaseOK ==
    /\ fired => state \in {"BACKOFF", "IDLE"}
    /\ op = "ccatx" => state = "ATTEMPTING_CCATX"
    /\ op = "tx" => state = "TRANSMITTING"

\* m_nb counts the attempts that failed, and has not passed max_backoffs.
CountOK ==
    /\ maxBackoffs < 255 /\ mostBackoffs < 255
    /\ attempts <= mostBackoffs + 1
    /\ state # "IDLE" => nb <= mostBackoffs /\ maxBackoffs <= mostBackoffs
    /\ state = "BACKOFF" => attempts = nb
    /\ state \in {"ATTEMPTING_CCATX", "TRANSMITTING"} => attempts = nb + 1

\* The priority the backoff was started with is still the one its mode asks for.
PrioOK ==
    /\ state = "BACKOFF" /\ steadyMode => slot = BackoffPrio(nb)
    /\ CoexRequestFollowsMode

IInv ==
    /\ TypeOK /\ AssertsHold /\ OutcomeOnce /\ NeverStranded
    /\ PhaseOK /\ CountOK /\ PrioOK

-----------------------------------------------------------------------------
\* Nothing is scheduled and nothing is owed before the first call.
LEMMA InitIInv == Init => IInv
  <1>. SUFFICES ASSUME Init PROVE IInv
    OBVIOUS
  <1>. USE DEF Init, MIN_BE_DEFAULT, MAX_BE_DEFAULT, MAX_CSMA_BACKOFFS_DEFAULT
  <1>1. TypeOK
    <2>1. TypeData
      BY DEF TypeData, States, U8, AllCoexModes, CSMACA_BE_MAXIMUM
    <2>2. TypeFlags
      BY DEF TypeFlags
    <2>. QED
      BY <2>1, <2>2 DEF TypeOK
  <1>2. AssertsHold
    BY DEF AssertsHold
  <1>3. OutcomeOnce /\ NeverStranded
    BY DEF OutcomeOnce, NeverStranded
  <1>4. PhaseOK
    BY DEF PhaseOK
  <1>5. CountOK
    BY DEF CountOK
  <1>6. PrioOK
    BY DEF PrioOK, CoexRequestFollowsMode
  <1>. QED
    BY <1>1, <1>2, <1>3, <1>4, <1>5, <1>6 DEF IInv

\* The counter does not wrap at a value the invariant allows.
LEMMA NbStep ==
  ASSUME NEW n \in U8, n < 255
  PROVE  (n + 1) % 256 = n + 1 /\ (n + 1) % 256 \in U8
  BY DEF U8

\* csma_ca_failed, whoever calls it for an attempt that has counted as number
\* nb + 1 and whose timeslot is gone: the frame backs off again or is answered.
LEMMA FailedStep ==
  ASSUME IInv, NEW s \in {"ATTEMPTING_CCATX", "TRANSMITTING"}, NEW e \in Errors,
         Failed(s, e, "none", TRUE),
         nb <= mostBackoffs, maxBackoffs <= mostBackoffs, owed = 1,
         UNCHANGED maxBe
  PROVE  /\ nb' \in U8 /\ be' \in 0..CSMACA_BE_MAXIMUM /\ assertsHold'
         /\ \/ /\ state' = "BACKOFF" /\ slot' = BackoffPrio(nb')
               /\ nb' = nb + 1 /\ nb' <= maxBackoffs
               /\ owed' = 1 /\ outcome' = outcome
            \/ /\ state' = "IDLE" /\ slot' = "none" /\ owed' = 0
               /\ outcome' = e
               /\ e = "BUSY_CHANNEL" /\ s = "ATTEMPTING_CCATX" =>
                      nb + 1 > maxBackoffs
  <1>1. nb \in U8 /\ nb < 255 /\ be \in 0..8 /\ maxBe \in 0..8 /\ assertsHold
        /\ maxBackoffs \in U8
    BY DEF IInv, TypeOK, TypeData, CountOK, U8, CSMACA_BE_MAXIMUM, AssertsHold
  <1>2. (nb + 1) % 256 = nb + 1 /\ nb + 1 \in U8
    BY <1>1, NbStep
  <1>. USE DEF Failed, Exhausted, Notify, RandomBackoffStart
  <1>3. nb' \in U8 /\ be' \in 0..CSMACA_BE_MAXIMUM
    BY <1>1, <1>2 DEF U8, CSMACA_BE_MAXIMUM
  <1>4. assertsHold'
    BY <1>1
  <1>5. \/ /\ state' = "BACKOFF" /\ slot' = BackoffPrio(nb')
           /\ nb' = nb + 1 /\ nb' <= maxBackoffs
           /\ owed' = 1 /\ outcome' = outcome
        \/ /\ state' = "IDLE" /\ slot' = "none" /\ owed' = 0
           /\ outcome' = e
           /\ e = "BUSY_CHANNEL" /\ s = "ATTEMPTING_CCATX" =>
                  nb + 1 > maxBackoffs
    BY <1>1, <1>2 DEF U8
  <1>. QED
    BY <1>3, <1>4, <1>5

\* Every step of the procedure keeps the invariant.
LEMMA NextIInv ==
  ASSUME NoWrap, IInv, [Next]_vars
  PROVE  IInv'
  <1>. USE DEF IInv, TypeOK, TypeData, TypeFlags, AssertsHold, OutcomeOnce,
               NeverStranded, PhaseOK, CountOK, PrioOK, CoexRequestFollowsMode,
               BackoffPrio, States, U8, AllCoexModes, CSMACA_BE_MAXIMUM,
               procVars, pibVars, seenVars
  <1>1. CASE CsmaCaStart
    <2>1. TypeFlags'
      BY <1>1 DEF CsmaCaStart, RandomBackoffStart
    <2>2. AssertsHold'
      BY <1>1 DEF CsmaCaStart, RandomBackoffStart
    <2>3. TypeData'
      BY <1>1 DEF CsmaCaStart, RandomBackoffStart
    <2>4. OutcomeOnce' /\ NeverStranded'
      BY <1>1 DEF CsmaCaStart, RandomBackoffStart
    <2>5. PhaseOK'
      BY <1>1 DEF CsmaCaStart, RandomBackoffStart
    <2>6. CountOK'
      BY <1>1 DEF CsmaCaStart, RandomBackoffStart
    <2>7. PrioOK'
      BY <1>1 DEF CsmaCaStart, RandomBackoffStart
    <2>. QED
      BY <2>1, <2>2, <2>3, <2>4, <2>5, <2>6, <2>7
  <1>2. CASE SlotStart
    BY <1>2 DEF SlotStart
  <1>3. CASE FrameTransmit
    <2>1. CASE state = "BACKOFF" /\ op' = "ccatx"
      <3>1. op = "none"
        BY <2>1
      <3>2. /\ state' = "ATTEMPTING_CCATX" /\ slot' = "none"
            /\ fired' = FALSE /\ attempts' = attempts + 1
            /\ ccaPrio' = LeveragedPrio
            /\ assertsHold' = (assertsHold /\ LeverageAssert)
            /\ UNCHANGED <<nb, be, owed, outcome, pibVars, mostBackoffs,
                           steadyMode>>
        BY <1>3, <2>1, <3>1 DEF FrameTransmit, SlotAfterTransmit
      <3>3. LeverageAssert
        BY <2>1 DEF LeverageAssert
      <3>4. TypeFlags'
        BY <2>1, <3>1, <3>2, <3>3 DEF LeveragedPrio
      <3>5. AssertsHold'
        BY <2>1, <3>1, <3>2, <3>3 DEF LeveragedPrio
      <3>6. TypeData'
        BY <2>1, <3>1, <3>2, <3>3 DEF LeveragedPrio
      <3>7. OutcomeOnce' /\ NeverStranded'
        BY <2>1, <3>1, <3>2, <3>3 DEF LeveragedPrio
      <3>8. PhaseOK'
        BY <2>1, <3>1, <3>2, <3>3 DEF LeveragedPrio
      <3>9. CountOK'
        BY <2>1, <3>1, <3>2, <3>3 DEF LeveragedPrio
      <3>10. PrioOK'
        BY <2>1, <3>1, <3>2, <3>3 DEF LeveragedPrio
      <3>. QED
        BY <3>4, <3>5, <3>6, <3>7, <3>8, <3>9, <3>10
    <2>2. CASE state = "BACKOFF" /\ op' # "ccatx"
      <3>1. PICK e \in {"TIMESLOT_DENIED", "BUSY_CHANNEL", "SETUP_FAILED"} :
              Failed("ATTEMPTING_CCATX", e, "none", LeverageAssert)
        BY <1>3, <2>2 DEF FrameTransmit, SlotAfterTransmit
      <3>2. LeverageAssert = TRUE
        BY <2>2 DEF LeverageAssert
      <3>3. /\ fired' = FALSE /\ op' = op /\ attempts' = attempts + 1
            /\ ccaPrio' = LeveragedPrio
            /\ UNCHANGED <<pibVars, mostBackoffs, steadyMode>>
        BY <1>3, <2>2 DEF FrameTransmit
      <3>4. e \in Errors /\ owed = 1
            /\ nb <= mostBackoffs /\ maxBackoffs <= mostBackoffs
        BY <2>2 DEF Errors
      <3>5. Failed("ATTEMPTING_CCATX", e, "none", TRUE) /\ UNCHANGED maxBe
        BY <3>1, <3>2, <3>3
      <3>6. /\ nb' \in U8 /\ be' \in 0..CSMACA_BE_MAXIMUM /\ assertsHold'
            /\ \/ /\ state' = "BACKOFF" /\ slot' = BackoffPrio(nb')
                  /\ nb' = nb + 1 /\ nb' <= maxBackoffs
                  /\ owed' = 1 /\ outcome' = outcome
               \/ /\ state' = "IDLE" /\ slot' = "none" /\ owed' = 0
                  /\ outcome' = e
        <4>. HIDE DEF IInv, TypeOK, TypeData, BackoffPrio, U8, CSMACA_BE_MAXIMUM
        <4>. QED
          BY <3>4, <3>5, FailedStep
      <3>7. TypeFlags'
        BY <2>2, <3>3, <3>4, <3>6 DEF LeveragedPrio
      <3>8. AssertsHold'
        BY <2>2, <3>3, <3>4, <3>6 DEF LeveragedPrio
      <3>9. TypeData'
        BY <2>2, <3>3, <3>4, <3>6 DEF LeveragedPrio
      <3>10. OutcomeOnce' /\ NeverStranded'
        BY <2>2, <3>3, <3>4, <3>6 DEF LeveragedPrio
      <3>11. PhaseOK'
        BY <2>2, <3>3, <3>4, <3>6 DEF LeveragedPrio
      <3>12. CountOK'
        <4>1. /\ CountOK /\ attempts = nb /\ attempts' = attempts + 1
              /\ UNCHANGED <<maxBackoffs, mostBackoffs>>
              /\ nb \in Nat /\ maxBackoffs \in Nat /\ mostBackoffs \in Nat
              /\ nb <= mostBackoffs /\ maxBackoffs <= mostBackoffs
          BY <2>2, <3>3, <3>4
        <4>2. \/ state' = "BACKOFF" /\ nb' = nb + 1 /\ nb' <= maxBackoffs
              \/ state' = "IDLE"
          BY <3>6
        <4>. HIDE DEF IInv
        <4>. QED
          BY <4>1, <4>2
      <3>13. PrioOK'
        BY <2>2, <3>3, <3>4, <3>6 DEF LeveragedPrio
      <3>. QED
        BY <3>7, <3>8, <3>9, <3>10, <3>11, <3>12, <3>13
    <2>3. CASE state # "BACKOFF"
      <3>1. TypeFlags'
        BY <1>3, <2>3 DEF FrameTransmit
      <3>2. AssertsHold'
        BY <1>3, <2>3 DEF FrameTransmit
      <3>3. TypeData'
        BY <1>3, <2>3 DEF FrameTransmit
      <3>4. OutcomeOnce' /\ NeverStranded'
        BY <1>3, <2>3 DEF FrameTransmit
      <3>5. PhaseOK'
        BY <1>3, <2>3 DEF FrameTransmit
      <3>6. CountOK'
        BY <1>3, <2>3 DEF FrameTransmit
      <3>7. PrioOK'
        BY <1>3, <2>3 DEF FrameTransmit
      <3>. QED
        BY <3>1, <3>2, <3>3, <3>4, <3>5, <3>6, <3>7
    <2>. QED
      BY <2>1, <2>2, <2>3
  <1>4. CASE TxStarted
    BY <1>4 DEF TxStarted
  <1>5. CASE TxDone
    <2>1. TypeFlags'
      BY <1>5 DEF TxDone, Notify
    <2>2. AssertsHold'
      BY <1>5 DEF TxDone, Notify
    <2>3. TypeData'
      BY <1>5 DEF TxDone, Notify
    <2>4. OutcomeOnce' /\ NeverStranded'
      BY <1>5 DEF TxDone, Notify
    <2>5. PhaseOK'
      BY <1>5 DEF TxDone, Notify
    <2>6. CountOK'
      BY <1>5 DEF TxDone, Notify
    <2>7. PrioOK'
      BY <1>5 DEF TxDone, Notify
    <2>. QED
      BY <2>1, <2>2, <2>3, <2>4, <2>5, <2>6, <2>7
  <1>6. CASE TxFailed
    <2>1. PICK e \in CoreErrors : Failed(state, e, slot, TRUE)
      BY <1>6 DEF TxFailed
    <2>2. /\ op # "none" /\ op' = "none"
          /\ UNCHANGED <<fired, pibVars, attempts, mostBackoffs, steadyMode,
                         ccaPrio>>
      BY <1>6 DEF TxFailed
    <2>3. /\ state \in {"ATTEMPTING_CCATX", "TRANSMITTING"} /\ slot = "none"
          /\ e \in Errors /\ owed = 1
          /\ nb <= mostBackoffs /\ maxBackoffs <= mostBackoffs
      BY <2>2 DEF CoreErrors, Errors
    <2>4. Failed(state, e, "none", TRUE) /\ UNCHANGED maxBe
      BY <2>1, <2>2, <2>3
    <2>5. /\ nb' \in U8 /\ be' \in 0..CSMACA_BE_MAXIMUM /\ assertsHold'
          /\ \/ /\ state' = "BACKOFF" /\ slot' = BackoffPrio(nb')
                /\ nb' = nb + 1 /\ nb' <= maxBackoffs
                /\ owed' = 1 /\ outcome' = outcome
             \/ /\ state' = "IDLE" /\ slot' = "none" /\ owed' = 0
                /\ outcome' = e
      <3>. HIDE DEF IInv, TypeOK, TypeData, BackoffPrio, U8, CSMACA_BE_MAXIMUM
      <3>. QED
        BY <2>3, <2>4, FailedStep
    <2>6. TypeFlags'
      BY <2>2, <2>3, <2>5
    <2>7. AssertsHold'
      BY <2>2, <2>3, <2>5
    <2>8. TypeData'
      BY <2>2, <2>3, <2>5
    <2>9. OutcomeOnce' /\ NeverStranded'
      BY <2>2, <2>3, <2>5
    <2>10. PhaseOK'
      BY <2>2, <2>3, <2>5
    <2>11. CountOK'
      <3>1. /\ CountOK /\ attempts = nb + 1 /\ attempts' = attempts
            /\ UNCHANGED <<maxBackoffs, mostBackoffs>>
            /\ nb \in Nat /\ maxBackoffs \in Nat /\ mostBackoffs \in Nat
            /\ nb <= mostBackoffs /\ maxBackoffs <= mostBackoffs
        BY <2>2, <2>3
      <3>2. \/ state' = "BACKOFF" /\ nb' = nb + 1 /\ nb' <= maxBackoffs
            \/ state' = "IDLE"
        BY <2>5
      <3>. HIDE DEF IInv
      <3>. QED
        BY <3>1, <3>2
    <2>12. PrioOK'
      BY <2>2, <2>3, <2>5
    <2>. QED
      BY <2>6, <2>7, <2>8, <2>9, <2>10, <2>11, <2>12
  <1>7. CASE Reinit
    BY <1>7 DEF Reinit, MIN_BE_DEFAULT, MAX_BE_DEFAULT,
                MAX_CSMA_BACKOFFS_DEFAULT
  <1>8. ASSUME NEW v \in MinBeValues, MinBeSet(v) PROVE IInv'
    BY <1>8, CsmaAssumption DEF MinBeSet
  <1>9. ASSUME NEW v \in MaxBeValues, MaxBeSet(v) PROVE IInv'
    BY <1>9, CsmaAssumption DEF MaxBeSet
  <1>10. ASSUME NEW v \in BackoffsValues, MaxBackoffsSet(v) PROVE IInv'
    <2>1. v \in 0..254
      BY CsmaAssumption DEF NoWrap
    <2>2. TypeFlags'
      BY <1>10, <2>1 DEF MaxBackoffsSet
    <2>3. AssertsHold'
      BY <1>10, <2>1 DEF MaxBackoffsSet
    <2>4. TypeData'
      BY <1>10, <2>1 DEF MaxBackoffsSet
    <2>5. OutcomeOnce' /\ NeverStranded'
      BY <1>10, <2>1 DEF MaxBackoffsSet
    <2>6. PhaseOK'
      BY <1>10, <2>1 DEF MaxBackoffsSet
    <2>7. CountOK'
      <3>1. /\ CountOK /\ nb \in Nat /\ attempts \in Nat
            /\ maxBackoffs \in Nat /\ mostBackoffs \in Nat
        OBVIOUS
      <3>2. /\ maxBackoffs' = v
            /\ mostBackoffs' = IF v > mostBackoffs THEN v ELSE mostBackoffs
            /\ UNCHANGED <<state, nb, attempts>>
        BY <1>10 DEF MaxBackoffsSet
      <3>. HIDE DEF IInv
      <3>. QED
        BY <2>1, <3>1, <3>2
    <2>8. PrioOK'
      BY <1>10, <2>1 DEF MaxBackoffsSet
    <2>. QED
      BY <2>2, <2>3, <2>4, <2>5, <2>6, <2>7, <2>8
  <1>11. ASSUME NEW m \in CoexModes, CoexModeSet(m) PROVE IInv'
    <2>1. m \in AllCoexModes
      BY CsmaAssumption
    <2>2. TypeFlags'
      BY <1>11, <2>1 DEF CoexModeSet
    <2>3. AssertsHold'
      BY <1>11, <2>1 DEF CoexModeSet
    <2>4. TypeData'
      BY <1>11, <2>1 DEF CoexModeSet
    <2>5. OutcomeOnce' /\ NeverStranded'
      BY <1>11, <2>1 DEF CoexModeSet
    <2>6. PhaseOK'
      BY <1>11, <2>1 DEF CoexModeSet
    <2>7. CountOK'
      BY <1>11, <2>1 DEF CoexModeSet
    <2>8. PrioOK'
      BY <1>11, <2>1 DEF CoexModeSet
    <2>. QED
      BY <2>2, <2>3, <2>4, <2>5, <2>6, <2>7, <2>8
  <1>12. CASE UNCHANGED vars
    BY <1>12 DEF vars
  <1>. QED
    BY <1>1, <1>2, <1>3, <1>4, <1>5, <1>6, <1>7, <1>8, <1>9, <1>10, <1>11, <1>12
       DEF Next

-----------------------------------------------------------------------------
\* The invariant of the procedure holds in every reachable state.
THEOREM CsmaInvariant == NoWrap => (Spec => []IInv)
  <1>1. ASSUME NoWrap PROVE Spec => []IInv
    <2>1. IInv /\ [Next]_vars => IInv'
      BY <1>1, NextIInv
    <2>. QED
      BY InitIInv, <2>1, PTL DEF Spec
  <1>. QED
    BY <1>1

\* The types, and with them the bound 8 on BE (nrf_802154_pib.c:52), for every
\* order of the calls that change the PIB.
THEOREM CsmaTypes == NoWrap => (Spec => []TypeOK)
  <1>1. IInv => TypeOK
    BY DEF IInv
  <1>. QED
    BY CsmaInvariant, <1>1, PTL

\* No NRF_802154_ASSERT of nrf_802154_csma_ca.c can fail.
THEOREM CsmaAsserts == NoWrap => (Spec => []AssertsHold)
  <1>1. IInv => AssertsHold
    BY DEF IInv
  <1>. QED
    BY CsmaInvariant, <1>1, PTL

\* Every frame accepted by nrf_802154_csma_ca_start has one outcome, and the
\* procedure never waits for a timeslot or an attempt that does not exist.
THEOREM CsmaOutcome == NoWrap => (Spec => []FrameAccounted)
  <1>1. IInv => FrameAccounted
    BY DEF IInv, FrameAccounted
  <1>. QED
    BY CsmaInvariant, <1>1, PTL

\* The channel is assessed at most max_backoffs + 1 times for one frame.
THEOREM CsmaAttempts == NoWrap => (Spec => []AttemptsBounded)
  <1>1. IInv => AttemptsBounded
    BY DEF IInv, CountOK, AttemptsBounded
  <1>. QED
    BY CsmaInvariant, <1>1, PTL

\* Every attempt is made with the coex request its mode calls for, unless
\* nrf_802154_coex_tx_request_mode_set changed the mode during the procedure.
THEOREM CsmaCoex == NoWrap => (Spec => []CoexRequestFollowsMode)
  <1>1. IInv => CoexRequestFollowsMode
    BY DEF IInv, PrioOK
  <1>. QED
    BY CsmaInvariant, <1>1, PTL

\* In a hardware build a frame fails for a busy channel only when its backoffs
\* are spent.
THEOREM CsmaBusyRetried == NoWrap /\ ~Bsim => (Spec => BusyIsRetried)
  <1>1. ASSUME NoWrap, ~Bsim PROVE Spec => BusyIsRetried
    <2>1. ASSUME IInv, [Next]_vars, owed' < owed, outcome' = "BUSY_CHANNEL"
          PROVE  attempts' > maxBackoffs
      <3>. USE DEF IInv, TypeOK, TypeData, OutcomeOnce, NeverStranded, PhaseOK,
                   CountOK, procVars, pibVars, seenVars, U8
      <3>1. CASE FrameTransmit
        <4>1. PICK e \in {"TIMESLOT_DENIED", "BUSY_CHANNEL", "SETUP_FAILED"} :
                /\ Failed("ATTEMPTING_CCATX", e, "none", LeverageAssert)
                /\ state = "BACKOFF" /\ attempts' = attempts + 1
          BY <2>1, <3>1 DEF FrameTransmit, SlotAfterTransmit
        <4>2. LeverageAssert = TRUE
          BY <2>1, <4>1 DEF LeverageAssert
        <4>3. UNCHANGED maxBe /\ e \in Errors /\ owed = 1
              /\ nb <= mostBackoffs /\ maxBackoffs <= mostBackoffs
              /\ attempts' = nb + 1
          BY <2>1, <3>1, <4>1 DEF FrameTransmit, Errors
        <4>4. Failed("ATTEMPTING_CCATX", e, "none", TRUE)
          BY <4>1, <4>2
        <4>5. \/ owed' = 1
              \/ outcome' = e /\ (e = "BUSY_CHANNEL" => nb + 1 > maxBackoffs)
          <5>. HIDE DEF IInv, TypeOK, TypeData, U8
          <5>. QED
            BY <2>1, <4>3, <4>4, FailedStep
        <4>. QED
          BY <2>1, <4>3, <4>5
      <3>2. CASE TxFailed
        <4>1. PICK e \in CoreErrors : Failed(state, e, slot, TRUE)
          BY <3>2 DEF TxFailed
        <4>2. /\ op # "none" /\ slot = "none" /\ e \in Errors
              /\ state \in {"ATTEMPTING_CCATX", "TRANSMITTING"}
              /\ UNCHANGED <<maxBe, attempts>> /\ owed = 1
              /\ nb <= mostBackoffs /\ maxBackoffs <= mostBackoffs
              /\ attempts = nb + 1
          BY <2>1, <3>2 DEF TxFailed, CoreErrors, Errors
        <4>3. \/ owed' = 1
              \/ /\ outcome' = e
                 /\ e = "BUSY_CHANNEL" /\ state = "ATTEMPTING_CCATX" =>
                        nb + 1 > maxBackoffs
          <5>. HIDE DEF IInv, TypeOK, TypeData, U8
          <5>. QED
            BY <2>1, <4>1, <4>2, FailedStep
        <4>4. e = "BUSY_CHANNEL" => state = "ATTEMPTING_CCATX"
          BY <1>1, <2>1, <4>1, <4>2 DEF CoreErrors
        <4>. QED
          BY <2>1, <4>2, <4>3, <4>4
      <3>3. CASE CsmaCaStart
        BY <2>1, <3>3 DEF CsmaCaStart
      <3>4. CASE Reinit
        BY <2>1, <3>4 DEF Reinit
      <3>5. CASE TxDone
        BY <2>1, <3>5 DEF TxDone, Notify
      <3>6. CASE UNCHANGED owed
        BY <2>1, <3>6
      <3>. QED
        BY <2>1, <3>1, <3>2, <3>3, <3>4, <3>5, <3>6 DEF Next, vars, SlotStart,
           TxStarted, MinBeSet, MaxBeSet, MaxBackoffsSet, CoexModeSet
    <2>2. IInv /\ [Next]_vars =>
            [owed' < owed /\ outcome' = "BUSY_CHANNEL" =>
                 attempts' > maxBackoffs]_vars
      BY <2>1
    <2>3. Spec => []IInv
      BY <1>1, CsmaInvariant
    <2>. QED
      BY <2>2, <2>3, PTL DEF Spec, BusyIsRetried
  <1>. QED
    BY <1>1

\* Once on the air a frame is never sent again: csma_ca_failed compares the state
\* it leaves, whatever the PIB and the build.
THEOREM CsmaStartedLast == Spec => StartedIsLast
  <1>1. ASSUME [Next]_vars, state = "TRANSMITTING"
        PROVE  state' \in {"TRANSMITTING", "IDLE"}
    <2>1. CASE CsmaCaStart
      BY <1>1, <2>1 DEF CsmaCaStart
    <2>2. CASE FrameTransmit
      BY <1>1, <2>2 DEF FrameTransmit
    <2>3. CASE TxFailed
      <3>1. PICK e \in CoreErrors : Failed(state, e, slot, TRUE)
        BY <2>3 DEF TxFailed
      <3>. QED
        BY <1>1, <3>1 DEF Failed, Notify
    <2>4. CASE TxDone
      BY <2>4 DEF TxDone, Notify
    <2>5. CASE Reinit
      BY <2>5 DEF Reinit
    <2>6. CASE UNCHANGED state \/ TxStarted
      BY <1>1, <2>6 DEF TxStarted
    <2>. QED
      BY <1>1, <2>1, <2>2, <2>3, <2>4, <2>5, <2>6 DEF Next, vars, procVars,
         SlotStart, MinBeSet, MaxBeSet, MaxBackoffsSet, CoexModeSet
  <1>2. [Next]_vars =>
          [state = "TRANSMITTING" => state' \in {"TRANSMITTING", "IDLE"}]_vars
    BY <1>1
  <1>. QED
    BY <1>2, PTL DEF Spec, StartedIsLast

\* When the procedure retries and when it does not, in a hardware build.
THEOREM CsmaRetries == NoWrap /\ ~Bsim => (Spec => RetryDiscipline)
  BY CsmaBusyRetried, CsmaStartedLast DEF RetryDiscipline
=============================================================================
