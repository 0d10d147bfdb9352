---------------------------- MODULE Serialization ----------------------------
(***************************************************************************)
(* The serialization of the radio driver between two cores: the API calls  *)
(* of the application core (nrf_802154_spinel_app.c), their decoding on    *)
(* the network core (nrf_802154_spinel_dec_net.c), the callouts of the     *)
(* driver (nrf_802154_spinel_net.c), their decoding on the application     *)
(* core (nrf_802154_spinel_dec_app.c), and the maps that pair the frame    *)
(* buffers of the two cores (nrf_802154_buffer_mgr_src.c, _dst.c).         *)
(*                                                                         *)
(* A frame is copied to the other core with a handle, the address of its   *)
(* buffer.  The core that sends it records the handle in a source map; the *)
(* core that receives it pairs a buffer of its own pool with the handle in *)
(* a destination map.  The link is reliable and in order.  A call holds    *)
(* the response notifier from its request to its response; threads, the    *)
(* two decoders and the callouts interleave.  The driver calls out from an *)
(* interrupt that preempts the decoder of the network core anywhere.       *)
(***************************************************************************)
EXTENDS Integers, Sequences, FiniteSets

CONSTANTS
    Threads,        \* threads of the application core
    Frames,         \* frame buffers the application transmits from
    TX_BUFFERS,     \* NRF_802154_TX_BUFFERS
    RX_BUFFERS,     \* NRF_802154_RX_BUFFERS
    HostPreempted,  \* the decoder of the application core may preempt a call
                    \* that frees a buffer
    Refusals,       \* the driver may refuse to transmit
    LateResponses,  \* a response may miss its timeout
    none            \* no frame, buffer, thread or message

ASSUME SerializationAssumption ==
    /\ IsFiniteSet(Threads) /\ IsFiniteSet(Frames)
    /\ TX_BUFFERS \in Nat \ {0} /\ RX_BUFFERS \in Nat \ {0}
    /\ HostPreempted \in BOOLEAN /\ Refusals \in BOOLEAN
    /\ LateResponses \in BOOLEAN

TxSlots == 1..TX_BUFFERS      \* the pool of the network core
RxSlots == 1..RX_BUFFERS      \* the pool of the application core
RxBuffers == (RX_BUFFERS + 1)..(2 * RX_BUFFERS)   \* the buffers of the driver
Ops == {"transmit", "free", "set"}

VARIABLES
    call,           \* each thread: its call, its argument and how far it is
    app,            \* the application's view of each of its frames
    hostSrc,        \* source map of the application core: frames
    hostDst,        \* destination map: a receive buffer for each slot
    notifier,       \* the response notifier: its owner and the response
    toNet, toApp,   \* the link
    netDec,         \* the request the network core is decoding
    netSrc,         \* source map of the network core: receive buffers
    netDst,         \* destination map: a frame for each slot
    sending,        \* slots the driver transmits from
    taken,          \* receive buffers that hold a frame
    raced,          \* ghost: the ones received into after the decoder had freed
                    \* them and before it removed their handle
    errors          \* errors raised

hostVars == <<call, app, hostSrc, hostDst, notifier>>
netVars == <<netDec, netSrc, netDst, sending, taken, raced>>
vars == <<hostVars, netVars, toNet, toApp, errors>>

Idle == [op |-> "none", arg |-> none, at |-> "idle"]
Calls == {c \in [op : Ops, arg : Frames \cup RxSlots \cup {none},
                 at : {"lock", "remove", "await"}] :
            CASE c.op = "transmit" -> c.arg \in Frames
              [] c.op = "free" -> c.arg \in RxSlots
              [] OTHER -> c.arg = none}
Response == [kind : {"response"}, op : Ops, by : Threads, ok : BOOLEAN]
Outcome == [kind : {"outcome"}, frame : Frames, ack : RxBuffers \cup {none}]
Received == [kind : {"received"}, buffer : RxBuffers]
Request == [op : Ops, arg : Frames \cup RxBuffers \cup {none}, by : Threads]

ASSUME NoneAssumption ==
    none \notin Threads \cup Frames \cup Nat \cup Request \cup Response

\* Calls, messages and maps; no map outgrows the pool it was made for.
TypeOK ==
    /\ call \in [Threads -> Calls \cup {Idle}]
    /\ app \in [Frames -> {"idle", "calling", "calledOut", "sent"}]
    /\ hostSrc \subseteq Frames /\ Cardinality(hostSrc) <= TX_BUFFERS
    /\ hostDst \in [RxSlots -> RxBuffers \cup {none}]
    /\ notifier \in [owner : Threads \cup {none}, got : Response \cup {none}]
    /\ toNet \in Seq(Request) /\ toApp \in Seq(Response \cup Outcome \cup Received)
    /\ netDec \in Request \cup {none}
    /\ netSrc \subseteq RxBuffers /\ Cardinality(netSrc) <= RX_BUFFERS
    /\ netDst \in [TxSlots -> Frames \cup {none}]
    /\ sending \subseteq TxSlots /\ taken \subseteq RxBuffers /\ raced \subseteq taken
    /\ errors \subseteq {"NO_MEMORY", "INVALID_BUFFER", "RESPONSE_TIMEOUT"}

\* nrf_802154_serialization_init on both cores.
Init ==
    /\ call = [t \in Threads |-> Idle] /\ app = [f \in Frames |-> "idle"]
    /\ hostSrc = {} /\ hostDst = [s \in RxSlots |-> none]
    /\ notifier = [owner |-> none, got |-> none]
    /\ toNet = <<>> /\ toApp = <<>>
    /\ netDec = none /\ netSrc = {} /\ netDst = [s \in TxSlots |-> none]
    /\ sending = {} /\ taken = {} /\ raced = {} /\ errors = {}

\* The property a call awaits (lock_before_request).
Awaited(op) == IF op = "transmit" THEN "TRANSMIT_RAW" ELSE "LAST_STATUS"

\* nrf_802154_kvmap_add to a map of keys only.
CanAdd(map, capacity, key) == key \in map \/ Cardinality(map) < capacity

\* buffer_alloc.
FreeSlots(dst) == {s \in DOMAIN dst : dst[s] = none}
Slot(dst) == CHOOSE s \in FreeSlots(dst) : \A r \in FreeSlots(dst) : s <= r

\* SERIALIZATION_ERROR_RAISE_IF_FAILED.
Raise(e) == errors' = errors \cup e
-----------------------------------------------------------------------------
(* The application core: calls.                                            *)

\* nrf_802154_transmit_raw, _transmit_csma_ca_raw and _transmit_raw_at up to the
\* lock.  Without room for the handle an error is raised and the initial value of
\* the result, NRF_802154_TX_ERROR_NONE, is returned.
TransmitCall(t, f) ==
    /\ call[t] = Idle /\ app[f] = "idle"
    /\ IF CanAdd(hostSrc, TX_BUFFERS, f)
       THEN /\ hostSrc' = hostSrc \cup {f}
            /\ call' = [call EXCEPT ![t] = [op |-> "transmit", arg |-> f, at |-> "lock"]]
            /\ app' = [app EXCEPT ![f] = "calling"]
            /\ UNCHANGED errors
       ELSE /\ app' = [app EXCEPT ![f] = "sent"]
            /\ Raise({"NO_MEMORY"})
            /\ UNCHANGED <<call, hostSrc>>
    /\ UNCHANGED <<hostDst, notifier, netVars, toNet, toApp>>

\* nrf_802154_buffer_free_raw up to the lock; only one call frees a buffer.
FreeCall(t, s) ==
    /\ call[t] = Idle /\ hostDst[s] # none
    /\ \A u \in Threads : call[u].op = "free" => call[u].arg # s
    /\ call' = [call EXCEPT ![t] = [op |-> "free", arg |-> s, at |-> "lock"]]
    /\ UNCHANGED <<app, hostSrc, hostDst, notifier, netVars, toNet, toApp, errors>>

\* Any other call; no buffer changes hands.  (nrf_802154_transmit_at_cancel, which
\* takes a frame back from the driver, is not modelled.)
SetCall(t) ==
    /\ call[t] = Idle
    /\ call' = [call EXCEPT ![t] = [op |-> "set", arg |-> none, at |-> "lock"]]
    /\ UNCHANGED <<app, hostSrc, hostDst, notifier, netVars, toNet, toApp, errors>>

\* Mutant: the request is sent while another awaits its response.
LockIgnored == TRUE

\* External: the notifier is owned by one call at a time.
LockFree == notifier.owner = none

\* The handle a request carries.
Handle(c) == IF c.op = "free" THEN hostDst[c.arg] ELSE c.arg

\* nrf_802154_spinel_response_notifier_lock_before_request and the sending of
\* the request.
LockAndSend(t) ==
    LET c == call[t] IN
    /\ c.at = "lock" /\ LockFree
    /\ notifier' = [owner |-> t, got |-> none]
    /\ toNet' = Append(toNet, [op |-> c.op, by |-> t, arg |-> Handle(c)])
    /\ call' = [call EXCEPT ![t].at = IF c.op = "free" THEN "remove" ELSE "await"]
    /\ UNCHANGED <<app, hostSrc, hostDst, netVars, toApp, errors>>

\* nrf_802154_buffer_free_raw removes its buffer once the request is sent.
FreeRemove(t) ==
    /\ call[t].at = "remove"
    /\ hostDst' = [hostDst EXCEPT ![call[t].arg] = none]
    /\ call' = [call EXCEPT ![t].at = "await"]
    /\ UNCHANGED <<app, hostSrc, notifier, netVars, toNet, toApp, errors>>

\* Mutant: an outcome that came before the response is forgotten.
ReturnedSent(f, ok) == app' = [app EXCEPT ![f] = IF ok THEN "sent" ELSE "idle"]

\* External: the application learns the result of its call.
Returned(f, ok) ==
    app' = [app EXCEPT ![f] = IF ok /\ @ = "calling" THEN "sent" ELSE "idle"]

\* Mutant: the handle of a frame is dropped when its response arrives.
KeepNoHandle(f) == hostSrc' = hostSrc \ {f}

\* The handle is kept whatever the result, until the outcome arrives.
KeepHandle(f) == UNCHANGED hostSrc

\* The bail path: the handle is rolled back and the initial value of the result,
\* NRF_802154_TX_ERROR_NONE, returned.
RollBack(f) == Returned(f, TRUE) /\ hostSrc' = hostSrc \ {f}

\* The call returns to the application whatever the result.
EndCall(t, got) == call' = [call EXCEPT ![t] = Idle]

\* The end of a call: net_generic_uint8_response_await, status_ok_await and the
\* others.  Without a response NRF_802154_SERIALIZATION_ERROR_RESPONSE_TIMEOUT is
\* raised.
Return(t) ==
    LET c == call[t]
        got == notifier.got IN
    /\ c.at = "await" /\ notifier.owner = t /\ (got = none => LateResponses)
    /\ IF c.op # "transmit" THEN UNCHANGED <<app, hostSrc>>
       ELSE IF got = none THEN RollBack(c.arg)
       ELSE Returned(c.arg, got.ok) /\ KeepHandle(c.arg)
    /\ Raise(IF got = none THEN {"RESPONSE_TIMEOUT"} ELSE {})
    /\ notifier' = [owner |-> none, got |-> none] /\ EndCall(t, got)
    /\ UNCHANGED <<hostDst, netVars, toNet, toApp>>

-----------------------------------------------------------------------------
(* The network core: the decoder.                                          *)

\* Mutant: the buffer of a refused frame stays in the map.
RefusedStays(s, f) == netDst' = [netDst EXCEPT ![s] = f]

\* A frame the driver refuses is removed from the map again.
RefusedRemoved(s, f) == UNCHANGED netDst

\* nrf_802154_spinel_send_cmd_prop_value_is and _send_prop_last_status_is.
Respond(m, result) ==
    toApp' = Append(toApp, [kind |-> "response", op |-> m.op, by |-> m.by,
                            ok |-> result])

\* spinel_decode_prop_nrf_802154_transmit_raw, _csma_ca_raw, _raw_at up to the
\* response.  Without a buffer an error is raised and no response sent.  The
\* pointer _raw_at keeps for a cancellation is left out with the cancellation.
DecodeTransmit(m) ==
    IF FreeSlots(netDst) = {}
    THEN Raise({"NO_MEMORY"}) /\ UNCHANGED <<netDec, netDst, sending, toApp>>
    ELSE LET s == Slot(netDst) IN
         /\ \/ /\ netDst' = [netDst EXCEPT ![s] = m.arg]
               /\ sending' = sending \cup {s} /\ netDec' = m /\ UNCHANGED toApp
            \/ /\ Refusals /\ RefusedRemoved(s, m.arg) /\ Respond(m, FALSE)
               /\ UNCHANGED <<netDec, sending>>
         /\ UNCHANGED errors

\* nrf_802154_spinel_dispatch_cmd on the network core.
NetDecode ==
    LET m == Head(toNet) IN
    /\ toNet # <<>> /\ netDec = none
    /\ toNet' = Tail(toNet)
    /\ IF m.op = "transmit"
       THEN DecodeTransmit(m) /\ UNCHANGED taken
       ELSE /\ netDec' = m
            /\ taken' = IF m.op = "free" /\ m.arg \in netSrc THEN taken \ {m.arg}
                        ELSE taken
            /\ UNCHANGED <<netDst, sending, toApp, errors>>
    /\ UNCHANGED <<hostVars, netSrc, raced>>

\* Mutant: a freed buffer keeps its handle.
HandleStays(m) == UNCHANGED netSrc

\* spinel_decode_prop_nrf_802154_buffer_free_raw removes the handle once the
\* buffer is free.
HandleRemoved(m) == netSrc' = IF m.op = "free" THEN netSrc \ {m.arg} ELSE netSrc

\* The response is sent.
NetRespond ==
    /\ netDec # none
    /\ HandleRemoved(netDec)
    /\ Respond(netDec, TRUE)
    /\ netDec' = none
    /\ UNCHANGED <<hostVars, netDst, sending, taken, raced, toNet, errors>>

-----------------------------------------------------------------------------
(* The network core: callouts of the driver.                               *)

\* The buffer the decoder has freed and still knows by its handle.
Freeing == IF netDec # none /\ netDec.op = "free" THEN {netDec.arg} ELSE {}

\* nrf_802154_received_timestamp_raw with the frame in buffer b.
FrameReceived(b) ==
    /\ b \notin taken
    /\ IF CanAdd(netSrc, RX_BUFFERS, b)
       THEN /\ taken' = taken \cup {b} /\ netSrc' = netSrc \cup {b}
            /\ raced' = raced \cup ({b} \cap Freeing)
            /\ toApp' = Append(toApp, [kind |-> "received", buffer |-> b])
            /\ UNCHANGED errors
       ELSE Raise({"NO_MEMORY"}) /\ UNCHANGED <<taken, raced, netSrc, toApp>>
    /\ UNCHANGED <<hostVars, netDec, netDst, sending, toNet>>

\* nrf_802154_transmit_failed, or nrf_802154_transmitted_raw without an ACK.
TransmissionEnds(s) ==
    /\ s \in sending
    /\ toApp' = Append(toApp, [kind |-> "outcome", frame |-> netDst[s], ack |-> none])
    /\ netDst' = [netDst EXCEPT ![s] = none] /\ sending' = sending \ {s}
    /\ UNCHANGED <<hostVars, netDec, netSrc, taken, raced, toNet, errors>>

\* nrf_802154_transmitted_raw with the ACK in buffer b.
Acknowledged(s, b) ==
    /\ s \in sending /\ b \notin taken
    /\ taken' = taken \cup {b} /\ raced' = raced \cup ({b} \cap Freeing)
    /\ IF CanAdd(netSrc, RX_BUFFERS, b)
       THEN /\ netSrc' = netSrc \cup {b}
            /\ toApp' = Append(toApp, [kind |-> "outcome", frame |-> netDst[s], ack |-> b])
            /\ UNCHANGED errors
       ELSE Raise({"NO_MEMORY"}) /\ UNCHANGED <<netSrc, toApp>>
    /\ netDst' = [netDst EXCEPT ![s] = none] /\ sending' = sending \ {s}
    /\ UNCHANGED <<hostVars, netDec, toNet>>

CallOut(s) == TransmissionEnds(s) \/ \E b \in RxBuffers : Acknowledged(s, b)

-----------------------------------------------------------------------------
(* The application core: the decoder.                                      *)

\* External: the notifier takes a response to the property awaited.
Accepts(m) ==
    /\ notifier.owner # none /\ notifier.got = none
    /\ Awaited(call[notifier.owner].op) = Awaited(m.op)

\* nrf_802154_spinel_response_notifier_property_notify.
DecodeResponse(m) ==
    /\ notifier' = IF Accepts(m) THEN [notifier EXCEPT !.got = m] ELSE notifier
    /\ UNCHANGED <<app, hostSrc, hostDst, errors>>

\* spinel_decode_prop_nrf_802154_transmitted_raw and _transmit_failed.
DecodeOutcome(m) ==
    LET failure == IF m.frame \notin hostSrc THEN {"INVALID_BUFFER"}
                   ELSE IF m.ack # none /\ FreeSlots(hostDst) = {} THEN {"NO_MEMORY"}
                   ELSE {} IN
    /\ IF failure = {}
       THEN /\ hostSrc' = hostSrc \ {m.frame}
            /\ hostDst' = IF m.ack = none THEN hostDst
                          ELSE [hostDst EXCEPT ![Slot(hostDst)] = m.ack]
            /\ app' = [app EXCEPT ![m.frame] = IF @ = "calling" THEN "calledOut"
                                               ELSE "idle"]
       ELSE UNCHANGED <<hostSrc, hostDst, app>>
    /\ Raise(failure)
    /\ UNCHANGED notifier

\* spinel_decode_prop_nrf_802154_received_timestamp_raw.
DecodeReceived(m) ==
    /\ IF FreeSlots(hostDst) = {}
       THEN Raise({"NO_MEMORY"}) /\ UNCHANGED hostDst
       ELSE hostDst' = [hostDst EXCEPT ![Slot(hostDst)] = m.buffer] /\ UNCHANGED errors
    /\ UNCHANGED <<app, hostSrc, notifier>>

\* nrf_802154_spinel_decode_cmd_prop_value_is on the application core.
HostDecode ==
    LET m == Head(toApp) IN
    /\ toApp # <<>>
    /\ (\E t \in Threads : call[t].at = "remove") => HostPreempted
    /\ toApp' = Tail(toApp)
    /\ CASE m.kind = "response" -> DecodeResponse(m)
         [] m.kind = "outcome"  -> DecodeOutcome(m)
         [] m.kind = "received" -> DecodeReceived(m)
    /\ UNCHANGED <<call, netVars, toNet>>

Next ==
    \/ \E t \in Threads :
          \/ \E f \in Frames : TransmitCall(t, f)
          \/ \E s \in RxSlots : FreeCall(t, s)
          \/ SetCall(t) \/ LockAndSend(t) \/ FreeRemove(t) \/ Return(t)
    \/ NetDecode \/ NetRespond \/ HostDecode
    \/ \E b \in RxBuffers : FrameReceived(b)
    \/ \E s \in TxSlots : CallOut(s)

Spec == Init /\ [][Next]_vars

\* Both cores decode what they receive; the driver ends what it transmits; the
\* notifier is granted in turn.
Fairness ==
    /\ WF_vars(NetDecode) /\ WF_vars(NetRespond) /\ WF_vars(HostDecode)
    /\ \A t \in Threads :
          /\ SF_vars(LockAndSend(t)) /\ WF_vars(FreeRemove(t)) /\ WF_vars(Return(t))
    /\ \A s \in TxSlots : WF_vars(CallOut(s))

FairSpec == Spec /\ Fairness
-----------------------------------------------------------------------------
\* No error is raised: a frame always finds a buffer and a handle on either core,
\* the outcome of a transmission finds its frame ("The frame is expected to be
\* found"), and every response its call.
NoErrors == errors = {}

\* Where frame f is on its way: request, driver, outcome.
Carriers(f) ==
    {<<"request", i>> : i \in {i \in DOMAIN toNet :
                                  toNet[i].op = "transmit" /\ toNet[i].arg = f}}
    \cup {<<"driver", s>> : s \in {s \in sending : netDst[s] = f}}
    \cup {<<"outcome", i>> : i \in {i \in DOMAIN toApp :
                                  toApp[i].kind = "outcome" /\ toApp[i].frame = f}}

\* A frame the application believes is being transmitted is, once, and its handle
\* is known; an outcome never comes for a frame the application has back, so none
\* is taken for that of a later transmission of the same buffer.
TransmissionTracked ==
    /\ TypeOK
    /\ \A f \in Frames :
          /\ app[f] = "sent" => f \in hostSrc /\ Cardinality(Carriers(f)) = 1
          /\ app[f] = "idle" => Carriers(f) = {}

\* Where receive buffer b is: message, application, request to free it.
Holders(b) ==
    {<<"message", i>> : i \in {i \in DOMAIN toApp :
                                  \/ toApp[i].kind = "received" /\ toApp[i].buffer = b
                                  \/ toApp[i].kind = "outcome" /\ toApp[i].ack = b}}
    \cup {<<"slot", s>> : s \in {s \in RxSlots : hostDst[s] = b /\
              \A t \in Threads : ~(call[t].at = "remove" /\ call[t].arg = s)}}
    \cup {<<"request", i>> : i \in {i \in DOMAIN toNet :
                                  toNet[i].op = "free" /\ toNet[i].arg = b}}

\* A receive buffer that is free is held by nobody and one with a frame by at most
\* one, so none is freed or received into while in use, whatever the interrupt
\* preempts.  One with a frame is held, and can be freed by its handle, unless the
\* frame was received between the release of the buffer and the removal of the
\* handle; no handle but that of the buffer being freed outlives its frame.
RxBuffersAccounted ==
    /\ \A b \in RxBuffers :
          /\ Cardinality(Holders(b)) <= IF b \in taken THEN 1 ELSE 0
          /\ b \in taken \ raced => Cardinality(Holders(b)) = 1 /\ b \in netSrc
    /\ netSrc \subseteq taken \cup Freeing

\* No receive buffer is lost.  False: see raced.
NoBufferLost == \A b \in taken : Cardinality(Holders(b)) = 1

\* A frame the application has back leaves no handle behind in the source map.
HandleReleased == \A f \in Frames : app[f] = "idle" => f \notin hostSrc

\* The response a call takes is the response to its own request, although
\* responses are not matched to requests.
ResponseMatches == notifier.got # none => notifier.got.by = notifier.owner

\* The application is told the outcome of every transmission it started.
OutcomeArrives == \A f \in Frames : app[f] = "sent" ~> app[f] = "idle"

\* Every call returns.
CallsReturn == \A t \in Threads : call[t] # Idle ~> call[t] = Idle

\* Neither a call nor a transmission is left waiting for the other core.
Completes == OutcomeArrives /\ CallsReturn
=============================================================================
