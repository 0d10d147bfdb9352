# TLA+ models of sdk-nrfxlib

nrfxlib is a collection of libraries for Nordic's radio chips. Most of them are
binaries with headers. The source code with logic of its own is the nRF 802.15.4
radio driver with its service layer and serialization, and nRF RPC. This
directory models those parts in TLA+, checks the models with TLC on small
instances and proves the central results with TLAPS for every value of the
constants.

Paths below are relative to `src/`; `driver/` stands for
`nrf_802154/driver/src/`.

## 1. Inventory

### The 802.15.4 driver

The driver multiplexes one radio between receiving, transmitting, energy
detection and CCA, in timeslots that a scheduler grants and takes away. Nothing
in it is a thread: requests come from threads and interrupts of any priority,
and everything else is an interrupt handler.

| Part | State | Operations | Interacts with | What makes it correct |
|---|---|---|---|---|
| Critical section (`driver/nrf_802154_critical_section.c`) | nesting counter, priority that may nest | enter, forced entry, exit, nesting allow/deny | NVIC mask of RADIO, low-power timer, pending scheduler events | one owner at a time; no scheduler event lost |
| Radio core (`driver/nrf_802154_core.c`) | `m_state`, granted and requested priority, receive buffer, frame and client being transmitted, energy-detection time left | requests; RADIO handlers; scheduler priority changes; ACK timeout | trx below, notifications above, hooks, scheduler | `m_state` matches the transceiver; one outcome per operation; buffers neither lost nor overwritten |
| Transceiver (`driver/nrf_802154_trx.c`) | `m_trx_state` | start, abort and go-idle functions, RADIO interrupt | registers, core callbacks | only the interrupt of the running operation fires |
| CSMA-CA (`driver/mac_features/nrf_802154_csma_ca.c`) | state, NB, BE, reserved timeslot | start, backoff callback, client callbacks, cancel | delayed timeslots, core, PIB | bounded attempts, one outcome, never stranded |
| Delayed transmit and receive (`driver/mac_features/nrf_802154_delayed_trx.c`) | slots with state, identifier, timer and extension; queue of pointers to slots | request, cancel, timeslot callbacks, receive timeout, abort hook | scheduler, timer service, core | each accepted operation ends once; no slot stranded or freed with a timer behind it |
| ACK timeout (`driver/mac_features/nrf_802154_precise_ack_timeout.c`) | timer, frame, active flag, accumulated retry delay | hooks, fire, retry | core, timer service | an awaited ACK is timed, another frame's is not |
| Requests and notifications (`driver/nrf_802154_request_*.c`, `nrf_802154_notification_*.c`, `nrf_802154_queue.c`) | rings, slot pools, EGU events, blocked flag | push from any priority, drain in the software interrupt, flush on reinitialisation | API, core | nothing lost, order kept, never full, no lost wake-up |
| PIB, front-end API, hooks | configuration values, hook tables | setters, getters | all of the above | values stay in range |
| Frames, filter, ACK generator, security | sorted table of peers (`driver/nrf_802154_bsmap.c`, `ack_generator/nrf_802154_ack_data.c`), key table | parse, filter, generate; set, clear and reset peer data | core; RADIO looks peers up during a change | lookups see a change entirely or not at all; ACKs carry what was set |
| Service layer, open source (`nrf_802154/sl/sl_opensource/`) | priority, clock flags, one timer | priority request, clock ready, timeslots | core | reports what it granted |
| Serialization (`nrf_802154/serialization/`) | response notifier, source and destination maps of handles, buffer pools, on two cores | calls with responses, transmit outcomes, receptions, buffer release | driver API on the other core | each response reaches its call; each buffer has one holder; each frame one outcome |

### nRF RPC

`nrf_rpc/nrf_rpc.c` runs commands, responses and events between two processors.
Its state is a pool of command contexts, the context bound to each thread, the
cleanup mutex and the stopped flag; its operations are sending a command and
waiting for the response, executing a received command, nesting commands inside
handlers, events with acknowledgements, the receive callback, group
initialisation, stop and resume. It is correct when each packet reaches the
thread whose conversation it belongs to, contexts are counted exactly and
nobody waits for ever.

### The rest

Soft peripherals (`softperipheral/`), the CryptoCell platform mutexes
(`crypto/`), the LC3 wrapper, and glue code (NFC, modem errors, shared memory)
are small sequential layers over binaries. SoftDevice Controller, MPSL, modem,
Gazelle, Wi-Fi, Distance Measurement, fuel gauge and OpenThread are binaries.

### What is hard

- preemption of every handler by every more urgent context, with one
  critical section that some contexts enter by force;
- a timeslot or a priority that is withdrawn between any two radio events;
- callbacks that make requests from inside the handler that called them;
- timeouts racing the answer they wait for, on both layers;
- pools at their limit: receive buffers, RPC contexts, pool threads;
- counters at the width of their type and settings changed during a procedure.

`PROJECT.json` lists each of these at the line where it bites, with the
properties aimed at it.

## 2. Plan

Done, in the order of importance: `CriticalSection`, `NrfRpc`, `RadioCore`,
`CsmaCa`, then `DelayedTrx`, `Swi` against the abstract `NotificationService`,
`Serialization`, `AckTimeout`, and `AckData` over `Bsmap` against the abstract
`PeerTable`. All of them have proofs (section 5).

What is left:

1. `NrfRpcInit`: the group handshake and the single internal task.
2. `RadioCore` further: the coex receive modes with the prestarted timer,
   antenna diversity.
3. The open-source service layer: its scheduler and its single timer.
4. Operators checked against reference definitions over bounded inputs: frame
   parser, frame filter, security key table.
5. `Cc3xxMutex`, `SoftPeripheral`.

## 3. Modules

| Module | Models | Kind |
|---|---|---|
| `CriticalSection` | critical section, preemption, scheduler events | specification |
| `MCCriticalSection` | five contexts with their priorities | instance |
| `CriticalSectionProofs` | theorems about `CriticalSection` | proofs |
| `NrfRpc` | command layer of nRF RPC, two peers | specification |
| `MCNrfRpc` | thread sets | instance |
| `NrfRpcProofs` | theorems about `NrfRpc` | proofs |
| `RadioCore` | state machine of the driver and its view of the transceiver | specification |
| `MCRadioCore` | sets of priorities | instance |
| `RadioCoreProofs` | theorems about `RadioCore` | proofs |
| `CsmaCa` | CSMA-CA procedure | specification |
| `MCCsmaCa` | values written into the PIB | instance |
| `CsmaCaProofs` | theorems about `CsmaCa` | proofs |
| `DelayedTrx`, `MCDelayedTrx` | delayed transmission and reception windows | specification, instance |
| `DelayedTrxProofs` | theorems about `DelayedTrx` | proofs |
| `NotificationService` | what the higher layer relies on: delivery once, in order | abstract specification |
| `Swi`, `MCSwi` | notification and request queues and the software interrupt | specification, instance |
| `SwiProofs` | theorems about `Swi`, and that it implements `NotificationService` | proofs |
| `Serialization`, `MCSerialization` | both ends of the serialization | specification, instance |
| `SerializationProofs` | theorems about `Serialization` | proofs |
| `AckTimeout`, `MCAckTimeout` | ACK timeout procedure with the core it depends on | specification, instance |
| `PeerTable` | what a lookup may see while the table changes | abstract specification |
| `Bsmap` | the sorted array of peers and how it is written | specification, extended by `AckData` |
| `AckData`, `MCAckData` | pending bits and information elements per peer | specification, instance |
| `AckProofs` | theorems about `AckTimeout` and `AckData`; that `AckData` implements `PeerTable` | proofs |

The models meet at these points. `CriticalSection` shows that handlers exclude
each other, which is why each handler of `RadioCore` is one step.
`RadioCore` shows that an accepted transmission gets one outcome in the end
(`TransmitOutcomeOnce`, and `TransmitCompletes` in `OperationsEnd`), which is what `CsmaCa` assumes of
the attempt it gives to the core; so do `DelayedTrx` (`TxEnds`) and
`Serialization` (`CallOut`). `CsmaCa` is one of the clients of
`RadioCore!Transmit`. `AckTimeout` opens up what `RadioCore` has as one event,
`AckTimeout`, that may come at any time. `Swi` is where the notifications of
`RadioCore` go.

In every module a definition named after a mistake (its comment says "Mutant",
or it stands right before the definition it varies) is a deliberately wrong
variant of its neighbour. It is used by no specification; it is there to show
that a property notices the mistake.

### CriticalSection

`owners` is the stack of open sections, `cnt` and `allowed` are
`m_nested_critical_section_counter` and
`m_nested_critical_section_allowed_priority`, `radioIrq` is the NVIC enable bit,
`lptimerCs` the timer's own critical section, `pending` the scheduler's pending
flag. `active` holds the contexts that have begun; the most urgent one runs.
Everything between `mcu_critical_enter` and `mcu_critical_exit` is one step, and
`critical_section_exit` is split where the code leaves the MCU critical section
to process a pending event (`ExitFindsPending`, `ProcessPending`, then again
`Exit`). `approved` is what the scheduler decided and `notified` what the core
was last told. `notifying` has the open sections that are in the middle of a
notification. A request made in its callback may notify in turn:
`nrf_802154_receive` reaches `receive_failed_notify` when no buffer is free. Then
the assertion of `nesting_allow` meets a permission already given. The model
records it in `failed` and goes on, as a build without assertions does;
`renotified` says that such a request was made in the current section.

The scheduler is external. It runs at the most urgent priority
(`RschAssumption`), as MPSL does.

### NrfRpc

A thread is a stack of frames: a call of `nrf_rpc_cmd_common`, a command handler
or an event handler. Contexts are records with the fields of
`struct nrf_rpc_cmd_ctx`; `owner` is the holder of the context mutex. The
receive thread of a peer is `rx`: before the packet is admitted, handing it
over, or waiting for the decoding. A conversation number travels with each
packet as a history variable; the code never reads it. Thread pool, message
passing, mutexes and transport are external, modelled from the contract in
`nrf_rpc/template/nrf_rpc_os_tmpl.h`. The transport is reliable and ordered;
it may refuse to send a command where `SendErrors` says so. A response or an
acknowledgement is not refused, a command or event is known to its receiver, and
a stopped peer is not stopped again; the cleanup handlers of `nrf_rpc_stop` belong
to the groups.

`autoFree` is fixed at the start: a transport without `rx_buf_free` makes the
receive thread wait for `nrf_rpc_decoding_done`.

### RadioCore

The variables keep the names of the code (`state` is `m_state`, `trx` is
`m_trx_state`, `client` is `m_tx.p_client`, `edLeft` is `m_ed_time_left`, ...).
There is one action per request, per RADIO callback and per kind of scheduler
event; `Outcomes` records in `open` and `dup` what the higher layer has been
told. Notifications go through the software interrupt (`Swi`), so no callback of
the higher layer runs inside a handler, and a handler is one step.

Abstracted: frame contents (whether a frame is destined to us, wants an ACK, and
whether the ACK fits, is a choice), time (a timer may fire whenever it runs),
registers, front-end module, statistics and timestamps. The configuration is
the coex receive request mode DESTINED without antenna diversity. `closing` says
that the scheduler will not extend the timeslot: the checks of the remaining
timeslot length then fail.

### CsmaCa

`state`, `nb`, `be` are `m_state`, `m_nb`, `m_be`; `slot` is the priority of the
one reserved delayed timeslot, `op` the attempt as the core knows it. The PIB
entries are variables that the higher layer may change at any time through the
setters, with their validation. The length of a backoff is abstracted; its
exponent is kept.

`frame_transmit` is one step although `nrf_802154_core_transmit` runs inside it:
the driver's documentation (`nrf_802154/doc/rd_limitations.rst:10`) forbids
calls from contexts more urgent than its own interrupts. `nrf_802154_reinit`
drops the frame without a notification, as the code does; the model settles the
debt in that step.

### DelayedTrx

A slot of `m_dly_rx_data` is spread over `st`, `id`, `timer` and `frame`; the ring
of pointers is `qMem`, `qWr`, `qRd`. The thread's call (`hl`) is cut where the code
gives up the processor's attention: after each call into the scheduler, the timer
service and the core. The scheduler and the timer service share an interrupt
(`isr`), so a callback is not preempted by another but by the core, which runs
its abort hook (`CoreTerminate`). A compare-and-swap is a step of its own. The popped
entry is read in a step after the one that pops it, as in the code. Times are
reduced to their order: a timer may fire whenever it runs, and the extension by a
frame being received is the flag `frame`. `notify_rx_timeout` reads the time stamp of that
frame first and its length later; a frame that starts in between leaves it with the
old stamp and the new length, and the window is extended or not. `owed` and `txOwed` are history
variables. Scheduler and timer service are external: a cancelled timeslot does not
start, a timer that has fired cannot be removed.

### Swi and NotificationService

`data` holds the pools, `mem`, `wr`, `rd` the ring of slot identifiers, `stack` the
notifiers that have taken a slot and not yet pushed it, `swi` the position of
`swi_irq_handler` and `reinit` that of `nrf_802154_reinit`. `CanRun` is the
priority rule: a context goes on only when nothing above it runs or is pending.
`told` keeps the higher layer honest: it starts the next operation of a kind, or
gives a buffer back, only after it has been told of the last.

`Service` instantiates `NotificationService` with the contents of the ring between
`rd` and `wr` as the pending notifications and the entry being called out as the
current one; `DeliversInOrder` says that every step of `Swi` is a step of it.

### Serialization

One call of the application core is: lock the notifier and send, wait for the
response, return; `free` also removes its handle first. The network core decodes a
request (`NetDecode`) and responds (`NetRespond`); between them its driver may call
out, whatever the request. `raced` marks the receive buffers that were received into
between their release and the removal of their handle by the decoder. On the
application core `HostPreempted` says whether the decoder may run while a thread is
between its request to free a buffer and the removal of the handle. The
handles are the buffers' addresses: a source map is a set of them, a destination
map gives one for each buffer of the pool. The link is reliable and in order, as
IPC is; the values of configuration properties are abstracted to one (`set`).

### AckTimeout

The variables are those of `nrf_802154_precise_ack_timeout.c` with the part of
`m_state` that the hooks depend on. `timeout_timer_fired` is cut at every point
where RADIO may preempt it: the check of the flag, the request to the core, its
answer, the clearing of the flag and the retry. Two facts of time are kept and
named in the module: the timeout includes the frame, and a transmission takes
longer to start than the timer interrupt to finish (`SlowIsr` drops the latter).
The assertions on `nrf_802154_sl_timer_add` are among those checked: the service may
refuse a timer it holds, but the open-source one, from whose use this is modelled,
starts an armed timer anew, so a start fails only on the timer of a procedure that is
still active (`AddSucceeds`) and a retry on any armed timer.

### AckData, Bsmap and PeerTable

A change of the table is a list of moves; each is staged in the auxiliary memory,
shown there, torn, filled and ended. A lookup is an operator on the state, since
the interrupt that makes it is not preempted by the thread. A lookup that reads a
torn entry returns `torn`, which `PeerTable` does not have. `LookupsAtomic` says
that what lookups return changes peer by peer from the old to the new record. The
matching method is fixed in `AckDataInit`: the API asks for it to be set before the
transceiver is enabled. Stores are seen in program order; the code's own barriers
are taken to be enough.

## 4. Runs

Deadlock is checked in every passing run but `nrf_rpc_liveness`, whose bounded
system stops when its work is done. (In `NrfRpc` the step `Finished` stands for
that in the other runs.)

| Run | Instance | Distinct states | Shows |
|---|---|---|---|
| `critical_section` | a thread (priority 4), an interrupt (1), RADIO (2), low-power timer (3), scheduler (0); two nested sections | 14,728 | `Exclusive`, `NestingAsserts`, `IdleConsistent`; under fairness `PendingDelivered` |
| `nrf_rpc` | both peers call, one pool thread each, two contexts, three calls, nesting depth three, both kinds of transport, refused commands | 449,744 | `RoutedToInitiator`, `ContextsConsistent`, `OneMessageAtATime`, no deadlock |
| `nrf_rpc_liveness` | one peer calls, the other has two pool threads; two calls, one event | 37,296 | `CommandsReturn`, `EventsAcked` |
| `nrf_rpc_stop` | two calls, timeouts, refused commands, one stop per peer | 96,862 | `ContextAccounting` survives them |
| `radio_core` | two buffers, four priorities, coex requests before CCA | 379,056 | `TransmitOutcomeOnce`, `OperationConsistent`, `BuffersConsistent`, `ClientPresent`, `AckedFrameDelivered`, no deadlock |
| `radio_core_coex` | two buffers, three priorities, coex requests after CCA | 100,980 | under fairness `OperationsEnd` |
| `csma_ca` | PIB values on both sides of the defaults, one that is refused, three coex modes, 0 or 2 backoffs | 130,512 | `AssertsHold`, `FrameAccounted`, `AttemptsBounded`, `RetryDiscipline`, `ProcedureEnds` |
| `delayed_trx` | two slots, two identifiers, one delayed frame, with reinitialisation | 45,376 | `AssertsHold`, `OutcomeOnce`, `SlotsConsistent`, `OperationsEnd` |
| `swi` | an operation and a receive buffer, one secondary slot, two nested notifiers, two requesters, reinitialisation from both priorities | 52,368 | `AssertsHold`, `QueueConsistent`, the refinement `DeliversInOrder`, `ServedEventually` |
| `serialization` | two threads, two frames, two buffers on each side, refused transmissions, callouts at any step of the decoder | 252,724 | `NoErrors`, `TransmissionTracked`, `RxBuffersAccounted`, `ResponseMatches`, `Completes` |
| `ack_timeout` | two frames, two timeouts, two refusals | 1,812 | `AssertsHold`, `ProcedureMatchesWait`, `AckWaitEnds` |
| `ack_data` | four peers for three places, three matching methods, two kinds of elements | 1,429,265 | `AcksCarryWhatWasSet`, `NoWastedPlace`, the refinement `LookupsAtomic` |

Several properties are conjunctions of named parts, each with its own comment in
the module:

| Property | Parts |
|---|---|
| `NrfRpc!ContextsConsistent` | `TypeOK`, `ContextAccounting`, `FreeSlotEmpty` |
| `NrfRpc!EventsAcked` | `ReceiverReleased`, one acknowledgement per event |
| `RadioCore!OperationConsistent` | `TypeOK`, `TrxFollowsState`, `RadioWithinPriority`, `RequestFollowsState` |
| `RadioCore!BuffersConsistent` | `BufferOwnership`, `BufferShortage` |
| `RadioCore!OperationsEnd` | `TransmitCompletes`, `TransientStatesEnd` |
| `CsmaCa!FrameAccounted` | `OutcomeOnce`, `NeverStranded` |
| `CsmaCa!RetryDiscipline` | `BusyIsRetried`, `StartedIsLast` |
| `DelayedTrx!SlotsConsistent` | `TypeOK`, `NeverStranded`, `FreeSlotQuiet`, `OneWindow`, `QueueMatchesAttempt` |
| `DelayedTrx!OperationsEnd` | `WindowEnds`, `TransmissionEnds` |
| `Swi!QueueConsistent` | `TypeOK`, `SlotsAccounted`, `NoLostWakeup` |
| `Swi!ServedEventually` | `OutcomeDelivered`, `RequestAnswered` |
| `Serialization!Completes` | `OutcomeArrives`, `CallsReturn` |
| `AckTimeout!ProcedureMatchesWait` | `TypeOK`, `AwaitedAckIsTimed`, `NoLeftoverProcedure` |

Why the bounds suffice. In the critical section, two clients on both sides of
RADIO's priority give every order of preemption, and a second nested section is
the first that could go wrong. Three RPC calls allow a conversation nested
three deep and two conversations that cross; two contexts are one more than a
context mix-up needs. Two receive buffers distinguish "another one is free" from
"none is free", and no handler touches more than two. An energy detection of two
iterations can be cut in the middle. For CSMA-CA, a frame goes through no, one
or several retries with limits 0, 2 and the default 4. Two slots for delayed
windows are the least the driver allows; one open window, one that takes its place
and an identifier that is used again need no more, and the ring of two entries
wraps at every second attempt. With two kinds of outcomes and a secondary pool of
one, the pools, and the ring with its unused entry, are filled to the last place,
and the request queue of two holds a single request while two contexts make them.
Two buffers on each core are exhausted while another frame arrives, and two threads
contend for the notifier. Two frames tell a timeout of the current from one of the
previous frame; two refusals are enough for a second retry. Three places are the
least in which entries are shifted past a third one, and a fourth peer meets the
full table.

### Fairness

- `critical_section`: a handler is straight-line code. A context that is given
  the processor again and again ends its callback, leaves its sections and
  returns. No context is obliged to begin.
- `nrf_rpc_liveness`: the OS schedules threads that are not blocked, and the
  receive thread. Nobody is obliged to start a call.
- `radio_core_coex`: a radio operation ends and its interrupt is served; the
  ACK timer fires; a timeslot that cannot be extended ends; a priority that stays
  requested is granted in the end. Receiving a frame is not assumed.
- `delayed_trx`: the scheduler starts the timeslots it holds, timers fire, calls and
  callbacks run to their end, the core ends every frame. What is due stays pending
  while another callback runs: strong fairness, since a callback that disables
  the step for a moment does not take it away. A window is allowed to be extended
  for ever when frames keep arriving, as a comment in the code concedes.
- `swi`: an interrupt that is pending is taken, and what it preempted goes on (strong
  fairness, for the same reason); interrupts leave gaps.
- `serialization`: both cores decode what they receive, the driver ends what it
  transmits, and the mutex of the notifier is granted in turn (strong fairness).
- `ack_timeout`: timers expire, interrupts run, a transmission that nothing stops ends,
  the thread leaves its section. No ACK need come.
- `csma_ca`: a scheduled timeslot comes, its callback runs, and the core ends
  each attempt (this is `TransmitCompletes` of `RadioCore`).

## 5. Proofs

TLAPS checks every proof; nothing is assumed besides the named assumptions on
the constants.

**CriticalSectionProofs** (any set of clients, any priorities with the scheduler
most urgent, any nesting bound, `LateIrq = FALSE`). `SectionInvariant` is the
inductive invariant. Mutual exclusion alone is not inductive: that RADIO finds
the section free when it enters by force depends on the interrupt being masked
while a section is open, which depends on the timeslot having been approved at
the time of entry, and on what the core was last told about it. The invariant
has a part for each link: the stack of contexts is ordered by priority
(`StackOK`), all open sections belong to one context and the counter counts them
(`OwnersOK`), the permission to nest is that context's (`NestOK`), masks agree
with the section (`MaskOK`), and a scheduler event not yet delivered is pending
or being delivered (`EventOK`). From it: `SectionTypes`, `SectionExclusive`,
`SectionNesting`, `SectionTimer`, `SectionIdle`. `SectionNesting` is what is true of the
assertions on the permission: they fail only in a section whose own callback made a
request that notified in turn. That they never fail is false (section 6).

**CsmaCaProofs** (any PIB values with `max_backoffs` below 255). `CsmaInvariant`
ties the procedure's state to the reserved timeslot and the attempt in the core
(`PhaseOK`), `m_nb` to the number of attempts (`CountOK`), and the timeslot's
priority to the coex mode (`PrioOK`). Without `PhaseOK` the assertion that a
timeslot can always be reserved does not follow; without `CountOK` the number of
attempts is not bounded. From it: `CsmaTypes`, `CsmaAsserts`, `CsmaOutcome`
(`FrameAccounted`), `CsmaAttempts`, `CsmaCoex`, and for hardware builds
`CsmaBusyRetried`. `CsmaStartedLast` needs no invariant, and the two together are
`CsmaRetries` (`RetryDiscipline`).

**NrfRpcProofs** (two peers with any threads, contexts, calls and depth of
nesting). The proof has two layers.

The account of contexts (`RpcInvariant`, `AInv`) holds whatever is refused, timed
out or aborted. A stack alternates between calls and the handlers that they wait
for or were issued by (`StackOK`), and a thread has a context exactly while frames of
its stack use it, with `use_count` equal to their number, alone, and locked unless it
waits (`AccountOK`). From it: `RpcAccounting` (`ContextAccounting`) and `RpcTypes`. That
`use_count` stays within the depth of nesting is not part of the invariant: a context that
`cmd_ctx_free` returned keeps its last `use_count`, so the bound follows from
the bound of the step before.

The routes (`RpcRoutes`, `RInv`) are about calls. The protocol has no identifier of
a call, only identifiers of contexts, and these are reused; so the invariant follows
each call with its history number. A number names one call (`ConvOK`). A call is in
at most one place: in a packet (`NetOK`), in the message of a context (`HoldOK`) or
in a handler, and never in two of them (`PlaceOK`). From wherever it is it leads back to
the context of a caller on the other peer that still waits for it, and a command issued by
a handler leads to the context that waits for this very handler (`RouteOK`). The key
lemmas: a call that nobody is running is on top of its thread's stack (`NotBuried`,
`NotBuriedAsk`), so two packets for one context would be the same call
(`SameCall`), so a packet finds the message slot empty (`Deliverable`); and a thread that takes
up a recursive command keeps the partner it had (`SamePartner`). From it:
`RpcRouted` (`RoutedToInitiator`), `RpcContexts` (`ContextsConsistent`) and the
action property `RpcOneMessage` (`OneMessageAtATime`). These three need the hypothesis
`Prompt`, no timeouts and no `nrf_rpc_stop`; without it they are false
(`NrfRpcLateResponse`, `NrfRpcStaleContext`, `NrfRpcAbort` in section 6).

**RadioCoreProofs** (any number of receive buffers, any set of granted priorities, any
time of energy detection). In `CoreInvariant`, `Control` (state, transceiver,
priority held and priority requested) is inductive by itself; next to it the
outcomes owed (`OutcomeOK`), the receive buffers (`BuffersOK`), the client of the
transmission (`ClientOK`) and the time left of an energy detection (`EdType`) are.
That a handler finds its buffer, its client and an outcome still to report rests on the
transceiver doing what `m_state` says, which is why none of the run's properties is
inductive on its own. From it: `CoreOperation`, `CoreOutcome`, `CoreBuffers`, `CoreClient`, and
the action property `CoreAcked` (`AckedFrameDelivered`), for which each handler that can end
`TX_ACK` is shown to give the buffer away. No hypothesis besides the assumptions on the constants.

**DelayedTrxProofs** (any number of slots, any identifiers; no hypothesis).
`DelayedInvariant` says for each slot who is bound to end it: the timeslot
(`PendingOK`, `TimeslotsOK`), its timer, the callback that is opening the window
(`OngoingOK`, `OpeningOK`, `TimersOK`) or the cancellation that has stopped it
(`CancelOK`), and never two of them; the queue holds what the callback at work pushed
(`QueueOK`). From it: `DelayedAsserts`, `DelayedOutcomes`, `DelayedSlots`.

**SwiProofs** (any sources, any size of the secondary pool and of the request ring,
any nesting of notifiers). `SwiInvariant`: a slot is taken exactly while it is in the
ring or on the stack of notifiers, once (`RingOK`); a nonempty ring has an interrupt
pending (`EventOK`); a reinitialisation meets no notification on its way
(`BlockOK`); the request ring holds the one request that waits (`ReqOK`). The ring has one
entry more than there are slots, so by the pigeonhole principle it is never full
when a slot is pushed; for the primary pool the same principle needs that the outcome
of a source is in one place (`OutcomeOK`), hence the hypothesis `~Reissue` of
`SwiAsserts` (see `SwiReissue` in section 6). `SwiQueue` needs no hypothesis, nor does
`SwiDelivers`: `Spec` implements `NotificationService`, the ring read as a
sequence from the read index on. Each action maps to a step of the abstract
specification or to a stutter.

**SerializationProofs** (any threads, frames, buffers and pool sizes).
`SerInvariant`: what is on the links belongs to the call that owns the notifier
(`OwnerOK`, `LinkOK`); a frame is in the request, in the driver or in its outcome
and the application's view agrees (`PlacesOK`, `FrameOK`); a receive buffer has one holder
on either core or between them, and handles name what is in use (`HoldersOK`, `FreeOK`).
The pools cannot run out, since what is to be stored is in no slot yet. From it:
`SerErrors`, `SerTracked`, `SerAccounted`, `SerResponse`. The hypothesis `Orderly`: responses
are not late, the decoder of the application core does not preempt a call that frees a
buffer, and there is a handle for each frame. `SerializationLate` and
`SerializationHostFree` show that the first two are needed; the third is the
configuration of the code, whose maps are sized by the pools. Nothing is assumed of the
network core: its driver calls out anywhere, and `SerAccounted` says what that may
cost, the handle of a buffer received into while it is being freed.

**AckProofs, the ACK timeout** (any frames, any timeouts, any number of refusals that fit into
the longest retry delay). `AckTimeoutInvariant`: an active procedure times the frame of
the core (`ActiveOK`), from its start until its ACK starts a procedure is active and
its timer waits unless its interrupt runs (`WaitOK`), and the delay has grown by what was
refused (`DelayOK`). From it: `AckTimeoutAsserts`, the assertions on the timer included, and
`AckTimeoutMatches`. The hypothesis
`~SlowIsr`: the timer interrupt ends before the next frame is on the air
(`AckTimeoutSlow` in section 6).

**AckProofs, the data of ACKs** (any set of integer keys, any capacity, any elements of
positive length, any matching methods; no hypothesis). None of the run's three
properties is inductive: what a lookup returns depends on a binary search, which works on an
array in order only, and in the middle of a write the array is not the sorted list
of anything. `TableInvariant` (`TableIInv`) singles out the slot that the current move fills
(`Flux`). The memory that lookups reach holds whole entries (`MapType`); what is left
of a write is a run of moves from that slot to the new entry, or to the end
(`MovesOK`); the auxiliary memory stands for the slot exactly while its content changes
(`StepOK`); the other slots are in order, with room for the new entry between them
(`OrderOK`); and the slot itself shows the old record, the one that has just been copied to
its neighbour or the one being deleted (`FluxOK`), so that what lookups see is
in order up to a duplicate next to its original (`ArrayInOrder`). Those five parts are
about the array (`ArrayOK`). The others tie it to the calls: the settled entries, less
what a reset has yet to do to them, and the entry being written are the table
asked for (`GoalOK`); the backward iterator is below everything that moves
(`IterOK`), hence a deletion does not make it skip an entry; each record says
something and has one element of a kind (`RecordsOK`), and says what was set (`GhostsOK`).

What the two recursive functions compute is proved for every argument without the library's
induction theorems, which take an operator: `Induct` is induction for a set of numbers,
from the first-order fact that a nonempty set of naturals has a least element
(`WFMin` and `NatLessThanWellFounded`). By it `SearchExists` shows that the binary search
is defined, by extending it from windows of one size to those of the next, and
`SearchFinds` that in an array in order (duplicates allowed as above) it finds a key
that is there, and for one that is not the slot where it belongs. `SumsExist`,
`LengthAppend` and `LengthReplace` do the same for the length of the elements of a record.

From the invariant: `AcksCarry` (`AcksCarryWhatWasSet`); `NoWaste` (`NoWastedPlace`), by a
bijection between the slots in use and the peers with a record (`Places`); and
`LookupsRefine`: `AckDataSpec` implements `PeerTable` with the refinement mapping `Seen`.
There each call maps to `Begin` or `Clear`, and each memory write to `Apply` for one peer, when
the new entry becomes visible (`WriteSteps`) or the deleted one is gone (`KernelStep`), and to a
stutter otherwise.

The proof also corrected the model: the pending bit was a `CASE` whose arms overlapped for the
method that always sets it, of which TLC takes the first and TLA+ may take either.

Type correctness of `CriticalSection`, `CsmaCa` and `NrfRpc` by itself,
`TimerFindsSectionFree` and `CoexRequestFollowsMode` are proved and not repeated in
a run. Every inductive invariant was checked with TLC on the instance of a run before
it was proved.

Assumptions on constants that the proofs use are named in the modules and evaluated by
TLC on every run: sizes are positive, `NoOne`, `Unknown` and `none` are not contexts,
threads or buffers, `noFrame` is not a frame, `torn` is not an entry and `none` neither a
record nor an index (`MarkersAssumption`), and (`PeersAssumption`) there are two peers that share no thread.

Only model-checked: the liveness properties, since temporal proofs under fairness are beyond
the installed provers.

## 6. Where code and documentation disagree

The following configurations state what the documentation, a comment or an
assertion says, and TLC ends them with a counterexample. They are kept for
reference and are not among the runs of `PROJECT.json`; run one with
`tlc -config <configuration>.cfg <module>`. A row with a plus sign has no file of
its own: it is the named configuration with the property of the row in place of the
one there, and with the constants given after the sign.

| Configuration (module) | Property | What happens |
|---|---|---|
| `NrfRpcLateResponse` (`MCNrfRpc`) | `RoutedToInitiator` | `receive_handler` only compares `use_count` with 0: a response that comes after its timeout is given to the next conversation on the same context. `nrf_rpc/doc/protocol_specification.rst:59`: "correctly routed to the initiating thread" |
| `NrfRpcStopBlocked` (`MCNrfRpc`) | `StopReturns` | `nrf_rpc_stop` holds `cleanup_mutex` and waits for the context of a handler that waits for `cleanup_mutex`. `nrf_rpc/include/nrf_rpc.h:448`: "causes all pending commands to fail immediately" |
| `NrfRpcStaleContext` (`MCNrfRpc`) | `FreeSlotEmpty` | `cmd_ctx_free` leaves `use_count` at 1, so a late packet is stored in a free context (`nrf_rpc/nrf_rpc.c:512`, comment at 787) |
| `NrfRpcContextPool` (`MCNrfRpc`) | `ContextAvailable` | the pool size recommended in `nrf_rpc/Kconfig:38` can be exhausted by local threads |
| `NrfRpcThreadPool` (`MCNrfRpc`) | `CommandsReturn` | the receive thread waits for a pool thread whose response is behind the packet it holds (`nrf_rpc/nrf_rpc.c:826`) |
| `NrfRpcAbort` (`MCNrfRpc`) | `OneMessageAtATime` | `abort_all_ops` overwrites an unread message (`nrf_rpc/nrf_rpc.c:702`) |
| `CriticalSectionLateIrq` (`MCCriticalSection`) | `RadioMaskedInSection` | `irq_init` enables RADIO inside the section that processes a granted timeslot (`driver/nrf_802154_trx.c:477`); a comment at line 2933 says it is disabled. This is why the proofs take `LateIrq = FALSE` |
| `CriticalSection` + no other constants (`MCCriticalSection`) | `NestingNeverFails` | a request made in the callback of a direct notification notifies in turn and fails `NRF_802154_ASSERT(m_nested_critical_section_allowed_priority == NESTED_CRITICAL_SECTION_ALLOWED_PRIORITY_NONE)` of `nesting_allow`: `nrf_802154_receive` does so when no buffer is free (`driver/nrf_802154_core.c:1095`) |
| `RadioCoreEdZero` (`MCRadioCore`) | `EdIterations` | `ed_iter_setup` clears the time left before the iterations are done; when they are interrupted, the detection is started again with zero iterations, against the assertion below "Check that vd_count will fit into defined bits of register" in `driver/nrf_802154_trx.c` |
| `RadioCoreEdZero` + `EdTimes = {2}`, or + `EdIter = 2`, `EdTimes = {3}` (`MCRadioCore`) | `EdTimeSum` (an action property: `PROPERTY`) | an energy detection measures less than was asked for, because interrupted iterations are not repeated, or because the time is rounded down (`nrf_802154/common/include/nrf_802154.h:773`) |
| `RadioCoreEdZero` + `PrioLevels <- NoReceiving` (`MCRadioCore`) | `InterruptedIsContinued` | an energy detection or CCA is reported as aborted and continues |
| `RadioCoreEdZero` + `PrioLevels <- NoListening` (`MCRadioCore`) | `CarrierRestartable` | a channel change restarts a carrier that is not on the air, against the assertion in `driver/nrf_802154_trx.c:2070` |
| `RadioCoreEdZero` + no other constants (`MCRadioCore`) | `IdleListeningPriority` | the priority of a reception outlives a timeslot that ended in the middle of it |
| `CsmaCaWrap` (`MCCsmaCa`) | `AttemptsBounded` | with `max_backoffs = 255` the `uint8_t` counter wraps and the limit is never reached (`nrf_802154/common/include/nrf_802154.h:1253`) |
| `CsmaCaWrap` + `BackoffsValues = {}`, `MinBeValues <- AboveMaxBe` (`MCCsmaCa`) | `BeWithinMax` | `min_be` may be set above `max_be`, and is used |
| `CsmaCaWrap` + `BackoffsValues = {}`, `Bsim = TRUE` (`MCCsmaCa`) | `BusyIsRetried` (`PROPERTY`) | simulation builds report the start of a frame before its CCA, so a busy channel is not retried |
| `SwiReissue` (`MCSwi`) | `AssertsHold` | a slot is released after its callout has returned; an operation that the callout itself starts, and whose outcome RADIO reports before that, finds its slot taken. `driver/nrf_802154_notification_swi.c:707`: "It should always be possible to notify transmission result" |
| `SerializationRefused` (`MCSerialization`) | `HandleReleased` | a frame that the other core refuses keeps its handle in the source map: the rollback of `nrf_802154/serialization/src/nrf_802154_spinel_app.c:1617` ("Rollback what we did until an error to avoid memory leak.") covers errors of the link only |
| `SerializationFreeRace` (`MCSerialization`) | `NoBufferLost` | a frame received into a buffer between its release and the removal of its handle (`nrf_802154/serialization/src/nrf_802154_spinel_dec_net.c:1608`) loses the handle and can never be freed |
| `SerializationHostFree` (`MCSerialization`) | `NoErrors` | likewise on the application core: a notification decoded between the request and the removal of the handle finds no memory, if the decoder may preempt the thread there |
| `SerializationLate` (`MCSerialization`) | `ResponseMatches` | a response that missed its timeout is taken by the next call of the same property |
| `AckTimeout` + no other constants (`MCAckTimeout`) | `OwnedTimerUntouched` | a timeout that is refused and then preempted by a stop is retried all the same: the timer stays armed, and the next frame adds it again. `nrf_802154/sl/include/nrf_802154_sl_timer.h:251` forbids that for a timer that was added and has not fired or been removed; the open-source service accepts it |
| `AckTimeoutSlow` (`MCAckTimeout`) | `AwaitedAckIsTimed` | if the timer interrupt is held up for longer than a transmission takes to start, clearing the flag leaves the next frame without a timeout |

Observations that need no run: `nrf_802154_ack_timeout_time_set` has no upper
limit, and with a timeout close to one second the first refusal fails the assertion on
the retry delay (`RefusalsAssumption` excludes it); the branch of the notification
handler that discards entries while notifications are blocked never meets one: before
a thread blocks them, everything more urgent has pushed and the software interrupt
has drained the queue, and when an interrupt blocks them the handler does not run
before the flush.

## 7. Not modelled

- Registers and (D)PPI wiring, radio timing, front-end module control, statistics,
  logging and antenna diversity, because their correctness is about hardware.
- `RadioCore`: the coex receive modes that use the prestarted timer. Direct
  notifications, the choice of the build with the open-source service layer
  (`driver/CMakeLists.txt:91`; it has neither CSMA-CA nor delayed operations): there
  callbacks run, and make requests, in the middle of handlers. Two places where that goes
  wrong can be read off the code: `tx_client_failed_notify` and
  `tx_client_transmitted_notify` clear `m_tx.p_client` after a callback that may have set
  it for the next frame (`nrf_802154_core.c:408`), and `rx_init` starts the reception
  after the NO_BUFFER callback, which may have started a transmission
  (`nrf_802154_core.c:1112`, then 1155).
- `DelayedTrx`: `nrf_802154_delayed_trx_nearest_drx_time_to_midpoint_get`, which only
  reads; the assertions that a result can be notified (`nrf_802154_delayed_trx.c:487`, 600
  and 662), which are about the slots of the notification module (`Swi`).
- `Serialization`: failures of the link and of the encoding, the deferral of
  `tx_ack_started`, the values of the configuration calls, and
  `nrf_802154_transmit_at_cancel`, which takes a frame back through the pointer that
  `transmit_raw_at` keeps for it (`nrf_802154_spinel_dec_net.c:1519` and 1538).
- `NrfRpc`: the initialisation handshake and its internal tasks; commands and events
  unknown to the receiver (`nrf_rpc.c:448`), a response or an acknowledgement that the
  transport refuses (1105, 523), the cleanup handlers of a stop (1313).
- `Bsmap`: reordering of plain stores by the compiler.
- The open-source service layer: the models take the scheduler and the timers from
  their use, so that the results do not depend on which service layer is linked. The
  open-source one serves every timer with one `k_timer`.
- Frame parser, filter, ACK generators, IE writer and key table: functions of frame
  bytes without interleavings (planned as operators against a reference).
- The CBOR layer, the LC3 wrapper and the glue code, because they hold no state that
  steps could bring out of order; soft peripherals and CryptoCell mutexes, which are
  thin layers over binaries; the spinel base codec, because it is third-party.
- The libraries delivered as binaries, because there is no source. Their headers,
  with the register definitions and vendored code, are the larger part of the
  repository by lines, so that the models cover the logic of the driver, of its
  serialization and of nRF RPC but a small share of all lines.
