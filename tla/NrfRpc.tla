------------------------------- MODULE NrfRpc -------------------------------
(***************************************************************************)
(* The command layer of nRF RPC (nrf_rpc/nrf_rpc.c): two peers exchange    *)
(* commands, recursive commands, responses and events over a reliable      *)
(* ordered transport.  Each peer has a pool of command contexts, a thread  *)
(* pool, application threads and the transport's receive thread.           *)
(*                                                                         *)
(* A thread is a stack of frames: a "cmd" frame is a nrf_rpc_cmd_common    *)
(* call, an "exec" frame a command handler, an "evt" frame an event        *)
(* handler.  conv, the identity of a call, is a history variable: the      *)
(* protocol has only the context identifiers src and dst.                  *)
(*                                                                         *)
(* The OS layer (mutexes, the context pool, message passing, the thread    *)
(* pool) and the transport are external and modelled from their contract   *)
(* in template/nrf_rpc_os_tmpl.h.                                          *)
(***************************************************************************)
EXTENDS Integers, Sequences, FiniteSets

CONSTANTS
    Peers,       \* the two processors
    AppThreads, PoolThreads,  \* [Peers -> SUBSET Threads]
    Ctxs,        \* context identifiers, CONFIG_NRF_RPC_CMD_CTX_POOL_SIZE
    AutoFree,    \* transports: without rx_buf_free (TRUE) the receive thread
                 \* waits for nrf_rpc_decoding_done
    MaxCalls,    \* commands started in a behaviour
    MaxEvts,     \* events sent in a behaviour
    MaxDepth,    \* frames on one stack
    Timeouts,    \* may nrf_rpc_os_msg_get time out?
    SendErrors,  \* may the transport refuse a command?
    MaxStops,    \* nrf_rpc_stop calls per peer
    NoOne, Stopper, Unknown

Threads == UNION {AppThreads[p] \cup PoolThreads[p] : p \in Peers}
PeerOf(t) == CHOOSE p \in Peers : t \in AppThreads[p] \cup PoolThreads[p]
Other(p) == CHOOSE q \in Peers : q # p

ASSUME PeersAssumption ==
    /\ IsFiniteSet(Peers) /\ Cardinality(Peers) = 2
    /\ \A p, q \in Peers : p # q =>
          (AppThreads[p] \cup PoolThreads[p]) \cap (AppThreads[q] \cup PoolThreads[q]) = {}
    /\ NoOne \notin Ctxs \cup Threads /\ Unknown \notin Ctxs
    /\ AutoFree \subseteq BOOLEAN /\ AutoFree # {}
    /\ {Timeouts, SendErrors} \subseteq BOOLEAN
    /\ Ctxs \subseteq Nat
    /\ {MaxCalls, MaxEvts, MaxStops} \subseteq Nat /\ MaxDepth \in Nat \ {0}

VARIABLES
    stack,    \* [Threads -> sequence of frames, innermost last]
    tls,      \* [Threads -> context or NoOne]
    ctx,      \* [Peers -> [Ctxs -> context record]], cmd_ctx_pool
    cleanup,  \* [Peers -> holder of cleanup_mutex]
    stopped,  \* [Peers -> BOOLEAN], is_stopped
    stopping, \* [Peers -> BOOLEAN], inside nrf_rpc_stop
    stopAt,   \* [Peers -> contexts abort_all_ops has still to visit]
    stops,    \* [Peers -> Nat]
    autoFree, \* auto_free_rx_buf of the transport in use
    net,      \* [Peers -> packets on their way to the peer]
    rx,       \* [Peers -> "idle", "admit" or "decode"], the receive thread
    calls, evts, acks

rpcVars  == <<stopped, stopping, stopAt, stops, autoFree>>
histVars == <<calls, evts, acks>>
vars == <<stack, tls, ctx, cleanup, rpcVars, net, rx, histVars>>

ABORT == [type |-> "ABORT"]      \* the NULL message of abort_all_ops
HANDLED == "HANDLED"             \* type of the message RESPONSE_HANDLED_PTR
NoMsg == [type |-> "none"]

FreeCtx == [reserved |-> FALSE, use |-> 0, remote |-> Unknown,
            handler |-> FALSE, owner |-> NoOne, msg |-> NoMsg]

Init ==
    /\ stack = [t \in Threads |-> <<>>]
    /\ tls = [t \in Threads |-> NoOne]
    /\ ctx = [p \in Peers |-> [i \in Ctxs |-> FreeCtx]]
    /\ cleanup = [p \in Peers |-> NoOne]
    /\ stopped = [p \in Peers |-> FALSE]
    /\ stopping = [p \in Peers |-> FALSE]
    /\ stopAt = [p \in Peers |-> {}]
    /\ stops = [p \in Peers |-> 0]
    /\ autoFree \in AutoFree
    /\ net = [p \in Peers |-> <<>>]
    /\ rx = [p \in Peers |-> "idle"]
    /\ calls = 0 /\ evts = 0 /\ acks = 0

-----------------------------------------------------------------------------
Top(t)        == stack[t][Len(stack[t])]
At(t, k, st)  == stack[t] # <<>> /\ Top(t).k = k /\ Top(t).st = st
Push(t, f)    == stack' = [stack EXCEPT ![t] = Append(@, f)]
Pop(t)        == stack' = [stack EXCEPT ![t] = SubSeq(@, 1, Len(@) - 1)]
Goto(t, st)   == stack' = [stack EXCEPT ![t][Len(stack[t])].st = st]
Mine(t)       == ctx[PeerOf(t)][tls[t]]
SetMine(t, c) == ctx' = [ctx EXCEPT ![PeerOf(t)][tls[t]] = c]
Send(p, pkt)  == net' = [net EXCEPT ![Other(p)] = Append(@, pkt)]

\* The call whose handler the thread is running, 0 outside of command handlers.
Conv(t)       == IF stack[t] # <<>> /\ Top(t).k = "exec" THEN Top(t).conv ELSE 0

AllocKeepsRemote(t, i, remote) ==
    LET p == PeerOf(t) IN
    /\ ~ctx[p][i].reserved
    /\ ctx[p][i].owner = NoOne
    /\ ctx' = [ctx EXCEPT ![p][i] =
                 [@ EXCEPT !.reserved = TRUE, !.owner = t, !.use = 1, !.handler = FALSE,
                           !.remote = IF remote = Unknown THEN @ ELSE remote]]
    /\ tls' = [tls EXCEPT ![t] = i]

\* cmd_ctx_alloc: a free context, its mutex locked, bound to the thread.  A
\* message left in the context stays there.
AllocOn(t, i, remote) ==
    LET p == PeerOf(t) IN
    /\ ~ctx[p][i].reserved
    /\ ctx[p][i].owner = NoOne
    /\ ctx' = [ctx EXCEPT ![p][i] =
                 [@ EXCEPT !.reserved = TRUE, !.owner = t, !.use = 1,
                           !.remote = remote, !.handler = FALSE]]
    /\ tls' = [tls EXCEPT ![t] = i]

FreedLeaks(c) == [c EXCEPT !.owner = NoOne]

\* cmd_ctx_free leaves use_count alone.
Freed(c) == [c EXCEPT !.reserved = FALSE, !.owner = NoOne]

\* cmd_ctx_release
Released(c) ==
    IF c.use = 1 THEN Freed([c EXCEPT !.use = 0]) ELSE [c EXCEPT !.use = @ - 1]

-----------------------------------------------------------------------------
(* nrf_rpc_cmd_common *)

\* An application thread, or a handler, calls nrf_rpc_cmd with a response
\* handler (h) or nrf_rpc_cmd_rsp.
CmdStart(t) ==
    /\ calls < MaxCalls
    /\ Len(stack[t]) < MaxDepth
    /\ \/ t \in AppThreads[PeerOf(t)] /\ stack[t] = <<>>
       \/ At(t, "exec", "run")
       \/ At(t, "evt", "run")
    /\ calls' = calls + 1
    /\ \E h \in BOOLEAN :
         Push(t, [k |-> "cmd", st |-> "lock", conv |-> calls', parent |-> Conv(t),
                  h |-> h, old |-> FALSE])
    /\ UNCHANGED <<tls, ctx, cleanup, rpcVars, net, rx, evts, acks>>

\* Locking cleanup_mutex and the check of is_stopped; cmd_ctx_reserve for a
\* thread that has a context already.
CmdLock(t) ==
    LET p == PeerOf(t) IN
    /\ At(t, "cmd", "lock")
    /\ cleanup[p] = NoOne
    /\ IF stopped[p]
       THEN Pop(t) /\ UNCHANGED <<ctx, cleanup>>
       ELSE IF tls[t] # NoOne
       THEN /\ SetMine(t, [Mine(t) EXCEPT !.use = @ + 1])
            /\ Goto(t, "send")
            /\ UNCHANGED cleanup
       ELSE /\ cleanup' = [cleanup EXCEPT ![p] = t]
            /\ Goto(t, "reserve")
            /\ UNCHANGED ctx
    /\ UNCHANGED <<tls, rpcVars, net, rx, histVars>>

\* cmd_ctx_reserve for a new conversation: waits for a context of the pool
\* with cleanup_mutex held, and releases it then.
CmdReserve(t) ==
    /\ At(t, "cmd", "reserve")
    /\ \E i \in Ctxs : AllocOn(t, i, Unknown)
    /\ cleanup' = [cleanup EXCEPT ![PeerOf(t)] = NoOne]
    /\ Goto(t, "send")
    /\ UNCHANGED <<rpcVars, net, rx, histVars>>

\* Encoding the header, saving the previous handler, and send.
CmdSend(t) ==
    LET f == Top(t) c == Mine(t) IN
    /\ At(t, "cmd", "send")
    /\ Send(PeerOf(t), [type |-> "CMD", src |-> tls[t], dst |-> c.remote,
                        conv |-> f.conv, parent |-> f.parent])
    /\ SetMine(t, [c EXCEPT !.handler = f.h])
    /\ stack' = [stack EXCEPT ![t][Len(stack[t])] =
                   [f EXCEPT !.st = "get", !.old = c.handler]]
    /\ UNCHANGED <<tls, cleanup, rpcVars, rx, histVars>>

\* nrf_rpc_os_msg_get, first half: with nothing to get it unlocks the context
\* and sleeps.
MsgSleep(t) ==
    /\ At(t, "cmd", "get")
    /\ Mine(t).owner = t /\ Mine(t).msg = NoMsg
    /\ SetMine(t, [Mine(t) EXCEPT !.owner = NoOne])
    /\ UNCHANGED <<stack, tls, cleanup, rpcVars, net, rx, histVars>>

\* nrf_rpc_decoding_done: releases the receive thread that waits for it.
DecodingDone(p) ==
    rx' = [rx EXCEPT ![p] = IF @ = "decode" THEN "idle" ELSE @]

\* The end of nrf_rpc_cmd_common: the handler restored, the context released.
Return(t, c) ==
    LET r == Released([c EXCEPT !.handler = Top(t).old, !.msg = NoMsg])
    IN  /\ SetMine(t, r)
        /\ tls' = IF r.reserved THEN tls ELSE [tls EXCEPT ![t] = NoOne]

Got(t) == At(t, "cmd", "get") /\ Mine(t).owner \in {t, NoOne}

\* wait_for_response returns: a response that the receive thread has already
\* handed to the handler, or the abort of nrf_rpc_stop.
CmdReturn(t) ==
    LET c == [Mine(t) EXCEPT !.owner = t] IN
    /\ Got(t)
    /\ c.msg.type \in {"ABORT", HANDLED}
    /\ Return(t, c)
    /\ Pop(t)
    /\ UNCHANGED <<cleanup, rpcVars, net, rx, histVars>>

\* wait_for_response returns a response: given to the handler when the
\* transport keeps the buffer, left to the caller to decode otherwise.
CmdResponse(t) ==
    LET c == [Mine(t) EXCEPT !.owner = t] IN
    /\ Got(t)
    /\ c.msg.type = "RSP"
    /\ Return(t, c)
    /\ IF Top(t).h
       THEN Pop(t)
       ELSE stack' = [stack EXCEPT ![t][Len(stack[t])] = [k |-> "rsp", st |-> "decode"]]
    /\ UNCHANGED <<cleanup, rpcVars, net, rx, histVars>>

\* The caller of nrf_rpc_cmd_rsp has decoded the response.
RspDecoded(t) ==
    /\ At(t, "rsp", "decode")
    /\ DecodingDone(PeerOf(t))
    /\ Pop(t)
    /\ UNCHANGED <<tls, ctx, cleanup, rpcVars, net, histVars>>

\* wait_for_response: a recursive command is executed by the waiting thread.
CmdRecursive(t) ==
    LET c == [Mine(t) EXCEPT !.owner = t] IN
    /\ Got(t)
    /\ c.msg.type = "CMD"
    /\ SetMine(t, [c EXCEPT !.remote = c.msg.src, !.msg = NoMsg])
    /\ Push(t, [k |-> "exec", st |-> "decode", conv |-> c.msg.conv, fresh |-> FALSE])
    /\ UNCHANGED <<tls, cleanup, rpcVars, net, rx, histVars>>

\* nrf_rpc_os_msg_get times out and returns NULL.
CmdTimeout(t) ==
    /\ Timeouts
    /\ At(t, "cmd", "get")
    /\ Mine(t).owner = NoOne /\ Mine(t).msg = NoMsg
    /\ Return(t, [Mine(t) EXCEPT !.owner = t])
    /\ Pop(t)
    /\ UNCHANGED <<cleanup, rpcVars, net, rx, histVars>>

SendFailsLeaks(t) ==
    /\ SendErrors
    /\ At(t, "cmd", "send")
    /\ Pop(t)
    /\ UNCHANGED <<tls, ctx, cleanup, rpcVars, net, rx, histVars>>

\* The transport refuses the command: nrf_rpc_cmd_common returns at once.
CmdSendFails(t) ==
    /\ SendErrors
    /\ At(t, "cmd", "send")
    /\ SetMine(t, Released(Mine(t)))
    /\ tls' = IF Mine(t).use = 1 THEN [tls EXCEPT ![t] = NoOne] ELSE tls
    /\ Pop(t)
    /\ UNCHANGED <<cleanup, rpcVars, net, rx, histVars>>

-----------------------------------------------------------------------------
(* parse_incoming_packet in a thread of the pool, and the handlers *)

\* A command that starts a conversation gets a context of its own.
ExecAlloc(t) ==
    /\ At(t, "exec", "alloc")
    /\ \E i \in Ctxs : AllocOn(t, i, Top(t).src)
    /\ Goto(t, "decode")
    /\ UNCHANGED <<cleanup, rpcVars, net, rx, histVars>>

\* handler_execute: the handler has decoded its arguments and calls
\* nrf_rpc_decoding_done.  The peers know each other's commands and events: an
\* unknown one, which is reported and never answered, is left out.
ExecDecode(t) ==
    /\ At(t, "exec", "decode") \/ At(t, "evt", "decode")
    /\ DecodingDone(PeerOf(t))
    /\ Goto(t, "run")
    /\ UNCHANGED <<tls, ctx, cleanup, rpcVars, net, histVars>>

\* The handler answers with nrf_rpc_rsp and returns; cmd_ctx_free when the
\* context was allocated for it.  The transport takes the response: a refused
\* one is reported to the error handler and the caller waits on.
ExecRespond(t) ==
    LET f == Top(t) IN
    /\ At(t, "exec", "run")
    /\ Send(PeerOf(t), [type |-> "RSP", src |-> Unknown, dst |-> Mine(t).remote,
                        conv |-> f.conv, parent |-> 0])
    /\ IF f.fresh
       THEN SetMine(t, Freed(Mine(t))) /\ tls' = [tls EXCEPT ![t] = NoOne]
       ELSE UNCHANGED <<ctx, tls>>
    /\ Pop(t)
    /\ UNCHANGED <<cleanup, rpcVars, rx, histVars>>

EvtAckForgotten(t) ==
    /\ At(t, "evt", "run")
    /\ Pop(t)
    /\ UNCHANGED <<tls, ctx, cleanup, rpcVars, net, rx, histVars>>

\* The end of an event handler: the acknowledgment is sent, and the transport
\* takes it (a refused one is reported to the error handler).
EvtAck(t) ==
    /\ At(t, "evt", "run")
    /\ Send(PeerOf(t), [type |-> "ACK", src |-> Unknown, dst |-> Unknown,
                        conv |-> 0, parent |-> 0])
    /\ Pop(t)
    /\ UNCHANGED <<tls, ctx, cleanup, rpcVars, rx, histVars>>

\* nrf_rpc_evt
EvtSend(t) ==
    /\ t \in AppThreads[PeerOf(t)] /\ stack[t] = <<>>
    /\ evts < MaxEvts
    /\ evts' = evts + 1
    /\ Send(PeerOf(t), [type |-> "EVT", src |-> Unknown, dst |-> Unknown,
                        conv |-> 0, parent |-> 0])
    /\ UNCHANGED <<stack, tls, ctx, cleanup, rpcVars, rx, calls, acks>>

-----------------------------------------------------------------------------
(* receive_handler: one disjunct per outcome, all for the oldest packet *)

RxNext(p) == rx[p] = "admit"
Taken(p)  == net' = [net EXCEPT ![p] = Tail(@)]
AfterDelivery(p) ==
    rx' = [rx EXCEPT ![p] = IF autoFree THEN "decode" ELSE "idle"]

\* The unsynchronised check of is_stopped: everything but INIT and ERR packets
\* is dropped while stopped.
RxCheck(p) ==
    /\ rx[p] = "idle" /\ net[p] # <<>>
    /\ \/ stopped[p] /\ Taken(p) /\ UNCHANGED rx
       \/ ~stopped[p] /\ rx' = [rx EXCEPT ![p] = "admit"] /\ UNCHANGED net
    /\ UNCHANGED <<stack, tls, ctx, cleanup, rpcVars, histVars>>

\* A new conversation or an event: nrf_rpc_os_thread_pool_send waits for an
\* idle thread of the pool.
RxPool(p) ==
    LET pkt == Head(net[p]) IN
    /\ RxNext(p)
    /\ pkt.type = "EVT" \/ (pkt.type = "CMD" /\ pkt.dst = Unknown)
    /\ \E t \in PoolThreads[p] :
         /\ stack[t] = <<>>
         /\ Push(t, IF pkt.type = "EVT"
                    THEN [k |-> "evt", st |-> "decode"]
                    ELSE [k |-> "exec", st |-> "alloc", conv |-> pkt.conv,
                          src |-> pkt.src, fresh |-> TRUE])
    /\ Taken(p)
    /\ AfterDelivery(p)
    /\ UNCHANGED <<tls, ctx, cleanup, rpcVars, histVars>>

RxContextSilent(p) ==
    LET pkt == Head(net[p])
        c   == ctx[p][pkt.dst]
        handled == c.handler /\ pkt.type = "RSP" /\ autoFree
    IN
    /\ RxNext(p)
    /\ pkt.type \in {"CMD", "RSP"} /\ pkt.dst # Unknown
    /\ c.owner = NoOne
    /\ IF c.use = 0 \/ handled
       THEN rx' = [rx EXCEPT ![p] = "idle"] /\ UNCHANGED ctx
       ELSE ctx' = [ctx EXCEPT ![p][pkt.dst].msg = pkt] /\ AfterDelivery(p)
    /\ Taken(p)
    /\ UNCHANGED <<stack, tls, cleanup, rpcVars, histVars>>

\* A packet of a conversation: dropped when the context is not in use, given
\* to the response handler, or passed to the thread that waits.
RxContext(p) ==
    LET pkt == Head(net[p])
        c   == ctx[p][pkt.dst]
    IN
    /\ RxNext(p)
    /\ pkt.type \in {"CMD", "RSP"} /\ pkt.dst # Unknown
    /\ c.owner = NoOne
    /\ \/ /\ c.use = 0
          /\ rx' = [rx EXCEPT ![p] = "idle"]
          /\ UNCHANGED ctx
       \/ /\ c.use > 0 /\ c.handler /\ pkt.type = "RSP" /\ autoFree
          /\ ctx' = [ctx EXCEPT ![p][pkt.dst].msg = [type |-> HANDLED, conv |-> pkt.conv]]
          /\ rx' = [rx EXCEPT ![p] = "idle"]
       \/ /\ c.use > 0 /\ ~(c.handler /\ pkt.type = "RSP" /\ autoFree)
          /\ ctx' = [ctx EXCEPT ![p][pkt.dst].msg = pkt]
          /\ AfterDelivery(p)
    /\ Taken(p)
    /\ UNCHANGED <<stack, tls, cleanup, rpcVars, histVars>>

RxAck(p) ==
    /\ RxNext(p)
    /\ Head(net[p]).type = "ACK"
    /\ Taken(p)
    /\ acks' = acks + 1
    /\ rx' = [rx EXCEPT ![p] = "idle"]
    /\ UNCHANGED <<stack, tls, ctx, cleanup, rpcVars, calls, evts>>

-----------------------------------------------------------------------------
(* nrf_rpc_stop and nrf_rpc_resume *)

\* nrf_rpc_stop of a running peer.  (Stopping a stopped one goes over the
\* contexts again.)  The cleanup handlers are the groups' own and left out.
StopStart(p) ==
    /\ stops[p] < MaxStops
    /\ ~stopped[p]
    /\ cleanup[p] = NoOne
    /\ cleanup' = [cleanup EXCEPT ![p] = Stopper]
    /\ stopped' = [stopped EXCEPT ![p] = TRUE]
    /\ stopping' = [stopping EXCEPT ![p] = TRUE]
    /\ stopAt' = [stopAt EXCEPT ![p] = Ctxs]
    /\ stops' = [stops EXCEPT ![p] = @ + 1]
    /\ UNCHANGED <<stack, tls, ctx, autoFree, net, rx, histVars>>

\* abort_all_ops: one context after the other, each under its mutex.
StopAbort(p) ==
    /\ \E i \in stopAt[p] :
         /\ \A j \in stopAt[p] : i <= j
         /\ ctx[p][i].owner = NoOne
         /\ stopAt' = [stopAt EXCEPT ![p] = @ \ {i}]
         /\ ctx' = IF ctx[p][i].use > 0
                   THEN [ctx EXCEPT ![p][i].msg = ABORT] ELSE ctx
    /\ UNCHANGED <<stack, tls, cleanup, stopped, stopping, stops, autoFree, net, rx,
                   histVars>>

StopEnd(p) ==
    /\ stopping[p] /\ stopAt[p] = {}
    /\ stopping' = [stopping EXCEPT ![p] = FALSE]
    /\ cleanup' = [cleanup EXCEPT ![p] = NoOne]
    /\ UNCHANGED <<stack, tls, ctx, stopped, stopAt, stops, autoFree, net, rx, histVars>>

Resume(p) ==
    /\ stopped[p] /\ ~stopping[p]
    /\ stopped' = [stopped EXCEPT ![p] = FALSE]
    /\ UNCHANGED <<stack, tls, ctx, cleanup, stopping, stopAt, stops, autoFree, net, rx,
                   histVars>>

-----------------------------------------------------------------------------
\* What a thread that has something to do does next.
Step(t) ==
    \/ CmdLock(t) \/ CmdReserve(t) \/ CmdSend(t) \/ MsgSleep(t)
    \/ CmdReturn(t) \/ CmdResponse(t) \/ RspDecoded(t) \/ CmdRecursive(t)
    \/ ExecAlloc(t) \/ ExecDecode(t) \/ ExecRespond(t) \/ EvtAck(t)

Receive(p) == RxCheck(p) \/ RxPool(p) \/ RxContext(p) \/ RxAck(p)

Stop(p) == StopAbort(p) \/ StopEnd(p)

\* Everything asked for has been done.
Finished ==
    /\ \A t \in Threads : stack[t] = <<>>
    /\ \A p \in Peers : net[p] = <<>> /\ ~stopping[p] /\ ~stopped[p]
    /\ UNCHANGED vars

Next ==
    \/ \E t \in Threads : CmdStart(t) \/ EvtSend(t) \/ Step(t) \/ CmdTimeout(t)
                        \/ CmdSendFails(t)
    \/ \E p \in Peers : Receive(p) \/ StopStart(p) \/ Stop(p) \/ Resume(p)
    \/ Finished

Spec == Init /\ [][Next]_vars

\* Threads, the receive thread and the stopping thread are scheduled; nobody
\* is obliged to start a call, to time out, to stop or to resume.  Nested calls
\* are bounded, so a handler ends when its steps are taken.
Fairness ==
    /\ \A t \in Threads : WF_vars(Step(t))
    /\ \A p \in Peers : WF_vars(Receive(p)) /\ WF_vars(Stop(p))

FairSpec == Spec /\ Fairness

-----------------------------------------------------------------------------
(* Properties *)

Msg(t) == Mine(t).msg
Waits(t) == At(t, "cmd", "get")

\* The fields of struct nrf_rpc_cmd_ctx, the thread-local context index and
\* the holder of cleanup_mutex stay in their ranges; use_count never exceeds
\* the depth of nesting.
TypeOK ==
    /\ tls \in [Threads -> Ctxs \cup {NoOne}]
    /\ \A p \in Peers, i \in Ctxs :
         LET c == ctx[p][i] IN
         /\ c.reserved \in BOOLEAN /\ c.handler \in BOOLEAN
         /\ c.use \in 0..MaxDepth /\ c.remote \in Ctxs \cup {Unknown}
         /\ c.owner \in Threads \cup {NoOne}
    /\ \A p \in Peers : cleanup[p] \in Threads \cup {NoOne, Stopper}
    /\ rx \in [Peers -> {"idle", "admit", "decode"}]

\* protocol_specification.rst: context identifiers ensure "that responses and
\* any packets that follow within each conversation are correctly routed to
\* the initiating thread".  A response found by a waiting thread answers the
\* call it waits for, and a recursive command was issued by the handler of
\* that call.
RoutedToInitiator ==
    \A t \in Threads : Waits(t) =>
        /\ Msg(t).type \in {"RSP", HANDLED} => Msg(t).conv = Top(t).conv
        /\ Msg(t).type = "CMD" => Msg(t).parent = Top(t).conv

\* What use_count should count for a thread: the calls it has in progress, and
\* the handler that allocated the context.
UsesOf(t) == Cardinality({n \in 1..Len(stack[t]) :
    LET f == stack[t][n] IN
    \/ f.k = "cmd" /\ f.st \in {"send", "get"}
    \/ f.k = "exec" /\ f.st # "alloc" /\ f.fresh})

\* Every context that cmd_ctx_reserve gave out belongs to exactly one thread,
\* and use_count is the number of its users in that thread (cmd_ctx_alloc and
\* cmd_ctx_release); a free context belongs to nobody.
ContextAccounting ==
    \A p \in Peers, i \in Ctxs :
        LET users == {t \in AppThreads[p] \cup PoolThreads[p] : tls[t] = i} IN
        /\ ctx[p][i].reserved <=> Cardinality(users) = 1
        /\ Cardinality(users) <= 1
        /\ \A t \in users :
             /\ ctx[p][i].use = UsesOf(t)
             /\ ctx[p][i].owner = t \/ Waits(t)

\* Kconfig, NRF_RPC_CMD_CTX_POOL_SIZE: "Minimum value that is ensured to work
\* without waiting is the sum of the number of threads in both local and remote
\* pool."  No thread ever finds the pool of contexts empty.
ContextAvailable ==
    \A t \in Threads : At(t, "cmd", "reserve") \/ At(t, "exec", "alloc") =>
        \E i \in Ctxs : ~ctx[PeerOf(t)][i].reserved

\* A free context holds no message: the next command to use it would take it
\* for its own response.
FreeSlotEmpty ==
    \A p \in Peers, i \in Ctxs : ~ctx[p][i].reserved => ctx[p][i].msg = NoMsg

\* nrf_rpc_os_tmpl.h, nrf_rpc_os_msg_set: "nRF RPC is passing one message at a
\* time, so there is no need to do FIFO here."
OneMessageAtATime ==
    [][\A p \in Peers, i \in Ctxs :
         ctx[p][i].msg # NoMsg => ctx'[p][i].msg \in {ctx[p][i].msg, NoMsg}]_vars

\* The pool of contexts through conversations of any depth, with failing sends:
\* each context is counted as often as it is used and goes back to the pool
\* without a message of the conversation that used it.
ContextsConsistent == TypeOK /\ ContextAccounting /\ FreeSlotEmpty

\* Every nrf_rpc_cmd_common call returns and every command handler ends.
CommandsReturn ==
    \A t \in Threads : (stack[t] # <<>>) ~> (stack[t] = <<>>)

\* receive_handler is never left waiting in nrf_rpc_os_event_wait for a
\* decoding that nobody does.
ReceiverReleased ==
    \A p \in Peers : (rx[p] = "decode") ~> (rx[p] # "decode")

\* Events are acknowledged once each, and what the receive thread has handed over
\* is always decoded: neither an event nor the packets behind it are stuck.
EventsAcked ==
    /\ ReceiverReleased
    /\ [](acks <= evts)
    /\ (evts = MaxEvts) ~> (acks = MaxEvts)

\* nrf_rpc.h, nrf_rpc_stop: "It also causes all pending commands to fail
\* immediately."
StopReturns == \A p \in Peers : stopping[p] ~> ~stopping[p]

=============================================================================
