---------------------------- MODULE MqttTransport ----------------------------
(***************************************************************************)
(* The MQTT transport of PubSub                                            *)
(* (src/PubSub/protocol/sopc_mqtt_transport_layer.c).                      *)
(*                                                                         *)
(* One manager thread pops events from a bounded channel and runs two      *)
(* state machines with them: its own, and the one of the transport context *)
(* named by the event.  The callbacks of the MQTT library (another thread) *)
(* and the calls of the application only push events, and the handlers     *)
(* push events too.  The synchronous calls wait on a condition of their    *)
(* handle, which the callbacks of the manager signal.                      *)
(*                                                                         *)
(* The thread ticks when no event came within the time it waits and, as    *)
(* the time it waits next is the time elapsed, not the time left, also     *)
(* right after an event: timeouts are counted in ticks, not in periods.    *)
(***************************************************************************)
EXTENDS Naturals, Sequences, FiniteSets

CONSTANTS
    Handles,      \* the synchronous handles an application uses
    MaxContexts,  \* MQTT_MAX_TRANSPORT_CONTEXT
    MaxEvents,    \* MQTT_MAX_BUFFER_EVENT
    MaxRetries,   \* MQTT_CONNECTION_RETRY_ON_ERROR
    Limit,        \* ticks before a transient status of a context times out
    StopLimit,    \* MQTT_STATUS_TIMEOUT_NB_PERIODS
    MaxInbox,     \* MQTT_MAX_BUFFER_RCV_MSG
    MaxMessages,  \* bound: messages sent through a handle
    MaxInFlight,  \* bound: events queued when the library or the application adds one
    OneThread     \* whether one thread of the application makes all the calls

ASSUME MqttTransportAssumption ==
    /\ MaxContexts \in Nat \ {0} /\ MaxEvents \in Nat \ {0} /\ MaxRetries \in Nat
    /\ Limit \in Nat \ {0} /\ StopLimit \in Nat \ {0} /\ MaxInbox \in Nat \ {0}
    /\ MaxMessages \in Nat /\ MaxInFlight \in Nat /\ MaxInFlight < MaxEvents
    /\ OneThread \in BOOLEAN /\ 0 \notin Handles

VARIABLES
    mgr,      \* the manager: status, nbTransportContexts and cptStatusTimeout
    slots,    \* the transport contexts
    lib,      \* the MQTT library's client of each context
    queue,    \* schedulerChannel, the next event first
    handles   \* the synchronous handles and what their callers do

vars == <<mgr, slots, lib, queue, handles>>

Slots == 1..MaxContexts

\* A handle is told apart from the one its variable held before by `gen'.
Owner(h) == [h |-> h, gen |-> handles[h].gen]
Nobody == [h |-> 0, gen |-> 0]

\* `owner' is pUserContext with the callbacks, `given' the last message that
\* was passed to the library for this owner.
Unused == [status |-> "NOT_INITIALIZED", cpt |-> 0, retry |-> 0,
           owner |-> Nobody, pending |-> <<>>, given |-> 0]

\* `ops' are the requests the client has not answered, `sends' how many messages
\* it has not answered for.
NoClient == [made |-> FALSE, up |-> FALSE, ops |-> {}, sends |-> 0]

\* `call' is what the application does with the handle: it has none, waits in
\* GetHandle, holds one, or waits in ReleaseHandle.  `woken': it was signalled.
\* transportId is 0 when invalid.
NoHandle(gen) == [call |-> "none", woken |-> FALSE, gen |-> gen,
                  transportId |-> 0, bReady |-> FALSE, sent |-> 0, inbox |-> <<>>]

\* SOPC_MQTT_MGR_Create: the thread is running and every context unused.
\* `posting' is the context whose CONNECT event cbNewHdl has yet to push, or 0;
\* `ticked': no event was handled since the last tick.
Fresh == [status |-> "RUNNING", nb |-> 0, cpt |-> 0, posting |-> 0, ticked |-> FALSE,
          destroying |-> FALSE]

Init ==
    /\ mgr = Fresh
    /\ slots = [i \in Slots |-> Unused]
    /\ lib = [i \in Slots |-> NoClient]
    /\ queue = <<>>
    /\ handles = [h \in Handles |-> NoHandle(0)]
-----------------------------------------------------------------------------
\* The channel.  Every sender flushes it when its event did not fit.
Event(ev, i, data) == [ev |-> ev, i |-> i, data |-> data]

Push(q, e) == IF Len(q) < MaxEvents THEN Append(q, e) ELSE <<>>
PushIf(q, cond, e) == IF cond THEN Push(q, e) ELSE q

\* The status of a context after an event: its timeout starts again if it changed.
\* The counter runs in every status, but matters in these only.
Transient == {"DISCONNECTING", "CONNECTING", "WAITING_FOR_RETRY", "SUBSCRIBING", "SENDING"}

\* Fault: the counter goes on from the previous status.
FaultyBecome(s, status) == [s EXCEPT !.status = status]

Become(s, status) ==
    [s EXCEPT !.status = status, !.cpt = IF s.status # status THEN 0 ELSE @]

\* What a timeout of a transient status posts.
TimeoutEvent(status) ==
    CASE status = "DISCONNECTING"     -> "DISCONNECTED"
      [] status = "CONNECTING"        -> "CONN_ERR"
      [] status = "WAITING_FOR_RETRY" -> "CONNECT"
      [] status = "SUBSCRIBING"       -> "SUB_ERROR"
      [] status = "SENDING"           -> "SENT_ERROR"
-----------------------------------------------------------------------------
(* The callbacks of a synchronous handle: they act when the context is its own *)
(* (for getHandleCb: when it has none).  A handle that is gone is not touched: *)
(* see FreedHandleNotCalled.                                                   *)

Its(owner, i) ==
    owner # Nobody /\ owner = Owner(owner.h) /\ handles[owner.h].transportId = i

\* A signal wakes the caller that waits for the outcome of its call.
Signalled(hd) == [hd EXCEPT !.woken = hd.call \in {"getting", "releasing"}]

SYNCH_getHandleCb(h, i) ==
    IF handles[h].transportId # 0 THEN handles
    ELSE [handles EXCEPT ![h] = Signalled([handles[h] EXCEPT !.transportId = i, !.bReady = FALSE])]

\* Called with the invalid identifier, which a handle that waits always has.
SYNCH_getHandleFailedCb(h, i) ==
    IF handles[h].transportId # 0 /\ handles[h].transportId = i
    THEN [handles EXCEPT ![h] = Signalled([handles[h] EXCEPT !.transportId = 0, !.bReady = FALSE])]
    ELSE handles

SYNCH_clientReady(owner, i, ready) ==
    IF Its(owner, i) THEN [handles EXCEPT ![owner.h].bReady = ready] ELSE handles

SYNCH_handleReleased(owner, i) ==
    IF ~Its(owner, i) THEN handles
    ELSE [handles EXCEPT ![owner.h] =
             Signalled([handles[owner.h] EXCEPT !.transportId = 0, !.bReady = FALSE])]

\* A full buffer is emptied before the message is added.
SYNCH_msgReceived(owner, i, msg) ==
    IF ~Its(owner, i) THEN handles
    ELSE [handles EXCEPT ![owner.h].inbox =
             IF Len(@) >= MaxInbox THEN <<msg>> ELSE Append(@, msg)]
-----------------------------------------------------------------------------
(* The state machine of the manager.  `rest' is the channel without the event. *)

Loop == mgr' = [mgr EXCEPT !.ticked = FALSE]

\* The first unused context is reserved; its callbacks become the requester's.
\* The requester is told before the context is asked to connect, so its thread may
\* call again in between.
cbNewHdl(e, rest) ==
    LET free == {i \in Slots : slots[i].status = "NOT_INITIALIZED"}
        i == CHOOSE j \in free : \A k \in free : j <= k
        owner == Owner(e.data)
    IN  /\ IF free # {}
           THEN /\ slots' = [slots EXCEPT ![i].status = "RESERVED", ![i].owner = owner,
                                          ![i].given = 0]
                /\ handles' = SYNCH_getHandleCb(e.data, i)
                /\ mgr' = [mgr EXCEPT !.nb = @ + 1, !.posting = i, !.ticked = FALSE]
           ELSE /\ handles' = SYNCH_getHandleFailedCb(e.data, 0)
                /\ Loop /\ UNCHANGED slots
        /\ queue' = rest
        /\ UNCHANGED lib

\* The end of cbNewHdl.
PostConnect ==
    /\ mgr.posting # 0
    /\ queue' = Push(queue, Event("CONNECT", mgr.posting, TRUE))
    /\ mgr' = [mgr EXCEPT !.posting = 0]
    /\ UNCHANGED <<slots, lib, handles>>

cbRelHdl(e, rest) ==
    /\ queue' = Push(rest, Event("DISCONNECT", e.i, 0))
    /\ Loop /\ UNCHANGED <<slots, lib, handles>>

cbSnd(e, rest) ==
    /\ queue' = Push(rest, Event("SEND", e.i, e.data))
    /\ Loop /\ UNCHANGED <<slots, lib, handles>>

cbRcv(e, rest) ==
    /\ handles' = SYNCH_msgReceived(slots[e.i].owner, e.i, e.data)
    /\ queue' = rest
    /\ Loop /\ UNCHANGED <<slots, lib>>

cbCltRdy(e, rest) ==
    /\ handles' = SYNCH_clientReady(slots[e.i].owner, e.i, TRUE)
    /\ queue' = rest
    /\ Loop /\ UNCHANGED <<slots, lib>>

cbCltNotRdy(e, rest) ==
    /\ handles' = SYNCH_clientReady(slots[e.i].owner, e.i, FALSE)
    /\ queue' = rest
    /\ Loop /\ UNCHANGED <<slots, lib>>

\* Fault: the callbacks are kept.
FaultyCltRmv(e, rest) ==
    /\ mgr' = [mgr EXCEPT !.ticked = FALSE, !.nb = IF @ > 0 THEN @ - 1 ELSE 0]
    /\ handles' = SYNCH_handleReleased(slots[e.i].owner, e.i)
    /\ queue' = rest
    /\ UNCHANGED <<slots, lib>>

\* The context lost its last user: the callbacks are told and forgotten.
cbCltRmv(e, rest) ==
    LET left == IF mgr.nb > 0 THEN mgr.nb - 1 ELSE 0
        stops == left = 0 /\ mgr.status = "STOPPING"
    IN  /\ mgr' = [mgr EXCEPT !.ticked = FALSE, !.nb = left, !.status = IF stops THEN "STOPPED" ELSE @,
                              !.cpt = IF stops THEN 0 ELSE @]
        /\ handles' = SYNCH_handleReleased(slots[e.i].owner, e.i)
        /\ slots' = [slots EXCEPT ![e.i].owner = Nobody]
        /\ queue' = rest
        /\ UNCHANGED lib

\* Fault: only the contexts are asked to end.
FaultyQuit(e, rest) ==
    /\ queue' = IF mgr.nb > 0 THEN Push(rest, Event("DISCONNECT", 1, 0)) ELSE rest
    /\ Loop /\ UNCHANGED <<slots, lib, handles>>

\* Every context is asked to disconnect, the unused ones too.
cbQuit(e, rest) ==
    LET asked[i \in 0..MaxContexts] ==
            IF i = 0 THEN rest ELSE Push(asked[i - 1], Event("DISCONNECT", i, 0))
    IN  /\ IF mgr.nb > 0
           THEN /\ mgr' = [mgr EXCEPT !.status = "STOPPING", !.cpt = 0, !.ticked = FALSE]
                /\ queue' = asked[MaxContexts]
           ELSE /\ mgr' = [mgr EXCEPT !.status = "STOPPED", !.cpt = 0]
                /\ queue' = rest
        /\ UNCHANGED <<slots, lib, handles>>

\* Which callback the manager's table has for an event.
tabFsmScheduler(status, ev) ==
    IF status = "RUNNING" THEN ev
    ELSE IF status = "STOPPING" /\ ev \in {"CLT_RDY", "CLT_NRDY", "CLT_RMV"} THEN ev ELSE "NULL"

ManagerEvents == {"NEW_HANDLE", "DEL_HDL", "SND", "QUIT", "CLT_RECV", "CLT_RDY", "CLT_NRDY", "CLT_RMV"}

ManagerStep(e, rest) ==
    LET cb == tabFsmScheduler(mgr.status, e.ev)
    IN  \/ cb = "NEW_HANDLE" /\ cbNewHdl(e, rest)
        \/ cb = "DEL_HDL" /\ cbRelHdl(e, rest)
        \/ cb = "SND" /\ cbSnd(e, rest)
        \/ cb = "QUIT" /\ cbQuit(e, rest)
        \/ cb = "CLT_RECV" /\ cbRcv(e, rest)
        \/ cb = "CLT_RDY" /\ cbCltRdy(e, rest)
        \/ cb = "CLT_NRDY" /\ cbCltNotRdy(e, rest)
        \/ cb = "CLT_RMV" /\ cbCltRmv(e, rest)
        \/ cb = "NULL" /\ queue' = rest /\ Loop /\ UNCHANGED <<slots, lib, handles>>
-----------------------------------------------------------------------------
(* The state machine of a transport context.  A call of the library may fail:  *)
(* the handler then posts the event of its failure itself.                     *)

\* For a reserved context the library's client is created first.
cbConnReq(e, rest) ==
    LET s == slots[e.i]
        creates == s.status = "RESERVED" /\ e.data
    IN  \E created \in (IF creates THEN BOOLEAN ELSE {TRUE}), connects \in BOOLEAN :
           LET client == IF creates /\ created
                         THEN [NoClient EXCEPT !.made = TRUE] ELSE lib[e.i]
               fails == ~created \/ ~client.made \/ ~connects
           IN  /\ slots' = [slots EXCEPT ![e.i] = Become(s, "CONNECTING")]
               /\ lib' = [lib EXCEPT ![e.i] =
                             IF fails THEN client ELSE [client EXCEPT !.ops = @ \cup {"connect"}]]
               /\ queue' = PushIf(PushIf(rest, s.status # "WAITING_FOR_RETRY",
                                         Event("CLT_NRDY", e.i, 0)),
                                  fails, Event("CONN_ERR", e.i, 0))
               /\ Loop /\ UNCHANGED handles

\* The context is unused again; its owner is told with the event CLT_RMV.
Cleared(i, rest) ==
    /\ slots' = [slots EXCEPT ![i] = [Become(slots[i], "NOT_INITIALIZED")
                                        EXCEPT !.retry = 0, !.pending = <<>>]]
    /\ lib' = [lib EXCEPT ![i] = NoClient]
    /\ queue' = Push(rest, Event("CLT_RMV", i, 0))
    /\ Loop /\ UNCHANGED handles

cbConnClr(e, rest) == Cleared(e.i, rest)

cbConnTry(e, rest) ==
    IF slots[e.i].retry >= MaxRetries THEN Cleared(e.i, rest)
    ELSE /\ slots' = [slots EXCEPT ![e.i] = [Become(slots[e.i], "WAITING_FOR_RETRY")
                                               EXCEPT !.retry = slots[e.i].retry + 1]]
         /\ queue' = rest
         /\ Loop /\ UNCHANGED <<lib, handles>>

\* Fault: the owner is not told that it may not send any more.
FaultyDiscReq(e, rest) ==
    /\ slots' = [slots EXCEPT ![e.i] = Become(slots[e.i], "DISCONNECTING")]
    /\ lib' = [lib EXCEPT ![e.i].ops = @ \cup {"disconnect"}]
    /\ queue' = rest
    /\ Loop /\ UNCHANGED handles

cbDiscReq(e, rest) ==
    \E asks \in BOOLEAN :
       LET fails == ~asks \/ ~lib[e.i].made
       IN  /\ slots' = [slots EXCEPT ![e.i] = Become(slots[e.i], "DISCONNECTING")]
           /\ lib' = IF fails THEN lib ELSE [lib EXCEPT ![e.i].ops = @ \cup {"disconnect"}]
           /\ queue' = PushIf(Push(rest, Event("CLT_NRDY", e.i, 0)),
                              fails, Event("DISCONNECTED", e.i, 0))
           /\ Loop /\ UNCHANGED handles

cbSubReq(e, rest) ==
    \E asks \in BOOLEAN :
       LET fails == ~asks \/ ~lib[e.i].made
       IN  /\ slots' = [slots EXCEPT ![e.i] = [Become(slots[e.i], "SUBSCRIBING") EXCEPT !.retry = 0]]
           /\ lib' = IF fails THEN lib ELSE [lib EXCEPT ![e.i].ops = @ \cup {"subscribe"}]
           /\ queue' = PushIf(rest, fails, Event("SUB_ERROR", e.i, 0))
           /\ Loop /\ UNCHANGED handles

cbSubRdy(e, rest) ==
    /\ slots' = [slots EXCEPT ![e.i] = Become(slots[e.i], "READY")]
    /\ queue' = Push(rest, Event("CLT_RDY", e.i, 0))
    /\ Loop /\ UNCHANGED <<lib, handles>>

cbMsgRcv(e, rest) ==
    /\ queue' = Push(rest, Event("CLT_RECV", e.i, e.data))
    /\ Loop /\ UNCHANGED <<slots, lib, handles>>

\* The oldest pending message is passed to the library, after the one just asked
\* for was added; an error drops those that wait.
cbPubReq(e, rest) ==
    LET s == slots[e.i]
        kept == IF e.ev = "SENT_ERROR" THEN <<>> ELSE s.pending
        pending == IF e.ev = "SEND" THEN Push(kept, e.data) ELSE kept
    IN  IF pending = <<>>
        THEN /\ slots' = [slots EXCEPT ![e.i] = [Become(s, "READY") EXCEPT !.pending = <<>>]]
             /\ queue' = rest
             /\ Loop /\ UNCHANGED <<lib, handles>>
        ELSE \E sends \in BOOLEAN :
                LET fails == ~sends \/ ~lib[e.i].made
                IN  /\ slots' = [slots EXCEPT ![e.i] =
                                   [s EXCEPT !.status = "SENDING", !.cpt = 0,
                                             !.pending = Tail(pending), !.given = Head(pending)]]
                    /\ lib' = IF fails THEN lib ELSE [lib EXCEPT ![e.i].sends = @ + 1]
                    /\ queue' = PushIf(rest, fails, Event("SENT_ERROR", e.i, 0))
                    /\ Loop /\ UNCHANGED handles

\* Fault: the message is put before those that wait.
FaultyPubBck(e, rest) ==
    /\ slots' = [slots EXCEPT ![e.i].pending = <<e.data>> \o @]
    /\ queue' = rest
    /\ Loop /\ UNCHANGED <<lib, handles>>

cbPubBck(e, rest) ==
    /\ slots' = [slots EXCEPT ![e.i].pending = Push(@, e.data)]
    /\ queue' = rest
    /\ Loop /\ UNCHANGED <<lib, handles>>

\* Which callback the contexts' table has for an event in a status.
tabFsmMqttClient(status, ev) ==
    CASE ev = "CONNECT" /\ status \in {"RESERVED", "WAITING_FOR_RETRY"} -> "cbConnReq"
      [] ev = "CONN_LOST" /\ status \in {"CONNECTING", "SUBSCRIBING", "READY", "SENDING"} -> "cbConnReq"
      [] ev = "DISCONNECT" /\ status \in {"CONNECTING", "WAITING_FOR_RETRY", "SUBSCRIBING",
                                          "READY", "SENDING"} -> "cbDiscReq"
      [] ev = "SUB_ERROR" /\ status = "SUBSCRIBING" -> "cbDiscReq"
      [] ev = "DISCONNECTED" /\ status = "DISCONNECTING" -> "cbConnClr"
      [] ev = "CONNECTED" /\ status = "CONNECTING" -> "cbSubReq"
      [] ev = "CONN_ERR" /\ status = "CONNECTING" -> "cbConnTry"
      [] ev = "SUB_SUCCESS" /\ status = "SUBSCRIBING" -> "cbSubRdy"
      [] ev = "SEND" /\ status = "READY" -> "cbPubReq"
      [] ev = "SEND" /\ status = "SENDING" -> "cbPubBck"
      [] ev \in {"SENT_SUCCESS", "SENT_ERROR"} /\ status = "SENDING" -> "cbPubReq"
      [] ev = "MESS_RECEIVED" /\ status \in {"READY", "SENDING"} -> "cbMsgRcv"
      [] OTHER -> "NULL"

ContextStep(e, rest) ==
    LET cb == tabFsmMqttClient(slots[e.i].status, e.ev)
    IN  \/ cb = "cbConnReq" /\ cbConnReq(e, rest)
        \/ cb = "cbDiscReq" /\ cbDiscReq(e, rest)
        \/ cb = "cbConnClr" /\ cbConnClr(e, rest)
        \/ cb = "cbSubReq" /\ cbSubReq(e, rest)
        \/ cb = "cbConnTry" /\ cbConnTry(e, rest)
        \/ cb = "cbSubRdy" /\ cbSubRdy(e, rest)
        \/ cb = "cbPubReq" /\ cbPubReq(e, rest)
        \/ cb = "cbPubBck" /\ cbPubBck(e, rest)
        \/ cb = "cbMsgRcv" /\ cbMsgRcv(e, rest)
        \/ cb = "NULL" /\ queue' = rest /\ Loop /\ UNCHANGED <<slots, lib, handles>>
-----------------------------------------------------------------------------
(* The manager's thread.                                                       *)

Running == mgr.status \in {"RUNNING", "STOPPING"}

HandleEvent ==
    /\ Running /\ mgr.posting = 0
    /\ queue # <<>>
    /\ LET e == Head(queue)
       IN  IF e.ev \in ManagerEvents THEN ManagerStep(e, Tail(queue)) ELSE ContextStep(e, Tail(queue))

\* cbTmo, and cbTick for every context: a timeout is noticed when the counter
\* equals its limit, so once; past the limit the counter is not followed.
Ticked(s) == IF s.status \in Transient /\ s.cpt < Limit THEN [s EXCEPT !.cpt = @ + 1] ELSE s
TimesOut(s) == s.status \in Transient /\ s.cpt + 1 = Limit

Tick ==
    LET told[i \in 0..MaxContexts] ==
            IF i = 0 THEN queue
            ELSE PushIf(told[i - 1], TimesOut(slots[i]),
                        Event(TimeoutEvent(slots[i].status), i, FALSE))
        stops == mgr.status = "STOPPING" /\ mgr.cpt + 1 = StopLimit
    IN  /\ Running /\ mgr.posting = 0
        /\ queue = <<>> \/ ~mgr.ticked
        /\ mgr' = [mgr EXCEPT !.ticked = TRUE, !.status = IF stops THEN "STOPPED" ELSE @,
                              !.cpt = IF mgr.status = "STOPPING" /\ ~stops THEN @ + 1 ELSE 0]
        /\ slots' = [i \in Slots |-> Ticked(slots[i])]
        /\ queue' = told[MaxContexts]
        /\ UNCHANGED <<lib, handles>>
-----------------------------------------------------------------------------
(* The MQTT library, external.  It answers a request at most once, loses the   *)
(* connection at any time, and is silent about a client once destroyed.        *)

Room == Len(queue) < MaxInFlight /\ Running

LibCall(i, client, ev, data) ==
    /\ Room
    /\ lib' = [lib EXCEPT ![i] = client]
    /\ queue' = Push(queue, Event(ev, i, data))
    /\ UNCHANGED <<mgr, slots, handles>>

Answered(i, op) == [lib[i] EXCEPT !.ops = @ \ {op}]

OnConnect(i) ==
    "connect" \in lib[i].ops /\ LibCall(i, [Answered(i, "connect") EXCEPT !.up = TRUE], "CONNECTED", 0)
OnConnectFailure(i) ==
    "connect" \in lib[i].ops /\ LibCall(i, Answered(i, "connect"), "CONN_ERR", 0)
OnConnLost(i) == lib[i].up /\ LibCall(i, [lib[i] EXCEPT !.up = FALSE], "CONN_LOST", 0)
OnSubscribe(i) ==
    lib[i].up /\ "subscribe" \in lib[i].ops /\ LibCall(i, Answered(i, "subscribe"), "SUB_SUCCESS", 0)
OnSubscribeFailure(i) ==
    "subscribe" \in lib[i].ops /\ LibCall(i, Answered(i, "subscribe"), "SUB_ERROR", 0)
OnDisconnect(i) ==
    "disconnect" \in lib[i].ops
    /\ LibCall(i, [Answered(i, "disconnect") EXCEPT !.up = FALSE], "DISCONNECTED", 0)
OnSend(i) ==
    lib[i].up /\ lib[i].sends > 0 /\ LibCall(i, [lib[i] EXCEPT !.sends = @ - 1], "SENT_SUCCESS", 0)
OnSendFailure(i) ==
    lib[i].sends > 0 /\ LibCall(i, [lib[i] EXCEPT !.sends = @ - 1], "SENT_ERROR", 0)
OnMsgRcv(i) == lib[i].up /\ LibCall(i, lib[i], "MESS_RECEIVED", 0)

Library ==
    \E i \in Slots :
       \/ OnConnect(i) \/ OnConnectFailure(i) \/ OnConnLost(i)
       \/ OnSubscribe(i) \/ OnSubscribeFailure(i)
       \/ OnSend(i) \/ OnSendFailure(i) \/ OnMsgRcv(i) \/ OnDisconnect(i)
-----------------------------------------------------------------------------
(* The calls of the application.                                               *)

Waits(h) == handles[h].call \in {"getting", "releasing"}
MayCall(h) ==
    /\ mgr.status # "NONE" /\ ~mgr.destroying
    /\ ~Waits(h)
    /\ OneThread => \A g \in Handles : ~Waits(g)

Update(h, hd) == handles' = [handles EXCEPT ![h] = hd]

SOPC_MQTT_TRANSPORT_SYNCH_GetHandle(h) ==
    LET new == NoHandle(1 - handles[h].gen)
    IN  /\ MayCall(h) /\ handles[h].call = "none"
        /\ queue' = Push(queue, Event("NEW_HANDLE", 0, h))
        /\ Update(h, IF Len(queue) < MaxEvents THEN [new EXCEPT !.call = "getting"] ELSE new)
        /\ UNCHANGED <<mgr, slots, lib>>

\* GetHandle goes on when it was signalled: without identifier the handle is freed.
GetHandleReturns(h) ==
    /\ handles[h].call = "getting" /\ handles[h].woken
    /\ Update(h, IF handles[h].transportId = 0 THEN NoHandle(handles[h].gen)
                 ELSE [handles[h] EXCEPT !.call = "held", !.woken = FALSE])
    /\ UNCHANGED <<mgr, slots, lib, queue>>

\* A handle whose context is gone is freed at once.
SOPC_MQTT_TRANSPORT_SYNCH_ReleaseHandle(h) ==
    LET asks == handles[h].transportId # 0
    IN  /\ MayCall(h) /\ handles[h].call = "held"
        /\ queue' = PushIf(queue, asks, Event("DEL_HDL", handles[h].transportId, 0))
        /\ Update(h, IF asks /\ Len(queue) < MaxEvents
                     THEN [handles[h] EXCEPT !.call = "releasing"] ELSE NoHandle(handles[h].gen))
        /\ UNCHANGED <<mgr, slots, lib>>

ReleaseHandleReturns(h) ==
    /\ handles[h].call = "releasing" /\ handles[h].woken
    /\ Update(h, NoHandle(handles[h].gen))
    /\ UNCHANGED <<mgr, slots, lib, queue>>

\* The message is accepted when the handle is ready, perhaps after a wait.
SOPC_MQTT_TRANSPORT_SYNCH_SendMessage(h) ==
    /\ MayCall(h) /\ handles[h].call = "held"
    /\ handles[h].transportId # 0 /\ handles[h].bReady
    /\ handles[h].sent < MaxMessages /\ Len(queue) < MaxInFlight
    /\ queue' = Push(queue, Event("SND", handles[h].transportId, handles[h].sent + 1))
    /\ Update(h, [handles[h] EXCEPT !.sent = @ + 1])
    /\ UNCHANGED <<mgr, slots, lib>>

SOPC_MQTT_TRANSPORT_SYNCH_ReadMessage(h) ==
    /\ MayCall(h) /\ handles[h].call = "held"
    /\ handles[h].transportId # 0 /\ handles[h].inbox # <<>>
    /\ Update(h, [handles[h] EXCEPT !.inbox = Tail(@)])
    /\ UNCHANGED <<mgr, slots, lib, queue>>

\* SOPC_MQTT_MGR_Clear asks the thread to quit and waits for its end.
SOPC_MQTT_MGR_Destroy ==
    /\ mgr.status = "RUNNING" /\ ~mgr.destroying /\ \A h \in Handles : ~Waits(h)
    /\ queue' = Push(queue, Event("QUIT", 0, 0))
    /\ mgr' = [mgr EXCEPT !.destroying = TRUE,
                          !.status = IF Len(queue) < MaxEvents THEN @ ELSE "STOPPED"]
    /\ UNCHANGED <<slots, lib, handles>>

\* The handles that were held are of no use any more.
DestroyReturns ==
    /\ mgr.destroying /\ mgr.status = "STOPPED"
    /\ mgr' = [Fresh EXCEPT !.status = "NONE"]
    /\ slots' = [i \in Slots |-> Unused]
    /\ lib' = [i \in Slots |-> NoClient]
    /\ queue' = <<>>
    /\ handles' = [h \in Handles |-> NoHandle(handles[h].gen)]

SOPC_MQTT_MGR_Create ==
    /\ mgr.status = "NONE"
    /\ mgr' = Fresh
    /\ UNCHANGED <<slots, lib, queue, handles>>

Application ==
    \/ \E h \in Handles :
          \/ SOPC_MQTT_TRANSPORT_SYNCH_GetHandle(h) \/ SOPC_MQTT_TRANSPORT_SYNCH_ReleaseHandle(h)
          \/ SOPC_MQTT_TRANSPORT_SYNCH_SendMessage(h) \/ SOPC_MQTT_TRANSPORT_SYNCH_ReadMessage(h)
    \/ SOPC_MQTT_MGR_Create \/ SOPC_MQTT_MGR_Destroy

\* A thread that was woken, or that waits for the end of the manager's, goes on.
Returns ==
    \/ \E h \in Handles : GetHandleReturns(h) \/ ReleaseHandleReturns(h)
    \/ DestroyReturns

Next == HandleEvent \/ PostConnect \/ Tick \/ Library \/ Application \/ Returns

\* The thread of the manager keeps running and time passes; neither the library nor
\* the application has to do anything.
Spec ==
    /\ Init /\ [][Next]_vars
    /\ WF_vars(HandleEvent \/ PostConnect) /\ WF_vars(Tick) /\ WF_vars(Returns)
-----------------------------------------------------------------------------
QueuedFor(i, evs) == \E k \in DOMAIN queue : queue[k].ev \in evs /\ queue[k].i = i

TypeOK ==
    /\ mgr \in [status : {"NONE", "RUNNING", "STOPPING", "STOPPED"}, nb : 0..MaxContexts,
                cpt : 0..StopLimit, posting : 0..MaxContexts, ticked : BOOLEAN,
                destroying : BOOLEAN]
    /\ Len(queue) <= MaxEvents
    /\ \A i \in Slots :
         /\ slots[i].status \in Transient \cup {"NOT_INITIALIZED", "RESERVED", "READY"}
         /\ slots[i].cpt \in 0..Limit /\ slots[i].retry \in 0..MaxRetries
         /\ Len(slots[i].pending) <= MaxEvents /\ slots[i].given \in 0..MaxMessages
         /\ lib[i].ops \subseteq {"connect", "subscribe", "disconnect"}
    /\ \A h \in Handles :
         /\ handles[h].call \in {"none", "getting", "held", "releasing"}
         /\ handles[h].transportId \in 0..MaxContexts /\ Len(handles[h].inbox) <= MaxInbox

\* Every variable has its type, and a handle that thinks its connection ready is
\* right, or the news that it is not is under way: bReady is never stale for good.
ReadyOrTold ==
    /\ TypeOK
    /\ \A h \in Handles : handles[h].bReady =>
          LET i == handles[h].transportId
          IN  \/ slots[i].status \in {"READY", "SENDING"}
              \/ QueuedFor(i, {"CLT_NRDY", "CLT_RMV"})

\* The callbacks of a context never reach a handle that was freed.
FreedHandleNotCalled ==
    \A i \in Slots : slots[i].owner # Nobody =>
       /\ slots[i].owner = Owner(slots[i].owner.h)
       /\ handles[slots[i].owner.h].call # "none"

\* The library is given the messages of a handle in the order they were accepted
\* and each at most once, also over a reconnection: those that wait follow the
\* last one given, and each other.
SentInOrder ==
    \A i \in Slots :
       LET messages == <<slots[i].given>> \o slots[i].pending
       IN  \A k \in 1 .. Len(messages) - 1 : messages[k] < messages[k + 1]

\* A call that waits for the manager returns: GetHandle and ReleaseHandle when the
\* manager has called back, whatever the library does, and SOPC_MQTT_MGR_Destroy when
\* the thread has ended (a handle's call and the end exclude each other).
CallReturns ==
    \A h \in Handles : (Waits(h) \/ mgr.destroying) ~> ~(Waits(h) \/ mgr.destroying)

\* A transient status whose timeout was noticed ends, or starts anew (the next
\* message is sent), although the timeout is noticed once only and the event it posts
\* does nothing when another one comes before it.
TransientEnds ==
    \A i \in Slots :
       slots[i].status \in Transient /\ slots[i].cpt = Limit ~> slots[i].cpt < Limit

\* ``the returned handle, 1 by new broker connection''.
OneHandlePerConnection ==
    \A g, h \in Handles : g # h /\ handles[g].transportId # 0
                              => handles[g].transportId # handles[h].transportId
=============================================================================
