---------------------------- MODULE ClientWrapper ----------------------------
(***************************************************************************)
(* The client wrapper (src/ClientServer/frontend/client_wrapper): the      *)
(* state machine of a connection (state_machine.c), the calls of the       *)
(* application that wait for it (libs2opc_client_common.c) and the         *)
(* synchronous requests built on them (libs2opc_client_cmds.c).            *)
(*                                                                         *)
(* Two kinds of threads meet here.  An application thread makes a call,    *)
(* holds the mutex of the library until it sleeps, and looks at the state  *)
(* machine each time it wakes up.  The thread of the toolkit dispatches    *)
(* the application events one by one, under the same mutex.  An action is  *)
(* what one of them does between taking and releasing that mutex.          *)
(*                                                                         *)
(* The toolkit is external here.  What it may tell the application is what *)
(* ClientSessions shows of it: an activation is answered once, a session   *)
(* ends once, a request is answered at most once.                          *)
(***************************************************************************)
EXTENDS Integers, Sequences, FiniteSets

CONSTANTS
    MaxClients,         \* connections created, and never used again
    MaxSessions,        \* session slots of the toolkit
    TokenTarget,        \* nTokenTarget: PublishRequests the server should have
    MaxSubscriptions,   \* subscriptions created by a connection
    MaxInFlight         \* events of the toolkit that wait

ASSUME ClientWrapperAssumption ==
    /\ MaxClients \in Nat \ {0} /\ MaxSessions \in Nat \ {0}
    /\ TokenTarget \in Nat /\ MaxSubscriptions \in Nat /\ MaxInFlight \in Nat

Clients == 1..MaxClients
Slots == 1..MaxSessions

RequestTypes == {"publish", "createSubscription", "createMonitoredItems",
                 "deleteSubscription", "user"}

VARIABLES
    library,    \* "running", "cleared", "asserted" when an assertion failed,
                \* "corrupted" when freed memory was used and the program stopped
    machine,    \* client -> its state machine, as long as it is in pListClient
    call,       \* client -> the call an application thread is in, or "none"
    finished,   \* client -> the context of its synchronous request was filled
    known,      \* client -> what Connect returned: "none", "ok", "failed"
    told,       \* client -> number of times its disconnection was told
    expired,    \* client -> a call gave up, or a request of the application failed
    session,    \* client -> the toolkit's session: its state and slot, and
                \* whether the server has items to report for it
    out,        \* client -> its requests that the toolkit did not answer yet
    toApp       \* the events of the toolkit for the application

vars == <<library, machine, call, finished, known, told, expired, session, out, toApp>>

NoRequest == [t \in RequestTypes |-> 0]

\* `requests' counts the contexts of pListReqCtx; `item' tells whether
\* pListMonIt holds the context of the last CreateMonitoredItem, `created'
\* counts subscriptions for the bound.
NoMachine ==
    [state |-> "none", iSessionID |-> 0, subscription |-> FALSE, nTokenUsable |-> 0,
     bAckSubscr |-> FALSE, requests |-> NoRequest, item |-> FALSE, inhibit |-> TRUE,
     created |-> 0]

SOPC_StaMac_Create == [NoMachine EXCEPT !.state = "stInit"]

Init ==
    /\ library = "running"
    /\ machine = [c \in Clients |-> NoMachine]
    /\ call = [c \in Clients |-> "none"]
    /\ finished = [c \in Clients |-> FALSE]
    /\ known = [c \in Clients |-> "none"]
    /\ told = [c \in Clients |-> 0]
    /\ expired = [c \in Clients |-> FALSE]
    /\ session = [c \in Clients |-> [st |-> "none", slot |-> 0, items |-> FALSE]]
    /\ out = [c \in Clients |-> NoRequest]
    /\ toApp = <<>>
-----------------------------------------------------------------------------
(* The state machine.  Its operations work on a record: the machine `m',   *)
(* whether it asked the toolkit to close its session, the requests it      *)
(* sent, and whether an assertion failed.                                  *)

At(m) == [m |-> m, close |-> FALSE, sent |-> NoRequest, aborted |-> FALSE]

SOPC_StaMac_IsConnected(m) ==
    m.state \in {"stActivated", "stCreatingSubscr", "stCreatingMonIt", "stDeletingSubscr",
                 "stClosing"}

SOPC_StaMac_IsError(m) == m.state = "stError"

SOPC_StaMac_SetError(m) == [m EXCEPT !.state = "stError"]

\* Both callers know that the machine is connected.
SOPC_StaMac_StopSession(w) == [w EXCEPT !.m.state = "stClosing", !.close = TRUE]

\* The context joins pListReqCtx and the request goes to the toolkit.
SOPC_StaMac_SendRequest(w, type, n) ==
    [w EXCEPT !.m.requests[type] = @ + n, !.sent[type] = @ + n]

SOPC_StaMac_CreateSubscription(m) ==
    [SOPC_StaMac_SendRequest(At(m), "createSubscription", 1)
       EXCEPT !.m.state = "stCreatingSubscr", !.m.created = @ + 1]

SOPC_StaMac_DeleteSubscription(m) ==
    [SOPC_StaMac_SendRequest(At(m), "deleteSubscription", 1) EXCEPT !.m.state = "stDeletingSubscr"]

\* The context of the call is a new one.
SOPC_StaMac_CreateMonitoredItem(m) ==
    [SOPC_StaMac_SendRequest(At(m), "createMonitoredItems", 1)
       EXCEPT !.m.state = "stCreatingMonIt", !.m.item = FALSE]

\* What the machine does not expect in its state puts it in error; a fault is
\* always looked at, a failure to send only if it is a PublishRequest's timeout.
GiveAuthorization(m, e) ==
    CASE e.ev = "SE_ACTIVATED_SESSION" -> m.state = "stActivating"
      [] e.ev = "SE_CLOSED_SESSION" -> m.state = "stClosing"
      [] e.ev = "response" ->
            \/ e.type = "publish" /\ m.state \in {"stActivated", "stCreatingMonIt", "stDeletingSubscr"}
            \/ e.type = "createSubscription" /\ m.state = "stCreatingSubscr"
            \/ e.type = "createMonitoredItems" /\ m.state = "stCreatingMonIt"
            \/ e.type = "deleteSubscription" /\ m.state = "stDeletingSubscr"
      [] e.ev = "fault" -> TRUE
      [] e.ev = "timeout" -> e.type = "publish"
      [] OTHER -> FALSE

LessOneToken(m) == [m EXCEPT !.nTokenUsable = IF @ > 0 THEN @ - 1 ELSE 0]

\* `good' tells whether the response names a sequence number to acknowledge.
StaMac_ProcessMsg_PublishResponse(w, good) ==
    IF ~w.m.subscription THEN w
    ELSE IF w.m.bAckSubscr THEN [w EXCEPT !.aborted = TRUE]
    ELSE [w EXCEPT !.m = [LessOneToken(@) EXCEPT !.bAckSubscr = good]]

StaMac_ProcessMsg_CreateSubscriptionResponse(w) ==
    IF w.m.subscription THEN [w EXCEPT !.aborted = TRUE]
    ELSE [w EXCEPT !.m.subscription = TRUE, !.m.state = "stActivated"]

\* The results of the deletion do not matter: the state is set after they are
\* looked at.
StaMac_ProcessMsg_DeleteSubscriptionResponse(w) ==
    IF ~w.m.subscription THEN [w EXCEPT !.aborted = TRUE]
    ELSE [w EXCEPT !.m.subscription = FALSE, !.m.nTokenUsable = 0, !.m.bAckSubscr = FALSE,
                   !.m.item = FALSE, !.m.state = "stActivated"]

\* `good' tells whether an item was created; the context of the caller is used.
StaMac_ProcessMsg_CreateMonitoredItemsResponse(w, good) ==
    [w EXCEPT !.m.item = @ \/ good, !.m.state = "stActivated"]

\* The context of the request was freed before its type is read: any type may
\* be found in it.
StaMac_ProcessMsg_ServiceFault(w, type) ==
    IF type = "publish" THEN [w EXCEPT !.m = LessOneToken(@)]
    ELSE [w EXCEPT !.m.state = "stError"]

\* Only the timeout of a PublishRequest is authorized.
StaMac_ProcessEvent_SendRequestFailed(w) == [w EXCEPT !.m = LessOneToken(@)]

ProcessEvent(w, e, type) ==
    CASE e.ev = "SE_ACTIVATED_SESSION" ->
            [w EXCEPT !.m.state = "stActivated", !.m.iSessionID = session[e.client].slot]
      [] e.ev = "SE_CLOSED_SESSION" -> [w EXCEPT !.m.state = "stError"]
      [] e.ev = "response" /\ e.type = "publish" ->
            StaMac_ProcessMsg_PublishResponse(w, e.good)
      [] e.ev = "response" /\ e.type = "createSubscription" ->
            StaMac_ProcessMsg_CreateSubscriptionResponse(w)
      [] e.ev = "response" /\ e.type = "createMonitoredItems" ->
            StaMac_ProcessMsg_CreateMonitoredItemsResponse(w, e.good)
      [] e.ev = "response" /\ e.type = "deleteSubscription" ->
            StaMac_ProcessMsg_DeleteSubscriptionResponse(w)
      [] e.ev = "fault" -> StaMac_ProcessMsg_ServiceFault(w, type)
      [] e.ev = "timeout" -> StaMac_ProcessEvent_SendRequestFailed(w)

\* Fault: an error does not close the session.
MutPostProcess(w, old) ==
    LET missing == TokenTarget - w.m.nTokenUsable
    IN  IF w.m.state = "stActivated" /\ w.m.subscription /\ missing > 0
        THEN [SOPC_StaMac_SendRequest(w, "publish", missing)
                EXCEPT !.m.nTokenUsable = TokenTarget, !.m.bAckSubscr = FALSE]
        ELSE w

\* Fault: one PublishRequest is sent, however many are missing.
MutPostProcessOne(w, old) ==
    LET missing == TokenTarget - w.m.nTokenUsable
        before == [w EXCEPT !.m.state = old]
    IN  IF w.m.state = "stActivated" /\ w.m.subscription /\ missing > 0
        THEN [SOPC_StaMac_SendRequest(w, "publish", 1)
                EXCEPT !.m.nTokenUsable = @ + 1, !.m.bAckSubscr = FALSE]
        ELSE IF SOPC_StaMac_IsError(w.m) /\ old \notin {"stError", "stClosing"}
                /\ SOPC_StaMac_IsConnected(before.m)
        THEN SOPC_StaMac_StopSession(before)
        ELSE w

\* The tokens that miss are sent; an error closes the session that was connected.
StaMac_PostProcessActions(w, old) ==
    LET missing == TokenTarget - w.m.nTokenUsable
        before == [w EXCEPT !.m.state = old]
    IN  IF w.m.state = "stActivated" /\ w.m.subscription /\ missing > 0
        THEN [SOPC_StaMac_SendRequest(w, "publish", missing)
                EXCEPT !.m.nTokenUsable = TokenTarget, !.m.bAckSubscr = FALSE]
        ELSE IF SOPC_StaMac_IsError(w.m) /\ old \notin {"stError", "stClosing"}
                /\ SOPC_StaMac_IsConnected(before.m)
        THEN SOPC_StaMac_StopSession(before)
        ELSE w

\* Session events name the machine by its session context, the others by the
\* context of the request, which leaves pListReqCtx.
Targeted(m, e) == m.state # "none" /\ (e.type = "none" \/ m.requests[e.type] > 0)

SOPC_StaMac_EventDispatcher(m, e, type) ==
    LET w == IF e.type = "none" THEN At(m) ELSE At([m EXCEPT !.requests[e.type] = @ - 1])
        done == IF e.type = "user"
                THEN IF e.ev \in {"timeout", "failed"} THEN [w EXCEPT !.m.state = "stClosing"] ELSE w
                ELSE IF GiveAuthorization(m, e) THEN ProcessEvent(w, e, type)
                ELSE [w EXCEPT !.m.state = "stError"]
    IN  IF done.aborted THEN done ELSE StaMac_PostProcessActions(done, m.state)
-----------------------------------------------------------------------------
(* The toolkit, as the wrapper sees it.                                    *)

Live(s) == s.st \notin {"none", "closed"}

Event(ev, c, type, good) == [ev |-> ev, client |-> c, type |-> type, good |-> good]

Post(e) ==
    /\ Len(toApp) < MaxInFlight
    /\ toApp' = Append(toApp, e)

\* SOPC_ToolkitClient_AsyncCloseSession names a slot, whoever has it now; a
\* session that is not activated is dropped.
AsyncCloseSession(slot) ==
    [c \in Clients |->
        IF session[c].slot # slot THEN session[c]
        ELSE CASE session[c].st = "active" -> [session[c] EXCEPT !.st = "closing"]
               [] session[c].st \in {"asked", "reactivating"} -> [session[c] EXCEPT !.st = "dropped"]
               [] OTHER -> session[c]]

\* What a step of the machine of c asked of the toolkit.
Asked(c, w) ==
    /\ session' = IF w.close THEN AsyncCloseSession(w.m.iSessionID) ELSE session
    /\ out' = [out EXCEPT ![c] = [t \in RequestTypes |-> @[t] + w.sent[t]]]

ToolkitUnchanged == UNCHANGED <<library, machine, call, finished, known, told, expired>>

\* A session is activated, its activation fails, it is lost and activated
\* again, or it ends.
SessionStep(c, st, ev) ==
    /\ library = "running"
    /\ session' = [session EXCEPT ![c].st = st]
    /\ Post(Event(ev, c, "none", FALSE))
    /\ UNCHANGED out
    /\ ToolkitUnchanged

SessionActivated(c) ==
    session[c].st \in {"asked", "reactivating"} /\ SessionStep(c, "active", "SE_ACTIVATED_SESSION")
SessionActivationFails(c) ==
    /\ session[c].st \in {"asked", "reactivating", "dropped"}
    /\ SessionStep(c, "closed", "SE_SESSION_ACTIVATION_FAILURE")
SessionLost(c) ==
    session[c].st = "active" /\ SessionStep(c, "reactivating", "SE_SESSION_REACTIVATING")
SessionClosed(c) ==
    session[c].st \in {"active", "closing"} /\ SessionStep(c, "closed", "SE_CLOSED_SESSION")

\* A request is answered: a response, a service fault, a timeout or another
\* failure to send it.  Only a session that lives receives the first two, and
\* without items the server has no sequence number to be acknowledged.
Answer(c, type, ev, good) ==
    /\ library = "running"
    /\ out[c][type] > 0
    /\ ev \in {"response", "fault"} => session[c].st \in {"active", "closing"}
    /\ good => /\ ev = "response" /\ type \in {"publish", "createMonitoredItems"}
               /\ type = "publish" => session[c].items
    /\ out' = [out EXCEPT ![c][type] = @ - 1]
    /\ Post(Event(ev, c, type, good))
    /\ session' = [session EXCEPT ![c].items =
                     IF ev = "response" /\ type = "deleteSubscription" THEN FALSE
                     ELSE @ \/ (good /\ type = "createMonitoredItems")]
    /\ ToolkitUnchanged
-----------------------------------------------------------------------------
(* The event callback.                                                     *)

\* Whether the context of a synchronous request is filled: neither a failure nor
\* a ServiceFault is a response the callback knows.
SOPC_ClientHelper_GenericCallback(e) == e.type = "user" /\ e.ev = "response"

\* An event without machine is dropped, after the context of a failed request,
\* which went with the machine, is freed once more.  The disconnection is told
\* unless Connect still waits.  A response fills the context of the caller,
\* which is freed if the caller gave up.
ToolkitEventCallback(type) ==
    LET e == Head(toApp)
        c == e.client
        w == SOPC_StaMac_EventDispatcher(machine[c], e, type)
        filled == SOPC_ClientHelper_GenericCallback(e)
        over == e.ev \in {"SE_CLOSED_SESSION", "SE_SESSION_ACTIVATION_FAILURE"}
    IN  /\ library = "running"
        /\ toApp # <<>>
        /\ toApp' = Tail(toApp)
        /\ type # "none" <=> e.ev = "fault"
        /\ IF ~Targeted(machine[c], e)
           THEN /\ library' \in IF e.ev \in {"timeout", "failed"} THEN {library, "corrupted"} ELSE {library}
                /\ UNCHANGED <<machine, finished, told, expired, session, out>>
           ELSE /\ library' \in IF w.aborted THEN {"asserted"}
                               ELSE IF filled /\ call[c] # "Read" THEN {library, "corrupted"}
                               ELSE {library}
                /\ machine' = [machine EXCEPT ![c] = w.m]
                /\ told' = [told EXCEPT ![c] = IF over /\ ~w.m.inhibit THEN @ + 1 ELSE @]
                /\ finished' = [finished EXCEPT ![c] = @ \/ filled]
                /\ expired' = [expired EXCEPT ![c] =
                                 @ \/ (e.type = "user" /\ e.ev \in {"timeout", "failed"})]
                /\ Asked(c, w)
        /\ UNCHANGED <<call, known>>
-----------------------------------------------------------------------------
(* The calls of the application.  A thread enters a call, sleeps, and      *)
(* wakes up to find that what it waits for happened, that the machine is   *)
(* in error, or that its time is over (`late').                            *)

Enters(c, name) ==
    /\ library = "running"
    /\ call[c] = "none"
    /\ call' = [call EXCEPT ![c] = name]

Ready(c) == known[c] = "ok" /\ machine[c].state # "none"

\* The machine of c does w, in a call that waits for its result.
Starts(c, name, w) ==
    /\ Enters(c, name)
    /\ machine' = [machine EXCEPT ![c] = w.m]
    /\ Asked(c, w)
    /\ UNCHANGED <<library, known, told, expired, toApp>>

FreeSlots == Slots \ {session[c].slot : c \in {d \in Clients : Live(session[d])}}

\* Without a free slot the activation fails.
SOPC_StaMac_StartSession(c) ==
    IF FreeSlots = {}
    THEN /\ session' = [session EXCEPT ![c] = [@ EXCEPT !.st = "closed"]]
         /\ Post(Event("SE_SESSION_ACTIVATION_FAILURE", c, "none", FALSE))
    ELSE /\ session' = [session EXCEPT ![c] =
                           [@ EXCEPT !.st = "asked",
                                     !.slot = CHOOSE s \in FreeSlots : \A t \in FreeSlots : s >= t]]
         /\ UNCHANGED toApp

\* Fault: the disconnection is told as soon as the machine exists.
MutConnect(c) ==
    /\ Enters(c, "Connect")
    /\ known[c] = "none" /\ \A d \in 1 .. c - 1 : call[d] # "none" \/ known[d] # "none"
    /\ machine' = [machine EXCEPT ![c] = [NoMachine EXCEPT !.state = "stActivating", !.inhibit = FALSE]]
    /\ SOPC_StaMac_StartSession(c)
    /\ UNCHANGED <<library, finished, known, told, expired, out>>

\* Identifiers are given in order.
SOPC_ClientCommon_Connect(c) ==
    /\ Enters(c, "Connect")
    /\ known[c] = "none" /\ \A d \in 1 .. c - 1 : call[d] # "none" \/ known[d] # "none"
    /\ machine' = [machine EXCEPT ![c] = [SOPC_StaMac_Create EXCEPT !.state = "stActivating"]]
    /\ SOPC_StaMac_StartSession(c)
    /\ UNCHANGED <<library, finished, known, told, expired, out>>

SOPC_ClientCommon_CreateSubscription(c) ==
    /\ Ready(c)
    /\ ~machine[c].subscription /\ machine[c].state = "stActivated"
    /\ machine[c].created < MaxSubscriptions
    /\ Starts(c, "CreateSubscription", SOPC_StaMac_CreateSubscription(machine[c]))
    /\ UNCHANGED finished

SOPC_ClientCommon_DeleteSubscription(c) ==
    /\ Ready(c)
    /\ machine[c].subscription /\ machine[c].state = "stActivated"
    /\ Starts(c, "DeleteSubscription", SOPC_StaMac_DeleteSubscription(machine[c]))
    /\ UNCHANGED finished

SOPC_ClientCommon_AddToSubscription(c) ==
    /\ Ready(c)
    /\ machine[c].subscription /\ machine[c].state = "stActivated"
    /\ Starts(c, "AddToSubscription", SOPC_StaMac_CreateMonitoredItem(machine[c]))
    /\ UNCHANGED finished

SOPC_ClientCommon_AsyncSendRequestOnSession(c) ==
    /\ Ready(c)
    /\ SOPC_StaMac_IsConnected(machine[c])
    /\ Starts(c, "Read", SOPC_StaMac_SendRequest(At(machine[c]), "user", 1))

\* The requests of libs2opc_client_cmds.c (Read, Write, Browse, CallMethod): the
\* caller frees the context when it returns.  One request at a time.
SOPC_ClientHelper_Read(c) ==
    /\ machine[c].requests["user"] = 0
    /\ SOPC_ClientCommon_AsyncSendRequestOnSession(c)
    /\ finished' = [finished EXCEPT ![c] = FALSE]

SOPC_ClientCommon_Disconnect(c) ==
    /\ Ready(c)
    /\ SOPC_StaMac_IsConnected(machine[c])
    /\ Starts(c, "Disconnect", SOPC_StaMac_StopSession(At(machine[c])))
    /\ UNCHANGED finished

\* The event callback is inhibited, every channel is closed, every machine
\* deleted.  No other call may be in progress.
SOPC_ClientCommon_Clear ==
    /\ library = "running"
    /\ \A c \in Clients : call[c] = "none"
    /\ library' = "cleared"
    /\ machine' = [c \in Clients |-> NoMachine]
    /\ session' = [c \in Clients |-> [session[c] EXCEPT !.st = IF @ = "none" THEN @ ELSE "closed"]]
    /\ out' = [c \in Clients |-> NoRequest]
    /\ toApp' = <<>>
    /\ UNCHANGED <<call, finished, known, told, expired>>
-----------------------------------------------------------------------------
Returns(c, name) ==
    /\ library = "running"
    /\ call[c] = name
    /\ call' = [call EXCEPT ![c] = "none"]
    /\ UNCHANGED <<library, told, session, out, toApp>>

\* What is late is told so even if the connection was made meanwhile.
ConnectReturns(c, late) ==
    LET m == machine[c]
        ok == ~SOPC_StaMac_IsError(m) /\ ~late
    IN  /\ SOPC_StaMac_IsError(m) \/ SOPC_StaMac_IsConnected(m) \/ late
        /\ Returns(c, "Connect")
        /\ known' = [known EXCEPT ![c] = IF ok THEN "ok" ELSE "failed"]
        /\ machine' = [machine EXCEPT ![c] = IF ok THEN [@ EXCEPT !.inhibit = FALSE] ELSE NoMachine]
        /\ UNCHANGED <<finished, expired>>

\* What the three calls about subscriptions wait for.
Awaited(m, name) ==
    CASE name = "CreateSubscription" -> m.subscription
      [] name = "DeleteSubscription" -> ~m.subscription
      [] name = "AddToSubscription" -> m.item

\* Fault: the machine goes on after its caller gave up.
MutSubscriptionCallReturns(c, name, late) ==
    LET m == machine[c]
    IN  /\ SOPC_StaMac_IsError(m) \/ Awaited(m, name) \/ late
        /\ Returns(c, name)
        /\ UNCHANGED <<machine, known, finished, expired>>

\* A call that is late puts the machine in error and closes nothing.
SubscriptionCallReturns(c, name, late) ==
    LET m == machine[c]
        gaveUp == late /\ ~SOPC_StaMac_IsError(m)
    IN  /\ SOPC_StaMac_IsError(m) \/ Awaited(m, name) \/ late
        /\ Returns(c, name)
        /\ machine' = [machine EXCEPT ![c] = IF gaveUp THEN SOPC_StaMac_SetError(@) ELSE @]
        /\ expired' = [expired EXCEPT ![c] = @ \/ gaveUp]
        /\ UNCHANGED <<known, finished>>

\* The caller leaves when its context is filled, or when it waited as long as
\* the request may take; a failure of the request does not wake it up.
ReadReturns(c, late) ==
    /\ finished[c] \/ late
    /\ Returns(c, "Read")
    /\ UNCHANGED <<machine, known, finished, expired>>

\* The machine is deleted, whether or not the session is closed.
DisconnectReturns(c, late) ==
    /\ ~SOPC_StaMac_IsConnected(machine[c]) \/ late
    /\ Returns(c, "Disconnect")
    /\ machine' = [machine EXCEPT ![c] = NoMachine]
    /\ UNCHANGED <<known, finished, expired>>
-----------------------------------------------------------------------------
Toolkit ==
    \E c \in Clients :
       \/ SessionActivated(c) \/ SessionActivationFails(c) \/ SessionLost(c) \/ SessionClosed(c)
       \/ \E type \in RequestTypes, ev \in {"response", "fault", "timeout", "failed"},
             good \in BOOLEAN : Answer(c, type, ev, good)

Application ==
    \/ SOPC_ClientCommon_Clear
    \/ \E c \in Clients :
          \/ SOPC_ClientCommon_Connect(c) \/ SOPC_ClientCommon_Disconnect(c)
          \/ SOPC_ClientCommon_CreateSubscription(c) \/ SOPC_ClientCommon_DeleteSubscription(c)
          \/ SOPC_ClientCommon_AddToSubscription(c) \/ SOPC_ClientHelper_Read(c)
          \/ \E late \in BOOLEAN :
                \/ ConnectReturns(c, late) \/ DisconnectReturns(c, late) \/ ReadReturns(c, late)
                \/ \E name \in {"CreateSubscription", "DeleteSubscription", "AddToSubscription"} :
                      SubscriptionCallReturns(c, name, late)

Next ==
    \/ Toolkit
    \/ Application
    \/ \E type \in RequestTypes \cup {"none"} : ToolkitEventCallback(type)

Spec == Init /\ [][Next]_vars
-----------------------------------------------------------------------------
(* Properties.                                                             *)

\* A subscription of a connection that is not in error keeps its tokens: every
\* usable token is a PublishRequest that is not answered yet, and whenever the
\* machine is at rest the server has as many as the connection aims at
\* (StaMac_PostProcessActions, nTokenUsable).
TokensKept ==
    library = "running" => \A c \in Clients :
       LET m == machine[c]
       IN  m.subscription /\ SOPC_StaMac_IsConnected(m) /\ m.state # "stClosing" =>
              /\ m.nTokenUsable <= m.requests["publish"]
              /\ m.state = "stActivated" => m.nTokenUsable = TokenTarget

\* A machine waits for an answer only as long as the call that asked for it
\* does: the response to CreateMonitoredItems is written to the caller's
\* context, which is freed when the call returns (SOPC_StaMac_SetError).
AnswersHaveCallers ==
    \A c \in Clients :
       /\ machine[c].state = "stActivating" => call[c] = "Connect"
       /\ machine[c].state = "stCreatingSubscr" => call[c] = "CreateSubscription"
       /\ machine[c].state = "stDeletingSubscr" => call[c] = "DeleteSubscription"
       /\ machine[c].state = "stCreatingMonIt" => call[c] = "AddToSubscription"

\* The application is told at most once that a connection ended, and only of a
\* connection it was given (the inhibition of the callback in Connect).
DisconnectionToldOnce ==
    \A c \in Clients : told[c] <= 1 /\ (told[c] = 1 => known[c] = "ok")

\* A machine that is closing or in error does not leave its session open: unless
\* a call gave up or a request of the application failed, the session is being
\* closed, or the event that ends it is on its way (StaMac_PostProcessActions).
ErrorClosesSession ==
    \A c \in Clients :
       machine[c].state \in {"stClosing", "stError"} /\ ~expired[c] =>
          session[c].st \in {"closing", "dropped", "closed"}

\* Comment of Connect: the disconnection `shall still be called if connection
\* operation succeeded and then connection immediately fails before Connect
\* function returns'.
LossTold ==
    \A c \in Clients :
       /\ known[c] = "ok" /\ machine[c].state # "none" /\ session[c].st = "closed"
       /\ \A i \in DOMAIN toApp : toApp[i].client # c
       => told[c] = 1

\* The assertion of StaMac_ProcessMsg_PublishResponse: the previous response was
\* acknowledged before another one comes.
AssertionsHold == library # "asserted"
=============================================================================
