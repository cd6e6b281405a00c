--------------------------- MODULE SecureChannels ---------------------------
(***************************************************************************)
(* The secure channels looper: listener state manager, connection state    *)
(* manager and the control of the chunks manager                           *)
(* (src/ClientServer/secure_channels).  One thread treats one queue of     *)
(* events; a handler may enqueue at the tail or "as next", at the head.    *)
(* The sockets layer is what it promises (module Sockets holds the code):  *)
(* a socket connects or fails, carries messages, fails once.  Services     *)
(* are told of connections through notifications, counted here.            *)
(***************************************************************************)
EXTENDS Integers, Sequences, FiniteSets

CONSTANTS
    MaxConnections,      \* SOPC_MAX_SECURE_CONNECTIONS_PLUS_BUFFERED
    MaxListenerSlots,    \* SOPC_MAX_SOCKETS_CONNECTIONS
    MaxSockets,          \* bound: connection sockets of the abstract sockets layer
    MaxListenerSockets,  \* bound: listener sockets asked for and open
    Configs,             \* client secure channel configurations
    MaxTimers,           \* bound: timer identifiers
    MaxInFlight,         \* bound: queued events below which a peer may act
    Listens,             \* services open the endpoint
    ReuseSlots,          \* a slot may be taken again while its old events wait
    ResourceFails        \* keys, certificates or a timer may be missing

ASSUME SecureChannelsAssumption ==
    /\ MaxConnections \in Nat \ {0} /\ MaxListenerSlots \in Nat \ {0}
    /\ MaxSockets \in Nat /\ MaxListenerSockets \in Nat /\ MaxTimers \in Nat /\ MaxInFlight \in Nat
    /\ Listens \in BOOLEAN /\ ReuseSlots \in BOOLEAN /\ ResourceFails \in BOOLEAN
    /\ IsFiniteSet(Configs) /\ 0 \notin Configs

VARIABLES
    connections,   \* secureConnectionsArray
    lastIdx,       \* lastSecureConnectionArrayIdx
    listener,      \* secureListenersArray[ep], for one endpoint
    queue,         \* the looper's queue
    timers,        \* the timers of this layer alive in the timer manager
    sockets,       \* the sockets layer: phase and connection of each socket
    listening,     \* the sockets layer: creations asked for, listener sockets
    told,          \* services: connected minus disconnected, per connection
    awaited        \* services: SC_CONNECT not answered yet, per configuration

vars == <<connections, lastIdx, listener, queue, timers, sockets, listening,
          told, awaited>>

Connections == 1..MaxConnections
Sockets == 1..MaxSockets
Slots == 0..MaxListenerSlots - 1
Connected == {"SC_CONNECTED", "SC_CONNECTED_RENEW"}
Establishing == {"TCP_INIT", "TCP_NEGOTIATE", "SC_INIT", "SC_CONNECTING"}
\* What a peer may send; one of the other side's messages counts as INVALID.
Messages(toServer) ==
    {"OPN", "INVALID"} \cup (IF toServer THEN {"HEL", "CLO"} ELSE {"ACK", "ERR"})

Closed == [state |-> "SC_CLOSED", server |-> FALSE, config |-> 0, socket |-> 0,
           timer |-> 0, renew |-> 0]
ClosedListener ==
    [state |-> "CLOSED", socket |-> 0, used |-> [i \in Slots |-> 0], last |-> 0]
FreeSocket == [phase |-> "free", conn |-> 0]

Event(name, id, aux) == [name |-> name, id |-> id, aux |-> aux]

\* Events whose id is a connection index.
ConnectionEvents ==
    {"SC_DISCONNECT", "SC_SERVICE_SND_ERR", "SOCKET_CONNECTION", "SOCKET_FAILURE",
     "SOCKET_RCV_BYTES", "TIMER_SC_CONNECTION_TIMEOUT", "TIMER_SC_CLIENT_OPN_RENEW",
     "INT_EP_SC_CREATED", "INT_EP_SC_DISCONNECTED", "INT_EP_SC_CLOSE",
     "INT_SC_RCV_HEL", "INT_SC_RCV_ACK", "INT_SC_RCV_OPN", "INT_SC_RCV_CLO",
     "INT_SC_RCV_ERR", "INT_SC_RCV_FAILURE", "INT_SC_SND_HEL", "INT_SC_SND_ACK",
     "INT_SC_SND_OPN", "INT_SC_SND_ERR", "INT_SC_SND_CLO", "INT_SC_CLOSE",
     "INT_SC_SND_FATAL_FAILURE"}

Queued(name, c) == \E k \in DOMAIN queue : queue[k].name = name /\ queue[k].id = c
Remembered(c) ==
    \/ \E name \in ConnectionEvents : Queued(name, c)
    \/ \E s \in Sockets : sockets[s].conn = c

\* Peers, sockets and services act on their own only while few events wait.
Calm == Len(queue) < MaxInFlight
-----------------------------------------------------------------------------
(* Timers and sockets, as this layer uses them.                            *)

SOPC_EventTimer_Cancel(alive, id) == {t \in alive : t.id # id}

\* The manager's identifiers go round: one still remembered is not given out.
FreshTimers ==
    (1..MaxTimers) \ ({t.id : t \in timers}
                      \cup {connections[c].timer : c \in Connections}
                      \cup {connections[c].renew : c \in Connections})

\* SOCKET_CLOSE checks the connection the socket was given to.
SOCKET_CLOSE(array, s, c) ==
    IF s \in Sockets /\ array[s].conn = c
    THEN [array EXCEPT ![s] = FreeSocket] ELSE array

FreeSockets == {s \in Sockets : sockets[s].phase = "free"}
-----------------------------------------------------------------------------
(* Connections: taking and closing a slot.                                 *)

\* Round robin from the slot after the last one taken.  ReuseSlots = FALSE
\* stands for an array larger than what is closed while an event waits.
SC_InitNewConnection ==
    LET Rank(c) == (c - lastIdx - 1) % MaxConnections
        free == {c \in Connections :
                    connections[c].state = "SC_CLOSED" /\ (ReuseSlots \/ ~Remembered(c))}
    IN  IF free = {} THEN 0
        ELSE CHOOSE c \in free : \A d \in free : Rank(c) <= Rank(d)

FaultyFarewellLast(c, name) == <<Event("INT_SC_CLOSE", c, 0), Event(name, c, 0)>>

FarewellEvent(c, name) == <<Event(name, c, 0), Event("INT_SC_CLOSE", c, 0)>>

\* Which farewell a gentle close sends: a server its ERR in any state, a client
\* its CLO once connected; else the close is immediate.
Farewell(conn) ==
    CASE conn.state = "SC_CLOSED" -> "none"
      [] conn.server -> "INT_SC_SND_ERR"
      [] ~conn.server /\ conn.state \in Connected -> "INT_SC_SND_CLO"
      [] OTHER -> "none"

\* The timer a close cancels: establishment, or a connected client's renewal.
ArmedTimer(conn) ==
    CASE conn.state \notin Connected -> conn.timer
      [] conn.state \in Connected /\ ~conn.server -> conn.renew
      [] OTHER -> 0

FaultyDisconnects(conn) == conn.state = "SC_CONNECTED"

\* Services learn the end of a connection they were told of.
Disconnects(conn) == conn.state \in Connected

FaultyAnswers(conn) == conn.state = "TCP_INIT" /\ ~conn.server

\* Services learn that the connection they asked for is not to be had.
Answers(conn) == conn.state \in Establishing /\ ~conn.server

\* SC_CloseSecureConnection and SC_CloseConnection: cancel the timer of the
\* state, then either send the farewell and close at the second next event, or
\* release the slot, close the socket and tell services and the listener.
SC_CloseSecureConnection(array, c, rest, immediateClose, socketFailure) ==
    LET conn == array[c]
        gentle == ~immediateClose /\ Farewell(conn) # "none"
        closes == conn.state # "SC_CLOSED" /\ ~gentle
    IN  /\ timers' = SOPC_EventTimer_Cancel(timers, ArmedTimer(conn))
        /\ connections' = IF closes THEN [array EXCEPT ![c] = Closed] ELSE array
        /\ sockets' = IF closes /\ ~socketFailure
                      THEN SOCKET_CLOSE(sockets, conn.socket, c) ELSE sockets
        /\ told' = IF closes /\ Disconnects(conn)
                   THEN [told EXCEPT ![c] = @ - 1] ELSE told
        /\ awaited' = IF closes /\ Answers(conn)
                      THEN [awaited EXCEPT ![conn.config] = @ - 1] ELSE awaited
        /\ queue' = CASE gentle -> FarewellEvent(c, Farewell(conn)) \o rest
                      [] closes /\ conn.server ->
                            Append(rest, Event("INT_EP_SC_DISCONNECTED", c, 0))
                      [] OTHER -> rest

\* The handler keeps the connection and only enqueues.
Keep(array, newQueue) ==
    /\ connections' = array
    /\ queue' = newQueue
    /\ UNCHANGED <<timers, sockets, told, awaited>>

\* The handler treats the event at the head of the queue.
Treats(name) == queue # <<>> /\ Head(queue).name = name
Conn == connections[Head(queue).id]
SetState(c, state) == [connections EXCEPT ![c].state = state]
-----------------------------------------------------------------------------
(* Requests of services.                                                   *)

\* Asking for a connection that is neither asked for nor open.
ServicesConnect(cfg) ==
    /\ Calm /\ awaited[cfg] = 0
    /\ \A c \in Connections : connections[c].config # cfg
    /\ awaited' = [awaited EXCEPT ![cfg] = 1]
    /\ queue' = Append(queue, Event("SC_CONNECT", cfg, 0))
    /\ UNCHANGED <<connections, lastIdx, listener, timers, sockets, listening, told>>

ServicesAct(name, id) ==
    /\ Calm
    /\ queue' = Append(queue, Event(name, id, 0))
    /\ UNCHANGED <<connections, lastIdx, listener, timers, sockets, listening, told, awaited>>

ServicesDisconnect(c) == told[c] > 0 /\ ServicesAct("SC_DISCONNECT", c)
ServicesSendError(c) ==
    told[c] > 0 /\ connections[c].server /\ ServicesAct("SC_SERVICE_SND_ERR", c)

\* The application opens and closes the endpoint at will; nothing checks its state.
ServicesOpen ==
    /\ Listens /\ ~Queued("EP_OPEN", 0)
    /\ listening.asked + Cardinality(listening.open) < MaxListenerSockets
    /\ ServicesAct("EP_OPEN", 0)
ServicesClose == Listens /\ ServicesAct("EP_CLOSE", 0)

\* No slot: services are told at once.  No key or timer: the slot is closed as
\* if the socket had failed.  Otherwise the timer runs and a socket is asked for.
SC_CONNECT ==
    /\ Treats("SC_CONNECT")
    /\ LET idx == SC_InitNewConnection
           cfg == Head(queue).id
           taken == [Closed EXCEPT !.state = "TCP_INIT", !.config = cfg]
       IN  \/ /\ idx = 0
              /\ awaited' = [awaited EXCEPT ![cfg] = @ - 1]
              /\ queue' = Tail(queue)
              /\ UNCHANGED <<connections, lastIdx, timers, sockets, told>>
           \/ /\ idx # 0 /\ ResourceFails
              /\ lastIdx' = idx
              /\ SC_CloseSecureConnection([connections EXCEPT ![idx] = taken], idx,
                                          Tail(queue), TRUE, TRUE)
           \/ /\ idx # 0
              /\ lastIdx' = idx
              /\ \E id \in FreshTimers :
                    /\ connections' = [connections EXCEPT ![idx] = [taken EXCEPT !.timer = id]]
                    /\ timers' = timers \cup {[id |-> id, conn |-> idx, kind |-> "connection"]}
                    /\ \A other \in FreshTimers : id <= other
              /\ IF FreeSockets = {}
                 THEN /\ queue' = Append(Tail(queue), Event("SOCKET_FAILURE", idx, 0))
                      /\ UNCHANGED sockets
                 ELSE /\ sockets' = [sockets EXCEPT ![CHOOSE s \in FreeSockets : TRUE] =
                                        [phase |-> "connecting", conn |-> idx]]
                      /\ queue' = Tail(queue)
              /\ UNCHANGED <<told, awaited>>
    /\ UNCHANGED <<listener, listening>>

\* A connected client sends its CLO and keeps its renew timer for now; anything
\* else closes gently, a closed slot staying as it is.
SC_DISCONNECT ==
    /\ Treats("SC_DISCONNECT")
    /\ LET c == Head(queue).id
       IN  IF Conn.state \in Connected /\ ~Conn.server
           THEN Keep(connections, FarewellEvent(c, "INT_SC_SND_CLO") \o Tail(queue))
           ELSE SC_CloseSecureConnection(connections, c, Tail(queue), FALSE, FALSE)
    /\ UNCHANGED <<lastIdx, listener, listening>>

SC_SERVICE_SND_ERR ==
    /\ Treats("SC_SERVICE_SND_ERR")
    /\ IF Conn.state \in Connected
       THEN SC_CloseSecureConnection(connections, Head(queue).id, Tail(queue), FALSE, FALSE)
       ELSE Keep(connections, Tail(queue))
    /\ UNCHANGED <<lastIdx, listener, listening>>
-----------------------------------------------------------------------------
(* The listener.                                                           *)

EP_OPEN ==
    /\ Treats("EP_OPEN")
    /\ queue' = Tail(queue)
    /\ IF listener.state = "CLOSED"
       THEN /\ listener' = [listener EXCEPT !.state = "OPENING"]
            /\ listening' = [listening EXCEPT !.asked = @ + 1]
       ELSE UNCHANGED <<listener, listening>>
    /\ UNCHANGED <<connections, lastIdx, timers, sockets, told, awaited>>

Registered == {listener.used[i] : i \in Slots} \ {0}

\* The slots in order, each close request put before the earlier ones.
CloseRequests ==
    LET from[i \in 0..MaxListenerSlots] ==
            IF i = MaxListenerSlots THEN <<>>
            ELSE from[i + 1] \o
                    (IF listener.used[i] = 0 THEN <<>>
                     ELSE <<Event("INT_EP_SC_CLOSE", listener.used[i], 0)>>)
    IN  from[0]

FaultyCloseListenerAlone(socketFailure) ==
    /\ queue' = Tail(queue)
    /\ listening' = IF listener.state = "OPENED" /\ ~socketFailure
                    THEN [listening EXCEPT !.open = @ \ {listener.socket}] ELSE listening
    /\ listener' = ClosedListener

SOPC_SecureListenerStateMgr_CloseListener(socketFailure) ==
    /\ queue' = CloseRequests \o Tail(queue)
    /\ listening' = IF listener.state = "OPENED" /\ ~socketFailure
                    THEN [listening EXCEPT !.open = @ \ {listener.socket}] ELSE listening
    /\ listener' = ClosedListener

EP_CLOSE ==
    /\ Treats("EP_CLOSE")
    /\ SOPC_SecureListenerStateMgr_CloseListener(FALSE)
    /\ UNCHANGED <<connections, lastIdx, timers, sockets, told, awaited>>

SOCKET_LISTENER_OPENED ==
    /\ Treats("SOCKET_LISTENER_OPENED")
    /\ queue' = Tail(queue)
    /\ IF listener.state = "OPENING"
       THEN /\ listener' = [listener EXCEPT !.state = "OPENED", !.socket = Head(queue).aux]
            /\ UNCHANGED listening
       ELSE /\ listening' = [listening EXCEPT !.open = @ \ {Head(queue).aux}]
            /\ UNCHANGED listener
    /\ UNCHANGED <<connections, lastIdx, timers, sockets, told, awaited>>

SOCKET_LISTENER_CONNECTION ==
    /\ Treats("SOCKET_LISTENER_CONNECTION")
    /\ LET s == Head(queue).aux
       IN  IF listener.state = "OPENED"
           THEN /\ queue' = Append(Tail(queue), Event("INT_EP_SC_CREATE", 0, s))
                /\ UNCHANGED sockets
           ELSE /\ sockets' = SOCKET_CLOSE(sockets, s, 0)
                /\ queue' = Tail(queue)
    /\ UNCHANGED <<connections, lastIdx, listener, timers, listening, told, awaited>>

SOCKET_LISTENER_FAILURE ==
    /\ Treats("SOCKET_LISTENER_FAILURE")
    /\ SOPC_SecureListenerStateMgr_CloseListener(TRUE)
    /\ UNCHANGED <<connections, lastIdx, timers, sockets, told, awaited>>

\* The search starts after the last slot taken and stops before reaching it.
SOPC_SecureListenerStateMgr_AddConnection(c) ==
    LET At(n) == (listener.last + 1 + n) % MaxListenerSlots
        tried == {n \in Slots : n = 0 \/ At(n) # listener.last}
        free == {n \in tried : listener.used[At(n)] = 0}
        slot == At(CHOOSE n \in free : \A m \in free : n <= m)
    IN  IF free = {} THEN listener
        ELSE [listener EXCEPT !.used[slot] = c, !.last = slot]

INT_EP_SC_CREATED ==
    /\ Treats("INT_EP_SC_CREATED")
    /\ LET c == Head(queue).id
           added == SOPC_SecureListenerStateMgr_AddConnection(c)
       IN  IF listener.state = "OPENED" /\ added # listener
           THEN listener' = added /\ queue' = Tail(queue)
           ELSE /\ queue' = Append(Tail(queue), Event("INT_EP_SC_CLOSE", c, 0))
                /\ UNCHANGED listener
    /\ UNCHANGED <<connections, lastIdx, timers, sockets, listening, told, awaited>>

\* The first slot that holds the connection is freed.
SOPC_SecureListenerStateMgr_RemoveConnection(c) ==
    LET held == {i \in Slots : listener.used[i] = c}
    IN  IF held = {} THEN listener
        ELSE [listener EXCEPT
                !.used[CHOOSE i \in held : \A j \in held : i <= j] = 0]

INT_EP_SC_DISCONNECTED ==
    /\ Treats("INT_EP_SC_DISCONNECTED")
    /\ listener' = IF listener.state = "OPENED"
                   THEN SOPC_SecureListenerStateMgr_RemoveConnection(Head(queue).id)
                   ELSE listener
    /\ queue' = Tail(queue)
    /\ UNCHANGED <<connections, lastIdx, timers, sockets, listening, told, awaited>>

\* initServerSC takes a slot; when the keys or the timer then fail, the socket
\* is closed and the slot stays as initServerSC left it.
INT_EP_SC_CREATE ==
    /\ Treats("INT_EP_SC_CREATE")
    /\ LET idx == SC_InitNewConnection
           s == Head(queue).aux
           taken == [Closed EXCEPT !.state = "TCP_INIT", !.server = TRUE, !.socket = s]
       IN  \/ /\ idx = 0
              /\ sockets' = SOCKET_CLOSE(sockets, s, 0)
              /\ queue' = Tail(queue)
              /\ UNCHANGED <<connections, lastIdx, timers>>
           \/ /\ idx # 0 /\ ResourceFails
              /\ lastIdx' = idx
              /\ connections' = [connections EXCEPT ![idx] = taken]
              /\ sockets' = SOCKET_CLOSE(sockets, s, 0)
              /\ queue' = Tail(queue)
              /\ UNCHANGED timers
           \/ /\ idx # 0
              /\ lastIdx' = idx
              /\ \E id \in FreshTimers :
                    /\ connections' = [connections EXCEPT ![idx] = [taken EXCEPT !.timer = id]]
                    /\ timers' = timers \cup {[id |-> id, conn |-> idx, kind |-> "connection"]}
                    /\ \A other \in FreshTimers : id <= other
              /\ sockets' = [sockets EXCEPT ![s] = [phase |-> "up", conn |-> idx]]
              /\ queue' = Append(Tail(queue), Event("INT_EP_SC_CREATED", idx, 0))
    /\ UNCHANGED <<listener, listening, told, awaited>>
-----------------------------------------------------------------------------
(* Socket and timer events of a connection.                                *)

\* A connection that is not a client has no client configuration.
SOCKET_CONNECTION ==
    /\ Treats("SOCKET_CONNECTION")
    /\ LET c == Head(queue).id
           s == Head(queue).aux
       IN  IF Conn.state # "TCP_INIT"
           THEN /\ sockets' = SOCKET_CLOSE(sockets, s, c)
                /\ queue' = Tail(queue)
                /\ UNCHANGED <<connections, timers, told, awaited>>
           ELSE IF Conn.server
           THEN SC_CloseSecureConnection(connections, c, Tail(queue), FALSE, FALSE)
           ELSE Keep([connections EXCEPT ![c].state = "TCP_NEGOTIATE", ![c].socket = s],
                     Append(Tail(queue), Event("INT_SC_SND_HEL", c, 0)))
    /\ UNCHANGED <<lastIdx, listener, listening>>

SOCKET_FAILURE ==
    /\ Treats("SOCKET_FAILURE")
    /\ SC_CloseSecureConnection(connections, Head(queue).id, Tail(queue), TRUE, TRUE)
    /\ UNCHANGED <<lastIdx, listener, listening>>

FaultyTimeoutInTcpInitOnly ==
    /\ Treats("TIMER_SC_CONNECTION_TIMEOUT")
    /\ LET c == Head(queue).id
           array == [connections EXCEPT ![c].timer = 0]
       IN  IF Conn.state # "TCP_INIT" THEN Keep(array, Tail(queue))
           ELSE SC_CloseSecureConnection(array, c, Tail(queue), FALSE, FALSE)
    /\ UNCHANGED <<lastIdx, listener, listening>>

\* The reference to the timer is dropped whichever connection armed it.
TIMER_SC_CONNECTION_TIMEOUT ==
    /\ Treats("TIMER_SC_CONNECTION_TIMEOUT")
    /\ LET c == Head(queue).id
           array == [connections EXCEPT ![c].timer = 0]
       IN  IF Conn.state \in Connected THEN Keep(array, Tail(queue))
           ELSE SC_CloseSecureConnection(array, c, Tail(queue), FALSE, FALSE)
    /\ UNCHANGED <<lastIdx, listener, listening>>

TIMER_SC_CLIENT_OPN_RENEW ==
    /\ Treats("TIMER_SC_CLIENT_OPN_RENEW")
    /\ LET c == Head(queue).id
           array == [connections EXCEPT ![c].renew = 0]
       IN  IF Conn.state = "SC_CONNECTED" /\ ~Conn.server
           THEN Keep([array EXCEPT ![c].state = "SC_CONNECTED_RENEW"],
                     Append(Tail(queue), Event("INT_SC_SND_OPN", c, 0)))
           ELSE Keep(array, Tail(queue))
    /\ UNCHANGED <<lastIdx, listener, listening>>
-----------------------------------------------------------------------------
(* Messages: the chunks manager and the transitions of the connection.     *)

\* What the chunks manager lets through, by side and by expected answer.
Expected(c, msg) ==
    CASE msg = "HEL" -> connections[c].server
      [] msg \in {"ACK", "ERR"} -> ~connections[c].server
      [] msg = "CLO" -> connections[c].server /\ connections[c].state \in Connected
      [] msg = "OPN" ->
            \/ connections[c].server
            \/ /\ connections[c].state \in {"SC_CONNECTING", "SC_CONNECTED_RENEW"}
               /\ ~Queued("INT_SC_SND_OPN", c) /\ ~Queued("INT_SC_RCV_OPN", c)
      [] OTHER -> FALSE

ReceivedEvent(msg) ==
    CASE msg = "HEL" -> "INT_SC_RCV_HEL" [] msg = "ACK" -> "INT_SC_RCV_ACK"
      [] msg = "OPN" -> "INT_SC_RCV_OPN" [] msg = "CLO" -> "INT_SC_RCV_CLO"
      [] msg = "ERR" -> "INT_SC_RCV_ERR"

\* ERR, CLO and failures are treated next, other messages in their turn.
SOCKET_RCV_BYTES ==
    /\ Treats("SOCKET_RCV_BYTES")
    /\ LET c == Head(queue).id
           msg == Head(queue).aux
           rest == Tail(queue)
       IN  Keep(connections,
                CASE Conn.state = "SC_CLOSED" -> rest
                  [] Conn.state # "SC_CLOSED" /\ ~Expected(c, msg) ->
                        <<Event("INT_SC_RCV_FAILURE", c, 0)>> \o rest
                  [] Conn.state # "SC_CLOSED" /\ Expected(c, msg) /\ msg \in {"ERR", "CLO"} ->
                        <<Event(ReceivedEvent(msg), c, 0)>> \o rest
                  [] OTHER -> Append(rest, Event(ReceivedEvent(msg), c, 0)))
    /\ UNCHANGED <<lastIdx, listener, listening>>

\* Closes gently, from the state a transition that failed half way left.
FailsIn(c, state) ==
    SC_CloseSecureConnection(SetState(c, state), c, Tail(queue), FALSE, FALSE)

INT_SC_RCV_HEL ==
    /\ Treats("INT_SC_RCV_HEL")
    /\ LET c == Head(queue).id
       IN  IF Conn.state # "TCP_INIT" \/ ~Conn.server THEN FailsIn(c, Conn.state)
           ELSE \/ FailsIn(c, "TCP_INIT")
                \/ FailsIn(c, "TCP_NEGOTIATE")
                \/ Keep(SetState(c, "SC_INIT"),
                        Append(Tail(queue), Event("INT_SC_SND_ACK", c, 0)))
    /\ UNCHANGED <<lastIdx, listener, listening>>

INT_SC_RCV_ACK ==
    /\ Treats("INT_SC_RCV_ACK")
    /\ LET c == Head(queue).id
       IN  IF Conn.state # "TCP_NEGOTIATE" \/ Conn.server THEN FailsIn(c, Conn.state)
           ELSE \/ FailsIn(c, "TCP_NEGOTIATE")
                \/ FailsIn(c, "SC_INIT")
                \/ Keep(SetState(c, "SC_CONNECTING"),
                        Append(Tail(queue), Event("INT_SC_SND_OPN", c, 0)))
    /\ UNCHANGED <<lastIdx, listener, listening>>

\* A server opens the channel at once or renews it; services learn of a new one.
onServerSideOpen(c) ==
    \/ FailsIn(c, Conn.state)
    \/ /\ Conn.state = "SC_INIT"
       /\ FailsIn(c, "SC_CONNECTING")
    \/ /\ Conn.state = "SC_INIT"
       /\ connections' = SetState(c, "SC_CONNECTED")
       /\ timers' = SOPC_EventTimer_Cancel(timers, Conn.timer)
       /\ told' = [told EXCEPT ![c] = @ + 1]
       /\ queue' = Append(Tail(queue), Event("INT_SC_SND_OPN", c, 0))
       /\ UNCHANGED <<sockets, awaited>>
    \/ /\ Conn.state = "SC_CONNECTED"
       /\ FailsIn(c, "SC_CONNECTED_RENEW")
    \/ /\ Conn.state = "SC_CONNECTED"
       /\ Keep(connections, Append(Tail(queue), Event("INT_SC_SND_OPN", c, 0)))

\* A client is connected, or its token renewed, and the renew timer armed.
onClientSideOpen(c) ==
    \/ FailsIn(c, Conn.state)
    \/ /\ Conn.state \in {"SC_CONNECTING", "SC_CONNECTED_RENEW"}
       /\ \E id \in FreshTimers :
             /\ \A other \in FreshTimers : id <= other
             /\ connections' = [connections EXCEPT ![c].state = "SC_CONNECTED", ![c].renew = id]
             /\ timers' = {[id |-> id, conn |-> c, kind |-> "renew"]} \cup
                          (IF Conn.state = "SC_CONNECTING"
                           THEN SOPC_EventTimer_Cancel(timers, Conn.timer) ELSE timers)
       /\ IF Conn.state = "SC_CONNECTING"
          THEN /\ told' = [told EXCEPT ![c] = @ + 1]
               /\ awaited' = [awaited EXCEPT ![Conn.config] = @ - 1]
          ELSE UNCHANGED <<told, awaited>>
       /\ queue' = Tail(queue)
       /\ UNCHANGED sockets

INT_SC_RCV_OPN ==
    /\ Treats("INT_SC_RCV_OPN")
    /\ IF Conn.server THEN onServerSideOpen(Head(queue).id)
       ELSE onClientSideOpen(Head(queue).id)
    /\ UNCHANGED <<lastIdx, listener, listening>>

\* A well formed CLO closes at once, anything else after an ERR.
INT_SC_RCV_CLO ==
    /\ Treats("INT_SC_RCV_CLO")
    /\ LET c == Head(queue).id
       IN  \/ /\ Conn.state \in Connected /\ Conn.server
              /\ SC_CloseSecureConnection(connections, c, Tail(queue), TRUE, FALSE)
           \/ FailsIn(c, Conn.state)
    /\ UNCHANGED <<lastIdx, listener, listening>>

\* The events that close: at once, or gently.
INT_SC_RCV_ERR ==
    /\ Treats("INT_SC_RCV_ERR")
    /\ SC_CloseSecureConnection(connections, Head(queue).id, Tail(queue), TRUE, FALSE)
    /\ UNCHANGED <<lastIdx, listener, listening>>

INT_SC_CLOSE ==
    /\ Treats("INT_SC_CLOSE")
    /\ SC_CloseSecureConnection(connections, Head(queue).id, Tail(queue), TRUE, FALSE)
    /\ UNCHANGED <<lastIdx, listener, listening>>

INT_SC_RCV_FAILURE ==
    /\ Treats("INT_SC_RCV_FAILURE")
    /\ FailsIn(Head(queue).id, Conn.state)
    /\ UNCHANGED <<lastIdx, listener, listening>>

INT_SC_SND_FATAL_FAILURE ==
    /\ Treats("INT_SC_SND_FATAL_FAILURE")
    /\ FailsIn(Head(queue).id, Conn.state)
    /\ UNCHANGED <<lastIdx, listener, listening>>

INT_EP_SC_CLOSE ==
    /\ Treats("INT_EP_SC_CLOSE")
    /\ FailsIn(Head(queue).id, Conn.state)
    /\ UNCHANGED <<lastIdx, listener, listening>>

\* A message handed to the socket; if it cannot be built the connection is
\* closed next, unless it was about to be closed anyway.
SOPC_ChunksMgr_Dispatcher ==
    /\ \/ \E name \in {"INT_SC_SND_HEL", "INT_SC_SND_ACK", "INT_SC_SND_OPN"} : Treats(name)
       \/ \E name \in {"INT_SC_SND_ERR", "INT_SC_SND_CLO"} : Treats(name)
    /\ \/ Keep(connections, Tail(queue))
       \/ /\ Conn.state # "SC_CLOSED"
          /\ Head(queue).name \notin {"INT_SC_SND_ERR", "INT_SC_SND_CLO"}
          /\ Keep(connections, <<Event("INT_SC_SND_FATAL_FAILURE", Head(queue).id, 0)>>
                               \o Tail(queue))
    /\ UNCHANGED <<lastIdx, listener, listening>>
-----------------------------------------------------------------------------
(* Timers, sockets and peers.                                              *)

TimerExpires(t) ==
    /\ timers' = timers \ {t}
    /\ queue' = Append(queue, Event(IF t.kind = "connection" THEN "TIMER_SC_CONNECTION_TIMEOUT"
                                    ELSE "TIMER_SC_CLIENT_OPN_RENEW", t.conn, 0))
    /\ UNCHANGED <<connections, lastIdx, listener, sockets, listening, told, awaited>>

\* A listener asked for is opened or refused; an open one may fail later.
ListenerOpened ==
    /\ listening.asked > 0
    /\ LET l == CHOOSE l \in 1..MaxListenerSockets : l \notin listening.open
       IN  /\ listening' = [asked |-> listening.asked - 1, open |-> listening.open \cup {l}]
           /\ queue' = Append(queue, Event("SOCKET_LISTENER_OPENED", 0, l))
    /\ UNCHANGED <<connections, lastIdx, listener, timers, sockets, told, awaited>>

ListenerRefused ==
    /\ listening.asked > 0
    /\ listening' = [listening EXCEPT !.asked = @ - 1]
    /\ queue' = Append(queue, Event("SOCKET_LISTENER_FAILURE", 0, 0))
    /\ UNCHANGED <<connections, lastIdx, listener, timers, sockets, told, awaited>>

ListenerFails ==
    /\ Calm
    /\ \E l \in listening.open : listening' = [listening EXCEPT !.open = @ \ {l}]
    /\ queue' = Append(queue, Event("SOCKET_LISTENER_FAILURE", 0, 0))
    /\ UNCHANGED <<connections, lastIdx, listener, timers, sockets, told, awaited>>

PeerConnects ==
    /\ Calm /\ listening.open # {} /\ FreeSockets # {}
    /\ LET s == CHOOSE s \in FreeSockets : TRUE
       IN  /\ sockets' = [sockets EXCEPT ![s] = [phase |-> "accepted", conn |-> 0]]
           /\ queue' = Append(queue, Event("SOCKET_LISTENER_CONNECTION", 0, s))
    /\ UNCHANGED <<connections, lastIdx, listener, timers, listening, told, awaited>>

SocketConnects(s) ==
    /\ sockets[s].phase = "connecting"
    /\ sockets' = [sockets EXCEPT ![s].phase = "up"]
    /\ queue' = Append(queue, Event("SOCKET_CONNECTION", sockets[s].conn, s))
    /\ UNCHANGED <<connections, lastIdx, listener, timers, listening, told, awaited>>

SocketFails(s) ==
    /\ Calm /\ sockets[s].phase \in {"connecting", "up"}
    /\ sockets' = [sockets EXCEPT ![s] = FreeSocket]
    /\ queue' = Append(queue, Event("SOCKET_FAILURE", sockets[s].conn, s))
    /\ UNCHANGED <<connections, lastIdx, listener, timers, listening, told, awaited>>

PeerSends(s, msg) ==
    /\ Calm /\ sockets[s].phase = "up"
    /\ msg \in Messages(connections[sockets[s].conn].server)
    /\ queue' = Append(queue, Event("SOCKET_RCV_BYTES", sockets[s].conn, msg))
    /\ UNCHANGED <<connections, lastIdx, listener, timers, sockets, listening, told, awaited>>

Init ==
    /\ connections = [c \in Connections |-> Closed]
    /\ lastIdx = 0
    /\ listener = ClosedListener
    /\ queue = <<>>
    /\ timers = {}
    /\ sockets = [s \in Sockets |-> FreeSocket]
    /\ listening = [asked |-> 0, open |-> {}]
    /\ told = [c \in Connections |-> 0]
    /\ awaited = [cfg \in Configs |-> 0]

Next ==
    \/ \E cfg \in Configs : ServicesConnect(cfg)
    \/ \E c \in Connections : ServicesDisconnect(c)
    \/ \E c \in Connections : ServicesSendError(c)
    \/ ServicesOpen \/ ServicesClose
    \/ SC_CONNECT \/ SC_DISCONNECT \/ SC_SERVICE_SND_ERR
    \/ EP_OPEN \/ EP_CLOSE
    \/ SOCKET_LISTENER_OPENED \/ SOCKET_LISTENER_CONNECTION \/ SOCKET_LISTENER_FAILURE
    \/ INT_EP_SC_CREATED \/ INT_EP_SC_DISCONNECTED \/ INT_EP_SC_CREATE
    \/ SOCKET_CONNECTION \/ SOCKET_FAILURE \/ SOCKET_RCV_BYTES
    \/ TIMER_SC_CONNECTION_TIMEOUT \/ TIMER_SC_CLIENT_OPN_RENEW
    \/ INT_SC_RCV_HEL \/ INT_SC_RCV_ACK \/ INT_SC_RCV_OPN \/ INT_SC_RCV_CLO
    \/ INT_SC_RCV_ERR \/ INT_SC_RCV_FAILURE \/ INT_SC_SND_FATAL_FAILURE
    \/ INT_EP_SC_CLOSE \/ INT_SC_CLOSE \/ SOPC_ChunksMgr_Dispatcher
    \/ \E t \in timers : TimerExpires(t)
    \/ ListenerOpened \/ ListenerRefused \/ ListenerFails \/ PeerConnects
    \/ \E s \in Sockets : SocketConnects(s)
    \/ \E s \in Sockets : SocketFails(s)
    \/ \E s \in Sockets : \E msg \in Messages(TRUE) \cup Messages(FALSE) : PeerSends(s, msg)

Spec == Init /\ [][Next]_vars

\* The looper treats what is queued.
Looper ==
    \/ SC_CONNECT \/ SC_DISCONNECT \/ SC_SERVICE_SND_ERR \/ EP_OPEN \/ EP_CLOSE
    \/ SOCKET_LISTENER_OPENED \/ SOCKET_LISTENER_CONNECTION \/ SOCKET_LISTENER_FAILURE
    \/ INT_EP_SC_CREATED \/ INT_EP_SC_DISCONNECTED \/ INT_EP_SC_CREATE
    \/ SOCKET_CONNECTION \/ SOCKET_FAILURE \/ SOCKET_RCV_BYTES
    \/ TIMER_SC_CONNECTION_TIMEOUT \/ TIMER_SC_CLIENT_OPN_RENEW
    \/ INT_SC_RCV_HEL \/ INT_SC_RCV_ACK \/ INT_SC_RCV_OPN \/ INT_SC_RCV_CLO
    \/ INT_SC_RCV_ERR \/ INT_SC_RCV_FAILURE \/ INT_SC_SND_FATAL_FAILURE
    \/ INT_EP_SC_CLOSE \/ INT_SC_CLOSE \/ SOPC_ChunksMgr_Dispatcher

\* The looper thread runs and the timer thread serves each connection timer.
Fairness ==
    /\ WF_vars(Looper)
    /\ \A c \in Connections :
          WF_vars(\E t \in timers : t.conn = c /\ t.kind = "connection" /\ TimerExpires(t))

FairSpec == Spec /\ Fairness
-----------------------------------------------------------------------------
(* Properties.                                                             *)

\* Every variable keeps its type; the counts of notifications stay small.
TypeOK ==
    /\ connections \in [Connections -> [state : {"SC_CLOSED"} \cup Establishing \cup Connected,
                                        server : BOOLEAN, config : Configs \cup {0},
                                        socket : 0..MaxSockets, timer : 0..MaxTimers,
                                        renew : 0..MaxTimers]]
    /\ lastIdx \in 0..MaxConnections
    /\ listener.state \in {"CLOSED", "OPENING", "OPENED"}
    /\ listener.used \in [Slots -> 0..MaxConnections] /\ listener.last \in Slots
    /\ \A t \in timers : t.id \in 1..MaxTimers /\ t.conn \in Connections
    /\ sockets \in [Sockets -> [phase : {"free", "connecting", "accepted", "up"},
                                conn : 0..MaxConnections]]
    /\ listening.asked \in 0..MaxListenerSockets /\ listening.open \subseteq 1..MaxListenerSockets
    /\ told \in [Connections -> Int] /\ awaited \in [Configs -> Int]

\* Every variable has its type, and what services have been told is what is: a
\* connection was notified connected (SC_CONNECTED, EP_CONNECTED) once, and not yet
\* disconnected, exactly while its state is SC_CONNECTED or SC_CONNECTED_RENEW.
ServicesView ==
    /\ TypeOK
    /\ \A c \in Connections :
          told[c] = IF connections[c].state \in Connected THEN 1 ELSE 0

\* Each SC_CONNECT is answered once: the answers missing are the requests still
\* queued and the client connections still being established.
ConnectAnsweredOnce ==
    \A cfg \in Configs :
        awaited[cfg] =
            Cardinality({k \in DOMAIN queue :
                            queue[k].name = "SC_CONNECT" /\ queue[k].id = cfg})
            + Cardinality({c \in Connections :
                            connections[c].config = cfg
                            /\ connections[c].state \in Establishing})

OpenServer(c) == connections[c].server /\ connections[c].state # "SC_CLOSED"

\* The listener and the server connections agree.  One that is open is registered,
\* about to be registered, or about to be closed (so closing the endpoint, which
\* closes those registered, leaves none behind); one that is registered is open or
\* its disconnection is queued (so the slots do not run out on dead connections).
ServerConnectionGoverned ==
    /\ \A c \in Connections :
          OpenServer(c) =>
            \/ c \in Registered
            \/ Queued("INT_EP_SC_CREATED", c)
            \/ Queued("INT_EP_SC_CLOSE", c)
            \/ Queued("INT_SC_CLOSE", c)
    /\ \A c \in Registered : OpenServer(c) \/ Queued("INT_EP_SC_DISCONNECTED", c)

\* The farewell is sent first: the ERR or CLO of a gentle close is followed at
\* once by its INT_SC_CLOSE, on a connection still open, or that failed before.
FarewellBeforeClose ==
    \A k \in DOMAIN queue :
        queue[k].name \in {"INT_SC_SND_ERR", "INT_SC_SND_CLO"} =>
            /\ k + 1 \in DOMAIN queue
            /\ queue[k + 1].name = "INT_SC_CLOSE" /\ queue[k + 1].id = queue[k].id
            /\ connections[queue[k].id].state # "SC_CLOSED"

\* A connection does not stay half open: it ends up connected or closed.
Establishment ==
    \A c \in Connections :
        connections[c].state \in Establishing ~> connections[c].state \notin Establishing

\* Services get the answer to each SC_CONNECT.
ConnectAnswered ==
    \A cfg \in Configs : awaited[cfg] > 0 ~> awaited[cfg] = 0
=============================================================================
