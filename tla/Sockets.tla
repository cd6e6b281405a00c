------------------------------- MODULE Sockets -------------------------------
(****************************************************************************)
(* The Sockets layer of the client/server toolkit: the array of sockets     *)
(* (sopc_sockets_internal_ctx.c), the dispatcher of the events that the     *)
(* Secure Channels layer requests and the treatment of network events       *)
(* (sopc_sockets_event_mgr.c, sopc_sockets_network_event_mgr.c).  One       *)
(* thread runs all of it; it talks with the Secure Channels thread through  *)
(* two FIFO queues, so each side acts on an out-of-date view of the other.  *)
(* The Secure Channels side is abstracted to what it tells the sockets: a   *)
(* connection slot is closed, waits for its socket (TCP_INIT) or is open.   *)
(****************************************************************************)
EXTENDS Integers, Sequences, FiniteSets

CONSTANTS
    MaxSockets,       \* SOPC_MAX_SOCKETS: slots 1 .. MaxSockets - 1 are usable
    MaxListenerConnections,   \* SOPC_MAX_SOCKETS_CONNECTIONS
    NbConnections,    \* secure connection slots of the upper layer
    MaxAddrs,         \* addresses a host name resolves to
    MaxWrites,        \* bound: buffers one connection writes
    MaxInFlight,      \* bound: queued events at which no new one is provoked
    ReuseSlots,       \* may a closed secure connection slot be used again?
    NetworkFails      \* may an established socket report an error or its end?

ASSUME SocketsAssumption ==
    /\ MaxSockets \in Nat \ {0, 1}
    /\ {MaxListenerConnections, NbConnections, MaxAddrs, MaxInFlight} \subseteq Nat \ {0}
    /\ MaxWrites \in Nat
    /\ {ReuseSlots, NetworkFails} \subseteq BOOLEAN

VARIABLES
    socketsArray,   \* the slots
    inputQueue,     \* socketsInputEventQueue: requests of the upper layer
    outputQueue,    \* events emitted to the upper layer, not yet treated
    upper,          \* secure connection slots as the sockets' user sees them
    listener,       \* the secure listener of the one endpoint
    retired         \* secure connection slots that were used and closed

vars == <<socketsArray, inputQueue, outputQueue, upper, listener, retired>>

Slots == 0 .. MaxSockets - 1
Connections == 1 .. NbConnections
Endpoint == 1
States == {"CLOSED", "CONNECTING", "CONNECTED", "LISTENING", "ACCEPTED"}

\* A buffer is named by its connection and its rank among its writes.
Buffers == Connections \X (1 .. MaxWrites)

\* A slot after the memset.  wire and broken are not fields of the program:
\* the buffers the peer was sent, and whether the operating system's socket
\* has reported an error (it then reports errors for ever).
ClosedSlot ==
    [isUsed |-> FALSE, state |-> "CLOSED", connectionId |-> 0,
     isServerConnection |-> FALSE, listenerSocketIdx |-> 0, listenerConnections |-> 0,
     isNotWritable |-> FALSE, writeQueue |-> <<>>,
     connectAddrs |-> FALSE, nextConnectAttemptAddr |-> 0,
     wire |-> <<>>, broken |-> FALSE]

ClosedConnection == [state |-> "SC_CLOSED", socketIndex |-> 0, server |-> FALSE, written |-> 0]
ClosedListener == [state |-> "CLOSED", socketIndex |-> 0]

Event(event, id, aux) == [event |-> event, id |-> id, aux |-> aux]

\* The network and the upper layer's own initiatives wait for the queues to
\* shorten; the answers to queued events are never held back.
Calm == Len(inputQueue) + Len(outputQueue) < MaxInFlight

Emit(events) == outputQueue' = outputQueue \o events
Enqueue(events) == inputQueue' = inputQueue \o events
----------------------------------------------------------------------------
(* sopc_sockets_internal_ctx.c *)

\* The lowest free slot above the reserved slot 0, or 0 when all are used.
SOPC_SocketsInternalContext_GetFreeSocket(array) ==
    LET free == {i \in Slots \ {0} : ~array[i].isUsed}
    IN  IF free = {} THEN 0 ELSE CHOOSE i \in free : \A j \in free : i <= j

\* Take slot idx: everything but isUsed is left as it was found.
Taken(array, idx) == [array EXCEPT ![idx].isUsed = TRUE, ![idx].writeQueue = <<>>]

SOPC_SocketsInternalContext_CloseSocket(array, idx) ==
    LET l == array[idx].listenerSocketIdx
        counted == /\ array[idx].state # "CLOSED"
                   /\ array[idx].isServerConnection
                   /\ array[l].state = "LISTENING"
                   /\ array[l].listenerConnections > 0
        decremented == IF counted THEN [array EXCEPT ![l].listenerConnections = @ - 1] ELSE array
    IN  IF array[idx].isUsed THEN [decremented EXCEPT ![idx] = ClosedSlot] ELSE array
----------------------------------------------------------------------------
(* Connecting as a client.  An outcome says of each address in turn whether *)
(* socket() and connect() succeed at once.                                  *)

ConnectClient(array, idx, success) ==
    IF array[idx].state # "CLOSED" THEN array
    ELSE IF success THEN [array EXCEPT ![idx].state = "CONNECTING"]
    ELSE SOPC_SocketsInternalContext_CloseSocket(array, idx)

\* SOPC_SocketsEventMgr_CreateClientSocket with `failed' addresses refused at
\* once before one of the `total' resolved addresses is being connected.
ConnectingFrom(array, idx, total, failed) ==
    LET refused == IF failed > 0 THEN ConnectClient(array, idx, FALSE) ELSE array
        connecting == ConnectClient(refused, idx, TRUE)
    IN  IF failed + 1 < total
        THEN [connecting EXCEPT ![idx].nextConnectAttemptAddr = total - failed - 1,
                                ![idx].connectAddrs = TRUE]
        ELSE connecting

Dispatch(event) ==
    /\ inputQueue # <<>>
    /\ Head(inputQueue).event = event
    /\ UNCHANGED <<upper, listener, retired>>

\* Mutant: the upper layer is not told that no socket could be created.
FaultyCreateClientSilent ==
    /\ Dispatch("SOCKET_CREATE_CLIENT")
    /\ inputQueue' = Tail(inputQueue)
    /\ LET idx == SOPC_SocketsInternalContext_GetFreeSocket(socketsArray)
       IN  IF idx = 0 THEN UNCHANGED socketsArray
           ELSE socketsArray' = [Taken(socketsArray, idx) EXCEPT ![idx].state = "CONNECTING",
                                                                 ![idx].connectionId = Head(inputQueue).id]
    /\ UNCHANGED outputQueue

SOCKET_CREATE_CLIENT ==
    /\ Dispatch("SOCKET_CREATE_CLIENT")
    /\ inputQueue' = Tail(inputQueue)
    /\ LET c == Head(inputQueue).id
           idx == SOPC_SocketsInternalContext_GetFreeSocket(socketsArray)
           fresh == Taken(socketsArray, idx)
       IN  \/ \* no free slot, name not resolved, slot not closed or every address refused
              /\ Emit(<<Event("SOCKET_FAILURE", c, 0)>>)
              /\ socketsArray' = IF idx = 0 THEN socketsArray
                                 ELSE SOPC_SocketsInternalContext_CloseSocket(fresh, idx)
           \/ /\ idx # 0
              /\ socketsArray[idx].state = "CLOSED"
              /\ \E total \in 1 .. MaxAddrs : \E failed \in 0 .. total - 1 :
                    socketsArray' = [ConnectingFrom(fresh, idx, total, failed)
                                        EXCEPT ![idx].connectionId = c]
              /\ UNCHANGED outputQueue

SOCKET_CREATE_SERVER ==
    /\ Dispatch("SOCKET_CREATE_SERVER")
    /\ inputQueue' = Tail(inputQueue)
    /\ LET ep == Head(inputQueue).id
           idx == SOPC_SocketsInternalContext_GetFreeSocket(socketsArray)
       IN  \/ /\ idx # 0
              /\ socketsArray' = [socketsArray EXCEPT ![idx].isUsed = TRUE,
                                                      ![idx].state = "LISTENING",
                                                      ![idx].connectionId = ep]
              /\ Emit(<<Event("SOCKET_LISTENER_OPENED", ep, idx)>>)
           \/ /\ socketsArray' = IF idx = 0 THEN socketsArray
                                 ELSE SOPC_SocketsInternalContext_CloseSocket(
                                        [socketsArray EXCEPT ![idx].isUsed = TRUE], idx)
              /\ Emit(<<Event("SOCKET_LISTENER_FAILURE", ep, 0)>>)

SOCKET_ACCEPTED_CONNECTION ==
    /\ Dispatch("SOCKET_ACCEPTED_CONNECTION")
    /\ inputQueue' = Tail(inputQueue)
    /\ LET idx == Head(inputQueue).id
       IN  socketsArray' = IF socketsArray[idx].state = "ACCEPTED"
                           THEN [socketsArray EXCEPT ![idx].connectionId = Head(inputQueue).aux,
                                                     ![idx].state = "CONNECTED"]
                           ELSE SOPC_SocketsInternalContext_CloseSocket(socketsArray, idx)
    /\ UNCHANGED outputQueue

\* Mutant: the request to close is ignored for a socket that is not writable.
FaultyCloseIgnoredWhenBlocked ==
    /\ Dispatch("SOCKET_CLOSE")
    /\ inputQueue' = Tail(inputQueue)
    /\ LET idx == Head(inputQueue).id
           valid == /\ socketsArray[idx].state \notin {"CLOSED", "LISTENING"}
                    /\ socketsArray[idx].connectionId = Head(inputQueue).aux
                    /\ ~socketsArray[idx].isNotWritable
       IN  socketsArray' = IF valid THEN SOPC_SocketsInternalContext_CloseSocket(socketsArray, idx)
                           ELSE socketsArray
    /\ UNCHANGED outputQueue

SOCKET_CLOSE ==
    /\ Dispatch("SOCKET_CLOSE")
    /\ inputQueue' = Tail(inputQueue)
    /\ LET idx == Head(inputQueue).id
           valid == /\ socketsArray[idx].state \notin {"CLOSED", "LISTENING"}
                    /\ socketsArray[idx].connectionId = Head(inputQueue).aux
       IN  socketsArray' = IF valid THEN SOPC_SocketsInternalContext_CloseSocket(socketsArray, idx)
                           ELSE socketsArray
    /\ UNCHANGED outputQueue

SOCKET_CLOSE_SERVER ==
    /\ Dispatch("SOCKET_CLOSE_SERVER")
    /\ inputQueue' = Tail(inputQueue)
    /\ LET idx == Head(inputQueue).id
           valid == /\ socketsArray[idx].state = "LISTENING"
                    /\ socketsArray[idx].connectionId = Head(inputQueue).aux
       IN  socketsArray' = IF valid THEN SOPC_SocketsInternalContext_CloseSocket(socketsArray, idx)
                           ELSE socketsArray
    /\ UNCHANGED outputQueue
----------------------------------------------------------------------------
(* Writing.  The loop of SOPC_SocketsEventMgr_TreatWriteBuffer sends buffers *)
(* until the queue is empty, the socket would block or reports an error: k   *)
(* buffers are sent entirely, then `outcome' is met.                         *)

\* Mutant: the buffer that could not be sent entirely goes back to the tail.
FaultyRequeueAtTail(slot, k, outcome) ==
    LET q == slot.writeQueue
        sent == [slot EXCEPT !.wire = @ \o SubSeq(q, 1, k)]
    IN  CASE outcome = "empty" -> [sent EXCEPT !.writeQueue = <<>>]
          [] outcome = "block" -> [sent EXCEPT !.writeQueue = SubSeq(q, k + 2, Len(q)) \o <<q[k + 1]>>,
                                               !.isNotWritable = TRUE]
          [] outcome = "error" -> [sent EXCEPT !.writeQueue = SubSeq(q, k + 2, Len(q)),
                                               !.broken = TRUE]

\* Mutant: the socket that would block is not noted as not writable.
FaultyBlockNotNoted(slot, k, outcome) ==
    LET q == slot.writeQueue
        sent == [slot EXCEPT !.wire = @ \o SubSeq(q, 1, k)]
    IN  CASE outcome = "empty" -> [sent EXCEPT !.writeQueue = <<>>]
          [] outcome = "block" -> [sent EXCEPT !.writeQueue = SubSeq(q, k + 1, Len(q))]
          [] outcome = "error" -> [sent EXCEPT !.writeQueue = SubSeq(q, k + 2, Len(q)),
                                               !.broken = TRUE]

SOPC_SocketsEventMgr_TreatWriteBuffer(slot, k, outcome) ==
    LET q == slot.writeQueue
        sent == [slot EXCEPT !.wire = @ \o SubSeq(q, 1, k)]
    IN  CASE outcome = "empty" -> [sent EXCEPT !.writeQueue = <<>>]
          [] outcome = "block" -> [sent EXCEPT !.writeQueue = SubSeq(q, k + 1, Len(q)),
                                               !.isNotWritable = TRUE]
          [] outcome = "error" -> [sent EXCEPT !.writeQueue = SubSeq(q, k + 2, Len(q)),
                                               !.broken = TRUE]

\* What the operating system can answer while the queue of slot is written.
WriteOutcomes(slot) ==
    IF slot.broken
    THEN IF slot.writeQueue = <<>> THEN {<<0, "empty">>} ELSE {<<0, "error">>}
    ELSE {<<Len(slot.writeQueue), "empty">>}
            \union ((0 .. Len(slot.writeQueue) - 1) \X ({"block"} \union (IF NetworkFails THEN {"error"} ELSE {})))

SOCKET_WRITE ==
    /\ Dispatch("SOCKET_WRITE")
    /\ inputQueue' = Tail(inputQueue)
    /\ LET idx == Head(inputQueue).id
           slot == socketsArray[idx]
           queued == [slot EXCEPT !.writeQueue = Append(@, Head(inputQueue).aux)]
           failure == <<Event("SOCKET_FAILURE", slot.connectionId, idx)>>
       IN  \/ /\ slot.state = "CONNECTED"
              /\ slot.isNotWritable
              /\ socketsArray' = [socketsArray EXCEPT ![idx] = queued]
              /\ UNCHANGED outputQueue
           \/ /\ slot.state = "CONNECTED"
              /\ ~slot.isNotWritable
              /\ \E o \in WriteOutcomes(queued) :
                    LET treated == [socketsArray EXCEPT ![idx] =
                                        SOPC_SocketsEventMgr_TreatWriteBuffer(queued, o[1], o[2])]
                    IN  IF o[2] = "error"
                        THEN /\ Emit(failure)
                             /\ socketsArray' = SOPC_SocketsInternalContext_CloseSocket(treated, idx)
                        ELSE /\ socketsArray' = treated
                             /\ UNCHANGED outputQueue
           \/ /\ slot.state # "CONNECTED"
              /\ Emit(failure)
              /\ socketsArray' = SOPC_SocketsInternalContext_CloseSocket(socketsArray, idx)
----------------------------------------------------------------------------
(* Network events: what select reports of a used slot.   *)

NetworkEvent(idx, states) ==
    /\ Calm
    /\ socketsArray[idx].isUsed
    /\ socketsArray[idx].state \in states
    /\ UNCHANGED <<inputQueue, upper, listener, retired>>

INT_SOCKET_LISTENER_CONNECTION_ATTEMPT(idx) ==
    /\ NetworkEvent(idx, {"LISTENING"})
    /\ LET acc == IF socketsArray[idx].listenerConnections < MaxListenerConnections
                  THEN SOPC_SocketsInternalContext_GetFreeSocket(socketsArray) ELSE 0
       IN  /\ acc # 0
           /\ \/ /\ socketsArray' = [Taken(socketsArray, acc) EXCEPT
                                        ![acc].isServerConnection = TRUE,
                                        ![acc].listenerSocketIdx = idx,
                                        ![acc].state = "ACCEPTED",
                                        ![idx].listenerConnections = @ + 1]
                 /\ Emit(<<Event("SOCKET_LISTENER_CONNECTION", socketsArray[idx].connectionId, acc)>>)
              \/ \* accept() fails
                 /\ socketsArray' = SOPC_SocketsInternalContext_CloseSocket(Taken(socketsArray, acc), acc)
                 /\ UNCHANGED outputQueue

\* The attempt in progress failed: one more address is tried, if there is one.
\* When that one is refused at once the slot is reset, its address list freed,
\* and only then is the failure reported and the next address read from the
\* freed list: any value.
INT_SOCKET_CONNECTION_ATTEMPT_FAILED(idx) ==
    /\ NetworkEvent(idx, {"CONNECTING"})
    /\ LET closed == [socketsArray EXCEPT ![idx].state = "CLOSED"]
           next == socketsArray[idx].nextConnectAttemptAddr
           refused == ConnectClient(closed, idx, FALSE)
       IN  \/ /\ next = 0
              /\ Emit(<<Event("SOCKET_FAILURE", closed[idx].connectionId, 0)>>)
              /\ socketsArray' = SOPC_SocketsInternalContext_CloseSocket(closed, idx)
           \/ /\ next # 0
              /\ socketsArray' = [ConnectClient(closed, idx, TRUE) EXCEPT
                                    ![idx].nextConnectAttemptAddr = 0, ![idx].connectAddrs = FALSE]
              /\ UNCHANGED outputQueue
           \/ /\ next # 0
              /\ Emit(<<Event("SOCKET_FAILURE", refused[idx].connectionId, 0)>>)
              /\ \E stale \in 0 .. MaxAddrs - 1 :
                    socketsArray' = SOPC_SocketsInternalContext_CloseSocket(
                        [refused EXCEPT ![idx].nextConnectAttemptAddr = stale], idx)

\* nextConnectAttemptAddr is only reset together with connectAddrs.
INT_SOCKET_CONNECTED(idx) ==
    /\ NetworkEvent(idx, {"CONNECTING"})
    /\ LET next == IF socketsArray[idx].connectAddrs THEN 0 ELSE socketsArray[idx].nextConnectAttemptAddr
       IN  socketsArray' = [socketsArray EXCEPT ![idx].state = "CONNECTED",
                                                ![idx].connectAddrs = FALSE,
                                                ![idx].nextConnectAttemptAddr = next]
    /\ Emit(<<Event("SOCKET_CONNECTION", socketsArray[idx].connectionId, idx)>>)

\* An exceptional condition reported for the socket.
INT_SOCKET_CLOSE(idx) ==
    /\ NetworkFails
    /\ NetworkEvent(idx, {"CONNECTING", "CONNECTED", "LISTENING"})
    /\ Emit(<<Event(IF socketsArray[idx].state = "LISTENING" THEN "SOCKET_LISTENER_FAILURE"
                    ELSE "SOCKET_FAILURE", socketsArray[idx].connectionId, idx)>>)
    /\ socketsArray' = SOPC_SocketsInternalContext_CloseSocket(socketsArray, idx)

\* A socket waits for input only while it is not waiting to be writable again.
INT_SOCKET_READY_TO_READ(idx) ==
    /\ NetworkEvent(idx, {"CONNECTED"})
    /\ ~socketsArray[idx].isNotWritable
    /\ \/ /\ ~socketsArray[idx].broken
          /\ Emit(<<Event("SOCKET_RCV_BYTES", socketsArray[idx].connectionId, idx)>>)
          /\ UNCHANGED socketsArray
       \/ \* end of stream or error
          /\ NetworkFails
          /\ Emit(<<Event("SOCKET_FAILURE", socketsArray[idx].connectionId, idx)>>)
          /\ socketsArray' = SOPC_SocketsInternalContext_CloseSocket(socketsArray, idx)

\* The result of the write treatment is not looked at.
INT_SOCKET_READY_TO_WRITE(idx) ==
    /\ NetworkEvent(idx, {"CONNECTED"})
    /\ socketsArray[idx].isNotWritable
    /\ LET slot == [socketsArray[idx] EXCEPT !.isNotWritable = FALSE]
       IN  \E o \in WriteOutcomes(slot) :
              socketsArray' = [socketsArray EXCEPT ![idx] =
                                  SOPC_SocketsEventMgr_TreatWriteBuffer(slot, o[1], o[2])]
    /\ UNCHANGED outputQueue
----------------------------------------------------------------------------
(* The Secure Channels layer as the user of the sockets.                     *)

Open == {"TCP_INIT", "OPEN"}

\* A closed slot is free; SC_InitNewConnection may pick any of them.
FreeConnections == {c \in Connections : /\ upper[c].state = "SC_CLOSED"
                                        /\ ReuseSlots \/ c \notin retired}

\* The next message of a connection, for its socket.
Write(c, conn) == Event("SOCKET_WRITE", conn.socketIndex, <<c, conn.written + 1>>)

SC_CONNECT(c) ==
    /\ Calm
    /\ c \in FreeConnections
    /\ upper' = [upper EXCEPT ![c] = [ClosedConnection EXCEPT !.state = "TCP_INIT"]]
    /\ Enqueue(<<Event("SOCKET_CREATE_CLIENT", c, 0)>>)
    /\ UNCHANGED <<socketsArray, outputQueue, listener, retired>>

EP_OPEN ==
    /\ Calm
    /\ listener.state = "CLOSED"
    /\ listener' = [ClosedListener EXCEPT !.state = "OPENING"]
    /\ Enqueue(<<Event("SOCKET_CREATE_SERVER", Endpoint, 0)>>)
    /\ UNCHANGED <<socketsArray, outputQueue, upper, retired>>

\* The connections of an opened listener are closed with it, before any other
\* event: each is sent an ERR message, then its socket is closed.
Served == {c \in Connections : listener.state = "OPENED" /\ upper[c].server}
Closings[n \in 0 .. NbConnections] ==
    IF n = 0 THEN <<>>
    ELSE (IF n \in Served
          THEN <<Write(n, upper[n]), Event("SOCKET_CLOSE", upper[n].socketIndex, n)>>
          ELSE <<>>) \o Closings[n - 1]

SOPC_SecureListenerStateMgr_CloseListener(requests) ==
    /\ listener' = ClosedListener
    /\ upper' = [c \in Connections |-> IF c \in Served THEN ClosedConnection ELSE upper[c]]
    /\ retired' = retired \union Served
    /\ Enqueue(requests \o Closings[NbConnections])
    /\ UNCHANGED socketsArray

EP_CLOSE ==
    /\ Calm
    /\ listener.state # "CLOSED"
    /\ SOPC_SecureListenerStateMgr_CloseListener(
            IF listener.state = "OPENED"
            THEN <<Event("SOCKET_CLOSE_SERVER", listener.socketIndex, Endpoint)>> ELSE <<>>)
    /\ UNCHANGED outputQueue

SendMessage(c) ==
    /\ Calm
    /\ upper[c].state = "OPEN"
    /\ upper[c].written < MaxWrites
    /\ upper' = [upper EXCEPT ![c].written = @ + 1]
    /\ Enqueue(<<Write(c, upper[c])>>)
    /\ UNCHANGED <<socketsArray, outputQueue, listener, retired>>

\* A timeout, an error or a request of the services.  An ERR or CLO message may
\* be written first.  A client need not have been told its socket yet: the
\* request to close then names slot 0.
SC_CloseConnection(c) ==
    /\ Calm
    /\ upper[c].state \in Open
    /\ upper' = [upper EXCEPT ![c] = ClosedConnection]
    /\ retired' = retired \union {c}
    /\ \E last \in {<<>>} \union (IF upper[c].socketIndex # 0 THEN {<<Write(c, upper[c])>>} ELSE {}) :
          Enqueue(last \o <<Event("SOCKET_CLOSE", upper[c].socketIndex, c)>>)
    /\ UNCHANGED <<socketsArray, outputQueue, listener>>

Treat(event) ==
    /\ outputQueue # <<>>
    /\ Head(outputQueue).event = event
    /\ outputQueue' = Tail(outputQueue)
    /\ UNCHANGED socketsArray

OnListenerOpened ==
    /\ Treat("SOCKET_LISTENER_OPENED")
    /\ LET s == Head(outputQueue).aux
       IN  IF listener.state = "OPENING"
           THEN /\ listener' = [state |-> "OPENED", socketIndex |-> s]
                /\ UNCHANGED inputQueue
           ELSE /\ Enqueue(<<Event("SOCKET_CLOSE_SERVER", s, Head(outputQueue).id)>>)
                /\ UNCHANGED listener
    /\ UNCHANGED <<upper, retired>>

OnListenerConnection ==
    /\ Treat("SOCKET_LISTENER_CONNECTION")
    /\ LET s == Head(outputQueue).aux
       IN  \/ /\ listener.state # "OPENED" \/ FreeConnections = {}
              /\ Enqueue(<<Event("SOCKET_CLOSE", s, 0)>>)
              /\ UNCHANGED upper
           \/ /\ listener.state = "OPENED"
              /\ \E c \in FreeConnections :
                    /\ upper' = [upper EXCEPT ![c] =
                            [state |-> "TCP_INIT", socketIndex |-> s, server |-> TRUE, written |-> 0]]
                    /\ Enqueue(<<Event("SOCKET_ACCEPTED_CONNECTION", s, c)>>)
    /\ UNCHANGED <<listener, retired>>

OnListenerFailure ==
    /\ Treat("SOCKET_LISTENER_FAILURE")
    /\ SOPC_SecureListenerStateMgr_CloseListener(<<>>)

\* The client's first message, HEL, is written at once.  A server connection
\* that took the slot over has no client configuration: it is closed.
OnConnection ==
    /\ Treat("SOCKET_CONNECTION")
    /\ LET c == Head(outputQueue).id
           s == Head(outputQueue).aux
           opened == [upper[c] EXCEPT !.state = "OPEN", !.socketIndex = s]
       IN  \/ /\ upper[c].state = "TCP_INIT" /\ ~upper[c].server
              /\ upper' = [upper EXCEPT ![c] = [opened EXCEPT !.written = 1]]
              /\ Enqueue(<<Write(c, opened)>>)
              /\ UNCHANGED retired
           \/ /\ upper[c].state = "TCP_INIT" /\ upper[c].server
              /\ upper' = [upper EXCEPT ![c] = ClosedConnection]
              /\ Enqueue(<<Write(c, upper[c]), Event("SOCKET_CLOSE", upper[c].socketIndex, c)>>)
              /\ retired' = retired \union {c}
           \/ /\ upper[c].state # "TCP_INIT"
              /\ Enqueue(<<Event("SOCKET_CLOSE", s, c)>>)
              /\ UNCHANGED <<upper, retired>>
    /\ UNCHANGED listener

\* The socket is taken to be closed already: no SOCKET_CLOSE.
OnFailure ==
    /\ Treat("SOCKET_FAILURE")
    /\ LET c == Head(outputQueue).id
           known == c \in Connections /\ upper[c].state \in Open
       IN  /\ upper' = IF known THEN [upper EXCEPT ![c] = ClosedConnection] ELSE upper
           /\ retired' = IF known THEN retired \union {c} ELSE retired
    /\ UNCHANGED <<inputQueue, listener>>

\* The first bytes a server connection receives are the client's HEL.
OnReceivedBytes ==
    /\ Treat("SOCKET_RCV_BYTES")
    /\ LET c == Head(outputQueue).id
       IN  upper' = IF upper[c].state = "TCP_INIT" /\ upper[c].server
                    THEN [upper EXCEPT ![c].state = "OPEN"] ELSE upper
    /\ UNCHANGED <<inputQueue, listener, retired>>
----------------------------------------------------------------------------
Init ==
    /\ socketsArray = [i \in Slots |-> ClosedSlot]
    /\ inputQueue = <<>>
    /\ outputQueue = <<>>
    /\ upper = [c \in Connections |-> ClosedConnection]
    /\ listener = ClosedListener
    /\ retired = {}

Dispatcher ==
    \/ SOCKET_CREATE_SERVER \/ SOCKET_ACCEPTED_CONNECTION \/ SOCKET_CREATE_CLIENT
    \/ SOCKET_CLOSE \/ SOCKET_CLOSE_SERVER \/ SOCKET_WRITE

UpperTreatsEvent ==
    \/ OnListenerOpened \/ OnListenerConnection \/ OnListenerFailure
    \/ OnConnection \/ OnFailure \/ OnReceivedBytes

Next ==
    \/ SOCKET_CREATE_SERVER
    \/ SOCKET_ACCEPTED_CONNECTION
    \/ SOCKET_CREATE_CLIENT
    \/ SOCKET_CLOSE
    \/ SOCKET_CLOSE_SERVER
    \/ SOCKET_WRITE
    \/ \E idx \in Slots \ {0} : INT_SOCKET_LISTENER_CONNECTION_ATTEMPT(idx)
    \/ \E idx \in Slots \ {0} : INT_SOCKET_CONNECTION_ATTEMPT_FAILED(idx)
    \/ \E idx \in Slots \ {0} : INT_SOCKET_CONNECTED(idx)
    \/ \E idx \in Slots \ {0} : INT_SOCKET_CLOSE(idx)
    \/ \E idx \in Slots \ {0} : INT_SOCKET_READY_TO_READ(idx)
    \/ \E idx \in Slots \ {0} : INT_SOCKET_READY_TO_WRITE(idx)
    \/ \E c \in Connections : SC_CONNECT(c)
    \/ \E c \in Connections : SendMessage(c)
    \/ \E c \in Connections : SC_CloseConnection(c)
    \/ EP_OPEN
    \/ EP_CLOSE
    \/ OnListenerOpened
    \/ OnListenerConnection
    \/ OnListenerFailure
    \/ OnConnection
    \/ OnFailure
    \/ OnReceivedBytes

Spec == Init /\ [][Next]_vars

\* Both threads run, and the system answers every connection attempt.
Fairness ==
    /\ WF_vars(Dispatcher)
    /\ WF_vars(UpperTreatsEvent)
    /\ \A idx \in Slots \ {0} :
          SF_vars(INT_SOCKET_CONNECTED(idx) \/ INT_SOCKET_CONNECTION_ATTEMPT_FAILED(idx))

FairSpec == Spec /\ Fairness
----------------------------------------------------------------------------
(* Properties *)

SlotType ==
    [isUsed : BOOLEAN, state : States, connectionId : 0 .. NbConnections,
     isServerConnection : BOOLEAN, listenerSocketIdx : Slots,
     listenerConnections : 0 .. MaxListenerConnections,
     isNotWritable : BOOLEAN, writeQueue : Seq(Connections \X Nat),
     connectAddrs : BOOLEAN, nextConnectAttemptAddr : 0 .. MaxAddrs - 1,
     wire : Seq(Connections \X Nat), broken : BOOLEAN]

\* Every slot, queue and upper layer record is well formed; in particular the
\* number of connections counted for a listener never exceeds its maximum.
TypeOK ==
    /\ \A i \in Slots : socketsArray[i] \in SlotType
    /\ \A k \in 1 .. Len(inputQueue) : inputQueue[k].id \in Nat
    /\ \A k \in 1 .. Len(outputQueue) : outputQueue[k].id \in 0 .. NbConnections
    /\ upper \in [Connections -> [state : {"SC_CLOSED"} \union Open, socketIndex : Slots,
                                  server : BOOLEAN, written : 0 .. MaxWrites + 1]]
    /\ listener \in [state : {"CLOSED", "OPENING", "OPENED"}, socketIndex : Slots]
    /\ retired \subseteq Connections

\* The buffers that wait in the requests for a write on slot s.
PendingWrites(s) ==
    LET isWrite(e) == e.event = "SOCKET_WRITE" /\ e.id = s
        writes == SelectSeq(inputQueue, isWrite)
    IN  [k \in 1 .. Len(writes) |-> writes[k].aux]

\* Every variable has its type, and a buffer waits in the write queue of a healthy
\* socket only while select watches that socket for writing: it cannot be forgotten
\* there.
NoForgottenBuffer ==
    /\ TypeOK
    /\ \A i \in Slots : /\ socketsArray[i].state = "CONNECTED"
                        /\ ~socketsArray[i].broken
                        /\ socketsArray[i].writeQueue # <<>>
                        => socketsArray[i].isNotWritable

\* What a healthy open connection wrote is on the wire, in the write queue or
\* in the requests: all of it, once, in the order it was written.
StreamInOrder ==
    \A c \in Connections :
        LET s == upper[c].socketIndex
        IN  /\ upper[c].state = "OPEN"
            /\ socketsArray[s].state = "CONNECTED"
            /\ socketsArray[s].connectionId = c
            /\ ~socketsArray[s].broken
            => socketsArray[s].wire \o socketsArray[s].writeQueue \o PendingWrites(s)
                    = [n \in 1 .. upper[c].written |-> <<c, n>>]

Quiescent == inputQueue = <<>> /\ outputQueue = <<>>

\* When both queues are empty, every connected or accepted socket belongs to an
\* open secure connection that knows it: a socket cannot be left behind.
NoSocketLeak ==
    Quiescent => \A i \in Slots : socketsArray[i].state \in {"CONNECTED", "ACCEPTED"} =>
                    /\ socketsArray[i].connectionId \in Connections
                    /\ upper[socketsArray[i].connectionId].state \in Open
                    /\ upper[socketsArray[i].connectionId].socketIndex = i

\* A client that asked for a connection learns its outcome: the slot does not
\* stay in TCP_INIT for ever, whether or not its timer is there to close it.
ClientAnswered ==
    \A c \in Connections : (upper[c].state = "TCP_INIT" /\ ~upper[c].server)
                                ~> (upper[c].state # "TCP_INIT")
==============================================================================
