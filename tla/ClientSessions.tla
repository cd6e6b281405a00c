--------------------------- MODULE ClientSessions ---------------------------
(***************************************************************************)
(* The client side of the services layer: the dispatch of events           *)
(* (bgenc/io_dispatch_mgr.c, sopc_services_api.c), the session state       *)
(* machine (bgenc/session_mgr.c, session_core.c, session_core_1.c), the    *)
(* request handles (b2c/request_handle_bs.c, session_request_handle_bs.c)  *)
(* and the notifications to the application (b2c/session_core_bs.c).       *)
(*                                                                         *)
(* One thread treats one queue, into which the application, the secure     *)
(* channels layer and services themselves post.  The secure channels layer *)
(* is what module SecureChannels shows of it, together with the table of   *)
(* sent requests of the chunks manager: a connection asked for is answered *)
(* once, a connected channel is lost once, a sent request is answered,     *)
(* expires, or fails with its channel.  The application hears a            *)
(* notification when it is sent.                                           *)
(***************************************************************************)
EXTENDS ChannelMgr, SequencesExt

CONSTANTS
    MaxSessions,    \* SOPC_MAX_SESSIONS
    MaxHandles,     \* SOPC_MAX_PENDING_REQUESTS
    Contexts,       \* session contexts of the application
    Requests,       \* request contexts of the application
    MaxInFlight,    \* bound: queued events below which the others may act
    ChecksFail,     \* the making of a session request, or of its chunks, may fail
    Unencodable,    \* the encoding of a request of the application may fail
    Statuses,       \* what a response may be: "good", "bad", "undecodable"
    ClosesAll,      \* values of clientOnly for which all channels are closed
    ServerConfigs,  \* configurations of the channels accepted as a server
    ReuseIndex      \* may an index be taken again before services have heard of
                    \* the end of its previous connection?

ASSUME ClientSessionsAssumption ==
    /\ MaxSessions \in Nat \ {0} /\ MaxHandles \in Nat \ {0} /\ MaxInFlight \in Nat
    /\ IsFiniteSet(Contexts) /\ 0 \notin Contexts
    /\ IsFiniteSet(Requests) /\ 0 \notin Requests
    /\ {ChecksFail, Unencodable, ReuseIndex} \subseteq BOOLEAN
    /\ Statuses \subseteq {"good", "bad", "undecodable"}
    /\ ClosesAll \subseteq BOOLEAN
    /\ ServerConfigs \subseteq Configs

VARIABLES
    cm,         \* the channel manager
    sessions,   \* session_core_2 and the application context of each session
    reverse,    \* a_reverse_channel: one session of each channel
    handles,    \* client_requests_context and client_requests_channel
    cpt,        \* request_handle_bs: the last handle given out
    owners,     \* client_requests of session_request_handle_bs
    queue,      \* the queue of the services looper
    toSC,       \* requests posted to the secure channels looper
    sc,         \* the secure channels layer: phase and sent requests
    app,        \* the application: what it was told of each session context
    unanswered, \* the application: requests sent minus answers heard
    closer      \* SOPC_Services_CloseAllSCs: what its caller waits for

vars == <<cm, sessions, reverse, handles, cpt, owners, queue, toSC, sc, app,
          unanswered, closer>>

Sessions == 1..MaxSessions
Handles == 1..MaxHandles
ClientConfigs == Configs \ ServerConfigs

ClosedSession == [state |-> "closed", channel |-> 0, to_create |-> 0, orphaned |-> 0, ctx |-> 0]
FreeHandle == [resp |-> "none", channel |-> 0, app |-> 0]
ClosedChannel == [phase |-> "closed", config |-> 0, sent |-> <<>>]
Unknown == [view |-> "none", session |-> 0]

\* The state the handlers of the services looper read and change.
Current ==
    [cm |-> cm, sessions |-> sessions, reverse |-> reverse, handles |-> handles,
     cpt |-> cpt, owners |-> owners, queue |-> queue, toSC |-> toSC, app |-> app,
     unanswered |-> unanswered]

\* The set of one element has the next state computed once.
Becomes(next) ==
    \E st \in {next} :
        /\ cm' = st.cm /\ sessions' = st.sessions /\ reverse' = st.reverse
        /\ handles' = st.handles /\ cpt' = st.cpt /\ owners' = st.owners
        /\ queue' = st.queue /\ toSC' = st.toSC /\ app' = st.app
        /\ unanswered' = st.unanswered

Post(st, event) == [st EXCEPT !.queue = Append(@, event)]
Init ==
    /\ cm = ChannelMgrInit
    /\ sessions = [s \in Sessions |-> ClosedSession]
    /\ reverse = [c \in Channels |-> 0]
    /\ handles = [h \in Handles |-> FreeHandle] /\ cpt = 0
    /\ owners = [h \in Handles |-> 0]
    /\ queue = <<>> /\ toSC = <<>>
    /\ sc = [c \in Channels |-> ClosedChannel]
    /\ app = [x \in Contexts |-> Unknown]
    /\ unanswered = [r \in Requests |-> 0]
    /\ closer = "none"
-----------------------------------------------------------------------------
(* Sessions: states, notifications, closing.                               *)

\* Fault: the failure of an activation is not told.
FaultyNotification(before, after) ==
    CASE after = "userActivated" -> "SE_ACTIVATED_SESSION"
      [] after = "scOrphaned" -> "SE_SESSION_REACTIVATING"
      [] after \in {"userActivating", "scActivating"} /\ before = "userActivated" ->
            "SE_SESSION_REACTIVATING"
      [] after = "closed" /\ before \in {"closing", "userActivated"} -> "SE_CLOSED_SESSION"
      [] OTHER -> "none"

\* What the application is told when a session changes state; a session
\* without application context is not spoken of.
Notification(before, after) ==
    CASE after = "userActivated" -> "SE_ACTIVATED_SESSION"
      [] after = "scOrphaned" -> "SE_SESSION_REACTIVATING"
      [] after \in {"userActivating", "scActivating"} /\ before = "userActivated" ->
            "SE_SESSION_REACTIVATING"
      [] after = "closed" /\ before \in {"closing", "userActivated"} -> "SE_CLOSED_SESSION"
      [] after = "closed" /\ before \notin {"closing", "userActivated"} ->
            "SE_SESSION_ACTIVATION_FAILURE"
      [] OTHER -> "none"

Hears(known, event, s) ==
    CASE event = "SE_ACTIVATED_SESSION" -> [view |-> "active", session |-> s]
      [] event = "SE_SESSION_REACTIVATING" -> [view |-> "reactivating", session |-> s]
      [] event \in {"SE_CLOSED_SESSION", "SE_SESSION_ACTIVATION_FAILURE"} -> Unknown
      [] OTHER -> known

notify_set_session_state(st, s, after) ==
    LET x == st.sessions[s].ctx
    IN  IF x = 0 THEN st
        ELSE [st EXCEPT !.app[x] = Hears(@, Notification(st.sessions[s].state, after), s)]

set_session_state(st, s, state) ==
    [notify_set_session_state(st, s, state) EXCEPT !.sessions[s].state = state]

reset_session_channel(st, s) ==
    LET c == st.sessions[s].channel
    IN  [st EXCEPT !.reverse = IF c = 0 THEN @ ELSE [@ EXCEPT ![c] = 0],
                   !.sessions[s].channel = 0]

set_session_channel(st, s, c) ==
    [reset_session_channel(st, s) EXCEPT !.reverse[c] = s, !.sessions[s].channel = c]

set_session_state_closed(st, s) ==
    [reset_session_channel(notify_set_session_state(st, s, "closed"), s)
        EXCEPT !.sessions[s] = ClosedSession]

\* The handles lose their session, and stay taken in request_handle_bs.
client_remove_all_request_handles(st, s) ==
    [st EXCEPT !.owners = [h \in Handles |-> IF @[h] = s THEN 0 ELSE @[h]]]

\* Fault: the requests of the session remain its own.
FaultyCloseSession(st, s) == set_session_state_closed(st, s)

local_client_close_session(st, s) ==
    set_session_state_closed(client_remove_all_request_handles(st, s), s)

\* The first session that is closed; sessions are looked at from the last one.
init_new_session(st) ==
    LET free == {s \in Sessions : st.sessions[s].state = "closed"}
    IN  IF free = {} THEN 0 ELSE CHOOSE s \in free : \A r \in free : r <= s

set_session_orphaned(st, s, g) ==
    [reset_session_channel(st, s) EXCEPT !.sessions[s].orphaned = g]
-----------------------------------------------------------------------------
(* Request handles.                                                        *)

\* Round robin from the one after the last given out, which is itself not tried.
client_fresh_req_handle(st) ==
    LET Steps(h) == (h - st.cpt) % (MaxHandles + 1)
        free == {h \in Handles : h # st.cpt /\ st.handles[h].resp = "none"}
    IN  IF free = {} THEN 0 ELSE CHOOSE h \in free : \A k \in free : Steps(h) <= Steps(k)

Take(st, h, resp, c, r) ==
    [st EXCEPT !.cpt = h, !.handles[h] = [resp |-> resp, channel |-> c, app |-> r]]

client_remove_req_handle(st, h) == [st EXCEPT !.handles[h] = FreeHandle]

is_valid_req_handle(st, h) == st.handles[h].resp # "none"

client_validate_response_request_handle(st, c, h, typ) ==
    is_valid_req_handle(st, h) /\ typ \in {st.handles[h].resp, "fault"}
    /\ st.handles[h].channel = c

send_channel_msg_buffer(st, c, h) ==
    [st EXCEPT !.toSC = Append(@, Event("SC_SERVICE_SND_MSG", c,
                                        [handle |-> h, typ |-> st.handles[h].resp]))]

\* The request belongs to the session and goes on its channel.
Sent(st, s, c, h) ==
    send_channel_msg_buffer([st EXCEPT !.owners[h] = s, !.handles[h].channel = c], c, h)

Answered(st, r) == [st EXCEPT !.unanswered[r] = @ - 1]
-----------------------------------------------------------------------------
(* Events from the application and from services themselves.  A request is *)
(* made, or refused by a security check, or it cannot be encoded.          *)

Outcomes == IF ChecksFail THEN {"ok", "refused", "unencoded"} ELSE {"ok"}

\* The oldest connected channel that no session is recorded for.
find_channel_to_close(st) ==
    LET idle == SelectSeq(st.cm.since, LAMBDA c : st.reverse[c] = 0)
    IN  IF idle = <<>> THEN 0 ELSE Head(idle)

\* At the maximum, a channel without session is closed to make room.
ToClose(st) == IF is_auto_close_channel_active(st.cm) THEN find_channel_to_close(st) ELSE 0

l_may_close_secure_channel_without_session(st) ==
    IF ToClose(st) = 0 THEN st ELSE l_close_secure_channel(st, ToClose(st))

client_async_activate_new_session(st, g, x, withChannel) ==
    LET s == init_new_session(st)
        new == [ClosedSession EXCEPT !.state = "init", !.ctx = x,
                                     !.to_create = IF withChannel THEN 0 ELSE g]
    IN  IF s = 0 THEN [st EXCEPT !.app[x] = Unknown]
        ELSE IF withChannel
        THEN Post([st EXCEPT !.sessions[s] = new], Event("CREATE_SESSION", s, g))
        ELSE [st EXCEPT !.sessions[s] = new]

client_activate_new_session(st, g, x) ==
    LET made == l_may_close_secure_channel_without_session(st)
    IN  IF get_connected_channel(st.cm, g) # 0
        THEN client_async_activate_new_session(st, g, x, TRUE)
        ELSE IF cli_open_allowed(made.cm, g, ToClose(st) # 0)
        THEN client_async_activate_new_session(cli_open_secure_channel(made, g), g, x, FALSE)
        ELSE [made EXCEPT !.app[x] = Unknown]

\* A handle taken for a request that is then refused stays taken.
client_send_service_request(st, s, r, made) ==
    LET h == client_fresh_req_handle(st)
        taken == Take(st, h, "service", 0, r)
        c == st.sessions[s].channel
    IN  IF st.sessions[s].state = "closed" \/ h = 0 THEN Answered(st, r)
        ELSE IF st.sessions[s].state # "userActivated" THEN Answered(taken, r)
        ELSE IF made # "ok"
        THEN Answered([taken EXCEPT !.owners[h] = s, !.handles[h].channel = c], r)
        ELSE Sent(taken, s, c, h)

client_send_close_session_request(st, s, made) ==
    LET h == client_fresh_req_handle(st)
        taken == Take(st, h, "close", 0, 0)
        c == st.sessions[s].channel
        closable == /\ st.sessions[s].state \in {"created", "userActivating", "userActivated"}
                    /\ is_connected_channel(st.cm, c)
    IN  IF st.sessions[s].state = "closed" \/ h = 0 THEN st
        ELSE IF ~closable THEN local_client_close_session(taken, s)
        ELSE IF made # "ok"
        THEN local_client_close_session(
                client_remove_req_handle(set_session_state(taken, s, "closing"), h), s)
        ELSE Sent(set_session_state(taken, s, "closing"), s, c, h)

\* SE_TO_SE_CREATE_SESSION.
internal_client_create_session(st, s, g, made) ==
    LET c == get_connected_channel(st.cm, g)
        h == client_fresh_req_handle(st)
        creating == set_session_state(
                        set_session_channel(Take(st, h, "create", c, 0), s, c), s, "creating")
    IN  IF c = 0 \/ h = 0 THEN local_client_close_session(st, s)
        ELSE IF st.sessions[s].state # "init" \/ made # "ok"
        THEN local_client_close_session(
                client_remove_req_handle(Take(st, h, "create", c, 0), h), s)
        ELSE Sent(creating, s, c, h)

\* SE_TO_SE_ACTIVATE_SESSION, for the user of the session.
client_reactivate_session_new_user(st, s, made) ==
    LET c == st.sessions[s].channel
        h == client_fresh_req_handle(st)
        taken == Take(st, h, "activate", 0, 0)
        ready == /\ st.sessions[s].state \in {"created", "userActivated"}
                 /\ is_connected_channel(st.cm, c)
    IN  IF st.sessions[s].state = "closed" THEN st
        ELSE IF h = 0 THEN local_client_close_session(st, s)
        ELSE IF ~ready \/ made = "refused" THEN local_client_close_session(taken, s)
        ELSE IF made = "unencoded"
        THEN local_client_close_session(
                client_remove_req_handle(set_session_state(taken, s, "userActivating"), h), s)
        ELSE Sent(set_session_state(taken, s, "userActivating"), s, c, h)

\* SE_TO_SE_ACTIVATE_ORPHANED_SESSION: nothing is done without a channel.
internal_client_activate_orphaned_session(st, s, g, made) ==
    LET c == get_connected_channel(st.cm, g)
        h == client_fresh_req_handle(st)
        taken == Take(st, h, "activate", c, 0)
        activating == set_session_state(set_session_channel(taken, s, c), s, "scActivating")
    IN  IF c = 0 \/ h = 0 THEN st
        ELSE IF st.sessions[s].state \notin {"scOrphaned", "userActivated"} THEN taken
        ELSE IF made # "ok"
        THEN local_client_close_session(client_remove_req_handle(activating, h), s)
        ELSE Sent(activating, s, c, h)
-----------------------------------------------------------------------------
(* Events from the secure channels layer.                                  *)

\* The iteration over the sessions, from the last one.
AllSessions == [i \in Sessions |-> MaxSessions + 1 - i]

\* Orphaned sessions are to be activated on the channel, new ones created.
local_client_activate_sessions_on_SC_connection(st, g) ==
    LET Wake(acc, s) ==
            LET woken == IF acc.sessions[s].orphaned # g THEN acc
                         ELSE Post(acc, Event("ACTIVATE_ORPHANED_SESSION", s, g))
            IN  IF acc.sessions[s].to_create # g THEN woken
                ELSE Post([woken EXCEPT !.sessions[s].to_create = 0],
                          Event("CREATE_SESSION", s, g))
    IN  FoldLeft(Wake, st, AllSessions)

client_channel_connected_event(st, g, c) ==
    IF cli_set_connected_allowed(st.cm, g, c)
    THEN local_client_activate_sessions_on_SC_connection(
            [st EXCEPT !.cm = cli_set_connected_channel(@, g, c)], g)
    ELSE st

\* Fault: only orphaned sessions are closed.
FaultyChannelTimeout(st, g) ==
    LET Fail(acc, s) == IF g = acc.sessions[s].orphaned
                        THEN local_client_close_session(acc, s) ELSE acc
    IN  [FoldLeft(Fail, st, AllSessions)
            EXCEPT !.cm = cli_set_connection_timeout_channel(@, g)]

client_secure_channel_timeout(st, g) ==
    LET Fail(acc, s) == IF g \in {acc.sessions[s].orphaned, acc.sessions[s].to_create}
                        THEN local_client_close_session(acc, s) ELSE acc
    IN  [FoldLeft(Fail, st, AllSessions)
            EXCEPT !.cm = cli_set_connection_timeout_channel(@, g)]

\* A channel beyond the maximum is refused.
server_channel_connected_event(st, g, c) ==
    LET made == l_may_close_secure_channel_without_session(st)
    IN  IF srv_new_allowed(made.cm, c, g, ToClose(st) # 0)
        THEN [made EXCEPT !.cm = add_channel_connected(@, c, g, TRUE)]
        ELSE [made EXCEPT !.toSC = Append(@, Event("SC_DISCONNECT", c, 0))]

\* Fault: only active sessions are looked at.
FaultyLostSessions(st, c, g) ==
    LET Lose(acc, s) ==
            IF acc.sessions[s].channel = c /\ acc.sessions[s].state = "userActivated"
            THEN set_session_state(set_session_orphaned(acc, s, g), s, "scOrphaned") ELSE acc
    IN  FoldLeft(Lose, st, AllSessions)

\* An active session becomes orphaned, another one is closed; the handles of
\* its requests are left as they are.
client_secure_channel_lost_session_sm(st, c, g) ==
    LET Lose(acc, s) ==
            IF acc.sessions[s].channel # c THEN acc
            ELSE IF acc.sessions[s].state = "userActivated"
            THEN set_session_state(set_session_orphaned(acc, s, g), s, "scOrphaned")
            ELSE set_session_state_closed(acc, s)
    IN  FoldLeft(Lose, st, AllSessions)

\* The channel that is lost is still the connected one of its configuration
\* when a new one is looked for.
secure_channel_lost(st, c) ==
    LET g == st.cm.config[c]
        lost == client_secure_channel_lost_session_sm(st, c, g)
        made == l_may_close_secure_channel_without_session(lost)
        after == IF g \in st.cm.disconnecting THEN lost
                 ELSE IF get_connected_channel(lost.cm, g) # 0
                 THEN local_client_activate_sessions_on_SC_connection(lost, g)
                 ELSE IF cli_open_allowed(made.cm, g, ToClose(lost) # 0)
                 THEN cli_open_secure_channel(made, g) ELSE made
    IN  IF ~is_connected_channel(st.cm, c) THEN st
        ELSE channel_lost(IF is_client_channel(st.cm, c) THEN after ELSE st, c)

\* The session a request was sent for, which forgets it.
client_get_session_and_remove_request_handle(st, h) == [st EXCEPT !.owners[h] = 0]

CloseIfOpen(st, s) ==
    IF s = 0 \/ st.sessions[s].state = "closed" THEN st ELSE local_client_close_session(st, s)

\* The state that a response of this type answers, and the one it leads to.
Awaits(typ) == CASE typ = "create" -> {"creating"}
                 [] typ = "activate" -> {"userActivating", "scActivating"}
                 [] typ = "close" -> {"closing"}

client_receive_session_resp(st, c, h, typ, status) ==
    LET s == st.owners[h]
        freed == client_get_session_and_remove_request_handle(st, h)
        expected == /\ s # 0 /\ status = "good"
                    /\ st.sessions[s].state \in Awaits(typ) /\ st.sessions[s].channel = c
    IN  IF ~expected \/ typ = "close" THEN CloseIfOpen(freed, s)
        ELSE IF typ = "create"
        THEN Post(set_session_state(freed, s, "created"), Event("ACTIVATE_SESSION", s, 0))
        ELSE set_session_state(freed, s, "userActivated")

\* A message that cannot be decoded frees the handle and nothing else.
client_receive_session_treatment_resp(st, c, h, typ, status) ==
    IF ~client_validate_response_request_handle(st, c, h, typ) THEN st
    ELSE client_remove_req_handle(
            IF status = "undecodable" THEN st
            ELSE client_receive_session_resp(st, c, h, typ, status), h)

client_validate_session_service_resp(st, c, s) ==
    s # 0 /\ st.sessions[s].state = "userActivated" /\ st.sessions[s].channel = c

\* A response to a session that is no longer active on this channel closes it,
\* and the application does not hear of the response.
client_receive_session_service_resp(st, c, h, status) ==
    LET s == st.owners[h]
        freed == client_get_session_and_remove_request_handle(st, h)
        treated == IF ~client_validate_session_service_resp(st, c, s) THEN CloseIfOpen(freed, s)
                   ELSE IF status = "undecodable" THEN freed
                   ELSE Answered(freed, st.handles[h].app)
    IN  IF client_validate_response_request_handle(st, c, h, "service")
        THEN client_remove_req_handle(treated, h) ELSE st

receive_msg_buffer(st, c, h, typ, status) ==
    IF ~is_connected_channel(st.cm, c) THEN st
    ELSE IF typ = "service" THEN client_receive_session_service_resp(st, c, h, status)
    ELSE client_receive_session_treatment_resp(st, c, h, typ, status)

\* Fault: the handle of a request that failed stays valid.
FaultySndMsgFailure(st, c, h) ==
    IF ~is_connected_channel(st.cm, c) \/ ~is_valid_req_handle(st, h) \/ st.handles[h].channel # c
    THEN st
    ELSE IF st.handles[h].resp = "service" THEN Answered(st, st.handles[h].app)
    ELSE CloseIfOpen(client_get_session_and_remove_request_handle(st, h), st.owners[h])

\* The handle of a session request is not removed.
client_snd_msg_failure(st, c, h) ==
    IF ~is_connected_channel(st.cm, c) \/ ~is_valid_req_handle(st, h) \/ st.handles[h].channel # c
    THEN st
    ELSE IF st.handles[h].resp = "service"
    THEN Answered(client_remove_req_handle(st, h), st.handles[h].app)
    ELSE CloseIfOpen(client_get_session_and_remove_request_handle(st, h), st.owners[h])
-----------------------------------------------------------------------------
(* The services looper: onServiceEvent and onSecureChannelEvent, one event *)
(* at a time.                                                              *)

Treats(name) == queue # <<>> /\ Head(queue).name = name
Rest == [Current EXCEPT !.queue = Tail(queue)]
Does(st) == Becomes(st) /\ UNCHANGED <<sc, closer>>

AppToSeActivateSession ==
    /\ Treats("APP_ACTIVATE_SESSION")
    /\ Does(client_activate_new_session(Rest, Head(queue).id, Head(queue).aux))

AppToSeSendSessionRequest ==
    /\ Treats("APP_SEND_SESSION_REQUEST")
    /\ \E made \in IF Unencodable THEN {"ok", "unencoded"} ELSE {"ok"} :
          Does(client_send_service_request(Rest, Head(queue).id, Head(queue).aux, made))

AppToSeCloseSession ==
    /\ Treats("APP_CLOSE_SESSION")
    /\ \E made \in Outcomes \ {"refused"} :
          Does(client_send_close_session_request(Rest, Head(queue).id, made))

SeToSeCreateSession ==
    /\ Treats("CREATE_SESSION")
    /\ \E made \in Outcomes :
          Does(internal_client_create_session(Rest, Head(queue).id, Head(queue).aux, made))

SeToSeActivateSession ==
    /\ Treats("ACTIVATE_SESSION")
    /\ \E made \in Outcomes : Does(client_reactivate_session_new_user(Rest, Head(queue).id, made))

SeToSeActivateOrphanedSession ==
    /\ Treats("ACTIVATE_ORPHANED_SESSION")
    /\ \E made \in Outcomes \ {"refused"} :
          Does(internal_client_activate_orphaned_session(Rest, Head(queue).id,
                                                         Head(queue).aux, made))

ScConnected ==
    /\ Treats("SC_CONNECTED")
    /\ Does(client_channel_connected_event(Rest, Head(queue).aux, Head(queue).id))

ScConnectionTimeout ==
    /\ Treats("SC_CONNECTION_TIMEOUT")
    /\ Does(client_secure_channel_timeout(Rest, Head(queue).id))

EpConnected ==
    /\ Treats("EP_CONNECTED")
    /\ Does(server_channel_connected_event(Rest, Head(queue).aux, Head(queue).id))

ScDisconnected ==
    /\ Treats("SC_DISCONNECTED")
    /\ Does(secure_channel_lost(Rest, Head(queue).id))

ScServiceRcvMsg ==
    /\ Treats("SC_SERVICE_RCV_MSG")
    /\ LET m == Head(queue).aux
       IN  Does(receive_msg_buffer(Rest, Head(queue).id, m.handle, m.typ, m.status))

\* SC_SND_FAILURE and SC_REQUEST_TIMEOUT are treated alike.
ScSndFailure ==
    /\ Treats("SC_SND_FAILURE")
    /\ Does(client_snd_msg_failure(Rest, Head(queue).id, Head(queue).aux))

\* SOPC_Internal_AllClientSecureChannelsDisconnected, and the caller's waking.
AllDisconnected(st) ==
    /\ Becomes(st)
    /\ closer' = "none"
    /\ UNCHANGED sc

SeToSeScAllDisconnected ==
    /\ Treats("SC_ALL_DISCONNECTED")
    /\ AllDisconnected(Rest)

AppToSeCloseAllConnections ==
    /\ Treats("APP_CLOSE_ALL_CONNECTIONS")
    /\ LET b == Head(queue).aux
       IN  IF Concerned(cm, b) = {}
           THEN AllDisconnected(close_all_channel(Rest, b))
           ELSE Does(close_all_channel(Rest, b))

ServicesStep ==
    \/ AppToSeActivateSession \/ AppToSeSendSessionRequest \/ AppToSeCloseSession
    \/ SeToSeCreateSession \/ SeToSeActivateSession \/ SeToSeActivateOrphanedSession
    \/ ScConnected \/ ScConnectionTimeout \/ EpConnected \/ ScDisconnected
    \/ ScServiceRcvMsg \/ ScSndFailure \/ SeToSeScAllDisconnected
    \/ AppToSeCloseAllConnections
-----------------------------------------------------------------------------
(* The secure channels layer, as module SecureChannels shows it.           *)

\* What is not an answer happens only while few events are in flight.
Calm == Len(queue) + Len(toSC) < MaxInFlight

Queued(events) == queue' = queue \o events
SameServices == UNCHANGED <<cm, sessions, reverse, handles, cpt, owners, app, unanswered, closer>>

ScTreats(name) == toSC # <<>> /\ Head(toSC).name = name /\ toSC' = Tail(toSC)

\* The array of connections is walked round, so that an index comes back when all
\* others have been taken: services then have heard of the end of its previous
\* connection, unless the array is nearly full (ReuseIndex).
Takes(c) ==
    /\ sc[c].phase = "closed"
    /\ ReuseIndex \/ /\ ~is_connected_channel(cm, c)
                     /\ \A i \in DOMAIN queue :
                           queue[i].name \in {"SC_CONNECTED", "EP_CONNECTED"} => queue[i].id # c

\* SC_CONNECT: any free connection is taken, or the attempt fails.
ScConnect ==
    /\ ScTreats("SC_CONNECT")
    /\ \/ \E c \in Channels :
             /\ Takes(c)
             /\ sc' = [sc EXCEPT ![c] = [ClosedChannel EXCEPT !.phase = "opening",
                                                              !.config = Head(toSC).id]]
             /\ UNCHANGED queue
       \/ /\ Queued(<<Event("SC_CONNECTION_TIMEOUT", Head(toSC).id, 0)>>)
          /\ UNCHANGED sc
    /\ SameServices

\* Closing fails the requests on the wire; those whose chunks were not yet
\* treated, the last ones, are dropped without a word.
Closes(c, kept) ==
    LET failed == SubSeq(sc[c].sent, 1, kept)
    IN  /\ \A i \in kept + 1..Len(sc[c].sent) : ~sc[c].sent[i].expired
        /\ Queued([i \in 1..kept |-> Event("SC_SND_FAILURE", c, failed[i].handle)]
                     \o <<Event("SC_DISCONNECTED", c, 0)>>)
        /\ sc' = [sc EXCEPT ![c] = ClosedChannel]

ScDisconnect ==
    /\ ScTreats("SC_DISCONNECT")
    /\ LET c == Head(toSC).id
       IN  CASE sc[c].phase = "up" -> \E kept \in 0..Len(sc[c].sent) : Closes(c, kept)
             [] sc[c].phase = "opening" ->
                  /\ Queued(<<Event("SC_CONNECTION_TIMEOUT", sc[c].config, 0)>>)
                  /\ sc' = [sc EXCEPT ![c] = ClosedChannel]
             [] sc[c].phase = "closed" -> UNCHANGED <<queue, sc>>
    /\ SameServices

\* A request is recorded when its last chunk has been made; a connection of the
\* server side, if the index was taken over by one, sends it as a response.
ScSend ==
    /\ ScTreats("SC_SERVICE_SND_MSG")
    /\ LET c == Head(toSC).id
           m == Head(toSC).aux
       IN  \/ /\ sc[c].phase = "up"
              /\ sc' = IF sc[c].config \in ServerConfigs THEN sc
                       ELSE [sc EXCEPT ![c].sent = Append(@, [handle |-> m.handle, typ |-> m.typ,
                                                              expired |-> FALSE])]
              /\ UNCHANGED queue
           \/ /\ sc[c].phase # "up" \/ ChecksFail
              /\ Queued(<<Event("SC_SND_FAILURE", c, m.handle)>>)
              /\ UNCHANGED sc
    /\ SameServices

\* The handshake passes through the queue of the layer: what was posted there
\* for the previous connection of this index has been treated.
ScOpened(c) ==
    /\ sc[c].phase = "opening"
    /\ \A i \in DOMAIN toSC : toSC[i].name = "SC_CONNECT" \/ toSC[i].id # c
    /\ \/ /\ sc' = [sc EXCEPT ![c].phase = "up"]
          /\ Queued(<<Event("SC_CONNECTED", c, sc[c].config)>>)
       \/ /\ sc' = [sc EXCEPT ![c] = ClosedChannel]
          /\ Queued(<<Event("SC_CONNECTION_TIMEOUT", sc[c].config, 0)>>)
    /\ UNCHANGED toSC /\ SameServices

ScAccepts(c) ==
    /\ Calm /\ Takes(c)
    /\ \A i \in DOMAIN toSC : toSC[i].name = "SC_CONNECT" \/ toSC[i].id # c
    /\ \E g \in ServerConfigs :
          /\ \A d \in Channels : sc[d].config # g
          /\ sc' = [sc EXCEPT ![c] = [ClosedChannel EXCEPT !.phase = "up", !.config = g]]
          /\ Queued(<<Event("EP_CONNECTED", c, g)>>)
    /\ UNCHANGED toSC /\ SameServices

ScLost(c) ==
    /\ Calm /\ sc[c].phase = "up"
    /\ \E kept \in 0..Len(sc[c].sent) : Closes(c, kept)
    /\ UNCHANGED toSC /\ SameServices

\* A response comes in any order; one that is too late is not passed on.
ScResponse(c) ==
    /\ \E i \in DOMAIN sc[c].sent, status \in Statuses :
          LET m == sc[c].sent[i]
          IN  /\ sc' = [sc EXCEPT ![c].sent = RemoveAt(@, i)]
              /\ IF m.expired THEN UNCHANGED queue
                 ELSE Queued(<<Event("SC_SERVICE_RCV_MSG", c,
                                     [handle |-> m.handle, typ |-> m.typ, status |-> status])>>)
    /\ UNCHANGED toSC /\ SameServices

ScRequestTimeout(c) ==
    /\ \E i \in DOMAIN sc[c].sent :
          /\ ~sc[c].sent[i].expired
          /\ sc' = [sc EXCEPT ![c].sent[i].expired = TRUE]
          /\ Queued(<<Event("SC_SND_FAILURE", c, sc[c].sent[i].handle)>>)
    /\ UNCHANGED toSC /\ SameServices
-----------------------------------------------------------------------------
(* The application.                                                        *)

\* The application also waits while many requests are on the wire.
OnWire == UNION {{c} \X DOMAIN sc[c].sent : c \in Channels}
Quiet == Len(queue) + Len(toSC) + Cardinality(OnWire) < MaxInFlight

Asks(event) == queue' = Append(queue, event) /\ UNCHANGED <<cm, sessions, reverse, handles, cpt,
                                                            owners, toSC, sc>>

SOPC_ToolkitClient_AsyncActivateSession(x) ==
    /\ Quiet /\ closer = "none" /\ app[x].view = "none"
    /\ app' = [app EXCEPT ![x].view = "asked"]
    /\ \E g \in ClientConfigs : Asks(Event("APP_ACTIVATE_SESSION", g, x))
    /\ UNCHANGED <<unanswered, closer>>

SOPC_ToolkitClient_AsyncSendRequestOnSession(x) ==
    /\ Quiet /\ app[x].view \in {"active", "reactivating"}
    /\ \E r \in Requests :
          /\ unanswered[r] = 0
          /\ unanswered' = [unanswered EXCEPT ![r] = 1]
          /\ Asks(Event("APP_SEND_SESSION_REQUEST", app[x].session, r))
    /\ UNCHANGED <<app, closer>>

SOPC_ToolkitClient_AsyncCloseSession(x) ==
    /\ Quiet /\ app[x].view \in {"active", "reactivating"}
    /\ Asks(Event("APP_CLOSE_SESSION", app[x].session, 0))
    /\ UNCHANGED <<app, unanswered, closer>>

\* "Any client active session should be closed prior to calling this function":
\* an activation may still be under way.
SOPC_Services_CloseAllSCs(clientOnly) ==
    /\ Quiet /\ closer = "none" /\ \A x \in Contexts : app[x].view \in {"none", "asked"}
    /\ closer' = IF clientOnly THEN "client" ELSE "all"
    /\ Asks(Event("APP_CLOSE_ALL_CONNECTIONS", 0, clientOnly))
    /\ UNCHANGED <<app, unanswered>>

Next ==
    \/ AppToSeActivateSession \/ AppToSeSendSessionRequest \/ AppToSeCloseSession
    \/ SeToSeCreateSession \/ SeToSeActivateSession \/ SeToSeActivateOrphanedSession
    \/ ScConnected \/ ScConnectionTimeout \/ EpConnected \/ ScDisconnected
    \/ ScServiceRcvMsg \/ ScSndFailure \/ SeToSeScAllDisconnected
    \/ AppToSeCloseAllConnections
    \/ ScConnect \/ ScDisconnect \/ ScSend
    \/ \E c \in Channels : ScOpened(c)
    \/ \E c \in Channels : ScAccepts(c)
    \/ \E c \in Channels : ScLost(c)
    \/ \E c \in Channels : ScResponse(c)
    \/ \E c \in Channels : ScRequestTimeout(c)
    \/ \E x \in Contexts : SOPC_ToolkitClient_AsyncActivateSession(x)
    \/ \E x \in Contexts : SOPC_ToolkitClient_AsyncSendRequestOnSession(x)
    \/ \E x \in Contexts : SOPC_ToolkitClient_AsyncCloseSession(x)
    \/ \E b \in ClosesAll : SOPC_Services_CloseAllSCs(b)

Spec == Init /\ [][Next]_vars

\* The two loopers keep treating events; a handshake ends, at the latest with
\* its timer; a request that is not answered expires, as it has a timer.
Fairness ==
    /\ WF_vars(ServicesStep)
    /\ WF_vars(ScConnect \/ ScDisconnect \/ ScSend)
    /\ \A c \in Channels : WF_vars(ScOpened(c)) /\ WF_vars(ScRequestTimeout(c))

FairSpec == Spec /\ Fairness
-----------------------------------------------------------------------------
(* Properties.                                                             *)

SessionStates == {"closed", "init", "creating", "created", "userActivating", "userActivated",
                  "scActivating", "scOrphaned", "closing"}

\* Every variable has its type: the tables are total, every index is in range.
TypeOK ==
    /\ cm \in ChannelMgrType
    /\ sessions \in [Sessions -> [state : SessionStates, channel : Channels \cup {0},
                                  to_create : Configs \cup {0}, orphaned : Configs \cup {0},
                                  ctx : Contexts \cup {0}]]
    /\ reverse \in [Channels -> Sessions \cup {0}]
    /\ handles \in [Handles -> [resp : {"none", "create", "activate", "close", "service"},
                                channel : Channels \cup {0}, app : Requests \cup {0}]]
    /\ cpt \in Handles \cup {0} /\ owners \in [Handles -> Sessions \cup {0}]
    /\ \A c \in Channels : sc[c].phase \in {"closed", "opening", "up"}
                           /\ sc[c].config \in Configs \cup {0}
    /\ app \in [Contexts -> [view : {"none", "asked", "active", "reactivating"},
                             session : Sessions \cup {0}]]
    /\ closer \in {"none", "client", "all"}

\* The views of the application in which a session may be in a given state.
Views(state) ==
    CASE state \in {"init", "creating", "created"} -> {"asked"}
      [] state = "userActivating" -> {"asked", "reactivating"}
      [] state = "userActivated" -> {"active"}
      [] state \in {"scActivating", "scOrphaned"} -> {"reactivating"}
      [] state = "closing" -> {"asked", "active", "reactivating"}
      [] state = "closed" -> {}

\* What notify_set_session_state tells the application is what it needs to know:
\* a context it has asked an activation for, and has not been told the end of,
\* has exactly one activation request or session, in a state that agrees with
\* the last notification, under the identifier the application was given.  Every
\* variable has its type.
AppViewMatches ==
    /\ TypeOK
    /\ \A x \in Contexts :
        LET asked == {i \in DOMAIN queue : queue[i].name = "APP_ACTIVATE_SESSION"
                                           /\ queue[i].aux = x}
            open == {s \in Sessions : sessions[s].ctx = x}
        IN  /\ Cardinality(asked) + Cardinality(open) = IF app[x].view = "none" THEN 0 ELSE 1
            /\ \A s \in open : /\ app[x].view \in Views(sessions[s].state)
                               /\ app[x].session \in {0, s}

\* The tables of channel_mgr_1 agree: connected channels, their configurations and
\* the channel of each configuration are inverse to one another, and a
\* configuration is not both connecting and connected.
ConfigInverse ==
    /\ \A c \in Channels : is_connected_channel(cm, c) <=> cm.config[c] # 0
    /\ \A c \in Channels, g \in Configs : cm.config[c] = g <=> cm.config_inv[g] = c
    /\ \A g \in cm.connecting : cm.config_inv[g] = 0
    /\ \A g \in cm.disconnecting : cm.config_inv[g] # 0

\* The session manager and the channel manager agree: the tables of the latter are
\* consistent (channel_mgr_1) and the channel of a session is connected, so a
\* session never outlives its channel as if nothing had happened.
SessionOnLiveChannel ==
    /\ ConfigInverse
    /\ \A s \in Sessions : sessions[s].channel # 0 => is_connected_channel(cm, sessions[s].channel)

\* A request sent by the application is answered at most once, by its response,
\* its timeout or the failure of its channel, however these race.
AnsweredAtMostOnce == \A r \in Requests : unanswered[r] >= 0

\* A response still awaited by the channel finds the session that sent the request
\* on this channel, or no session: it is never applied to another session that
\* took over the identifier.
ResponseReachesItsSession ==
    \A c \in Channels : \A i \in DOMAIN sc[c].sent :
        LET h == sc[c].sent[i].handle
        IN  ~sc[c].sent[i].expired /\ handles[h].channel = c /\ owners[h] # 0
                => sessions[owners[h]].channel = c

\* assert(clientOnlyFlag == clientOnly) of
\* SOPC_Internal_AllClientSecureChannelsDisconnected holds, and there is a caller
\* to be woken.
ClientOnlyFlagMatches ==
    Treats("SC_ALL_DISCONNECTED")
        => closer = IF Head(queue).aux THEN "client" ELSE "all"

\* An activation is answered: the application hears that the session is active or
\* that it is not to be had.
ActivationAnswered ==
    \A x \in Contexts : app[x].view = "asked" ~> app[x].view # "asked"

\* SOPC_Services_CloseAllSCs returns, as long as no channel is connecting and none
\* is accepted while it waits (such a channel is waited for, and never asked to
\* close).
CloseAllReturns ==
    [](closer # "none" => /\ cm.connecting = {}
                          /\ \A i \in DOMAIN queue : queue[i].name # "EP_CONNECTED")
        => (closer # "none" ~> closer = "none")

\* A session that lost its channel is reactivated or closed.
OrphanResolved ==
    \A s \in Sessions : sessions[s].state = "scOrphaned" ~> sessions[s].state # "scOrphaned"
=============================================================================
