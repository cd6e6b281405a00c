----------------------------- MODULE ChannelMgr -----------------------------
(***************************************************************************)
(* The channel manager of the services layer                               *)
(* (src/ClientServer/services/bgenc/channel_mgr.c and channel_mgr_1.c):    *)
(* which secure channels services believe to be connecting, connected or   *)
(* disconnecting, for which configuration, and the closing of all of them. *)
(*                                                                         *)
(* It runs on the services looper, inside the handlers of the session and  *)
(* dispatch modules.  Its operations are operators on the state `st' of    *)
(* that looper, a record with at least the fields                          *)
(*   cm     the manager's own data,                                        *)
(*   queue  the looper's queue, at whose tail an event may be posted,      *)
(*   toSC   the queue of the secure channels looper.                       *)
(***************************************************************************)
EXTENDS Integers, Sequences, FiniteSets

CONSTANTS
    MaxChannels,    \* card of t_channel: SOPC_MAX_SECURE_CONNECTIONS_PLUS_BUFFERED
    MaxConnected,   \* c_max_channels_connected: SOPC_MAX_SECURE_CONNECTIONS
    Configs         \* secure channel configurations

ASSUME ChannelMgrAssumption ==
    /\ MaxChannels \in Nat \ {0} /\ MaxConnected \in Nat \ {0}
    /\ IsFiniteSet(Configs) /\ 0 \notin Configs

Channels == 1..MaxChannels

\* Events are records with the same fields; an unused one is 0.
Event(name, id, aux) == [name |-> name, id |-> id, aux |-> aux]

\* `since' lists the connected channels in the order of their connection time;
\* `servers' are those with an endpoint; `closing' is "all" or "client" while
\* all_channel_closing or all_client_channel_closing is set.
ChannelMgrInit ==
    [connecting |-> {}, disconnecting |-> {}, since |-> <<>>,
     config |-> [c \in Channels |-> 0], config_inv |-> [g \in Configs |-> 0],
     servers |-> {}, closing |-> "none"]

ChannelMgrType ==
    [connecting : SUBSET Configs, disconnecting : SUBSET Configs,
     since : Seq(Channels), config : [Channels -> Configs \cup {0}],
     config_inv : [Configs -> Channels \cup {0}],
     servers : SUBSET Channels, closing : {"none", "all", "client"}]
-----------------------------------------------------------------------------
is_connected_channel(m, c) == \E i \in DOMAIN m.since : m.since[i] = c
is_client_channel(m, c) == c \notin m.servers
get_connected_channel(m, g) == m.config_inv[g]
get_card_channel_used(m) == Cardinality(m.connecting) + Len(m.since)

\* Beyond the maximum a connection is accepted only while another one, without
\* session, is being closed, and while an index is left.
l_is_new_sc_connection_allowed(m, isOneScClosing) ==
    /\ get_card_channel_used(m) # MaxChannels
    /\ get_card_channel_used(m) < MaxConnected \/ isOneScClosing

is_auto_close_channel_active(m) == get_card_channel_used(m) >= MaxConnected

\* The client asks for a channel unless it is already connecting.
cli_open_allowed(m, g, isOneScClosing) ==
    \/ g \in m.connecting
    \/ m.config_inv[g] = 0 /\ l_is_new_sc_connection_allowed(m, isOneScClosing)

cli_open_secure_channel(st, g) ==
    IF g \in st.cm.connecting THEN st
    ELSE [st EXCEPT !.cm.connecting = @ \cup {g},
                    !.toSC = Append(@, Event("SC_CONNECT", g, 0))]

add_channel_connected(m, c, g, isServer) ==
    [m EXCEPT !.since = Append(@, c), !.config[c] = g, !.config_inv[g] = c,
              !.servers = IF isServer THEN @ \cup {c} ELSE @]

srv_new_allowed(m, c, g, isOneScClosing) ==
    /\ ~is_connected_channel(m, c) /\ m.config_inv[g] = 0
    /\ l_is_new_sc_connection_allowed(m, isOneScClosing)

cli_set_connected_allowed(m, g, c) ==
    g \in m.connecting /\ ~is_connected_channel(m, c)

cli_set_connected_channel(m, g, c) ==
    add_channel_connected([m EXCEPT !.connecting = @ \ {g}], c, g, FALSE)

cli_set_connection_timeout_channel(m, g) == [m EXCEPT !.connecting = @ \ {g}]
-----------------------------------------------------------------------------
l_close_secure_channel(st, c) ==
    IF st.cm.config[c] = 0 THEN st
    ELSE [st EXCEPT !.cm.disconnecting = IF is_client_channel(st.cm, c)
                                         THEN @ \cup {st.cm.config[c]} ELSE @,
                    !.toSC = Append(@, Event("SC_DISCONNECT", c, 0))]

\* The connected channels a close of all is about.
Concerned(m, clientOnly) ==
    {c \in Channels : is_connected_channel(m, c) /\ (~clientOnly \/ is_client_channel(m, c))}

\* Fault: only the first channel is asked to close.
FaultyCloseAll(st, clientOnly) ==
    LET these == Concerned(st.cm, clientOnly)
        first == CHOOSE c \in these : \A d \in these : c <= d
    IN  IF these = {} THEN [st EXCEPT !.cm.closing = "none"]
        ELSE [st EXCEPT !.cm.closing = IF clientOnly THEN "client" ELSE "all",
                        !.toSC = Append(@, Event("SC_DISCONNECT", first, 0))]

\* Every connected channel is asked to close, from the last one; nothing is
\* done about the ones that are connecting.
close_all_channel(st, clientOnly) ==
    LET these == Concerned(st.cm, clientOnly)
        ordered == SelectSeq([i \in Channels |-> MaxChannels + 1 - i], LAMBDA c : c \in these)
        closing == IF these = {} THEN "none" ELSE IF clientOnly THEN "client" ELSE "all"
    IN  [st EXCEPT !.cm.disconnecting = @ \cup {st.cm.config[c] : c \in these \ st.cm.servers},
                   !.cm.closing = closing,
                   !.toSC = @ \o [i \in DOMAIN ordered |->
                                     Event("SC_DISCONNECT", ordered[i], 0)]]

\* Fault: the flag of the other kind of closing goes with the event.
FaultyCheckAllChannelLost(st) ==
    IF st.cm.closing # "none" /\ Concerned(st.cm, st.cm.closing = "client") = {}
    THEN [st EXCEPT !.queue = Append(@, Event("SC_ALL_DISCONNECTED", 0, TRUE)),
                    !.cm.closing = "none"]
    ELSE st

l_check_all_channel_lost(st) ==
    IF st.cm.closing # "none" /\ Concerned(st.cm, st.cm.closing = "client") = {}
    THEN [st EXCEPT !.queue = Append(@, Event("SC_ALL_DISCONNECTED", 0,
                                              st.cm.closing = "client")),
                    !.cm.closing = "none"]
    ELSE st

\* The sequence without the channel, which it holds at most once.
Without(q, c) ==
    IF \A i \in DOMAIN q : q[i] # c THEN q
    ELSE LET at == CHOOSE i \in DOMAIN q : q[i] = c
         IN  [i \in 1 .. Len(q) - 1 |-> IF i < at THEN q[i] ELSE q[i + 1]]

channel_lost(st, c) ==
    LET g == st.cm.config[c]
    IN  IF g = 0 THEN st
        ELSE l_check_all_channel_lost(
                [st EXCEPT !.cm.since = Without(@, c),
                           !.cm.disconnecting = @ \ {g},
                           !.cm.config[c] = 0, !.cm.config_inv[g] = 0,
                           !.cm.servers = @ \ {c}])
=============================================================================
