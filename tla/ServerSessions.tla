--------------------------- MODULE ServerSessions ---------------------------
(***************************************************************************)
(* The sessions of a server (bgenc/session_mgr.c, session_core.c,          *)
(* session_core_1.c, session_core_2.c, b2c/session_core_bs.c), the secure  *)
(* channels they live on (ChannelMgr) and their expiration timers.         *)
(*                                                                         *)
(* One thread runs every handler, so an action is a whole handler.  evq is *)
(* the part of that thread's queue that concerns sessions: the notice of a *)
(* session that becomes inactive is posted as next, the event of a timer   *)
(* is appended.  A request is not shown in the queue: one that is treated  *)
(* now was queued before everything evq still holds.  A request whose      *)
(* token names no session, that is refused by a check of its content or    *)
(* that memory is missing for changes nothing and is no action.            *)
(***************************************************************************)
EXTENDS ChannelMgr

CONSTANTS
    MaxSessions,    \* SOPC_MAX_SESSIONS
    Users,
    NoUser,
    Timeout,        \* session_RevisedSessionTimeout, in ticks
    MaxLeftovers,   \* bound: queued events and forgotten timers with which a
                    \* session is made
    Outcomes        \* how the making of a session may end: "ok", "refused" by the check
                    \* of the certificate or for want of a timer, "failed" in between

ASSUME ServerSessionsAssumption ==
    /\ MaxSessions \in Nat \ {0} /\ Timeout \in Nat \ {0} /\ MaxLeftovers \in Nat
    /\ IsFiniteSet(Users) /\ NoUser \notin Users
    /\ Outcomes \subseteq {"ok", "refused", "failed"}
    /\ Channels \subseteq Configs     \* a channel of the server has a configuration of its own

VARIABLES
    cm,             \* the channel manager
    asked,          \* connected channels that were asked to close, to make room
    sess,           \* session -> its state, channel, user, and whether its token
                    \* was told to the client
    reverse,        \* a_reverse_channel: one session of each channel
    silent,         \* ticks since the latest message of a session, at most Timeout:
                    \* also what a session that never had one shows
    expiration,     \* session_expiration_timer: the ticks left of the timer a session
                    \* names, or Off when there is none or it has fired
    forgotten,      \* session -> ticks left -> how many timers that it does not name
    evq             \* events for the services thread, the next one first

vars == <<cm, asked, sess, reverse, silent, expiration, forgotten, evq>>

Sessions == 1..MaxSessions
Off == -1

ClosedSession == [st |-> "closed", ch |-> 0, user |-> NoUser, told |-> FALSE]
Valid(s) == sess[s].st # "closed"
-----------------------------------------------------------------------------
(* The queue.                                                              *)

TimeoutEvent(s) == [ev |-> "timeout", s |-> s]
IsNotice(e) == e.ev = "inactive"
Notice(s, st) == [ev |-> "inactive", s |-> s, st |-> st]

\* Notices are in front of everything else.
Ready == evq # <<>> => ~IsNotice(Head(evq))

\* A mutant: notices wait behind the events that are queued already.
MutPostAsNext(out, q) == q \o out

PostAsNext(out, q) == out \o q

\* The notices at the head of a queue.
NoticeCount(q) ==
    CHOOSE n \in 0..Len(q) : /\ \A i \in 1..n : IsNotice(q[i])
                             /\ n < Len(q) => ~IsNotice(q[n + 1])
NoticesIn(q) == [i \in 1..NoticeCount(q) |-> q[i]]
Notices == NoticesIn(evq)

\* What session_core_bs__notify_set_session_state posts when the state of a
\* server session changes.
NoticesOf(s, before, after) ==
    IF (before = "activated" /\ after # "activated") \/ after = "closed"
    THEN <<Notice(s, after)>> ELSE <<>>
-----------------------------------------------------------------------------
(* Channels.                                                               *)

\* The channel manager on its own: a close asked of the secure channels layer is
\* kept in asked, closing all the channels is not part of this module.
Manager == [cm |-> cm, queue |-> <<>>, toSC |-> <<>>]

\* The oldest connected channel that no session is recorded for.
find_channel_to_close ==
    LET idle == {i \in DOMAIN cm.since : reverse[cm.since[i]] = 0}
    IN  IF idle = {} THEN 0 ELSE cm.since[CHOOSE i \in idle : \A j \in idle : i <= j]

\* session_core_2__set_session_channel: what reverse becomes.  The entry of the
\* previous channel is cleared whichever session it holds.
set_session_channel(s, c) ==
    LET old == sess[s].ch
        cleared == IF old = 0 THEN reverse ELSE [reverse EXCEPT ![old] = 0]
    IN  [cleared EXCEPT ![c] = s]

reset_session_channel(s) ==
    IF sess[s].ch = 0 THEN reverse ELSE [reverse EXCEPT ![sess[s].ch] = 0]

\* l_may_close_secure_channel_without_session
ToClose == IF is_auto_close_channel_active(cm) THEN find_channel_to_close ELSE 0

\* A client connects.  At the maximum, the oldest channel without session is
\* closed to make room; without one the new channel is refused, and services have
\* nothing more to do with it.
server_channel_connected_event(c) ==
    LET closed == ToClose
        allowed == srv_new_allowed(cm, c, c, closed # 0)
    IN  /\ Ready
        /\ ~is_connected_channel(cm, c)
        /\ cm' = IF allowed THEN add_channel_connected(cm, c, c, TRUE) ELSE cm
        /\ asked' = (asked \cup {closed}) \ {0}
        /\ UNCHANGED <<sess, reverse, silent, expiration, forgotten, evq>>
-----------------------------------------------------------------------------
(* The end of a session.                                                   *)

\* session_core_1__set_session_state_closed
set_session_state_closed(s) ==
    /\ sess' = [sess EXCEPT ![s] = ClosedSession]
    /\ reverse' = reset_session_channel(s)
    /\ evq' = PostAsNext(NoticesOf(s, sess[s].st, "closed"), evq)
    /\ expiration' = [expiration EXCEPT ![s] = Off]
    /\ silent' = [silent EXCEPT ![s] = Timeout]
    /\ UNCHANGED forgotten

\* A mutant: only the session that is recorded for the channel is looked at.
MutOn(c) == {s \in Sessions : sess[s].ch = c /\ reverse[c] = s}

On(c) == {s \in Sessions : sess[s].ch = c}

\* Sessions are looked at from the last one and each notice is posted as next:
\* the one of the first session is treated first.
InOrder(S) ==
    CHOOSE q \in [1..Cardinality(S) -> S] : \A i, j \in DOMAIN q : i < j => q[i] < q[j]

\* A connected channel is lost, asked for or not.  Its active sessions become
\* orphaned, the others are closed.
secure_channel_lost(c) ==
    LET closed == {s \in On(c) : sess[s].st # "activated"}
        lost == InOrder(On(c))
    IN  /\ Ready
        /\ is_connected_channel(cm, c)
        /\ sess' = [s \in Sessions |->
                      IF s \notin On(c) THEN sess[s]
                      ELSE IF s \in closed THEN ClosedSession
                      ELSE [sess[s] EXCEPT !.st = "orphaned", !.ch = 0]]
        /\ reverse' = IF On(c) = {} THEN reverse ELSE [reverse EXCEPT ![c] = 0]
        /\ evq' = PostAsNext([i \in DOMAIN lost |->
                      Notice(lost[i], IF lost[i] \in closed THEN "closed" ELSE "scOrphaned")], evq)
        /\ expiration' = [s \in Sessions |-> IF s \in closed THEN Off ELSE expiration[s]]
        /\ silent' = [s \in Sessions |-> IF s \in closed THEN Timeout ELSE silent[s]]
        /\ cm' = channel_lost(Manager, c).cm
        /\ asked' = asked \ {c}
        /\ UNCHANGED forgotten
-----------------------------------------------------------------------------
(* Requests of a client.                                                   *)

\* Sessions are looked at from the last one for one that is closed.
init_new_session ==
    CHOOSE s \in Sessions : ~Valid(s) /\ \A r \in Sessions : ~Valid(r) => r <= s

\* Queued events, and timers that no session names any more.
Leftovers ==
    Cardinality({i \in DOMAIN evq : ~IsNotice(evq[i])})
    + Cardinality({x \in Sessions \X (0..Timeout) \X (0..MaxLeftovers) :
                     x[3] < forgotten[x[1]][x[2]]})

\* A session is made on the channel of the request.  It is closed again when the
\* certificate is refused or no timer is to be had; when something fails after
\* its token was made it stays, without a timer and unknown to the client.
CreateSession(c, outcome) ==
    /\ Ready
    /\ is_connected_channel(cm, c)
    /\ \E s \in Sessions : ~Valid(s)
    /\ LET s == init_new_session
       IN  /\ Leftovers <= MaxLeftovers
           /\ \/ /\ outcome = "refused"
                 /\ reverse' = [reverse EXCEPT ![c] = 0]
                 /\ evq' = PostAsNext(<<Notice(s, "closed")>>, evq)
                 /\ UNCHANGED <<sess, expiration>>
              \/ /\ outcome # "refused"
                 /\ sess' = [sess EXCEPT ![s] = [st |-> "created", ch |-> c, user |-> NoUser,
                                                told |-> outcome = "ok"]]
                 /\ reverse' = set_session_channel(s, c)
                 /\ expiration' = [expiration EXCEPT ![s] = IF outcome = "ok" THEN Timeout ELSE Off]
                 /\ UNCHANGED evq
    /\ UNCHANGED <<cm, asked, silent, forgotten>>

\* The state through which an activation takes the session, or "invalid".
Transitory(s, c, u) ==
    CASE sess[s].st = "created" /\ sess[s].ch = c -> "creating"
      [] sess[s].st = "activated" /\ sess[s].ch = c -> "userActivating"
      [] sess[s].st \in {"activated", "orphaned"} /\ sess[s].ch # c /\ sess[s].user = u ->
            "scActivating"
      [] OTHER -> "invalid"

\* A session is activated: for the first time, for another user on its channel,
\* or for its user on another channel.
ActivateSession(s, c, u) ==
    LET transitory == Transitory(s, c, u)
    IN  /\ Ready
        /\ is_connected_channel(cm, c)
        /\ Valid(s) /\ sess[s].told
        /\ transitory # "invalid"
        /\ evq' = PostAsNext(NoticesOf(s, sess[s].st, transitory), evq)
        /\ reverse' = set_session_channel(s, c)
        /\ sess' = [sess EXCEPT ![s] = [@ EXCEPT !.st = "activated", !.ch = c, !.user = u]]
        /\ silent' = [silent EXCEPT ![s] = 0]
        /\ UNCHANGED <<cm, asked, expiration, forgotten>>

\* A request on an active session, from its channel.
ServiceRequest(s) ==
    /\ Ready
    /\ sess[s].st = "activated"
    /\ silent' = [silent EXCEPT ![s] = 0]
    /\ UNCHANGED <<cm, asked, sess, reverse, expiration, forgotten, evq>>

\* A request on a session that is not activated yet, from its channel, closes it.
ServiceRequestTooEarly(s) ==
    /\ Ready
    /\ sess[s].st = "created" /\ sess[s].told
    /\ set_session_state_closed(s)
    /\ UNCHANGED <<cm, asked>>

\* Asked for on its channel or on another one, the session is closed.
CloseSession(s) ==
    /\ Ready
    /\ Valid(s) /\ sess[s].told
    /\ set_session_state_closed(s)
    /\ UNCHANGED <<cm, asked>>
-----------------------------------------------------------------------------
(* Time.                                                                   *)

\* A timer whose time has come is removed and its event posted.
TimerFires(s) ==
    /\ \/ /\ expiration[s] = 0
          /\ expiration' = [expiration EXCEPT ![s] = Off]
          /\ UNCHANGED forgotten
       \/ /\ forgotten[s][0] > 0
          /\ forgotten' = [forgotten EXCEPT ![s][0] = @ - 1]
          /\ UNCHANGED expiration
    /\ evq' = Append(evq, TimeoutEvent(s))
    /\ UNCHANGED <<cm, asked, sess, reverse, silent>>

Due(s) == expiration[s] = 0 \/ forgotten[s][0] > 0

\* Time passes, at most until the next timer is due.
Tick ==
    /\ \A s \in Sessions : ~Due(s)
    /\ silent' = [s \in Sessions |-> IF silent[s] < Timeout THEN silent[s] + 1 ELSE Timeout]
    /\ expiration' = [s \in Sessions |-> IF expiration[s] = Off THEN Off ELSE expiration[s] - 1]
    /\ forgotten' = [s \in Sessions |->
                       [l \in 0..Timeout |-> IF l < Timeout THEN forgotten[s][l + 1] ELSE 0]]
    /\ UNCHANGED <<cm, asked, sess, reverse, evq>>

\* A mutant: the time of the latest message is not looked at.
MutSilentTooLong(s) == TRUE

\* A mutant: off by one, the session that just reaches its timeout goes on.
MutSilentOffByOne(s) == silent[s] > Timeout

SilentTooLong(s) == silent[s] >= Timeout

\* The timer is started again for what is left since the latest message.
Renewed(s) == Timeout - silent[s]

\* The event of a timer, from which the session forgets its timer: that is the
\* one that fired, unless the event is left over from an earlier session.
Forget(s) ==
    IF expiration[s] = Off THEN UNCHANGED forgotten
    ELSE forgotten' = [forgotten EXCEPT ![s][expiration[s]] = @ + 1]

TimeoutNext == evq # <<>> /\ Head(evq).ev = "timeout"

\* The session is closed when it was silent too long; so it is when no timer is
\* to be had to look at it again, which is left out.
internal_server_evaluate_session_timeout ==
    LET s == Head(evq).s
        rest == Tail(evq)
    IN  /\ TimeoutNext
        /\ \/ /\ ~Valid(s)
              /\ evq' = rest
              /\ UNCHANGED <<sess, reverse, silent, expiration, forgotten>>
           \/ /\ Valid(s) /\ ~SilentTooLong(s)
              /\ expiration' = [expiration EXCEPT ![s] = Renewed(s)]
              /\ Forget(s)
              /\ evq' = rest
              /\ UNCHANGED <<sess, reverse, silent>>
           \/ /\ Valid(s) /\ SilentTooLong(s)
              /\ sess' = [sess EXCEPT ![s] = ClosedSession]
              /\ reverse' = reset_session_channel(s)
              /\ evq' = PostAsNext(NoticesOf(s, sess[s].st, "closed"), rest)
              /\ expiration' = [expiration EXCEPT ![s] = Off]
              /\ Forget(s)
              /\ silent' = [silent EXCEPT ![s] = Timeout]
        /\ UNCHANGED <<cm, asked>>

\* The subscriptions hear of an inactive session.
HandleNotice ==
    /\ evq # <<>> /\ IsNotice(Head(evq))
    /\ evq' = Tail(evq)
    /\ UNCHANGED <<cm, asked, sess, reverse, silent, expiration, forgotten>>
-----------------------------------------------------------------------------
Init ==
    /\ cm = ChannelMgrInit
    /\ asked = {}
    /\ sess = [s \in Sessions |-> ClosedSession]
    /\ reverse = [c \in Channels |-> 0]
    /\ silent = [s \in Sessions |-> Timeout]
    /\ expiration = [s \in Sessions |-> Off]
    /\ forgotten = [s \in Sessions |-> [l \in 0..Timeout |-> 0]]
    /\ evq = <<>>

Next ==
    \/ \E c \in Channels : \/ server_channel_connected_event(c) \/ secure_channel_lost(c)
                          \/ \E outcome \in Outcomes : CreateSession(c, outcome)
    \/ \E s \in Sessions : \/ \E c \in Channels, u \in Users : ActivateSession(s, c, u)
                          \/ ServiceRequest(s) \/ ServiceRequestTooEarly(s) \/ CloseSession(s)
                          \/ TimerFires(s)
    \/ Tick
    \/ internal_server_evaluate_session_timeout
    \/ HandleNotice

\* A timer comes due, the timer thread removes it, and the services thread catches
\* up with its queue: a timeout is at least ten seconds long.
Fairness ==
    /\ \A s \in Sessions : []<>(expiration[s] \in {0, Off}) /\ []<>~Due(s)
    /\ []<>(evq = <<>>)

Spec == Init /\ [][Next]_vars /\ Fairness
-----------------------------------------------------------------------------
(* Properties.                                                             *)

\* Types of the variables.
TypeOK ==
    /\ cm \in ChannelMgrType
    /\ asked \subseteq Channels
    /\ sess \in [Sessions -> [st : {"closed", "created", "activated", "orphaned"},
                              ch : Channels \cup {0}, user : Users \cup {NoUser},
                              told : BOOLEAN]]
    /\ reverse \in [Channels -> Sessions \cup {0}]
    /\ silent \in [Sessions -> 0..Timeout]
    /\ expiration \in [Sessions -> 0..Timeout \cup {Off}]
    /\ forgotten \in [Sessions -> [0..Timeout -> Nat]]

\* The session recorded for a channel is one that uses it: no entry is left over
\* from a session that was closed, orphaned or moved, so a channel that no session
\* uses can always be closed to make room.
ReverseNamesUser ==
    \A c \in Channels : reverse[c] # 0 => Valid(reverse[c]) /\ sess[reverse[c]].ch = c

\* Every variable has its type, and a session is on a connected channel, or is
\* orphaned and on none: losing a channel reaches every session on it, also those
\* it has no entry for.
SessionOnConnectedChannel ==
    /\ TypeOK
    /\ \A s \in Sessions :
        /\ sess[s].st \in {"created", "activated"} => is_connected_channel(cm, sess[s].ch)
        /\ sess[s].st \in {"closed", "orphaned"} => sess[s].ch = 0

\* The evaluation of the timeout never closes a session that was activated and
\* sent a message within its timeout, not even when the event is one of an
\* earlier session.
HeardNotExpired ==
    [][internal_server_evaluate_session_timeout
            => \A s \in Sessions : sess[s].st \in {"activated", "orphaned"}
                                   /\ silent[s] < Timeout => sess'[s].st # "closed"]_vars

\* A session whose client falls silent is closed, active, orphaned or not yet
\* activated.
SilentSessionEnds ==
    \A s \in Sessions : Valid(s) /\ sess[s].told ~> ~Valid(s) \/ silent[s] = 0

\* The sessions as their users see them.
Life == [s \in Sessions |->
           IF sess[s].st \in {"activated", "orphaned"} THEN [st |-> sess[s].st, ch |-> sess[s].ch]
           ELSE [st |-> "closed", ch |-> 0]]

SL == INSTANCE SessionLife WITH NoChannel <- 0, life <- Life, notices <- Notices

\* The session manager keeps the promises of SessionLife.
SessionsAsPromised == SL!LifeSpec

=============================================================================
