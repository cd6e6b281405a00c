---------------------------- MODULE Subscriptions ----------------------------
(* The subscriptions of a server (services/bgenc/subscription_core.c and      *)
(* subscription_mgr.c with their b2c machines): the publishing state machine  *)
(* of each subscription, its queues of publish requests, notifications and    *)
(* messages kept for republishing, the monitored items of the nodes, and the  *)
(* events through which the services thread talks to itself about them.       *)
(*                                                                            *)
(* One thread runs every handler, so an action is a whole handler.  evq is    *)
(* the part of that thread's event queue that concerns subscriptions: what a  *)
(* handler posts as next comes first, timer and data change events are        *)
(* appended.  A request is not shown in the queue: one that is handled now    *)
(* was queued before everything evq still holds.  The sessions behave as      *)
(* SessionLife says.                                                          *)
EXTENDS Naturals, Sequences, SequencesExt, FiniteSets, FiniteSetsExt, Functions

CONSTANTS
    Sessions,           \* the session slots; each has at most one subscription
    Channels,           \* the secure channels
    NoChannel,
    Subs,               \* the subscription ids, 1 .. n
    NoSub,              \* an id that no subscription uses now
    Nodes,
    Values,             \* the values a node may have
    NoValue,
    ReqIds,             \* publish requests in the server at one time
    ItemIds,            \* the monitored item ids, 1 .. n
    Modes,              \* the monitoring modes: TRUE for reporting, FALSE for the others
    Requested,          \* the parameter records a client may request
    MinKeepAlive, MaxKeepAlive, MinLifetime, MaxLifetime,
    MaxPublishRequests, \* k_n_publishRequestPerSub_max
    MaxRepublish,       \* k_n_republishNotifPerSub_max
    MaxNotifsPerMsg,    \* k_n_monitoredItemNotif_max
    LastSeqNum,         \* UINT32_MAX of the sequence numbers
    MaxNotifs           \* bound: notifications in a queue or still to come

VARIABLES
    life,               \* the sessions, see SessionLife
    sub,                \* subscription id -> its record, or NoSub
    item,               \* monitored item id -> its record, or NoSub
    watch,              \* node -> ids of the items that monitor it
    freed,              \* monitored item ids to use again, first freed first
    value,              \* node -> its value in the address space
    evq                 \* events for the services thread, the next one first

vars == <<life, sub, item, watch, freed, value, evq>>

------------------------------------------------------------------------------
(* Events *)

IsPrio(e) == e.ev \in {"pubresp", "inactive"}

\* A client request, a timer or a data change is handled only when no event was
\* posted as next: those are the front of the queue.
Ready == evq # <<>> => ~IsPrio(Head(evq))

TimerEvent(k) == [ev |-> "timer", sub |-> k]
DataEvent(n, old, new) == [ev |-> "data", node |-> n, old |-> old, new |-> new]

\* The answer to a queued publish request.  ch is where the request came from.
PubResp(r, code, seq) ==
    [ev |-> "pubresp", s |-> r.s, ch |-> r.ch, id |-> r.id, code |-> code, seq |-> seq]

\* A mutant: the answers wait behind the events that are queued already.
PostAsNextMutTail(out, q) == q \o out

\* The responses of one handler are posted as next one after the other: the last
\* one posted is the first one handled.
PostAsNext(out, q) == Reverse(out) \o q

Notices == SelectSeq(evq, LAMBDA e : e.ev = "inactive")

SL == INSTANCE SessionLife WITH notices <- Notices

------------------------------------------------------------------------------
(* The subscription record *)

Clamp(x, lo, hi) == IF x < lo THEN lo ELSE IF x > hi THEN hi ELSE x

\* compute_create_subscription_revised_params
Revised(p) ==
    LET ka == Clamp(p.keepAlive, MinKeepAlive, MaxKeepAlive)
    IN  [keepAlive |-> ka,
         lifetime |-> Clamp(Max({p.lifetime, 3 * ka}), MinLifetime, MaxLifetime),
         maxNotifs |-> p.maxNotifs]

NewSubscription(s, p, enabled) ==
    [s |-> s, state |-> "normal", enabled |-> enabled,
     maxKeepAlive |-> p.keepAlive, maxLifetime |-> p.lifetime, maxNotifs |-> p.maxNotifs,
     keepAlive |-> p.keepAlive, lifetime |-> p.lifetime,
     seq |-> 1, sent |-> FALSE, more |-> FALSE,
     reqs |-> <<>>, notifs |-> <<>>, republish |-> <<>>, items |-> <<>>]

Live == {k \in Subs : sub[k] # NoSub}
SubOf(s) == {k \in Live : sub[k].s = s}

NextSeqNum(n) == IF n = LastSeqNum THEN 1 ELSE n + 1

\* The notifications a message may hold, and the ones the next message holds.
MsgLimit(b) == IF b.maxNotifs > 0 /\ b.maxNotifs < MaxNotifsPerMsg THEN b.maxNotifs ELSE MaxNotifsPerMsg
NextMsg(b) == SubSeq(b.notifs, 1, Min({Len(b.notifs), MsgLimit(b)}))

HasMore(b) == Len(b.notifs) > MsgLimit(b)

\* Fill a notification message from the notification queue.  A full republish
\* queue loses its last element: discard_oldest_republish_notif pops the tail.
\* Without notifications no message can be allocated.
SendNotifications(b) ==
    LET m == NextMsg(b)
    IN  IF m = <<>>
        THEN [b EXCEPT !.more = TRUE, !.sent = TRUE]
        ELSE [b EXCEPT !.more = HasMore(b), !.sent = TRUE,
                       !.seq = NextSeqNum(@),
                       !.notifs = SubSeq(@, Len(m) + 1, Len(@)),
                       !.republish = Append(IF Len(@) = MaxRepublish THEN Front(@) ELSE @, b.seq)]

NotificationsResp(b, r) ==
    IF NextMsg(b) = <<>> THEN PubResp(r, "nomem", 0) ELSE PubResp(r, "notif", b.seq)

ResetLifetime(b) == [b EXCEPT !.lifetime = b.maxLifetime]

\* A mutant: the request is read and stays in the queue.
PopRequestMut(b) == b

PopRequest(b) == [b EXCEPT !.reqs = Tail(@)]


\* A mutant: the lifetime counter stands still.
CountLifetimeMut(b) == b

CountLifetime(b) == [b EXCEPT !.lifetime = @ - 1]

Publishable(b) == b.enabled /\ b.notifs # <<>>

\* pop_invalid_and_check_valid_publishReqQueued: the requests at the head of the
\* queue that have expired are answered, the first valid one is put back.
ExpiredPrefix(b) ==
    SubSeq(b.reqs, 1, Max({n \in 0 .. Len(b.reqs) : \A i \in 1 .. n : b.reqs[i].exp}))
PopInvalid(b) == [b EXCEPT !.reqs = SubSeq(@, Len(ExpiredPrefix(b)) + 1, Len(@))]

\* A mutant: the expired requests are dropped.
TimeoutRespsMut(b) == <<>>

TimeoutResps(b) ==
    [i \in DOMAIN ExpiredPrefix(b) |-> PubResp(ExpiredPrefix(b)[i], "timeout", 0)]

------------------------------------------------------------------------------
(* Client requests: the part of a handler that works on one subscription.     *)
(* Each returns the subscription b and the answers out in posting order.      *)

\* A full queue gives up its last request: discard_oldest_publish_request pops
\* the tail of the list.
EnqueueRequest(b, r) ==
    IF Len(b.reqs) = MaxPublishRequests
    THEN [b |-> [b EXCEPT !.reqs = Append(Front(@), r)],
          out |-> <<PubResp(Last(b.reqs), "tooMany", 0)>>]
    ELSE [b |-> [b EXCEPT !.reqs = Append(@, r)], out |-> <<>>]

\* A mutant: a late subscription queues the request and waits for its timer.
ReceivePublishMutLate(b, r) == EnqueueRequest(b, r)

\* receive_publish_request.  A request that is not queued is answered in the
\* handler itself, so that only the queued ones wait anywhere.
ReceivePublish(b, r) ==
    CASE b.state = "normal" /\ ~(b.enabled /\ b.more) -> EnqueueRequest(b, r)
      [] b.state = "normal" /\ b.enabled /\ b.more ->
           [b |-> SendNotifications(ResetLifetime(b)), out |-> <<>>]
      [] b.state = "late" /\ b.enabled /\ (b.more \/ b.notifs # <<>>) ->
           [b |-> SendNotifications(ResetLifetime([b EXCEPT !.state = "normal"])), out |-> <<>>]
      [] b.state = "late" /\ ~(b.enabled /\ (b.more \/ b.notifs # <<>>)) ->
           [b |-> ResetLifetime([b EXCEPT !.state = "keepAlive", !.sent = TRUE]), out |-> <<>>]
      [] b.state = "keepAlive" -> EnqueueRequest(b, r)

------------------------------------------------------------------------------
(* The publishing timer *)

\* One more message while there are more notifications and a valid request
\* (server_subscription_core_publish_timeout_return_moreNotifs and its loop).
ReturnMore(acc) ==
    LET b == PopInvalid(acc.b)
        out == acc.out \o TimeoutResps(acc.b)
    IN  IF ~acc.b.more \/ ~acc.go THEN acc
        ELSE IF b.reqs = <<>> THEN [b |-> b, out |-> out, go |-> FALSE]
        ELSE [b |-> SendNotifications(PopRequest(b)),
              out |-> Append(out, NotificationsResp(b, Head(b.reqs))), go |-> TRUE]

SendAndReturnMore(b) ==
    FoldLeft(LAMBDA acc, r : ReturnMore(acc),
             [b |-> SendNotifications(ResetLifetime(PopRequest(b))),
              out |-> <<NotificationsResp(b, Head(b.reqs))>>, go |-> TRUE],
             Tail(b.reqs))

\* Answer the first request with a message without notifications; the sequence
\* number is the one of the next message.
SendKeepAlive(b) ==
    [b |-> [PopRequest(b) EXCEPT !.sent = TRUE],
     out |-> <<PubResp(Head(b.reqs), "keepAlive", b.seq)>>]

\* server_subscription_core_publish_timeout, after the expired requests are gone
PublishTimeout(b) ==
    CASE b.state = "normal" /\ b.reqs # <<>> /\ Publishable(b) -> SendAndReturnMore(b)
      [] b.state = "normal" /\ b.reqs # <<>> /\ ~b.sent /\ ~Publishable(b) ->
           SendKeepAlive(ResetLifetime(b))
      [] b.state = "normal" /\ b.reqs = <<>> /\ (~b.sent \/ Publishable(b)) ->
           [b |-> [b EXCEPT !.state = "late"], out |-> <<>>]
      [] b.state = "normal" /\ b.sent /\ ~Publishable(b) ->
           [b |-> [b EXCEPT !.state = "keepAlive", !.keepAlive = b.maxKeepAlive - 1], out |-> <<>>]
      [] b.state = "keepAlive" /\ b.reqs # <<>> /\ Publishable(b) ->
           SendAndReturnMore([b EXCEPT !.state = "normal"])
      [] b.state = "keepAlive" /\ b.reqs # <<>> /\ b.keepAlive <= 1 /\ ~Publishable(b) ->
           SendKeepAlive([b EXCEPT !.keepAlive = b.maxKeepAlive])
      [] b.state = "keepAlive" /\ b.keepAlive > 1 /\ ~Publishable(b) ->
           [b |-> [b EXCEPT !.keepAlive = @ - 1], out |-> <<>>]
      [] b.state = "keepAlive" /\ b.reqs = <<>> /\ (b.keepAlive <= 1 \/ Publishable(b)) ->
           [b |-> [b EXCEPT !.state = "late"], out |-> <<>>]
      [] OTHER -> [b |-> b, out |-> <<>>]

------------------------------------------------------------------------------
(* Effects shared by several actions *)

\* A mutant: the session must be activated.
SessionValidMut(s) == life[s].st = "activated"

SessionValid(s) == life[s].st # "closed"

\* The subscription b replaces k and its answers are posted.  told is the last value
\* of an item that was put in a message, as long as no newer one is queued; it is
\* part of no decision.
Becomes(k, b, q) ==
    LET old == sub[k].notifs
        about(i) == {j \in DOMAIN old : old[j].item = i}
        left == Len(old) - Len(b.notifs)
    IN  /\ sub' = [sub EXCEPT ![k] = b]
        /\ item' = [i \in ItemIds |->
                      IF about(i) # {} /\ Max(about(i)) <= left
                      THEN [item[i] EXCEPT !.told = old[Max(about(i))].val] ELSE item[i]]
        /\ evq' = q
        /\ UNCHANGED <<watch, freed>>

\* A mutant: the items stay in the list of their node.
UnwatchMut(q, items) == q

Unwatch(q, items) == SelectSeq(q, LAMBDA i : i \notin ToSet(items))

\* local_close_subscription: the timer is cancelled, every queued request is
\* answered, and the items leave the lists of their nodes and give back their ids.
CloseSub(k, reqs, q) ==
    LET b == sub[k] IN
    /\ sub' = [sub EXCEPT ![k] = NoSub]
    /\ item' = [i \in ItemIds |-> IF i \in ToSet(b.items) THEN NoSub ELSE item[i]]
    /\ watch' = [n \in Nodes |-> Unwatch(watch[n], b.items)]
    /\ freed' = freed \o b.items
    /\ evq' = PostAsNext([i \in DOMAIN reqs |-> PubResp(reqs[i], "noSub", 0)], q)

------------------------------------------------------------------------------
Init ==
    /\ life = [s \in Sessions |-> SL!Closed]
    /\ sub = [k \in Subs |-> NoSub]
    /\ item = [i \in ItemIds |-> NoSub]
    /\ watch = [n \in Nodes |-> <<>>]
    /\ freed = <<>>
    /\ value \in [Nodes -> {CHOOSE v \in Values : TRUE}]
    /\ evq = <<>>

subVars == <<sub, item, watch, freed>>

(* The sessions *)

\* A session is activated for the first time, or after it was orphaned.
SessionActivated(s, c) ==
    /\ Ready
    /\ life[s].st # "activated"
    /\ life' = [life EXCEPT ![s] = SL!ActivatedOn(c)]
    /\ UNCHANGED <<subVars, value, evq>>

SessionMoved(s, c) ==
    /\ Ready
    /\ life[s].st = "activated" /\ life[s].ch # c
    /\ life' = [life EXCEPT ![s] = SL!ActivatedOn(c)]
    /\ evq' = <<SL!Notice(s, "scActivating")>> \o evq
    /\ UNCHANGED <<subVars, value>>

SessionRefreshed(s) ==
    /\ Ready
    /\ life[s].st = "activated"
    /\ evq' = <<SL!Notice(s, "userActivating")>> \o evq
    /\ UNCHANGED <<life, subVars, value>>

SessionClosed(s) ==
    /\ Ready
    /\ life[s].st # "closed"
    /\ life' = [life EXCEPT ![s] = SL!Closed]
    /\ evq' = <<SL!Notice(s, "closed")>> \o evq
    /\ UNCHANGED <<subVars, value>>

\* The notices of the sessions of a lost channel are posted in one handler.
ChannelLost(c) ==
    /\ Ready
    /\ \E order \in SetToSeqs({s \in Sessions : life[s] = SL!ActivatedOn(c)}) :
         /\ order # <<>>
         /\ life' = [s \in Sessions |-> IF s \in ToSet(order) THEN SL!Orphaned ELSE life[s]]
         /\ evq' = [i \in DOMAIN order |-> SL!Notice(order[i], "scOrphaned")] \o evq
    /\ UNCHANGED <<subVars, value>>

(* Client requests, on the channel of an activated session *)

Request(s) == Ready /\ life[s].st = "activated"

CreateSubscription(s, p, enabled) ==
    /\ Request(s)
    /\ SubOf(s) = {}
    /\ Subs \ Live # {}
    /\ sub' = [sub EXCEPT ![Max(Subs \ Live)] = NewSubscription(s, Revised(p), enabled)]
    /\ UNCHANGED <<life, item, watch, freed, value, evq>>

\* The counters that run keep their value until they are reset.
ModifySubscription(s, p) ==
    /\ Request(s)
    /\ \E k \in SubOf(s) :
         sub' = [sub EXCEPT ![k].maxKeepAlive = Revised(p).keepAlive,
                            ![k].maxLifetime = Revised(p).lifetime,
                            ![k].maxNotifs = p.maxNotifs]
    /\ UNCHANGED <<life, item, watch, freed, value, evq>>

SetPublishingMode(s, enabled) ==
    /\ Request(s)
    /\ \E k \in SubOf(s) : sub' = [sub EXCEPT ![k].enabled = enabled]
    /\ UNCHANGED <<life, item, watch, freed, value, evq>>

DeleteSubscription(s) ==
    /\ Request(s)
    /\ \E k \in SubOf(s) : CloseSub(k, sub[k].reqs, evq)
    /\ UNCHANGED <<life, value>>

Waiting(k) == {r.id : r \in ToSet(sub[k].reqs)}
Answering == {evq[i].id : i \in {j \in DOMAIN evq : evq[j].ev = "pubresp"}}
InServer == Answering \cup UNION {Waiting(k) : k \in Live}

\* A publish request acknowledges messages and is then queued or answered.
Publish(s, acks) ==
    /\ Request(s)
    /\ ReqIds \ InServer # {}
    /\ \E k \in SubOf(s) :
         LET r == [id |-> Min(ReqIds \ InServer), s |-> s, ch |-> life[s].ch, exp |-> FALSE]
             b == [sub[k] EXCEPT !.republish = SelectSeq(@, LAMBDA n : n \notin acks)]
             res == ReceivePublish(b, r)
         IN  /\ acks \subseteq ToSet(sub[k].republish)
             /\ Becomes(k, res.b, PostAsNext(res.out, evq))
    /\ UNCHANGED <<life, value>>

\* Notifications of a subscription that are queued or may still come.
PendingData == Cardinality({i \in DOMAIN evq : evq[i].ev = "data"})
Room(k) == Len(sub[k].notifs) + PendingData < MaxNotifs

\* The item starts with a notification of the value the node has now.
CreateMonitoredItem(s, n, reporting) ==
    /\ Request(s)
    /\ \E k \in SubOf(s), i \in ItemIds :
         /\ IF freed # <<>> THEN i = Head(freed) ELSE \A j \in 1 .. i - 1 : item[j] # NoSub
         /\ item[i] = NoSub
         /\ Room(k)
         /\ item' = [item EXCEPT ![i] = [sub |-> k, node |-> n, reporting |-> reporting,
                                         told |-> NoValue]]
         /\ freed' = IF freed # <<>> THEN Tail(freed) ELSE freed
         /\ watch' = [watch EXCEPT ![n] = Append(@, i)]
         /\ sub' = [sub EXCEPT ![k].items = Append(@, i),
                               ![k].notifs = IF reporting THEN Append(@, [item |-> i, val |-> value[n]])
                                             ELSE @]
    /\ UNCHANGED <<life, value, evq>>

\* A write, by a client or by the application, is followed by a data change event.
Write(n, v) ==
    /\ Ready
    /\ \A k \in Live : Room(k)
    /\ PendingData < MaxNotifs
    /\ v = value[n] => evq = <<>>      \* bound: one useless event at a time
    /\ value' = [value EXCEPT ![n] = v]
    /\ evq' = Append(evq, DataEvent(n, value[n], v))
    /\ UNCHANGED <<life, subVars>>

(* Time.  What the clock does while events posted as next are handled it may as   *)
(* well do just before or just after: it changes nothing they look at.           *)

\* The periodic timer of a subscription; bound: one event of each id is queued.
PublishTimer(k) ==
    /\ Ready
    /\ k \in Live
    /\ TimerEvent(k) \notin ToSet(evq)
    /\ evq' = Append(evq, TimerEvent(k))
    /\ UNCHANGED <<life, subVars, value>>

RequestExpires(k) ==
    /\ Ready
    /\ k \in Live
    /\ \E i \in DOMAIN sub[k].reqs :
         /\ ~sub[k].reqs[i].exp
         /\ sub' = [sub EXCEPT ![k].reqs[i].exp = TRUE]
    /\ UNCHANGED <<life, item, watch, freed, value, evq>>

(* The events of the services thread *)

\* internal_server_subscription_publish_timeout: the id must be in use, not
\* necessarily by the subscription whose timer fired.
PublishCycle ==
    /\ evq # <<>> /\ Head(evq).ev = "timer"
    /\ LET k == Head(evq).sub
           b == PopInvalid(sub[k])
           q == PostAsNext(TimeoutResps(sub[k]), Tail(evq))
           res == PublishTimeout(IF b.reqs = <<>> THEN CountLifetime(b) ELSE b)
       IN  IF k \notin Live
           THEN evq' = Tail(evq) /\ UNCHANGED subVars
           ELSE IF b.reqs = <<>> /\ b.lifetime <= 1
           THEN CloseSub(k, <<>>, q)
           ELSE Becomes(k, res.b, PostAsNext(res.out, q))
    /\ UNCHANGED <<life, value>>

\* server_subscription_data_changed: a notification for each item of the node whose
\* subscription and session are valid.
DataChanged ==
    /\ evq # <<>> /\ Head(evq).ev = "data"
    /\ LET e == Head(evq)
           notified(i) == /\ e.old # e.new
                          /\ item[i].sub \in Live /\ SessionValid(sub[item[i].sub].s)
                          /\ item[i].reporting
           new(k) == SelectSeq(watch[e.node], LAMBDA i : notified(i) /\ item[i].sub = k)
       IN  /\ sub' = [k \in Subs |->
                        IF k \notin Live THEN NoSub
                        ELSE [sub[k] EXCEPT !.notifs = @ \o [i \in DOMAIN new(k) |->
                                                              [item |-> new(k)[i], val |-> e.new]]]]
           /\ item' = [i \in ItemIds |->
                         IF i \in ToSet(watch[e.node]) /\ notified(i)
                         THEN [item[i] EXCEPT !.told = NoValue] ELSE item[i]]
    /\ evq' = Tail(evq)
    /\ UNCHANGED <<life, watch, freed, value>>

\* The response is sent on the channel the session has now, if it has one.
SendPublishResponse ==
    /\ evq # <<>> /\ Head(evq).ev = "pubresp"
    /\ evq' = Tail(evq)
    /\ UNCHANGED <<life, subVars, value>>

EndsSubscription(st) == st = "closed"

\* server_subscription_session_inactive: the requests and the messages kept for
\* republishing go without an answer, the subscription of a closed session too.
SessionInactive ==
    /\ evq # <<>> /\ Head(evq).ev = "inactive"
    /\ LET e == Head(evq) IN
       IF SubOf(e.s) = {} \/ e.st = "userActivating"
       THEN evq' = Tail(evq) /\ UNCHANGED subVars
       ELSE \E k \in SubOf(e.s) :
              IF EndsSubscription(e.st)
              THEN CloseSub(k, <<>>, Tail(evq))
              ELSE Becomes(k, [sub[k] EXCEPT !.reqs = <<>>, !.republish = <<>>], Tail(evq))
    /\ UNCHANGED <<life, value>>

SessionStep ==
    \/ \E s \in Sessions, c \in Channels : SessionActivated(s, c) \/ SessionMoved(s, c)
    \/ \E s \in Sessions : SessionRefreshed(s) \/ SessionClosed(s)
    \/ \E c \in Channels : ChannelLost(c)

ClientRequest ==
    \E s \in Sessions :
        \/ \E p \in Requested, enabled \in BOOLEAN : CreateSubscription(s, p, enabled)
        \/ \E p \in Requested : ModifySubscription(s, p)
        \/ \E enabled \in BOOLEAN : SetPublishingMode(s, enabled)
        \/ DeleteSubscription(s)
        \/ \E acks \in SUBSET (1 .. LastSeqNum) : Publish(s, acks)
        \/ \E n \in Nodes, reporting \in Modes : CreateMonitoredItem(s, n, reporting)

HandlePrio == SendPublishResponse \/ SessionInactive
HandleQueued == PublishCycle \/ DataChanged

Next ==
    \/ SessionStep
    \/ ClientRequest
    \/ \E n \in Nodes, v \in Values : Write(n, v)
    \/ \E k \in Subs : PublishTimer(k) \/ RequestExpires(k)
    \/ HandlePrio
    \/ HandleQueued

\* The services thread takes every event posted as next; the timer of a live
\* subscription fires again and again, and the thread handles its queue in order, so
\* that a timer event is taken whatever requests arrive after it.
Fairness ==
    /\ []<>Ready
    /\ \A k \in Subs : []<>(k \in Live => TimerEvent(k) \in ToSet(evq))
    /\ \A k \in Subs : []<>(TimerEvent(k) \notin ToSet(evq))

Spec == Init /\ [][Next]_vars /\ Fairness

------------------------------------------------------------------------------
(* Properties *)

Request_ == [id : ReqIds, s : Sessions, ch : Channels, exp : BOOLEAN]

\* Types of the variables.
TypeOK ==
    /\ \A s \in Sessions : life[s] \in {SL!Closed, SL!Orphaned} \cup {SL!ActivatedOn(c) : c \in Channels}
    /\ \A k \in Live :
         /\ sub[k].state \in {"normal", "late", "keepAlive"}
         /\ sub[k].lifetime \in 1 .. MaxLifetime
         /\ sub[k].keepAlive \in 0 .. MaxKeepAlive
         /\ sub[k].seq \in 1 .. LastSeqNum
         /\ ToSet(sub[k].reqs) \subseteq Request_ /\ Len(sub[k].reqs) <= MaxPublishRequests
         /\ ToSet(sub[k].republish) \subseteq 1 .. LastSeqNum /\ Len(sub[k].republish) <= MaxRepublish
         /\ ToSet(sub[k].items) \subseteq ItemIds
    /\ \A n \in Nodes : ToSet(watch[n]) \subseteq ItemIds
    /\ value \in [Nodes -> Values]

\* Every publish request in the server waits in one place only: it is answered at
\* most once (publish requests move between the queue of their subscription and the
\* response events).
WaitsOnce ==
    /\ \A k \in Live : IsInjective([i \in DOMAIN sub[k].reqs |-> sub[k].reqs[i].id])
    /\ \A k, l \in Live : k # l => Waiting(k) \cap Waiting(l) = {}
    /\ \A k \in Live : Waiting(k) \cap Answering = {}
    /\ IsInjective([i \in DOMAIN SelectSeq(evq, LAMBDA e : e.ev = "pubresp") |->
                      SelectSeq(evq, LAMBDA e : e.ev = "pubresp")[i].id])

\* A response that is on its way belongs to a session that is activated on the
\* channel the request came from: server_send_publish_response takes the channel of
\* the session, and the response would reach another channel if the session could
\* move while the response waits.
ResponseOnItsChannel ==
    \A i \in DOMAIN evq :
        evq[i].ev = "pubresp" => life[evq[i].s] = SL!ActivatedOn(evq[i].ch)

\* A request that leaves the server was answered, or its session has left the
\* channel on which an answer would have been sent.
OnlyAnsweredLeave ==
    [][\A k \in Live : \A r \in ToSet(sub[k].reqs) :
         r.id \notin InServer' => life[r.s] # SL!ActivatedOn(r.ch)]_vars

\* The client is told of the last change: once no data change event of its node is
\* queued, the last notification of a reporting item, queued or put in a message,
\* holds the value of the node.
LastChangeTold ==
    \A i \in ItemIds :
        item[i] # NoSub /\ item[i].reporting
          /\ (\A j \in DOMAIN evq : evq[j].ev = "data" => evq[j].node # item[i].node) =>
            LET q == SelectSeq(sub[item[i].sub].notifs, LAMBDA m : m.item = i)
            IN  value[item[i].node] = IF q = <<>> THEN item[i].told ELSE Last(q).val

\* The state of a subscription is one its state machine can go on from.  Every
\* variable has its type.  The items of a node, of a subscription and of the item
\* table are the same, each once, and no freed id is in use: no list of a node keeps
\* the item of a closed subscription.  MoreNotifications is set only while
\* notifications are queued (otherwise the next publish request is refused for a
\* message that cannot be allocated); a late subscription has no request (its timer
\* would do nothing for it); and when no notice about sessions waits, its session is
\* not closed.
SubscriptionConsistent ==
    /\ TypeOK
    /\ \A n \in Nodes :
         /\ IsInjective(watch[n])
         /\ ToSet(watch[n]) = {i \in ItemIds : item[i] # NoSub /\ item[i].node = n}
    /\ \A i \in ItemIds : item[i] # NoSub => item[i].sub \in Live /\ i \in ToSet(sub[item[i].sub].items)
    /\ \A k \in Live : \A i \in ToSet(sub[k].items) : item[i] # NoSub /\ item[i].sub = k
    /\ IsInjective(freed) /\ \A i \in ToSet(freed) : item[i] = NoSub
    /\ \A k \in Live : /\ sub[k].more => sub[k].notifs # <<>>
                       /\ sub[k].state = "late" => sub[k].reqs = <<>>
    /\ Notices = <<>> => \A k \in Live : life[sub[k].s].st # "closed"

\* Every queued publish request is answered or dropped in the end, also without
\* notifications: the keep-alive counter runs out.
QueuedRequestLeaves ==
    \A id \in ReqIds, k \in Subs :
        (k \in Live /\ id \in Waiting(k)) ~> ~(k \in Live /\ id \in Waiting(k))

\* The subscription of a session that lost its channel does not live for ever: its
\* lifetime counter runs out unless the session finds a channel.
OrphanedSubscriptionEnds ==
    \A s \in Sessions :
        (life[s].st = "orphaned" /\ SubOf(s) # {}) ~> (life[s].st # "orphaned" \/ SubOf(s) = {})

\* "Dequeue oldest publish request": the request that is refused for a full queue is
\* the one that waited longest.
OldestDiscarded ==
    [][\A k \in Live : \A i \in DOMAIN evq' :
         evq'[i].ev = "pubresp" /\ evq'[i].code = "tooMany" /\ evq'[i].id \in Waiting(k)
           => evq'[i].id = Head(sub[k].reqs).id]_vars

=============================================================================
