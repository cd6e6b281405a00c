------------------------ MODULE ServerSessionsProofs ------------------------
(* Proofs about ServerSessions, for every value of its constants: the      *)
(* tables of sessions and channels agree, and the sessions refine          *)
(* SessionLife.                                                            *)
EXTENDS ServerSessions, FiniteSetTheorems, TLAPS

NoticeStates == {"closed", "scOrphaned", "userActivating", "scActivating", "creating"}

Events == {TimeoutEvent(s) : s \in Sessions}
          \cup {Notice(s, st) : s \in Sessions, st \in NoticeStates}

NoNotice(q) == \A i \in DOMAIN q : ~IsNotice(q[i])
AllNotices(q) == \A i \in DOMAIN q : IsNotice(q[i])
NoticesFirst(q) == \A i, j \in DOMAIN q : i < j /\ IsNotice(q[j]) => IsNotice(q[i])
-----------------------------------------------------------------------------
(* The queue.                                                              *)

\* Events are the event of a timer, which is no notice, and the notices.
LEMMA EventFacts ==
    /\ \A e \in Events : e.s \in Sessions
    /\ \A s \in Sessions : TimeoutEvent(s) \in Events /\ ~IsNotice(TimeoutEvent(s))
    /\ \A s \in Sessions, st \in NoticeStates : Notice(s, st) \in Events /\ IsNotice(Notice(s, st))
<1>1. \A e \in Events : e.s \in Sessions
  BY DEF Events, TimeoutEvent, Notice
<1>2. \A s \in Sessions : TimeoutEvent(s) \in Events /\ ~IsNotice(TimeoutEvent(s))
  BY DEF Events, TimeoutEvent, IsNotice
<1>3. \A s \in Sessions, st \in NoticeStates : Notice(s, st) \in Events /\ IsNotice(Notice(s, st))
  BY DEF Events, Notice, IsNotice
<1> QED
  BY <1>1, <1>2, <1>3

\* The notices at the head of a queue are the ones before the first other event.
LEMMA CountUnique ==
    ASSUME NEW q \in Seq(Events), NEW n \in 0..Len(q),
           \A i \in 1..n : IsNotice(q[i]),
           n < Len(q) => ~IsNotice(q[n + 1])
    PROVE  NoticeCount(q) = n
<1> DEFINE P(k) == /\ \A i \in 1..k : IsNotice(q[i])
                   /\ k < Len(q) => ~IsNotice(q[k + 1])
<1>1. \A k \in 0..Len(q) : P(k) => k = n
  <2> SUFFICES ASSUME NEW k \in 0..Len(q), P(k) PROVE k = n
    OBVIOUS
  <2>1. CASE k < n
    <3>1. k + 1 \in 1..n /\ k < Len(q)
      BY <2>1
    <3> QED
      BY <3>1
  <2>2. CASE n < k
    <3>1. n + 1 \in 1..k /\ n < Len(q)
      BY <2>2
    <3> QED
      BY <3>1
  <2> QED
    BY <2>1, <2>2
<1>2. P(n)
  OBVIOUS
<1>3. NoticeCount(q) = CHOOSE k \in 0..Len(q) : P(k)
  BY DEF NoticeCount
<1> HIDE DEF P
<1> QED
  BY <1>1, <1>2, <1>3

\* A queue without notices.
LEMMA NoticesNone ==
    ASSUME NEW q \in Seq(Events), NoNotice(q)
    PROVE  NoticesIn(q) = <<>>
<1>1. NoticeCount(q) = 0
  <2>1. 0 \in 0..Len(q) /\ (0 < Len(q) => ~IsNotice(q[0 + 1]))
    BY DEF NoNotice
  <2>2. \A i \in 1..0 : IsNotice(q[i])
    OBVIOUS
  <2> QED
    BY <2>1, <2>2, CountUnique
<1> QED
  BY <1>1 DEF NoticesIn

\* Notices posted as next in front of a queue without notices.
LEMMA NoticesPosted ==
    ASSUME NEW out \in Seq(Events), AllNotices(out), NEW q \in Seq(Events), NoNotice(q)
    PROVE  /\ out \o q \in Seq(Events)
           /\ NoticesFirst(out \o q)
           /\ NoticesIn(out \o q) = out
<1> DEFINE r == out \o q
<1>1. /\ r \in Seq(Events) /\ Len(r) = Len(out) + Len(q)
      /\ \A i \in 1..Len(out) : r[i] = out[i]
      /\ \A i \in Len(out) + 1 .. Len(out) + Len(q) : r[i] = q[i - Len(out)]
  OBVIOUS
<1> HIDE DEF r
<1>2. \A i \in 1..Len(out) : IsNotice(r[i])
  BY <1>1 DEF AllNotices
<1>3. \A i \in 1..Len(r) : i > Len(out) => ~IsNotice(r[i])
  BY <1>1 DEF NoNotice
<1>4. NoticesFirst(r)
  BY <1>1, <1>2, <1>3 DEF NoticesFirst
<1>5. NoticeCount(r) = Len(out)
  <2>1. Len(out) \in 0..Len(r)
    BY <1>1
  <2>2. Len(out) < Len(r) => ~IsNotice(r[Len(out) + 1])
    BY <1>1, <1>3
  <2> QED
    BY <1>1, <1>2, <2>1, <2>2, CountUnique
<1>6. NoticesIn(r) = out
  BY <1>5, <1>1 DEF NoticesIn
<1> QED
  BY <1>1, <1>4, <1>6 DEF r

\* A set of positions has a smallest one.
LEMMA LeastPosition ==
    ASSUME NEW P \in SUBSET Nat, P # {}
    PROVE  \E p \in P : \A r \in P : p <= r
<1> DEFINE Less == {ss \in Nat \X Nat : ss[1] < ss[2]}
<1>1. IsWellFoundedOn(Less, Nat)
  BY NatLessThanWellFounded, Zenon DEF OpToRel
<1>2. \A r, p \in Nat : r < p => <<r, p>> \in Less
  OBVIOUS
<1>3. \A r, p \in Nat : ~ (r < p) => p <= r
  OBVIOUS
<1> HIDE DEF Less
<1>4. \E p \in P : \A r \in P : ~ (<<r, p>> \in Less)
  BY <1>1, WFMin
<1> QED
  BY <1>2, <1>3, <1>4, Zenon

\* Every queue has its notices at the head counted.
LEMMA CountFacts ==
    ASSUME NEW q \in Seq(Events)
    PROVE  /\ NoticeCount(q) \in 0..Len(q)
           /\ \A i \in 1..NoticeCount(q) : IsNotice(q[i])
           /\ NoticeCount(q) < Len(q) => ~IsNotice(q[NoticeCount(q) + 1])
<1>1. CASE AllNotices(q)
  <2>1. Len(q) \in 0..Len(q) /\ (Len(q) < Len(q) => ~IsNotice(q[Len(q) + 1]))
    OBVIOUS
  <2>2. \A i \in 1..Len(q) : IsNotice(q[i])
    BY <1>1 DEF AllNotices
  <2>3. NoticeCount(q) = Len(q)
    BY <2>1, <2>2, CountUnique
  <2> QED
    BY <2>1, <2>2, <2>3
<1>2. CASE ~AllNotices(q)
  <2> DEFINE others == {i \in 1..Len(q) : ~IsNotice(q[i])}
  <2>1. others # {} /\ others \in SUBSET Nat
    BY <1>2 DEF AllNotices
  <2>2. PICK p \in others : \A i \in others : p <= i
    BY <2>1, LeastPosition
  <2>3. p - 1 \in 0..Len(q) /\ (p - 1 < Len(q) => ~IsNotice(q[(p - 1) + 1]))
    BY <2>2
  <2>4. \A i \in 1..(p - 1) : IsNotice(q[i])
    BY <2>2
  <2>5. NoticeCount(q) = p - 1
    BY <2>3, <2>4, CountUnique
  <2> QED
    BY <2>3, <2>4, <2>5
<1> QED
  BY <1>1, <1>2

\* An event that is no notice, appended.
LEMMA NoticesAppended ==
    ASSUME NEW q \in Seq(Events), NoticesFirst(q), NEW e \in Events, ~IsNotice(e)
    PROVE  /\ Append(q, e) \in Seq(Events)
           /\ NoticesFirst(Append(q, e))
           /\ NoticesIn(Append(q, e)) = NoticesIn(q)
<1> DEFINE r == Append(q, e)
<1>1. /\ r \in Seq(Events) /\ Len(r) = Len(q) + 1
      /\ \A i \in 1..Len(q) : r[i] = q[i]
      /\ r[Len(q) + 1] = e
  OBVIOUS
<1> HIDE DEF r
<1>2. NoticesFirst(r)
  <2> SUFFICES ASSUME NEW i \in 1..Len(r), NEW j \in 1..Len(r), i < j, IsNotice(r[j])
               PROVE  IsNotice(r[i])
    BY <1>1 DEF NoticesFirst
  <2>1. j \in 1..Len(q) /\ i \in 1..Len(q)
    BY <1>1
  <2> QED
    BY <1>1, <2>1 DEF NoticesFirst
<1>3. NoticeCount(r) = NoticeCount(q)
  <2> DEFINE n == NoticeCount(q)
  <2>1. /\ n \in 0..Len(q)
        /\ \A i \in 1..n : IsNotice(q[i])
        /\ n < Len(q) => ~IsNotice(q[n + 1])
    BY CountFacts
  <2> HIDE DEF n
  <2>2. n \in 0..Len(r) /\ (\A i \in 1..n : IsNotice(r[i]))
    BY <1>1, <2>1
  <2>3. n < Len(r) => ~IsNotice(r[n + 1])
    BY <1>1, <2>1
  <2>4. NoticeCount(r) = n
    BY <1>1, <2>2, <2>3, CountUnique
  <2> QED
    BY <2>4 DEF n
<1>4. NoticesIn(r) = NoticesIn(q)
  <2>1. NoticeCount(q) \in 0..Len(q)
    BY CountFacts
  <2> QED
    BY <1>1, <1>3, <2>1 DEF NoticesIn
<1> QED
  BY <1>1, <1>2, <1>4 DEF r

\* The first event taken from a queue.
LEMMA NoticesTail ==
    ASSUME NEW q \in Seq(Events), NoticesFirst(q), q # <<>>
    PROVE  /\ Tail(q) \in Seq(Events) /\ Head(q) \in Events
           /\ NoticesFirst(Tail(q))
           /\ ~IsNotice(Head(q)) => NoNotice(Tail(q))
           /\ IsNotice(Head(q)) =>
                NoticesIn(q) # <<>> /\ NoticesIn(Tail(q)) = Tail(NoticesIn(q))
<1> DEFINE r == Tail(q)
<1>1. /\ r \in Seq(Events) /\ Len(r) = Len(q) - 1 /\ Len(q) >= 1
      /\ \A i \in 1..Len(r) : r[i] = q[i + 1]
      /\ Head(q) = q[1] /\ q[1] \in Events
  OBVIOUS
<1> HIDE DEF r
<1>2. NoticesFirst(r)
  <2> SUFFICES ASSUME NEW i \in 1..Len(r), NEW j \in 1..Len(r), i < j, IsNotice(r[j])
               PROVE  IsNotice(r[i])
    BY <1>1 DEF NoticesFirst
  <2>1. i + 1 \in 1..Len(q) /\ j + 1 \in 1..Len(q) /\ i + 1 < j + 1
    BY <1>1
  <2>2. r[i] = q[i + 1] /\ r[j] = q[j + 1]
    BY <1>1
  <2> QED
    BY <2>1, <2>2 DEF NoticesFirst
<1>3. ~IsNotice(Head(q)) => NoNotice(r)
  <2> SUFFICES ASSUME ~IsNotice(q[1]), NEW i \in 1..Len(r) PROVE ~IsNotice(r[i])
    BY <1>1 DEF NoNotice
  <2>1. i + 1 \in 1..Len(q) /\ 1 \in 1..Len(q) /\ 1 < i + 1 /\ r[i] = q[i + 1]
    BY <1>1
  <2> QED
    BY <2>1 DEF NoticesFirst
<1>4. ASSUME IsNotice(Head(q))
      PROVE  NoticesIn(q) # <<>> /\ NoticesIn(r) = Tail(NoticesIn(q))
  <2> DEFINE n == NoticeCount(q)
  <2>1. /\ n \in 0..Len(q)
        /\ \A i \in 1..n : IsNotice(q[i])
        /\ n < Len(q) => ~IsNotice(q[n + 1])
    BY CountFacts
  <2>2. NoticesIn(q) = [i \in 1..n |-> q[i]]
    BY DEF NoticesIn
  <2> HIDE DEF n
  <2>3. n >= 1
    BY <1>1, <1>4, <2>1
  <2>4. NoticeCount(r) = n - 1
    <3>1. n - 1 \in 0..Len(r)
      BY <1>1, <2>1, <2>3
    <3>2. \A i \in 1..(n - 1) : IsNotice(r[i])
      BY <1>1, <2>1, <2>3
    <3>3. n - 1 < Len(r) => ~IsNotice(r[(n - 1) + 1])
      BY <1>1, <2>1, <2>3
    <3> QED
      BY <1>1, <3>1, <3>2, <3>3, CountUnique
  <2>5. NoticesIn(r) = [i \in 1..(n - 1) |-> r[i]]
    BY <2>4 DEF NoticesIn
  <2>6. [i \in 1..n |-> q[i]] \in Seq(Events) /\ Len([i \in 1..n |-> q[i]]) = n
    BY <2>1
  <2>7. Tail([i \in 1..n |-> q[i]]) = [i \in 1..(n - 1) |-> r[i]]
    BY <1>1, <2>1, <2>3, <2>6
  <2>8. [i \in 1..n |-> q[i]] # <<>>
    BY <2>1, <2>3, <2>6
  <2> QED
    BY <2>2, <2>5, <2>7, <2>8, Zenon
<1> QED
  BY <1>1, <1>2, <1>3, <1>4 DEF r

\* Nothing but a notice at the head: no notice at all.
LEMMA NoticesReady ==
    ASSUME evq \in Seq(Events), NoticesFirst(evq), Ready
    PROVE  NoNotice(evq)
<1> SUFFICES ASSUME NEW i \in 1..Len(evq) PROVE ~IsNotice(evq[i])
  BY DEF NoNotice
<1>1. evq # <<>> /\ Head(evq) = evq[1] /\ 1 \in 1..Len(evq)
  OBVIOUS
<1> QED
  BY <1>1 DEF Ready, NoticesFirst
-----------------------------------------------------------------------------
(* The order in which the sessions of a lost channel are named.            *)

\* Sessions have an increasing enumeration: the inverse of their rank.
LEMMA InOrderFacts ==
    ASSUME NEW S \in SUBSET Sessions
    PROVE  /\ Cardinality(S) \in Nat
           /\ InOrder(S) \in [1..Cardinality(S) -> S]
           /\ \A i, j \in 1..Cardinality(S) : i < j => InOrder(S)[i] < InOrder(S)[j]
<1> DEFINE n == Cardinality(S)
           below(s) == {r \in S : r <= s}
           rank == [s \in S |-> Cardinality(below(s))]
<1>0. S \in SUBSET Nat
  BY ServerSessionsAssumption DEF Sessions
<1>1. IsFiniteSet(S) /\ n \in Nat
  <2>1. IsFiniteSet(1..MaxSessions)
    BY FS_Interval, ServerSessionsAssumption
  <2>2. IsFiniteSet(S)
    BY <2>1, FS_Subset DEF Sessions
  <2> QED
    BY <2>2, FS_CardinalityType
<1>2. \A s \in S : /\ below(s) \in SUBSET S /\ IsFiniteSet(below(s))
                   /\ Cardinality(below(s)) \in 1..n
  <2> SUFFICES ASSUME NEW s \in S
               PROVE  /\ below(s) \in SUBSET S /\ IsFiniteSet(below(s))
                      /\ Cardinality(below(s)) \in 1..n
    OBVIOUS
  <2>1. below(s) \in SUBSET S /\ s \in below(s)
    BY <1>0
  <2> HIDE DEF below
  <2>2. IsFiniteSet(below(s)) /\ Cardinality(below(s)) <= n
    BY <1>1, <2>1, FS_Subset
  <2>3. Cardinality(below(s)) \in Nat /\ Cardinality(below(s)) # 0
    BY <2>1, <2>2, FS_CardinalityType, FS_EmptySet
  <2> QED
    BY <1>1, <2>1, <2>2, <2>3
<1>3. \A r, s \in S : r < s => Cardinality(below(r)) < Cardinality(below(s))
  <2> SUFFICES ASSUME NEW r \in S, NEW s \in S, r < s
               PROVE  Cardinality(below(r)) < Cardinality(below(s))
    OBVIOUS
  <2>0. r \in Nat /\ s \in Nat /\ \A x \in S : x \in Nat
    BY <1>0
  <2>1. below(r) \in SUBSET below(s) /\ s \in below(s) /\ s \notin below(r)
    <3>1. \A x \in S : x <= r => x <= s
      BY <2>0
    <3>2. s <= s /\ ~ (s <= r)
      BY <2>0
    <3> QED
      BY <3>1, <3>2
  <2>2. IsFiniteSet(below(s)) /\ Cardinality(below(s)) \in 1..n /\ Cardinality(below(r)) \in 1..n
    BY <1>2
  <2> HIDE DEF below
  <2>3. /\ Cardinality(below(r)) <= Cardinality(below(s))
        /\ Cardinality(below(s)) = Cardinality(below(r)) => below(s) = below(r)
    BY <2>1, <2>2, FS_Subset
  <2> QED
    BY <1>1, <2>1, <2>2, <2>3
<1>4. /\ rank \in [S -> 1..n]
      /\ \A r, s \in S : r < s => rank[r] < rank[s]
  BY <1>2, <1>3
<1> HIDE DEF below, rank
<1>5. \A r, s \in S : rank[r] = rank[s] => r = s
  BY <1>0, <1>1, <1>4
<1>6. rank \in Injection(S, 1..n)
  BY <1>4, <1>5 DEF Injection, IsInjective
<1>7. IsFiniteSet(1..n) /\ Cardinality(1..n) = n
  BY <1>1, FS_Interval
<1>8. rank \in Surjection(S, 1..n)
  BY <1>6, <1>7, FS_Injection
<1>9. \A i \in 1..n : \E s \in S : rank[s] = i
  BY <1>8 DEF Surjection
<1> DEFINE q == [i \in 1..n |-> CHOOSE s \in S : rank[s] = i]
<1>10. q \in [1..n -> S] /\ \A i \in 1..n : rank[q[i]] = i
  BY <1>9
<1> HIDE DEF q
<1>11. \A i, j \in 1..n : i < j => q[i] < q[j]
  <2> SUFFICES ASSUME NEW i \in 1..n, NEW j \in 1..n, i < j PROVE q[i] < q[j]
    OBVIOUS
  <2>1. q[i] \in S /\ q[j] \in S /\ rank[q[i]] = i /\ rank[q[j]] = j
    BY <1>10
  <2>2. ~ (q[j] < q[i]) /\ q[i] # q[j]
    BY <1>1, <1>4, <2>1
  <2>3. q[i] \in Nat /\ q[j] \in Nat
    BY <1>0, <2>1
  <2> QED
    BY <2>2, <2>3
<1>12. \E p \in [1..n -> S] : \A i, j \in DOMAIN p : i < j => p[i] < p[j]
  BY <1>10, <1>11
<1>13. /\ InOrder(S) \in [1..n -> S]
       /\ \A i, j \in DOMAIN InOrder(S) : i < j => InOrder(S)[i] < InOrder(S)[j]
  BY <1>12 DEF InOrder
<1> QED
  BY <1>1, <1>13
-----------------------------------------------------------------------------
(* The channel manager.                                                    *)

\* A channel that connects leaves the others connected.
LEMMA ChannelAdded ==
    ASSUME NEW m \in ChannelMgrType, NEW c \in Channels
    PROVE  /\ add_channel_connected(m, c, c, TRUE) \in ChannelMgrType
           /\ \A d \in Channels : is_connected_channel(m, d) =>
                 is_connected_channel(add_channel_connected(m, c, c, TRUE), d)
<1>1. c \in Configs
  BY ServerSessionsAssumption
<1>2. Append(m.since, c) \in Seq(Channels) /\ \A i \in DOMAIN m.since : Append(m.since, c)[i] = m.since[i]
  BY DEF ChannelMgrType
<1>3. DOMAIN m.since \subseteq DOMAIN Append(m.since, c)
  BY DEF ChannelMgrType
<1> QED
  BY <1>1, <1>2, <1>3 DEF ChannelMgrType, add_channel_connected, is_connected_channel

\* A channel that is removed from the list leaves the others in it.
LEMMA WithoutFacts ==
    ASSUME NEW q \in Seq(Channels), NEW c \in Channels
    PROVE  /\ Without(q, c) \in Seq(Channels)
           /\ \A d \in Channels : d # c /\ (\E i \in DOMAIN q : q[i] = d) =>
                 \E i \in DOMAIN Without(q, c) : Without(q, c)[i] = d
<1>1. CASE \A i \in DOMAIN q : q[i] # c
  BY <1>1 DEF Without
<1>2. CASE ~ \A i \in DOMAIN q : q[i] # c
  <2> DEFINE at == CHOOSE i \in DOMAIN q : q[i] = c
             w == [i \in 1 .. Len(q) - 1 |-> IF i < at THEN q[i] ELSE q[i + 1]]
  <2>1. at \in 1..Len(q) /\ q[at] = c
    BY <1>2
  <2>2. Without(q, c) = w
    BY <1>2 DEF Without
  <2> HIDE DEF at
  <2>3. w \in [1 .. Len(q) - 1 -> Channels] /\ Len(q) - 1 \in Nat
    BY <2>1
  <2>4. w \in Seq(Channels) /\ DOMAIN w = 1 .. Len(q) - 1
    BY <2>3
  <2>5. ASSUME NEW d \in Channels, d # c, NEW i \in 1..Len(q), q[i] = d
        PROVE  \E j \in 1 .. Len(q) - 1 : w[j] = d
    <3>1. CASE i < at
      <4>1. i \in 1 .. Len(q) - 1 /\ w[i] = d
        BY <2>1, <2>5, <3>1
      <4> QED
        BY <4>1
    <3>2. CASE i > at
      <4>1. i - 1 \in 1 .. Len(q) - 1 /\ w[i - 1] = d
        BY <2>1, <2>5, <3>2
      <4> QED
        BY <4>1
    <3>3. i # at
      BY <2>1, <2>5
    <3> QED
      BY <2>1, <3>1, <3>2, <3>3
  <2> HIDE DEF w
  <2> QED
    BY <2>2, <2>4, <2>5
<1> QED
  BY <1>1, <1>2

\* A channel that is lost leaves the others connected.
LEMMA ChannelLost ==
    ASSUME cm \in ChannelMgrType, NEW c \in Channels
    PROVE  /\ channel_lost(Manager, c).cm \in ChannelMgrType
           /\ \A d \in Channels : d # c /\ is_connected_channel(cm, d) =>
                 is_connected_channel(channel_lost(Manager, c).cm, d)
<1> DEFINE g == cm.config[c]
           m == [cm EXCEPT !.since = Without(cm.since, c), !.disconnecting = @ \ {g},
                           !.config[c] = 0, !.config_inv[g] = 0, !.servers = @ \ {c}]
           after == [cm |-> m, queue |-> <<>>, toSC |-> <<>>]
<1>1. CASE g = 0
  <2>1. channel_lost(Manager, c).cm = cm
    BY <1>1 DEF channel_lost, Manager
  <2> QED
    BY <2>1
<1>2. CASE g # 0
  <2> DEFINE left == [Manager EXCEPT !.cm.since = Without(@, c), !.cm.disconnecting = @ \ {g},
                                     !.cm.config[c] = 0, !.cm.config_inv[g] = 0,
                                     !.cm.servers = @ \ {c}]
  <2>0. channel_lost(Manager, c) = l_check_all_channel_lost(left)
    BY <1>2, Zenon DEF channel_lost, Manager
  <2>1. left = after
    <3>1. left.cm = m
      BY DEF Manager, ChannelMgrType
    <3>2. left = [Manager EXCEPT !.cm = left.cm]
      BY DEF Manager, ChannelMgrType
    <3> HIDE DEF left, m
    <3> QED
      BY <3>1, <3>2 DEF Manager
  <2>2. /\ Without(cm.since, c) \in Seq(Channels)
        /\ \A d \in Channels : d # c /\ (\E i \in DOMAIN cm.since : cm.since[i] = d) =>
              \E i \in DOMAIN Without(cm.since, c) : Without(cm.since, c)[i] = d
    BY WithoutFacts DEF ChannelMgrType
  <2>3. m \in ChannelMgrType /\ m.since = Without(cm.since, c)
    BY <1>2, <2>2 DEF ChannelMgrType
  <2> HIDE DEF m, left
  <2>4. /\ l_check_all_channel_lost(left).cm \in ChannelMgrType
        /\ l_check_all_channel_lost(left).cm.since = m.since
    <3>1. l_check_all_channel_lost(left).cm \in {m, [m EXCEPT !.closing = "none"]}
      <4>1. CASE m.closing # "none" /\ Concerned(m, m.closing = "client") = {}
        BY <2>1, <4>1 DEF l_check_all_channel_lost
      <4>2. CASE ~ (m.closing # "none" /\ Concerned(m, m.closing = "client") = {})
        BY <2>1, <4>2 DEF l_check_all_channel_lost
      <4> QED
        BY <4>1, <4>2
    <3>2. [m EXCEPT !.closing = "none"] \in ChannelMgrType /\ [m EXCEPT !.closing = "none"].since = m.since
      BY <2>3 DEF ChannelMgrType
    <3> QED
      BY <2>3, <3>1, <3>2
  <2> QED
    BY <2>0, <2>2, <2>3, <2>4 DEF is_connected_channel
<1> QED
  BY <1>1, <1>2

\* The channel that is closed to make room is one, or none.
LEMMA ChannelToClose ==
    ASSUME cm \in ChannelMgrType
    PROVE  ToClose \in Channels \cup {0}
<1> DEFINE idle == {i \in DOMAIN cm.since : reverse[cm.since[i]] = 0}
<1>1. idle \in SUBSET Nat /\ idle \subseteq DOMAIN cm.since
  BY DEF ChannelMgrType
<1>2. find_channel_to_close \in Channels \cup {0}
  <2>1. CASE idle = {}
    BY <2>1 DEF find_channel_to_close
  <2>2. CASE idle # {}
    <3>1. \E i \in idle : \A j \in idle : i <= j
      BY <1>1, <2>2, LeastPosition
    <3> DEFINE first == CHOOSE i \in idle : \A j \in idle : i <= j
    <3>2. first \in idle
      BY <3>1
    <3>3. find_channel_to_close = cm.since[first]
      BY <2>2 DEF find_channel_to_close
    <3> HIDE DEF first
    <3> QED
      BY <1>1, <3>2, <3>3 DEF ChannelMgrType
  <2> QED
    BY <2>1, <2>2
<1> QED
  BY <1>2 DEF ToClose
-----------------------------------------------------------------------------
(* The inductive invariant.  What the runs check of the tables is          *)
(* inductive once the events are known to be about sessions, with the      *)
(* notices in front: a handler that changes a session then finds none.     *)

Session == [st : {"closed", "created", "activated", "orphaned"},
            ch : Channels \cup {0}, user : Users \cup {NoUser}, told : BOOLEAN]

TablesTyped ==
    /\ cm \in ChannelMgrType
    /\ asked \in SUBSET Channels
    /\ sess \in [Sessions -> Session]
    /\ reverse \in [Channels -> Sessions \cup {0}]

ClocksTyped ==
    /\ silent \in [Sessions -> 0..Timeout]
    /\ expiration \in [Sessions -> 0..Timeout \cup {Off}]
    /\ forgotten \in [Sessions -> [0..Timeout -> Nat]]

OnConnected(s) ==
    /\ sess[s].st \in {"created", "activated"} => is_connected_channel(cm, sess[s].ch)
    /\ sess[s].st \in {"closed", "orphaned"} => sess[s].ch = 0

Tables == TablesTyped /\ (\A s \in Sessions : OnConnected(s)) /\ ReverseNamesUser

QueueInv == evq \in Seq(Events) /\ NoticesFirst(evq)

Inv == Tables /\ ClocksTyped /\ QueueInv

\* The invariant implies the properties proved below.
LEMMA InvImplies == Inv => SessionOnConnectedChannel /\ ReverseNamesUser
BY DEF Inv, Tables, TablesTyped, ClocksTyped, OnConnected, SessionOnConnectedChannel, TypeOK, Session

\* What the typing of the tables says of one session.
LEMMA SessionFacts ==
    ASSUME Tables, NEW s \in Sessions
    PROVE  /\ s # 0 /\ s \in Nat
           /\ sess[s] \in Session
           /\ sess[s].ch \in Channels \cup {0}
           /\ sess[s].st \in {"closed", "created", "activated", "orphaned"}
           /\ sess[s].st \in {"created", "activated"} => sess[s].ch \in Channels
           /\ sess[s].st \in {"closed", "orphaned"} => sess[s].ch = 0
<1>1. sess[s] \in Session /\ cm.since \in Seq(Channels)
  BY DEF Tables, TablesTyped, ChannelMgrType
<1>2. OnConnected(s)
  BY DEF Tables
<1>3. sess[s].st \in {"created", "activated"} => sess[s].ch \in Channels
  BY <1>1, <1>2 DEF OnConnected, is_connected_channel
<1> QED
  BY <1>1, <1>2, <1>3, ServerSessionsAssumption DEF Session, OnConnected, Sessions

\* A closed session is a session.
LEMMA ClosedIsSession == ClosedSession \in Session
BY DEF ClosedSession, Session

\* Closing a session keeps the tables.
LEMMA TablesClose ==
    ASSUME Tables, NEW s \in Sessions,
           sess' = [sess EXCEPT ![s] = ClosedSession],
           reverse' = reset_session_channel(s),
           UNCHANGED <<cm, asked>>
    PROVE  Tables'
<1>1. sess' \in [Sessions -> Session] /\ sess'[s] = ClosedSession
      /\ \A r \in Sessions : r # s => sess'[r] = sess[r]
  BY ClosedIsSession DEF Tables, TablesTyped
<1>2. /\ reverse' \in [Channels -> Sessions \cup {0}]
      /\ \A c \in Channels : reverse'[c] # 0 => reverse'[c] = reverse[c] /\ c # sess[s].ch
  <2>1. CASE sess[s].ch = 0
    <3>1. \A c \in Channels : c # 0
      BY DEF Channels
    <3> QED
      BY <2>1, <3>1 DEF Tables, TablesTyped, reset_session_channel
  <2>2. CASE sess[s].ch # 0
    BY <2>2 DEF Tables, TablesTyped, reset_session_channel
  <2> QED
    BY <2>1, <2>2
<1>3. TablesTyped'
  BY <1>1, <1>2 DEF Tables, TablesTyped
<1>4. \A r \in Sessions : OnConnected(r)'
  <2> SUFFICES ASSUME NEW r \in Sessions PROVE OnConnected(r)'
    OBVIOUS
  <2>1. CASE r = s
    BY <1>1, <2>1 DEF OnConnected, ClosedSession
  <2>2. CASE r # s
    BY <1>1, <2>2 DEF Tables, OnConnected
  <2> QED
    BY <2>1, <2>2
<1>5. ReverseNamesUser'
  <2> SUFFICES ASSUME NEW c \in Channels, reverse'[c] # 0
               PROVE  sess'[reverse'[c]].st # "closed" /\ sess'[reverse'[c]].ch = c
    BY DEF ReverseNamesUser, Valid
  <2>1. reverse'[c] = reverse[c] /\ c # sess[s].ch /\ reverse[c] \in Sessions
    BY <1>2 DEF Tables, TablesTyped
  <2>2. sess[reverse[c]].st # "closed" /\ sess[reverse[c]].ch = c
    BY <2>1 DEF Tables, ReverseNamesUser, Valid
  <2>3. reverse[c] # s
    BY <2>1, <2>2
  <2> QED
    BY <1>1, <2>1, <2>2, <2>3
<1> QED
  BY <1>3, <1>4, <1>5 DEF Tables

\* Making a session, or activating it, on a connected channel keeps the tables.
LEMMA TablesTaken ==
    ASSUME Tables, NEW s \in Sessions, NEW c \in Channels, NEW new \in Session,
           new.st \in {"created", "activated"}, new.ch = c, is_connected_channel(cm, c),
           sess' = [sess EXCEPT ![s] = new],
           reverse' = set_session_channel(s, c),
           UNCHANGED <<cm, asked>>
    PROVE  Tables'
<1>1. sess' \in [Sessions -> Session] /\ sess'[s] = new
      /\ \A r \in Sessions : r # s => sess'[r] = sess[r]
  BY DEF Tables, TablesTyped
<1>2. /\ reverse' \in [Channels -> Sessions \cup {0}]
      /\ reverse'[c] = s
      /\ \A d \in Channels : d # c /\ reverse'[d] # 0 => reverse'[d] = reverse[d] /\ d # sess[s].ch
  <2>0. \A d \in Channels : d # 0
    BY DEF Channels
  <2> DEFINE cleared == IF sess[s].ch = 0 THEN reverse ELSE [reverse EXCEPT ![sess[s].ch] = 0]
  <2>1. /\ cleared \in [Channels -> Sessions \cup {0}]
        /\ \A d \in Channels : cleared[d] # 0 => cleared[d] = reverse[d] /\ d # sess[s].ch
    <3>1. CASE sess[s].ch = 0
      BY <2>0, <3>1 DEF Tables, TablesTyped
    <3>2. CASE sess[s].ch # 0
      BY <3>2 DEF Tables, TablesTyped
    <3> QED
      BY <3>1, <3>2
  <2>2. reverse' = [cleared EXCEPT ![c] = s]
    BY DEF set_session_channel
  <2> HIDE DEF cleared
  <2> QED
    BY <2>1, <2>2
<1>3. TablesTyped'
  BY <1>1, <1>2 DEF Tables, TablesTyped
<1>4. \A r \in Sessions : OnConnected(r)'
  <2> SUFFICES ASSUME NEW r \in Sessions PROVE OnConnected(r)'
    OBVIOUS
  <2>1. CASE r = s
    BY <1>1, <2>1 DEF OnConnected, is_connected_channel
  <2>2. CASE r # s
    BY <1>1, <2>2 DEF Tables, OnConnected
  <2> QED
    BY <2>1, <2>2
<1>5. ReverseNamesUser'
  <2> SUFFICES ASSUME NEW d \in Channels, reverse'[d] # 0
               PROVE  sess'[reverse'[d]].st # "closed" /\ sess'[reverse'[d]].ch = d
    BY DEF ReverseNamesUser, Valid
  <2>1. CASE d = c
    BY <1>1, <1>2, <2>1
  <2>2. CASE d # c
    <3>1. reverse'[d] = reverse[d] /\ d # sess[s].ch /\ reverse[d] \in Sessions
      BY <1>2, <2>2 DEF Tables, TablesTyped
    <3>2. sess[reverse[d]].st # "closed" /\ sess[reverse[d]].ch = d
      BY <3>1 DEF Tables, ReverseNamesUser, Valid
    <3>3. reverse[d] # s
      BY <3>1, <3>2
    <3> QED
      BY <1>1, <3>1, <3>2, <3>3
  <2> QED
    BY <2>1, <2>2
<1> QED
  BY <1>3, <1>4, <1>5 DEF Tables

\* A channel that connects keeps the tables.
LEMMA TablesConnected ==
    ASSUME Tables, NEW c \in Channels, server_channel_connected_event(c)
    PROVE  Tables'
<1>1. cm \in ChannelMgrType
  BY DEF Tables, TablesTyped
<1>2. /\ cm' \in ChannelMgrType
      /\ \A d \in Channels : is_connected_channel(cm, d) => is_connected_channel(cm, d)'
  <2>1. cm' = add_channel_connected(cm, c, c, TRUE) \/ cm' = cm
    BY DEF server_channel_connected_event
  <2>2. CASE cm' = add_channel_connected(cm, c, c, TRUE)
    BY <1>1, <2>2, ChannelAdded DEF is_connected_channel
  <2>3. CASE cm' = cm
    BY <1>1, <2>3 DEF is_connected_channel
  <2> QED
    BY <2>1, <2>2, <2>3
<1>3. asked' \in SUBSET Channels
  BY <1>1, ChannelToClose DEF Tables, TablesTyped, server_channel_connected_event
<1>4. sess' = sess /\ reverse' = reverse
  BY DEF server_channel_connected_event
<1>5. \A r \in Sessions : OnConnected(r)'
  <2> SUFFICES ASSUME NEW r \in Sessions PROVE OnConnected(r)'
    OBVIOUS
  <2>1. /\ sess[r].st \in {"created", "activated"} => sess[r].ch \in Channels
        /\ OnConnected(r)
    BY SessionFacts DEF Tables
  <2> QED
    BY <1>2, <1>4, <2>1 DEF OnConnected
<1> QED
  BY <1>2, <1>3, <1>4, <1>5 DEF Tables, TablesTyped, ReverseNamesUser, Valid

\* What a lost channel does to one session.
LEMMA SessionLost ==
    ASSUME Tables, NEW c \in Channels, secure_channel_lost(c), NEW s \in Sessions
    PROVE  /\ sess'[s] \in Session
           /\ sess[s].ch # c => sess'[s] = sess[s]
           /\ sess[s].ch = c => sess'[s].ch = 0
           /\ sess[s].ch = c /\ sess[s].st = "activated" => sess'[s].st = "orphaned"
           /\ sess[s].ch = c /\ sess[s].st # "activated" => sess'[s].st = "closed"
<1>1. sess'[s] = IF s \notin On(c) THEN sess[s]
                 ELSE IF s \in {r \in On(c) : sess[r].st # "activated"} THEN ClosedSession
                 ELSE [sess[s] EXCEPT !.st = "orphaned", !.ch = 0]
  BY Zenon DEF secure_channel_lost
<1>2. s \in On(c) <=> sess[s].ch = c
  BY DEF On
<1>3. sess[s] \in Session
  BY SessionFacts
<1>4. CASE s \notin On(c)
  BY <1>1, <1>2, <1>3, <1>4
<1>5. CASE s \in On(c) /\ sess[s].st # "activated"
  <2>1. sess'[s] = ClosedSession
    BY <1>1, <1>5
  <2> QED
    BY <1>2, <1>5, <2>1, ClosedIsSession DEF ClosedSession
<1>6. CASE s \in On(c) /\ sess[s].st = "activated"
  <2>1. sess'[s] = [sess[s] EXCEPT !.st = "orphaned", !.ch = 0]
    BY <1>1, <1>6
  <2> QED
    BY <1>2, <1>3, <1>6, <2>1 DEF Session
<1> QED
  BY <1>4, <1>5, <1>6

\* A channel that is lost keeps the tables.
LEMMA TablesLost ==
    ASSUME Tables, NEW c \in Channels, secure_channel_lost(c)
    PROVE  Tables'
<1>1. cm \in ChannelMgrType
  BY DEF Tables, TablesTyped
<1>2. /\ cm' \in ChannelMgrType
      /\ \A d \in Channels : d # c /\ is_connected_channel(cm, d) => is_connected_channel(cm, d)'
  <2>1. cm' = channel_lost(Manager, c).cm
    BY Zenon DEF secure_channel_lost
  <2> QED
    BY <1>1, <2>1, ChannelLost DEF is_connected_channel
<1>3. asked' \in SUBSET Channels
  BY DEF Tables, TablesTyped, secure_channel_lost
<1>4. sess' \in [Sessions -> Session]
  <2>1. \A s \in Sessions : sess'[s] \in Session
    BY SessionLost
  <2>2. sess' = [s \in Sessions |-> sess'[s]]
    BY DEF secure_channel_lost
  <2> QED
    BY <2>1, <2>2
<1>5. /\ reverse' \in [Channels -> Sessions \cup {0}]
      /\ reverse'[c] = 0
      /\ \A d \in Channels : d # c => reverse'[d] = reverse[d]
  <2>1. reverse \in [Channels -> Sessions \cup {0}]
    BY DEF Tables, TablesTyped
  <2>2. CASE On(c) = {}
    <3>1. reverse' = reverse
      BY <2>2 DEF secure_channel_lost
    <3>2. reverse[c] # 0 => reverse[c] \in Sessions /\ sess[reverse[c]].ch = c
      BY <2>1 DEF Tables, ReverseNamesUser
    <3>3. reverse[c] = 0
      BY <2>2, <3>2 DEF On
    <3> QED
      BY <2>1, <3>1, <3>3
  <2>3. CASE On(c) # {}
    <3>1. reverse' = [reverse EXCEPT ![c] = 0]
      BY <2>3 DEF secure_channel_lost
    <3> QED
      BY <2>1, <3>1
  <2> QED
    BY <2>2, <2>3
<1>6. \A r \in Sessions : OnConnected(r)'
  <2> SUFFICES ASSUME NEW r \in Sessions PROVE OnConnected(r)'
    OBVIOUS
  <2>1. /\ sess[r].st \in {"created", "activated"} => sess[r].ch \in Channels
        /\ OnConnected(r)
    BY SessionFacts DEF Tables
  <2>2. CASE sess[r].ch = c
    <3>1. sess'[r].ch = 0 /\ sess'[r].st \in {"orphaned", "closed"}
      BY <2>2, SessionLost
    <3> QED
      BY <3>1 DEF OnConnected
  <2>3. CASE sess[r].ch # c
    <3>1. sess'[r] = sess[r]
      BY <2>3, SessionLost
    <3> QED
      BY <1>2, <2>1, <2>3, <3>1 DEF OnConnected
  <2> QED
    BY <2>2, <2>3
<1>7. ReverseNamesUser'
  <2> SUFFICES ASSUME NEW d \in Channels, reverse'[d] # 0
               PROVE  sess'[reverse'[d]].st # "closed" /\ sess'[reverse'[d]].ch = d
    BY DEF ReverseNamesUser, Valid
  <2>1. d # c /\ reverse'[d] = reverse[d] /\ reverse[d] \in Sessions
    BY <1>5
  <2>2. sess[reverse[d]].st # "closed" /\ sess[reverse[d]].ch = d
    BY <2>1 DEF Tables, ReverseNamesUser, Valid
  <2>3. sess'[reverse[d]] = sess[reverse[d]]
    BY <2>1, <2>2, SessionLost
  <2> QED
    BY <2>1, <2>2, <2>3
<1> QED
  BY <1>2, <1>3, <1>4, <1>5, <1>6, <1>7 DEF Tables, TablesTyped

\* The slot a new session is made in is a closed one.
LEMMA NewSession ==
    ASSUME \E s \in Sessions : ~Valid(s)
    PROVE  init_new_session \in Sessions /\ ~Valid(init_new_session)
<1> DEFINE free == {s \in Sessions : ~Valid(s)}
           gap == {MaxSessions - s : s \in free}
<1>1. \A s \in free : s \in Nat /\ MaxSessions - s \in Nat
  BY ServerSessionsAssumption DEF Sessions
<1>2. gap \in SUBSET Nat /\ gap # {}
  BY <1>1
<1>3. PICK p \in gap : \A r \in gap : p <= r
  BY <1>2, LeastPosition
<1>4. PICK s \in free : p = MaxSessions - s
  BY <1>3
<1>5. \A r \in free : r <= s
  <2> SUFFICES ASSUME NEW r \in free PROVE r <= s
    OBVIOUS
  <2>1. MaxSessions - s <= MaxSessions - r
    BY <1>3, <1>4
  <2> QED
    BY <1>1, <2>1, ServerSessionsAssumption
<1>6. \E q \in Sessions : ~Valid(q) /\ \A r \in Sessions : ~Valid(r) => r <= q
  BY <1>4, <1>5
<1> QED
  BY <1>6, Zenon DEF init_new_session

\* What a request to make a session does to the tables.
LEMMA TablesCreate ==
    ASSUME Tables, NEW c \in Channels, NEW outcome \in Outcomes, CreateSession(c, outcome)
    PROVE  Tables'
<1> DEFINE s == init_new_session
<1>1. s \in Sessions /\ is_connected_channel(cm, c)
  BY NewSession DEF CreateSession
<1>2. UNCHANGED <<cm, asked>>
  BY DEF CreateSession
<1>3. CASE outcome = "refused"
  <2>1. sess' = sess /\ reverse' = [reverse EXCEPT ![c] = 0]
    BY <1>3 DEF CreateSession
  <2>2. /\ reverse' \in [Channels -> Sessions \cup {0}]
        /\ \A d \in Channels : reverse'[d] # 0 => reverse'[d] = reverse[d]
    BY <2>1 DEF Tables, TablesTyped
  <2>3. ReverseNamesUser'
    BY <2>1, <2>2 DEF Tables, ReverseNamesUser, Valid
  <2> QED
    BY <1>2, <2>1, <2>2, <2>3 DEF Tables, TablesTyped, OnConnected
<1>4. CASE outcome # "refused"
  <2> DEFINE new == [st |-> "created", ch |-> c, user |-> NoUser, told |-> outcome = "ok"]
  <2>1. sess' = [sess EXCEPT ![s] = new] /\ reverse' = set_session_channel(s, c)
    BY <1>4 DEF CreateSession
  <2>2. new \in Session /\ new.st = "created" /\ new.ch = c
    BY DEF Session
  <2> HIDE DEF s, new
  <2> QED
    BY <1>1, <1>2, <2>1, <2>2, TablesTaken
<1> QED
  BY <1>3, <1>4

ActivatedSession(s, c, u) == [sess[s] EXCEPT !.st = "activated", !.ch = c, !.user = u]

\* What an activation does to the session.
LEMMA SessionActivated ==
    ASSUME Tables, NEW s \in Sessions, NEW c \in Channels, NEW u \in Users, ActivateSession(s, c, u)
    PROVE  /\ ActivatedSession(s, c, u) \in Session
           /\ ActivatedSession(s, c, u).st = "activated" /\ ActivatedSession(s, c, u).ch = c
           /\ sess' = [sess EXCEPT ![s] = ActivatedSession(s, c, u)]
<1>1. sess[s] \in Session
  BY SessionFacts
<1>2. sess' = [sess EXCEPT ![s] = ActivatedSession(s, c, u)]
  BY Zenon DEF ActivateSession, ActivatedSession
<1>3. /\ ActivatedSession(s, c, u) \in Session
      /\ ActivatedSession(s, c, u).st = "activated" /\ ActivatedSession(s, c, u).ch = c
  BY <1>1 DEF Session, ActivatedSession
<1> QED
  BY <1>2, <1>3

\* Every step keeps the tables.
LEMMA TablesStep == Inv /\ [Next]_vars => Tables'
<1> SUFFICES ASSUME Inv, [Next]_vars PROVE Tables'
  OBVIOUS
<1>0. Tables /\ QueueInv
  BY DEF Inv
<1>1. ASSUME NEW c \in Channels, server_channel_connected_event(c) PROVE Tables'
  BY <1>0, <1>1, TablesConnected
<1>2. ASSUME NEW c \in Channels, secure_channel_lost(c) PROVE Tables'
  BY <1>0, <1>2, TablesLost
<1>3. ASSUME NEW c \in Channels, NEW outcome \in Outcomes, CreateSession(c, outcome) PROVE Tables'
  BY <1>0, <1>3, TablesCreate
<1>4. ASSUME NEW s \in Sessions, NEW c \in Channels, NEW u \in Users, ActivateSession(s, c, u)
      PROVE  Tables'
  <2> DEFINE new == ActivatedSession(s, c, u)
  <2>1. new \in Session /\ new.st = "activated" /\ new.ch = c /\ sess' = [sess EXCEPT ![s] = new]
    BY <1>0, <1>4, SessionActivated
  <2>2. reverse' = set_session_channel(s, c) /\ is_connected_channel(cm, c) /\ UNCHANGED <<cm, asked>>
    BY <1>4 DEF ActivateSession
  <2> HIDE DEF new
  <2> QED
    BY <1>0, <2>1, <2>2, TablesTaken
<1>5. ASSUME UNCHANGED <<cm, asked, sess, reverse>> PROVE Tables'
  BY <1>0, <1>5 DEF Tables, TablesTyped, OnConnected, ReverseNamesUser, Valid, is_connected_channel
<1>6. ASSUME NEW s \in Sessions, set_session_state_closed(s), UNCHANGED <<cm, asked>> PROVE Tables'
  BY <1>0, <1>6, TablesClose DEF set_session_state_closed
<1>7. ASSUME internal_server_evaluate_session_timeout PROVE Tables'
  <2>1. Head(evq).s \in Sessions /\ UNCHANGED <<cm, asked>>
    <3>1. Head(evq) \in Events
      BY <1>0, <1>7, NoticesTail DEF internal_server_evaluate_session_timeout, TimeoutNext, QueueInv
    <3> QED
      BY <1>7, <3>1, EventFacts DEF internal_server_evaluate_session_timeout
  <2>2. CASE UNCHANGED <<sess, reverse>>
    BY <1>5, <2>1, <2>2
  <2>3. CASE /\ sess' = [sess EXCEPT ![Head(evq).s] = ClosedSession]
             /\ reverse' = reset_session_channel(Head(evq).s)
    BY <1>0, <2>1, <2>3, TablesClose
  <2> QED
    BY <1>7, <2>2, <2>3 DEF internal_server_evaluate_session_timeout
<1> QED
  <2>1. CASE UNCHANGED vars
    BY <1>5, <2>1 DEF vars
  <2>2. CASE Tick \/ HandleNotice
    BY <1>5, <2>2 DEF Tick, HandleNotice
  <2>3. ASSUME NEW s \in Sessions, ServiceRequest(s) \/ TimerFires(s) PROVE Tables'
    BY <1>5, <2>3 DEF ServiceRequest, TimerFires
  <2>4. ASSUME NEW s \in Sessions, ServiceRequestTooEarly(s) \/ CloseSession(s) PROVE Tables'
    BY <1>6, <2>4 DEF ServiceRequestTooEarly, CloseSession
  <2> QED
    BY <1>1, <1>2, <1>3, <1>4, <1>7, <2>1, <2>2, <2>3, <2>4 DEF Next

\* Forgetting a timer counts one more that is left.
LEMMA ForgetTyped ==
    ASSUME ClocksTyped, NEW s \in Sessions, Forget(s)
    PROVE  forgotten' \in [Sessions -> [0..Timeout -> Nat]]
<1>1. CASE expiration[s] = Off
  BY <1>1 DEF Forget, ClocksTyped
<1>2. CASE expiration[s] # Off
  <2> DEFINE l == expiration[s]
  <2>1. l \in 0..Timeout
    BY <1>2 DEF ClocksTyped
  <2>2. forgotten' = [forgotten EXCEPT ![s][l] = @ + 1]
    BY <1>2 DEF Forget
  <2> HIDE DEF l
  <2>3. forgotten' = [forgotten EXCEPT ![s] = [forgotten[s] EXCEPT ![l] = forgotten[s][l] + 1]]
    BY <2>2
  <2> DEFINE f == forgotten[s]
  <2>4. f \in [0..Timeout -> Nat]
    BY DEF ClocksTyped
  <2>5. [f EXCEPT ![l] = f[l] + 1] \in [0..Timeout -> Nat]
    <3> HIDE DEF f
    <3>1. f[l] \in Nat
      BY <2>1, <2>4
    <3>2. f[l] + 1 \in Nat
      BY <3>1
    <3> QED
      BY <2>1, <2>4, <3>2
  <2> QED
    BY <2>3, <2>5 DEF ClocksTyped
<1> QED
  BY <1>1, <1>2

\* Every step keeps the types of the clocks.
LEMMA ClocksStep == Inv /\ [Next]_vars => ClocksTyped'
<1> SUFFICES ASSUME Inv, [Next]_vars PROVE ClocksTyped'
  OBVIOUS
<1>0. ClocksTyped /\ QueueInv
  BY DEF Inv
<1>1. Timeout \in Nat \ {0} /\ 0 \in 0..Timeout /\ Timeout \in 0..Timeout
  BY ServerSessionsAssumption
<1>2. ASSUME UNCHANGED <<silent, expiration, forgotten>> PROVE ClocksTyped'
  BY <1>0, <1>2 DEF ClocksTyped
<1>3. ASSUME NEW c \in Channels, secure_channel_lost(c) PROVE ClocksTyped'
  <2> DEFINE closed == {s \in On(c) : sess[s].st # "activated"}
  <2>1. /\ expiration' = [s \in Sessions |-> IF s \in closed THEN Off ELSE expiration[s]]
        /\ silent' = [s \in Sessions |-> IF s \in closed THEN Timeout ELSE silent[s]]
        /\ forgotten' = forgotten
    BY <1>3, Zenon DEF secure_channel_lost
  <2> HIDE DEF closed
  <2> QED
    BY <1>0, <1>1, <2>1 DEF ClocksTyped
<1>4. ASSUME NEW c \in Channels, NEW outcome \in Outcomes, CreateSession(c, outcome) PROVE ClocksTyped'
  <2>1. init_new_session \in Sessions
    BY <1>4, NewSession DEF CreateSession
  <2>2. /\ \/ expiration' = expiration
           \/ expiration' = [expiration EXCEPT ![init_new_session] =
                                IF outcome = "ok" THEN Timeout ELSE Off]
        /\ UNCHANGED <<silent, forgotten>>
    BY <1>4, Zenon DEF CreateSession
  <2> QED
    BY <1>0, <1>1, <2>1, <2>2 DEF ClocksTyped
<1>5. ASSUME NEW s \in Sessions, silent' = [silent EXCEPT ![s] = 0], UNCHANGED <<expiration, forgotten>>
      PROVE  ClocksTyped'
  BY <1>0, <1>1, <1>5 DEF ClocksTyped
<1>6. ASSUME NEW s \in Sessions, set_session_state_closed(s) PROVE ClocksTyped'
  BY <1>0, <1>1, <1>6 DEF set_session_state_closed, ClocksTyped
<1>7. ASSUME NEW s \in Sessions, TimerFires(s) PROVE ClocksTyped'
  <2>1. CASE expiration' = [expiration EXCEPT ![s] = Off] /\ UNCHANGED forgotten
    BY <1>0, <1>7, <2>1 DEF TimerFires, ClocksTyped
  <2>2. CASE forgotten[s][0] > 0 /\ forgotten' = [forgotten EXCEPT ![s][0] = @ - 1] /\ UNCHANGED expiration
    <3>1. forgotten[s] \in [0..Timeout -> Nat] /\ forgotten[s][0] \in Nat /\ forgotten[s][0] - 1 \in Nat
      BY <1>0, <1>1, <2>2 DEF ClocksTyped
    <3>2. [forgotten[s] EXCEPT ![0] = forgotten[s][0] - 1] \in [0..Timeout -> Nat]
      BY <3>1
    <3>3. forgotten' = [forgotten EXCEPT ![s] = [forgotten[s] EXCEPT ![0] = forgotten[s][0] - 1]]
      BY <2>2
    <3> QED
      BY <1>0, <1>7, <2>2, <3>2, <3>3 DEF TimerFires, ClocksTyped
  <2> QED
    BY <1>7, <2>1, <2>2 DEF TimerFires
<1>8. ASSUME Tick PROVE ClocksTyped'
  <2>1. silent' \in [Sessions -> 0..Timeout]
    BY <1>0, <1>1, <1>8 DEF Tick, ClocksTyped
  <2>2. expiration' \in [Sessions -> 0..Timeout \cup {Off}]
    <3> SUFFICES ASSUME NEW s \in Sessions, expiration[s] # Off
                 PROVE  expiration[s] - 1 \in 0..Timeout
      BY <1>8 DEF Tick
    <3>1. expiration[s] \in 0..Timeout /\ expiration[s] # 0
      BY <1>0, <1>8 DEF ClocksTyped, Tick, Due
    <3> QED
      BY <1>1, <3>1
  <2>3. forgotten' \in [Sessions -> [0..Timeout -> Nat]]
    <3>1. \A s \in Sessions, l \in 0..Timeout :
             (IF l < Timeout THEN forgotten[s][l + 1] ELSE 0) \in Nat
      BY <1>0, <1>1 DEF ClocksTyped
    <3> QED
      BY <1>8, <3>1 DEF Tick
  <2> QED
    BY <2>1, <2>2, <2>3 DEF ClocksTyped
<1>9. ASSUME internal_server_evaluate_session_timeout PROVE ClocksTyped'
  <2> DEFINE s == Head(evq).s
  <2>1. s \in Sessions
    <3>1. Head(evq) \in Events
      BY <1>0, <1>9, NoticesTail DEF internal_server_evaluate_session_timeout, TimeoutNext, QueueInv
    <3> QED
      BY <3>1, EventFacts
  <2>2. CASE UNCHANGED <<silent, expiration, forgotten>>
    BY <1>2, <2>2
  <2>3. CASE Valid(s) /\ ~SilentTooLong(s) /\ expiration' = [expiration EXCEPT ![s] = Renewed(s)]
             /\ Forget(s) /\ UNCHANGED silent
    <3>1. Renewed(s) \in 0..Timeout
      BY <1>0, <1>1, <2>1 DEF Renewed, ClocksTyped
    <3>2. forgotten' \in [Sessions -> [0..Timeout -> Nat]]
      BY <1>0, <2>1, <2>3, ForgetTyped
    <3> HIDE DEF s
    <3> QED
      BY <1>0, <2>1, <2>3, <3>1, <3>2 DEF ClocksTyped
  <2>4. CASE /\ expiration' = [expiration EXCEPT ![s] = Off]
             /\ Forget(s)
             /\ silent' = [silent EXCEPT ![s] = Timeout]
    <3>2. forgotten' \in [Sessions -> [0..Timeout -> Nat]]
      BY <1>0, <2>1, <2>4, ForgetTyped
    <3> HIDE DEF s
    <3> QED
      BY <1>0, <1>1, <2>1, <2>4, <3>2 DEF ClocksTyped
  <2> QED
    BY <1>9, <2>2, <2>3, <2>4 DEF internal_server_evaluate_session_timeout
<1> QED
  <2>1. CASE UNCHANGED vars \/ HandleNotice
    BY <1>2, <2>1 DEF vars, HandleNotice
  <2>2. ASSUME NEW c \in Channels, server_channel_connected_event(c) PROVE ClocksTyped'
    BY <1>2, <2>2 DEF server_channel_connected_event
  <2>3. ASSUME NEW s \in Sessions, ServiceRequest(s) PROVE ClocksTyped'
    BY <1>5, <2>3 DEF ServiceRequest
  <2>4. ASSUME NEW s \in Sessions, NEW c \in Channels, NEW u \in Users, ActivateSession(s, c, u)
        PROVE  ClocksTyped'
    BY <1>5, <2>4 DEF ActivateSession
  <2>5. ASSUME NEW s \in Sessions, ServiceRequestTooEarly(s) \/ CloseSession(s) PROVE ClocksTyped'
    BY <1>6, <2>5 DEF ServiceRequestTooEarly, CloseSession
  <2> QED
    BY <1>3, <1>4, <1>7, <1>8, <1>9, <2>1, <2>2, <2>3, <2>4, <2>5 DEF Next
-----------------------------------------------------------------------------
(* What each kind of step does to the notices.                             *)

\* Notices posted by a handler of a request or of a channel event.
LEMMA HandlerPosts ==
    ASSUME QueueInv, Ready, NEW out \in Seq(Events), AllNotices(out), evq' = PostAsNext(out, evq)
    PROVE  QueueInv' /\ Notices = <<>> /\ Notices' = out
<1>1. NoNotice(evq) /\ evq \in Seq(Events)
  BY NoticesReady DEF QueueInv
<1>2. /\ evq' \in Seq(Events) /\ NoticesFirst(evq') /\ NoticesIn(evq') = out
  BY <1>1, NoticesPosted DEF PostAsNext
<1> QED
  BY <1>1, <1>2, NoticesNone DEF QueueInv, Notices

\* Nothing is posted.
LEMMA HandlerPostsNothing ==
    ASSUME QueueInv, UNCHANGED evq
    PROVE  QueueInv' /\ Notices' = Notices /\ (Ready => Notices = <<>>)
<1>1. QueueInv' /\ Notices' = Notices
  BY DEF QueueInv, Notices, NoticesFirst, NoticesIn, NoticeCount
<1>2. Ready => Notices = <<>>
  BY NoticesReady, NoticesNone DEF QueueInv, Notices
<1> QED
  BY <1>1, <1>2

\* Notices posted by the evaluation of a timeout.
LEMMA TimeoutPosts ==
    ASSUME QueueInv, TimeoutNext, NEW out \in Seq(Events), AllNotices(out),
           evq' = PostAsNext(out, Tail(evq))
    PROVE  QueueInv' /\ Notices = <<>> /\ Notices' = out
<1>1. evq # <<>> /\ ~IsNotice(Head(evq)) /\ evq \in Seq(Events) /\ NoticesFirst(evq)
  BY DEF TimeoutNext, IsNotice, QueueInv
<1>2. Tail(evq) \in Seq(Events) /\ NoNotice(Tail(evq))
  BY <1>1, NoticesTail
<1>3. evq' \in Seq(Events) /\ NoticesFirst(evq') /\ NoticesIn(evq') = out
  BY <1>2, NoticesPosted DEF PostAsNext
<1>4. Ready
  BY <1>1 DEF Ready
<1>5. NoNotice(evq)
  BY <1>1, <1>4, NoticesReady
<1> QED
  BY <1>1, <1>3, <1>5, NoticesNone DEF QueueInv, Notices

\* The event of a timer is appended.
LEMMA TimerPosts ==
    ASSUME QueueInv, NEW s \in Sessions, evq' = Append(evq, TimeoutEvent(s))
    PROVE  QueueInv' /\ Notices' = Notices
<1>1. TimeoutEvent(s) \in Events /\ ~IsNotice(TimeoutEvent(s))
  BY EventFacts
<1>2. evq' \in Seq(Events) /\ NoticesFirst(evq') /\ NoticesIn(evq') = NoticesIn(evq)
  BY <1>1, NoticesAppended DEF QueueInv
<1> QED
  BY <1>2 DEF QueueInv, Notices

\* One notice.
LEMMA OneNotice ==
    ASSUME NEW s \in Sessions, NEW st \in NoticeStates
    PROVE  <<Notice(s, st)>> \in Seq(Events) /\ AllNotices(<<Notice(s, st)>>)
<1>1. Notice(s, st) \in Events /\ IsNotice(Notice(s, st))
  BY EventFacts
<1> HIDE DEF Notice
<1> QED
  BY <1>1 DEF AllNotices

\* No notice.
LEMMA NoNotices == <<>> \in Seq(Events) /\ AllNotices(<<>>)
BY DEF AllNotices

\* What the change of the state of a session posts.
LEMMA NoticesOfFacts ==
    ASSUME NEW s \in Sessions, NEW before, NEW after \in NoticeStates
    PROVE  /\ NoticesOf(s, before, after) \in Seq(Events)
           /\ AllNotices(NoticesOf(s, before, after))
BY OneNotice, NoNotices DEF NoticesOf

\* What secure_channel_lost posts.
LostNotices(c) ==
    [i \in DOMAIN InOrder(On(c)) |->
       Notice(InOrder(On(c))[i], IF InOrder(On(c))[i] \in {s \in On(c) : sess[s].st # "activated"}
                                 THEN "closed" ELSE "scOrphaned")]

\* The notices of the sessions of a lost channel are notices.
LEMMA LostNoticesFacts ==
    ASSUME NEW c \in Channels
    PROVE  LostNotices(c) \in Seq(Events) /\ AllNotices(LostNotices(c))
<1> DEFINE order == InOrder(On(c))
           n == Cardinality(On(c))
           at(i) == IF order[i] \in {s \in On(c) : sess[s].st # "activated"}
                    THEN "closed" ELSE "scOrphaned"
<1>1. On(c) \in SUBSET Sessions
  BY DEF On
<1>2. n \in Nat /\ order \in [1..n -> On(c)]
  BY <1>1, InOrderFacts
<1>3. LostNotices(c) = [i \in 1..n |-> Notice(order[i], at(i))]
  BY <1>2 DEF LostNotices
<1>4. \A i \in 1..n : order[i] \in Sessions /\ at(i) \in NoticeStates
  BY <1>1, <1>2 DEF NoticeStates
<1> HIDE DEF order, n, at
<1>5. \A i \in 1..n : Notice(order[i], at(i)) \in Events /\ IsNotice(Notice(order[i], at(i)))
  BY <1>4, EventFacts
<1> DEFINE note(i) == Notice(order[i], at(i))
<1> HIDE DEF note
<1>6. [i \in 1..n |-> note(i)] \in Seq(Events) /\ AllNotices([i \in 1..n |-> note(i)])
  <2>1. \A i \in 1..n : note(i) \in Events /\ IsNotice(note(i))
    BY <1>5 DEF note
  <2>2. [i \in 1..n |-> note(i)] \in [1..n -> Events]
    BY <2>1
  <2> QED
    BY <1>2, <2>1, <2>2 DEF AllNotices
<1> QED
  BY <1>3, <1>6 DEF note

\* The states with which a notice is posted.
LEMMA StatesPosted ==
    /\ "closed" \in NoticeStates
    /\ \A s, c, u : Transitory(s, c, u) # "invalid" => Transitory(s, c, u) \in NoticeStates
BY DEF NoticeStates, Transitory

\* Every step keeps the notices in front.
LEMMA QueueStep == Inv /\ [Next]_vars => QueueInv'
<1> SUFFICES ASSUME Inv, [Next]_vars PROVE QueueInv'
  OBVIOUS
<1>0. QueueInv
  BY DEF Inv
<1>1. ASSUME UNCHANGED evq PROVE QueueInv'
  BY <1>0, <1>1, HandlerPostsNothing
<1>2. ASSUME NEW c \in Channels, secure_channel_lost(c) PROVE QueueInv'
  <2>1. Ready /\ evq' = PostAsNext(LostNotices(c), evq)
    BY <1>2, Zenon DEF secure_channel_lost, LostNotices
  <2> QED
    BY <1>0, <2>1, LostNoticesFacts, HandlerPosts
<1>3. ASSUME NEW c \in Channels, NEW outcome \in Outcomes, CreateSession(c, outcome) PROVE QueueInv'
  <2>1. init_new_session \in Sessions /\ Ready
    BY <1>3, NewSession DEF CreateSession
  <2>2. evq' = evq \/ evq' = PostAsNext(<<Notice(init_new_session, "closed")>>, evq)
    BY <1>3, Zenon DEF CreateSession
  <2>3. CASE evq' = PostAsNext(<<Notice(init_new_session, "closed")>>, evq)
    <3> DEFINE out == <<Notice(init_new_session, "closed")>>
    <3>1. out \in Seq(Events) /\ AllNotices(out)
      BY <2>1, StatesPosted, OneNotice
    <3> HIDE DEF out
    <3>2. evq' = PostAsNext(out, evq)
      BY <2>3 DEF out
    <3> QED
      BY <1>0, <2>1, <3>1, <3>2, HandlerPosts
  <2> QED
    BY <1>1, <2>2, <2>3
<1>4. ASSUME NEW s \in Sessions, NEW c \in Channels, NEW u \in Users, ActivateSession(s, c, u)
      PROVE  QueueInv'
  <2>1. /\ Ready /\ Transitory(s, c, u) # "invalid"
        /\ evq' = PostAsNext(NoticesOf(s, sess[s].st, Transitory(s, c, u)), evq)
    BY <1>4, Zenon DEF ActivateSession
  <2>2. Transitory(s, c, u) \in NoticeStates
    BY <2>1, StatesPosted
  <2> QED
    BY <1>0, <2>1, <2>2, NoticesOfFacts, HandlerPosts
<1>5. ASSUME NEW s \in Sessions, Ready, set_session_state_closed(s) PROVE QueueInv'
  <2>1. evq' = PostAsNext(NoticesOf(s, sess[s].st, "closed"), evq)
    BY <1>5 DEF set_session_state_closed
  <2> QED
    BY <1>0, <1>5, <2>1, StatesPosted, NoticesOfFacts, HandlerPosts
<1>6. ASSUME NEW s \in Sessions, TimerFires(s) PROVE QueueInv'
  BY <1>0, <1>6, TimerPosts DEF TimerFires
<1>7. ASSUME internal_server_evaluate_session_timeout PROVE QueueInv'
  <2>1. TimeoutNext /\ evq # <<>>
    BY <1>7 DEF internal_server_evaluate_session_timeout, TimeoutNext
  <2>2. CASE evq' = Tail(evq)
    BY <1>0, <2>1, <2>2, NoticesTail DEF QueueInv
  <2>3. CASE evq' = PostAsNext(NoticesOf(Head(evq).s, sess[Head(evq).s].st, "closed"), Tail(evq))
    <3>1. Head(evq).s \in Sessions
      BY <1>0, <2>1, NoticesTail, EventFacts DEF QueueInv
    <3> QED
      BY <1>0, <2>1, <2>3, <3>1, StatesPosted, NoticesOfFacts, TimeoutPosts
  <2> QED
    BY <1>7, <2>2, <2>3, Zenon DEF internal_server_evaluate_session_timeout
<1>8. ASSUME HandleNotice PROVE QueueInv'
  BY <1>0, <1>8, NoticesTail DEF HandleNotice, QueueInv
<1> QED
  <2>1. CASE UNCHANGED vars \/ Tick
    BY <1>1, <2>1 DEF vars, Tick
  <2>2. ASSUME NEW c \in Channels, server_channel_connected_event(c) PROVE QueueInv'
    BY <1>1, <2>2 DEF server_channel_connected_event
  <2>3. ASSUME NEW s \in Sessions, ServiceRequest(s) PROVE QueueInv'
    BY <1>1, <2>3 DEF ServiceRequest
  <2>4. ASSUME NEW s \in Sessions, ServiceRequestTooEarly(s) \/ CloseSession(s) PROVE QueueInv'
    BY <1>5, <2>4 DEF ServiceRequestTooEarly, CloseSession
  <2> QED
    BY <1>2, <1>3, <1>4, <1>6, <1>7, <1>8, <2>1, <2>2, <2>3, <2>4 DEF Next

\* The invariant holds initially.
LEMMA InvInit == Init => Inv
<1> SUFFICES ASSUME Init PROVE Inv
  OBVIOUS
<1>1. cm \in ChannelMgrType
  BY DEF Init, ChannelMgrInit, ChannelMgrType
<1>2. TablesTyped
  BY <1>1, ClosedIsSession DEF Init, TablesTyped
<1>3. \A s \in Sessions : OnConnected(s)
  BY DEF Init, OnConnected, ClosedSession
<1>4. ReverseNamesUser
  BY DEF Init, ReverseNamesUser
<1>5. ClocksTyped
  BY ServerSessionsAssumption DEF Init, ClocksTyped
<1>6. QueueInv
  BY DEF Init, QueueInv, NoticesFirst
<1> QED
  BY <1>2, <1>3, <1>4, <1>5, <1>6 DEF Inv, Tables

\* Every step keeps the invariant.
LEMMA InvStep == Inv /\ [Next]_vars => Inv'
BY TablesStep, ClocksStep, QueueStep DEF Inv

\* Along every behaviour the tables agree and the notices are in front.
THEOREM InvCorrect == Spec => []Inv
BY InvInit, InvStep, PTL DEF Spec

\* Whatever the number of sessions, channels and users: every variable has its
\* type, and a session is on a connected channel or orphaned and on none, so that
\* secure_channel_lost reaches every session of the channel.
THEOREM OnConnectedChannel == Spec => []SessionOnConnectedChannel
BY InvCorrect, InvImplies, PTL

\* Whatever the number of sessions, channels and users: the session recorded for
\* a channel in a_reverse_channel uses that channel.
THEOREM ReverseCorrect == Spec => []ReverseNamesUser
BY InvCorrect, InvImplies, PTL

\* Whatever the constants: the evaluation of a timeout closes no session that was
\* heard of within it.
THEOREM HeardKept == Spec => HeardNotExpired
<1> DEFINE Heard == internal_server_evaluate_session_timeout
                       => \A s \in Sessions : sess[s].st \in {"activated", "orphaned"}
                                              /\ silent[s] < Timeout => sess'[s].st # "closed"
<1>1. Inv /\ [Next]_vars => [Heard]_vars
  <2> SUFFICES ASSUME Inv, internal_server_evaluate_session_timeout, NEW s \in Sessions,
                      sess[s].st \in {"activated", "orphaned"}, silent[s] < Timeout
               PROVE  sess'[s].st # "closed"
    OBVIOUS
  <2>1. sess \in [Sessions -> Session] /\ silent[s] \in 0..Timeout /\ Timeout \in Nat
    BY ServerSessionsAssumption DEF Inv, Tables, TablesTyped, ClocksTyped
  <2>2. CASE sess' = sess
    BY <2>2
  <2>3. CASE SilentTooLong(Head(evq).s) /\ sess' = [sess EXCEPT ![Head(evq).s] = ClosedSession]
    <3>1. Head(evq).s # s
      BY <2>1, <2>3 DEF SilentTooLong
    <3>2. sess'[s] = sess[s]
      BY <2>1, <2>3, <3>1
    <3> QED
      BY <3>2
  <2> QED
    BY <2>2, <2>3 DEF internal_server_evaluate_session_timeout
<1> QED
  BY <1>1, InvCorrect, PTL DEF Spec, HeardNotExpired
-----------------------------------------------------------------------------
(* The refinement of SessionLife.                                          *)

\* One session as its users see it.
Seen(x) ==
    IF x.st \in {"activated", "orphaned"} THEN [st |-> x.st, ch |-> x.ch]
    ELSE [st |-> "closed", ch |-> 0]

\* The mapped sessions, one by one.
LEMMA LifeSeen ==
    /\ Life = [s \in Sessions |-> Seen(sess[s])]
    /\ Life' = [s \in Sessions |-> Seen(sess'[s])]
BY DEF Life, Seen

\* A step that changes one session changes it for its users.
LEMMA LifeExcept ==
    ASSUME Tables, NEW s \in Sessions, NEW new, sess' = [sess EXCEPT ![s] = new]
    PROVE  Life' = [Life EXCEPT ![s] = Seen(new)]
<1>1. sess'[s] = new /\ \A r \in Sessions : r # s => sess'[r] = sess[r]
  BY DEF Tables, TablesTyped
<1> QED
  BY <1>1, LifeSeen

\* A step that changes nothing its users see.
LEMMA LifeSame ==
    ASSUME sess' = sess, Notices' = Notices
    PROVE  UNCHANGED SL!lifeVars
<1>1. Life' = Life
  BY LifeSeen
<1> QED
  BY <1>1 DEF SL!lifeVars

\* A notice is the same for both.
LEMMA SameNotice == \A s, st : SL!Notice(s, st) = Notice(s, st)
BY DEF SL!Notice, Notice

\* So is the number of members of a set.
LEMMA SameCardinality == \A S : SL!Cardinality(S) = Cardinality(S)
BY Zenon DEF Cardinality, SL!Cardinality

\* Closing a session is SessionLife's.
LEMMA CloseRefines ==
    ASSUME Tables, NEW s \in Sessions, Notices = <<>>, Notices' = <<Notice(s, "closed")>>,
           sess' = [sess EXCEPT ![s] = ClosedSession]
    PROVE  SL!LifeNext
<1>1. Life' = [Life EXCEPT ![s] = Seen(ClosedSession)]
  BY LifeExcept
<1>2. Seen(ClosedSession) = SL!Closed
  BY DEF Seen, ClosedSession, SL!Closed
<1>3. Notices' = <<SL!Notice(s, "closed")>>
  BY SameNotice
<1>4. SL!Close(s)
  BY <1>1, <1>2, <1>3, Zenon DEF SL!Close
<1> QED
  BY <1>4 DEF SL!LifeNext

\* Making a session is not seen; refusing one says once more that it is closed.
LEMMA CreateRefines ==
    ASSUME Inv, NEW c \in Channels, NEW outcome \in Outcomes, CreateSession(c, outcome)
    PROVE  SL!LifeNext \/ UNCHANGED SL!lifeVars
<1> DEFINE s == init_new_session
<1>0. Tables /\ QueueInv
  BY DEF Inv
<1>1. s \in Sessions /\ ~Valid(s) /\ Ready
  BY NewSession DEF CreateSession
<1>2. Life[s] = SL!Closed
  BY <1>1, LifeSeen DEF Seen, Valid, SL!Closed
<1>3. CASE outcome = "refused"
  <2> DEFINE out == <<Notice(s, "closed")>>
  <2>1. evq' = PostAsNext(out, evq) /\ sess' = sess
    BY <1>3, Zenon DEF CreateSession
  <2>2. out \in Seq(Events) /\ AllNotices(out)
    BY <1>1, StatesPosted, OneNotice
  <2> HIDE DEF s, out
  <2>3. Notices = <<>> /\ Notices' = out
    BY <1>0, <1>1, <2>1, <2>2, HandlerPosts
  <2>4. Life' = [Life EXCEPT ![s] = SL!Closed]
    BY <1>1, <1>2, <2>1, LifeSeen
  <2>5. Notices' = <<SL!Notice(s, "closed")>>
    BY <2>3, SameNotice DEF out
  <2>6. SL!Close(s)
    BY <2>3, <2>4, <2>5, Zenon DEF SL!Close
  <2> QED
    BY <1>1, <2>6 DEF SL!LifeNext
<1>4. CASE outcome # "refused"
  <2> DEFINE new == [st |-> "created", ch |-> c, user |-> NoUser, told |-> outcome = "ok"]
  <2>1. sess' = [sess EXCEPT ![s] = new] /\ evq' = evq
    BY <1>4, Zenon DEF CreateSession
  <2>2. Seen(new) = SL!Closed
    BY DEF Seen, SL!Closed
  <2> HIDE DEF s, new
  <2>3. Life' = [Life EXCEPT ![s] = SL!Closed]
    BY <1>0, <1>1, <2>1, <2>2, LifeExcept
  <2>4. Life' = Life
    BY <1>1, <1>2, <2>3, LifeSeen
  <2>5. Notices' = Notices
    BY <1>0, <2>1, HandlerPostsNothing
  <2> QED
    BY <2>4, <2>5 DEF SL!lifeVars
<1> QED
  BY <1>3, <1>4

\* The four kinds of activation.
LEMMA ActivateRefines ==
    ASSUME Inv, NEW s \in Sessions, NEW c \in Channels, NEW u \in Users, ActivateSession(s, c, u)
    PROVE  SL!LifeNext
<1> DEFINE t == Transitory(s, c, u)
           out == NoticesOf(s, sess[s].st, t)
<1>0. Tables /\ QueueInv
  BY DEF Inv
<1>1. Ready /\ t # "invalid" /\ evq' = PostAsNext(out, evq)
  BY Zenon DEF ActivateSession
<1>2. t \in NoticeStates
  BY <1>1, StatesPosted
<1>3. Notices = <<>> /\ Notices' = out
  <2>1. out \in Seq(Events) /\ AllNotices(out)
    BY <1>2, NoticesOfFacts
  <2> HIDE DEF out
  <2> QED
    BY <1>0, <1>1, <2>1, HandlerPosts
<1>4. Life' = [Life EXCEPT ![s] = SL!ActivatedOn(c)]
  <2>1. /\ ActivatedSession(s, c, u).st = "activated" /\ ActivatedSession(s, c, u).ch = c
        /\ sess' = [sess EXCEPT ![s] = ActivatedSession(s, c, u)]
    BY <1>0, SessionActivated
  <2>2. Seen(ActivatedSession(s, c, u)) = SL!ActivatedOn(c)
    BY <2>1 DEF Seen, SL!ActivatedOn
  <2>3. Life' = [Life EXCEPT ![s] = Seen(ActivatedSession(s, c, u))]
    BY <1>0, <2>1, LifeExcept
  <2> QED
    BY <2>2, <2>3, Zenon
<1>5. Life[s] = Seen(sess[s])
  BY LifeSeen
<1>6. \/ sess[s].st = "created" /\ t = "creating"
      \/ sess[s].st = "activated" /\ sess[s].ch = c /\ t = "userActivating"
      \/ sess[s].st = "activated" /\ sess[s].ch # c /\ t = "scActivating"
      \/ sess[s].st = "orphaned" /\ t = "scActivating"
  BY <1>1 DEF Transitory
<1> HIDE DEF t
<1>7. CASE sess[s].st = "created" /\ t = "creating"
  <2>1. Notices' = <<>>
    BY <1>3, <1>7 DEF NoticesOf
  <2>2. Life[s] = SL!Closed
    BY <1>5, <1>7 DEF Seen, SL!Closed
  <2>3. SL!Activate(s, c)
    BY <1>3, <1>4, <2>1, <2>2, Zenon DEF SL!Activate
  <2> QED
    BY <2>3 DEF SL!LifeNext
<1>8. CASE sess[s].st = "activated" /\ sess[s].ch = c /\ t = "userActivating"
  <2>1. Notices' = <<SL!Notice(s, "userActivating")>>
    BY <1>3, <1>8, SameNotice DEF NoticesOf
  <2>2. Life[s] = SL!ActivatedOn(c) /\ Life[s].st = "activated"
    BY <1>5, <1>8 DEF Seen, SL!ActivatedOn
  <2>3. Life' = Life
    BY <1>4, <2>2, LifeSeen
  <2>4. SL!Refresh(s)
    BY <1>3, <2>1, <2>2, <2>3, Zenon DEF SL!Refresh
  <2> QED
    BY <2>4 DEF SL!LifeNext
<1>9. CASE sess[s].st = "activated" /\ sess[s].ch # c /\ t = "scActivating"
  <2>1. Notices' = <<SL!Notice(s, "scActivating")>>
    BY <1>3, <1>9, SameNotice DEF NoticesOf
  <2>2. Life[s].st = "activated" /\ Life[s].ch # c
    BY <1>5, <1>9 DEF Seen
  <2>3. SL!Move(s, c)
    BY <1>3, <1>4, <2>1, <2>2, Zenon DEF SL!Move
  <2> QED
    BY <2>3 DEF SL!LifeNext
<1>10. CASE sess[s].st = "orphaned" /\ t = "scActivating"
  <2>1. Notices' = <<>>
    BY <1>3, <1>10 DEF NoticesOf
  <2>2. Life[s] = SL!Orphaned
    <3>1. sess[s].ch = 0
      BY <1>0, <1>10, SessionFacts
    <3> QED
      BY <1>5, <1>10, <3>1 DEF Seen, SL!Orphaned
  <2>3. SL!Resume(s, c)
    BY <1>3, <1>4, <2>1, <2>2, Zenon DEF SL!Resume
  <2> QED
    BY <2>3 DEF SL!LifeNext
<1> QED
  BY <1>6, <1>7, <1>8, <1>9, <1>10

\* A lost channel: the sessions that were active on it are orphaned, those that
\* were only made are dropped, and each of them is named in one notice.
LEMMA LostRefines ==
    ASSUME Inv, NEW c \in Channels, secure_channel_lost(c)
    PROVE  SL!LifeNext
<1> DEFINE closed == {s \in On(c) : sess[s].st # "activated"}
           lost == {s \in Sessions : Life[s] = SL!ActivatedOn(c)}
           order == InOrder(On(c))
<1>0. Tables /\ QueueInv
  BY DEF Inv
<1>1. Notices = <<>> /\ Notices' = LostNotices(c)
  <2>1. Ready /\ evq' = PostAsNext(LostNotices(c), evq)
    BY Zenon DEF secure_channel_lost, LostNotices
  <2> QED
    BY <1>0, <2>1, LostNoticesFacts, HandlerPosts
<1>2. c # 0
  BY DEF Channels
<1>3. \A s \in Sessions : s \in lost <=> sess[s].ch = c /\ sess[s].st = "activated"
  <2> SUFFICES ASSUME NEW s \in Sessions
               PROVE  Life[s] = SL!ActivatedOn(c) <=> sess[s].ch = c /\ sess[s].st = "activated"
    OBVIOUS
  <2>1. Life[s] = Seen(sess[s])
    BY LifeSeen
  <2>2. CASE sess[s].st \in {"activated", "orphaned"}
    <3>1. Life[s] = [st |-> sess[s].st, ch |-> sess[s].ch]
      BY <2>1, <2>2 DEF Seen
    <3>2. [st |-> sess[s].st, ch |-> sess[s].ch] = SL!ActivatedOn(c)
             <=> sess[s].ch = c /\ sess[s].st = "activated"
      BY DEF SL!ActivatedOn
    <3> QED
      BY <3>1, <3>2
  <2>3. CASE sess[s].st \notin {"activated", "orphaned"}
    <3>1. Life[s] = [st |-> "closed", ch |-> 0]
      BY <2>1, <2>3 DEF Seen
    <3>2. [st |-> "closed", ch |-> 0] # SL!ActivatedOn(c)
      BY <1>2 DEF SL!ActivatedOn
    <3> QED
      BY <2>3, <3>1, <3>2
  <2> QED
    BY <2>2, <2>3
<1>4. closed \in SUBSET {s \in Sessions : Life[s] = SL!Closed}
  <2> SUFFICES ASSUME NEW s \in closed PROVE s \in Sessions /\ Life[s] = SL!Closed
    OBVIOUS
  <2>1. s \in Sessions /\ sess[s].ch = c /\ sess[s].st # "activated"
    BY DEF On
  <2>2. sess[s].st # "orphaned"
    BY <1>0, <1>2, <2>1, SessionFacts
  <2> QED
    BY <2>1, <2>2, LifeSeen DEF Seen, SL!Closed
<1>5. lost \cup closed = On(c)
  <2> HIDE DEF lost
  <2>1. lost \subseteq Sessions
    BY DEF lost
  <2> QED
    BY <1>3, <2>1 DEF On
<1>6. Life' = [s \in Sessions |-> IF s \in lost THEN SL!Orphaned ELSE Life[s]]
  <2>1. ASSUME NEW s \in Sessions PROVE Seen(sess'[s]) = IF s \in lost THEN SL!Orphaned ELSE Life[s]
    <3>0. Life[s] = Seen(sess[s])
      BY LifeSeen
    <3>1. CASE sess[s].ch # c
      <4>1. sess'[s] = sess[s] /\ s \notin lost
        BY <1>0, <1>3, <2>1, <3>1, SessionLost
      <4> QED
        BY <3>0, <4>1
    <3>2. CASE sess[s].ch = c /\ sess[s].st = "activated"
      <4>1. sess'[s].st = "orphaned" /\ sess'[s].ch = 0 /\ s \in lost
        BY <1>0, <1>3, <2>1, <3>2, SessionLost
      <4> QED
        BY <4>1 DEF Seen, SL!Orphaned
    <3>3. CASE sess[s].ch = c /\ sess[s].st # "activated"
      <4>1. sess'[s].st = "closed" /\ s \notin lost /\ s \in closed
        BY <1>0, <1>3, <2>1, <3>3, SessionLost DEF On
      <4>2. Life[s] = SL!Closed
        BY <1>4, <4>1
      <4> QED
        BY <4>1, <4>2 DEF Seen, SL!Closed
    <3> QED
      BY <3>1, <3>2, <3>3
  <2> HIDE DEF lost
  <2> QED
    BY <2>1, LifeSeen
<1>7. order \in SL!Orders(lost \cup closed)
  <2>1. On(c) \in SUBSET Sessions
    BY DEF On
  <2>2. /\ Cardinality(On(c)) \in Nat
        /\ order \in [1..Cardinality(On(c)) -> On(c)]
        /\ \A i, j \in 1..Cardinality(On(c)) : i < j => order[i] < order[j]
    BY <2>1, InOrderFacts
  <2> DEFINE n == Cardinality(On(c))
  <2>3. \A i, j \in 1..n : i # j => order[i] # order[j]
    <3> SUFFICES ASSUME NEW i \in 1..n, NEW j \in 1..n, i # j PROVE order[i] # order[j]
      OBVIOUS
    <3>1. order[i] \in Nat /\ order[j] \in Nat
      BY <2>1, <2>2, ServerSessionsAssumption DEF Sessions
    <3>2. order[i] < order[j] \/ order[j] < order[i]
      BY <2>2
    <3> QED
      BY <3>1, <3>2
  <2>4. order \in SL!Orders(On(c))
    BY <2>2, <2>3, SameCardinality DEF SL!Orders
  <2> HIDE DEF order, lost, closed
  <2> QED
    BY <1>5, <2>4
<1>8. Notices' = [i \in DOMAIN order |->
                    SL!Notice(order[i], IF order[i] \in lost THEN "scOrphaned" ELSE "closed")]
  <2>1. \A i \in DOMAIN order : order[i] \in closed <=> order[i] \notin lost
    <3> SUFFICES ASSUME NEW i \in DOMAIN order PROVE order[i] \in closed <=> order[i] \notin lost
      OBVIOUS
    <3>1. order[i] \in On(c)
      BY InOrderFacts DEF On
    <3> HIDE DEF order, lost
    <3> QED
      BY <1>3, <3>1 DEF On
  <2>2. \A i \in DOMAIN order :
           Notice(order[i], IF order[i] \in closed THEN "closed" ELSE "scOrphaned")
           = SL!Notice(order[i], IF order[i] \in lost THEN "scOrphaned" ELSE "closed")
    <3> HIDE DEF order, lost, closed
    <3> QED
      BY <2>1, SameNotice
  <2>3. LostNotices(c) = [i \in DOMAIN order |->
                            Notice(order[i], IF order[i] \in closed THEN "closed" ELSE "scOrphaned")]
    BY Zenon DEF LostNotices
  <2> DEFINE note(i) == Notice(order[i], IF order[i] \in closed THEN "closed" ELSE "scOrphaned")
             told(i) == SL!Notice(order[i], IF order[i] \in lost THEN "scOrphaned" ELSE "closed")
  <2>4. [i \in DOMAIN order |-> note(i)] = [i \in DOMAIN order |-> told(i)]
    <3>1. \A i \in DOMAIN order : note(i) = told(i)
      BY <2>2
    <3> HIDE DEF note, told, order
    <3> QED
      BY <3>1
  <2> QED
    BY <1>1, <2>3, <2>4, Zenon
<1>9. SL!Lose(c, closed)
  <2> HIDE DEF order, closed
  <2> QED
    BY <1>1, <1>6, <1>7, <1>8, Zenon DEF SL!Lose
<1> HIDE DEF closed
<1> QED
  BY <1>4, <1>9 DEF SL!LifeNext

\* A session that is closed by a request.
LEMMA RequestCloses ==
    ASSUME Inv, NEW s \in Sessions, Ready, set_session_state_closed(s)
    PROVE  SL!LifeNext
<1>0. Tables /\ QueueInv
  BY DEF Inv
<1>1. NoticesOf(s, sess[s].st, "closed") = <<Notice(s, "closed")>>
  BY DEF NoticesOf
<1> DEFINE out == NoticesOf(s, sess[s].st, "closed")
<1>2. evq' = PostAsNext(out, evq) /\ sess' = [sess EXCEPT ![s] = ClosedSession]
  BY DEF set_session_state_closed
<1>3. out \in Seq(Events) /\ AllNotices(out)
  BY StatesPosted, NoticesOfFacts
<1>4. Notices = <<>> /\ Notices' = out
  <2> HIDE DEF out
  <2> QED
    BY <1>0, <1>2, <1>3, HandlerPosts
<1> QED
  BY <1>0, <1>1, <1>2, <1>4, CloseRefines

\* The evaluation of a timeout closes the session, or is not seen.
LEMMA TimeoutRefines ==
    ASSUME Inv, internal_server_evaluate_session_timeout
    PROVE  SL!LifeNext \/ UNCHANGED SL!lifeVars
<1> DEFINE s == Head(evq).s
           out == NoticesOf(s, sess[s].st, "closed")
<1>0. Tables /\ QueueInv
  BY DEF Inv
<1>1. TimeoutNext /\ evq # <<>>
  BY DEF internal_server_evaluate_session_timeout, TimeoutNext
<1>2. s \in Sessions /\ Tail(evq) \in Seq(Events)
  BY <1>0, <1>1, NoticesTail, EventFacts DEF QueueInv
<1>3. CASE evq' = Tail(evq) /\ sess' = sess
  <2>1. evq' = PostAsNext(<<>>, Tail(evq))
    BY <1>2, <1>3 DEF PostAsNext
  <2>2. Notices = <<>> /\ Notices' = <<>>
    BY <1>0, <1>1, <2>1, NoNotices, TimeoutPosts
  <2> QED
    BY <1>3, <2>2, LifeSame
<1>4. CASE sess' = [sess EXCEPT ![s] = ClosedSession] /\ evq' = PostAsNext(out, Tail(evq))
  <2>1. out = <<Notice(s, "closed")>>
    BY DEF NoticesOf
  <2>2. out \in Seq(Events) /\ AllNotices(out)
    BY <1>2, StatesPosted, NoticesOfFacts
  <2> HIDE DEF s, out
  <2>3. Notices = <<>> /\ Notices' = out
    BY <1>0, <1>1, <1>4, <2>2, TimeoutPosts
  <2> QED
    BY <1>0, <1>2, <1>4, <2>1, <2>3, CloseRefines
<1> QED
  BY <1>3, <1>4, Zenon DEF internal_server_evaluate_session_timeout

\* Handling a notice is SessionLife's.
LEMMA HandleNoticeRefines ==
    ASSUME Inv, HandleNotice
    PROVE  SL!LifeNext
<1>1. evq # <<>> /\ IsNotice(Head(evq)) /\ evq' = Tail(evq) /\ sess' = sess
  BY DEF HandleNotice
<1>2. NoticesIn(evq) # <<>> /\ NoticesIn(evq') = Tail(NoticesIn(evq))
  BY <1>1, NoticesTail DEF Inv, QueueInv
<1>3. Life' = Life
  BY <1>1, LifeSeen
<1>4. SL!HandleNotice
  BY <1>2, <1>3 DEF SL!HandleNotice, Notices
<1> QED
  BY <1>4 DEF SL!LifeNext

\* Every step is a step of SessionLife, or changes nothing it shows.
LEMMA StepRefines == Inv /\ [Next]_vars => [SL!LifeNext]_(SL!lifeVars)
<1> SUFFICES ASSUME Inv, [Next]_vars PROVE SL!LifeNext \/ UNCHANGED SL!lifeVars
  OBVIOUS
<1>1. ASSUME UNCHANGED <<sess, evq>> PROVE UNCHANGED SL!lifeVars
  <2>1. Notices' = Notices
    BY <1>1, HandlerPostsNothing DEF Inv
  <2> QED
    BY <1>1, <2>1, LifeSame
<1>2. CASE UNCHANGED vars \/ Tick
  BY <1>1, <1>2 DEF vars, Tick
<1>3. ASSUME NEW c \in Channels, server_channel_connected_event(c) PROVE UNCHANGED SL!lifeVars
  BY <1>1, <1>3 DEF server_channel_connected_event
<1>4. ASSUME NEW s \in Sessions, ServiceRequest(s) PROVE UNCHANGED SL!lifeVars
  BY <1>1, <1>4 DEF ServiceRequest
<1>5. ASSUME NEW s \in Sessions, TimerFires(s) PROVE UNCHANGED SL!lifeVars
  <2>1. sess' = sess /\ evq' = Append(evq, TimeoutEvent(s))
    BY <1>5 DEF TimerFires
  <2>2. Notices' = Notices
    BY <2>1, TimerPosts DEF Inv
  <2> QED
    BY <2>1, <2>2, LifeSame
<1>6. ASSUME NEW s \in Sessions, ServiceRequestTooEarly(s) \/ CloseSession(s) PROVE SL!LifeNext
  BY <1>6, RequestCloses DEF ServiceRequestTooEarly, CloseSession
<1> QED
  BY <1>2, <1>3, <1>4, <1>5, <1>6, CreateRefines, ActivateRefines, LostRefines, TimeoutRefines,
     HandleNoticeRefines DEF Next

\* The initial states are SessionLife's.
LEMMA InitRefines == Init => SL!LifeInit
<1> SUFFICES ASSUME Init PROVE SL!LifeInit
  OBVIOUS
<1>1. Seen(ClosedSession) = SL!Closed
  BY DEF Seen, ClosedSession, SL!Closed
<1>2. \A s \in Sessions : Seen(sess[s]) = SL!Closed
  BY <1>1 DEF Init
<1>3. Life = [s \in Sessions |-> SL!Closed]
  BY <1>2, LifeSeen
<1>4. Notices = <<>>
  <2>1. evq = <<>> /\ NoNotice(evq)
    BY DEF Init, NoNotice
  <2> QED
    BY <2>1, NoNotices, NoticesNone DEF Notices
<1> QED
  BY <1>3, <1>4 DEF SL!LifeInit

\* Whatever the number of sessions, channels and users, and however their events
\* interleave: the session manager keeps the promises of SessionLife.  Every change
\* that takes an active session from its channel, and every close, is told in a
\* notice that is handled before anything else happens to a session.
THEOREM SessionsRefine == Spec => SessionsAsPromised
<1>1. SessionsAsPromised <=> SL!LifeInit /\ [][SL!LifeNext]_(SL!lifeVars)
  BY DEF SessionsAsPromised, SL!LifeSpec
<1>2. Spec => SL!LifeInit /\ [][SL!LifeNext]_(SL!lifeVars)
  BY InvCorrect, StepRefines, InitRefines, PTL DEF Spec
<1> QED
  BY <1>1, <1>2
=============================================================================
