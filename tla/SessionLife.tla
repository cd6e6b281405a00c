----------------------------- MODULE SessionLife -----------------------------
(* What the session manager of a server promises to the components that keep  *)
(* state for a session (the subscriptions are the only one today).            *)
(*                                                                            *)
(* A session slot is closed, activated on one secure channel, or orphaned     *)
(* when that channel was lost.  Whenever a session stops being activated on   *)
(* its channel, or is closed, a notice is put at the head of the services     *)
(* queue (SE_TO_SE_SERVER_INACTIVATED_SESSION_PRIO), and nothing else happens *)
(* to any session before every notice was handled.                            *)
(*                                                                            *)
(* ServerSessions is shown to implement this specification; Subscriptions     *)
(* takes the sessions it works for from it.                                   *)
EXTENDS Naturals, Sequences, FiniteSets

CONSTANTS
    Sessions,       \* the session slots
    Channels,       \* the secure channels
    NoChannel       \* constants__c_channel_indet

VARIABLES
    life,           \* session -> [st, ch]: its state and its secure channel
    notices         \* the notices not handled yet, the next one first

lifeVars == <<life, notices>>

Closed == [st |-> "closed", ch |-> NoChannel]
Orphaned == [st |-> "orphaned", ch |-> NoChannel]
ActivatedOn(c) == [st |-> "activated", ch |-> c]

Notice(s, st) == [ev |-> "inactive", s |-> s, st |-> st]

\* The orders in which the members of S may be named.
Orders(S) ==
    {q \in [1..Cardinality(S) -> S] : \A i, j \in DOMAIN q : i # j => q[i] # q[j]}

LifeInit ==
    /\ life = [s \in Sessions |-> Closed]
    /\ notices = <<>>

\* A session that was created is activated for the first time.
Activate(s, c) ==
    /\ notices = <<>>
    /\ life[s] = Closed
    /\ life' = [life EXCEPT ![s] = ActivatedOn(c)]
    /\ UNCHANGED notices

\* An activated session is activated again, by another user on its channel ...
Refresh(s) ==
    /\ notices = <<>>
    /\ life[s].st = "activated"
    /\ notices' = <<Notice(s, "userActivating")>>
    /\ UNCHANGED life

\* ... or by the same user on another channel.
Move(s, c) ==
    /\ notices = <<>>
    /\ life[s].st = "activated"
    /\ life[s].ch # c
    /\ life' = [life EXCEPT ![s] = ActivatedOn(c)]
    /\ notices' = <<Notice(s, "scActivating")>>

\* An orphaned session is activated again on another channel: its notice was
\* given when it was orphaned.
Resume(s, c) ==
    /\ notices = <<>>
    /\ life[s] = Orphaned
    /\ life' = [life EXCEPT ![s] = ActivatedOn(c)]
    /\ UNCHANGED notices

\* A channel is lost with the sessions on it, and closes those that were never
\* activated.
Lose(c, dropped) ==
    LET lost == {s \in Sessions : life[s] = ActivatedOn(c)}
    IN  /\ notices = <<>>
        /\ life' = [s \in Sessions |-> IF s \in lost THEN Orphaned ELSE life[s]]
        /\ \E order \in Orders(lost \cup dropped) :
              notices' = [i \in DOMAIN order |->
                            Notice(order[i], IF order[i] \in lost THEN "scOrphaned" ELSE "closed")]

\* A session is closed, whatever its state was.
Close(s) ==
    /\ notices = <<>>
    /\ life' = [life EXCEPT ![s] = Closed]
    /\ notices' = <<Notice(s, "closed")>>

HandleNotice ==
    /\ notices # <<>>
    /\ notices' = Tail(notices)
    /\ UNCHANGED life

LifeNext ==
    \/ HandleNotice
    \/ \E s \in Sessions, c \in Channels : Activate(s, c) \/ Move(s, c) \/ Resume(s, c)
    \/ \E s \in Sessions : Refresh(s) \/ Close(s)
    \/ \E c \in Channels, dropped \in SUBSET {s \in Sessions : life[s] = Closed} : Lose(c, dropped)

LifeSpec == LifeInit /\ [][LifeNext]_lifeVars
=============================================================================
