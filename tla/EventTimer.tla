----------------------------- MODULE EventTimer -----------------------------
(***************************************************************************)
(* The event timer manager (Common/helpers/sopc_event_timer_manager.c) on  *)
(* top of the singly linked list (sopc_singly_linked_list.c).              *)
(*                                                                         *)
(* Any thread creates, modifies and cancels timers under timersMutex; the  *)
(* "Timers" thread evaluates the list every 50 ms under the same mutex.    *)
(* Time is relative: a timer record holds `due', the distance from now to  *)
(* its endTime, so currentTime >= endTime reads due <= 0 and the passing   *)
(* of time decrements every `due'.  currentTimeRef is read once per        *)
(* evaluation, so time stands still while the thread holds the mutex.      *)
(***************************************************************************)
EXTENDS SinglyLinkedList

CONSTANTS
    MaxTimers,      \* SOPC_MAX_TIMERS
    Delays,         \* delays given to SOPC_EventTimer_Create
    Periods,        \* periods given to CreatePeriodic and ModifyPeriodic
    LoopLimit,      \* SOPC_TIMER_RESOLUTION_MS used as limit of missed events
    Slack,          \* bound: time between reading the clock and taking the
                    \* mutex in Create
    MaxLag,         \* bound: time between two evaluations
    OnePeriodic     \* TRUE when the program keeps at most one periodic timer

ASSUME ConstantsAssumption ==
    /\ MaxTimers \in Nat \ {0}
    /\ Delays \subseteq Nat \ {0}
    /\ Periods \subseteq Nat \ {0}
    /\ LoopLimit \in Nat
    /\ Slack \in Nat
    /\ MaxLag \in Nat \ {0}
    /\ OnePeriodic \in BOOLEAN

VARIABLES
    timers,         \* the list, as a sequence of records
    usedTimerIds,   \* ids whose entry of usedTimerIds is true
    latestTimerId,
    allocated,      \* timers # NULL and periodicTimersToRestart # NULL
    toRestart,      \* periodicTimersToRestart, the ids in order
    initialized, stop,
    pc,             \* control point of the Timers thread
    it,             \* position of the iterator of the evaluation
    clearing,       \* control point of SOPC_EventTimer_Clear
    lag,            \* time since the last evaluation
    aborted         \* an assert of the code has failed

thread == <<pc, it, toRestart>>
vars == <<timers, usedTimerIds, latestTimerId, allocated, toRestart,
          initialized, stop, pc, it, clearing, lag, aborted>>

TimerIds == 1 .. MaxTimers

\* period = 0 stands for isPeriodicTimer = false
Timer == [id : TimerIds, due : Int, period : {0} \cup Periods]

MutexFree == pc \notin {"scan", "restart"}

-----------------------------------------------------------------------------
(* The list and the identifiers                                            *)

\* Fault: the new timer goes to the tail.
FaultyInsertAtTail(list, timer) == Append(list, timer)

\* Insertion before the first element that is strictly greater.
SOPC_SLinkedList_SortedInsert(list, timer) ==
    LET greater == {p \in DOMAIN list : timer.due < list[p].due}
    IN  LinkAt(list, IF greater = {} THEN Len(list) + 1 ELSE First(greater), timer)

\* The search starts after latestTimerId, goes round once and stops when it
\* is back on latestTimerId, which is not tried; 0 when it finds nothing.
SOPC_Internal_GetFreshTimerId ==
    LET tried == {i \in TimerIds : i # latestTimerId /\ i \notin usedTimerIds}
        steps(i) == (i - latestTimerId - 1) % MaxTimers
    IN  IF Len(timers) >= MaxTimers \/ tried = {} THEN 0
        ELSE CHOOSE i \in tried : \A j \in tried : steps(i) <= steps(j)

-----------------------------------------------------------------------------
(* The API                                                                 *)

\* Every list function asserts that its list is not NULL.
AbortOnNullList ==
    /\ ~aborted /\ initialized /\ MutexFree /\ ~allocated
    /\ aborted' = TRUE
    /\ UNCHANGED <<timers, usedTimerIds, latestTimerId, allocated, initialized,
                   stop, clearing, lag, thread>>

\* A call of the API that is given the mutex while the lists exist.
ApiCall ==
    /\ ~aborted /\ initialized /\ MutexFree /\ allocated
    /\ UNCHANGED <<allocated, initialized, stop, clearing, lag, aborted, thread>>

SOPC_InternalEventTimer_Create(delay, period) ==
    /\ ApiCall
    /\ LET id == SOPC_Internal_GetFreshTimerId
       IN  IF id = 0
           THEN /\ latestTimerId' = IF latestTimerId = 0 /\ Len(timers) < MaxTimers
                                    THEN 1 ELSE latestTimerId
                /\ UNCHANGED <<timers, usedTimerIds>>
           ELSE /\ usedTimerIds' = usedTimerIds \cup {id}
                /\ latestTimerId' = id
                /\ \E late \in 0 .. Slack :
                      timers' = SOPC_SLinkedList_SortedInsert(timers,
                                  [id |-> id, due |-> delay - late, period |-> period])

SOPC_EventTimer_Create ==
    \E d \in Delays : SOPC_InternalEventTimer_Create(d, 0)

SOPC_EventTimer_CreatePeriodic ==
    /\ OnePeriodic => \A i \in DOMAIN timers : timers[i].period = 0
    /\ \E p \in Periods : SOPC_InternalEventTimer_Create(p, p)

SOPC_EventTimer_ModifyPeriodic ==
    /\ ApiCall
    /\ \E i \in DOMAIN timers, p \in Periods :
          /\ timers[i].period # 0
          /\ timers' = [timers EXCEPT ![i].period = p]
    /\ UNCHANGED <<usedTimerIds, latestTimerId>>

SOPC_EventTimer_Cancel ==
    /\ ApiCall
    /\ \E id \in usedTimerIds :
          /\ timers' = SOPC_SLinkedList_RemoveFromId(timers, id)
          /\ usedTimerIds' = usedTimerIds \ {id}
    /\ UNCHANGED latestTimerId

-----------------------------------------------------------------------------
(* The Timers thread                                                       *)

ThreadStep ==
    /\ ~aborted
    /\ UNCHANGED <<latestTimerId, allocated, initialized, stop, clearing>>

\* while (!is_stopped()), outside the mutex.
CheckStopped ==
    /\ pc = "check"
    /\ pc' = IF stop THEN "ended" ELSE "lock"
    /\ UNCHANGED <<timers, usedTimerIds, toRestart, it, lag, aborted>>
    /\ ThreadStep

\* Mutex_Lock, then GetIterator, which asserts that the list is not NULL.
StartEvaluation ==
    /\ pc = "lock"
    /\ aborted' = ~allocated
    /\ pc' = IF allocated THEN "scan" ELSE pc
    /\ it' = 1
    /\ UNCHANGED <<timers, usedTimerIds, toRestart, lag>>
    /\ ThreadStep

\* The periods added to endTime: one, and one more for every missed event
\* until the target is in the future or the limit of the loop is reached.
PeriodsElapsed(timer) ==
    CHOOSE n \in 1 .. LoopLimit + 1 :
        /\ n = LoopLimit + 1 \/ timer.due + n * timer.period > 0
        /\ \A m \in 1 .. n - 1 : timer.due + m * timer.period <= 0

\* The first evaluated timer that is not due ends the loop.
Due == it <= Len(timers) /\ timers[it].due <= 0

TriggerPeriodic ==
    /\ pc = "scan" /\ Due /\ timers[it].period # 0
    /\ timers' = [timers EXCEPT ![it].due =
                     @ + PeriodsElapsed(timers[it]) * timers[it].period]
    /\ toRestart' = Append(toRestart, timers[it].id)
    /\ it' = it + 1
    /\ UNCHANGED <<pc, usedTimerIds, lag, aborted>>
    /\ ThreadStep

TriggerOneShot ==
    /\ pc = "scan" /\ Due /\ timers[it].period = 0
    /\ timers' = SOPC_SLinkedList_RemoveFromId(timers, timers[it].id)
    /\ usedTimerIds' = usedTimerIds \ {timers[it].id}
    /\ UNCHANGED <<pc, it, toRestart, lag, aborted>>
    /\ ThreadStep

EndScan ==
    /\ pc = "scan" /\ ~Due
    /\ pc' = "restart"
    /\ UNCHANGED <<timers, usedTimerIds, toRestart, it, lag, aborted>>
    /\ ThreadStep

\* RestartPeriodicTimer: remove the timer, assert that it was in the list,
\* insert it again.
RestartPeriodicTimer ==
    /\ pc = "restart" /\ toRestart # <<>>
    /\ toRestart' = Tail(toRestart)
    /\ LET id == Head(toRestart)
           found == WithId(timers, id)
       IN  IF id \in usedTimerIds
           THEN /\ aborted' = (found = {})
                /\ timers' = IF found = {} THEN timers
                             ELSE SOPC_SLinkedList_SortedInsert(
                                     SOPC_SLinkedList_RemoveFromId(timers, id),
                                     timers[First(found)])
           ELSE UNCHANGED <<timers, aborted>>
    /\ UNCHANGED <<pc, it, usedTimerIds, lag>>
    /\ ThreadStep

\* Fault: the thread ends once no timer is left.
FaultyEndWhenIdle ==
    /\ pc = "restart" /\ toRestart = <<>>
    /\ pc' = IF timers = <<>> THEN "ended" ELSE "check"
    /\ lag' = 0
    /\ UNCHANGED <<timers, usedTimerIds, toRestart, it, aborted>>
    /\ ThreadStep

EndEvaluation ==
    /\ pc = "restart" /\ toRestart = <<>>
    /\ pc' = "check"
    /\ lag' = 0
    /\ UNCHANGED <<timers, usedTimerIds, toRestart, it, aborted>>
    /\ ThreadStep

SOPC_Internal_ThreadLoop ==
    \/ CheckStopped
    \/ StartEvaluation
    \/ TriggerPeriodic
    \/ TriggerOneShot
    \/ EndScan
    \/ RestartPeriodicTimer
    \/ EndEvaluation

-----------------------------------------------------------------------------
(* Initialization, clearing and time                                       *)

\* Fault: usedTimerIds keeps the ids of the timers deleted by Clear.
FaultyInitializeKeepsIds ==
    /\ ~aborted /\ ~initialized
    /\ timers' = <<>> /\ toRestart' = <<>>
    /\ allocated' = TRUE /\ initialized' = TRUE /\ stop' = FALSE
    /\ pc' = "check" /\ lag' = 0
    /\ UNCHANGED <<usedTimerIds, latestTimerId, it, clearing, aborted>>

SOPC_EventTimer_Initialize ==
    /\ ~aborted /\ ~initialized
    /\ usedTimerIds' = {} /\ timers' = <<>> /\ toRestart' = <<>>
    /\ allocated' = TRUE /\ initialized' = TRUE /\ stop' = FALSE
    /\ pc' = "check" /\ lag' = 0
    /\ UNCHANGED <<latestTimerId, it, clearing, aborted>>

ClearStop ==
    /\ ~aborted /\ initialized /\ clearing = "no"
    /\ stop' = TRUE
    /\ clearing' = "stopped"
    /\ UNCHANGED <<timers, usedTimerIds, latestTimerId, allocated, initialized,
                   lag, aborted, thread>>

ClearFree ==
    /\ ~aborted /\ clearing = "stopped" /\ MutexFree
    /\ timers' = <<>> /\ toRestart' = <<>> /\ allocated' = FALSE
    /\ clearing' = "freed"
    /\ UNCHANGED <<usedTimerIds, latestTimerId, initialized, stop, pc, it, lag,
                   aborted>>

ClearJoin ==
    /\ ~aborted /\ clearing = "freed" /\ pc = "ended"
    /\ initialized' = FALSE
    /\ clearing' = "no"
    /\ UNCHANGED <<timers, usedTimerIds, latestTimerId, allocated, stop, lag,
                   aborted, thread>>

SOPC_EventTimer_Clear == ClearStop \/ ClearFree \/ ClearJoin

Tick ==
    /\ ~aborted /\ MutexFree /\ timers # <<>> /\ lag < MaxLag
    /\ timers' = [i \in DOMAIN timers |-> [timers[i] EXCEPT !.due = @ - 1]]
    /\ lag' = lag + 1
    /\ UNCHANGED <<usedTimerIds, latestTimerId, allocated, initialized, stop,
                   clearing, aborted, thread>>

-----------------------------------------------------------------------------
Init ==
    /\ timers = <<>> /\ toRestart = <<>> /\ allocated = FALSE
    /\ usedTimerIds = {} /\ latestTimerId = 0
    /\ initialized = FALSE /\ stop = FALSE /\ clearing = "no"
    /\ pc = "ended" /\ it = 1
    /\ lag = 0 /\ aborted = FALSE

Next ==
    \/ SOPC_EventTimer_Initialize
    \/ SOPC_EventTimer_Clear
    \/ SOPC_EventTimer_Create
    \/ SOPC_EventTimer_CreatePeriodic
    \/ SOPC_EventTimer_ModifyPeriodic
    \/ SOPC_EventTimer_Cancel
    \/ AbortOnNullList
    \/ SOPC_Internal_ThreadLoop
    \/ Tick

Spec == Init /\ [][Next]_vars

\* The operating system schedules the thread and the caller of Clear, and time
\* passes between two evaluations (Tick is disabled during each of them:
\* strong fairness).  No fairness on the API calls and on ClearStop.
Fairness ==
    /\ WF_vars(ClearFree \/ ClearJoin)
    /\ WF_vars(SOPC_Internal_ThreadLoop)
    /\ SF_vars(Tick)

FairSpec == Spec /\ Fairness
-----------------------------------------------------------------------------
(* Properties                                                              *)

\* Types; in particular the round robin of GetFreshTimerId stays within the array
\* usedTimerIds of SOPC_MAX_TIMERS + 1 entries.
TypeOK ==
    /\ timers \in Seq(Timer)
    /\ usedTimerIds \subseteq TimerIds
    /\ latestTimerId \in 0 .. MaxTimers
    /\ toRestart \in Seq(TimerIds)
    /\ allocated \in BOOLEAN /\ initialized \in BOOLEAN /\ stop \in BOOLEAN
    /\ pc \in {"check", "lock", "scan", "restart", "ended"}
    /\ it \in Nat \ {0}
    /\ clearing \in {"no", "stopped", "freed"}
    /\ lag \in 0 .. MaxLag
    /\ aborted \in BOOLEAN

\* usedTimerIds and the list agree whatever the calls, evaluations, clearings
\* and re-initializations before: no id is leaked or given to two timers, and
\* the assert of RestartPeriodicTimer (result == timer) finds its timer.
UsedIdsMatchList ==
    allocated =>
        /\ \A i, j \in DOMAIN timers : timers[i].id = timers[j].id => i = j
        /\ Ids(timers) = usedTimerIds
        /\ \A k, l \in DOMAIN toRestart : toRestart[k] = toRestart[l] => k = l
        /\ \A k \in DOMAIN toRestart : toRestart[k] \in usedTimerIds

\* "the provided list shall be sorted regarding the same compare function"
\* (sopc_singly_linked_list.h): whenever a caller of SortedInsert can take the
\* mutex, the list is sorted by endTime.
TimersSorted ==
    MutexFree => \A i, j \in DOMAIN timers : i < j => timers[i].due <= timers[j].due

\* "Trigger timeout if currentTime >= timeoutTime": an evaluation stops its
\* scan only when none of the timers it has not triggered is due.
DueTimersTriggered ==
    [][pc = "scan" /\ pc' = "restart" =>
          \A i \in it .. Len(timers) : timers[i].due > 0]_vars

IsDue(id) == \E i \in DOMAIN timers : timers[i].id = id /\ timers[i].due <= 0

\* A timer that is due is eventually triggered (its endTime moves to the
\* future or it leaves the list), cancelled or cleared, wherever it is in
\* the list.
DueTimerServed == \A id \in TimerIds : IsDue(id) ~> (~IsDue(id) \/ aborted)
=============================================================================
