-------------------------- MODULE EventTimerProofs --------------------------
(* Proofs about EventTimer, for every value of its constants.              *)
EXTENDS EventTimer, ListLemmas

Sorted(list) ==
    \A i, j \in DOMAIN list : i < j => list[i].due <= list[j].due

Injective(list) ==
    \A i, j \in DOMAIN list : list[i].id = list[j].id => i = j

\* The fields of the timers of a list.
LEMMA TimerFields ==
    /\ \A t \in Timer : /\ t.id \in TimerIds /\ t.due \in Int
                        /\ t.period \in {0} \cup Periods
    /\ \A list \in Seq(Timer) :
          /\ Len(list) \in Nat /\ DOMAIN list = 1 .. Len(list)
          /\ \A i \in 1 .. Len(list) :
                /\ list[i] \in Timer
                /\ list[i].id \in TimerIds /\ list[i].due \in Int
                /\ list[i].period \in {0} \cup Periods
<1>1. \A t \in Timer : /\ t.id \in TimerIds /\ t.due \in Int
                       /\ t.period \in {0} \cup Periods
  BY DEF Timer
<1>2. \A list \in Seq(Timer) : /\ Len(list) \in Nat /\ DOMAIN list = 1 .. Len(list)
                               /\ \A i \in 1 .. Len(list) : list[i] \in Timer
  OBVIOUS
<1> QED
  BY <1>1, <1>2, Zenon

\* The empty list has the type of the lists.
LEMMA EmptyLists == <<>> \in Seq(Timer) /\ <<>> \in Seq(TimerIds)
OBVIOUS

\* A timer whose endTime changes stays a timer with the same id and period.
LEMMA MovedTimer ==
    ASSUME NEW t \in Timer, NEW x \in Int
    PROVE  /\ [t EXCEPT !.due = x] \in Timer
           /\ [t EXCEPT !.due = x].id = t.id
           /\ [t EXCEPT !.due = x].due = x
           /\ [t EXCEPT !.due = x].period = t.period
<1>1. PICK i \in TimerIds, d \in Int, p \in {0} \cup Periods :
         t = [id |-> i, due |-> d, period |-> p]
  BY Zenon DEF Timer
<1>2. [t EXCEPT !.due = x] = [id |-> i, due |-> x, period |-> p]
  BY <1>1
<1> QED
  BY <1>1, <1>2 DEF Timer

\* SOPC_SLinkedList_SortedInsert puts the timer before the first element
\* that is strictly greater.
LEMMA SortedInsertPosition ==
    ASSUME NEW list \in Seq(Timer), NEW t \in Timer
    PROVE  \E p \in 1 .. Len(list) + 1 :
              /\ SOPC_SLinkedList_SortedInsert(list, t) = LinkAt(list, p, t)
              /\ \A i \in 1 .. p - 1 : list[i].due <= t.due
              /\ p <= Len(list) => t.due < list[p].due
<1> DEFINE greater == {p \in DOMAIN list : t.due < list[p].due}
<1>0. /\ DOMAIN list = 1 .. Len(list) /\ Len(list) \in Nat
      /\ t.due \in Int /\ \A i \in 1 .. Len(list) : list[i].due \in Int
  BY TimerFields
<1>1. CASE greater = {}
  BY <1>0, <1>1 DEF SOPC_SLinkedList_SortedInsert
<1>2. CASE greater # {}
  <2> DEFINE pos == First(greater)
  <2>2. pos \in greater /\ \A q \in greater : pos <= q
    <3>1. greater \in SUBSET Nat
      BY <1>0
    <3> HIDE DEF greater
    <3> QED
      BY <3>1, <1>2, LeastElement
  <2>3. SOPC_SLinkedList_SortedInsert(list, t) = LinkAt(list, pos, t)
    BY <1>2 DEF SOPC_SLinkedList_SortedInsert
  <2> HIDE DEF pos
  <2>4. pos \in 1 .. Len(list) /\ t.due < list[pos].due
    BY <1>0, <2>2
  <2>5. \A i \in 1 .. pos - 1 : list[i].due <= t.due
    BY <1>0, <2>2, <2>4
  <2> QED
    BY <1>0, <2>3, <2>4, <2>5
<1> QED
  BY <1>1, <1>2

\* What an insertion in the order of the list returns: it adds exactly the
\* timer, keeps the ids distinct when the new one is fresh, and keeps a sorted
\* list sorted.
Inserted(list, t, new) ==
    /\ new \in Seq(Timer)
    /\ Len(new) = Len(list) + 1
    /\ Ids(new) = Ids(list) \cup {t.id}
    /\ Injective(list) /\ t.id \notin Ids(list) => Injective(new)
    /\ Sorted(list) => Sorted(new)
    /\ \A i \in DOMAIN new :
          new[i] = t \/ \E j \in DOMAIN list : new[i] = list[j]

LEMMA SortedInsertFacts ==
    ASSUME NEW list \in Seq(Timer), NEW t \in Timer
    PROVE  Inserted(list, t, SOPC_SLinkedList_SortedInsert(list, t))
<1> DEFINE new == SOPC_SLinkedList_SortedInsert(list, t)
<1>1. PICK p \in 1 .. Len(list) + 1 :
         /\ new = LinkAt(list, p, t)
         /\ \A i \in 1 .. p - 1 : list[i].due <= t.due
         /\ p <= Len(list) => t.due < list[p].due
  BY SortedInsertPosition
<1> HIDE DEF new
<1>2. /\ new \in Seq(Timer) /\ Len(new) = Len(list) + 1
      /\ DOMAIN new = 1 .. Len(list) + 1 /\ DOMAIN list = 1 .. Len(list)
      /\ Len(list) \in Nat
      /\ \A i \in 1 .. Len(list) + 1 :
            new[i] = IF i < p THEN list[i] ELSE IF i = p THEN t ELSE list[i - 1]
  <2>1. /\ LinkAt(list, p, t) \in Seq(Timer) /\ Len(LinkAt(list, p, t)) = Len(list) + 1
        /\ \A i \in 1 .. Len(list) + 1 : LinkAt(list, p, t)[i] =
              IF i < p THEN list[i] ELSE IF i = p THEN t ELSE list[i - 1]
    <3>1. ASSUME NEW q \in 1 .. Len(list) + 1
          PROVE  /\ LinkAt(list, q, t) \in Seq(Timer)
                 /\ Len(LinkAt(list, q, t)) = Len(list) + 1
                 /\ \A i \in 1 .. Len(list) + 1 : LinkAt(list, q, t)[i] =
                       IF i < q THEN list[i] ELSE IF i = q THEN t ELSE list[i - 1]
      BY LinkAtFacts
    <3> QED
      BY <3>1
  <2> QED
    BY <1>1, <2>1, TimerFields
<1>3. t.due \in Int /\ \A i \in 1 .. Len(list) : list[i].due \in Int
  BY TimerFields
<1>4. \A i \in DOMAIN new : new[i] = t \/ \E j \in DOMAIN list : new[i] = list[j]
  <2> TAKE i \in DOMAIN new
  <2>1. CASE i < p
    BY <1>2, <2>1
  <2>2. CASE i = p
    BY <1>2, <2>2
  <2>3. CASE i > p
    <3>1. i - 1 \in DOMAIN list /\ new[i] = list[i - 1]
      BY <1>2, <2>3
    <3> QED
      BY <3>1
  <2> QED
    BY <1>2, <2>1, <2>2, <2>3
<1>5. Ids(new) = Ids(list) \cup {t.id}
  <2>1. \A j \in DOMAIN list : \E i \in DOMAIN new : new[i] = list[j]
    <3> TAKE j \in DOMAIN list
    <3>1. CASE j < p
      BY <1>2, <3>1
    <3>2. CASE j >= p
      <4>1. j + 1 \in DOMAIN new /\ new[j + 1] = list[j]
        BY <1>2, <3>2
      <4> QED
        BY <4>1
    <3> QED
      BY <1>2, <3>1, <3>2
  <2>2. p \in DOMAIN new /\ new[p] = t
    BY <1>2
  <2>3. Ids(new) \subseteq Ids(list) \cup {t.id}
    <3> SUFFICES ASSUME NEW i \in DOMAIN new
                 PROVE  new[i].id \in Ids(list) \cup {t.id}
      BY DEF Ids
    <3> QED
      BY <1>4 DEF Ids
  <2>4. Ids(list) \subseteq Ids(new)
    <3> SUFFICES ASSUME NEW j \in DOMAIN list
                 PROVE  list[j].id \in Ids(new)
      BY DEF Ids
    <3> QED
      BY <2>1 DEF Ids
  <2>5. t.id \in Ids(new)
    BY <2>2 DEF Ids
  <2> QED
    BY <2>3, <2>4, <2>5
<1>6. Injective(list) /\ t.id \notin Ids(list) => Injective(new)
  <2> SUFFICES ASSUME Injective(list), t.id \notin Ids(list),
                      NEW i \in DOMAIN new, NEW j \in DOMAIN new,
                      new[i].id = new[j].id
               PROVE  i = j
    BY DEF Injective
  <2>1. \A k \in 1 .. Len(list) : list[k].id # t.id
    BY <1>2, Zenon DEF Ids
  <2> DEFINE src(k) == IF k < p THEN k ELSE k - 1
  <2>2. \A k \in DOMAIN new : k # p => /\ src(k) \in DOMAIN list
                                      /\ new[k] = list[src(k)]
    BY <1>2
  <2>3. new[p] = t
    BY <1>2
  <2>4. CASE i = p \/ j = p
    BY <1>2, <2>1, <2>2, <2>3, <2>4
  <2>5. CASE i # p /\ j # p
    <3>1. src(i) = src(j)
      <4> HIDE DEF src
      <4> QED
        BY <2>2, <2>5 DEF Injective
    <3> QED
      BY <1>2, <2>5, <3>1
  <2> QED
    BY <2>4, <2>5
<1>7. Sorted(list) => Sorted(new)
  <2> SUFFICES ASSUME Sorted(list),
                      NEW i \in DOMAIN new, NEW j \in DOMAIN new, i < j
               PROVE  new[i].due <= new[j].due
    BY DEF Sorted
  <2>1. \A k \in 1 .. Len(list) : k < p => list[k].due <= t.due
    BY <1>1, <1>2
  <2>2. \A k \in 1 .. Len(list) : k >= p => t.due <= list[k].due
    <3> SUFFICES ASSUME NEW k \in 1 .. Len(list), k >= p
                 PROVE  t.due <= list[k].due
      OBVIOUS
    <3>1. p \in 1 .. Len(list) /\ t.due < list[p].due
      BY <1>1, <1>2
    <3>2. p \in DOMAIN list /\ k \in DOMAIN list
      BY <1>2, <3>1
    <3>3. p < k => list[p].due <= list[k].due
      BY <3>2 DEF Sorted
    <3>4. p = k \/ p < k
      BY <3>1
    <3> QED
      BY <1>3, <3>1, <3>3, <3>4
  <2>3. CASE i < p /\ j < p
    <3>1. /\ i \in DOMAIN list /\ new[i] = list[i]
          /\ j \in DOMAIN list /\ new[j] = list[j]
      BY <1>2, <2>3
    <3> QED
      BY <3>1 DEF Sorted
  <2>4. CASE i > p /\ j > p
    <3>1. /\ i - 1 \in DOMAIN list /\ new[i] = list[i - 1]
          /\ j - 1 \in DOMAIN list /\ new[j] = list[j - 1] /\ i - 1 < j - 1
      BY <1>2, <2>4
    <3> QED
      BY <3>1 DEF Sorted
  <2>5. CASE i = p
    <3>1. new[i] = t /\ j - 1 \in 1 .. Len(list) /\ new[j] = list[j - 1] /\ j - 1 >= p
      BY <1>2, <2>5
    <3> QED
      BY <2>2, <3>1
  <2>51. CASE j = p
    <3>1. new[j] = t /\ i \in 1 .. Len(list) /\ new[i] = list[i] /\ i < p
      BY <1>2, <2>51
    <3> QED
      BY <2>1, <3>1
  <2>6. CASE i < p /\ j > p
    <3>1. /\ i \in DOMAIN list /\ new[i] = list[i]
          /\ j - 1 \in DOMAIN list /\ new[j] = list[j - 1] /\ j - 1 >= p
      BY <1>2, <2>6
    <3>2. new[i].due <= t.due /\ t.due <= new[j].due
      BY <1>2, <2>1, <2>2, <2>6, <3>1
    <3>3. new[i].due \in Int /\ new[j].due \in Int
      BY <1>2, <1>3, <3>1
    <3> QED
      BY <1>3, <3>2, <3>3
  <2> QED
    BY <1>2, <2>3, <2>4, <2>5, <2>51, <2>6
<1> QED
  BY <1>2, <1>4, <1>5, <1>6, <1>7, Zenon DEF Inserted, new

\* What the removal of the element at a position returns, the ids being
\* distinct: the other elements keep their order.
Removed(list, p, new) ==
    /\ new \in Seq(Timer)
    /\ Len(new) = Len(list) - 1
    /\ \A i \in 1 .. Len(list) - 1 :
          new[i] = IF i < p THEN list[i] ELSE list[i + 1]
    /\ Ids(new) = Ids(list) \ {list[p].id}
    /\ Injective(new)

LEMMA RemoveFromIdFacts ==
    ASSUME NEW list \in Seq(Timer), Injective(list), NEW p \in DOMAIN list
    PROVE  Removed(list, p, SOPC_SLinkedList_RemoveFromId(list, list[p].id))
<1> DEFINE new == SOPC_SLinkedList_RemoveFromId(list, list[p].id)
<1>0. Len(list) \in Nat /\ DOMAIN list = 1 .. Len(list) /\ p \in 1 .. Len(list)
  BY TimerFields
<1>1. WithId(list, list[p].id) = {p}
  BY DEF Injective, WithId
<1>2. First({p}) = p
  BY <1>0 DEF First
<1>3. new = UnlinkAt(list, p)
  BY <1>1, <1>2 DEF SOPC_SLinkedList_RemoveFromId
<1> HIDE DEF new
<1>4. /\ new \in Seq(Timer)
      /\ Len(new) = Len(list) - 1
      /\ \A i \in 1 .. Len(list) - 1 :
            new[i] = IF i < p THEN list[i] ELSE list[i + 1]
  BY <1>0, <1>3, UnlinkAtFacts
<1>5. DOMAIN new = 1 .. Len(list) - 1
  BY <1>4, TimerFields
<1> DEFINE src(k) == IF k < p THEN k ELSE k + 1
<1>6. \A k \in DOMAIN new : /\ src(k) \in DOMAIN list /\ src(k) # p
                            /\ new[k] = list[src(k)]
  <2> TAKE k \in DOMAIN new
  <2>1. k \in 1 .. Len(list) - 1
    BY <1>5
  <2>2. new[k] = list[src(k)]
    BY <1>4, <2>1
  <2>3. src(k) \in 1 .. Len(list) /\ src(k) # p
    BY <1>0, <2>1
  <2> QED
    BY <1>0, <2>2, <2>3
<1>7. \A k, l \in DOMAIN new : src(k) = src(l) => k = l
  BY <1>0, <1>5
<1>8. \A j \in DOMAIN list : j # p => \E k \in DOMAIN new : new[k] = list[j]
  <2> TAKE j \in DOMAIN list
  <2>1. CASE j < p
    <3>1. j \in 1 .. Len(list) - 1
      BY <1>0, <2>1
    <3>2. new[j] = list[j]
      BY <1>4, <2>1, <3>1
    <3> QED
      BY <1>5, <3>1, <3>2
  <2>2. CASE j > p
    <3>1. j - 1 \in 1 .. Len(list) - 1 /\ ~(j - 1 < p) /\ (j - 1) + 1 = j
      BY <1>0, <2>2
    <3>2. new[j - 1] = list[j]
      BY <1>4, <3>1
    <3> QED
      BY <1>5, <3>1, <3>2
  <2>3. j < p \/ j > p \/ j = p
    BY <1>0
  <2> QED
    BY <2>1, <2>2, <2>3
<1> HIDE DEF src
<1>9. Injective(new)
  BY <1>6, <1>7 DEF Injective
<1>10. Ids(new) \subseteq Ids(list) \ {list[p].id}
  <2> SUFFICES ASSUME NEW k \in DOMAIN new
               PROVE  new[k].id \in Ids(list) /\ new[k].id # list[p].id
    BY DEF Ids
  <2> QED
    BY <1>6 DEF Ids, Injective
<1>11. Ids(list) \ {list[p].id} \subseteq Ids(new)
  <2> SUFFICES ASSUME NEW j \in DOMAIN list, list[j].id # list[p].id
               PROVE  list[j].id \in Ids(new)
    BY DEF Ids
  <2> QED
    BY <1>8 DEF Ids
<1>12. Ids(new) = Ids(list) \ {list[p].id}
  BY <1>10, <1>11
<1> QED
  BY <1>4, <1>9, <1>12, Zenon DEF Removed, new

\* GetFreshTimerId returns 0 or an id that is not in use.
LEMMA FreshIdFacts ==
    ASSUME NEW id, id = SOPC_Internal_GetFreshTimerId, id # 0,
           latestTimerId \in 0 .. MaxTimers
    PROVE  id \in TimerIds /\ id \notin usedTimerIds
<1> DEFINE tried == {i \in TimerIds : i # latestTimerId /\ i \notin usedTimerIds}
           steps(i) == (i - latestTimerId - 1) % MaxTimers
           T == {steps(i) : i \in tried}
<1>1. tried # {}
  BY DEF SOPC_Internal_GetFreshTimerId
<1>2. \A i \in tried : steps(i) \in Nat
  BY ConstantsAssumption DEF TimerIds
<1>3. T \in SUBSET Nat /\ T # {}
  BY <1>1, <1>2
<1>4. \E i \in tried : \A j \in tried : steps(i) <= steps(j)
  <2> HIDE DEF tried, steps
  <2>1. First(T) \in T /\ \A m \in T : First(T) <= m
    <3> HIDE DEF T
    <3> QED
      BY <1>3, LeastElement
  <2> QED
    BY <2>1, Zenon
<1>5. id = CHOOSE i \in tried : \A j \in tried : steps(i) <= steps(j)
  BY <1>1 DEF SOPC_Internal_GetFreshTimerId
<1>6. id \in tried
  <2> HIDE DEF tried, steps
  <2> QED
    BY <1>4, <1>5
<1> QED
  BY <1>6

\* A triggered periodic timer moves by at least one period.
LEMMA PeriodsElapsedFacts ==
    ASSUME NEW t \in Timer
    PROVE  PeriodsElapsed(t) \in 1 .. LoopLimit + 1
<1> DEFINE Enough(n) == n = LoopLimit + 1 \/ t.due + n * t.period > 0
           T == {n \in 1 .. LoopLimit + 1 : Enough(n)}
<1>0. LoopLimit \in Nat /\ t.due \in Int /\ t.period \in Int
  <2>1. t.due \in Int /\ t.period \in {0} \cup Periods
    BY TimerFields, Zenon
  <2>2. LoopLimit \in Nat /\ \A x \in {0} \cup Periods : x \in Int
    BY ConstantsAssumption
  <2> QED
    BY <2>1, <2>2, Zenon
<1>1. T \in SUBSET Nat /\ LoopLimit + 1 \in T
  BY <1>0
<1>2. PICK n \in T : \A m \in T : n <= m
  <2> HIDE DEF T
  <2>1. First(T) \in T /\ \A m \in T : First(T) <= m
    BY <1>1, LeastElement
  <2> QED
    BY <2>1
<1>3. \A m \in 1 .. n - 1 : t.due + m * t.period <= 0
  <2> SUFFICES ASSUME NEW m \in 1 .. n - 1
               PROVE  t.due + m * t.period <= 0
    OBVIOUS
  <2>1. m \in 1 .. LoopLimit + 1 /\ m \notin T
    BY <1>0, <1>2
  <2>2. t.due + m * t.period \in Int
    BY <1>0
  <2> QED
    BY <2>1, <2>2
<1> QED
  BY <1>2, <1>3 DEF PeriodsElapsed

-----------------------------------------------------------------------------
(* The ids                                                                 *)

\* UsedIdsMatchList made inductive: the lists exist during an evaluation, and
\* during its scan the timers to restart are exactly those before the iterator.
IdInv ==
    /\ TypeOK
    /\ allocated => Injective(timers) /\ Ids(timers) = usedTimerIds
    /\ ~MutexFree => allocated
    /\ MutexFree => toRestart = <<>>
    /\ \A k, l \in DOMAIN toRestart : toRestart[k] = toRestart[l] => k = l
    /\ \A k \in DOMAIN toRestart : toRestart[k] \in usedTimerIds
    /\ pc = "scan" =>
          /\ it <= Len(timers) + 1 /\ Len(toRestart) = it - 1
          /\ \A k \in 1 .. it - 1 : toRestart[k] = timers[k].id

\* A step that leaves the list and the thread alone keeps IdInv.
LEMMA IdInvUntouched ==
    ASSUME IdInv, UNCHANGED <<timers, usedTimerIds, toRestart, allocated, pc, it>>, TypeOK'
    PROVE  IdInv'
BY DEF IdInv, MutexFree, Injective, Ids

LEMMA IdInvCreate ==
    ASSUME IdInv, NEW d \in Nat, NEW per \in {0} \cup Periods,
           SOPC_InternalEventTimer_Create(d, per)
    PROVE  IdInv'
<1> USE DEF SOPC_InternalEventTimer_Create, ApiCall, thread
<1> DEFINE id == SOPC_Internal_GetFreshTimerId
<1>0. TypeOK /\ latestTimerId \in 0 .. MaxTimers /\ timers \in Seq(Timer)
  BY DEF IdInv, TypeOK
<1>1. CASE id = 0
  <2>1. latestTimerId' \in 0 .. MaxTimers
    BY <1>0, <1>1, ConstantsAssumption
  <2>2. UNCHANGED <<timers, usedTimerIds, toRestart, allocated, pc, it>>
    BY <1>1
  <2>3. TypeOK'
    BY <1>0, <2>1, <2>2 DEF TypeOK
  <2> QED
    BY <2>2, <2>3, IdInvUntouched
<1>2. CASE id # 0
  <2>1. PICK late \in 0 .. Slack :
           timers' = SOPC_SLinkedList_SortedInsert(timers,
                        [id |-> id, due |-> d - late, period |-> per])
    BY <1>2
  <2> DEFINE t == [id |-> id, due |-> d - late, period |-> per]
  <2>2. id \in TimerIds /\ id \notin usedTimerIds
    BY <1>0, <1>2, FreshIdFacts
  <2>3. t \in Timer /\ t.id = id
    <3>1. d - late \in Int
      BY ConstantsAssumption
    <3> QED
      BY <2>2, <3>1 DEF Timer
  <2>4. usedTimerIds' = usedTimerIds \cup {id} /\ latestTimerId' = id
    BY <1>2
  <2>5. Injective(timers) /\ Ids(timers) = usedTimerIds
    BY DEF IdInv
  <2>51. timers' = SOPC_SLinkedList_SortedInsert(timers, t)
    BY <2>1
  <2> HIDE DEF t, id
  <2>52. /\ timers' \in Seq(Timer) /\ Ids(timers') = Ids(timers) \cup {t.id}
         /\ Injective(timers) /\ t.id \notin Ids(timers) => Injective(timers')
    BY <1>0, <2>3, <2>51, SortedInsertFacts, Zenon DEF Inserted
  <2>6. /\ timers' \in Seq(Timer) /\ Ids(timers') = Ids(timers) \cup {id}
        /\ Injective(timers')
    BY <2>2, <2>3, <2>5, <2>52
  <2>7. TypeOK'
    <3>1. latestTimerId' \in 0 .. MaxTimers /\ usedTimerIds' \subseteq TimerIds
      BY <1>0, <2>2, <2>4 DEF TypeOK, TimerIds
    <3> QED
      BY <1>0, <2>6, <3>1 DEF TypeOK
  <2>8. Ids(timers)' = usedTimerIds' /\ Injective(timers)'
    BY <2>4, <2>5, <2>6 DEF Ids, Injective
  <2>9. MutexFree /\ MutexFree' /\ toRestart = <<>> /\ toRestart' = <<>> /\ pc' # "scan"
    BY DEF IdInv, MutexFree
  <2> QED
    BY <2>7, <2>8, <2>9 DEF IdInv
<1> QED
  BY <1>1, <1>2

LEMMA IdInvModify ==
    ASSUME IdInv, SOPC_EventTimer_ModifyPeriodic
    PROVE  IdInv'
<1> USE DEF SOPC_EventTimer_ModifyPeriodic, ApiCall, thread
<1>1. PICK i \in DOMAIN timers, p \in Periods :
         timers' = [timers EXCEPT ![i].period = p]
  BY Zenon
<1>2. timers \in Seq(Timer) /\ i \in 1 .. Len(timers) /\ timers[i] \in Timer
  BY TimerFields DEF IdInv, TypeOK
<1>3. timers' = [timers EXCEPT ![i] = [timers[i] EXCEPT !.period = p]]
  BY <1>1, Zenon
<1>4. [timers[i] EXCEPT !.period = p] \in Timer
  BY <1>2 DEF Timer
<1>5. /\ timers' \in Seq(Timer) /\ Len(timers') = Len(timers)
      /\ DOMAIN timers' = DOMAIN timers
      /\ \A j \in DOMAIN timers : timers'[j].id = timers[j].id
  <2>1. timers' \in Seq(Timer) /\ Len(timers') = Len(timers)
    BY <1>2, <1>3, <1>4
  <2>2. [timers[i] EXCEPT !.period = p].id = timers[i].id
    BY <1>2 DEF Timer
  <2> QED
    BY <1>2, <1>3, <2>1, <2>2
<1>6. Ids(timers') = Ids(timers) /\ (Injective(timers) => Injective(timers'))
  BY <1>5 DEF Ids, Injective
<1>7. TypeOK'
  BY <1>5 DEF IdInv, TypeOK
<1>8. MutexFree /\ MutexFree' /\ toRestart = <<>> /\ toRestart' = <<>> /\ pc' # "scan"
  BY DEF IdInv, MutexFree
<1>9. Ids(timers)' = usedTimerIds' /\ Injective(timers)'
  BY <1>6 DEF IdInv, Ids, Injective
<1> QED
  BY <1>7, <1>8, <1>9 DEF IdInv

LEMMA IdInvCancel ==
    ASSUME IdInv, SOPC_EventTimer_Cancel
    PROVE  IdInv'
<1> USE DEF SOPC_EventTimer_Cancel, ApiCall, thread
<1>1. PICK id \in usedTimerIds :
         /\ timers' = SOPC_SLinkedList_RemoveFromId(timers, id)
         /\ usedTimerIds' = usedTimerIds \ {id}
  OBVIOUS
<1>2. Injective(timers) /\ Ids(timers) = usedTimerIds /\ timers \in Seq(Timer)
  BY DEF IdInv, TypeOK
<1>3. PICK p \in DOMAIN timers : timers[p].id = id
  BY <1>2 DEF Ids
<1>4. timers' \in Seq(Timer) /\ Ids(timers') = Ids(timers) \ {id} /\ Injective(timers')
  <2>1. Removed(timers, p, timers')
    BY <1>1, <1>2, <1>3, RemoveFromIdFacts
  <2> QED
    BY <1>3, <2>1 DEF Removed
<1>5. TypeOK'
  BY <1>1, <1>4 DEF IdInv, TypeOK
<1>6. MutexFree /\ MutexFree' /\ toRestart = <<>> /\ toRestart' = <<>> /\ pc' # "scan"
  BY DEF IdInv, MutexFree
<1>7. Ids(timers)' = usedTimerIds' /\ Injective(timers)'
  BY <1>1, <1>2, <1>4, Zenon DEF Ids, Injective
<1> QED
  BY <1>5, <1>6, <1>7 DEF IdInv

LEMMA IdInvTriggerPeriodic ==
    ASSUME IdInv, TriggerPeriodic
    PROVE  IdInv'
<1> USE DEF TriggerPeriodic, ThreadStep, Due
<1> DEFINE n == PeriodsElapsed(timers[it]) * timers[it].period
           t == [timers[it] EXCEPT !.due = timers[it].due + n]
<1>1. /\ timers \in Seq(Timer) /\ it \in 1 .. Len(timers) /\ timers[it] \in Timer
      /\ toRestart \in Seq(TimerIds) /\ timers[it].id \in TimerIds
      /\ DOMAIN timers = 1 .. Len(timers) /\ Len(timers) \in Nat
  BY TimerFields DEF IdInv, TypeOK
<1>2. n \in Int
  <2>1. PeriodsElapsed(timers[it]) \in Int
    BY <1>1, PeriodsElapsedFacts, ConstantsAssumption
  <2>2. timers[it].period \in {0} \cup Periods
    BY <1>1, TimerFields
  <2>3. \A x \in {0} \cup Periods : x \in Int
    BY ConstantsAssumption
  <2> QED
    BY <2>1, <2>2, <2>3
<1>3. timers' = [timers EXCEPT ![it] = t]
  OBVIOUS
<1> HIDE DEF n
<1>4. t \in Timer /\ t.id = timers[it].id
  <2>1. timers[it].due + n \in Int
    BY <1>1, <1>2, TimerFields
  <2> QED
    BY <1>1, <2>1, MovedTimer
<1> HIDE DEF t
<1>5. /\ timers' \in Seq(Timer) /\ Len(timers') = Len(timers)
      /\ DOMAIN timers' = DOMAIN timers
      /\ \A j \in DOMAIN timers : timers'[j].id = timers[j].id
  <2>1. timers' \in Seq(Timer) /\ Len(timers') = Len(timers)
    <3>1. timers' \in [1 .. Len(timers) -> Timer]
      BY <1>1, <1>3, <1>4
    <3> QED
      BY <1>1, <3>1
  <2>2. DOMAIN timers' = DOMAIN timers
    BY <1>1, <2>1
  <2>3. \A j \in DOMAIN timers : timers'[j] = IF j = it THEN t ELSE timers[j]
    BY <1>1, <1>3
  <2> QED
    BY <1>4, <2>1, <2>2, <2>3
<1>6. Ids(timers)' = usedTimerIds' /\ Injective(timers)'
  BY <1>5 DEF IdInv, Ids, Injective, MutexFree
<1>7. /\ toRestart' \in Seq(TimerIds) /\ Len(toRestart') = it
      /\ DOMAIN toRestart' = 1 .. it /\ Len(toRestart) = it - 1
      /\ \A k \in 1 .. it : toRestart'[k] = timers[k].id
  BY <1>1 DEF IdInv
<1>8. TypeOK'
  <2>1. it' \in Nat \ {0}
    BY <1>1
  <2> QED
    BY <1>5, <1>7, <2>1 DEF IdInv, TypeOK
<1>9. \A k \in 1 .. it : k \in DOMAIN timers /\ timers[k].id \in usedTimerIds
  BY <1>1 DEF IdInv, Ids, MutexFree
<1>10. /\ \A k, l \in DOMAIN toRestart' : toRestart'[k] = toRestart'[l] => k = l
       /\ \A k \in DOMAIN toRestart' : toRestart'[k] \in usedTimerIds'
  <2>1. Injective(timers) /\ usedTimerIds' = usedTimerIds
    BY DEF IdInv, MutexFree
  <2> HIDE DEF TriggerPeriodic, ThreadStep, Due
  <2>2. \A k \in DOMAIN toRestart' : toRestart'[k] = timers[k].id /\ k \in DOMAIN timers
                                    /\ timers[k].id \in usedTimerIds
    BY <1>7, <1>9
  <2> QED
    BY <2>1, <2>2 DEF Injective
<1>11. /\ it' <= Len(timers') + 1 /\ Len(toRestart') = it' - 1
       /\ \A k \in 1 .. it' - 1 : toRestart'[k] = timers'[k].id
  BY <1>1, <1>5, <1>7, <1>9
<1>12. ~MutexFree' /\ allocated'
  BY DEF IdInv, MutexFree
<1> QED
  BY <1>6, <1>8, <1>10, <1>11, <1>12 DEF IdInv

LEMMA IdInvTriggerOneShot ==
    ASSUME IdInv, TriggerOneShot
    PROVE  IdInv'
<1> USE DEF TriggerOneShot, ThreadStep, Due
<1>1. /\ timers \in Seq(Timer) /\ it \in 1 .. Len(timers)
      /\ DOMAIN timers = 1 .. Len(timers) /\ Len(timers) \in Nat
      /\ Injective(timers) /\ Ids(timers) = usedTimerIds
  BY TimerFields DEF IdInv, TypeOK, MutexFree
<1>2. /\ timers' \in Seq(Timer) /\ Len(timers') = Len(timers) - 1
      /\ Ids(timers') = Ids(timers) \ {timers[it].id} /\ Injective(timers')
      /\ \A i \in 1 .. Len(timers) - 1 :
            timers'[i] = IF i < it THEN timers[i] ELSE timers[i + 1]
  <2>1. Removed(timers, it, timers')
    BY <1>1, RemoveFromIdFacts
  <2> QED
    BY <2>1 DEF Removed
<1>3. TypeOK'
  BY <1>2 DEF IdInv, TypeOK
<1>4. Ids(timers)' = usedTimerIds' /\ Injective(timers)'
  BY <1>1, <1>2 DEF Ids, Injective
<1>5. /\ it' <= Len(timers') + 1 /\ Len(toRestart') = it' - 1
      /\ \A k \in 1 .. it' - 1 : toRestart'[k] = timers'[k].id
  <2>1. it' = it /\ toRestart' = toRestart
    OBVIOUS
  <2>2. it <= Len(timers') + 1 /\ \A k \in 1 .. it - 1 : timers'[k] = timers[k]
    <3>1. \A k \in 1 .. it - 1 : k \in 1 .. Len(timers) - 1 /\ k < it
      BY <1>1
    <3>2. it <= Len(timers') + 1
      <4> HIDE DEF TriggerOneShot, ThreadStep, Due
      <4>1. Len(timers') = Len(timers) - 1
        BY <1>2
      <4> QED
        BY <1>1, <4>1
    <3> QED
      BY <1>2, <3>1, <3>2
  <2>3. Len(toRestart) = it - 1 /\ \A k \in 1 .. it - 1 : toRestart[k] = timers[k].id
    BY DEF IdInv
  <2> QED
    BY <2>1, <2>2, <2>3
<1>6. \A k \in DOMAIN toRestart : k \in 1 .. it - 1 /\ toRestart[k] # timers[it].id
  <2>1. DOMAIN toRestart = 1 .. it - 1
    BY <1>1 DEF IdInv, TypeOK
  <2>2. \A k \in 1 .. it - 1 : /\ k \in DOMAIN timers /\ it \in DOMAIN timers /\ k # it
                               /\ toRestart[k] = timers[k].id
    BY <1>1 DEF IdInv
  <2> QED
    BY <1>1, <2>1, <2>2 DEF Injective
<1>7. /\ \A k, l \in DOMAIN toRestart' : toRestart'[k] = toRestart'[l] => k = l
      /\ \A k \in DOMAIN toRestart' : toRestart'[k] \in usedTimerIds'
  BY <1>6 DEF IdInv
<1>8. ~MutexFree' /\ allocated'
  BY DEF IdInv, MutexFree
<1> QED
  BY <1>3, <1>4, <1>5, <1>7, <1>8 DEF IdInv

\* The assert of RestartPeriodicTimer: the timer to restart is in the list.
LEMMA RestartFindsTimer ==
    ASSUME IdInv, pc = "restart", toRestart # <<>>
    PROVE  /\ Head(toRestart) \in usedTimerIds
           /\ \E p \in DOMAIN timers :
                 WithId(timers, Head(toRestart)) = {p}
<1>1. toRestart \in Seq(TimerIds) /\ allocated
  BY DEF IdInv, TypeOK, MutexFree
<1>2. 1 \in DOMAIN toRestart /\ Head(toRestart) = toRestart[1]
  BY <1>1
<1>3. Head(toRestart) \in usedTimerIds
  BY <1>2 DEF IdInv
<1>4. PICK p \in DOMAIN timers : timers[p].id = Head(toRestart)
  BY <1>1, <1>3 DEF IdInv, Ids
<1>5. WithId(timers, Head(toRestart)) = {p}
  BY <1>1, <1>4 DEF IdInv, Injective, WithId
<1> QED
  BY <1>3, <1>5

LEMMA IdInvRestart ==
    ASSUME IdInv, RestartPeriodicTimer
    PROVE  IdInv'
<1> USE DEF RestartPeriodicTimer, ThreadStep
<1>1. /\ timers \in Seq(Timer) /\ toRestart \in Seq(TimerIds) /\ allocated
      /\ Injective(timers) /\ Ids(timers) = usedTimerIds
  BY DEF IdInv, TypeOK, MutexFree
<1>2. PICK p \in DOMAIN timers :
         WithId(timers, Head(toRestart)) = {p}
  BY RestartFindsTimer
<1>3. timers[p].id = Head(toRestart) /\ timers[p].id \in usedTimerIds
  BY <1>1, <1>2 DEF Ids, WithId
<1>31. First({p}) = p
  BY <1>1, TimerFields DEF First
<1> DEFINE rest == SOPC_SLinkedList_RemoveFromId(timers, timers[p].id)
<1>4. /\ timers' = SOPC_SLinkedList_SortedInsert(rest, timers[p])
      /\ aborted' = FALSE
  BY <1>2, <1>3, <1>31, Zenon
<1>5. /\ rest \in Seq(Timer) /\ Injective(rest)
      /\ Ids(rest) = Ids(timers) \ {timers[p].id}
  <2>1. Removed(timers, p, rest)
    BY <1>1, RemoveFromIdFacts
  <2> HIDE DEF rest
  <2> QED
    BY <2>1 DEF Removed
<1>6. timers[p] \in Timer
  BY <1>1, TimerFields
<1> HIDE DEF rest
<1>7. /\ timers' \in Seq(Timer) /\ Ids(timers') = Ids(rest) \cup {timers[p].id}
      /\ Injective(rest) /\ timers[p].id \notin Ids(rest) => Injective(timers')
  <2>1. Inserted(rest, timers[p], timers')
    BY <1>4, <1>5, <1>6, SortedInsertFacts
  <2> QED
    BY <2>1 DEF Inserted
<1>8. Ids(timers') = Ids(timers) /\ Injective(timers')
  BY <1>1, <1>3, <1>5, <1>7
<1>9. /\ toRestart' \in Seq(TimerIds) /\ DOMAIN toRestart' = 1 .. Len(toRestart) - 1
      /\ \A k \in DOMAIN toRestart' : k + 1 \in DOMAIN toRestart /\ toRestart'[k] = toRestart[k + 1]
      /\ \A k \in DOMAIN toRestart' : k \in Nat
  BY <1>1
<1>10. /\ \A k, l \in DOMAIN toRestart' : toRestart'[k] = toRestart'[l] => k = l
       /\ \A k \in DOMAIN toRestart' : toRestart'[k] \in usedTimerIds'
  BY <1>9 DEF IdInv
<1>11. TypeOK'
  BY <1>4, <1>7, <1>9 DEF IdInv, TypeOK
<1>12. Ids(timers)' = usedTimerIds' /\ Injective(timers)'
  BY <1>1, <1>8, Zenon DEF Ids, Injective
<1>13. ~MutexFree' /\ allocated' /\ pc' # "scan"
  BY <1>1 DEF MutexFree
<1> QED
  BY <1>10, <1>11, <1>12, <1>13 DEF IdInv

LEMMA IdInvTick ==
    ASSUME IdInv, Tick
    PROVE  IdInv'
<1> USE DEF Tick, thread
<1>1. /\ timers \in Seq(Timer) /\ DOMAIN timers = 1 .. Len(timers) /\ Len(timers) \in Nat
      /\ \A i \in DOMAIN timers : timers[i] \in Timer /\ timers[i].due - 1 \in Int
  BY TimerFields DEF IdInv, TypeOK
<1>2. /\ DOMAIN timers' = DOMAIN timers
      /\ \A i \in DOMAIN timers : timers'[i] = [timers[i] EXCEPT !.due = timers[i].due - 1]
  OBVIOUS
<1>3. \A i \in DOMAIN timers : timers'[i] \in Timer /\ timers'[i].id = timers[i].id
  BY <1>1, <1>2, MovedTimer, Zenon
<1>4. timers' \in Seq(Timer)
  <2>1. timers' \in [1 .. Len(timers) -> Timer]
    BY <1>1, <1>2, <1>3
  <2> QED
    BY <1>1, <2>1
<1>5. Ids(timers') = Ids(timers) /\ (Injective(timers) => Injective(timers'))
  BY <1>2, <1>3 DEF Ids, Injective
<1>6. TypeOK'
  <2>1. lag' \in 0 .. MaxLag
    BY ConstantsAssumption DEF IdInv, TypeOK
  <2> QED
    BY <1>4, <2>1 DEF IdInv, TypeOK
<1>7. MutexFree /\ MutexFree' /\ toRestart = <<>> /\ toRestart' = <<>> /\ pc' # "scan"
  BY DEF IdInv, MutexFree
<1>8. allocated' => Ids(timers)' = usedTimerIds' /\ Injective(timers)'
  BY <1>5 DEF IdInv, Ids, Injective
<1> QED
  BY <1>6, <1>7, <1>8 DEF IdInv

LEMMA IdInvThread ==
    ASSUME IdInv, CheckStopped \/ StartEvaluation \/ EndScan \/ EndEvaluation
    PROVE  IdInv'
<1> USE DEF ThreadStep
<1>0. TypeOK'
  <2>1. CASE CheckStopped
    BY <2>1 DEF IdInv, TypeOK, CheckStopped
  <2>2. CASE StartEvaluation
    <3>1. aborted' \in BOOLEAN
      BY <2>2, Zenon DEF StartEvaluation
    <3>2. UNCHANGED <<timers, usedTimerIds, toRestart, lag, latestTimerId, allocated, initialized, stop, clearing>>
          /\ it' = 1 /\ pc' \in {"scan", "lock"}
      BY <2>2 DEF StartEvaluation
    <3> QED
      BY <3>1, <3>2 DEF IdInv, TypeOK
  <2>3. CASE EndScan
    BY <2>3 DEF IdInv, TypeOK, EndScan
  <2>4. CASE EndEvaluation
    BY <2>4, ConstantsAssumption DEF IdInv, TypeOK, EndEvaluation
  <2> QED
    BY <2>1, <2>2, <2>3, <2>4
<1>1. UNCHANGED <<timers, usedTimerIds, toRestart, allocated>>
  BY DEF CheckStopped, StartEvaluation, EndScan, EndEvaluation
<1>2. allocated' => Ids(timers)' = usedTimerIds' /\ Injective(timers)'
  BY <1>1 DEF IdInv, Ids, Injective
<1>3. CASE CheckStopped
  BY <1>0, <1>1, <1>2, <1>3 DEF IdInv, CheckStopped, MutexFree
<1>4. CASE StartEvaluation
  <2>1. toRestart = <<>> /\ timers \in Seq(Timer) /\ it' = 1 /\ Len(toRestart) = 0
    BY <1>4 DEF IdInv, StartEvaluation, MutexFree, TypeOK
  <2>2. pc' = "scan" => allocated'
    BY <1>1, <1>4 DEF StartEvaluation
  <2>3. pc' \in {"scan", "lock"}
    BY <1>4 DEF StartEvaluation
  <2> QED
    BY <1>0, <1>1, <1>2, <2>1, <2>2, <2>3 DEF IdInv, MutexFree
<1>5. CASE EndScan
  BY <1>0, <1>1, <1>2, <1>5 DEF IdInv, EndScan, MutexFree
<1>6. CASE EndEvaluation
  BY <1>0, <1>1, <1>2, <1>6 DEF IdInv, EndEvaluation, MutexFree
<1> QED
  BY <1>3, <1>4, <1>5, <1>6

LEMMA IdInvLifeCycle ==
    ASSUME IdInv, SOPC_EventTimer_Initialize \/ SOPC_EventTimer_Clear \/ AbortOnNullList
    PROVE  IdInv'
<1> USE DEF thread
<1>1. CASE SOPC_EventTimer_Initialize
  <2>1. TypeOK'
    <3>1. 0 \in 0 .. MaxLag
      BY ConstantsAssumption
    <3>2. timers' \in Seq(Timer) /\ toRestart' \in Seq(TimerIds) /\ usedTimerIds' \subseteq TimerIds
      BY <1>1, EmptyLists DEF SOPC_EventTimer_Initialize
    <3> QED
      BY <1>1, <3>1, <3>2, Zenon DEF IdInv, TypeOK, SOPC_EventTimer_Initialize
  <2>2. timers' = <<>> /\ toRestart' = <<>> /\ usedTimerIds' = {} /\ pc' = "check"
    BY <1>1 DEF SOPC_EventTimer_Initialize
  <2> QED
    BY <2>1, <2>2 DEF IdInv, MutexFree, Ids, Injective
<1>2. CASE ClearStop \/ ClearJoin \/ AbortOnNullList
  <2>1. TypeOK'
    BY <1>2, Zenon DEF IdInv, TypeOK, ClearStop, ClearJoin, AbortOnNullList
  <2>2. UNCHANGED <<timers, usedTimerIds, toRestart, allocated, pc, it>>
    BY <1>2 DEF ClearStop, ClearJoin, AbortOnNullList
  <2> QED
    BY <2>1, <2>2, IdInvUntouched
<1>3. CASE ClearFree
  <2>1. TypeOK'
    BY <1>3, EmptyLists, Zenon DEF IdInv, TypeOK, ClearFree
  <2>2. toRestart' = <<>> /\ allocated' = FALSE /\ MutexFree' /\ pc' # "scan"
    BY <1>3 DEF ClearFree, MutexFree
  <2> QED
    BY <2>1, <2>2 DEF IdInv
<1> QED
  BY <1>1, <1>2, <1>3 DEF SOPC_EventTimer_Clear

LEMMA IdInvInit == Init => IdInv
<1> SUFFICES ASSUME Init
             PROVE  IdInv
  OBVIOUS
<1>1. TypeOK
  <2>1. 0 \in 0 .. MaxLag /\ 0 \in 0 .. MaxTimers
    BY ConstantsAssumption
  <2>2. timers \in Seq(Timer) /\ toRestart \in Seq(TimerIds)
    BY EmptyLists DEF Init
  <2>3. /\ allocated \in BOOLEAN /\ initialized \in BOOLEAN /\ stop \in BOOLEAN
        /\ aborted \in BOOLEAN /\ usedTimerIds \subseteq TimerIds
    BY Zenon DEF Init
  <2>4. /\ latestTimerId = 0 /\ lag = 0 /\ it \in Nat \ {0}
        /\ pc \in {"check", "lock", "scan", "restart", "ended"}
        /\ clearing \in {"no", "stopped", "freed"}
    BY DEF Init
  <2> QED
    BY <2>1, <2>2, <2>3, <2>4, Zenon DEF TypeOK
<1> QED
  BY <1>1 DEF Init, IdInv, MutexFree

LEMMA IdInvNext == IdInv /\ [Next]_vars => IdInv'
<1> SUFFICES ASSUME IdInv, [Next]_vars
             PROVE  IdInv'
  OBVIOUS
<1>1. CASE SOPC_EventTimer_Create
  <2>1. PICK d \in Delays : SOPC_InternalEventTimer_Create(d, 0)
    BY <1>1 DEF SOPC_EventTimer_Create
  <2>2. d \in Nat /\ 0 \in {0} \cup Periods
    BY ConstantsAssumption
  <2> QED
    BY <2>1, <2>2, IdInvCreate
<1>2. CASE SOPC_EventTimer_CreatePeriodic
  <2>1. PICK p \in Periods : SOPC_InternalEventTimer_Create(p, p)
    BY <1>2 DEF SOPC_EventTimer_CreatePeriodic
  <2>2. p \in Nat /\ p \in {0} \cup Periods
    BY ConstantsAssumption
  <2> QED
    BY <2>1, <2>2, IdInvCreate
<1>3. CASE SOPC_Internal_ThreadLoop
  BY <1>3, IdInvThread, IdInvTriggerPeriodic, IdInvTriggerOneShot, IdInvRestart
     DEF SOPC_Internal_ThreadLoop
<1>4. CASE UNCHANGED vars
  BY <1>4, IdInvUntouched DEF vars, IdInv, TypeOK
<1> QED
  BY <1>1, <1>2, <1>3, <1>4, IdInvModify, IdInvCancel, IdInvTick, IdInvLifeCycle
     DEF Next

\* Every reachable state is well typed.
THEOREM TypeCorrect == Spec => []TypeOK
<1>1. IdInv => TypeOK
  BY DEF IdInv
<1> QED
  BY <1>1, IdInvInit, IdInvNext, PTL DEF Spec

\* The ids marked in usedTimerIds are those of the timers of the list,
\* without duplicates, in every reachable state, and the assert of
\* RestartPeriodicTimer never fails.
THEOREM UsedIdsCorrect == Spec => []UsedIdsMatchList
<1>1. IdInv => UsedIdsMatchList
  BY DEF IdInv, UsedIdsMatchList, Injective
<1> QED
  BY <1>1, IdInvInit, IdInvNext, PTL DEF Spec

-----------------------------------------------------------------------------
(* The order of the list                                                   *)

\* TimersSorted made inductive, when the program keeps at most one periodic
\* timer: the timers waiting for their restart are at the head of the list (at
\* most one, then) and the rest of the list is sorted at every step of an
\* evaluation.
OrderInv ==
    /\ \A i, j \in DOMAIN timers :
          timers[i].period # 0 /\ timers[j].period # 0 => i = j
    /\ Len(toRestart) <= Len(timers)
    /\ \A k \in DOMAIN toRestart :
          timers[k].id = toRestart[k] /\ timers[k].period # 0
    /\ \A i, j \in DOMAIN timers :
          Len(toRestart) < i /\ i < j => timers[i].due <= timers[j].due

\* When no timer waits for its restart, OrderInv only speaks of the list.
LEMMA OrderInvNoRestart ==
    ASSUME timers \in Seq(Timer), toRestart = <<>>
    PROVE  OrderInv <=>
              /\ \A i, j \in DOMAIN timers :
                    timers[i].period # 0 /\ timers[j].period # 0 => i = j
              /\ Sorted(timers)
<1>1. Len(toRestart) = 0 /\ DOMAIN toRestart = {} /\ Len(timers) \in Nat
  BY TimerFields
<1>2. \A i \in DOMAIN timers : 0 < i
  BY TimerFields
<1> QED
  BY <1>1, <1>2 DEF OrderInv, Sorted

\* The same after the step.
LEMMA OrderInvNoRestartPrime ==
    ASSUME timers' \in Seq(Timer), toRestart' = <<>>,
           \A i, j \in DOMAIN timers' :
              timers'[i].period # 0 /\ timers'[j].period # 0 => i = j,
           Sorted(timers')
    PROVE  OrderInv'
<1>1. Len(toRestart') = 0 /\ DOMAIN toRestart' = {} /\ Len(timers') \in Nat
  BY TimerFields
<1> QED
  BY <1>1 DEF OrderInv, Sorted

\* At most one periodic timer, said of the records instead of the positions.
LEMMA OnePeriodicRecord ==
    ASSUME NEW list, NEW new, Injective(new),
           \A i \in DOMAIN new : \E j \in DOMAIN list : new[i] = list[j],
           \A i, j \in DOMAIN list : list[i].period # 0 /\ list[j].period # 0 => i = j
    PROVE  \A i, j \in DOMAIN new : new[i].period # 0 /\ new[j].period # 0 => i = j
BY DEF Injective

LEMMA OrderInvCreate ==
    ASSUME IdInv, OrderInv, IdInv', NEW d \in Nat, NEW per \in {0} \cup Periods,
           SOPC_InternalEventTimer_Create(d, per),
           per = 0 \/ \A i \in DOMAIN timers : timers[i].period = 0
    PROVE  OrderInv'
<1> USE DEF SOPC_InternalEventTimer_Create, ApiCall, thread
<1> DEFINE id == SOPC_Internal_GetFreshTimerId
<1>0. /\ timers \in Seq(Timer) /\ timers' \in Seq(Timer) /\ Injective(timers')
      /\ toRestart = <<>> /\ toRestart' = <<>> /\ latestTimerId \in 0 .. MaxTimers
  BY DEF IdInv, TypeOK, MutexFree, Injective
<1>1. /\ Sorted(timers)
      /\ \A i, j \in DOMAIN timers :
            timers[i].period # 0 /\ timers[j].period # 0 => i = j
  BY <1>0, OrderInvNoRestart
<1>2. CASE id = 0
  <2>1. timers' = timers
    BY <1>2
  <2> QED
    BY <1>0, <1>1, <2>1, OrderInvNoRestartPrime
<1>3. CASE id # 0
  <2>1. PICK late \in 0 .. Slack :
           timers' = SOPC_SLinkedList_SortedInsert(timers,
                        [id |-> id, due |-> d - late, period |-> per])
    BY <1>3
  <2> DEFINE t == [id |-> id, due |-> d - late, period |-> per]
  <2>2. t \in Timer /\ t.period = per
    <3>1. id \in TimerIds
      BY <1>0, <1>3, FreshIdFacts
    <3>2. d - late \in Int
      BY ConstantsAssumption
    <3> QED
      BY <3>1, <3>2 DEF Timer
  <2>3. timers' = SOPC_SLinkedList_SortedInsert(timers, t)
    BY <2>1
  <2> HIDE DEF t, id
  <2>4. /\ Sorted(timers) => Sorted(timers')
        /\ \A i \in DOMAIN timers' :
              timers'[i] = t \/ \E j \in DOMAIN timers : timers'[i] = timers[j]
    <3>1. Inserted(timers, t, timers')
      BY <1>0, <2>2, <2>3, SortedInsertFacts
    <3> QED
      BY <3>1 DEF Inserted
  <2>5. \A i, j \in DOMAIN timers' :
           timers'[i].period # 0 /\ timers'[j].period # 0 => i = j
    <3>1. CASE per = 0
      BY <1>0, <1>1, <2>2, <2>4, <3>1 DEF Injective
    <3>2. CASE \A i \in DOMAIN timers : timers[i].period = 0
      BY <1>0, <2>4, <3>2 DEF Injective
    <3> QED
      BY <3>1, <3>2
  <2> QED
    BY <1>0, <1>1, <2>4, <2>5, OrderInvNoRestartPrime
<1> QED
  BY <1>2, <1>3

LEMMA OrderInvCancel ==
    ASSUME IdInv, OrderInv, IdInv', SOPC_EventTimer_Cancel
    PROVE  OrderInv'
<1> USE DEF SOPC_EventTimer_Cancel, ApiCall, thread
<1>0. /\ timers \in Seq(Timer) /\ timers' \in Seq(Timer)
      /\ Injective(timers) /\ Injective(timers')
      /\ toRestart = <<>> /\ toRestart' = <<>> /\ Ids(timers) = usedTimerIds
      /\ DOMAIN timers = 1 .. Len(timers) /\ Len(timers) \in Nat
      /\ DOMAIN timers' = 1 .. Len(timers')
  BY TimerFields DEF IdInv, TypeOK, MutexFree, Injective
<1>1. /\ Sorted(timers)
      /\ \A i, j \in DOMAIN timers :
            timers[i].period # 0 /\ timers[j].period # 0 => i = j
  BY <1>0, OrderInvNoRestart
<1>2. PICK id \in usedTimerIds : timers' = SOPC_SLinkedList_RemoveFromId(timers, id)
  OBVIOUS
<1>3. PICK p \in DOMAIN timers : timers[p].id = id
  BY <1>0 DEF Ids
<1>4. /\ Len(timers') = Len(timers) - 1
      /\ \A i \in 1 .. Len(timers) - 1 :
            timers'[i] = IF i < p THEN timers[i] ELSE timers[i + 1]
  <2>1. timers' = SOPC_SLinkedList_RemoveFromId(timers, timers[p].id)
    BY <1>2, <1>3
  <2>2. Removed(timers, p, timers')
    BY <1>0, <2>1, RemoveFromIdFacts
  <2> QED
    BY <2>2 DEF Removed
<1> DEFINE src(i) == IF i < p THEN i ELSE i + 1
<1>5. \A i \in DOMAIN timers' : src(i) \in DOMAIN timers /\ timers'[i] = timers[src(i)]
  <2> TAKE i \in DOMAIN timers'
  <2>1. i \in 1 .. Len(timers) - 1 /\ p \in 1 .. Len(timers)
    BY <1>0, <1>4
  <2>2. src(i) \in 1 .. Len(timers)
    BY <1>0, <2>1
  <2> QED
    BY <1>0, <1>4, <2>1, <2>2
<1>6. \A i, j \in DOMAIN timers' : i < j => src(i) < src(j)
  BY <1>0, <1>4
<1> HIDE DEF src
<1>7. Sorted(timers')
  BY <1>1, <1>5, <1>6 DEF Sorted
<1>8. \A i, j \in DOMAIN timers' :
         timers'[i].period # 0 /\ timers'[j].period # 0 => i = j
  BY <1>0, <1>1, <1>5, OnePeriodicRecord, Zenon
<1> QED
  BY <1>0, <1>7, <1>8, OrderInvNoRestartPrime

LEMMA OrderInvModify ==
    ASSUME IdInv, OrderInv, IdInv', SOPC_EventTimer_ModifyPeriodic
    PROVE  OrderInv'
<1>1. PICK i \in DOMAIN timers, p \in Periods :
         timers[i].period # 0 /\ timers' = [timers EXCEPT ![i].period = p]
  BY Zenon DEF SOPC_EventTimer_ModifyPeriodic
<1>2. /\ timers \in Seq(Timer) /\ timers' \in Seq(Timer) /\ toRestart = <<>> /\ toRestart' = <<>>
      /\ i \in 1 .. Len(timers) /\ timers[i] \in Timer
  BY TimerFields
     DEF IdInv, TypeOK, MutexFree, SOPC_EventTimer_ModifyPeriodic, ApiCall, thread
<1>3. /\ Sorted(timers)
      /\ \A k, l \in DOMAIN timers :
            timers[k].period # 0 /\ timers[l].period # 0 => k = l
  BY <1>2, OrderInvNoRestart
<1>4. [timers[i] EXCEPT !.period = p].due = timers[i].due
  BY <1>2 DEF Timer
<1>5. /\ DOMAIN timers' = DOMAIN timers
      /\ \A j \in DOMAIN timers : /\ timers'[j].due = timers[j].due
                                  /\ j # i => timers'[j].period = timers[j].period
  BY <1>1, <1>2, <1>4
<1>6. Sorted(timers')
  BY <1>3, <1>5 DEF Sorted
<1>7. \A k, l \in DOMAIN timers' :
         timers'[k].period # 0 /\ timers'[l].period # 0 => k = l
  BY <1>1, <1>3, <1>5
<1> QED
  BY <1>2, <1>6, <1>7, OrderInvNoRestartPrime

LEMMA OrderInvTick ==
    ASSUME IdInv, OrderInv, IdInv', Tick
    PROVE  OrderInv'
<1>1. /\ timers \in Seq(Timer) /\ timers' \in Seq(Timer) /\ toRestart = <<>> /\ toRestart' = <<>>
      /\ \A i \in DOMAIN timers :
            timers[i] \in Timer /\ timers[i].due \in Int /\ timers[i].due - 1 \in Int
  BY TimerFields DEF IdInv, TypeOK, MutexFree, Tick, thread
<1>2. /\ Sorted(timers)
      /\ \A k, l \in DOMAIN timers :
            timers[k].period # 0 /\ timers[l].period # 0 => k = l
  BY <1>1, OrderInvNoRestart
<1>3. /\ DOMAIN timers' = DOMAIN timers
      /\ \A i \in DOMAIN timers : timers'[i] = [timers[i] EXCEPT !.due = timers[i].due - 1]
  BY DEF Tick
<1>4. \A i \in DOMAIN timers : /\ timers'[i].due = timers[i].due - 1
                               /\ timers'[i].period = timers[i].period
  <2> TAKE i \in DOMAIN timers
  <2>1. /\ [timers[i] EXCEPT !.due = timers[i].due - 1].due = timers[i].due - 1
        /\ [timers[i] EXCEPT !.due = timers[i].due - 1].period = timers[i].period
    BY <1>1, MovedTimer
  <2> QED
    BY <1>3, <2>1, Zenon
<1>5. Sorted(timers')
  <2> SUFFICES ASSUME NEW i \in DOMAIN timers, NEW j \in DOMAIN timers, i < j
               PROVE  timers'[i].due <= timers'[j].due
    BY <1>3 DEF Sorted
  <2>1. timers[i].due <= timers[j].due
    BY <1>2 DEF Sorted
  <2> QED
    BY <1>1, <1>4, <2>1
<1>6. \A k, l \in DOMAIN timers' :
         timers'[k].period # 0 /\ timers'[l].period # 0 => k = l
  BY <1>2, <1>3, <1>4
<1> QED
  BY <1>1, <1>5, <1>6, OrderInvNoRestartPrime

LEMMA OrderInvTriggerPeriodic ==
    ASSUME IdInv, OrderInv, IdInv', TriggerPeriodic
    PROVE  OrderInv'
<1>1. /\ timers \in Seq(Timer) /\ timers' \in Seq(Timer) /\ it \in 1 .. Len(timers)
      /\ DOMAIN timers = 1 .. Len(timers) /\ DOMAIN timers' = 1 .. Len(timers')
      /\ Len(timers) \in Nat /\ Len(timers') \in Nat
      /\ toRestart \in Seq(TimerIds) /\ Len(toRestart) = it - 1
      /\ timers[it].period # 0
  BY TimerFields DEF IdInv, TypeOK, TriggerPeriodic, Due
<1>2. it = 1
  <2> SUFFICES ASSUME it # 1
               PROVE  FALSE
    OBVIOUS
  <2>1. 1 \in DOMAIN toRestart /\ 1 \in DOMAIN timers /\ it \in DOMAIN timers
    BY <1>1
  <2>2. timers[1].period # 0
    BY <2>1 DEF OrderInv
  <2> QED
    BY <1>1, <2>1, <2>2 DEF OrderInv
<1>3. /\ Len(toRestart') = 1 /\ DOMAIN toRestart' = {1}
      /\ toRestart'[1] = timers'[1].id
  <2>1. it' = 2 /\ pc' = "scan"
    BY <1>2 DEF TriggerPeriodic
  <2>2. Len(toRestart') = 1 /\ toRestart'[1] = timers'[1].id /\ toRestart' \in Seq(TimerIds)
    BY <2>1 DEF IdInv, TypeOK
  <2> QED
    BY <2>2
<1> DEFINE x == timers[it].due + PeriodsElapsed(timers[it]) * timers[it].period
<1>4. timers' = [timers EXCEPT ![it].due = x]
  BY DEF TriggerPeriodic
<1> HIDE DEF x
<1>5. /\ DOMAIN timers' = DOMAIN timers
      /\ \A j \in DOMAIN timers : j # it => timers'[j] = timers[j]
      /\ timers'[it] = [timers[it] EXCEPT !.due = x]
  BY <1>1, <1>4
<1>6. timers'[it].period = timers[it].period
  <2>1. timers[it] \in Timer
    BY <1>1
  <2>2. [timers[it] EXCEPT !.due = x].period = timers[it].period
    BY <2>1 DEF Timer
  <2> QED
    BY <1>5, <2>2
<1>7. \A i, j \in DOMAIN timers' :
         timers'[i].period # 0 /\ timers'[j].period # 0 => i = j
  BY <1>1, <1>5, <1>6 DEF OrderInv
<1>8. \A i, j \in DOMAIN timers' : 1 < i /\ i < j => timers'[i].due <= timers'[j].due
  <2> SUFFICES ASSUME NEW i \in DOMAIN timers, NEW j \in DOMAIN timers, 1 < i, i < j
               PROVE  timers'[i].due <= timers'[j].due
    BY <1>5
  <2>1. timers'[i] = timers[i] /\ timers'[j] = timers[j] /\ Len(toRestart) < i
    BY <1>1, <1>2, <1>5
  <2> QED
    BY <2>1 DEF OrderInv
<1>9. Len(timers') >= 1 /\ timers'[1].period # 0
  BY <1>1, <1>2, <1>5, <1>6
<1> QED
  BY <1>1, <1>3, <1>7, <1>8, <1>9 DEF OrderInv

LEMMA OrderInvTriggerOneShot ==
    ASSUME IdInv, OrderInv, IdInv', TriggerOneShot
    PROVE  OrderInv'
<1>1. /\ timers \in Seq(Timer) /\ timers' \in Seq(Timer) /\ it \in 1 .. Len(timers)
      /\ DOMAIN timers = 1 .. Len(timers) /\ DOMAIN timers' = 1 .. Len(timers')
      /\ Len(timers) \in Nat /\ Injective(timers) /\ Injective(timers')
      /\ toRestart \in Seq(TimerIds) /\ Len(toRestart) = it - 1 /\ toRestart' = toRestart
      /\ DOMAIN toRestart = 1 .. it - 1
  BY TimerFields DEF IdInv, TypeOK, TriggerOneShot, Due, MutexFree, ThreadStep, Injective
<1>2. Removed(timers, it, timers')
  <2>1. timers' = SOPC_SLinkedList_RemoveFromId(timers, timers[it].id)
    BY DEF TriggerOneShot
  <2>2. it \in DOMAIN timers
    BY <1>1
  <2> QED
    BY <1>1, <2>1, <2>2, RemoveFromIdFacts
<1>3. /\ Len(timers') = Len(timers) - 1
      /\ \A i \in 1 .. Len(timers) - 1 :
            timers'[i] = IF i < it THEN timers[i] ELSE timers[i + 1]
  BY <1>2 DEF Removed
<1>4. \A i \in DOMAIN timers' : \E j \in DOMAIN timers : timers'[i] = timers[j]
  <2> TAKE i \in DOMAIN timers'
  <2>1. i \in 1 .. Len(timers) /\ i + 1 \in 1 .. Len(timers)
    BY <1>1, <1>3
  <2> QED
    BY <1>1, <1>3, <2>1
<1>5. \A i, j \in DOMAIN timers' :
         timers'[i].period # 0 /\ timers'[j].period # 0 => i = j
  BY <1>1, <1>4, OnePeriodicRecord, Zenon DEF OrderInv
<1>6. \A k \in DOMAIN toRestart' :
         timers'[k].id = toRestart'[k] /\ timers'[k].period # 0
  BY <1>1, <1>3 DEF OrderInv
<1>7. \A i, j \in DOMAIN timers' :
         it - 1 < i /\ i < j => timers'[i].due <= timers'[j].due
  <2> SUFFICES ASSUME NEW i \in DOMAIN timers', NEW j \in DOMAIN timers', it - 1 < i, i < j
               PROVE  timers'[i].due <= timers'[j].due
    OBVIOUS
  <2>1. /\ timers'[i] = timers[i + 1] /\ timers'[j] = timers[j + 1]
        /\ i + 1 \in DOMAIN timers /\ j + 1 \in DOMAIN timers
        /\ it - 1 < i + 1 /\ i + 1 < j + 1
    BY <1>1, <1>3
  <2> QED
    BY <1>1, <2>1 DEF OrderInv
<1>8. Len(toRestart') <= Len(timers') /\ Len(toRestart') = it - 1
  BY <1>1, <1>3
<1> QED
  BY <1>5, <1>6, <1>7, <1>8 DEF OrderInv

LEMMA OrderInvRestart ==
    ASSUME IdInv, OrderInv, IdInv', RestartPeriodicTimer
    PROVE  OrderInv'
<1>1. /\ timers \in Seq(Timer) /\ timers' \in Seq(Timer)
      /\ DOMAIN timers = 1 .. Len(timers) /\ Len(timers) \in Nat
      /\ Injective(timers) /\ Injective(timers')
      /\ toRestart \in Seq(TimerIds) /\ toRestart # <<>> /\ toRestart' = Tail(toRestart)
      /\ DOMAIN toRestart = 1 .. Len(toRestart) /\ Len(toRestart) \in Nat \ {0}
  BY TimerFields
     DEF IdInv, TypeOK, RestartPeriodicTimer, MutexFree, ThreadStep, Injective
<1>2. Len(toRestart) = 1
  <2> SUFFICES ASSUME Len(toRestart) # 1
               PROVE  FALSE
    OBVIOUS
  <2>1. 1 \in DOMAIN toRestart /\ 2 \in DOMAIN toRestart
    BY <1>1
  <2>2. 1 \in DOMAIN timers /\ 2 \in DOMAIN timers
    BY <1>1, <2>1 DEF OrderInv
  <2>3. timers[1].period # 0 /\ timers[2].period # 0
    BY <2>1 DEF OrderInv
  <2> QED
    BY <2>2, <2>3 DEF OrderInv
<1>3. 1 \in DOMAIN timers /\ timers[1].id = Head(toRestart) /\ toRestart' = <<>>
  <2>1. 1 \in DOMAIN toRestart /\ Head(toRestart) = toRestart[1]
    BY <1>1
  <2>2. 1 \in DOMAIN timers
    BY <1>1, <1>2 DEF OrderInv
  <2> QED
    BY <1>1, <1>2, <2>1, <2>2 DEF OrderInv
<1> DEFINE rest == SOPC_SLinkedList_RemoveFromId(timers, timers[1].id)
<1>4. timers' = SOPC_SLinkedList_SortedInsert(rest, timers[1])
  <2>1. PICK p \in DOMAIN timers :
           WithId(timers, Head(toRestart)) = {p}
    BY <1>1, RestartFindsTimer DEF RestartPeriodicTimer
  <2>2. p = 1 /\ First({p}) = 1
    BY <1>3, <2>1 DEF WithId, First
  <2>3. Head(toRestart) \in usedTimerIds
    BY <1>1, RestartFindsTimer DEF RestartPeriodicTimer
  <2> QED
    BY <1>3, <2>1, <2>2, <2>3, Zenon DEF RestartPeriodicTimer
<1>6. Removed(timers, 1, rest)
  BY <1>1, <1>3, RemoveFromIdFacts
<1> HIDE DEF rest
<1>5. rest \in Seq(Timer)
  BY <1>6 DEF Removed
<1>7. /\ DOMAIN rest = 1 .. Len(timers) - 1
      /\ \A i \in DOMAIN rest : rest[i] = timers[i + 1] /\ i + 1 \in DOMAIN timers /\ i \in Nat
      /\ \A i, j \in DOMAIN rest : i < j => i + 1 < j + 1
  BY <1>1, <1>5, <1>6 DEF Removed
<1>8. Sorted(rest)
  <2> SUFFICES ASSUME NEW i \in DOMAIN rest, NEW j \in DOMAIN rest, i < j
               PROVE  rest[i].due <= rest[j].due
    BY DEF Sorted
  <2>1. /\ rest[i] = timers[i + 1] /\ rest[j] = timers[j + 1]
        /\ i + 1 \in DOMAIN timers /\ j + 1 \in DOMAIN timers
        /\ Len(toRestart) < i + 1 /\ i + 1 < j + 1
    BY <1>2, <1>7
  <2> QED
    BY <2>1 DEF OrderInv
<1>9. Inserted(rest, timers[1], timers')
  <2>1. timers[1] \in Timer
    BY <1>1, <1>3
  <2> QED
    BY <1>4, <1>5, <2>1, SortedInsertFacts
<1>10. Sorted(timers')
  BY <1>8, <1>9 DEF Inserted
<1>11. \A i \in DOMAIN timers' : \E j \in DOMAIN timers : timers'[i] = timers[j]
  BY <1>3, <1>7, <1>9 DEF Inserted
<1>12. \A i, j \in DOMAIN timers' :
          timers'[i].period # 0 /\ timers'[j].period # 0 => i = j
  BY <1>1, <1>11, OnePeriodicRecord, Zenon DEF OrderInv
<1> QED
  BY <1>1, <1>3, <1>10, <1>12, OrderInvNoRestartPrime

\* A step that leaves both lists alone keeps their order.
LEMMA OrderInvUntouched ==
    ASSUME OrderInv, UNCHANGED <<timers, toRestart>>
    PROVE  OrderInv'
BY DEF OrderInv

\* The lists are empty after Initialize and ClearFree.
LEMMA OrderInvEmpty ==
    ASSUME timers' = <<>>, toRestart' = <<>>
    PROVE  OrderInv'
<1>1. Len(timers') = 0 /\ Len(toRestart') = 0 /\ DOMAIN timers' = {} /\ DOMAIN toRestart' = {}
  OBVIOUS
<1> QED
  BY <1>1 DEF OrderInv

LEMMA OrderInvInit == Init => OrderInv
<1> SUFFICES ASSUME Init
             PROVE  OrderInv
  OBVIOUS
<1>1. /\ Len(timers) = 0 /\ Len(toRestart) = 0
      /\ DOMAIN timers = {} /\ DOMAIN toRestart = {}
  BY DEF Init
<1> QED
  BY <1>1 DEF OrderInv

LEMMA OrderInvNext ==
    ASSUME OnePeriodic
    PROVE  IdInv /\ OrderInv /\ [Next]_vars => OrderInv'
<1> SUFFICES ASSUME IdInv, OrderInv, [Next]_vars
             PROVE  OrderInv'
  OBVIOUS
<1>0. IdInv'
  BY IdInvNext
<1>1. CASE SOPC_EventTimer_Create
  <2>1. PICK d \in Delays : SOPC_InternalEventTimer_Create(d, 0)
    BY <1>1 DEF SOPC_EventTimer_Create
  <2>2. d \in Nat /\ 0 \in {0} \cup Periods
    BY ConstantsAssumption
  <2> QED
    BY <1>0, <2>1, <2>2, OrderInvCreate
<1>2. CASE SOPC_EventTimer_CreatePeriodic
  <2>1. PICK p \in Periods : SOPC_InternalEventTimer_Create(p, p)
    BY <1>2 DEF SOPC_EventTimer_CreatePeriodic
  <2>2. p \in Nat /\ p \in {0} \cup Periods
    BY ConstantsAssumption
  <2>3. \A i \in DOMAIN timers : timers[i].period = 0
    BY <1>2 DEF SOPC_EventTimer_CreatePeriodic
  <2> QED
    BY <1>0, <2>1, <2>2, <2>3, OrderInvCreate
<1>3. CASE SOPC_EventTimer_ModifyPeriodic
  BY <1>0, <1>3, OrderInvModify
<1>4. CASE SOPC_EventTimer_Cancel
  BY <1>0, <1>4, OrderInvCancel
<1>5. CASE TriggerPeriodic \/ TriggerOneShot \/ RestartPeriodicTimer
  BY <1>0, <1>5, OrderInvTriggerPeriodic, OrderInvTriggerOneShot, OrderInvRestart
<1>6. CASE Tick
  BY <1>0, <1>6, OrderInvTick
<1>7. CASE SOPC_EventTimer_Initialize \/ ClearFree
  BY <1>7, OrderInvEmpty DEF SOPC_EventTimer_Initialize, ClearFree
<1>8. CASE \/ CheckStopped \/ StartEvaluation \/ EndScan \/ EndEvaluation
           \/ ClearStop \/ ClearJoin \/ AbortOnNullList \/ UNCHANGED vars
  BY <1>8, OrderInvUntouched
     DEF CheckStopped, StartEvaluation, EndScan, EndEvaluation, ClearStop, ClearJoin,
         AbortOnNullList, vars, thread
<1> QED
  BY <1>1, <1>2, <1>3, <1>4, <1>5, <1>6, <1>7, <1>8
     DEF Next, SOPC_EventTimer_Clear, SOPC_Internal_ThreadLoop

\* With at most one periodic timer the list is sorted whenever SortedInsert is
\* called from outside an evaluation.
THEOREM SortedWithOnePeriodic == OnePeriodic /\ Spec => []TimersSorted
<1> SUFFICES ASSUME OnePeriodic
             PROVE  Spec => []TimersSorted
  OBVIOUS
<1>1. IdInv /\ OrderInv => TimersSorted
  <2> SUFFICES ASSUME IdInv, OrderInv, MutexFree
               PROVE  Sorted(timers)
    BY DEF TimersSorted, Sorted
  <2>1. timers \in Seq(Timer) /\ toRestart = <<>>
    BY DEF IdInv, TypeOK
  <2> QED
    BY <2>1, OrderInvNoRestart
<1> QED
  BY <1>1, IdInvInit, IdInvNext, OrderInvInit, OrderInvNext, PTL DEF Spec

\* With at most one periodic timer an evaluation triggers every timer that is due.
THEOREM DueTriggeredWithOnePeriodic == OnePeriodic /\ Spec => DueTimersTriggered
<1> SUFFICES ASSUME OnePeriodic
             PROVE  Spec => DueTimersTriggered
  OBVIOUS
<1>1. IdInv /\ OrderInv /\ [Next]_vars =>
         [pc = "scan" /\ pc' = "restart" =>
            \A i \in it .. Len(timers) : timers[i].due > 0]_vars
  <2> SUFFICES ASSUME IdInv, OrderInv, [Next]_vars, pc = "scan", pc' = "restart",
                      NEW i \in it .. Len(timers)
               PROVE  timers[i].due > 0
    OBVIOUS
  <2>1. ~Due
    BY DEF Next, vars, thread, EndScan, SOPC_EventTimer_Initialize, SOPC_EventTimer_Clear,
           ClearStop, ClearFree, ClearJoin, SOPC_EventTimer_Create,
           SOPC_EventTimer_CreatePeriodic, SOPC_InternalEventTimer_Create, ApiCall,
           SOPC_EventTimer_ModifyPeriodic, SOPC_EventTimer_Cancel, AbortOnNullList,
           SOPC_Internal_ThreadLoop, CheckStopped, StartEvaluation, TriggerPeriodic,
           TriggerOneShot, RestartPeriodicTimer, EndEvaluation, Tick
  <2>2. /\ timers \in Seq(Timer) /\ Len(timers) \in Nat /\ DOMAIN timers = 1 .. Len(timers)
        /\ it \in Nat \ {0} /\ Len(toRestart) = it - 1
        /\ \A j \in 1 .. Len(timers) : timers[j].due \in Int
    BY TimerFields DEF IdInv, TypeOK
  <2>3. it \in DOMAIN timers /\ i \in DOMAIN timers
    BY <2>2
  <2>4. timers[it].due > 0
    BY <2>1, <2>2, <2>3 DEF Due
  <2>5. i = it \/ timers[it].due <= timers[i].due
    BY <2>2, <2>3 DEF OrderInv
  <2> QED
    BY <2>2, <2>3, <2>4, <2>5
<1> QED
  BY <1>1, IdInvInit, IdInvNext, OrderInvInit, OrderInvNext, PTL DEF Spec, DueTimersTriggered
=============================================================================
