------------------------- MODULE ClientWrapperProofs -------------------------
(***************************************************************************)
(* Theorems on the client wrapper: three of the invariants TLC checks, for *)
(* every number of connections, session slots, tokens and events.          *)
(***************************************************************************)
EXTENDS ClientWrapper, WellFoundedInduction, TLAPS

MachineStates ==
    {"none", "stInit", "stActivating", "stActivated", "stCreatingSubscr", "stCreatingMonIt",
     "stDeletingSubscr", "stClosing", "stError"}

Machine ==
    [state : MachineStates, iSessionID : Int, subscription : BOOLEAN, nTokenUsable : Nat,
     bAckSubscr : BOOLEAN, requests : [RequestTypes -> Nat], item : BOOLEAN, inhibit : BOOLEAN,
     created : Nat]

Work == [m : Machine, close : BOOLEAN, sent : [RequestTypes -> Nat], aborted : BOOLEAN]

SessionEvents ==
    {"SE_ACTIVATED_SESSION", "SE_SESSION_ACTIVATION_FAILURE", "SE_SESSION_REACTIVATING",
     "SE_CLOSED_SESSION"}

AppEvent ==
    {e \in [ev : SessionEvents \cup {"response", "fault", "timeout", "failed"}, client : Clients,
            type : RequestTypes \cup {"none"}, good : BOOLEAN] :
        e.ev \in SessionEvents <=> e.type = "none"}

\* The states in which a call waits for an answer, and those of a subscription.
Transient == {"stActivating", "stCreatingSubscr", "stCreatingMonIt", "stDeletingSubscr"}
Working == {"stActivated", "stCreatingSubscr", "stCreatingMonIt", "stDeletingSubscr"}

\* What holds of a machine while it treats an event ...
MidInv(m) ==
    /\ m \in Machine
    /\ ~m.subscription => m.nTokenUsable = 0
    /\ m.state \in {"none", "stInit", "stActivating"} => ~m.subscription
    /\ m.subscription /\ m.state \in Working =>
          m.nTokenUsable <= m.requests["publish"] /\ m.nTokenUsable <= TokenTarget
    /\ m.state = "stCreatingSubscr" => ~m.subscription
    /\ m.state = "stDeletingSubscr" => m.subscription
    /\ m.state = "stCreatingMonIt" => ~m.item

\* ... and between two events, when the missing tokens were sent.
MachInv(m) ==
    /\ MidInv(m)
    /\ m.subscription /\ m.state = "stActivated" => m.nTokenUsable = TokenTarget

\* What an operation of the machine m may have made of it.
Kept(m, w) ==
    /\ w \in Work
    /\ w.m.inhibit = m.inhibit
    /\ w.m.state \in Transient => w.m.state = m.state
    /\ w.m.state = "none" => m.state = "none"
-----------------------------------------------------------------------------
LEMMA AtWork == ASSUME NEW m \in Machine PROVE At(m) \in Work /\ Kept(m, At(m)) /\ At(m).m = m /\ ~At(m).aborted
BY DEF At, Work, Kept, NoRequest

\* A state set by an operation.
LEMMA StateSet ==
    ASSUME NEW w \in Work, NEW s \in MachineStates
    PROVE  LET v == [w EXCEPT !.m.state = s]
           IN  v \in Work /\ v.m = [w.m EXCEPT !.state = s] /\ v.aborted = w.aborted
BY DEF Work, Machine

LEMMA SendFields ==
    ASSUME NEW w \in Work, NEW t \in RequestTypes, NEW n \in Nat
    PROVE  LET v == SOPC_StaMac_SendRequest(w, t, n)
           IN  /\ v \in Work /\ v.aborted = w.aborted
               /\ v.m = [w.m EXCEPT !.requests[t] = w.m.requests[t] + n]
<1> DEFINE R == [w.m.requests EXCEPT ![t] = w.m.requests[t] + n]
           S == [w.sent EXCEPT ![t] = w.sent[t] + n]
           M == [w.m EXCEPT !.requests = R]
           v == SOPC_StaMac_SendRequest(w, t, n)
<1>1. R \in [RequestTypes -> Nat] /\ S \in [RequestTypes -> Nat]
  BY DEF Work, Machine
<1>2. v = [w EXCEPT !.m = M, !.sent = S]
  BY DEF SOPC_StaMac_SendRequest, Work
<1>3. M = [w.m EXCEPT !.requests[t] = w.m.requests[t] + n]
  BY Zenon
<1> HIDE DEF R, S, v
<1>4. M \in Machine
  BY <1>1 DEF Work, Machine
<1> HIDE DEF M
<1>5. v \in Work /\ v.aborted = w.aborted /\ v.m = M
  BY <1>1, <1>2, <1>4 DEF Work
<1> QED
  BY <1>3, <1>5, Zenon DEF v

LEMMA StopFields ==
    ASSUME NEW w \in Work
    PROVE  LET v == SOPC_StaMac_StopSession(w)
           IN  v \in Work /\ v.m = [w.m EXCEPT !.state = "stClosing"] /\ v.aborted = w.aborted
BY DEF Work, Machine, MachineStates, SOPC_StaMac_StopSession

LEMMA LessFields ==
    ASSUME NEW w \in Work
    PROVE  LET v == [w EXCEPT !.m = LessOneToken(w.m)]
           IN  /\ v \in Work /\ v.aborted = w.aborted
               /\ v.m = [w.m EXCEPT !.nTokenUsable = IF w.m.nTokenUsable > 0 THEN w.m.nTokenUsable - 1 ELSE 0]
BY DEF Work, Machine, LessOneToken

LEMMA PostProcessKeeps ==
    ASSUME NEW m \in Machine, NEW w, Kept(m, w), MidInv(w.m)
    PROVE  LET v == StaMac_PostProcessActions(w, m.state)
           IN  Kept(m, v) /\ MachInv(v.m) /\ v.aborted = w.aborted
<1> DEFINE missing == TokenTarget - w.m.nTokenUsable
           before == [w EXCEPT !.m.state = m.state]
           v == StaMac_PostProcessActions(w, m.state)
<1>0. w \in Work /\ w.m \in Machine
  BY DEF Kept, Work
<1>1. CASE w.m.state = "stActivated" /\ w.m.subscription /\ missing > 0
  <2> DEFINE u == SOPC_StaMac_SendRequest(w, "publish", missing)
  <2>1. missing \in Nat
    BY <1>0, <1>1, ClientWrapperAssumption DEF Machine
  <2>2. u \in Work /\ u.aborted = w.aborted
        /\ u.m = [w.m EXCEPT !.requests["publish"] = w.m.requests["publish"] + missing]
    BY <1>0, <2>1, SendFields DEF RequestTypes
  <2>3. v = [u EXCEPT !.m.nTokenUsable = TokenTarget, !.m.bAckSubscr = FALSE]
    BY <1>1 DEF StaMac_PostProcessActions
  <2> HIDE DEF u, v, missing
  <2>4. v \in Work /\ v.aborted = w.aborted
        /\ v.m = [u.m EXCEPT !.nTokenUsable = TokenTarget, !.bAckSubscr = FALSE]
    BY <2>2, <2>3, ClientWrapperAssumption DEF Work, Machine
  <2>5. v.m.requests["publish"] = w.m.requests["publish"] + missing
    BY <1>0, <2>2, <2>4 DEF Machine, RequestTypes
  <2>6. v.m.nTokenUsable = TokenTarget /\ v.m.subscription /\ v.m.state = "stActivated"
        /\ v.m.inhibit = w.m.inhibit
    BY <1>0, <1>1, <2>2, <2>4 DEF Machine
  <2>7. TokenTarget <= w.m.requests["publish"] + missing
    BY <1>0, <1>1, <2>1, ClientWrapperAssumption DEF Machine, RequestTypes, missing, MidInv, Working
  <2>8. v.m \in Machine
    BY <2>4 DEF Work
  <2> QED
    BY <2>4, <2>5, <2>6, <2>7, <2>8, ClientWrapperAssumption
       DEF Kept, MachInv, MidInv, Transient, Working, v
<1>2. CASE /\ ~(w.m.state = "stActivated" /\ w.m.subscription /\ missing > 0)
           /\ SOPC_StaMac_IsError(w.m) /\ m.state \notin {"stError", "stClosing"}
           /\ SOPC_StaMac_IsConnected(before.m)
  <2>1. before \in Work /\ before.m = [w.m EXCEPT !.state = m.state] /\ before.aborted = w.aborted
    BY <1>0, StateSet DEF Machine
  <2>2. v = SOPC_StaMac_StopSession(before)
    BY <1>2 DEF StaMac_PostProcessActions
  <2>3. v \in Work /\ v.m = [before.m EXCEPT !.state = "stClosing"] /\ v.aborted = w.aborted
    BY <2>1, <2>2, StopFields
  <2> HIDE DEF v, before
  <2>4. v.m = [w.m EXCEPT !.state = "stClosing"]
    BY <1>0, <2>1, <2>3 DEF Machine
  <2>5. v.m \in Machine /\ v.m.state = "stClosing" /\ v.m.inhibit = w.m.inhibit
        /\ v.m.subscription = w.m.subscription /\ v.m.nTokenUsable = w.m.nTokenUsable
    BY <1>0, <2>3, <2>4 DEF Machine, Work
  <2> QED
    BY <2>3, <2>5 DEF Kept, MachInv, MidInv, Transient, Working, v
<1>3. CASE /\ ~(w.m.state = "stActivated" /\ w.m.subscription /\ missing > 0)
           /\ ~(/\ SOPC_StaMac_IsError(w.m) /\ m.state \notin {"stError", "stClosing"}
                /\ SOPC_StaMac_IsConnected(before.m))
  <2>1. v = w
    BY <1>3 DEF StaMac_PostProcessActions
  <2>2. w.m.subscription /\ w.m.state = "stActivated" => w.m.nTokenUsable = TokenTarget
    BY <1>0, <1>3, ClientWrapperAssumption DEF MidInv, Working, Machine
  <2> QED
    BY <2>1, <2>2 DEF MachInv
<1> QED
  BY <1>1, <1>2, <1>3

\* The machine once the context of the request left its list.
Reduced(m, e) == IF e.type = "none" THEN m ELSE [m EXCEPT !.requests[e.type] = @ - 1]

LEMMA ReducedFields ==
    ASSUME NEW m \in Machine, NEW e \in AppEvent, Targeted(m, e)
    PROVE  /\ Reduced(m, e) \in Machine
           /\ \E R \in [RequestTypes -> Nat] :
                 /\ Reduced(m, e) = [m EXCEPT !.requests = R]
                 /\ e.type # "publish" => R["publish"] = m.requests["publish"]
                 /\ e.type = "publish" => R["publish"] = m.requests["publish"] - 1
                                          /\ m.requests["publish"] > 0
<1>1. CASE e.type = "none"
  <2>1. Reduced(m, e) = m /\ m = [m EXCEPT !.requests = m.requests]
    BY <1>1 DEF Reduced, Machine
  <2>2. m.requests \in [RequestTypes -> Nat]
    BY DEF Machine
  <2> QED
    BY <1>1, <2>1, <2>2
<1>2. CASE e.type # "none"
  <2> DEFINE R == [m.requests EXCEPT ![e.type] = m.requests[e.type] - 1]
  <2>1. e.type \in RequestTypes /\ m.requests[e.type] > 0 /\ m.requests \in [RequestTypes -> Nat]
    BY <1>2 DEF AppEvent, Targeted, Machine
  <2>2. R \in [RequestTypes -> Nat]
    BY <2>1
  <2>3. Reduced(m, e) = [m EXCEPT !.requests = R]
    BY <1>2 DEF Reduced, Machine
  <2>4. R["publish"] = IF e.type = "publish" THEN m.requests["publish"] - 1 ELSE m.requests["publish"]
    BY <2>1 DEF RequestTypes
  <2> HIDE DEF R
  <2>5. Reduced(m, e) \in Machine
    BY <2>2, <2>3 DEF Machine
  <2> QED
    BY <2>1, <2>2, <2>3, <2>4, <2>5
<1> QED
  BY <1>1, <1>2

\* What an event makes of the machine, before the actions that follow it.
Done(m, e, type) ==
    LET w == At(Reduced(m, e))
    IN  IF e.type = "user"
        THEN IF e.ev \in {"timeout", "failed"} THEN [w EXCEPT !.m.state = "stClosing"] ELSE w
        ELSE IF GiveAuthorization(m, e) THEN ProcessEvent(w, e, type)
        ELSE [w EXCEPT !.m.state = "stError"]

LEMMA DispatcherIs ==
    ASSUME NEW m, NEW e, NEW type
    PROVE  SOPC_StaMac_EventDispatcher(m, e, type) =
              IF Done(m, e, type).aborted THEN Done(m, e, type)
              ELSE StaMac_PostProcessActions(Done(m, e, type), m.state)
<1>1. (IF e.type = "none" THEN At(m) ELSE At([m EXCEPT !.requests[e.type] = @ - 1])) = At(Reduced(m, e))
  BY Zenon DEF Reduced
<1> QED
  BY <1>1, Zenon DEF Done, SOPC_StaMac_EventDispatcher

LEMMA DoneKeeps ==
    ASSUME NEW m, MachInv(m), NEW e \in AppEvent, NEW type, Targeted(m, e),
           session[e.client].slot \in Int
    PROVE  /\ Kept(m, Done(m, e, type))
           /\ ~Done(m, e, type).aborted => MidInv(Done(m, e, type).m)
<1> DEFINE u == At(Reduced(m, e))
           d == Done(m, e, type)
<1>0. m \in Machine /\ m.state # "none" /\ MidInv(m)
  BY DEF MachInv, MidInv, Targeted
<1>1. PICK R \in [RequestTypes -> Nat] :
         /\ Reduced(m, e) = [m EXCEPT !.requests = R]
         /\ e.type # "publish" => R["publish"] = m.requests["publish"]
         /\ e.type = "publish" => R["publish"] = m.requests["publish"] - 1 /\ m.requests["publish"] > 0
  BY <1>0, ReducedFields
<1>2. u \in Work /\ u.m = [m EXCEPT !.requests = R] /\ ~u.aborted
  BY <1>0, <1>1, ReducedFields, AtWork
<1>3. /\ u.m \in Machine /\ u.m.state = m.state /\ u.m.subscription = m.subscription
      /\ u.m.nTokenUsable = m.nTokenUsable /\ u.m.inhibit = m.inhibit /\ u.m.requests = R
      /\ u.m.bAckSubscr = m.bAckSubscr /\ u.m.item = m.item
  BY <1>0, <1>2 DEF Machine, Work
<1>4. R["publish"] \in Nat /\ m.nTokenUsable \in Nat /\ m.requests["publish"] \in Nat /\ m.state \in MachineStates
  BY <1>0 DEF RequestTypes, Machine
<1>5. ASSUME NEW s \in {"stClosing", "stError"}, d = [u EXCEPT !.m.state = s]
      PROVE  Kept(m, d) /\ MidInv(d.m)
  <2> HIDE DEF u, d
  <2>1. s \in MachineStates
    BY DEF MachineStates
  <2>2. d \in Work /\ d.m = [u.m EXCEPT !.state = s]
    BY <1>2, <1>5, <2>1, StateSet
  <2>3. d.m \in Machine /\ d.m.state = s /\ d.m.subscription = m.subscription
        /\ d.m.nTokenUsable = m.nTokenUsable /\ d.m.inhibit = m.inhibit
    BY <1>3, <2>1, <2>2 DEF Machine
  <2> QED
    BY <1>0, <2>2, <2>3 DEF Kept, MidInv, Transient, Working
<1>6. ASSUME d = [u EXCEPT !.m = LessOneToken(u.m)]
      PROVE  Kept(m, d) /\ MidInv(d.m)
  <2> HIDE DEF u, d
  <2> DEFINE n == IF m.nTokenUsable > 0 THEN m.nTokenUsable - 1 ELSE 0
  <2>0. n \in Nat /\ n <= m.nTokenUsable /\ (m.nTokenUsable > 0 => n = m.nTokenUsable - 1)
        /\ (m.nTokenUsable = 0 => n = 0)
    BY <1>4
  <2>1. d \in Work /\ d.m = [u.m EXCEPT !.nTokenUsable = n]
    BY <1>2, <1>3, <1>6, LessFields
  <2> HIDE DEF n
  <2>2. d.m \in Machine /\ d.m.state = m.state /\ d.m.subscription = m.subscription
        /\ d.m.nTokenUsable = n /\ d.m.inhibit = m.inhibit /\ d.m.requests["publish"] = R["publish"]
        /\ d.m.item = m.item
    BY <1>3, <2>0, <2>1 DEF Machine
  <2>3. m.subscription /\ m.state \in Working => n <= R["publish"] /\ n <= TokenTarget
    BY <1>0, <1>1, <1>4, <2>0, ClientWrapperAssumption DEF MidInv
  <2>4. ~m.subscription => n = 0
    BY <1>0, <2>0 DEF MidInv
  <2> QED
    BY <1>0, <2>1, <2>2, <2>3, <2>4 DEF Kept, MidInv
<1>7. ASSUME d = u, e.type # "publish" \/ ~m.subscription
      PROVE  Kept(m, d) /\ MidInv(d.m)
  <2> HIDE DEF u, d
  <2> QED
    BY <1>0, <1>1, <1>2, <1>3, <1>4, <1>7 DEF Kept, MidInv
<1>8. ASSUME d = [u EXCEPT !.aborted = TRUE]
      PROVE  Kept(m, d) /\ d.aborted
  <2> HIDE DEF u, d
  <2>1. d \in Work /\ d.m = u.m /\ d.aborted
    BY <1>2, <1>8 DEF Work
  <2> QED
    BY <1>3, <2>1 DEF Kept
<1>9. CASE e.type = "user"
  <2>1. d = [u EXCEPT !.m.state = "stClosing"] \/ d = u
    BY <1>9, Zenon DEF Done
  <2> QED
    BY <1>5, <1>7, <1>9, <2>1
<1>10. CASE e.type # "user" /\ ~GiveAuthorization(m, e)
  <2>1. d = [u EXCEPT !.m.state = "stError"]
    BY <1>10, Zenon DEF Done
  <2> QED
    BY <1>5, <2>1
<1>11. CASE e.type # "user" /\ GiveAuthorization(m, e)
  <2>1. d = ProcessEvent(u, e, type)
    BY <1>11, Zenon DEF Done
  <2>2. CASE e.ev = "SE_ACTIVATED_SESSION"
    <3>1. d = [u EXCEPT !.m.state = "stActivated", !.m.iSessionID = session[e.client].slot]
      BY <2>1, <2>2 DEF ProcessEvent
    <3>2. m.state = "stActivating" /\ e.type = "none" /\ ~m.subscription
      BY <1>0, <1>11, <2>2 DEF GiveAuthorization, AppEvent, SessionEvents, MidInv
    <3> HIDE DEF u, d
    <3>3. d \in Work /\ d.m = [u.m EXCEPT !.state = "stActivated", !.iSessionID = session[e.client].slot]
      BY <1>2, <1>3, <3>1 DEF Work, Machine, MachineStates
    <3>4. d.m.state = "stActivated" /\ d.m.subscription = m.subscription /\ d.m.inhibit = m.inhibit
          /\ d.m.nTokenUsable = m.nTokenUsable /\ d.m \in Machine
      BY <1>2, <1>3, <3>3 DEF Work, Machine
    <3> QED
      BY <1>0, <3>2, <3>3, <3>4 DEF Kept, MidInv, Transient, d
  <2>3. CASE e.ev = "SE_CLOSED_SESSION"
    <3>1. d = [u EXCEPT !.m.state = "stError"]
      BY <2>1, <2>3 DEF ProcessEvent
    <3> QED
      BY <1>5, <3>1
  <2>4. CASE e.ev = "response" /\ e.type = "publish"
    <3>1. d = StaMac_ProcessMsg_PublishResponse(u, e.good) /\ e.good \in BOOLEAN
      BY <2>1, <2>4 DEF ProcessEvent, AppEvent
    <3>2. CASE ~m.subscription
      <4>1. d = u
        BY <1>3, <3>1, <3>2 DEF StaMac_ProcessMsg_PublishResponse
      <4> QED
        BY <1>7, <3>2, <4>1
    <3>3. CASE m.subscription /\ m.bAckSubscr
      <4>1. d = [u EXCEPT !.aborted = TRUE]
        BY <1>3, <3>1, <3>3 DEF StaMac_ProcessMsg_PublishResponse
      <4> QED
        BY <1>8, <4>1
    <3>4. CASE m.subscription /\ ~m.bAckSubscr
      <4> DEFINE n == IF m.nTokenUsable > 0 THEN m.nTokenUsable - 1 ELSE 0
      <4>1. d = [u EXCEPT !.m = [LessOneToken(u.m) EXCEPT !.bAckSubscr = e.good]]
        BY <1>3, <3>1, <3>4 DEF StaMac_ProcessMsg_PublishResponse
      <4>2. m.state \in Working => n <= TokenTarget
        BY <1>0, <1>4, <3>4, ClientWrapperAssumption DEF MidInv
      <4>3. n \in Nat /\ (m.state \in Working => n <= R["publish"])
        BY <1>0, <1>1, <1>4, <2>4, <3>4, ClientWrapperAssumption DEF MidInv
      <4> HIDE DEF u, d
      <4>4. LessOneToken(u.m) = [u.m EXCEPT !.nTokenUsable = n]
        BY <1>3 DEF LessOneToken
      <4> HIDE DEF n
      <4> DEFINE M == [u.m EXCEPT !.nTokenUsable = n, !.bAckSubscr = e.good]
      <4>5. d = [u EXCEPT !.m = M]
        BY <4>1, <4>4, Zenon
      <4>6. M \in Machine
        BY <1>3, <3>1, <4>3 DEF Machine
      <4> HIDE DEF M
      <4>7. d \in Work /\ d.m = M
        BY <1>2, <4>5, <4>6 DEF Work
      <4>8. d \in Work /\ d.m = [u.m EXCEPT !.nTokenUsable = n, !.bAckSubscr = e.good]
        BY <4>7 DEF M
      <4>9. d.m.state = m.state /\ d.m.subscription = m.subscription /\ d.m.inhibit = m.inhibit
            /\ d.m.nTokenUsable = n /\ d.m \in Machine /\ d.m.requests = R /\ d.m.item = m.item
        BY <1>2, <1>3, <4>8 DEF Work, Machine
      <4> QED
        BY <1>0, <3>4, <4>2, <4>3, <4>8, <4>9 DEF Kept, MidInv, d
    <3> QED
      BY <1>0, <3>2, <3>3, <3>4 DEF Machine
  <2>5. CASE e.ev = "response" /\ e.type = "createSubscription"
    <3>1. d = StaMac_ProcessMsg_CreateSubscriptionResponse(u)
      BY <2>1, <2>5 DEF ProcessEvent
    <3>2. CASE m.subscription
      <4>1. d = [u EXCEPT !.aborted = TRUE]
        BY <1>3, <3>1, <3>2 DEF StaMac_ProcessMsg_CreateSubscriptionResponse
      <4> QED
        BY <1>8, <4>1
    <3>3. CASE ~m.subscription
      <4>1. d = [u EXCEPT !.m.subscription = TRUE, !.m.state = "stActivated"]
        BY <1>3, <3>1, <3>3 DEF StaMac_ProcessMsg_CreateSubscriptionResponse
      <4> HIDE DEF u, d
      <4>2. d \in Work /\ d.m = [u.m EXCEPT !.subscription = TRUE, !.state = "stActivated"]
        BY <1>2, <1>3, <4>1 DEF Work, Machine, MachineStates
      <4>3. d.m.state = "stActivated" /\ d.m.inhibit = m.inhibit /\ d.m.subscription
            /\ d.m.nTokenUsable = 0 /\ d.m \in Machine /\ d.m.requests = R
        BY <1>0, <1>2, <1>3, <3>3, <4>2 DEF Work, Machine, MidInv
      <4> QED
        BY <1>0, <1>4, <4>2, <4>3, ClientWrapperAssumption DEF Kept, MidInv, Transient, d
    <3> QED
      BY <3>2, <3>3
  <2>6. CASE e.ev = "response" /\ e.type = "deleteSubscription"
    <3>1. d = StaMac_ProcessMsg_DeleteSubscriptionResponse(u)
      BY <2>1, <2>6 DEF ProcessEvent
    <3>2. CASE ~m.subscription
      <4>1. d = [u EXCEPT !.aborted = TRUE]
        BY <1>3, <3>1, <3>2 DEF StaMac_ProcessMsg_DeleteSubscriptionResponse
      <4> QED
        BY <1>8, <4>1
    <3>3. CASE m.subscription
      <4>1. d = [u EXCEPT !.m.subscription = FALSE, !.m.nTokenUsable = 0, !.m.bAckSubscr = FALSE,
                          !.m.item = FALSE, !.m.state = "stActivated"]
        BY <1>3, <3>1, <3>3 DEF StaMac_ProcessMsg_DeleteSubscriptionResponse
      <4> HIDE DEF u, d
      <4>2. d \in Work /\ d.m = [u.m EXCEPT !.subscription = FALSE, !.nTokenUsable = 0, !.bAckSubscr = FALSE,
                                            !.item = FALSE, !.state = "stActivated"]
        BY <1>2, <1>3, <4>1 DEF Work, Machine, MachineStates
      <4>3. d.m.state = "stActivated" /\ d.m.inhibit = m.inhibit /\ ~d.m.subscription
            /\ d.m.nTokenUsable = 0 /\ d.m \in Machine
        BY <1>0, <1>2, <1>3, <4>2 DEF Work, Machine
      <4> QED
        BY <1>0, <4>2, <4>3 DEF Kept, MidInv, Transient, d
    <3> QED
      BY <3>2, <3>3
  <2>7. CASE e.ev = "response" /\ e.type = "createMonitoredItems"
    <3>1. d = [u EXCEPT !.m.item = u.m.item \/ e.good, !.m.state = "stActivated"]
      BY <2>1, <2>7 DEF ProcessEvent, StaMac_ProcessMsg_CreateMonitoredItemsResponse
    <3>2. m.state = "stCreatingMonIt" /\ (u.m.item \/ e.good) \in BOOLEAN
      BY <1>11, <2>7 DEF GiveAuthorization
    <3> HIDE DEF u, d
    <3>3. d \in Work /\ d.m = [u.m EXCEPT !.item = u.m.item \/ e.good, !.state = "stActivated"]
      BY <1>2, <1>3, <3>1, <3>2 DEF Work, Machine, MachineStates
    <3>4. d.m.state = "stActivated" /\ d.m.subscription = m.subscription /\ d.m.inhibit = m.inhibit
          /\ d.m.nTokenUsable = m.nTokenUsable /\ d.m \in Machine /\ d.m.requests = R
      BY <1>2, <1>3, <3>3 DEF Work, Machine
    <3> QED
      BY <1>0, <1>1, <1>4, <2>7, <3>2, <3>3, <3>4 DEF Kept, MidInv, Transient, Working, d
  <2>8. CASE e.ev = "fault"
    <3>1. d = StaMac_ProcessMsg_ServiceFault(u, type)
      BY <2>1, <2>8 DEF ProcessEvent
    <3>2. d = [u EXCEPT !.m = LessOneToken(u.m)] \/ d = [u EXCEPT !.m.state = "stError"]
      BY <3>1, Zenon DEF StaMac_ProcessMsg_ServiceFault
    <3> QED
      BY <1>5, <1>6, <3>2
  <2>9. CASE e.ev = "timeout"
    <3>1. d = [u EXCEPT !.m = LessOneToken(u.m)]
      BY <2>1, <2>9 DEF ProcessEvent, StaMac_ProcessEvent_SendRequestFailed
    <3> QED
      BY <1>6, <3>1
  <2>10. \/ e.ev \in {"SE_ACTIVATED_SESSION", "SE_CLOSED_SESSION", "fault", "timeout"}
         \/ e.ev = "response" /\ e.type \in {"publish", "createSubscription", "createMonitoredItems",
                                             "deleteSubscription"}
    BY <1>11 DEF GiveAuthorization
  <2> QED
    BY <2>2, <2>3, <2>4, <2>5, <2>6, <2>7, <2>8, <2>9, <2>10
<1> QED
  BY <1>9, <1>10, <1>11

\* The dispatcher leaves a machine that has its tokens.
LEMMA DispatchKeeps ==
    ASSUME NEW m, MachInv(m), NEW e \in AppEvent, NEW type, Targeted(m, e),
           session[e.client].slot \in Int
    PROVE  LET w == SOPC_StaMac_EventDispatcher(m, e, type)
           IN  Kept(m, w) /\ (~w.aborted => MachInv(w.m))
<1> DEFINE d == Done(m, e, type)
<1>1. m \in Machine
  BY DEF MachInv, MidInv
<1>2. Kept(m, d) /\ (~d.aborted => MidInv(d.m))
  BY DoneKeeps
<1>3. SOPC_StaMac_EventDispatcher(m, e, type) = IF d.aborted THEN d ELSE StaMac_PostProcessActions(d, m.state)
  BY DispatcherIs
<1> HIDE DEF d
<1>4. ~d.aborted => /\ Kept(m, StaMac_PostProcessActions(d, m.state))
                    /\ MachInv(StaMac_PostProcessActions(d, m.state).m)
  BY <1>1, <1>2, PostProcessKeeps
<1>5. CASE d.aborted
  BY <1>2, <1>3, <1>5
<1>6. CASE ~d.aborted
  BY <1>3, <1>4, <1>6
<1> QED
  BY <1>5, <1>6
-----------------------------------------------------------------------------
(* The inductive invariant.                                                *)

SessionRec ==
    [st : {"none", "asked", "active", "reactivating", "dropped", "closing", "closed"},
     slot : Int, items : BOOLEAN]

CallNames == {"none", "Connect", "CreateSubscription", "DeleteSubscription", "AddToSubscription",
              "Read", "Disconnect"}

Types ==
    /\ machine \in [Clients -> Machine]
    /\ session \in [Clients -> SessionRec]
    /\ call \in [Clients -> CallNames]
    /\ known \in [Clients -> {"none", "ok", "failed"}]
    /\ told \in [Clients -> Nat]
    /\ toApp \in Seq(AppEvent)

MachinesKept == library = "running" => \A c \in Clients : MachInv(machine[c])

Over(e, c) == e.client = c /\ e.ev \in {"SE_CLOSED_SESSION", "SE_SESSION_ACTIVATION_FAILURE"}

\* One event ends a session.  It is on its way or was treated only when the
\* session is closed, and a connection that was not asked for has none.
EndsOnce(c) ==
    /\ \A i, j \in DOMAIN toApp : Over(toApp[i], c) /\ Over(toApp[j], c) => i = j
    /\ \A i \in DOMAIN toApp : Over(toApp[i], c) => session[c].st = "closed" /\ told[c] = 0
    /\ told[c] # 0 => told[c] = 1 /\ session[c].st = "closed" /\ known[c] = "ok"
    /\ ~machine[c].inhibit => known[c] = "ok"
    /\ call[c] = "Connect" => known[c] = "none"
    /\ call[c] \notin {"none", "Connect"} => known[c] = "ok"
    /\ known[c] = "none" /\ call[c] = "none" => session[c].st = "none"

Inv ==
    /\ Types
    /\ MachinesKept
    /\ AnswersHaveCallers
    /\ \A c \in Clients : EndsOnce(c)
-----------------------------------------------------------------------------
LEMMA EmptyMachine ==
    NoMachine \in Machine /\ MachInv(NoMachine) /\ NoMachine.state = "none" /\ NoMachine.inhibit
BY DEF NoMachine, NoRequest, Machine, MachineStates, MachInv, MidInv, Working

LEMMA InitInv == Init => Inv
<1> SUFFICES ASSUME Init PROVE Inv
  OBVIOUS
<1>1. NoMachine \in Machine /\ MachInv(NoMachine) /\ NoMachine.state = "none" /\ NoMachine.inhibit
  BY EmptyMachine
<1>2. Types
  <2>1. [st |-> "none", slot |-> 0, items |-> FALSE] \in SessionRec
    BY DEF SessionRec
  <2>2. toApp \in Seq(AppEvent)
    BY DEF Init
  <2> QED
    BY <1>1, <2>1, <2>2 DEF Init, Types, CallNames
<1>3. MachinesKept
  BY <1>1 DEF Init, MachinesKept
<1>4. AnswersHaveCallers
  BY <1>1 DEF Init, AnswersHaveCallers
<1>5. ASSUME NEW c \in Clients PROVE EndsOnce(c)
  BY <1>1 DEF Init, EndsOnce
<1> QED
  BY <1>2, <1>3, <1>4, <1>5 DEF Inv

\* Closing a session by its slot ends none and begins none.
SessionsKept ==
    /\ session' \in [Clients -> SessionRec]
    /\ \A d \in Clients : session[d].st \in {"none", "closed"} => session'[d].st = session[d].st

LEMMA AskedKeeps ==
    ASSUME Types, NEW c, NEW w, Asked(c, w)
    PROVE  SessionsKept
<1>1. \A d \in Clients : session[d] \in SessionRec
  BY DEF Types
<1>2. ASSUME NEW slot
      PROVE  /\ AsyncCloseSession(slot) \in [Clients -> SessionRec]
             /\ \A d \in Clients : session[d].st \in {"none", "closed"} =>
                   AsyncCloseSession(slot)[d].st = session[d].st
  BY <1>1 DEF AsyncCloseSession, SessionRec
<1>3. CASE session' = session
  BY <1>3 DEF Types, SessionsKept
<1>4. CASE session' = AsyncCloseSession(w.m.iSessionID)
  BY <1>2, <1>4 DEF SessionsKept
<1> QED
  BY <1>3, <1>4 DEF Asked

\* A step that posts nothing, ends no session and tells nothing.
LEMMA QuietEnds ==
    ASSUME Inv, SessionsKept, UNCHANGED <<toApp, told>>, NEW c \in Clients,
           ~machine'[c].inhibit => known'[c] = "ok",
           call'[c] = "Connect" => known'[c] = "none",
           call'[c] \notin {"none", "Connect"} => known'[c] = "ok",
           known'[c] = "none" /\ call'[c] = "none" => session[c].st = "none",
           known[c] = "ok" => known'[c] = "ok"
    PROVE  EndsOnce(c)'
<1>1. EndsOnce(c)
  BY DEF Inv
<1> QED
  BY <1>1 DEF SessionsKept, EndsOnce

\* A machine of c that does w, in a call that waits for it.
LEMMA StartsKeeps ==
    ASSUME Inv, NEW c \in Clients, NEW name \in CallNames \ {"none", "Connect"}, NEW w \in Work, Starts(c, name, w),
           known[c] = "ok", MachInv(w.m), w.m.inhibit = machine[c].inhibit,
           w.m.state = "stCreatingSubscr" => name = "CreateSubscription",
           w.m.state = "stDeletingSubscr" => name = "DeleteSubscription",
           w.m.state = "stCreatingMonIt" => name = "AddToSubscription",
           w.m.state # "stActivating"
    PROVE  Inv'
<1>1. /\ library = "running" /\ call[c] = "none" /\ call' = [call EXCEPT ![c] = name]
      /\ machine' = [machine EXCEPT ![c] = w.m] /\ UNCHANGED <<library, known, told, toApp>>
  BY DEF Starts, Enters
<1>2. SessionsKept
  BY AskedKeeps DEF Starts, Inv
<1>3. Types'
  BY <1>1, <1>2 DEF Inv, Types, Work, SessionsKept
<1>4. MachinesKept'
  BY <1>1 DEF Inv, Types, MachinesKept
<1>5. AnswersHaveCallers'
  BY <1>1 DEF Inv, Types, AnswersHaveCallers
<1>6. ASSUME NEW d \in Clients PROVE EndsOnce(d)'
  <2>1. EndsOnce(d)
    BY DEF Inv
  <2>2. machine'[d].inhibit = machine[d].inhibit /\ known'[d] = known[d]
    BY <1>1 DEF Inv, Types
  <2>3. call'[d] = call[d] \/ (d = c /\ call'[d] = name)
    BY <1>1 DEF Inv, Types
  <2> QED
    BY <1>1, <1>2, <2>1, <2>2, <2>3, QuietEnds DEF EndsOnce
<1> QED
  BY <1>3, <1>4, <1>5, <1>6 DEF Inv

\* What a request sent by a call makes of a machine that is at rest.
LEMMA RequestFields ==
    ASSUME NEW m, MachInv(m), NEW t \in RequestTypes \ {"publish"}
    PROVE  LET w == SOPC_StaMac_SendRequest(At(m), t, 1)
           IN  /\ w \in Work /\ w.m \in Machine /\ MachInv(w.m) /\ w.m.state = m.state
               /\ w.m.inhibit = m.inhibit /\ w.m.requests["publish"] = m.requests["publish"]
               /\ w.m.subscription = m.subscription /\ w.m.nTokenUsable = m.nTokenUsable
<1> DEFINE w == SOPC_StaMac_SendRequest(At(m), t, 1)
<1>1. m \in Machine /\ At(m) \in Work /\ At(m).m = m
  BY AtWork DEF MachInv, MidInv
<1>2. w \in Work /\ w.m = [m EXCEPT !.requests[t] = m.requests[t] + 1]
  <2>1. 1 \in Nat /\ t \in RequestTypes
    OBVIOUS
  <2>2. w \in Work /\ w.m = [At(m).m EXCEPT !.requests[t] = At(m).m.requests[t] + 1]
    <3> DEFINE a == At(m)
               n == 1
    <3>1. a \in Work /\ n \in Nat
      BY <1>1
    <3> HIDE DEF a, n
    <3>2. /\ SOPC_StaMac_SendRequest(a, t, n) \in Work
          /\ SOPC_StaMac_SendRequest(a, t, n).m = [a.m EXCEPT !.requests[t] = a.m.requests[t] + n]
      BY <2>1, <3>1, SendFields
    <3> QED
      BY <3>2, Zenon DEF a, n
  <2> QED
    BY <1>1, <2>2, Zenon
<1> HIDE DEF w
<1>3. w.m \in Machine /\ w.m.state = m.state /\ w.m.inhibit = m.inhibit /\ w.m.item = m.item
      /\ w.m.subscription = m.subscription /\ w.m.nTokenUsable = m.nTokenUsable
  BY <1>1, <1>2 DEF Work, Machine
<1>4. w.m.requests["publish"] = m.requests["publish"]
  BY <1>1, <1>2 DEF Machine, RequestTypes
<1>5. MachInv(w.m)
  BY <1>3, <1>4 DEF MachInv, MidInv
<1> QED
  BY <1>2, <1>3, <1>4, <1>5 DEF w

\* A machine at rest that waits for the answer to that request.
LEMMA WaitsKeeps ==
    ASSUME NEW m, MachInv(m), NEW w \in Work, NEW v \in Work,
           w.m.inhibit = m.inhibit, w.m.requests["publish"] = m.requests["publish"],
           w.m.subscription = m.subscription, w.m.nTokenUsable = m.nTokenUsable,
           m.state = "stActivated",
           v.m.state \in {"stCreatingSubscr", "stDeletingSubscr", "stCreatingMonIt"},
           v.m.inhibit = w.m.inhibit, v.m.requests = w.m.requests,
           v.m.subscription = w.m.subscription, v.m.nTokenUsable = w.m.nTokenUsable,
           v.m.state = "stCreatingSubscr" => ~m.subscription,
           v.m.state = "stDeletingSubscr" => m.subscription,
           v.m.state = "stCreatingMonIt" => ~v.m.item
    PROVE  MachInv(v.m)
BY DEF MachInv, MidInv, Working, Work

LEMMA CreateSubscriptionKeeps ==
    ASSUME Inv, NEW c \in Clients, SOPC_ClientCommon_CreateSubscription(c)
    PROVE  Inv'
<1> DEFINE m == machine[c]
           w == SOPC_StaMac_SendRequest(At(m), "createSubscription", 1)
           v == SOPC_StaMac_CreateSubscription(m)
<1>1. library = "running" /\ MachInv(m) /\ m.state = "stActivated" /\ known[c] = "ok"
      /\ Starts(c, "CreateSubscription", v) /\ ~m.subscription
  BY DEF SOPC_ClientCommon_CreateSubscription, Starts, Enters, Inv, MachinesKept, Ready
<1>2. /\ w \in Work /\ w.m \in Machine /\ w.m.inhibit = m.inhibit /\ w.m.requests["publish"] = m.requests["publish"]
      /\ w.m.subscription = m.subscription /\ w.m.nTokenUsable = m.nTokenUsable
  BY <1>1, RequestFields DEF RequestTypes
<1>3. v = [w EXCEPT !.m.state = "stCreatingSubscr", !.m.created = w.m.created + 1]
  BY DEF SOPC_StaMac_CreateSubscription
<1> HIDE DEF m, w, v
<1>4. v \in Work /\ v.m = [w.m EXCEPT !.state = "stCreatingSubscr", !.created = w.m.created + 1]
  <2> DEFINE n == w.m.created + 1
             M == [w.m EXCEPT !.state = "stCreatingSubscr", !.created = n]
  <2>0. n \in Nat
    BY <1>2 DEF Machine
  <2>1. v = [w EXCEPT !.m = M]
    BY <1>2, <1>3 DEF Work, Machine
  <2> HIDE DEF n
  <2>2. M \in Machine
    BY <1>2, <2>0 DEF Machine, MachineStates
  <2> HIDE DEF M
  <2>3. v \in Work /\ v.m = M
    BY <1>2, <2>1, <2>2 DEF Work
  <2> QED
    BY <2>3 DEF M, n
<1>5. /\ v.m.state = "stCreatingSubscr" /\ v.m.inhibit = w.m.inhibit /\ v.m.requests = w.m.requests
      /\ v.m.subscription = w.m.subscription /\ v.m.nTokenUsable = w.m.nTokenUsable
  BY <1>2, <1>4 DEF Machine
<1>6. MachInv(v.m)
  BY <1>1, <1>2, <1>4, <1>5, WaitsKeeps
<1> QED
  BY <1>1, <1>2, <1>4, <1>5, <1>6, StartsKeeps DEF CallNames, m

LEMMA DeleteSubscriptionKeeps ==
    ASSUME Inv, NEW c \in Clients, SOPC_ClientCommon_DeleteSubscription(c)
    PROVE  Inv'
<1> DEFINE m == machine[c]
           w == SOPC_StaMac_SendRequest(At(m), "deleteSubscription", 1)
           v == SOPC_StaMac_DeleteSubscription(m)
<1>1. library = "running" /\ MachInv(m) /\ m.state = "stActivated" /\ known[c] = "ok"
      /\ Starts(c, "DeleteSubscription", v) /\ m.subscription
  BY DEF SOPC_ClientCommon_DeleteSubscription, Starts, Enters, Inv, MachinesKept, Ready
<1>2. /\ w \in Work /\ w.m \in Machine /\ w.m.inhibit = m.inhibit /\ w.m.requests["publish"] = m.requests["publish"]
      /\ w.m.subscription = m.subscription /\ w.m.nTokenUsable = m.nTokenUsable
  BY <1>1, RequestFields DEF RequestTypes
<1>3. v = [w EXCEPT !.m.state = "stDeletingSubscr"]
  BY DEF SOPC_StaMac_DeleteSubscription
<1> HIDE DEF m, w, v
<1>4. v \in Work /\ v.m = [w.m EXCEPT !.state = "stDeletingSubscr"]
  BY <1>2, <1>3 DEF Work, Machine, MachineStates
<1>5. /\ v.m.state = "stDeletingSubscr" /\ v.m.inhibit = w.m.inhibit /\ v.m.requests = w.m.requests
      /\ v.m.subscription = w.m.subscription /\ v.m.nTokenUsable = w.m.nTokenUsable
  BY <1>2, <1>4 DEF Machine
<1>6. MachInv(v.m)
  BY <1>1, <1>2, <1>4, <1>5, WaitsKeeps
<1> QED
  BY <1>1, <1>2, <1>4, <1>5, <1>6, StartsKeeps DEF CallNames, m

LEMMA AddToSubscriptionKeeps ==
    ASSUME Inv, NEW c \in Clients, SOPC_ClientCommon_AddToSubscription(c)
    PROVE  Inv'
<1> DEFINE m == machine[c]
           w == SOPC_StaMac_SendRequest(At(m), "createMonitoredItems", 1)
           v == SOPC_StaMac_CreateMonitoredItem(m)
<1>1. library = "running" /\ MachInv(m) /\ m.state = "stActivated" /\ known[c] = "ok"
      /\ Starts(c, "AddToSubscription", v)
  BY DEF SOPC_ClientCommon_AddToSubscription, Starts, Enters, Inv, MachinesKept, Ready
<1>2. /\ w \in Work /\ w.m \in Machine /\ w.m.inhibit = m.inhibit /\ w.m.requests["publish"] = m.requests["publish"]
      /\ w.m.subscription = m.subscription /\ w.m.nTokenUsable = m.nTokenUsable
  BY <1>1, RequestFields DEF RequestTypes
<1>3. v = [w EXCEPT !.m.state = "stCreatingMonIt", !.m.item = FALSE]
  BY DEF SOPC_StaMac_CreateMonitoredItem
<1> HIDE DEF m, w, v
<1>4. v \in Work /\ v.m = [w.m EXCEPT !.state = "stCreatingMonIt", !.item = FALSE]
  BY <1>2, <1>3 DEF Work, Machine, MachineStates
<1>5. /\ v.m.state = "stCreatingMonIt" /\ ~v.m.item /\ v.m.inhibit = w.m.inhibit /\ v.m.requests = w.m.requests
      /\ v.m.subscription = w.m.subscription /\ v.m.nTokenUsable = w.m.nTokenUsable
  BY <1>2, <1>4 DEF Machine
<1>6. MachInv(v.m)
  BY <1>1, <1>2, <1>4, <1>5, WaitsKeeps
<1> QED
  BY <1>1, <1>2, <1>4, <1>5, <1>6, StartsKeeps DEF CallNames, m

LEMMA ReadKeeps ==
    ASSUME Inv, NEW c \in Clients, SOPC_ClientHelper_Read(c)
    PROVE  Inv'
<1> DEFINE m == machine[c]
           w == SOPC_StaMac_SendRequest(At(m), "user", 1)
<1>1. library = "running" /\ MachInv(m) /\ SOPC_StaMac_IsConnected(m) /\ known[c] = "ok"
      /\ Starts(c, "Read", w) /\ call[c] = "none"
  BY DEF SOPC_ClientHelper_Read, SOPC_ClientCommon_AsyncSendRequestOnSession, Starts, Enters, Inv, MachinesKept, Ready
<1>2. w \in Work /\ w.m.inhibit = m.inhibit /\ MachInv(w.m) /\ w.m.state = m.state
  BY <1>1, RequestFields DEF RequestTypes
<1>3. m.state \notin {"stCreatingSubscr", "stDeletingSubscr", "stCreatingMonIt", "stActivating"}
  BY <1>1 DEF Inv, AnswersHaveCallers
<1> HIDE DEF w
<1> QED
  BY <1>1, <1>2, <1>3, StartsKeeps DEF CallNames

LEMMA DisconnectKeeps ==
    ASSUME Inv, NEW c \in Clients, SOPC_ClientCommon_Disconnect(c)
    PROVE  Inv'
<1> DEFINE m == machine[c]
           w == SOPC_StaMac_StopSession(At(m))
<1>1. library = "running" /\ MachInv(m) /\ known[c] = "ok" /\ Starts(c, "Disconnect", w)
      /\ SOPC_StaMac_IsConnected(m)
  BY DEF SOPC_ClientCommon_Disconnect, Starts, Enters, Inv, MachinesKept, Ready
<1>2. m \in Machine /\ At(m) \in Work /\ At(m).m = m
  BY <1>1, AtWork DEF MachInv, MidInv
<1>3. w \in Work /\ w.m = [m EXCEPT !.state = "stClosing"]
  BY <1>2, StopFields
<1> HIDE DEF w, m
<1>4. w.m \in Machine /\ w.m.state = "stClosing" /\ w.m.inhibit = m.inhibit
      /\ w.m.subscription = m.subscription /\ w.m.nTokenUsable = m.nTokenUsable
  BY <1>2, <1>3 DEF Work, Machine
<1>5. MachInv(w.m)
  BY <1>1, <1>4 DEF MachInv, MidInv, Working
<1> QED
  BY <1>1, <1>3, <1>4, <1>5, StartsKeeps DEF CallNames, m
-----------------------------------------------------------------------------
LEMMA Posted ==
    ASSUME Types, NEW e \in AppEvent, toApp' = Append(toApp, e)
    PROVE  /\ toApp' \in Seq(AppEvent)
           /\ DOMAIN toApp = 1..Len(toApp) /\ Len(toApp) \in Nat
           /\ DOMAIN toApp' = 1..(Len(toApp) + 1)
           /\ toApp'[Len(toApp) + 1] = e
           /\ \A i \in DOMAIN toApp : toApp'[i] = toApp[i]
BY DEF Types

LEMMA SessionEvent ==
    ASSUME NEW c \in Clients, NEW ev \in SessionEvents
    PROVE  Event(ev, c, "none", FALSE) \in AppEvent
BY DEF Event, AppEvent, SessionEvents

\* An event that ends a session is posted when the session was not closed, and
\* closes it; another event may always be posted.
LEMMA PostedEnds ==
    ASSUME Inv, NEW c \in Clients, NEW e \in AppEvent, e.client = c, toApp' = Append(toApp, e),
           UNCHANGED told, NEW d \in Clients,
           session[d].st \in {"none", "closed"} => session'[d].st = session[d].st \/ d = c,
           Over(e, c) => session[c].st # "closed" /\ session'[c].st = "closed",
           ~Over(e, c) => (session[c].st = "closed" => session'[c].st = "closed"),
           ~machine'[d].inhibit => known'[d] = "ok",
           call'[d] = "Connect" => known'[d] = "none",
           call'[d] \notin {"none", "Connect"} => known'[d] = "ok",
           known'[d] = "none" /\ call'[d] = "none" => session'[d].st = "none",
           known[d] = "ok" => known'[d] = "ok"
    PROVE  EndsOnce(d)'
<1>0. Types /\ EndsOnce(d)
  BY DEF Inv
<1>1. /\ DOMAIN toApp = 1..Len(toApp) /\ Len(toApp) \in Nat /\ DOMAIN toApp' = 1..(Len(toApp) + 1)
      /\ toApp'[Len(toApp) + 1] = e /\ \A i \in DOMAIN toApp : toApp'[i] = toApp[i]
  BY <1>0, Posted
<1>2. \A i \in DOMAIN toApp' : i \in DOMAIN toApp \/ i = Len(toApp) + 1
  BY <1>1
<1>3. d # c => ~Over(e, d)
  BY DEF Over
<1>4. Over(e, d) => d = c /\ told[d] = 0 /\ \A i \in DOMAIN toApp : ~Over(toApp[i], d)
  BY <1>0, <1>3 DEF EndsOnce
<1>5. \A i, j \in DOMAIN toApp' : Over(toApp'[i], d) /\ Over(toApp'[j], d) => i = j
  BY <1>0, <1>1, <1>2, <1>4 DEF EndsOnce
<1>6. session[d].st = "closed" => session'[d].st = "closed"
  BY <1>3
<1>7. \A i \in DOMAIN toApp' : Over(toApp'[i], d) => session'[d].st = "closed" /\ told'[d] = 0
  BY <1>0, <1>1, <1>2, <1>4, <1>6 DEF EndsOnce
<1> QED
  BY <1>0, <1>5, <1>6, <1>7 DEF EndsOnce, Over

LEMMA SessionStepKeeps ==
    ASSUME Inv, NEW c \in Clients, NEW st, NEW ev \in SessionEvents, SessionStep(c, st, ev),
           st \in {"active", "reactivating", "closed"}, session[c].st \notin {"none", "closed"},
           ev \in {"SE_CLOSED_SESSION", "SE_SESSION_ACTIVATION_FAILURE"} <=> st = "closed"
    PROVE  Inv'
<1> DEFINE e == Event(ev, c, "none", FALSE)
<1>1. /\ session' = [session EXCEPT ![c].st = st] /\ toApp' = Append(toApp, e)
      /\ UNCHANGED <<library, machine, call, known, told>>
  BY DEF SessionStep, Post, ToolkitUnchanged
<1>2. e \in AppEvent /\ e.client = c /\ e.ev = ev
  BY SessionEvent DEF Event
<1> HIDE DEF e
<1>3. Types
  BY DEF Inv
<1>4. session' \in [Clients -> SessionRec] /\ session'[c].st = st
      /\ \A d \in Clients : d # c => session'[d] = session[d]
  BY <1>1, <1>3 DEF Types, SessionRec
<1>5. Types'
  BY <1>1, <1>2, <1>3, <1>4, Posted DEF Types
<1>6. MachinesKept' /\ AnswersHaveCallers'
  BY <1>1 DEF Inv, MachinesKept, AnswersHaveCallers
<1>7. ASSUME NEW d \in Clients PROVE EndsOnce(d)'
  <2>1. EndsOnce(d)
    BY DEF Inv
  <2>2. Over(e, c) <=> st = "closed"
    BY <1>2 DEF Over
  <2> QED
    BY <1>1, <1>2, <1>4, <2>1, <2>2, PostedEnds DEF EndsOnce
<1> QED
  BY <1>5, <1>6, <1>7 DEF Inv

LEMMA AnswerKeeps ==
    ASSUME Inv, NEW c \in Clients, NEW type \in RequestTypes,
           NEW ev \in {"response", "fault", "timeout", "failed"}, NEW good \in BOOLEAN,
           Answer(c, type, ev, good)
    PROVE  Inv'
<1> DEFINE e == Event(ev, c, type, good)
           items == IF ev = "response" /\ type = "deleteSubscription" THEN FALSE
                    ELSE session[c].items \/ (good /\ type = "createMonitoredItems")
<1>1. /\ session' = [session EXCEPT ![c].items = items] /\ toApp' = Append(toApp, e)
      /\ UNCHANGED <<library, machine, call, known, told>>
  BY DEF Answer, Post, ToolkitUnchanged
<1>2. e \in AppEvent /\ e.client = c /\ ~Over(e, c) /\ items \in BOOLEAN
  <2>1. e \in AppEvent /\ e.client = c /\ ~Over(e, c)
    BY DEF Event, AppEvent, RequestTypes, SessionEvents, Over
  <2>2. items \in BOOLEAN
    OBVIOUS
  <2> QED
    BY <2>1, <2>2
<1> HIDE DEF e, items
<1>3. Types
  BY DEF Inv
<1>4. session' \in [Clients -> SessionRec] /\ \A d \in Clients : session'[d].st = session[d].st
  <2> DEFINE r == [session[c] EXCEPT !.items = items]
  <2>1. session' = [session EXCEPT ![c] = r]
    BY <1>1, Zenon
  <2>2. r \in SessionRec /\ r.st = session[c].st
    BY <1>2, <1>3 DEF Types, SessionRec
  <2> HIDE DEF r
  <2> QED
    BY <1>3, <2>1, <2>2 DEF Types
<1>5. Types'
  BY <1>1, <1>2, <1>3, <1>4, Posted DEF Types
<1>6. MachinesKept' /\ AnswersHaveCallers'
  BY <1>1 DEF Inv, MachinesKept, AnswersHaveCallers
<1>7. ASSUME NEW d \in Clients PROVE EndsOnce(d)'
  <2>1. EndsOnce(d)
    BY DEF Inv
  <2> QED
    BY <1>1, <1>2, <1>4, <2>1, PostedEnds DEF EndsOnce
<1> QED
  BY <1>5, <1>6, <1>7 DEF Inv

LEMMA ToolkitKeeps == ASSUME Inv, Toolkit PROVE Inv'
<1>1. ASSUME NEW c \in Clients, SessionActivated(c) PROVE Inv'
  BY <1>1, SessionStepKeeps DEF SessionActivated, SessionEvents
<1>2. ASSUME NEW c \in Clients, SessionActivationFails(c) PROVE Inv'
  BY <1>2, SessionStepKeeps DEF SessionActivationFails, SessionEvents
<1>3. ASSUME NEW c \in Clients, SessionLost(c) PROVE Inv'
  BY <1>3, SessionStepKeeps DEF SessionLost, SessionEvents
<1>4. ASSUME NEW c \in Clients, SessionClosed(c) PROVE Inv'
  BY <1>4, SessionStepKeeps DEF SessionClosed, SessionEvents
<1> QED
  BY <1>1, <1>2, <1>3, <1>4, AnswerKeeps DEF Toolkit
-----------------------------------------------------------------------------
LEMMA LeastNumber ==
    ASSUME NEW P \in SUBSET Nat, P # {}
    PROVE  \E n \in P : \A r \in P : n <= r
<1> DEFINE Less == {ss \in Nat \X Nat : ss[1] < ss[2]}
<1>1. IsWellFoundedOn(Less, Nat)
  BY NatLessThanWellFounded, Zenon DEF OpToRel
<1>2. \A r, n \in Nat : r < n => <<r, n>> \in Less
  OBVIOUS
<1>3. \A r, n \in Nat : ~ (r < n) => n <= r
  OBVIOUS
<1> HIDE DEF Less
<1>4. \E n \in P : \A r \in P : ~ (<<r, n>> \in Less)
  BY <1>1, WFMin
<1> QED
  BY <1>2, <1>3, <1>4, Zenon

\* A free slot is found when there is one.
LEMMA LargestSlot ==
    ASSUME NEW S \in SUBSET Slots, S # {}
    PROVE  (CHOOSE s \in S : \A t \in S : s >= t) \in Int
<1> DEFINE P == {n \in Nat : MaxSessions - n \in S}
<1>1. MaxSessions \in Nat /\ \A t \in S : t \in Int /\ t <= MaxSessions
  BY ClientWrapperAssumption DEF Slots
<1>2. \A t \in S : MaxSessions - t \in Nat /\ MaxSessions - (MaxSessions - t) = t
  BY <1>1
<1>3. \A t \in S : MaxSessions - t \in P
  BY <1>2, Zenon
<1>4. \A n \in P : n \in Nat /\ MaxSessions - n \in S
  BY Zenon
<1> HIDE DEF P
<1>5. P \in SUBSET Nat /\ P # {}
  BY <1>3, <1>4
<1>6. PICK n \in P : \A r \in P : n <= r
  BY <1>5, LeastNumber
<1>7. \A t \in S : n <= MaxSessions - t
  BY <1>3, <1>6
<1>8. \A t \in S : MaxSessions - n >= t
  BY <1>1, <1>4, <1>7
<1>9. \E s \in S : \A t \in S : s >= t
  BY <1>4, <1>8
<1>10. (CHOOSE s \in S : \A t \in S : s >= t) \in S
  BY <1>9, Zenon
<1> DEFINE x == CHOOSE s \in S : \A t \in S : s >= t
<1> HIDE DEF x
<1>11. x \in S => x \in Int
  BY <1>1
<1> QED
  BY <1>10, <1>11, Zenon DEF x

LEMMA ConnectKeeps ==
    ASSUME Inv, NEW c \in Clients, SOPC_ClientCommon_Connect(c)
    PROVE  Inv'
<1> DEFINE m == [SOPC_StaMac_Create EXCEPT !.state = "stActivating"]
           e == Event("SE_SESSION_ACTIVATION_FAILURE", c, "none", FALSE)
           slot == CHOOSE s \in FreeSlots : \A t \in FreeSlots : s >= t
<1>1. /\ library = "running" /\ call[c] = "none" /\ call' = [call EXCEPT ![c] = "Connect"]
      /\ known[c] = "none" /\ machine' = [machine EXCEPT ![c] = m]
      /\ SOPC_StaMac_StartSession(c) /\ UNCHANGED <<library, known, told>>
  BY DEF SOPC_ClientCommon_Connect, Enters
<1>2. m \in Machine /\ MachInv(m) /\ m.state = "stActivating" /\ m.inhibit
  <2> DEFINE created == [NoMachine EXCEPT !.state = "stInit"]
  <2>1. NoMachine \in Machine /\ NoMachine.inhibit /\ ~NoMachine.subscription /\ NoMachine.nTokenUsable = 0
    BY EmptyMachine DEF MachInv, MidInv
  <2>2. created \in Machine /\ created.inhibit /\ ~created.subscription /\ created.nTokenUsable = 0
    BY <2>1 DEF Machine, MachineStates
  <2>3. m = [created EXCEPT !.state = "stActivating"]
    BY Zenon DEF SOPC_StaMac_Create
  <2> HIDE DEF created, m
  <2>4. m \in Machine /\ m.state = "stActivating" /\ m.inhibit /\ ~m.subscription /\ m.nTokenUsable = 0
    BY <2>2, <2>3 DEF Machine, MachineStates
  <2> QED
    BY <2>4 DEF MachInv, MidInv
<1> HIDE DEF m
<1>3. Types /\ EndsOnce(c) /\ session[c] \in SessionRec
  BY DEF Inv, Types
<1>4. session[c].st = "none" /\ told[c] = 0 /\ \A i \in DOMAIN toApp : ~Over(toApp[i], c)
  BY <1>1, <1>3 DEF EndsOnce
<1>5. MachinesKept'
  BY <1>1, <1>2 DEF Inv, Types, MachinesKept
<1>6. AnswersHaveCallers'
  BY <1>1, <1>2 DEF Inv, Types, AnswersHaveCallers
<1>7. /\ machine' \in [Clients -> Machine] /\ call' \in [Clients -> CallNames]
      /\ known' \in [Clients -> {"none", "ok", "failed"}] /\ told' \in [Clients -> Nat]
  BY <1>1, <1>2, <1>3 DEF Types, CallNames
<1>8. ASSUME NEW d \in Clients
      PROVE  /\ ~machine'[d].inhibit => known'[d] = "ok"
             /\ call'[d] = "Connect" => known'[d] = "none"
             /\ call'[d] \notin {"none", "Connect"} => known'[d] = "ok"
             /\ known'[d] = "none" /\ call'[d] = "none" => d # c /\ session[d].st = "none"
             /\ known[d] = "ok" => known'[d] = "ok"
  <2>1. EndsOnce(d)
    BY DEF Inv
  <2> QED
    BY <1>1, <1>2, <1>3, <2>1 DEF Types, EndsOnce
<1>9. CASE FreeSlots = {}
  <2> DEFINE r == [session[c] EXCEPT !.st = "closed"]
  <2>1. session' = [session EXCEPT ![c] = r] /\ toApp' = Append(toApp, e)
    BY <1>1, <1>9 DEF SOPC_StaMac_StartSession, Post
  <2>2. r \in SessionRec /\ r.st = "closed"
    BY <1>3 DEF SessionRec
  <2>3. e \in AppEvent /\ e.client = c /\ Over(e, c)
    BY SessionEvent DEF SessionEvents, Event, Over
  <2> HIDE DEF r, e
  <2>4. session' \in [Clients -> SessionRec] /\ session'[c].st = "closed"
        /\ \A d \in Clients : d # c => session'[d] = session[d]
    BY <1>3, <2>1, <2>2 DEF Types
  <2>5. Types'
    BY <1>3, <1>7, <2>1, <2>3, <2>4, Posted DEF Types
  <2>6. ASSUME NEW d \in Clients PROVE EndsOnce(d)'
    BY <1>1, <1>4, <1>8, <2>1, <2>3, <2>4, PostedEnds
  <2> QED
    BY <1>5, <1>6, <2>5, <2>6 DEF Inv
<1>10. CASE FreeSlots # {}
  <2> DEFINE r == [session[c] EXCEPT !.st = "asked", !.slot = slot]
  <2>1. session' = [session EXCEPT ![c] = r] /\ toApp' = toApp
    BY <1>1, <1>10 DEF SOPC_StaMac_StartSession
  <2>2. slot \in Int
    <3>1. FreeSlots \in SUBSET Slots
      BY DEF FreeSlots
    <3> HIDE DEF slot
    <3> QED
      BY <1>10, <3>1, LargestSlot DEF slot
  <2> HIDE DEF slot
  <2>3. r \in SessionRec /\ r.st = "asked"
    BY <1>3, <2>2 DEF SessionRec
  <2> HIDE DEF r
  <2>4. session' \in [Clients -> SessionRec] /\ \A d \in Clients : d # c => session'[d] = session[d]
    BY <1>3, <2>1, <2>3 DEF Types
  <2>5. Types'
    BY <1>3, <1>7, <2>1, <2>4 DEF Types
  <2>6. ASSUME NEW d \in Clients PROVE EndsOnce(d)'
    <3>1. EndsOnce(d)
      BY DEF Inv
    <3> QED
      BY <1>1, <1>4, <1>8, <2>1, <2>4, <3>1 DEF EndsOnce
  <2> QED
    BY <1>5, <1>6, <2>5, <2>6 DEF Inv
<1> QED
  BY <1>9, <1>10

LEMMA ClearKeeps == ASSUME Inv, SOPC_ClientCommon_Clear PROVE Inv'
<1>1. /\ machine' = [c \in Clients |-> NoMachine] /\ toApp' = <<>> /\ library' = "cleared"
      /\ session' = [c \in Clients |-> [session[c] EXCEPT !.st = IF session[c].st = "none" THEN session[c].st
                                                                 ELSE "closed"]]
      /\ UNCHANGED <<call, known, told>>
  BY DEF SOPC_ClientCommon_Clear
<1>2. \A c \in Clients : session[c] \in SessionRec
  BY DEF Inv, Types
<1>3. session' \in [Clients -> SessionRec]
      /\ \A c \in Clients : session'[c].st = IF session[c].st = "none" THEN "none" ELSE "closed"
  BY <1>1, <1>2 DEF SessionRec
<1>4. toApp' \in Seq(AppEvent) /\ DOMAIN toApp' = {}
  BY <1>1
<1>5. Types'
  BY <1>1, <1>3, <1>4, EmptyMachine DEF Inv, Types
<1>6. MachinesKept' /\ AnswersHaveCallers'
  BY <1>1, EmptyMachine DEF MachinesKept, AnswersHaveCallers
<1>7. ASSUME NEW c \in Clients PROVE EndsOnce(c)'
  <2>1. EndsOnce(c) /\ machine'[c].inhibit
    BY <1>1, EmptyMachine DEF Inv
  <2> QED
    BY <1>1, <1>3, <1>4, <2>1 DEF EndsOnce
<1> QED
  BY <1>5, <1>6, <1>7 DEF Inv

\* A call returns; m is what it leaves of its machine, which waits for nothing.
LEMMA ReturnsKeep ==
    ASSUME Inv, NEW c \in Clients, NEW name \in CallNames \ {"none"}, Returns(c, name),
           NEW m, MachInv(m), machine' = [machine EXCEPT ![c] = m],
           m.state \notin Transient,
           NEW k \in {"none", "ok", "failed"}, known' = [known EXCEPT ![c] = k],
           name = "Connect" => k # "none", name # "Connect" => k = known[c],
           ~m.inhibit => k = "ok"
    PROVE  Inv'
<1>1. /\ library = "running" /\ call[c] = name /\ call' = [call EXCEPT ![c] = "none"]
      /\ UNCHANGED <<library, told, session, toApp>>
  BY DEF Returns
<1>2. Types /\ m \in Machine
  BY DEF Inv, MachInv, MidInv
<1>3. SessionsKept
  BY <1>1, <1>2 DEF SessionsKept, Types
<1>4. Types'
  BY <1>1, <1>2 DEF Types, CallNames
<1>5. MachinesKept'
  BY <1>1, <1>2 DEF Inv, Types, MachinesKept
<1>6. AnswersHaveCallers'
  BY <1>1, <1>2 DEF Inv, Types, AnswersHaveCallers, Transient
<1>7. ASSUME NEW d \in Clients PROVE EndsOnce(d)'
  <2>1. EndsOnce(d)
    BY DEF Inv
  <2>2. CASE d = c
    <3>1. machine'[c] = m /\ known'[c] = k /\ call'[c] = "none"
      BY <1>1, <1>2 DEF Types
    <3>2. k # "none" /\ (known[c] = "ok" => k = "ok")
      BY <1>1, <2>1, <2>2 DEF EndsOnce, CallNames
    <3> QED
      BY <1>1, <1>3, <2>1, <2>2, <3>1, <3>2, QuietEnds DEF EndsOnce
  <2>3. CASE d # c
    <3>1. machine'[d] = machine[d] /\ known'[d] = known[d] /\ call'[d] = call[d]
      BY <1>1, <1>2, <2>3 DEF Types
    <3> QED
      BY <1>1, <1>3, <2>1, <3>1, QuietEnds DEF EndsOnce
  <2> QED
    BY <2>2, <2>3
<1> QED
  BY <1>4, <1>5, <1>6, <1>7 DEF Inv

LEMMA ConnectReturnsKeeps ==
    ASSUME Inv, NEW c \in Clients, NEW late \in BOOLEAN, ConnectReturns(c, late)
    PROVE  Inv'
<1> DEFINE m == machine[c]
           ok == ~SOPC_StaMac_IsError(m) /\ ~late
           n == [m EXCEPT !.inhibit = FALSE]
<1>1. /\ Returns(c, "Connect") /\ known' = [known EXCEPT ![c] = IF ok THEN "ok" ELSE "failed"]
      /\ machine' = [machine EXCEPT ![c] = IF ok THEN n ELSE NoMachine]
      /\ ok => SOPC_StaMac_IsConnected(m)
  BY DEF ConnectReturns
<1>2. library = "running" /\ call[c] = "Connect" /\ MachInv(m)
  BY <1>1 DEF Returns, Inv, MachinesKept
<1>3. ok => m.state \notin Transient
  BY <1>1, <1>2 DEF Inv, AnswersHaveCallers, Transient, SOPC_StaMac_IsConnected
<1> HIDE DEF m, ok
<1>4. n \in Machine /\ n.state = m.state /\ n.subscription = m.subscription /\ n.nTokenUsable = m.nTokenUsable
      /\ n.requests = m.requests /\ n.item = m.item
  BY <1>2 DEF MachInv, MidInv, Machine
<1> HIDE DEF n
<1>5. MachInv(n)
  BY <1>2, <1>4 DEF MachInv, MidInv
<1>6. CASE ok
  BY <1>1, <1>3, <1>4, <1>5, <1>6, ReturnsKeep DEF CallNames
<1>7. CASE ~ok
  BY <1>1, <1>7, EmptyMachine, ReturnsKeep DEF CallNames, Transient
<1> QED
  BY <1>6, <1>7

\* Calls that change nothing of what Connect returned.
LEMMA OtherReturnsKeep ==
    ASSUME Inv, NEW c \in Clients, NEW name \in CallNames \ {"none", "Connect"}, Returns(c, name),
           UNCHANGED known, NEW m, MachInv(m), machine' = [machine EXCEPT ![c] = m],
           m.state \notin Transient, m.inhibit = machine[c].inhibit \/ m.inhibit
    PROVE  Inv'
<1>1. known[c] \in {"none", "ok", "failed"} /\ known' = [known EXCEPT ![c] = known[c]]
  BY DEF Inv, Types
<1>2. ~m.inhibit => known[c] = "ok"
  BY DEF Inv, EndsOnce
<1> QED
  BY <1>1, <1>2, ReturnsKeep

LEMMA SubscriptionCallReturnsKeeps ==
    ASSUME Inv, NEW c \in Clients, NEW late \in BOOLEAN,
           NEW name \in {"CreateSubscription", "DeleteSubscription", "AddToSubscription"},
           SubscriptionCallReturns(c, name, late)
    PROVE  Inv'
<1> DEFINE m == machine[c]
           gaveUp == late /\ ~SOPC_StaMac_IsError(m)
           n == [m EXCEPT !.state = "stError"]
<1>1. /\ Returns(c, name) /\ UNCHANGED known
      /\ machine' = [machine EXCEPT ![c] = IF gaveUp THEN n ELSE m]
      /\ SOPC_StaMac_IsError(m) \/ Awaited(m, name) \/ late
  BY DEF SubscriptionCallReturns, SOPC_StaMac_SetError
<1>2. library = "running" /\ call[c] = name /\ MachInv(m)
  BY <1>1 DEF Returns, Inv, MachinesKept
<1>3. ~gaveUp => m.state \notin Transient
  BY <1>1, <1>2 DEF Inv, AnswersHaveCallers, Transient, SOPC_StaMac_IsError, Awaited, MachInv, MidInv
<1>4. n \in Machine /\ n.state = "stError" /\ n.subscription = m.subscription /\ n.nTokenUsable = m.nTokenUsable
      /\ n.inhibit = m.inhibit
  BY <1>2 DEF MachInv, MidInv, Machine, MachineStates
<1> HIDE DEF n, gaveUp
<1>5. MachInv(n)
  BY <1>2, <1>4 DEF MachInv, MidInv, Working
<1>6. name \in CallNames \ {"none", "Connect"}
  BY DEF CallNames
<1>7. CASE gaveUp
  BY <1>1, <1>4, <1>5, <1>6, <1>7, OtherReturnsKeep DEF Transient
<1>8. CASE ~gaveUp
  BY <1>1, <1>2, <1>3, <1>6, <1>8, OtherReturnsKeep
<1> QED
  BY <1>7, <1>8

LEMMA ReadReturnsKeeps ==
    ASSUME Inv, NEW c \in Clients, NEW late \in BOOLEAN, ReadReturns(c, late)
    PROVE  Inv'
<1>1. Returns(c, "Read") /\ UNCHANGED <<known, machine>>
  BY DEF ReadReturns
<1>2. library = "running" /\ call[c] = "Read" /\ MachInv(machine[c])
  BY <1>1 DEF Returns, Inv, MachinesKept
<1>3. machine[c].state \notin Transient
  BY <1>2 DEF Inv, AnswersHaveCallers, Transient
<1>4. machine' = [machine EXCEPT ![c] = machine[c]]
  BY <1>1 DEF Inv, Types
<1> QED
  BY <1>1, <1>2, <1>3, <1>4, OtherReturnsKeep DEF CallNames

LEMMA DisconnectReturnsKeeps ==
    ASSUME Inv, NEW c \in Clients, NEW late \in BOOLEAN, DisconnectReturns(c, late)
    PROVE  Inv'
BY EmptyMachine, OtherReturnsKeep DEF DisconnectReturns, CallNames, Transient

LEMMA ApplicationKeeps == ASSUME Inv, Application PROVE Inv'
BY ClearKeeps, ConnectKeeps, DisconnectKeeps, CreateSubscriptionKeeps, DeleteSubscriptionKeeps,
   AddToSubscriptionKeeps, ReadKeeps, ConnectReturnsKeeps, DisconnectReturnsKeeps, ReadReturnsKeeps,
   SubscriptionCallReturnsKeeps
   DEF Application
-----------------------------------------------------------------------------
LEMMA Taken ==
    ASSUME Types, toApp # <<>>, toApp' = Tail(toApp)
    PROVE  /\ Head(toApp) \in AppEvent /\ toApp' \in Seq(AppEvent)
           /\ 1 \in DOMAIN toApp /\ Head(toApp) = toApp[1]
           /\ \A i \in DOMAIN toApp' : i + 1 \in DOMAIN toApp /\ i + 1 # 1 /\ toApp'[i] = toApp[i + 1]
           /\ \A i, j \in DOMAIN toApp' : i + 1 = j + 1 => i = j
BY DEF Types

LEMMA CallbackKeeps ==
    ASSUME Inv, NEW type, ToolkitEventCallback(type)
    PROVE  Inv'
<1> DEFINE e == Head(toApp)
           c == e.client
           w == SOPC_StaMac_EventDispatcher(machine[c], e, type)
           over == e.ev \in {"SE_CLOSED_SESSION", "SE_SESSION_ACTIVATION_FAILURE"}
<1>1. Types /\ library = "running" /\ toApp # <<>> /\ toApp' = Tail(toApp) /\ UNCHANGED <<call, known>>
  BY DEF Inv, ToolkitEventCallback
<1>2. /\ e \in AppEvent /\ toApp' \in Seq(AppEvent) /\ 1 \in DOMAIN toApp /\ e = toApp[1]
      /\ \A i \in DOMAIN toApp' : i + 1 \in DOMAIN toApp /\ i + 1 # 1 /\ toApp'[i] = toApp[i + 1]
      /\ \A i, j \in DOMAIN toApp' : i + 1 = j + 1 => i = j
  BY <1>1, Taken
<1>3. c \in Clients /\ MachInv(machine[c]) /\ session[c].slot \in Int
  <2>1. c \in Clients
    BY <1>2 DEF AppEvent
  <2> QED
    BY <1>1, <2>1 DEF Inv, MachinesKept, Types, SessionRec
<1>4. CASE ~Targeted(machine[c], e)
  <2>1. UNCHANGED <<machine, told, session>>
    BY <1>4 DEF ToolkitEventCallback
  <2>2. Types'
    BY <1>1, <1>2, <2>1 DEF Types
  <2>3. MachinesKept' /\ AnswersHaveCallers'
    BY <1>1, <2>1 DEF Inv, MachinesKept, AnswersHaveCallers
  <2>4. ASSUME NEW d \in Clients PROVE EndsOnce(d)'
    <3>1. EndsOnce(d)
      BY DEF Inv
    <3> QED
      BY <1>1, <1>2, <2>1, <3>1 DEF EndsOnce
  <2> QED
    BY <2>2, <2>3, <2>4 DEF Inv
<1>5. CASE Targeted(machine[c], e)
  <2>1. /\ w.aborted => library' = "asserted"
        /\ machine' = [machine EXCEPT ![c] = w.m]
        /\ told' = [told EXCEPT ![c] = IF over /\ ~w.m.inhibit THEN told[c] + 1 ELSE told[c]]
        /\ Asked(c, w)
    BY <1>5, Zenon DEF ToolkitEventCallback
  <2>2. Kept(machine[c], w) /\ (~w.aborted => MachInv(w.m))
    BY <1>2, <1>3, <1>5, DispatchKeeps
  <2>3. SessionsKept
    BY <1>1, <2>1, AskedKeeps
  <2>4. over <=> Over(e, c)
    BY DEF Over
  <2>5. e.client = c
    OBVIOUS
  <2> HIDE DEF e, c, w, over
  <2>6. /\ w.m \in Machine /\ w.m.inhibit = machine[c].inhibit
        /\ w.m.state \in Transient => w.m.state = machine[c].state
    BY <2>2 DEF Kept, Work
  <2>7. Types'
    <3>1. told' \in [Clients -> Nat]
      BY <1>1, <1>3, <2>1 DEF Types
    <3>2. machine' \in [Clients -> Machine]
      BY <1>1, <1>3, <2>1, <2>6 DEF Types
    <3> QED
      BY <1>1, <1>2, <2>3, <3>1, <3>2 DEF Types, SessionsKept
  <2>8. MachinesKept'
    <3>1. \A d \in Clients : d # c => machine'[d] = machine[d]
      BY <1>1, <1>3, <2>1 DEF Types
    <3>2. machine'[c] = w.m
      BY <1>1, <1>3, <2>1 DEF Types
    <3> QED
      BY <1>1, <2>1, <2>2, <3>1, <3>2 DEF Inv, MachinesKept
  <2>9. AnswersHaveCallers'
    BY <1>1, <1>3, <2>1, <2>6 DEF Inv, Types, AnswersHaveCallers, Transient
  <2>10. ASSUME NEW d \in Clients PROVE EndsOnce(d)'
    <3>1. EndsOnce(d) /\ EndsOnce(c)
      BY <1>3 DEF Inv
    <3>2. machine'[d].inhibit = machine[d].inhibit
      BY <1>1, <1>3, <2>1, <2>6 DEF Types
    <3>3. session[d].st \in {"none", "closed"} => session'[d].st = session[d].st
      BY <2>3 DEF SessionsKept
    <3>4. \A i, j \in DOMAIN toApp' : Over(toApp'[i], d) /\ Over(toApp'[j], d) => i = j
      BY <1>2, <3>1 DEF EndsOnce
    <3>5. CASE told'[d] = told[d]
      <4>1. \A i \in DOMAIN toApp' : Over(toApp'[i], d) => session'[d].st = "closed" /\ told'[d] = 0
        BY <1>2, <3>1, <3>3, <3>5 DEF EndsOnce
      <4> QED
        BY <1>1, <3>1, <3>2, <3>3, <3>4, <3>5, <4>1 DEF EndsOnce
    <3>6. CASE told'[d] # told[d]
      <4>1. d = c /\ over /\ ~w.m.inhibit /\ told'[d] = told[d] + 1
        BY <1>1, <1>3, <2>1, <3>6 DEF Types
      <4>2. Over(toApp[1], d)
        BY <1>2, <2>4, <4>1
      <4>3. told[d] = 0 /\ session[d].st = "closed" /\ known[d] = "ok"
        BY <1>2, <2>6, <3>1, <4>1, <4>2 DEF EndsOnce
      <4>4. \A i \in DOMAIN toApp' : ~Over(toApp'[i], d)
        BY <1>2, <3>1, <4>2 DEF EndsOnce
      <4> QED
        BY <1>1, <3>1, <3>2, <3>3, <3>4, <4>1, <4>3, <4>4 DEF EndsOnce
    <3> QED
      BY <3>5, <3>6
  <2> QED
    BY <2>7, <2>8, <2>9, <2>10 DEF Inv
<1> QED
  BY <1>4, <1>5

LEMMA NextKeeps == Inv /\ [Next]_vars => Inv'
<1>1. ASSUME Inv, Next PROVE Inv'
  BY <1>1, ToolkitKeeps, ApplicationKeeps, CallbackKeeps DEF Next
<1>2. ASSUME Inv, UNCHANGED vars PROVE Inv'
  BY <1>2 DEF vars, Inv, Types, MachinesKept, AnswersHaveCallers, EndsOnce
<1> QED
  BY <1>1, <1>2
-----------------------------------------------------------------------------
\* The invariant holds of every behaviour of the calls, the callback and the
\* toolkit.
THEOREM InvHolds == Spec => []Inv
BY InitInv, NextKeeps, PTL DEF Spec

\* However many tokens a connection aims at, a subscription that is not in error
\* has them: StaMac_PostProcessActions sends every one that misses before the
\* machine is at rest.
THEOREM TokensAreKept == Spec => []TokensKept
<1>1. Inv => TokensKept
  BY DEF Inv, MachinesKept, TokensKept, MachInv, MidInv, Working, SOPC_StaMac_IsConnected
<1> QED
  BY <1>1, InvHolds, PTL

\* With any number of connections, no machine waits for an answer that has no
\* caller (SOPC_StaMac_SetError when a call gives up).
THEOREM CallersWait == Spec => []AnswersHaveCallers
<1>1. Inv => AnswersHaveCallers
  BY DEF Inv
<1> QED
  BY <1>1, InvHolds, PTL

\* However the events of the connections are interleaved, the end of one is told
\* at most once, and only after Connect returned it.
THEOREM ToldOnce == Spec => []DisconnectionToldOnce
<1>1. Inv => DisconnectionToldOnce
  BY DEF Inv, Types, EndsOnce, DisconnectionToldOnce
<1> QED
  BY <1>1, InvHolds, PTL
=============================================================================
