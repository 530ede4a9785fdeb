--------------------------- MODULE SupervisorProofs ---------------------------
(***************************************************************************)
(* Theorems about Supervisor, for every number of tasks, names, instances, *)
(* connections and requests.                                               *)
(***************************************************************************)
EXTENDS Supervisor, TLAPS

USE MainAssumption, NoInstAssumption, NobodyAssumption

-----------------------------------------------------------------------------
(***************************************************************************)
(* The inductive invariant.                                                *)
(***************************************************************************)

CreatePcs  == {"create_bind", "create_publish"}
LockedPcs  == {"recheck", "commit", "mark", "take", "join", "remove"}
InstPcs    == {"precheck", "resolve", "stop_lock"} \cup LockedPcs
Removed(w) == req[w].kind = "stop" /\ pc[w] = "replied" /\ reply[w] \in {"ok", "failed"}

\* Who holds the locks: create_instance the daemon lock until it answers, the
\* operations on an instance its stop lock.
LockInv ==
  /\ \A t \in Tasks : pc[t] \in CreatePcs => daemonLock = t
  /\ \A w \in Workers : pc[w] \in LockedPcs => stopLock[obj[w]] = w

\* What each kind of request is doing where.
PcInv ==
  \A w \in Workers :
    /\ pc[w] \in {"create_lock"} \cup CreatePcs => req[w].kind = "create" /\ w # Main
    /\ pc[w] \in {"mark", "take", "join", "remove"} => req[w].kind = "stop"
    /\ pc[w] \in {"phase", "signal"} => req[w].kind = "shutdown"
    /\ pc[w] = "create_publish" => made[obj[w]] = req[w]

\* An incarnation that anything refers to exists, under the name it is used by.
RefInv ==
  /\ \A n \in Names : instances[n] # NoInst =>
       state[instances[n]] # "unborn" /\ made[instances[n]].name = n
  /\ \A w \in Workers : obj[w] # NoInst => state[obj[w]] # "unborn"
  /\ \A w \in Workers : pc[w] \in InstPcs \/ Removed(w) =>
       obj[w] # NoInst /\ made[obj[w]].name = req[w].name
  /\ \A w \in Workers : pc[w] = "create_publish" => obj[w] # NoInst

\* An incarnation is running exactly while its listener serves.
StateInv ==
  \A i \in Insts :
    /\ state[i] = "running" <=> listener[i] = "serving"
    /\ state[i] = "unborn" => listener[i] = "none" /\ ~handle[i]

\* Until its listener task is stored and it is inserted, an incarnation is
\* known to its creator only, which found its name free.
PublishInv ==
  \A t \in Tasks : pc[t] = "create_publish" =>
    /\ \A w \in Workers \ {t} : obj[w] # obj[t]
    /\ \A n \in Names : instances[n] # obj[t]
    /\ instances[req[t].name] = NoInst
    /\ state[obj[t]] = "running"

\* A live listener's handle is stored, or being awaited by a stop, or about to
\* be stored; past the wait the listener has ended.
HandleInv ==
  /\ \A i \in Insts : Live(i) /\ ~handle[i] =>
       Publishing(i) \/ \E w \in Workers : pc[w] = "join" /\ obj[w] = i
  /\ \A w \in Workers : pc[w] \in {"take", "join", "remove"} => state[obj[w]] = "stopping"
  /\ \A w \in Workers : pc[w] = "remove" => ~Live(obj[w])

RemovedInv ==
  \A w \in Workers : Removed(w) => ~Live(obj[w]) /\ instances[req[w].name] # obj[w]

\* What create_instance and the operations under the stop lock found when they
\* looked still holds: the phase changes under the daemon lock, the state of an
\* instance under its stop lock.
CheckedInv ==
  /\ \A t \in Tasks : pc[t] \in CreatePcs => phase = "running"
  /\ \A t \in Tasks : pc[t] = "commit" => state[obj[t]] = "running"

IInv ==
  /\ LockInv /\ PcInv /\ RefInv /\ StateInv /\ PublishInv /\ HandleInv
  /\ LiveListenerIsRegistered /\ RemovedInv /\ CheckedInv

-----------------------------------------------------------------------------
(***************************************************************************)
(* Type correctness.                                                       *)
(***************************************************************************)
LEMMA AnyRequestType == AnyRequest \in RequestType
BY NonEmptyAssumption DEF AnyRequest

LEMMA StopRequestType ==
  ASSUME NEW n \in Names
  PROVE  /\ StopRequest(n) \in RequestType
         /\ StopRequest(n).kind = "stop" /\ StopRequest(n).name = n
BY AnyRequestType DEF StopRequest, RequestType, Kinds

LEMMA RequestFields ==
  ASSUME NEW r \in RequestType
  PROVE  r.kind \in Kinds /\ r.name \in Names /\ r.key \in RouteKeys
BY DEF RequestType

\* The incarnation a request's name maps to.
LEMMA NamedType ==
  ASSUME TypeOK, NEW w \in Workers
  PROVE  req[w].name \in Names /\ instances[req[w].name] \in Insts \cup {NoInst}
BY RequestFields DEF TypeOK

\* Every variable keeps its type.
THEOREM TypeCorrect == Spec => []TypeOK
<1>1. Init => TypeOK
  <2> SUFFICES ASSUME Init PROVE TypeOK
    OBVIOUS
  <2>1. made \in [Insts -> RequestType] /\ req \in [Workers -> RequestType]
    BY AnyRequestType DEF Init
  <2>2. pc \in [Workers -> WorkerPcs]
    BY DEF Init, WorkerPcs
  <2>3. QED
    BY <2>1, <2>2 DEF Init, TypeOK, Workers, States, Listeners, Replies, ConnPcs
<1>2. TypeOK /\ [Next]_vars => TypeOK'
  <2> SUFFICES ASSUME TypeOK, [Next]_vars PROVE TypeOK'
    OBVIOUS
  <2> USE DEF TypeOK, Workers, States, Listeners, Replies, WorkerPcs, ConnPcs, Go, Reply,
          LockDaemonBriefly, daemonVars, instVars, workerVars, connVars, vars
  <2>1. ASSUME NEW t \in Tasks, NEW r \in Requests, Receive(t, r) PROVE TypeOK'
    BY <2>1, RequestsAssumption DEF Receive
  <2>2. ASSUME NEW t \in Tasks, NEW i \in Insts, CreateBind(t, i) PROVE TypeOK'
    BY <2>2 DEF CreateBind
  <2>3. ASSUME NEW t \in Tasks, Gate(t) PROVE TypeOK'
    BY <2>3 DEF Gate
  <2>4. ASSUME NEW t \in Tasks, ShutdownPhase(t) PROVE TypeOK'
    BY <2>4 DEF ShutdownPhase
  <2>5. ASSUME NEW t \in Tasks, ShutdownSignal(t) PROVE TypeOK'
    BY <2>5 DEF ShutdownSignal
  <2>6. ASSUME NEW t \in Tasks, Finish(t) PROVE TypeOK'
    BY <2>6, AnyRequestType DEF Finish
  <2>7. ASSUME NEW t \in Tasks, CreateLock(t) PROVE TypeOK'
    BY <2>7 DEF CreateLock
  <2>8. ASSUME NEW t \in Tasks, CreateExisting(t) PROVE TypeOK'
    BY <2>8, NamedType DEF CreateExisting, ExistingReply
  <2>9. ASSUME NEW t \in Tasks, CreateBindFails(t) PROVE TypeOK'
    BY <2>9 DEF CreateBindFails
  <2>10. ASSUME NEW t \in Tasks, CreatePublish(t) PROVE TypeOK'
    BY <2>10, NamedType DEF CreatePublish
  <2>11. ASSUME NEW t \in Tasks, Precheck(t) PROVE TypeOK'
    BY <2>11 DEF Precheck
  <2>12. ASSUME NEW t \in Tasks, Resolve(t) PROVE TypeOK'
    BY <2>12 DEF Resolve
  <2>13. ASSUME NEW t \in Tasks, Recheck(t) PROVE TypeOK'
    BY <2>13 DEF Recheck, ReleaseStopLock
  <2>14. ASSUME NEW t \in Tasks, RegisterCommit(t) PROVE TypeOK'
    <3>1. req[t].key \in RouteKeys
      BY RequestFields
    <3>2. routes' \in [Insts -> SUBSET RouteKeys]
      BY <2>14, <3>1 DEF RegisterCommit
    <3>3. PICK r \in {"shutting_down", "conflict", "ok"} : Reply(t, r)
      <4> HIDE DEF Reply
      <4> QED BY <2>14 DEF RegisterCommit
    <3>4. pc' \in [Workers -> WorkerPcs] /\ reply' \in [Workers -> Replies]
      BY <3>3
    <3>5. stopLock' \in [Insts -> Workers \cup {Nobody}]
      BY <2>14 DEF RegisterCommit, ReleaseStopLock
    <3>6. QED
      BY <2>14, <3>2, <3>4, <3>5 DEF RegisterCommit
  <2>15. ASSUME NEW t \in Tasks, UnregisterCommit(t) PROVE TypeOK'
    <3>1. req[t].key \in RouteKeys
      BY RequestFields
    <3>2. routes' \in [Insts -> SUBSET RouteKeys]
      BY <2>15, <3>1 DEF UnregisterCommit
    <3>3. PICK r \in {"shutting_down", "not_found", "ok"} : Reply(t, r)
      <4> HIDE DEF Reply
      <4> QED BY <2>15 DEF UnregisterCommit
    <3>4. pc' \in [Workers -> WorkerPcs] /\ reply' \in [Workers -> Replies]
      BY <3>3
    <3>5. stopLock' \in [Insts -> Workers \cup {Nobody}]
      BY <2>15 DEF UnregisterCommit, ReleaseStopLock
    <3>6. QED
      BY <2>15, <3>2, <3>4, <3>5 DEF UnregisterCommit
  <2>16. ASSUME NEW w \in Workers, Lookup(w) PROVE TypeOK'
    BY <2>16, NamedType DEF Lookup
  <2>17. ASSUME NEW w \in Workers, TakeStopLock(w) PROVE TypeOK'
    BY <2>17 DEF TakeStopLock
  <2>18. ASSUME NEW w \in Workers, Mark(w) PROVE TypeOK'
    BY <2>18 DEF Mark
  <2>19. ASSUME NEW w \in Workers, TakeHandle(w) PROVE TypeOK'
    BY <2>19 DEF TakeHandle
  <2>20. ASSUME NEW w \in Workers, Join(w) PROVE TypeOK'
    BY <2>20 DEF Join
  <2>21. ASSUME NEW w \in Workers, Remove(w) PROVE TypeOK'
    BY <2>21, NamedType DEF Remove, ReleaseStopLock, IsCurrent
  <2>22. ASSUME Terminate PROVE TypeOK'
    BY <2>22 DEF Terminate
  <2>23. ASSUME Snapshot PROVE TypeOK'
    BY <2>23 DEF Snapshot, NamesToStop
  <2>24. ASSUME Exit PROVE TypeOK'
    BY <2>24 DEF Exit
  <2>25. ASSUME NEW b \in BOOLEAN, LeaveLoop(b) PROVE TypeOK'
    BY <2>25 DEF LeaveLoop
  <2>26. ASSUME NEW n \in Names, StopNext(n) PROVE TypeOK'
    BY <2>26, StopRequestType DEF StopNext
  <2>27. ASSUME NEW i \in Insts, Drained(i) PROVE TypeOK'
    BY <2>27 DEF Drained
  <2>28. ASSUME NEW i \in Insts, NEW b \in BOOLEAN, ForceClose(i, b) PROVE TypeOK'
    BY <2>28 DEF ForceClose
  <2>29. ASSUME NEW c \in Conns, NEW i \in Insts, Request(c, i) PROVE TypeOK'
    BY <2>29 DEF Request
  <2>30. ASSUME NEW c \in Conns, DispatchState(c) PROVE TypeOK'
    BY <2>30 DEF DispatchState, KeepState
  <2>31. ASSUME NEW c \in Conns, Answer(c) PROVE TypeOK'
    BY <2>31 DEF Answer
  <2>32. ASSUME NEW c \in Conns, NEW b \in BOOLEAN, DispatchRoute(c, b) PROVE TypeOK'
    BY <2>32 DEF DispatchRoute
  <2>33. CASE UNCHANGED vars
    BY <2>33
  <2> HIDE DEF TypeOK, Workers, States, Listeners, Replies, WorkerPcs, ConnPcs, Go, Reply,
           LockDaemonBriefly, daemonVars, instVars, workerVars, connVars, vars
  <2>34. QED
    BY <2>1, <2>2, <2>3, <2>4, <2>5, <2>6, <2>7, <2>8, <2>9, <2>10, <2>11, <2>12, <2>13, <2>14, <2>15, <2>16, <2>17, <2>18, <2>19, <2>20, <2>21, <2>22, <2>23, <2>24, <2>25, <2>26, <2>27, <2>28, <2>29, <2>30, <2>31, <2>32, <2>33
       DEF Next, Step, Ended, Control, Stop, Loop, Listening, Dispatch
<1>3. QED
  BY <1>1, <1>2, PTL DEF Spec


LEMMA IInvStep == TypeOK /\ TypeOK' /\ IInv /\ [Next]_vars => IInv'
<1> SUFFICES ASSUME TypeOK, TypeOK', IInv, [Next]_vars PROVE IInv'
  OBVIOUS
<1> USE DEF TypeOK, IInv, LockInv, PcInv, RefInv, StateInv, PublishInv, HandleInv, RemovedInv, CheckedInv, LiveListenerIsRegistered, Live, Publishing, Removed, InstPcs, LockedPcs, CreatePcs, Workers, Go, Reply,
          LockDaemonBriefly, daemonVars, instVars, workerVars, connVars, vars
<1>1. ASSUME NEW t \in Tasks, NEW r \in Requests, Receive(t, r) PROVE IInv'
  BY <1>1, RequestsAssumption DEF Receive
<1>2. ASSUME NEW t \in Tasks, NEW i \in Insts, CreateBind(t, i) PROVE IInv'
  <2>1. \A j \in Insts : made'[j] = IF j = i THEN req[t] ELSE made[j]
    BY <1>2 DEF CreateBind
  <2>2. \A w \in Workers : obj'[w] = IF w = t THEN i ELSE obj[w]
    BY <1>2 DEF CreateBind
  <2>3. LockInv' /\ PcInv'
    BY <1>2, <2>1, <2>2 DEF CreateBind
  <2>4. RefInv' /\ StateInv'
    BY <1>2, <2>1, <2>2 DEF CreateBind
  <2>5. PublishInv' /\ CheckedInv'
    BY <1>2, <2>2 DEF CreateBind
  <2>6. HandleInv'
    BY <1>2, <2>2 DEF CreateBind
  <2>7. LiveListenerIsRegistered' /\ RemovedInv'
    BY <1>2, <2>2 DEF CreateBind
  <2>8. QED
    BY <2>3, <2>4, <2>5, <2>6, <2>7
<1>3. ASSUME NEW t \in Tasks, Gate(t) PROVE IInv'
  BY <1>3 DEF Gate
<1>4. ASSUME NEW t \in Tasks, ShutdownPhase(t) PROVE IInv'
  BY <1>4 DEF ShutdownPhase
<1>5. ASSUME NEW t \in Tasks, ShutdownSignal(t) PROVE IInv'
  BY <1>5 DEF ShutdownSignal
<1>6. ASSUME NEW t \in Tasks, Finish(t) PROVE IInv'
  BY <1>6 DEF Finish
<1>7. ASSUME NEW t \in Tasks, CreateLock(t) PROVE IInv'
  BY <1>7 DEF CreateLock, PhaseStillRunning
<1>8. ASSUME NEW t \in Tasks, CreateExisting(t) PROVE IInv'
  <2>1. instances[req[t].name] \in Insts
    BY <1>8, NamedType DEF CreateExisting
  <2>2. pc[t] = "create_bind" /\ pc' = [pc EXCEPT ![t] = "replied"] /\ req[t].kind = "create"
    BY <1>8 DEF CreateExisting
  <2>3. /\ obj' = [obj EXCEPT ![t] = instances[req[t].name]]
        /\ reply' = [reply EXCEPT ![t] = ExistingReply(t, instances[req[t].name])]
        /\ daemonLock = t /\ daemonLock' = Nobody
        /\ UNCHANGED <<phase, instances, shutdownWatch, instVars, req, toStop, connVars>>
    BY <1>8 DEF CreateExisting
  <2>4. LockInv' /\ PcInv'
    BY <2>1, <2>2, <2>3
  <2>5. RefInv'
    <3> HIDE DEF LockInv, PublishInv, HandleInv, LiveListenerIsRegistered, RemovedInv,
                 CheckedInv, StateInv
    <3>1. state[instances[req[t].name]] # "unborn"
          /\ made[instances[req[t].name]].name = req[t].name
      BY <2>1, NamedType
    <3>2. \A w \in Workers : obj'[w] = IF w = t THEN instances[req[t].name] ELSE obj[w]
      BY <2>3
    <3>3. \A w \in Workers \ {t} :
            pc'[w] = pc[w] /\ reply'[w] = reply[w] /\ obj'[w] = obj[w] /\ req'[w] = req[w]
      BY <2>2, <2>3
    <3>4. \A w \in Workers : pc'[w] = "create_publish" => w # t
      BY <2>2
    <3>5. \A w \in Workers : pc'[w] \in InstPcs \/ Removed(w)' => w = t \/ pc[w] \in InstPcs \/ Removed(w)
      BY <2>3, <3>3
    <3>6. QED
      BY <2>1, <2>3, <3>1, <3>2, <3>3, <3>4, <3>5
  <2>6. StateInv' /\ PublishInv' /\ CheckedInv'
    BY <2>1, <2>2, <2>3
  <2>7. HandleInv'
    BY <2>1, <2>2, <2>3
  <2>8. LiveListenerIsRegistered' /\ RemovedInv'
    BY <2>1, <2>2, <2>3
  <2>9. QED
    BY <2>4, <2>5, <2>6, <2>7, <2>8
<1>9. ASSUME NEW t \in Tasks, CreateBindFails(t) PROVE IInv'
  BY <1>9 DEF CreateBindFails
<1>10. ASSUME NEW t \in Tasks, CreatePublish(t) PROVE IInv'
  <2>1. req[t].name \in Names /\ obj[t] \in Insts
    BY <1>10, NamedType DEF CreatePublish
  <2>2. \A n \in Names : instances'[n] = IF n = req[t].name THEN obj[t] ELSE instances[n]
    BY <1>10, <2>1 DEF CreatePublish
  <2>3. LockInv' /\ PcInv'
    BY <1>10, <2>1 DEF CreatePublish
  <2>4. RefInv' /\ StateInv'
    BY <1>10, <2>1, <2>2 DEF CreatePublish
  <2>5. PublishInv' /\ CheckedInv'
    BY <1>10, <2>1, <2>2 DEF CreatePublish
  <2>6. HandleInv'
    BY <1>10, <2>1 DEF CreatePublish
  <2>7. LiveListenerIsRegistered' /\ RemovedInv'
    BY <1>10, <2>1, <2>2 DEF CreatePublish
  <2>8. QED
    BY <2>3, <2>4, <2>5, <2>6, <2>7
<1>11. ASSUME NEW t \in Tasks, Precheck(t) PROVE IInv'
  BY <1>11 DEF Precheck
<1>12. ASSUME NEW t \in Tasks, Resolve(t) PROVE IInv'
  BY <1>12 DEF Resolve
<1>13. ASSUME NEW t \in Tasks, Recheck(t) PROVE IInv'
  BY <1>13 DEF Recheck, StateStillRunning, ReleaseStopLock
<1>14. ASSUME NEW t \in Tasks, RegisterCommit(t) PROVE IInv'
  <2>1. PICK r \in {"shutting_down", "conflict", "ok"} : Reply(t, r)
    <3> HIDE DEF Reply
    <3> QED BY <1>14 DEF RegisterCommit
  <2>2. /\ pc[t] = "commit" /\ pc' = [pc EXCEPT ![t] = "replied"]
        /\ reply' = [reply EXCEPT ![t] = r]
        /\ req[t].kind = "register"
    <3> HIDE DEF TypeOK, IInv
    <3> QED BY <1>14, <2>1 DEF RegisterCommit
  <2>3. /\ stopLock' = [stopLock EXCEPT ![obj[t]] = Nobody]
        /\ UNCHANGED <<daemonVars, made, state, stateLock, handle, listener, cancel, req,
                       obj, toStop, connVars>>
    <3> HIDE DEF TypeOK, IInv
    <3> QED BY <1>14 DEF RegisterCommit, ReleaseStopLock
  <2>4. LockInv' /\ PcInv'
    BY <2>2, <2>3
  <2>5. RefInv' /\ StateInv' /\ PublishInv'
    BY <2>2, <2>3
  <2>6. HandleInv'
    BY <2>2, <2>3
  <2>7. LiveListenerIsRegistered' /\ RemovedInv' /\ CheckedInv'
    BY <2>2, <2>3
  <2>8. QED
    BY <2>4, <2>5, <2>6, <2>7
<1>15. ASSUME NEW t \in Tasks, UnregisterCommit(t) PROVE IInv'
  BY <1>15 DEF UnregisterCommit, ReleaseStopLock
<1>16. ASSUME NEW w \in Workers, Lookup(w) PROVE IInv'
  <2>1. instances[req[w].name] \in Insts \cup {NoInst}
    BY NamedType
  <2>2. LockInv' /\ PcInv'
    BY <1>16, <2>1 DEF Lookup
  <2>3. RefInv'
    BY <1>16, <2>1, NamedType DEF Lookup
  <2>4. StateInv' /\ PublishInv' /\ CheckedInv'
    BY <1>16, <2>1, NamedType DEF Lookup
  <2>5. HandleInv'
    BY <1>16, <2>1 DEF Lookup
  <2>6. LiveListenerIsRegistered' /\ RemovedInv'
    BY <1>16, <2>1 DEF Lookup
  <2>7. QED
    BY <2>2, <2>3, <2>4, <2>5, <2>6
<1>17. ASSUME NEW w \in Workers, TakeStopLock(w) PROVE IInv'
  BY <1>17 DEF TakeStopLock, StopLockIsFree
<1>18. ASSUME NEW w \in Workers, Mark(w) PROVE IInv'
  <2>1. obj[w] \in Insts
    BY <1>18 DEF Mark
  <2>2. LockInv' /\ PcInv' /\ RefInv'
    BY <1>18, <2>1 DEF Mark
  <2>3. StateInv' /\ PublishInv'
    BY <1>18, <2>1 DEF Mark
  <2>4. \A i \in Insts : Live(i)' <=> Live(i)
    BY <1>18, <2>1 DEF Mark
  <2>5. HandleInv'
    <3>1. \A i \in Insts : Publishing(i) => Publishing(i)'
      BY <1>18 DEF Mark
    <3>2. \A v \in Workers : pc[v] = "join" => pc'[v] = "join"
      BY <1>18 DEF Mark
    <3>3. \A i \in Insts : Live(i)' /\ ~handle'[i] =>
            Publishing(i)' \/ \E v \in Workers : pc'[v] = "join" /\ obj'[v] = i
      BY <1>18, <2>4, <3>1, <3>2 DEF Mark
    <3>4. state'[obj[w]] = "stopping"
      BY <1>18, <2>1 DEF Mark, States
    <3>5. QED
      BY <1>18, <2>1, <2>4, <3>3, <3>4 DEF Mark
  <2>6. LiveListenerIsRegistered' /\ RemovedInv' /\ CheckedInv'
    BY <1>18, <2>1, <2>4 DEF Mark
  <2>7. QED
    BY <2>2, <2>3, <2>5, <2>6
<1>19. ASSUME NEW w \in Workers, TakeHandle(w) PROVE IInv'
  <2>1. obj[w] \in Insts
    BY <1>19 DEF TakeHandle
  <2>2. LockInv' /\ PcInv' /\ RefInv' /\ StateInv' /\ PublishInv'
    BY <1>19, <2>1 DEF TakeHandle
  <2>3. ~handle[obj[w]] => ~Live(obj[w])
    BY <1>19, <2>1 DEF TakeHandle
  <2>4. HandleInv'
    BY <1>19, <2>1, <2>3 DEF TakeHandle
  <2>5. LiveListenerIsRegistered' /\ RemovedInv' /\ CheckedInv'
    BY <1>19, <2>1 DEF TakeHandle
  <2>6. QED
    BY <2>2, <2>4, <2>5
<1>20. ASSUME NEW w \in Workers, Join(w) PROVE IInv'
  BY <1>20 DEF Join
<1>21. ASSUME NEW w \in Workers, Remove(w) PROVE IInv'
  <2>1. req[w].name \in Names /\ obj[w] \in Insts
    BY <1>21, NamedType DEF Remove
  <2>2. /\ pc[w] = "remove" /\ pc' = [pc EXCEPT ![w] = IF w = Main THEN "next" ELSE "replied"]
        /\ reply' = [reply EXCEPT ![w] = IF reply[w] = "failed" THEN "failed" ELSE "ok"]
    BY <1>21 DEF Remove
  <2>3. \A n \in Names : instances'[n] = IF n = req[w].name /\ instances[n] = obj[w]
                                       THEN NoInst ELSE instances[n]
    <3>1. instances \in [Names -> Insts \cup {NoInst}]
      OBVIOUS
    <3>2. instances' = IF instances[req[w].name] = obj[w]
                       THEN [instances EXCEPT ![req[w].name] = NoInst] ELSE instances
      BY <1>21 DEF Remove, IsCurrent
    <3> HIDE DEF TypeOK, IInv
    <3> QED BY <2>1, <3>1, <3>2
  <2>4. instances'[req[w].name] # obj[w]
    <3> HIDE DEF TypeOK, IInv
    <3> QED BY <2>1, <2>3
  <2>5. /\ stopLock' = [stopLock EXCEPT ![obj[w]] = Nobody]
        /\ UNCHANGED <<phase, daemonLock, shutdownWatch, made, state, stateLock, handle,
                       listener, cancel, routes, req, obj, toStop, connVars>>
    <3> HIDE DEF TypeOK, IInv
    <3> QED BY <1>21 DEF Remove, ReleaseStopLock
  <2>6. LockInv' /\ PcInv'
    BY <2>1, <2>2, <2>5
  <2>7. RefInv' /\ StateInv'
    BY <2>1, <2>2, <2>3, <2>5
  <2>8. PublishInv' /\ CheckedInv'
    BY <2>1, <2>2, <2>3, <2>5, NamedType
  <2>9. HandleInv'
    BY <2>1, <2>2, <2>5
  <2>10. ~Live(obj[w]) /\ \A i \in Insts : Live(i)' <=> Live(i)
    BY <2>1, <2>2, <2>5
  <2>11. LiveListenerIsRegistered'
    <3> SUFFICES ASSUME NEW i \in Insts, Live(i)' PROVE instances'[made[i].name] = i \/ Publishing(i)'
      BY <2>5
    <3>1. Live(i) /\ i # obj[w] /\ made[i].name \in Names
      BY <2>1, <2>10 DEF RequestType
    <3>2. Publishing(i) => Publishing(i)'
      <4> HIDE DEF IInv
      <4> QED BY <2>2, <2>5
    <3> HIDE DEF Live, Publishing, LockInv, PcInv, RefInv, StateInv, PublishInv, HandleInv,
                 RemovedInv, CheckedInv
    <3> QED BY <2>3, <3>1, <3>2
  <2>12. RemovedInv'
    <3> SUFFICES ASSUME NEW v \in Workers, Removed(v)'
                 PROVE  ~Live(obj[v]) /\ instances'[req[v].name] # obj[v]
      BY <2>1, <2>5, <2>10
    <3>1. CASE v = w
      BY <2>4, <2>10, <3>1
    <3>2. CASE v # w
      <4>1. Removed(v)
        <5> HIDE DEF IInv
        <5> QED BY <2>2, <2>5, <3>2
      <4>2. ~Live(obj[v]) /\ instances[req[v].name] # obj[v] /\ obj[v] # NoInst
        BY <4>1
      <4>3. req[v].name \in Names
        BY NamedType
      <4> HIDE DEF IInv, Live, Removed
      <4> QED BY <2>3, <4>2, <4>3
    <3>3. QED
      BY <3>1, <3>2
  <2>13. QED
    BY <2>6, <2>7, <2>8, <2>9, <2>11, <2>12
<1>22. ASSUME Terminate PROVE IInv'
  BY <1>22 DEF Terminate
<1>23. ASSUME Snapshot PROVE IInv'
  BY <1>23 DEF Snapshot
<1>24. ASSUME Exit PROVE IInv'
  BY <1>24 DEF Exit
<1>25. ASSUME NEW b \in BOOLEAN, LeaveLoop(b) PROVE IInv'
  BY <1>25 DEF LeaveLoop
<1>26. ASSUME NEW n \in Names, StopNext(n) PROVE IInv'
  <2>1. LockInv' /\ PcInv' /\ RefInv'
    BY <1>26, StopRequestType DEF StopNext
  <2>2. StateInv' /\ PublishInv' /\ CheckedInv'
    BY <1>26 DEF StopNext
  <2>3. HandleInv'
    BY <1>26 DEF StopNext
  <2>4. LiveListenerIsRegistered' /\ RemovedInv'
    BY <1>26, StopRequestType DEF StopNext
  <2>5. QED
    BY <2>1, <2>2, <2>3, <2>4
<1>27. ASSUME NEW i \in Insts, Drained(i) PROVE IInv'
  BY <1>27 DEF Drained
<1>28. ASSUME NEW i \in Insts, NEW b \in BOOLEAN, ForceClose(i, b) PROVE IInv'
  BY <1>28 DEF ForceClose
<1>29. ASSUME NEW c \in Conns, NEW i \in Insts, Request(c, i) PROVE IInv'
  BY <1>29 DEF Request
<1>30. ASSUME NEW c \in Conns, DispatchState(c) PROVE IInv'
  BY <1>30 DEF DispatchState
<1>31. ASSUME NEW c \in Conns, Answer(c) PROVE IInv'
  BY <1>31 DEF Answer
<1>32. ASSUME NEW c \in Conns, NEW b \in BOOLEAN, DispatchRoute(c, b) PROVE IInv'
  BY <1>32 DEF DispatchRoute
<1>33. CASE UNCHANGED vars
  BY <1>33
<1> HIDE DEF TypeOK, IInv, LockInv, PcInv, RefInv, StateInv, PublishInv, HandleInv, RemovedInv, CheckedInv, LiveListenerIsRegistered, Live, Publishing, Removed, InstPcs, LockedPcs, CreatePcs, Workers, Go, Reply,
          LockDaemonBriefly, daemonVars, instVars, workerVars, connVars, vars
<1>34. QED
  BY <1>1, <1>2, <1>3, <1>4, <1>5, <1>6, <1>7, <1>8, <1>9, <1>10, <1>11, <1>12, <1>13, <1>14, <1>15, <1>16, <1>17, <1>18, <1>19, <1>20, <1>21, <1>22, <1>23, <1>24, <1>25, <1>26, <1>27, <1>28, <1>29, <1>30, <1>31, <1>32, <1>33
     DEF Next, Step, Ended, Control, Stop, Loop, Listening, Dispatch


LEMMA Invariance == Spec => [](TypeOK /\ IInv)
<1>1. Init => IInv
  BY DEF Init, IInv, LockInv, PcInv, RefInv, StateInv, PublishInv, HandleInv, RemovedInv, CheckedInv,
         LiveListenerIsRegistered, Live, Publishing, Removed, InstPcs, LockedPcs, CreatePcs, Workers
<1>2. QED
  BY <1>1, TypeCorrect, IInvStep, PTL DEF Spec


-----------------------------------------------------------------------------
(***************************************************************************)
(* The theorems.                                                           *)
(***************************************************************************)

\* A listener that serves or drains belongs to the incarnation its name maps to.
THEOREM ListenersAreRegistered == Spec => []LiveListenerIsRegistered
<1>1. IInv => LiveListenerIsRegistered
  BY DEF IInv
<1>2. QED
  BY <1>1, Invariance, PTL

\* Whoever is told that a stop has ended finds neither its listener nor its entry.
THEOREM StopIsComplete == Spec => []StopAnsweredMeansGone
<1>1. IInv => StopAnsweredMeansGone
  BY DEF IInv, RemovedInv, Removed, StopAnsweredMeansGone, Workers
<1>2. QED
  BY <1>1, Invariance, PTL

\* Routes are added to live, registered instances of a running daemon only.
THEOREM RegistersAreTimely == Spec => RegisterOnlyIntoLive
<1> DEFINE Timely ==
      \A i \in Insts :
        routes'[i] \subseteq routes[i]
          \/ (state[i] = "running" /\ instances[made[i].name] = i /\ phase = "running")
<1>1. TypeOK /\ IInv /\ [Next]_vars => [Timely]_vars
  <2> SUFFICES ASSUME TypeOK, IInv, Next PROVE Timely
    BY DEF Timely
  <2>1. ASSUME NEW t \in Tasks, RegisterCommit(t) PROVE Timely
    <3> DEFINE i == obj[t]
    <3>1. i \in Insts /\ state[i] = "running" /\ i # NoInst
      BY <2>1 DEF RegisterCommit, TypeOK, IInv, CheckedInv, RefInv, InstPcs, LockedPcs, Workers
    <3>2. Live(i) /\ ~Publishing(i)
      BY <2>1, <3>1 DEF RegisterCommit, TypeOK, IInv, StateInv, PublishInv, Live, Publishing, Workers
    <3>3. instances[made[i].name] = i
      BY <3>1, <3>2 DEF IInv, LiveListenerIsRegistered
    <3>4. CASE phase = "running"
      BY <2>1, <3>1, <3>3, <3>4 DEF RegisterCommit, TypeOK, Workers
    <3>5. CASE phase # "running"
      BY <2>1, <3>5 DEF RegisterCommit, PhaseStillRunning
    <3>6. QED
      BY <3>4, <3>5
  <2>2. ASSUME NEW t \in Tasks, UnregisterCommit(t) PROVE Timely
    BY <2>2 DEF UnregisterCommit, TypeOK
  <2>3. CASE UNCHANGED routes
    BY <2>3
  <2>4. QED
    BY <2>1, <2>2, <2>3
       DEF Next, Step, Ended, Control, Stop, Loop, Listening, Dispatch, Receive, Gate, ShutdownPhase,
           ShutdownSignal, Finish, CreateLock, CreateExisting, CreateBind, CreateBindFails,
           CreatePublish, Precheck, Resolve, Recheck, Lookup, TakeStopLock, Mark, TakeHandle, Join,
           Remove, Terminate, Snapshot, Exit, LeaveLoop, StopNext, Drained, ForceClose, Request,
           DispatchState, DispatchRoute, Answer, vars, instVars
<1>2. QED
  BY <1>1, Invariance, PTL DEF Spec, RegisterOnlyIntoLive

\* No instance is added to the map once the daemon is shutting down.
THEOREM ShutdownIsFinal == Spec => NoInstanceAfterShutdown
<1> DEFINE Final ==
      phase = "shutting_down" => \A n \in Names : instances'[n] \in {instances[n], NoInst}
<1>1. TypeOK /\ IInv /\ [Next]_vars => [Final]_vars
  <2> SUFFICES ASSUME TypeOK, IInv, Next PROVE Final
    BY DEF Final
  <2>1. ASSUME NEW t \in Tasks, CreatePublish(t) PROVE Final
    BY <2>1 DEF CreatePublish, IInv, CheckedInv, CreatePcs
  <2>2. ASSUME NEW w \in Workers, Remove(w) PROVE Final
    BY <2>2 DEF Remove, TypeOK
  <2>3. CASE UNCHANGED instances
    BY <2>3
  <2>4. QED
    BY <2>1, <2>2, <2>3
       DEF Next, Step, Ended, Control, Stop, Loop, Listening, Dispatch, Receive, Gate, ShutdownPhase,
           ShutdownSignal, Finish, CreateLock, CreateExisting, CreateBind, CreateBindFails,
           Precheck, Resolve, Recheck, RegisterCommit, UnregisterCommit, Lookup, TakeStopLock, Mark,
           TakeHandle, Join, Terminate, Snapshot, Exit, LeaveLoop, StopNext, Drained, ForceClose,
           Request, DispatchState, DispatchRoute, Answer, vars, daemonVars
<1>2. QED
  BY <1>1, Invariance, PTL DEF Spec, NoInstanceAfterShutdown

\* No two registrations of an instance share an id or a route (routes.rs:155-169).
THEOREM RegistrationsStayUnique == Spec => []RegistrationsAreUnique
<1>1. Init => RegistrationsAreUnique
  BY DEF Init, RegistrationsAreUnique
<1>2. TypeOK /\ RegistrationsAreUnique /\ [Next]_vars => RegistrationsAreUnique'
  <2> SUFFICES ASSUME TypeOK, RegistrationsAreUnique, [Next]_vars
               PROVE  RegistrationsAreUnique'
    OBVIOUS
  <2>1. ASSUME NEW t \in Tasks, RegisterCommit(t) PROVE RegistrationsAreUnique'
    <3>1. CASE UNCHANGED routes
      BY <3>1 DEF RegistrationsAreUnique
    <3>2. CASE ~UNCHANGED routes
      <4>1. KeyIsFree(obj[t], req[t].key)
        BY <2>1, <3>2 DEF RegisterCommit
      <4>2. \A j \in Insts : routes'[j] \subseteq
              IF j = obj[t] THEN routes[j] \cup {req[t].key} ELSE routes[j]
        BY <2>1, <3>2 DEF RegisterCommit, TypeOK
      <4>3. QED
        BY <4>1, <4>2 DEF KeyIsFree, RegistrationsAreUnique
    <3>3. QED
      BY <3>1, <3>2
  <2>2. ASSUME NEW t \in Tasks, UnregisterCommit(t) PROVE RegistrationsAreUnique'
    <3>1. \A j \in Insts : routes'[j] \subseteq routes[j]
      BY <2>2 DEF UnregisterCommit, TypeOK
    <3>2. QED
      BY <3>1 DEF RegistrationsAreUnique
  <2>3. CASE UNCHANGED routes
    BY <2>3 DEF RegistrationsAreUnique
  <2>4. QED
    BY <2>1, <2>2, <2>3
       DEF Next, Step, Ended, Control, Stop, Loop, Listening, Dispatch, Receive, Gate,
           ShutdownPhase, ShutdownSignal, Finish, CreateLock, CreateExisting, CreateBind,
           CreateBindFails, CreatePublish, Precheck, Resolve, Recheck, Lookup,
           TakeStopLock, Mark, TakeHandle, Join, Remove, Terminate, Snapshot, Exit,
           LeaveLoop, StopNext, Drained, ForceClose, Request, DispatchState,
           DispatchRoute, Answer, vars, instVars
<1>3. QED
  BY <1>1, <1>2, TypeCorrect, PTL DEF Spec

\* A create is answered with success for the incarnation that has the name
\* (daemon.rs:121-139, 185-187).
THEOREM CreatesAnswerTheLiveInstance == Spec => CreateAnswersTheLiveInstance
<1> DEFINE Answers ==
      \A t \in Tasks :
        req[t].kind = "create" /\ reply[t] # "ok" /\ reply'[t] = "ok"
          => /\ instances'[req[t].name] = obj'[t]
             /\ state'[obj'[t]] = "running" /\ made'[obj'[t]].cfg = req[t].cfg
<1>1. TypeOK /\ IInv /\ [Next]_vars => [Answers]_vars
  <2> SUFFICES ASSUME TypeOK, IInv, Next PROVE Answers
    BY DEF Answers
  <2> USE DEF Reply, Go
  <2>1. ASSUME NEW t \in Tasks, CreateExisting(t) PROVE Answers
    <3>1. t \in Workers /\ instances[req[t].name] \in Insts
      BY <2>1, NamedType DEF CreateExisting, Workers
    <3>2. /\ reply'[t] = ExistingReply(t, instances[req[t].name])
          /\ obj'[t] = instances[req[t].name] /\ UNCHANGED <<instances, state, made>>
      BY <2>1, <3>1 DEF CreateExisting, TypeOK, instVars
    <3>3. \A u \in Tasks \ {t} : reply'[u] = reply[u]
      BY <2>1, <3>1 DEF CreateExisting, TypeOK, Workers
    <3>4. QED
      BY <3>2, <3>3 DEF ExistingReply
  <2>2. ASSUME NEW t \in Tasks, CreatePublish(t) PROVE Answers
    BY <2>2, NamedType DEF CreatePublish, TypeOK, IInv, PcInv, PublishInv, Workers
  <2>3. ASSUME NEW t \in Tasks,
               \/ Gate(t) \/ CreateLock(t) \/ CreateBindFails(t) \/ Precheck(t)
               \/ Resolve(t) \/ Recheck(t) \/ Finish(t)
        PROVE  Answers
    BY <2>3 DEF Gate, CreateLock, CreateBindFails, Precheck, Resolve, Recheck, Finish,
       TypeOK, Workers
  <2>4. ASSUME NEW t \in Tasks, ShutdownSignal(t) PROVE Answers
    BY <2>4 DEF ShutdownSignal, TypeOK, IInv, PcInv, Workers
  <2>5. ASSUME NEW t \in Tasks, RegisterCommit(t) \/ UnregisterCommit(t) PROVE Answers
    <3>1. req[t].kind # "create" /\ \A u \in Tasks \ {t} : reply'[u] = reply[u]
      BY <2>5 DEF RegisterCommit, UnregisterCommit, TypeOK, Workers
    <3>2. QED
      BY <3>1
  <2>6. ASSUME NEW w \in Workers, Lookup(w) PROVE Answers
    BY <2>6 DEF Lookup, TypeOK, Workers
  <2>7. ASSUME NEW w \in Workers, Join(w) \/ Remove(w) PROVE Answers
    BY <2>7 DEF Join, Remove, TypeOK, IInv, PcInv, Workers
  <2>8. ASSUME NEW n \in Names, StopNext(n) PROVE Answers
    BY <2>8 DEF StopNext, TypeOK, Workers
  <2>9. CASE UNCHANGED reply
    BY <2>9
  <2> HIDE DEF Reply, Go
  <2>10. QED
    BY <2>1, <2>2, <2>3, <2>4, <2>5, <2>6, <2>7, <2>8, <2>9
       DEF Next, Step, Ended, Control, Stop, Loop, Listening, Dispatch, Receive,
           ShutdownPhase, CreateBind, TakeStopLock, Mark, TakeHandle, Terminate, Snapshot,
           Exit, LeaveLoop, Drained, ForceClose, Request, DispatchState, DispatchRoute,
           Answer, vars, workerVars
<1>2. QED
  BY <1>1, Invariance, PTL DEF Spec, CreateAnswersTheLiveInstance

-----------------------------------------------------------------------------
(***************************************************************************)
(* Dispatch and shutdown need a little more.                               *)
(***************************************************************************)

\* A dispatch that reads the routes holds the lock of its instance's state.
DispatchInv ==
  \A c \in Conns :
    /\ cpc[c] # "idle" => cobj[c] \in Insts
    /\ cpc[c] = "routes" => stateLock[cobj[c]] = c /\ state[cobj[c]] = "running"

\* A stop waits for that lock (routes.rs:246-259, daemon.rs:221).
THEOREM DispatchesAreTimely == Spec => []DispatchOnlyWhileRunning
<1>1. Init => DispatchInv
  BY DEF Init, DispatchInv
<1>2. TypeOK /\ DispatchInv /\ [Next]_vars => DispatchInv'
  <2> SUFFICES ASSUME TypeOK, DispatchInv, [Next]_vars PROVE DispatchInv'
    OBVIOUS
  <2>1. ASSUME NEW w \in Workers, Mark(w) PROVE DispatchInv'
    BY <2>1 DEF Mark, LockStateBriefly, DispatchInv, TypeOK, connVars
  <2>2. ASSUME NEW t \in Tasks, NEW i \in Insts, CreateBind(t, i) PROVE DispatchInv'
    BY <2>2 DEF CreateBind, DispatchInv, TypeOK, connVars
  <2>3. ASSUME NEW i \in Insts, NEW b \in BOOLEAN, ForceClose(i, b) PROVE DispatchInv'
    BY <2>3 DEF ForceClose, DispatchInv, TypeOK
  <2>4. ASSUME NEW c \in Conns, NEW i \in Insts, Request(c, i) PROVE DispatchInv'
    BY <2>4 DEF Request, DispatchInv, TypeOK, instVars
  <2>5. ASSUME NEW c \in Conns, DispatchState(c) PROVE DispatchInv'
    BY <2>5 DEF DispatchState, KeepState, DispatchInv, TypeOK
  <2>6. ASSUME NEW c \in Conns, NEW b \in BOOLEAN, DispatchRoute(c, b) PROVE DispatchInv'
    BY <2>6 DEF DispatchRoute, DispatchInv, TypeOK
  <2>7. ASSUME NEW c \in Conns, Answer(c) PROVE DispatchInv'
    BY <2>7 DEF Answer, DispatchInv, TypeOK, instVars
  <2>8. CASE UNCHANGED <<state, stateLock, cpc, cobj>>
    BY <2>8 DEF DispatchInv
  <2>9. QED
    BY <2>1, <2>2, <2>3, <2>4, <2>5, <2>6, <2>7, <2>8
       DEF Next, Step, Ended, Control, Stop, Loop, Listening, Dispatch, Receive, Gate,
           ShutdownPhase, ShutdownSignal, Finish, CreateLock, CreateExisting,
           CreateBindFails, CreatePublish, Precheck, Resolve, Recheck, RegisterCommit,
           UnregisterCommit, Lookup, TakeStopLock, TakeHandle, Join, Remove, Terminate,
           Snapshot, Exit, LeaveLoop, StopNext, Drained, vars, instVars, connVars
<1>3. DispatchInv => DispatchOnlyWhileRunning
  BY DEF DispatchInv, DispatchOnlyWhileRunning
<1>4. QED
  BY <1>1, <1>2, <1>3, TypeCorrect, PTL DEF Spec

\* The supervisor loop, past its last accept.  An instance that has a name has
\* still to be stopped or is the one that is being stopped.
MainStopping == pc[Main] \in {"lookup", "stop_lock", "mark", "take", "join", "remove"}

MainInv ==
  /\ MainStopping \/ pc[Main] \in {"accept", "snapshot", "next", "exited"}
  /\ MainStopping => req[Main].kind = "stop"
  /\ pc[Main] # "accept" => phase = "shutting_down"
  /\ MainStopping \/ pc[Main] \in {"next", "exited"} =>
       \A n \in Names : instances[n] # NoInst =>
         \/ n \in toStop
         \/ /\ MainStopping /\ req[Main].name = n
            /\ pc[Main] = "lookup" \/ obj[Main] = instances[n]
  /\ pc[Main] = "exited" => toStop = {}

LEMMA MainInvStep == TypeOK /\ IInv /\ MainInv /\ [Next]_vars => MainInv'
<1> SUFFICES ASSUME TypeOK, IInv, MainInv, [Next]_vars PROVE MainInv'
  OBVIOUS
<1> USE DEF TypeOK, MainInv, MainStopping, Go, Reply, LockDaemonBriefly, Workers,
            daemonVars, instVars, workerVars, connVars
<1>1. ASSUME NEW t \in Tasks, CreatePublish(t) PROVE MainInv'
  BY <1>1 DEF CreatePublish, IInv, CheckedInv, CreatePcs
<1>2. ASSUME NEW t \in Tasks, ShutdownPhase(t) PROVE MainInv'
  BY <1>2 DEF ShutdownPhase
<1>3. ASSUME NEW t \in Tasks,
             \/ \E r \in Requests : Receive(t, r)
             \/ Gate(t) \/ ShutdownSignal(t) \/ Finish(t) \/ CreateLock(t)
             \/ CreateExisting(t) \/ CreateBindFails(t) \/ Precheck(t) \/ Resolve(t)
             \/ Recheck(t) \/ RegisterCommit(t) \/ UnregisterCommit(t)
             \/ \E i \in Insts : CreateBind(t, i)
      PROVE  MainInv'
  <2>1. /\ UNCHANGED <<phase, instances, toStop>>
        /\ pc'[Main] = pc[Main] /\ req'[Main] = req[Main] /\ obj'[Main] = obj[Main]
    BY <1>3 DEF Receive, Gate, ShutdownSignal, Finish, CreateLock, CreateExisting,
       CreateBindFails, Precheck, Resolve, Recheck, RegisterCommit, UnregisterCommit,
       CreateBind
  <2>2. QED
    BY <2>1
<1>4. ASSUME NEW w \in Workers, Lookup(w) PROVE MainInv'
  BY <1>4, NamedType DEF Lookup
<1>5. ASSUME NEW w \in Workers, TakeStopLock(w) \/ Mark(w) \/ TakeHandle(w) \/ Join(w)
      PROVE  MainInv'
  BY <1>5 DEF TakeStopLock, Mark, TakeHandle, Join
<1>6. ASSUME NEW w \in Workers, Remove(w) PROVE MainInv'
  BY <1>6, NamedType DEF Remove, IsCurrent
<1>7. ASSUME NEW n \in Names, StopNext(n) PROVE MainInv'
  BY <1>7, StopRequestType DEF StopNext
<1>8. CASE Snapshot
  BY <1>8 DEF Snapshot, NamesToStop
<1>9. CASE Exit
  BY <1>9 DEF Exit
<1>10. ASSUME NEW b \in BOOLEAN, LeaveLoop(b) PROVE MainInv'
  BY <1>10 DEF LeaveLoop
<1>11. CASE UNCHANGED <<phase, instances, pc, req, obj, toStop>>
  BY <1>11
<1> HIDE DEF TypeOK, MainInv, MainStopping, Go, Reply, LockDaemonBriefly, Workers,
             daemonVars, instVars, workerVars, connVars
<1>12. QED
  BY <1>1, <1>2, <1>3, <1>4, <1>5, <1>6, <1>7, <1>8, <1>9, <1>10, <1>11
     DEF Next, Step, Ended, Control, Stop, Loop, Listening, Dispatch, Terminate, Drained,
         ForceClose, Request, DispatchState, DispatchRoute, Answer, vars, workerVars,
         daemonVars

\* The daemon exits with no listener and no instance left (control.rs:44-45,
\* daemon.rs:251-259).
THEOREM ExitsLeaveNothing == Spec => []ExitLeavesNothing
<1>1. Init => MainInv
  BY DEF Init, MainInv, MainStopping, Workers
<1>2. TypeOK /\ IInv /\ MainInv => ExitLeavesNothing
  <2> SUFFICES ASSUME TypeOK, IInv, MainInv, Exited, NEW i \in Insts
               PROVE  ~Live(i) /\ \A n \in Names : instances[n] # i
    BY DEF ExitLeavesNothing
  <2>1. \A n \in Names : instances[n] = NoInst
    BY DEF MainInv, MainStopping, Exited
  <2>2. ~Publishing(i)
    BY DEF MainInv, Exited, IInv, CheckedInv, CreatePcs, Publishing
  <2>3. Live(i) => made[i].name \in Names
    BY RequestFields DEF TypeOK
  <2>4. QED
    BY <2>1, <2>2, <2>3 DEF IInv, LiveListenerIsRegistered
<1>3. QED
  BY <1>1, <1>2, MainInvStep, Invariance, PTL DEF Spec

-----------------------------------------------------------------------------
(***************************************************************************)
(* Supervisor implements NamedServers.  A step of the supervisor is one of *)
(* NamedServers or changes nothing of what NamedServers sees; the          *)
(* inductive invariant says which.                                         *)
(***************************************************************************)

\* What NamedServers sees of a step, besides who publishes.
Seen == <<phase, instances, state, listener, routes>>

LEMMA UnseenStep ==
  ASSUME UNCHANGED Seen, \A i \in Insts : Publishing(i)' <=> Publishing(i)
  PROVE  UNCHANGED Promise!vars
BY DEF Seen, Promise!vars, Live

\* Publishing is a matter of the worker that steps.
LEMMA PublishingKept ==
  ASSUME TypeOK, TypeOK', NEW w \in Workers,
         pc[w] # "create_publish", pc'[w] # "create_publish",
         \A v \in Workers \ {w} : pc'[v] = pc[v] /\ obj'[v] = obj[v]
  PROVE  \A i \in Insts : Publishing(i)' <=> Publishing(i)
BY DEF Publishing, Workers

\* A live incarnation that is published has its name.
LEMMA PublishedHasItsName ==
  ASSUME TypeOK, IInv, NEW i \in Insts, Live(i), ~Publishing(i)
  PROVE  made[i].name \in Names /\ instances[made[i].name] = i
BY RequestFields DEF TypeOK, IInv, LiveListenerIsRegistered

\* The steps that create, stop, free and close.
LEMMA CreateSeen ==
  ASSUME TypeOK, TypeOK', IInv, NEW t \in Tasks, CreatePublish(t)
  PROVE  Promise!Next
<1>0. t \in Workers /\ req[t].name \in Names /\ obj[t] \in Insts
  BY NamedType DEF CreatePublish, TypeOK, IInv, RefInv, Workers
<1> SUFFICES ASSUME NEW n \in Names, n = req[t].name, NEW i \in Insts, i = obj[t]
             PROVE  Promise!Next
  BY <1>0
<1>1. pc[t] = "create_publish"
  BY DEF CreatePublish
<1>2. phase = "running" /\ instances[n] = NoInst /\ state[i] = "running" /\ Live(i)
  BY <1>0, <1>1 DEF IInv, PublishInv, CheckedInv, CreatePcs, StateInv, Live
<1>3. Publishing(i)
  BY <1>1 DEF Publishing
<1>4. \A j \in Insts : Publishing(j)' <=> Publishing(j) /\ j # i
  BY <1>0, <1>1 DEF Publishing, CreatePublish, Reply, Go, TypeOK, IInv, PublishInv, Workers
<1>5. UNCHANGED <<phase, state, listener, routes>>
  BY DEF CreatePublish
<1>6. instances' = [instances EXCEPT ![n] = i]
  BY DEF CreatePublish
<1>7. Promise!Create(n, i)
  BY <1>1, <1>2, <1>3, <1>4, <1>5, <1>6 DEF Promise!Create, Live
<1>8. QED
  BY <1>7 DEF Promise!Next

LEMMA BindUnseen ==
  ASSUME TypeOK, TypeOK', IInv, NEW t \in Tasks, NEW i \in Insts, CreateBind(t, i)
  PROVE  UNCHANGED Promise!vars
<1>1. /\ UNCHANGED <<phase, instances, routes>> /\ state[i] = "unborn"
      /\ \A j \in Insts \ {i} : state'[j] = state[j] /\ listener'[j] = listener[j]
  BY DEF CreateBind, TypeOK, daemonVars
<1>2. Publishing(i)'
  BY DEF CreateBind, Go, Publishing, TypeOK, Workers
<1>3. \A j \in Insts \ {i} : Publishing(j)' <=> Publishing(j)
  BY DEF CreateBind, Go, Publishing, TypeOK, Workers
<1>4. ~Live(i)
  BY <1>1 DEF IInv, StateInv, Live
<1>5. QED
  BY <1>1, <1>2, <1>3, <1>4 DEF Promise!vars, Live

LEMMA StopSeen ==
  ASSUME TypeOK, TypeOK', IInv, NEW w \in Workers, Mark(w)
  PROVE  [Promise!Next]_(Promise!vars)
<1>1. obj[w] \in Insts /\ pc[w] = "mark" /\ pc'[w] = "take"
  BY DEF Mark, Go, TypeOK, IInv, RefInv, InstPcs, LockedPcs
<1> SUFFICES ASSUME NEW i \in Insts, i = obj[w] PROVE [Promise!Next]_(Promise!vars)
  BY <1>1
<1>2. \A j \in Insts : Publishing(j)' <=> Publishing(j)
  BY <1>1, PublishingKept DEF Mark, Go, TypeOK
<1>3. UNCHANGED <<phase, instances, routes>>
  BY DEF Mark, daemonVars
<1>4. CASE state[i] # "running"
  BY <1>2, <1>3, <1>4, UnseenStep DEF Mark, Seen
<1>5. CASE state[i] = "running"
  <2>1. Live(i) /\ ~Publishing(i)
    BY <1>1, <1>5 DEF IInv, StateInv, PublishInv, Live, Publishing, Workers
  <2>2. made[i].name \in Names /\ instances[made[i].name] = i
    BY <1>1, <2>1, PublishedHasItsName
  <2>3. state' = [state EXCEPT ![i] = "stopping"] /\ listener' = [listener EXCEPT ![i] = "draining"]
    BY <1>5 DEF Mark
  <2>4. PICK n \in Names : instances[n] = i
    BY <2>2
  <2>5. Promise!Stop(n)
    BY <1>1, <1>2, <1>3, <1>5, <2>1, <2>3, <2>4 DEF Promise!Stop, Live, TypeOK
  <2>6. QED
    BY <2>5 DEF Promise!Next
<1>6. QED
  BY <1>4, <1>5

LEMMA FreeSeen ==
  ASSUME TypeOK, TypeOK', IInv, NEW w \in Workers, Remove(w)
  PROVE  [Promise!Next]_(Promise!vars)
<1> DEFINE n == req[w].name  i == obj[w]
<1>1. i \in Insts /\ n \in Names /\ pc[w] = "remove" /\ pc'[w] # "create_publish"
  BY NamedType DEF Remove, Reply, Go, TypeOK, IInv, RefInv, InstPcs, LockedPcs
<1>2. \A j \in Insts : Publishing(j)' <=> Publishing(j)
  BY <1>1, PublishingKept DEF Remove, Reply, Go, TypeOK
<1>3. UNCHANGED <<phase, state, listener, routes>>
  BY DEF Remove
<1>4. CASE ~IsCurrent(w)
  BY <1>2, <1>3, <1>4, UnseenStep DEF Remove, Seen
<1>5. CASE IsCurrent(w)
  <2>1. state[i] = "stopping" /\ ~Live(i) /\ ~Publishing(i)
    BY <1>1 DEF IInv, HandleInv, PublishInv, Publishing, Workers
  <2>2. Promise!Free(n)
    BY <1>1, <1>2, <1>3, <1>5, <2>1 DEF Promise!Free, Remove, IsCurrent, Live
  <2>3. QED
    BY <1>1, <2>2 DEF Promise!Next
<1>6. QED
  BY <1>4, <1>5

LEMMA CloseSeen ==
  ASSUME TypeOK, TypeOK', IInv, NEW i \in Insts,
         listener[i] = "draining", listener'[i] \in {"ended", "failed"},
         \A j \in Insts \ {i} : listener'[j] = listener[j],
         UNCHANGED <<phase, instances, state, routes, pc, obj>>
  PROVE  Promise!Next
<1>1. Live(i) /\ state[i] # "running" /\ ~Live(i)'
  BY DEF IInv, StateInv, Live
<1>2. ~Publishing(i)
  BY <1>1 DEF IInv, PublishInv, Publishing
<1>3. \A j \in Insts : Publishing(j)' <=> Publishing(j)
  BY DEF Publishing
<1>4. made[i].name \in Names /\ instances[made[i].name] = i
  BY <1>1, <1>2, PublishedHasItsName
<1>5. Promise!Close(made[i].name)
  BY <1>1, <1>2, <1>3, <1>4 DEF Promise!Close, Live
<1>6. QED
  BY <1>4, <1>5 DEF Promise!Next

\* register and unregister change the routes of a running server.
LEMMA ChangeSeen ==
  ASSUME TypeOK, TypeOK', IInv, NEW t \in Tasks, RegisterCommit(t) \/ UnregisterCommit(t)
  PROVE  [Promise!Next]_(Promise!vars)
<1>0. /\ t \in Workers /\ obj[t] \in Insts /\ req[t].key \in RouteKeys
      /\ pc[t] = "commit" /\ pc'[t] # "create_publish"
  BY RequestFields DEF RegisterCommit, UnregisterCommit, Reply, Go, TypeOK, IInv, RefInv,
     InstPcs, LockedPcs, Workers
<1> SUFFICES ASSUME NEW i \in Insts, i = obj[t], NEW k \in RouteKeys, k = req[t].key
             PROVE  [Promise!Next]_(Promise!vars)
  BY <1>0
<1>1. /\ UNCHANGED <<phase, instances, state, listener, obj>>
      /\ \A v \in Workers \ {t} : pc'[v] = pc[v]
  BY <1>0 DEF RegisterCommit, UnregisterCommit, Reply, Go, TypeOK
<1>2. \A j \in Insts : Publishing(j)' <=> Publishing(j)
  BY <1>0, <1>1, PublishingKept
<1>3. state[i] = "running" /\ Live(i) /\ ~Publishing(i)
  BY <1>0 DEF IInv, CheckedInv, StateInv, PublishInv, Live, Publishing, Workers
<1>4. PICK n \in Names : instances[n] = i
  BY <1>3, PublishedHasItsName
<1>5. CASE UNCHANGED routes
  BY <1>1, <1>2, <1>5, UnseenStep DEF Seen
<1>6. CASE ~UNCHANGED routes /\ RegisterCommit(t)
  <2>1. phase = "running" /\ KeyIsFree(i, k) /\ routes' = [routes EXCEPT ![i] = @ \cup {k}]
    BY <1>6 DEF RegisterCommit, PhaseStillRunning
  <2>2. Promise!Register(n, k)
    BY <1>1, <1>2, <1>3, <1>4, <2>1 DEF Promise!Register, KeyIsFree, Live
  <2>3. QED
    BY <2>2 DEF Promise!Next
<1>7. CASE ~UNCHANGED routes /\ UnregisterCommit(t)
  <2>1. phase = "running"
    BY <1>7 DEF UnregisterCommit, PhaseStillRunning
  <2>2. \E e \in routes[i] : routes' = [routes EXCEPT ![i] = @ \ {e}]
    BY <1>7 DEF UnregisterCommit
  <2>3. PICK e \in RouteKeys : e \in routes[i] /\ routes' = [routes EXCEPT ![i] = @ \ {e}]
    BY <2>2 DEF TypeOK
  <2>4. Promise!Unregister(n, e)
    BY <1>1, <1>2, <1>3, <1>4, <2>1, <2>3 DEF Promise!Unregister, Live
  <2>5. QED
    BY <2>4 DEF Promise!Next
<1>8. QED
  BY <1>5, <1>6, <1>7

\* The phase changes by itself.
LEMMA ShutdownSeen ==
  ASSUME TypeOK, TypeOK', NEW w \in Workers, pc[w] # "create_publish",
         pc'[w] # "create_publish", \A v \in Workers \ {w} : pc'[v] = pc[v],
         UNCHANGED <<instances, state, listener, routes, obj>>, phase' = "shutting_down"
  PROVE  Promise!Next
<1>1. \A j \in Insts : Publishing(j)' <=> Publishing(j)
  BY PublishingKept
<1>2. Promise!Shutdown
  BY <1>1 DEF Promise!Shutdown, Live
<1>3. QED
  BY <1>2 DEF Promise!Next

\* A worker's step that changes nothing but what the worker is doing.
LEMMA WorkerUnseen ==
  ASSUME TypeOK, TypeOK', NEW w \in Workers, UNCHANGED Seen, pc[w] # "create_publish",
         pc'[w] # "create_publish",
         \A v \in Workers \ {w} : pc'[v] = pc[v] /\ obj'[v] = obj[v]
  PROVE  UNCHANGED Promise!vars
BY PublishingKept, UnseenStep

-----------------------------------------------------------------------------
(***************************************************************************)
(* Every step of the supervisor.                                           *)
(***************************************************************************)
LEMMA RefinementStep ==
  ASSUME TypeOK, TypeOK', IInv, [Next]_vars
  PROVE  [Promise!Next]_(Promise!vars)
<1> USE DEF Go, Reply, LockDaemonBriefly, daemonVars, instVars, workerVars, connVars
<1>1. ASSUME NEW t \in Tasks,
             \/ \E r \in Requests : Receive(t, r)
             \/ Gate(t) \/ ShutdownSignal(t) \/ Finish(t)
             \/ CreateLock(t) \/ CreateExisting(t) \/ CreateBindFails(t)
             \/ Precheck(t) \/ Resolve(t) \/ Recheck(t)
      PROVE  UNCHANGED Promise!vars
  <2>1. UNCHANGED Seen
    BY <1>1 DEF Receive, Gate, ShutdownSignal, Finish, CreateLock, CreateExisting,
       CreateBindFails, Precheck, Resolve, Recheck, Seen
  <2>2. pc[t] # "create_publish" /\ t \in Workers
    BY <1>1 DEF Receive, Gate, ShutdownSignal, Finish, CreateLock, CreateExisting,
       CreateBindFails, Precheck, Resolve, Recheck, Workers
  <2>3. pc'[t] # "create_publish"
    BY <1>1, <2>2 DEF Receive, Gate, ShutdownSignal, Finish, CreateLock, CreateExisting,
       CreateBindFails, Precheck, Resolve, Recheck, TypeOK
  <2>4. \A v \in Workers \ {t} : pc'[v] = pc[v] /\ obj'[v] = obj[v]
    BY <1>1, <2>2 DEF Receive, Gate, ShutdownSignal, Finish, CreateLock, CreateExisting,
       CreateBindFails, Precheck, Resolve, Recheck, TypeOK
  <2>5. QED
    BY <2>1, <2>2, <2>3, <2>4, WorkerUnseen
<1>2. ASSUME NEW w \in Workers, Lookup(w) \/ TakeStopLock(w) \/ TakeHandle(w) \/ Join(w)
      PROVE  UNCHANGED Promise!vars
  <2>1. UNCHANGED Seen /\ pc[w] # "create_publish"
    BY <1>2 DEF Lookup, TakeStopLock, TakeHandle, Join, Seen
  <2>2. pc'[w] # "create_publish"
    BY <1>2 DEF Lookup, TakeStopLock, TakeHandle, Join, TypeOK
  <2>3. \A v \in Workers \ {w} : pc'[v] = pc[v] /\ obj'[v] = obj[v]
    BY <1>2 DEF Lookup, TakeStopLock, TakeHandle, Join, TypeOK
  <2>4. QED
    BY <2>1, <2>2, <2>3, WorkerUnseen
<1>3. ASSUME \/ Snapshot \/ Exit
             \/ \E n \in Names : StopNext(n)
      PROVE  UNCHANGED Promise!vars
  <2>1. UNCHANGED Seen /\ pc[Main] # "create_publish" /\ Main \in Workers
    BY <1>3 DEF Snapshot, Exit, StopNext, Seen, Workers
  <2>2. pc'[Main] # "create_publish"
    BY <1>3, <2>1 DEF Snapshot, Exit, StopNext, TypeOK
  <2>3. \A v \in Workers \ {Main} : pc'[v] = pc[v] /\ obj'[v] = obj[v]
    BY <1>3, <2>1 DEF Snapshot, Exit, StopNext, TypeOK
  <2>4. QED
    BY <2>1, <2>2, <2>3, WorkerUnseen
<1>4. ASSUME \/ Terminate \/ UNCHANGED vars
             \/ \E c \in Conns :
                  \/ \E i \in Insts : Request(c, i)
                  \/ DispatchState(c) \/ Answer(c)
                  \/ \E b \in BOOLEAN : DispatchRoute(c, b)
      PROVE  UNCHANGED Promise!vars
  <2>1. UNCHANGED Seen /\ UNCHANGED <<pc, obj>>
    BY <1>4 DEF Terminate, Request, DispatchState, Answer, DispatchRoute, Seen, vars
  <2>2. \A i \in Insts : Publishing(i)' <=> Publishing(i)
    BY <2>1 DEF Publishing
  <2>3. QED
    BY <2>1, <2>2, UnseenStep
<1>5. ASSUME NEW t \in Tasks, ShutdownPhase(t)
      PROVE  Promise!Next
  <2>1. t \in Workers
    BY DEF Workers
  <2>2. QED
    BY <1>5, <2>1, ShutdownSeen DEF ShutdownPhase, TypeOK
<1>6. ASSUME NEW b \in BOOLEAN, LeaveLoop(b)
      PROVE  Promise!Next
  <2>1. Main \in Workers
    BY DEF Workers
  <2>2. QED
    BY <1>6, <2>1, ShutdownSeen DEF LeaveLoop, TypeOK
<1>7. ASSUME NEW i \in Insts, Drained(i) \/ \E b \in BOOLEAN : ForceClose(i, b)
      PROVE  Promise!Next
  <2>1. /\ listener[i] = "draining" /\ listener'[i] \in {"ended", "failed"}
        /\ \A j \in Insts \ {i} : listener'[j] = listener[j]
        /\ UNCHANGED <<phase, instances, state, routes, pc, obj>>
    BY <1>7 DEF Drained, ForceClose, TypeOK
  <2>2. QED
    BY <2>1, CloseSeen
<1> HIDE DEF Go, Reply, LockDaemonBriefly, daemonVars, instVars, workerVars, connVars
<1>8. QED
  BY <1>1, <1>2, <1>3, <1>4, <1>5, <1>6, <1>7,
     CreateSeen, BindUnseen, StopSeen, FreeSeen, ChangeSeen
     DEF Next, Step, Ended, Control, Stop, Loop, Listening, Dispatch

\* Clients see named servers (daemon.rs:103-259, routes.rs:135-200), for every
\* number of concurrent requests.
THEOREM SupervisorKeepsItsPromise == Spec => KeepsItsPromise
<1>1. Init => Promise!Init
  BY DEF Init, Promise!Init, Live, Publishing, Workers
<1>2. QED
  BY <1>1, Invariance, RefinementStep, PTL DEF Spec, KeepsItsPromise, Promise!Spec

=============================================================================
