------------------------------ MODULE Supervisor ------------------------------
(***************************************************************************)
(* The daemon's supervisor: the map of named instances, the control        *)
(* requests that create, stop and change them, the HTTP requests that the  *)
(* instances dispatch, and the shutdown of the daemon.                     *)
(* Source: src/src/server/daemon.rs, control.rs and routes.rs.             *)
(*                                                                         *)
(* Each control connection is a tokio task that serves one request; a Task *)
(* here is such a connection, and becomes idle again when the next client  *)
(* connects.  Main is the task that runs run_supervisor_loop.  A worker's  *)
(* pc names the await it is suspended at: everything between two awaits    *)
(* is one step.  A lock that the code holds across an await is a variable  *)
(* (the daemon lock, the stop locks, the state locks); one that it         *)
(* releases before the next await is held within a step only (routes,      *)
(* listener_task).                                                         *)
(***************************************************************************)
EXTENDS Naturals, FiniteSets

CONSTANTS
  Tasks,      \* control connections
  Main,       \* the supervisor loop
  Conns,      \* connections to the public listeners
  Names,      \* instance names
  Cfgs,       \* requested host and port of an instance
  Ids,        \* agent ids
  Routes,     \* public routes
  Insts,      \* incarnations (Arc<DaemonInstance>); when used up, binds fail
  Requests,   \* the control requests that clients send
  NoInst,     \* no incarnation
  Nobody      \* the owner of a free lock

Workers == Tasks \cup {Main}

Kinds == {"create", "stop", "register", "unregister", "shutdown"}

RouteKeys == [id : Ids, route : Routes]

RequestType == [kind : Kinds, name : Names, cfg : Cfgs, key : RouteKeys]

ASSUME NonEmptyAssumption == RequestType # {}
ASSUME RequestsAssumption == Requests \subseteq RequestType
ASSUME MainAssumption     == Main \notin Tasks
ASSUME NoInstAssumption   == NoInst \notin Insts
ASSUME NobodyAssumption   == Nobody \notin Workers \cup Conns

VARIABLES
  phase,         \* SupervisorState.phase
  instances,     \* SupervisorState.instances: name -> incarnation
  daemonLock,    \* owner of the mutex around SupervisorState
  shutdownWatch, \* the value of the daemon's shutdown watch channel
  made,          \* the request that made an incarnation: its name and configuration
  state,         \* DaemonInstance.state; "unborn" before the incarnation exists
  stateLock,     \* owner of the mutex around DaemonInstance.state
  stopLock,      \* owner of DaemonInstance.stop_lock
  handle,        \* whether DaemonInstance.listener_task is Some
  listener,      \* the task that runs serve_with_shutdown
  cancel,        \* the value of DaemonInstance.cancel
  routes,        \* keys of DaemonInstance.routes
  pc, req, obj,  \* a worker's await, its request and its Arc<DaemonInstance>
  reply,         \* the response a worker sent
  toStop,        \* names that stop_all_instances has still to stop
  cpc, cobj      \* a public connection's await, and its instance

daemonVars   == <<phase, instances, daemonLock, shutdownWatch>>
instVars     == <<made, state, stateLock, stopLock, handle, listener,
                  cancel, routes>>
workerVars   == <<pc, req, obj, reply, toStop>>
connVars     == <<cpc, cobj>>
vars         == <<daemonVars, instVars, workerVars, connVars>>

-----------------------------------------------------------------------------

States     == {"unborn", "running", "stopping"}
Listeners  == {"none", "serving", "draining", "ended", "failed"}
Replies    == {"none", "ok", "not_found", "conflict", "stopping", "shutting_down",
               "unavailable", "failed"}
WorkerPcs  == {"idle", "gate", "create_lock", "create_bind", "create_publish",
               "lookup", "precheck", "resolve", "stop_lock", "recheck", "commit",
               "mark", "take", "join", "remove", "phase", "signal", "replied",
               "accept", "snapshot", "next", "exited"}
ConnPcs    == {"idle", "state", "routes", "agent"}

TypeOK ==
  /\ phase \in {"running", "shutting_down"}
  /\ instances \in [Names -> Insts \cup {NoInst}]
  /\ daemonLock \in Workers \cup {Nobody}
  /\ shutdownWatch \in BOOLEAN
  /\ made \in [Insts -> RequestType]
  /\ state \in [Insts -> States]
  /\ stateLock \in [Insts -> Conns \cup {Nobody}]
  /\ stopLock \in [Insts -> Workers \cup {Nobody}]
  /\ handle \in [Insts -> BOOLEAN]
  /\ listener \in [Insts -> Listeners]
  /\ cancel \in [Insts -> BOOLEAN]
  /\ routes \in [Insts -> SUBSET RouteKeys]
  /\ pc \in [Workers -> WorkerPcs]
  /\ req \in [Workers -> RequestType]
  /\ obj \in [Workers -> Insts \cup {NoInst}]
  /\ reply \in [Workers -> Replies]
  /\ toStop \in SUBSET Names
  /\ cpc \in [Conns -> ConnPcs]
  /\ cobj \in [Conns -> Insts \cup {NoInst}]

\* The values of fields that nothing has set yet; no step reads them.
AnyRequest == CHOOSE r \in RequestType : TRUE

Init ==
  /\ phase = "running"
  /\ instances = [n \in Names |-> NoInst]
  /\ daemonLock = Nobody
  /\ shutdownWatch = FALSE
  /\ made = [i \in Insts |-> AnyRequest]
  /\ state = [i \in Insts |-> "unborn"]
  /\ stateLock = [i \in Insts |-> Nobody]
  /\ stopLock = [i \in Insts |-> Nobody]
  /\ handle = [i \in Insts |-> FALSE]
  /\ listener = [i \in Insts |-> "none"]
  /\ cancel = [i \in Insts |-> FALSE]
  /\ routes = [i \in Insts |-> {}]
  /\ pc = [w \in Workers |-> IF w = Main THEN "accept" ELSE "idle"]
  /\ req = [w \in Workers |-> AnyRequest]
  /\ obj = [w \in Workers |-> NoInst]
  /\ reply = [w \in Workers |-> "none"]
  /\ toStop = {}
  /\ cpc = [c \in Conns |-> "idle"]
  /\ cobj = [c \in Conns |-> NoInst]

-----------------------------------------------------------------------------
(***************************************************************************)
(* Helpers.  A definition whose comment starts with "Mutation" changes the *)
(* one that follows it the way a slip in the code would; the project's     *)
(* manifest pairs it with the property that it breaks.                     *)
(***************************************************************************)
Go(w, l) == pc' = [pc EXCEPT ![w] = l]

\* stop_all_instances discards the result and goes on with the next name; a
\* connection's task writes it to its client.
Reply(w, r) ==
  /\ Go(w, IF w = Main THEN "next" ELSE "replied")
  /\ reply' = [reply EXCEPT ![w] = r]

\* `state.lock().await` whose guard is dropped before the next await.
LockDaemonBriefly == daemonLock = Nobody /\ UNCHANGED daemonLock

\* Mutation: only handle_request looks at the phase.
PhaseNotRechecked == TRUE

\* The second look at the phase that create_instance, register and unregister
\* take under the daemon lock, handle_request's being stale by then.
PhaseStillRunning == phase = "running"

\* `instance.state.lock().await` whose guard is dropped before the next await.
LockStateBriefly(i) == stateLock[i] = Nobody

\* Mutation: the second ensure_running of register and unregister is dropped.
NotRechecked(i) == TRUE

\* ensure_running under the stop lock.
StateStillRunning(i) == state[i] = "running"

\* Mutation: nothing serialises the operations on an instance.
NoStopLock(i) == TRUE

StopLockIsFree(i) == stopLock[i] = Nobody

\* Mutation: a guard of the stop lock is never dropped.
LeakStopLock(i) == stopLock' = stopLock

ReleaseStopLock(i) == stopLock' = [stopLock EXCEPT ![i] = Nobody]

-----------------------------------------------------------------------------
(***************************************************************************)
(* handle_protocol_connection and handle_request.                          *)
(***************************************************************************)

\* A connection is accepted and its request read.
Receive(t, r) ==
  /\ pc[t] = "idle" /\ pc[Main] = "accept"
  /\ req' = [req EXCEPT ![t] = r]
  /\ Go(t, IF r.kind = "shutdown" THEN "phase" ELSE "gate")
  /\ UNCHANGED <<daemonVars, instVars, obj, reply, toStop, connVars>>

\* handle_request refuses mutations once the daemon is shutting down.
Gate(t) ==
  /\ pc[t] = "gate"
  /\ LockDaemonBriefly
  /\ IF phase = "running"
     THEN /\ Go(t, IF req[t].kind = "create" THEN "create_lock" ELSE "lookup")
          /\ UNCHANGED reply
     ELSE Reply(t, "shutting_down")
  /\ UNCHANGED <<phase, instances, shutdownWatch, instVars, req, obj, toStop, connVars>>

\* ProtocolRequest::Shutdown: the phase changes under the lock, the response is
\* written, and only then is the watch set.
ShutdownPhase(t) ==
  /\ pc[t] = "phase"
  /\ LockDaemonBriefly
  /\ phase' = "shutting_down"
  /\ Go(t, "signal")
  /\ UNCHANGED <<instances, shutdownWatch, instVars, req, obj, reply, toStop, connVars>>

ShutdownSignal(t) ==
  /\ pc[t] = "signal"
  /\ shutdownWatch' = TRUE
  /\ Reply(t, "ok")
  /\ UNCHANGED <<phase, instances, daemonLock, instVars, req, obj, toStop, connVars>>

\* The task ends; its client's slot may be used by a new connection.
Finish(t) ==
  /\ pc[t] = "replied" /\ t # Main
  /\ Go(t, "idle")
  /\ req' = [req EXCEPT ![t] = AnyRequest]
  /\ obj' = [obj EXCEPT ![t] = NoInst]
  /\ reply' = [reply EXCEPT ![t] = "none"]
  /\ UNCHANGED <<daemonVars, instVars, toStop, connVars>>

-----------------------------------------------------------------------------
(***************************************************************************)
(* create_instance holds the daemon lock from its first check to its last  *)
(* write, across the binding of the listener.                              *)
(***************************************************************************)
CreateLock(t) ==
  /\ pc[t] = "create_lock"
  /\ daemonLock = Nobody
  /\ IF PhaseStillRunning
     THEN daemonLock' = t /\ Go(t, "create_bind") /\ UNCHANGED reply
     ELSE Reply(t, "shutting_down") /\ UNCHANGED daemonLock
  /\ UNCHANGED <<phase, instances, shutdownWatch, instVars, req, obj, toStop, connVars>>

\* Mutation: an existing instance's state is not looked at.
AnswerStopping(t, i) == IF made[i].cfg = req[t].cfg THEN "ok" ELSE "conflict"

\* Mutation: the instance's state is sent as the outcome.
AnswerState(t, i) == state[i]

\* What create_instance answers when the name is taken by incarnation i.
ExistingReply(t, i) ==
  IF state[i] # "running" THEN "stopping"
  ELSE IF made[i].cfg = req[t].cfg THEN "ok" ELSE "conflict"

CreateExisting(t) ==
  LET i == instances[req[t].name] IN
  /\ pc[t] = "create_bind" /\ i # NoInst
  /\ LockStateBriefly(i)
  /\ obj' = [obj EXCEPT ![t] = i]
  /\ Reply(t, ExistingReply(t, i))
  /\ daemonLock' = Nobody
  /\ UNCHANGED <<phase, instances, shutdownWatch, instVars, req, toStop, connVars>>

\* The bind succeeds: a new incarnation whose listener task is spawned.
CreateBind(t, i) ==
  /\ pc[t] = "create_bind" /\ instances[req[t].name] = NoInst
  /\ state[i] = "unborn"
  /\ made' = [made EXCEPT ![i] = req[t]]
  /\ state' = [state EXCEPT ![i] = "running"]
  /\ listener' = [listener EXCEPT ![i] = "serving"]
  /\ obj' = [obj EXCEPT ![t] = i]
  /\ Go(t, "create_publish")
  /\ UNCHANGED <<daemonVars, stateLock, stopLock, handle, cancel, routes, req, reply,
                 toStop, connVars>>

\* The bind fails (the address is taken or does not resolve).
CreateBindFails(t) ==
  /\ pc[t] = "create_bind" /\ instances[req[t].name] = NoInst
  /\ Reply(t, "unavailable")
  /\ daemonLock' = Nobody
  /\ UNCHANGED <<phase, instances, shutdownWatch, instVars, req, obj, toStop, connVars>>

\* listener_task is stored and the instance inserted; the lock is released.
CreatePublish(t) ==
  /\ pc[t] = "create_publish"
  /\ handle' = [handle EXCEPT ![obj[t]] = TRUE]
  /\ instances' = [instances EXCEPT ![req[t].name] = obj[t]]
  /\ daemonLock' = Nobody
  /\ Reply(t, "ok")
  /\ UNCHANGED <<phase, shutdownWatch, made, state, stateLock, stopLock, listener,
                 cancel, routes, req, obj, toStop, connVars>>

-----------------------------------------------------------------------------
(***************************************************************************)
(* stop_instance, register and unregister start alike: instance_for clones *)
(* the Arc of the incarnation that has the name, and the incarnation's     *)
(* stop lock serialises what follows.                                      *)
(***************************************************************************)
Lookup(w) ==
  LET i == instances[req[w].name] IN
  /\ pc[w] = "lookup"
  /\ LockDaemonBriefly
  /\ IF i = NoInst
     THEN Reply(w, "not_found") /\ UNCHANGED obj
     ELSE /\ obj' = [obj EXCEPT ![w] = i]
          /\ Go(w, IF req[w].kind = "register" THEN "precheck" ELSE "stop_lock")
          /\ UNCHANGED reply
  /\ UNCHANGED <<phase, instances, shutdownWatch, instVars, req, toStop, connVars>>

\* register's ensure_running before the registry is fetched.
Precheck(t) ==
  /\ pc[t] = "precheck"
  /\ LockStateBriefly(obj[t])
  /\ IF state[obj[t]] = "running"
     THEN Go(t, "resolve") /\ UNCHANGED reply
     ELSE Reply(t, "stopping")
  /\ UNCHANGED <<daemonVars, instVars, req, obj, toStop, connVars>>

\* The registry, the yolo data and the agent's command are resolved (a binary
\* may be installed), with no lock held.
Resolve(t) ==
  /\ pc[t] = "resolve"
  /\ \/ Go(t, "stop_lock") /\ UNCHANGED reply
     \/ Reply(t, "unavailable")
  /\ UNCHANGED <<daemonVars, instVars, req, obj, toStop, connVars>>

TakeStopLock(w) ==
  /\ pc[w] = "stop_lock"
  /\ StopLockIsFree(obj[w])
  /\ stopLock' = [stopLock EXCEPT ![obj[w]] = w]
  /\ Go(w, IF req[w].kind = "stop" THEN "mark" ELSE "recheck")
  /\ UNCHANGED <<daemonVars, made, state, stateLock, handle, listener, cancel,
                 routes, req, obj, reply, toStop, connVars>>

\* ensure_running under the stop lock, in register and unregister.
Recheck(t) ==
  /\ pc[t] = "recheck"
  /\ LockStateBriefly(obj[t])
  /\ IF StateStillRunning(obj[t])
     THEN Go(t, "commit") /\ UNCHANGED <<stopLock, reply>>
     ELSE Reply(t, "stopping") /\ ReleaseStopLock(obj[t])
  /\ UNCHANGED <<daemonVars, made, state, stateLock, handle, listener, cancel,
                 routes, req, obj, toStop, connVars>>

\* Mutation: only RouteKey's own equality is used.
PairIsFree(i, k) == k \notin routes[i]

\* An id and a public route may each be registered once per instance.
KeyIsFree(i, k) == \A e \in routes[i] : e.id # k.id /\ e.route # k.route

\* The end of register, under the daemon lock and the routes write lock.
RegisterCommit(t) ==
  LET i == obj[t]  k == req[t].key IN
  /\ pc[t] = "commit" /\ req[t].kind = "register"
  /\ LockDaemonBriefly
  /\ \/ /\ ~PhaseStillRunning
        /\ Reply(t, "shutting_down") /\ UNCHANGED routes
     \/ /\ PhaseStillRunning /\ ~KeyIsFree(i, k)
        /\ Reply(t, "conflict") /\ UNCHANGED routes
     \/ /\ PhaseStillRunning /\ KeyIsFree(i, k)
        /\ Reply(t, "ok") /\ routes' = [routes EXCEPT ![i] = @ \cup {k}]
  /\ ReleaseStopLock(i)
  /\ UNCHANGED <<phase, instances, shutdownWatch, made, state, stateLock, handle,
                 listener, cancel, req, obj, toStop, connVars>>

\* The end of unregister.
UnregisterCommit(t) ==
  LET i == obj[t]
      mine == {e \in routes[i] : e.id = req[t].key.id} IN
  /\ pc[t] = "commit" /\ req[t].kind = "unregister"
  /\ LockDaemonBriefly
  /\ \/ /\ ~PhaseStillRunning
        /\ Reply(t, "shutting_down") /\ UNCHANGED routes
     \/ /\ PhaseStillRunning /\ mine = {}
        /\ Reply(t, "not_found") /\ UNCHANGED routes
     \/ \E e \in mine :
          /\ PhaseStillRunning
          /\ Reply(t, "ok") /\ routes' = [routes EXCEPT ![i] = @ \ {e}]
  /\ ReleaseStopLock(i)
  /\ UNCHANGED <<phase, instances, shutdownWatch, made, state, stateLock, handle,
                 listener, cancel, req, obj, toStop, connVars>>

-----------------------------------------------------------------------------
(***************************************************************************)
(* stop_instance, under the stop lock until it answers.                    *)
(***************************************************************************)
Mark(w) ==
  /\ pc[w] = "mark"
  /\ LockStateBriefly(obj[w])
  /\ IF state[obj[w]] = "running"
     THEN /\ state' = [state EXCEPT ![obj[w]] = "stopping"]
          /\ listener' = [listener EXCEPT ![obj[w]] = "draining"]
     ELSE UNCHANGED <<state, listener>>
  /\ Go(w, "take")
  /\ UNCHANGED <<daemonVars, made, stateLock, stopLock, handle, cancel, routes,
                 req, obj, reply, toStop, connVars>>

\* The first stop takes the listener's JoinHandle and awaits it; a later one
\* finds None and goes on as if the listener had ended well.
TakeHandle(w) ==
  LET i == obj[w] IN
  /\ pc[w] = "take"
  /\ handle' = [handle EXCEPT ![i] = FALSE]
  /\ Go(w, IF handle[i] THEN "join" ELSE "remove")
  /\ UNCHANGED <<daemonVars, made, state, stateLock, stopLock, listener, cancel,
                 routes, req, obj, reply, toStop, connVars>>

Join(w) ==
  /\ pc[w] = "join" /\ listener[obj[w]] \in {"ended", "failed"}
  /\ reply' = [reply EXCEPT ![w] = IF listener[obj[w]] = "failed" THEN "failed" ELSE "none"]
  /\ Go(w, "remove")
  /\ UNCHANGED <<daemonVars, instVars, req, obj, toStop, connVars>>

\* Mutation: whatever incarnation has the name is removed.
IsPresent(w) == instances[req[w].name] # NoInst

\* `Arc::ptr_eq`: the name still maps to the incarnation that was stopped.
IsCurrent(w) == instances[req[w].name] = obj[w]

Remove(w) ==
  /\ pc[w] = "remove"
  /\ LockDaemonBriefly
  /\ instances' = IF IsCurrent(w) THEN [instances EXCEPT ![req[w].name] = NoInst]
                                  ELSE instances
  /\ Reply(w, IF reply[w] = "failed" THEN "failed" ELSE "ok")
  /\ ReleaseStopLock(obj[w])
  /\ UNCHANGED <<phase, shutdownWatch, made, state, stateLock, handle, listener,
                 cancel, routes, req, obj, toStop, connVars>>

-----------------------------------------------------------------------------
(***************************************************************************)
(* run_supervisor_loop after its last accept, and stop_all_instances.      *)
(***************************************************************************)

\* SIGTERM or SIGINT: await_termination_signal sets the watch.
Terminate ==
  /\ pc[Main] = "accept" /\ ~shutdownWatch
  /\ shutdownWatch' = TRUE
  /\ UNCHANGED <<phase, instances, daemonLock, instVars, workerVars, connVars>>

\* The loop ends because the watch is set, or because accept failed; either way
\* the phase changes before anything is stopped.
LeaveLoop(acceptFailed) ==
  /\ pc[Main] = "accept" /\ (shutdownWatch \/ acceptFailed)
  /\ LockDaemonBriefly
  /\ phase' = "shutting_down"
  /\ Go(Main, "snapshot")
  /\ UNCHANGED <<instances, shutdownWatch, instVars, req, obj, reply, toStop, connVars>>

\* Mutation: instances that a request is already stopping are skipped.
RunningNames == {n \in Names : instances[n] # NoInst /\ state[instances[n]] = "running"}

NamesToStop == {n \in Names : instances[n] # NoInst}

Snapshot ==
  /\ pc[Main] = "snapshot"
  /\ LockDaemonBriefly
  /\ toStop' = NamesToStop
  /\ Go(Main, "next")
  /\ UNCHANGED <<phase, instances, shutdownWatch, instVars, req, obj, reply, connVars>>

StopRequest(n) ==
  [kind |-> "stop", name |-> n, cfg |-> AnyRequest.cfg, key |-> AnyRequest.key]

\* stop_instance is called for the next name ...
StopNext(n) ==
  /\ pc[Main] = "next" /\ n \in toStop
  /\ toStop' = toStop \ {n}
  /\ req' = [req EXCEPT ![Main] = StopRequest(n)]
  /\ obj' = [obj EXCEPT ![Main] = NoInst]
  /\ reply' = [reply EXCEPT ![Main] = "none"]
  /\ Go(Main, "lookup")
  /\ UNCHANGED <<daemonVars, instVars, connVars>>

\* ... and when there is none left the socket is removed and the process ends,
\* which drops every other task at its await.
Exit ==
  /\ pc[Main] = "next" /\ toStop = {}
  /\ Go(Main, "exited")
  /\ UNCHANGED <<daemonVars, instVars, req, obj, reply, toStop, connVars>>

-----------------------------------------------------------------------------
(***************************************************************************)
(* The listener task.  Shutdown leaves an instance's connections the drain *)
(* grace; after it they are cancelled and their I/O fails.                 *)
(***************************************************************************)
InFlight(i) == {c \in Conns : cobj[c] = i}

Drained(i) ==
  /\ listener[i] = "draining" /\ InFlight(i) = {}
  /\ listener' = [listener EXCEPT ![i] = "ended"]
  /\ UNCHANGED <<daemonVars, made, state, stateLock, stopLock, handle, cancel,
                 routes, workerVars, connVars>>

\* Mutation: a drain waits for its connections however long they last.
WaitForConnections(i, closes) == FALSE

\* The grace expires: the connections that remain close within the second
\* grace, or the listener task gives up on them and fails.
ForceClose(i, closes) ==
  /\ listener[i] = "draining" /\ InFlight(i) # {}
  /\ listener' = [listener EXCEPT ![i] = IF closes THEN "ended" ELSE "failed"]
  /\ cancel' = [cancel EXCEPT ![i] = TRUE]
  /\ cpc' = [c \in Conns |-> IF closes /\ cobj[c] = i THEN "idle" ELSE cpc[c]]
  /\ cobj' = [c \in Conns |-> IF closes /\ cobj[c] = i THEN NoInst ELSE cobj[c]]
  /\ UNCHANGED <<daemonVars, made, state, stateLock, stopLock, handle, routes,
                 workerVars>>

-----------------------------------------------------------------------------
(***************************************************************************)
(* dispatch_instance, in a task of the instance's listener.                *)
(***************************************************************************)

\* A request reaches the router, on a new or a kept-alive connection.
Request(c, i) ==
  /\ cpc[c] = "idle" /\ listener[i] \in {"serving", "draining"}
  /\ cpc' = [cpc EXCEPT ![c] = "state"]
  /\ cobj' = [cobj EXCEPT ![c] = i]
  /\ UNCHANGED <<daemonVars, instVars, workerVars>>

\* Mutation: the guard is dropped once the state has been read.
DropState(c, i) == stateLock' = stateLock

\* The state guard is kept while the routes are read.
KeepState(c, i) == stateLock' = [stateLock EXCEPT ![i] = c]

DispatchState(c) ==
  LET i == cobj[c] IN
  /\ cpc[c] = "state" /\ stateLock[i] = Nobody
  /\ IF state[i] = "running"
     THEN /\ KeepState(c, i)
          /\ cpc' = [cpc EXCEPT ![c] = "routes"] /\ UNCHANGED cobj
     ELSE /\ cpc' = [cpc EXCEPT ![c] = "idle"]
          /\ cobj' = [cobj EXCEPT ![c] = NoInst] /\ UNCHANGED stateLock
  /\ UNCHANGED <<daemonVars, made, state, stopLock, handle, listener, cancel,
                 routes, workerVars>>

\* A route matches and its runtime gets the request, or the answer is 404.
DispatchRoute(c, found) ==
  LET i == cobj[c] IN
  /\ cpc[c] = "routes" /\ (found => routes[i] # {})
  /\ stateLock' = [stateLock EXCEPT ![i] = Nobody]
  /\ cpc' = [cpc EXCEPT ![c] = IF found THEN "agent" ELSE "idle"]
  /\ cobj' = [cobj EXCEPT ![c] = IF found THEN i ELSE NoInst]
  /\ UNCHANGED <<daemonVars, made, state, stopLock, handle, listener, cancel,
                 routes, workerVars>>

\* The runtime answers, or the client closes the stream.
Answer(c) ==
  /\ cpc[c] = "agent"
  /\ cpc' = [cpc EXCEPT ![c] = "idle"]
  /\ cobj' = [cobj EXCEPT ![c] = NoInst]
  /\ UNCHANGED <<daemonVars, instVars, workerVars>>

-----------------------------------------------------------------------------
Exited == pc[Main] = "exited"

Control(t) ==
  \/ \E r \in Requests : Receive(t, r)
  \/ Gate(t) \/ ShutdownPhase(t) \/ ShutdownSignal(t) \/ Finish(t)
  \/ CreateLock(t) \/ CreateExisting(t) \/ CreateBindFails(t) \/ CreatePublish(t)
  \/ \E i \in Insts : CreateBind(t, i)
  \/ Precheck(t) \/ Resolve(t) \/ Recheck(t)
  \/ RegisterCommit(t) \/ UnregisterCommit(t)

Stop(w) ==
  Lookup(w) \/ TakeStopLock(w) \/ Mark(w) \/ TakeHandle(w) \/ Join(w) \/ Remove(w)

Loop ==
  \/ Terminate \/ Snapshot \/ Exit
  \/ \E b \in BOOLEAN : LeaveLoop(b)
  \/ \E n \in Names : StopNext(n)

Listening(i) == Drained(i) \/ \E b \in BOOLEAN : ForceClose(i, b)

Dispatch(c) ==
  \/ \E i \in Insts : Request(c, i)
  \/ DispatchState(c) \/ Answer(c)
  \/ \E b \in BOOLEAN : DispatchRoute(c, b)

Step ==
  \/ \E t \in Tasks : Control(t)
  \/ \E w \in Workers : Stop(w)
  \/ Loop
  \/ \E i \in Insts : Listening(i)
  \/ \E c \in Conns : Dispatch(c)

\* The process has ended: the only end of the system.
Ended == Exited /\ UNCHANGED vars

Next == (~Exited /\ Step) \/ Ended

Spec == Init /\ [][Next]_vars

-----------------------------------------------------------------------------
(***************************************************************************)
(* Fairness.  tokio runs every task that is woken, and hands its mutexes   *)
(* over in FIFO order, so that a task that waits for a lock gets it (SF):  *)
(* a task waits at one await at a time, hence one SF for all its steps.    *)
(* serve_with_shutdown's two timeouts end a drain.  Nothing makes a client *)
(* send a request or close a stream, nor the network answer register.      *)
(***************************************************************************)
TaskStep(t) ==
  \/ Gate(t) \/ ShutdownPhase(t) \/ ShutdownSignal(t)
  \/ CreateLock(t) \/ CreateExisting(t) \/ CreateBindFails(t) \/ CreatePublish(t)
  \/ \E i \in Insts : CreateBind(t, i)
  \/ Precheck(t) \/ Recheck(t) \/ RegisterCommit(t) \/ UnregisterCommit(t)
  \/ Stop(t)

MainStep ==
  LeaveLoop(FALSE) \/ Snapshot \/ Exit \/ (\E n \in Names : StopNext(n)) \/ Stop(Main)

Fairness ==
  /\ \A t \in Tasks : SF_vars(~Exited /\ TaskStep(t))
  /\ SF_vars(~Exited /\ MainStep)
  /\ \A i \in Insts : WF_vars(~Exited /\ Listening(i))
  /\ \A c \in Conns : SF_vars(~Exited /\ (DispatchState(c) \/ \E b \in BOOLEAN : DispatchRoute(c, b)))

FairSpec == Spec /\ Fairness

-----------------------------------------------------------------------------
(***************************************************************************)
(* Properties.                                                             *)
(***************************************************************************)
Live(i) == listener[i] \in {"serving", "draining"}

\* A worker of create_instance that has spawned i's listener and not yet
\* inserted i.
Publishing(i) == \E t \in Tasks : pc[t] = "create_publish" /\ obj[t] = i

\* A listener that still serves or drains belongs to the incarnation its name
\* maps to: stop_instance removes an instance only after it awaited the
\* listener, and never removes a newer incarnation of the name
\* (daemon.rs:227-242).
LiveListenerIsRegistered ==
  \A i \in Insts : Live(i) => instances[made[i].name] = i \/ Publishing(i)

\* A stop that was answered, with success or with the listener's failure, left
\* no listener of the incarnation it looked up and no entry for it, however
\* many stops of the name ran at once (daemon.rs:218-249).
StopAnsweredMeansGone ==
  \A t \in Tasks :
    pc[t] = "replied" /\ req[t].kind = "stop" /\ reply[t] \in {"ok", "failed"}
      => ~Live(obj[t]) /\ instances[req[t].name] # obj[t]

\* A route is added only to a running instance that its name still maps to,
\* while the daemon runs: a stop or a shutdown that overtakes a slow register
\* turns it into an error (routes.rs:145-153).
RegisterOnlyIntoLive ==
  [][\A i \in Insts :
       routes'[i] \subseteq routes[i]
         \/ (state[i] = "running" /\ instances[made[i].name] = i /\ phase = "running")]_vars

\* Two registrations of an instance never share an agent id or a public route,
\* although RouteKey's equality compares the pair (routes.rs:31-35, 155-169).
RegistrationsAreUnique ==
  \A i \in Insts : \A e, f \in routes[i] :
    e.id = f.id \/ e.route = f.route => e = f

\* Once the daemon is shutting down no instance is added to the map, not even by
\* a create that handle_request had let pass (daemon.rs:114-120).
NoInstanceAfterShutdown ==
  [][phase = "shutting_down" =>
       \A n \in Names : instances'[n] \in {instances[n], NoInst}]_vars

\* When run_supervisor_loop returns, every instance has been removed and every
\* listener awaited, those included that a control request was stopping
\* (control.rs:44-45, daemon.rs:251-259).
ExitLeavesNothing ==
  Exited => \A i \in Insts : ~Live(i) /\ \A n \in Names : instances[n] # i

\* A request looks its route up while its instance is running: a stop cannot
\* slip between the check of the state and the read of the routes
\* (routes.rs:246-259).
DispatchOnlyWhileRunning ==
  \A c \in Conns : cpc[c] = "routes" => state[cobj[c]] = "running"

\* A create is answered with success only for the incarnation that the name maps
\* to at that moment, which is running with the requested configuration,
\* whether it was just made or had existed (daemon.rs:121-139, 185-187).
CreateAnswersTheLiveInstance ==
  [][\A t \in Tasks :
       req[t].kind = "create" /\ reply[t] # "ok" /\ reply'[t] = "ok"
         => /\ instances'[req[t].name] = obj'[t]
            /\ state'[obj'[t]] = "running" /\ made'[obj'[t]].cfg = req[t].cfg]_vars

\* A termination signal or a shutdown request ends the daemon, whatever the
\* control requests, the listeners and the clients are doing (control.rs:37-56,
\* Daemon.md's Shutdown).
ShutdownExits == shutdownWatch ~> Exited

\* Every control request is answered unless the daemon exits; register may wait
\* for the network, but not once it is past it.  No lock order, no unfinished
\* stop and no open stream keeps a request waiting for ever.
ControlAnswers ==
  \A t \in Tasks :
    pc[t] \notin {"idle", "resolve", "replied"}
      ~> (pc[t] \in {"resolve", "replied"} \/ Exited)

-----------------------------------------------------------------------------
(***************************************************************************)
(* Supervisor implements NamedServers.  An incarnation begins when its     *)
(* creator publishes it.                                                   *)
(***************************************************************************)
Promise == INSTANCE NamedServers WITH
  open    <- phase = "running",
  server  <- instances,
  used    <- {i \in Insts : state[i] # "unborn" /\ ~Publishing(i)},
  running <- {i \in Insts : state[i] = "running" /\ ~Publishing(i)},
  live    <- {i \in Insts : Live(i) /\ ~Publishing(i)},
  routes  <- routes

\* Whatever the requests, connections and shutdowns that run at once, clients
\* see named servers: a name is free only when its server's listener has ended
\* and is not taken twice, a change of the routes reaches a running server, and
\* nothing begins once the daemon shuts down (daemon.rs:103-259, routes.rs:88-213).
KeepsItsPromise == Promise!Spec

=============================================================================
