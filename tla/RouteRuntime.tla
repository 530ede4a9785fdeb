----------------------------- MODULE RouteRuntime -----------------------------
(***************************************************************************)
(* One served route: the admission of connections against the process      *)
(* limit, the launch of an agent process for each, and the health that     *)
(* GET /readyz reports.  Source: src/src/serve/runtime.rs.                 *)
(*                                                                         *)
(* A connection is made once, by an initial POST or by a WebSocket         *)
(* upgrade; requests that continue one (with acp-connection-id) and probes *)
(* pass the middleware and change nothing.  Everything between two awaits  *)
(* of a connection's task is one step, except that the drops at the end of *)
(* connect_to are separate: other threads see each of them.                *)
(***************************************************************************)
EXTENDS Naturals, FiniteSets

CONSTANTS
  Conns,         \* the connections that clients make
  MaxProcesses,  \* --max-processes
  Nobody         \* no connection

ASSUME ConnsAssumption  == IsFiniteSet(Conns)
ASSUME LimitAssumption  == MaxProcesses \in Nat \ {0}
ASSUME NobodyAssumption == Nobody \notin Conns

VARIABLES
  slots,        \* available permits of AdmissionState.process_slots
  reservation,  \* AdmissionState.ws_reservation: whose permit it is.  It owns
                \* the guard of ws_handshake, which is locked while it is Some
  cancel,       \* the watch that a drain sets when its grace expires
  generations,  \* AgentHealth.next_generation
  health,       \* AgentHealthState
  pc,           \* where a connection's task is
  permit,       \* whose permit the task holds (task-local, then connect_to's)
  generation,   \* LaunchState.generation
  initialize,   \* LaunchState.initialize_requested
  outcome,      \* LaunchState.outcome_recorded, with what was recorded
  child         \* whether the agent process runs

vars == <<slots, reservation, cancel, generations, health, pc, permit,
          generation, initialize, outcome, child>>

Pcs == {"idle", "post", "waiting", "upgrade", "switched", "built", "launching",
        "running", "ending", "releasing", "closed", "refused"}

Outcomes == {"none", "ok", "failed"}

TypeOK ==
  /\ slots \in 0 .. MaxProcesses
  /\ reservation \in Conns \cup {Nobody}
  /\ cancel \in BOOLEAN
  /\ generations \in Nat
  /\ health \in [attempts : Nat, failures : Nat, newest : Nat, lastFailed : BOOLEAN]
  /\ pc \in [Conns -> Pcs]
  /\ permit \in [Conns -> Conns \cup {Nobody}]
  /\ generation \in [Conns -> Nat]
  /\ initialize \in [Conns -> BOOLEAN]
  /\ outcome \in [Conns -> Outcomes]
  /\ child \in [Conns -> BOOLEAN]

Init ==
  /\ slots = MaxProcesses
  /\ reservation = Nobody
  /\ cancel = FALSE
  /\ generations = 0
  /\ health = [attempts |-> 0, failures |-> 0, newest |-> 0, lastFailed |-> FALSE]
  /\ pc = [c \in Conns |-> "idle"]
  /\ permit = [c \in Conns |-> Nobody]
  /\ generation = [c \in Conns |-> 0]
  /\ initialize = [c \in Conns |-> FALSE]
  /\ outcome = [c \in Conns |-> "none"]
  /\ child = [c \in Conns |-> FALSE]

Go(c, l) == pc' = [pc EXCEPT ![c] = l]

launchVars == <<generations, health, generation, initialize, outcome, child>>

\* Mutation: one process too many.
SlotMayBeFree == slots >= 0

\* try_acquire_owned succeeds.
SlotIsFree == slots > 0

-----------------------------------------------------------------------------
(***************************************************************************)
(* An initial POST: its permit is in a task-local scope until the factory  *)
(* takes it, and is dropped with the scope otherwise.                      *)
(***************************************************************************)
AdmitPost(c) ==
  /\ pc[c] = "idle"
  /\ \/ /\ SlotIsFree
        /\ slots' = slots - 1
        /\ permit' = [permit EXCEPT ![c] = c]
        /\ Go(c, "post")
     \/ /\ ~SlotIsFree
        /\ Go(c, "refused") /\ UNCHANGED <<slots, permit>>
  /\ UNCHANGED <<reservation, cancel, launchVars>>

\* The library answers without an agent (the request is not an initialize), or
\* the client leaves and the request's future is dropped.
PostEnds(c) ==
  /\ pc[c] = "post"
  /\ slots' = slots + 1
  /\ permit' = [permit EXCEPT ![c] = Nobody]
  /\ Go(c, "closed")
  /\ UNCHANGED <<reservation, cancel, launchVars>>

-----------------------------------------------------------------------------
(***************************************************************************)
(* A WebSocket upgrade: the 101 is sent before the library calls the       *)
(* factory, hence one reservation at a time, kept by the route.            *)
(***************************************************************************)
AskUpgrade(c) ==
  /\ pc[c] = "idle"
  /\ Go(c, "waiting")
  /\ UNCHANGED <<slots, reservation, cancel, permit, launchVars>>

\* The client leaves while the task waits for ws_handshake.
StopWaiting(c) ==
  /\ pc[c] = "waiting"
  /\ Go(c, "closed")
  /\ UNCHANGED <<slots, reservation, cancel, permit, launchVars>>

\* Mutation: upgrades are not serialised.
NoHandshakeLock == TRUE

HandshakeIsFree == reservation = Nobody

\* reserve_websocket.  Storing a reservation drops the one it replaces.
Reserve(c) ==
  /\ pc[c] = "waiting" /\ HandshakeIsFree
  /\ \/ /\ SlotIsFree
        /\ slots' = IF reservation = Nobody THEN slots - 1 ELSE slots
        /\ reservation' = c
        /\ Go(c, "upgrade")
     \/ /\ ~SlotIsFree
        /\ Go(c, "refused") /\ UNCHANGED <<slots, reservation>>
  /\ UNCHANGED <<cancel, permit, launchVars>>

\* Mutation: a refused upgrade keeps its reservation.
NoCancel(c) == UNCHANGED <<slots, reservation>>

\* cancel_websocket_reservation, by its id.
CancelReservation(c) ==
  IF reservation = c
  THEN slots' = slots + 1 /\ reservation' = Nobody
  ELSE UNCHANGED <<slots, reservation>>

\* The library refuses the upgrade (its origin, its headers).
RefuseUpgrade(c) ==
  /\ pc[c] = "upgrade"
  /\ CancelReservation(c)
  /\ Go(c, "refused")
  /\ UNCHANGED <<cancel, permit, launchVars>>

SwitchProtocols(c) ==
  /\ pc[c] = "upgrade"
  /\ Go(c, "switched")
  /\ UNCHANGED <<slots, reservation, cancel, permit, launchVars>>

\* The client leaves while the library handles its upgrade, or the upgrade fails
\* after the 101: the factory is not called, and nothing clears the reservation.
Abandon(c) ==
  /\ pc[c] \in {"upgrade", "switched"}
  /\ Go(c, "closed")
  /\ UNCHANGED <<slots, reservation, cancel, permit, launchVars>>

-----------------------------------------------------------------------------
(***************************************************************************)
(* The agent factory and connect_to.                                       *)
(***************************************************************************)

\* Mutation: the reservation is copied and not taken.
CopyReservation == reservation' = reservation

TakeReservation == reservation' = Nobody

\* The factory: a generation for the launch, and the permit of the task-local
\* scope, or else the reservation's.
Build(c) ==
  /\ pc[c] \in {"post", "switched"}
  /\ generations' = generations + 1
  /\ generation' = [generation EXCEPT ![c] = generations + 1]
  /\ IF permit[c] # Nobody
     THEN UNCHANGED <<permit, reservation>>
     ELSE permit' = [permit EXCEPT ![c] = reservation] /\ TakeReservation
  /\ Go(c, "built")
  /\ UNCHANGED <<slots, cancel, health, initialize, outcome, child>>

\* connect_to is polled: without a permit it tries for one, and fails unrecorded
\* when there is none.
Connect(c) ==
  /\ pc[c] = "built"
  /\ IF permit[c] # Nobody
     THEN Go(c, "launching") /\ UNCHANGED <<slots, permit>>
     ELSE IF SlotIsFree
     THEN /\ slots' = slots - 1
          /\ permit' = [permit EXCEPT ![c] = c]
          /\ Go(c, "launching")
     ELSE Go(c, "closed") /\ UNCHANGED <<slots, permit>>
  /\ UNCHANGED <<reservation, cancel, launchVars>>

\* The connection future is polled and spawns the agent.
Spawn(c) ==
  /\ pc[c] = "launching"
  /\ child' = [child EXCEPT ![c] = TRUE]
  /\ Go(c, "running")
  /\ UNCHANGED <<slots, reservation, cancel, generations, health, permit,
                 generation, initialize, outcome>>

\* The bridge sees the client's initialize request.
Initialize(c) ==
  /\ pc[c] \in {"launching", "running"}
  /\ initialize' = [initialize EXCEPT ![c] = TRUE]
  /\ UNCHANGED <<slots, reservation, cancel, generations, health, pc, permit,
                 generation, outcome, child>>

\* Mutation: an outcome may be recorded again.
AlwaysRecord(c) == TRUE

\* try_record_outcome.
TryRecord(c) == outcome[c] = "none"

\* Mutation: the outcome that is recorded last is the one that is reported.
LastRecorded(c) == TRUE

\* An older launch does not overwrite what a newer one reported.
IsNewest(c) == generation[c] > health.newest

\* record_ok and record_failure, under the health mutex.
Record(c, o) ==
  /\ outcome' = [outcome EXCEPT ![c] = o]
  /\ health' = [attempts   |-> health.attempts + 1,
                failures   |-> health.failures + (IF o = "failed" THEN 1 ELSE 0),
                newest     |-> IF IsNewest(c) THEN generation[c] ELSE health.newest,
                lastFailed |-> IF IsNewest(c) THEN o = "failed" ELSE health.lastFailed]

\* The bridge sees the response to the last initialize request, a result or an
\* error; it passes every other response on.
Respond(c, o) ==
  /\ pc[c] = "running" /\ initialize[c] /\ TryRecord(c)
  /\ Record(c, o)
  /\ UNCHANGED <<slots, reservation, cancel, generations, pc, permit, generation,
                 initialize, child>>

-----------------------------------------------------------------------------
(***************************************************************************)
(* The end of connect_to.  Its result, cancellation and a drop of its      *)
(* future differ in the detail they record only.  The child goes with the  *)
(* connection's future, then the LaunchGuard records, then the permit is   *)
(* dropped.                                                                *)
(***************************************************************************)

\* Mutation: the permit is dropped with the connection's future.
DropPermit(c) == slots' = slots + 1 /\ permit' = [permit EXCEPT ![c] = Nobody]

KeepPermit(c) == UNCHANGED <<slots, permit>>

\* The agent exits, cannot be spawned or breaks the protocol; the client leaves; or
\* the library drops the future.
End(c) ==
  /\ pc[c] \in {"launching", "running"}
  /\ Go(c, "ending")
  /\ KeepPermit(c)
  /\ UNCHANGED <<reservation, cancel, launchVars>>

\* Mutation: connect_to does not watch the cancellation.
NeverCancelled(c) == FALSE

\* The second branch of connect_to's select.
Cancelled(c) == cancel /\ End(c)

KillChild(c) ==
  /\ pc[c] = "ending" /\ child[c]
  /\ child' = [child EXCEPT ![c] = FALSE]
  /\ UNCHANGED <<slots, reservation, cancel, generations, health, pc, permit,
                 generation, initialize, outcome>>

RecordEnd(c) ==
  /\ pc[c] = "ending" /\ ~child[c]
  /\ IF TryRecord(c) THEN Record(c, "failed") ELSE UNCHANGED <<outcome, health>>
  /\ Go(c, "releasing")
  /\ UNCHANGED <<slots, reservation, cancel, generations, permit, generation,
                 initialize, child>>

\* The permit is dropped: after connect_to, or with an agent that the library
\* drops before it connects it.
Release(c) ==
  /\ pc[c] \in {"built", "releasing"}
  /\ slots' = IF permit[c] = Nobody THEN slots ELSE slots + 1
  /\ permit' = [permit EXCEPT ![c] = Nobody]
  /\ Go(c, "closed")
  /\ UNCHANGED <<reservation, cancel, launchVars>>

\* The drain grace of the server or of the instance expires.
Cancel ==
  /\ ~cancel
  /\ cancel' = TRUE
  /\ UNCHANGED <<slots, reservation, pc, permit, launchVars>>

\* Every client has come and gone.
Finished ==
  /\ \A c \in Conns : pc[c] \in {"closed", "refused"}
  /\ UNCHANGED vars

-----------------------------------------------------------------------------
Admit(c) ==
  \/ AdmitPost(c) \/ PostEnds(c)
  \/ AskUpgrade(c) \/ StopWaiting(c) \/ Reserve(c) \/ RefuseUpgrade(c)
  \/ SwitchProtocols(c) \/ Abandon(c)

Launch(c) ==
  \/ Build(c) \/ Connect(c) \/ Spawn(c) \/ Initialize(c)
  \/ \E o \in {"ok", "failed"} : Respond(c, o)
  \/ End(c) \/ Cancelled(c) \/ KillChild(c) \/ RecordEnd(c) \/ Release(c)

Next ==
  \/ \E c \in Conns : Admit(c) \/ Launch(c)
  \/ Cancel
  \/ Finished

Spec == Init /\ [][Next]_vars

(***************************************************************************)
(* Fairness.  The task of a connection runs when it is woken; ws_handshake *)
(* is handed over in FIFO order (SF).  An upgrade is answered, and after   *)
(* its 101 it succeeds or fails.  Nothing makes a client come, send its    *)
(* initialize or leave, nor an agent answer or exit.                       *)
(***************************************************************************)

TaskStep(c) ==
  \/ RefuseUpgrade(c) \/ SwitchProtocols(c) \/ (pc[c] = "switched" /\ Abandon(c))
  \/ Build(c) \/ Connect(c)
  \/ Cancelled(c) \/ KillChild(c) \/ RecordEnd(c) \/ Release(c)

Fairness ==
  \A c \in Conns : SF_vars(Reserve(c)) /\ WF_vars(TaskStep(c))

FairSpec == Spec /\ Fairness

-----------------------------------------------------------------------------
(***************************************************************************)
(* Properties.                                                             *)
(***************************************************************************)

\* There are never more agent processes than --max-processes, for a permit
\* outlives the child it admitted (runtime.rs:654-667).
ProcessLimit == Cardinality({c \in Conns : child[c]}) <= MaxProcesses

\* A connection holds its own permit: no upgrade and no POST takes the permit that
\* was reserved for another upgrade, although the factory cannot tell them
\* apart (runtime.rs:123, 377-419).
ReservationGoesToItsHandshake == \A c \in Conns : permit[c] \in {c, Nobody}

\* /readyz counts every recorded launch once, and what it reports last is the
\* outcome of the newest launch that has one, in whatever order the launches
\* end (runtime.rs:248-269).
Recorded == {c \in Conns : outcome[c] # "none"}

ReadyzReportsNewestLaunch ==
  /\ health.attempts = Cardinality(Recorded)
  /\ health.failures = Cardinality({c \in Recorded : outcome[c] = "failed"})
  /\ \A c \in Recorded :
       (\A d \in Recorded : generation[d] <= generation[c])
         => health.lastFailed = (outcome[c] = "failed")

\* Every launch that gave its slot back has an outcome, and no later step changes
\* an outcome: response observer, LaunchGuard::complete and its Drop record
\* exactly once between them (runtime.rs:521-582, 624-640).
LaunchRecordedOnce ==
  [][\A c \in Conns :
       /\ outcome[c] # "none" => outcome'[c] = outcome[c]
       /\ pc[c] = "releasing" => outcome[c] # "none"]_vars

\* An upgrade whose client left before the factory was called.
Abandoned == reservation # Nobody /\ pc[reservation] = "closed"

\* When the connections are gone every slot is free again, but for the slot of an
\* abandoned upgrade: refusals, early drops, failed launches and cancellations
\* all give back what they took.
SlotsComeBack ==
  (\A c \in Conns : pc[c] \in {"idle", "waiting", "closed", "refused"}) /\ ~Abandoned
    => slots = MaxProcesses

\* tests/Serve.md:187, "Closing a connection MUST release its slot".  The code does
\* not: an abandoned upgrade keeps its slot (runtime.rs:186-194).
ClosingReleasesSlot ==
  (\A c \in Conns : pc[c] \in {"closed", "refused"}) => slots = MaxProcesses

\* An upgrade is admitted or refused and does not wait for ever for ws_handshake,
\* unless an upgrade was abandoned (runtime.rs:405-419).
UpgradeAnswered ==
  \A c \in Conns : pc[c] = "waiting" ~> (pc[c] # "waiting" \/ Abandoned)

\* Once the grace of a drain has expired no agent runs on, whatever its client
\* does (runtime.rs:661-667).
CancelEndsAgents == \A c \in Conns : (cancel /\ child[c]) ~> ~child[c]
=============================================================================
