-------------------------- MODULE RouteRuntimeProofs --------------------------
(***************************************************************************)
(* Proofs about RouteRuntime, for any number of connections and any limit. *)
(***************************************************************************)
EXTENDS RouteRuntime, FiniteSetTheorems, TLAPS

HolderPcs == {"post", "built", "launching", "running", "ending", "releasing"}

Holders == {c \in Conns : permit[c] # Nobody}

Children == {c \in Conns : child[c]}

Failed == {c \in Recorded : outcome[c] = "failed"}

\* A task holds its own permit while it is admitted, and no other.
PermitInv ==
  \A c \in Conns : permit[c] = IF pc[c] \in HolderPcs THEN c ELSE Nobody

\* An upgrade in flight is the one that is reserved for; no reservation belongs to
\* a task that might go on without it.
ReservationInv ==
  /\ \A c \in Conns : pc[c] \in {"upgrade", "switched"} => reservation = c
  /\ reservation # Nobody => pc[reservation] \in {"upgrade", "switched", "closed"}

\* Every slot is free, held or reserved.
SlotInv ==
  slots + Cardinality(Holders) + (IF reservation = Nobody THEN 0 ELSE 1) = MaxProcesses

ChildInv == \A c \in Conns : child[c] => pc[c] \in {"running", "ending"}

LaunchedPcs == {"built", "launching", "running", "ending", "releasing"}

\* Launches have generations of their own, and what a launch has recorded was
\* recorded by connect_to.
GenerationInv ==
  /\ \A c \in Conns : generation[c] <= generations
  /\ \A c \in Conns : pc[c] \in LaunchedPcs \/ outcome[c] # "none" => generation[c] > 0
  /\ \A c, d \in Conns : generation[c] = generation[d] /\ generation[c] > 0 => c = d
  /\ \A c \in Conns : outcome[c] # "none" =>
       pc[c] \in {"running", "ending", "releasing", "closed"}
  /\ \A c \in Conns : pc[c] = "releasing" => outcome[c] # "none"

\* health is a summary of the recorded outcomes.
HealthInv ==
  /\ health.attempts = Cardinality(Recorded)
  /\ health.failures = Cardinality(Failed)
  /\ \A c \in Recorded : generation[c] <= health.newest
  /\ \A c \in Recorded : generation[c] = health.newest =>
       health.lastFailed = (outcome[c] = "failed")
  /\ IF Recorded = {} THEN health.newest = 0
     ELSE \E c \in Recorded : generation[c] = health.newest

IInv ==
  /\ TypeOK /\ PermitInv /\ ReservationInv /\ SlotInv /\ ChildInv
  /\ GenerationInv /\ HealthInv

-----------------------------------------------------------------------------
(***************************************************************************)
(* Finite sets of connections.                                             *)
(***************************************************************************)

\* The cardinality of a set of connections is a number that one more or one less
\* connection changes by one.
LEMMA OneMore ==
  ASSUME NEW S \in SUBSET Conns, NEW c \in Conns, c \notin S
  PROVE  /\ Cardinality(S) \in Nat
         /\ Cardinality(S \cup {c}) = Cardinality(S) + 1
<1>1. IsFiniteSet(S)
  BY ConnsAssumption, FS_Subset
<1> QED BY <1>1, FS_CardinalityType, FS_AddElement

LEMMA OneLess ==
  ASSUME NEW S \in SUBSET Conns, NEW c \in S
  PROVE  /\ Cardinality(S) \in Nat \ {0}
         /\ Cardinality(S \ {c}) = Cardinality(S) - 1
<1>1. IsFiniteSet(S)
  BY ConnsAssumption, FS_Subset
<1>2. Cardinality(S) # 0
  BY <1>1, FS_EmptySet
<1> QED BY <1>1, <1>2, FS_CardinalityType, FS_RemoveElement

LEMMA CardinalityIsNat ==
  ASSUME NEW S \in SUBSET Conns
  PROVE  Cardinality(S) \in Nat
BY ConnsAssumption, FS_Subset, FS_CardinalityType

-----------------------------------------------------------------------------
(***************************************************************************)
(* Initial states.                                                         *)
(***************************************************************************)
LEMMA InitIInv == Init => IInv
<1> SUFFICES ASSUME Init PROVE IInv
  OBVIOUS
<1> USE LimitAssumption, NobodyAssumption DEF Init
<1>1. Holders = {} /\ Recorded = {} /\ Failed = {}
  BY DEF Holders, Recorded, Failed
<1>2. Cardinality({}) = 0
  BY FS_EmptySet
<1>3. TypeOK
  <2>1. slots \in 0 .. MaxProcesses
    OBVIOUS
  <2>2. health \in [attempts : Nat, failures : Nat, newest : Nat, lastFailed : BOOLEAN]
    OBVIOUS
  <2>3. pc \in [Conns -> Pcs] /\ outcome \in [Conns -> Outcomes]
    BY DEF Pcs, Outcomes
  <2>4. /\ permit \in [Conns -> Conns \cup {Nobody}] /\ generation \in [Conns -> Nat]
        /\ initialize \in [Conns -> BOOLEAN] /\ child \in [Conns -> BOOLEAN]
    OBVIOUS
  <2> QED BY <2>1, <2>2, <2>3, <2>4 DEF TypeOK
<1>4. PermitInv /\ ReservationInv /\ ChildInv /\ GenerationInv
  BY DEF PermitInv, ReservationInv, ChildInv, GenerationInv, HolderPcs, LaunchedPcs
<1>5. SlotInv
  BY <1>1, <1>2 DEF SlotInv
<1>6. HealthInv
  BY <1>1, <1>2 DEF HealthInv
<1> QED BY <1>3, <1>4, <1>5, <1>6 DEF IInv

-----------------------------------------------------------------------------
(***************************************************************************)
(* Steps.  What a connection's task holds first, slots and health after.   *)
(***************************************************************************)

\* No step disturbs the parts of the invariant that count nothing.
LEMMA StepHolds ==
  ASSUME TypeOK, PermitInv, ReservationInv, ChildInv, [Next]_vars
  PROVE  PermitInv' /\ ReservationInv' /\ ChildInv'
<1> USE NobodyAssumption DEF TypeOK, Pcs, PermitInv, ReservationInv, ChildInv,
      HolderPcs, Go, launchVars
<1>1. ASSUME NEW c \in Conns, AdmitPost(c)
      PROVE  PermitInv' /\ ReservationInv' /\ ChildInv'
  BY <1>1 DEF AdmitPost
<1>2. ASSUME NEW c \in Conns, PostEnds(c)
      PROVE  PermitInv' /\ ReservationInv' /\ ChildInv'
  BY <1>2 DEF PostEnds
<1>3. ASSUME NEW c \in Conns, AskUpgrade(c) \/ StopWaiting(c)
      PROVE  PermitInv' /\ ReservationInv' /\ ChildInv'
  BY <1>3 DEF AskUpgrade, StopWaiting
<1>4. ASSUME NEW c \in Conns, Reserve(c)
      PROVE  PermitInv' /\ ReservationInv' /\ ChildInv'
  BY <1>4 DEF Reserve, HandshakeIsFree
<1>5. ASSUME NEW c \in Conns, RefuseUpgrade(c)
      PROVE  PermitInv' /\ ReservationInv' /\ ChildInv'
  BY <1>5 DEF RefuseUpgrade, CancelReservation
<1>6. ASSUME NEW c \in Conns, SwitchProtocols(c) \/ Abandon(c)
      PROVE  PermitInv' /\ ReservationInv' /\ ChildInv'
  BY <1>6 DEF SwitchProtocols, Abandon
<1>7. ASSUME NEW c \in Conns, Build(c)
      PROVE  PermitInv' /\ ReservationInv' /\ ChildInv'
  BY <1>7 DEF Build, TakeReservation
<1>8. ASSUME NEW c \in Conns, Connect(c)
      PROVE  PermitInv' /\ ReservationInv' /\ ChildInv'
  BY <1>8 DEF Connect
<1>9. ASSUME NEW c \in Conns, Spawn(c) \/ KillChild(c)
      PROVE  PermitInv' /\ ReservationInv' /\ ChildInv'
  BY <1>9 DEF Spawn, KillChild
<1>10. ASSUME NEW c \in Conns,
              Initialize(c) \/ (\E o \in {"ok", "failed"} : Respond(c, o)) \/ RecordEnd(c)
       PROVE  PermitInv' /\ ReservationInv' /\ ChildInv'
  BY <1>10 DEF Initialize, Respond, RecordEnd
<1>11. ASSUME NEW c \in Conns, End(c) \/ Cancelled(c)
       PROVE  PermitInv' /\ ReservationInv' /\ ChildInv'
  BY <1>11 DEF End, Cancelled, KeepPermit
<1>12. ASSUME NEW c \in Conns, Release(c)
       PROVE  PermitInv' /\ ReservationInv' /\ ChildInv'
  BY <1>12 DEF Release
<1>13. ASSUME Cancel \/ UNCHANGED vars
       PROVE  PermitInv' /\ ReservationInv' /\ ChildInv'
  BY <1>13 DEF Cancel, vars
<1> QED
  BY <1>1, <1>2, <1>3, <1>4, <1>5, <1>6, <1>7, <1>8, <1>9, <1>10, <1>11, <1>12, <1>13
  DEF Next, Admit, Launch, Finished

\* Each step that takes or gives back a permit moves one slot.
LEMMA StepSlots ==
  ASSUME TypeOK, PermitInv, ReservationInv, SlotInv, [Next]_vars
  PROVE  SlotInv' /\ slots' \in 0 .. MaxProcesses
<1> USE LimitAssumption, NobodyAssumption DEF SlotInv
<1>a. /\ slots \in Nat /\ permit \in [Conns -> Conns \cup {Nobody}]
      /\ pc \in [Conns -> Pcs] /\ reservation \in Conns \cup {Nobody}
  BY DEF TypeOK
<1>b. Holders \in SUBSET Conns /\ Cardinality(Holders) \in Nat
  BY CardinalityIsNat DEF Holders
<1>c. ASSUME UNCHANGED <<slots, permit, reservation>>
      PROVE  SlotInv' /\ slots' \in 0 .. MaxProcesses
  BY <1>c, <1>a, <1>b DEF Holders
<1>1. ASSUME NEW c \in Conns, AdmitPost(c)
      PROVE  SlotInv' /\ slots' \in 0 .. MaxProcesses
  <2>1. CASE slots' = slots
    BY <2>1, <1>1, <1>a, <1>c DEF AdmitPost, SlotIsFree
  <2>2. CASE slots' # slots
    <3>1. c \notin Holders
      BY <1>1 DEF AdmitPost, PermitInv, HolderPcs, Holders
    <3>2. Holders' = Holders \cup {c}
      BY <2>2, <1>1, <1>a DEF AdmitPost, Holders
    <3>3. slots > 0 /\ slots' = slots - 1 /\ reservation' = reservation
      BY <2>2, <1>1 DEF AdmitPost, SlotIsFree
    <3>4. Cardinality(Holders') = Cardinality(Holders) + 1
      BY <3>1, <3>2, <1>b, OneMore
    <3> QED BY <3>3, <3>4, <1>a, <1>b
  <2> QED BY <2>1, <2>2
<1>2. ASSUME NEW c \in Conns, PostEnds(c) \/ Release(c)
      PROVE  SlotInv' /\ slots' \in 0 .. MaxProcesses
  <2>1. permit[c] = c /\ c \in Holders
    BY <1>2 DEF PostEnds, Release, PermitInv, HolderPcs, Holders
  <2>2. Holders' = Holders \ {c}
    BY <1>2, <1>a DEF PostEnds, Release, Holders
  <2>3. slots' = slots + 1 /\ reservation' = reservation
    BY <1>2, <2>1 DEF PostEnds, Release
  <2>4. Cardinality(Holders) \in Nat \ {0} /\ Cardinality(Holders') = Cardinality(Holders) - 1
    BY <2>1, <2>2, <1>b, OneLess
  <2> QED BY <2>3, <2>4, <1>a, <1>b
<1>3. ASSUME NEW c \in Conns, Reserve(c)
      PROVE  SlotInv' /\ slots' \in 0 .. MaxProcesses
  <2>1. Holders' = Holders
    BY <1>3 DEF Reserve, Holders
  <2> QED BY <1>3, <2>1, <1>a, <1>b DEF Reserve, HandshakeIsFree, SlotIsFree
<1>4. ASSUME NEW c \in Conns, RefuseUpgrade(c)
      PROVE  SlotInv' /\ slots' \in 0 .. MaxProcesses
  <2>1. Holders' = Holders
    BY <1>4 DEF RefuseUpgrade, Holders
  <2>2. reservation = c
    BY <1>4 DEF RefuseUpgrade, ReservationInv
  <2> QED BY <1>4, <2>1, <2>2, <1>a, <1>b DEF RefuseUpgrade, CancelReservation
<1>5. ASSUME NEW c \in Conns, Build(c)
      PROVE  SlotInv' /\ slots' \in 0 .. MaxProcesses
  <2>1. CASE permit[c] # Nobody
    BY <2>1, <1>5, <1>c DEF Build
  <2>2. CASE permit[c] = Nobody
    <3>1. reservation = c /\ c \notin Holders
      BY <2>2, <1>5 DEF Build, PermitInv, HolderPcs, ReservationInv, Holders
    <3>2. Holders' = Holders \cup {c}
      BY <2>2, <3>1, <1>5, <1>a DEF Build, Holders
    <3>3. slots' = slots /\ reservation' = Nobody
      BY <2>2, <1>5 DEF Build, TakeReservation
    <3>4. Cardinality(Holders') = Cardinality(Holders) + 1
      BY <3>1, <3>2, <1>b, OneMore
    <3> QED BY <3>1, <3>3, <3>4, <1>a, <1>b
  <2> QED BY <2>1, <2>2
<1>6. ASSUME NEW c \in Conns, Connect(c)
      PROVE  SlotInv' /\ slots' \in 0 .. MaxProcesses
  <2>1. permit[c] # Nobody
    BY <1>6 DEF Connect, PermitInv, HolderPcs
  <2> QED BY <1>6, <2>1, <1>c DEF Connect
<1>7. ASSUME NEW c \in Conns,
             \/ AskUpgrade(c) \/ StopWaiting(c) \/ SwitchProtocols(c) \/ Abandon(c)
             \/ Spawn(c) \/ Initialize(c) \/ (\E o \in {"ok", "failed"} : Respond(c, o))
             \/ End(c) \/ Cancelled(c) \/ KillChild(c) \/ RecordEnd(c)
      PROVE  SlotInv' /\ slots' \in 0 .. MaxProcesses
  BY <1>7, <1>c DEF AskUpgrade, StopWaiting, SwitchProtocols, Abandon, Spawn, Initialize,
     Respond, End, Cancelled, KillChild, RecordEnd, KeepPermit
<1>8. ASSUME Cancel \/ UNCHANGED vars
      PROVE  SlotInv' /\ slots' \in 0 .. MaxProcesses
  BY <1>8, <1>c DEF Cancel, vars
<1> QED
  BY <1>1, <1>2, <1>3, <1>4, <1>5, <1>6, <1>7, <1>8 DEF Next, Admit, Launch, Finished

\* Types: all but the bound of slots follow from each step alone.
LEMMA StepTypes ==
  ASSUME TypeOK, slots' \in 0 .. MaxProcesses, [Next]_vars
  PROVE  TypeOK'
<1> USE DEF TypeOK, Pcs, Outcomes, Go, launchVars
<1>1. ASSUME NEW c \in Conns, Admit(c)
      PROVE  TypeOK'
  BY <1>1 DEF Admit, AdmitPost, PostEnds, AskUpgrade, StopWaiting, Reserve, RefuseUpgrade,
     CancelReservation, SwitchProtocols, Abandon
<1>2. ASSUME NEW c \in Conns, Build(c) \/ Connect(c) \/ Release(c)
      PROVE  TypeOK'
  BY <1>2 DEF Build, TakeReservation, Connect, Release
<1>3. ASSUME NEW c \in Conns,
             Spawn(c) \/ Initialize(c) \/ End(c) \/ Cancelled(c) \/ KillChild(c)
      PROVE  TypeOK'
  BY <1>3 DEF Spawn, Initialize, End, Cancelled, KeepPermit, KillChild
<1>4. ASSUME NEW c \in Conns, NEW o \in {"ok", "failed"}, Record(c, o)
      PROVE  /\ health' \in [attempts : Nat, failures : Nat, newest : Nat, lastFailed : BOOLEAN]
             /\ outcome' \in [Conns -> Outcomes]
  <2> DEFINE N == IF IsNewest(c) THEN generation[c] ELSE health.newest
             F == IF IsNewest(c) THEN o = "failed" ELSE health.lastFailed
             K == health.failures + (IF o = "failed" THEN 1 ELSE 0)
  <2>1. /\ health.attempts \in Nat /\ health.failures \in Nat /\ health.newest \in Nat
        /\ health.lastFailed \in BOOLEAN
    OBVIOUS
  <2>2. health.attempts + 1 \in Nat /\ K \in Nat /\ N \in Nat
    BY <2>1
  <2>3. F \in BOOLEAN
    BY <2>1
  <2>4. health' = [attempts |-> health.attempts + 1, failures |-> K,
                   newest |-> N, lastFailed |-> F]
    BY <1>4, Zenon DEF Record
  <2>5. outcome' \in [Conns -> Outcomes]
    BY <1>4 DEF Record
  <2> HIDE DEF N, F, K
  <2> QED BY <2>2, <2>3, <2>4, <2>5, Zenon
<1>5. ASSUME NEW c \in Conns, (\E o \in {"ok", "failed"} : Respond(c, o)) \/ RecordEnd(c)
      PROVE  TypeOK'
  BY <1>5, <1>4 DEF Respond, RecordEnd
<1>6. ASSUME Cancel \/ UNCHANGED vars
      PROVE  TypeOK'
  BY <1>6 DEF Cancel, vars
<1> QED BY <1>1, <1>2, <1>3, <1>5, <1>6 DEF Next, Launch, Finished

\* The factory gives every launch a generation that no other has.
LEMMA StepGenerations ==
  ASSUME TypeOK, GenerationInv, [Next]_vars
  PROVE  GenerationInv'
<1> USE DEF TypeOK, Pcs, Outcomes, GenerationInv, LaunchedPcs, Go, launchVars
<1>1. ASSUME NEW c \in Conns, Admit(c)
      PROVE  GenerationInv'
  BY <1>1 DEF Admit, AdmitPost, PostEnds, AskUpgrade, StopWaiting, Reserve, RefuseUpgrade,
     SwitchProtocols, Abandon
<1>2. ASSUME NEW c \in Conns, Build(c)
      PROVE  GenerationInv'
  BY <1>2 DEF Build
<1>3. ASSUME NEW c \in Conns,
             \/ Connect(c) \/ Spawn(c) \/ Initialize(c) \/ End(c) \/ Cancelled(c)
             \/ KillChild(c) \/ Release(c)
      PROVE  GenerationInv'
  BY <1>3 DEF Connect, Spawn, Initialize, End, Cancelled, KillChild, Release
<1>4. ASSUME NEW c \in Conns, (\E o \in {"ok", "failed"} : Respond(c, o)) \/ RecordEnd(c)
      PROVE  GenerationInv'
  BY <1>4 DEF Respond, RecordEnd, TryRecord, Record
<1>5. ASSUME Cancel \/ UNCHANGED vars
      PROVE  GenerationInv'
  BY <1>5 DEF Cancel, vars
<1> QED BY <1>1, <1>2, <1>3, <1>4, <1>5 DEF Next, Launch, Finished

\* One more outcome: it is counted, and reported when its launch is the newest.
LEMMA RecordKeepsHealth ==
  ASSUME TypeOK, GenerationInv, HealthInv,
         NEW c \in Conns, NEW o \in {"ok", "failed"},
         Record(c, o), outcome[c] = "none", generation[c] > 0,
         generation' = generation
  PROVE  HealthInv'
<1>1. /\ outcome \in [Conns -> Outcomes] /\ generation \in [Conns -> Nat]
      /\ health.newest \in Nat /\ health.attempts \in Nat /\ health.failures \in Nat
  BY DEF TypeOK
<1>2. outcome' = [outcome EXCEPT ![c] = o]
  BY DEF Record
<1>3. Recorded' = Recorded \cup {c} /\ c \notin Recorded /\ Recorded \in SUBSET Conns
  BY <1>1, <1>2 DEF Recorded
<1>4. c \notin Failed /\ Failed \in SUBSET Conns
  BY <1>3 DEF Failed
<1>5. Failed' = IF o = "failed" THEN Failed \cup {c} ELSE Failed
  BY <1>1, <1>2, <1>3 DEF Failed
<1>6. /\ health'.attempts = health.attempts + 1
      /\ health'.failures = health.failures + (IF o = "failed" THEN 1 ELSE 0)
      /\ health'.newest = IF IsNewest(c) THEN generation[c] ELSE health.newest
      /\ IsNewest(c) => health'.lastFailed = (o = "failed")
      /\ ~IsNewest(c) => health'.lastFailed = health.lastFailed
  BY DEF Record
<1>7. health'.attempts = Cardinality(Recorded')
  BY <1>3, <1>6, OneMore DEF HealthInv
<1>8. health'.failures = Cardinality(Failed')
  BY <1>4, <1>5, <1>6, OneMore, CardinalityIsNat DEF HealthInv
<1>9. \A d \in Recorded : generation[d] # generation[c]
  BY <1>3 DEF GenerationInv
<1>10. CASE IsNewest(c)
  <2>1. \A d \in Recorded : generation[d] < generation[c]
    BY <1>1, <1>3, <1>10 DEF HealthInv, IsNewest
  <2> QED BY <1>1, <1>2, <1>3, <1>6, <1>7, <1>8, <1>10, <2>1 DEF HealthInv
<1>11. CASE ~IsNewest(c)
  <2>1. Recorded # {}
    BY <1>1, <1>11 DEF HealthInv, IsNewest
  <2>2. PICK d \in Recorded : generation[d] = health.newest
    BY <2>1 DEF HealthInv
  <2>3. generation[c] < health.newest
    BY <1>1, <1>3, <1>9, <1>11, <2>2 DEF IsNewest
  <2>4. health'.newest = health.newest
    BY <1>6, <1>11
  <2>5. \A e \in Recorded' : generation'[e] <= health'.newest
    BY <1>1, <1>3, <2>3, <2>4 DEF HealthInv
  <2>6. ASSUME NEW e \in Recorded', generation'[e] = health'.newest
        PROVE  health'.lastFailed = (outcome'[e] = "failed")
    <3>1. e \in Recorded /\ outcome'[e] = outcome[e]
      BY <1>1, <1>2, <1>3, <2>3, <2>4, <2>6
    <3>2. health.lastFailed = (outcome[e] = "failed")
      BY <3>1, <2>4, <2>6 DEF HealthInv
    <3> QED BY <3>1, <3>2, <1>6, <1>11
  <2>7. d \in Recorded' /\ generation'[d] = health'.newest
    BY <1>3, <2>2, <2>4
  <2> QED BY <1>7, <1>8, <2>5, <2>6, <2>7 DEF HealthInv
<1> QED BY <1>10, <1>11

LEMMA StepHealth ==
  ASSUME TypeOK, GenerationInv, HealthInv, [Next]_vars
  PROVE  HealthInv'
<1>1. ASSUME UNCHANGED <<health, outcome>>,
             \A d \in Recorded : generation'[d] = generation[d]
      PROVE  HealthInv'
  <2>1. Recorded' = Recorded /\ Failed' = Failed
    BY <1>1 DEF Recorded, Failed
  <2> QED BY <1>1, <2>1 DEF HealthInv
<1>2. ASSUME NEW c \in Conns, Admit(c)
      PROVE  HealthInv'
  BY <1>1, <1>2 DEF Admit, AdmitPost, PostEnds, AskUpgrade, StopWaiting, Reserve, RefuseUpgrade,
     SwitchProtocols, Abandon, launchVars
<1>3. ASSUME NEW c \in Conns, Build(c)
      PROVE  HealthInv'
  <2>1. c \notin Recorded
    BY <1>3 DEF Build, Recorded, GenerationInv
  <2> QED BY <1>1, <1>3, <2>1 DEF Build, TypeOK, Recorded
<1>4. ASSUME NEW c \in Conns,
             \/ Connect(c) \/ Spawn(c) \/ Initialize(c) \/ End(c) \/ Cancelled(c)
             \/ KillChild(c) \/ Release(c)
      PROVE  HealthInv'
  BY <1>1, <1>4 DEF Connect, Spawn, Initialize, End, Cancelled, KillChild, Release, launchVars
<1>5. ASSUME NEW c \in Conns, NEW o \in {"ok", "failed"}, Respond(c, o)
      PROVE  HealthInv'
  <2>1. generation[c] > 0 /\ outcome[c] = "none" /\ generation' = generation
    BY <1>5 DEF Respond, TryRecord, GenerationInv, LaunchedPcs
  <2> QED BY <1>5, <2>1, RecordKeepsHealth DEF Respond
<1>6. ASSUME NEW c \in Conns, RecordEnd(c)
      PROVE  HealthInv'
  <2>1. generation[c] > 0 /\ generation' = generation
    BY <1>6 DEF RecordEnd, GenerationInv, LaunchedPcs
  <2>2. CASE TryRecord(c)
    BY <1>6, <2>1, <2>2, RecordKeepsHealth DEF RecordEnd, TryRecord
  <2>3. CASE ~TryRecord(c)
    BY <1>1, <1>6, <2>1, <2>3 DEF RecordEnd
  <2> QED BY <2>2, <2>3
<1>7. ASSUME Cancel \/ UNCHANGED vars
      PROVE  HealthInv'
  BY <1>1, <1>7 DEF Cancel, vars, launchVars
<1> QED BY <1>2, <1>3, <1>4, <1>5, <1>6, <1>7 DEF Next, Launch, Finished

-----------------------------------------------------------------------------
(***************************************************************************)
(* Theorems.                                                               *)
(***************************************************************************)
THEOREM Invariance == Spec => []IInv
<1>1. IInv /\ [Next]_vars => IInv'
  BY StepHolds, StepSlots, StepTypes, StepGenerations, StepHealth DEF IInv
<1> QED BY InitIInv, <1>1, PTL DEF Spec

\* Every variable keeps its type: in particular the semaphore never has more
\* permits than it was made with (runtime.rs:398).
THEOREM TypeCorrect == Spec => []TypeOK
<1>1. IInv => TypeOK
  BY DEF IInv
<1> QED BY <1>1, Invariance, PTL

\* There are never more agents than --max-processes (runtime.rs:654-667).
THEOREM LimitHolds == Spec => []ProcessLimit
<1>1. ASSUME IInv PROVE ProcessLimit
  <2>1. Children \in SUBSET Holders
    BY <1>1, NobodyAssumption DEF IInv, Children, Holders, ChildInv, PermitInv, HolderPcs
  <2>2. IsFiniteSet(Holders)
    BY ConnsAssumption, FS_Subset DEF Holders
  <2>3. Cardinality(Children) <= Cardinality(Holders)
    BY <2>1, <2>2, FS_Subset
  <2>4. Cardinality(Children) \in Nat /\ Cardinality(Holders) \in Nat
    BY CardinalityIsNat DEF Children, Holders
  <2>5. slots \in Nat /\ SlotInv
    BY <1>1, LimitAssumption DEF IInv, TypeOK
  <2> QED BY <2>3, <2>4, <2>5, LimitAssumption DEF SlotInv, ProcessLimit, Children
<1> QED BY <1>1, Invariance, PTL

\* A connection only ever holds the permit that was taken for it
\* (runtime.rs:123, 377-419).
THEOREM PermitsAreOwn == Spec => []ReservationGoesToItsHandshake
<1>1. IInv => ReservationGoesToItsHandshake
  BY DEF IInv, PermitInv, ReservationGoesToItsHandshake
<1> QED BY <1>1, Invariance, PTL

\* Slots are lost to abandoned upgrades only.
THEOREM SlotsReturn == Spec => []SlotsComeBack
<1>1. ASSUME IInv,
             \A c \in Conns : pc[c] \in {"idle", "waiting", "closed", "refused"}, ~Abandoned
      PROVE  slots = MaxProcesses
  <2>1. Holders = {}
    BY <1>1 DEF IInv, PermitInv, HolderPcs, Holders
  <2>2. reservation = Nobody
    BY <1>1, NobodyAssumption DEF IInv, TypeOK, ReservationInv, Abandoned
  <2>3. slots \in Nat /\ MaxProcesses \in Nat
    BY <1>1, LimitAssumption DEF IInv, TypeOK
  <2> QED BY <1>1, <2>1, <2>2, <2>3, FS_EmptySet DEF IInv, SlotInv
<1>2. IInv => SlotsComeBack
  BY <1>1 DEF SlotsComeBack
<1> QED BY <1>2, Invariance, PTL

\* /readyz counts each recorded launch once and reports the newest
\* (runtime.rs:248-269).
THEOREM ReadyzIsRight == Spec => []ReadyzReportsNewestLaunch
<1>1. ASSUME IInv PROVE ReadyzReportsNewestLaunch
  <2>1. /\ health.attempts = Cardinality(Recorded)
        /\ health.failures = Cardinality({c \in Recorded : outcome[c] = "failed"})
    BY <1>1 DEF IInv, HealthInv, Failed
  <2>2. ASSUME NEW c \in Recorded, \A d \in Recorded : generation[d] <= generation[c]
        PROVE  health.lastFailed = (outcome[c] = "failed")
    <3>1. PICK d \in Recorded : generation[d] = health.newest
      BY <1>1, <2>2 DEF IInv, HealthInv
    <3>2. generation[c] = health.newest
      BY <1>1, <2>2, <3>1 DEF IInv, HealthInv, TypeOK, Recorded
    <3> QED BY <1>1, <3>2 DEF IInv, HealthInv
  <2> QED BY <2>1, <2>2 DEF ReadyzReportsNewestLaunch
<1> QED BY <1>1, Invariance, PTL

\* A launch's outcome is recorded by the time its slot is given back, and is final
\* (runtime.rs:348-352, 521-582).
THEOREM OutcomesAreFinal == Spec => LaunchRecordedOnce
<1> DEFINE A == \A c \in Conns :
                  /\ outcome[c] # "none" => outcome'[c] = outcome[c]
                  /\ pc[c] = "releasing" => outcome[c] # "none"
<1>1. ASSUME IInv, [Next]_vars PROVE A
  <2>1. ASSUME NEW c \in Conns, pc[c] = "releasing" PROVE outcome[c] # "none"
    BY <1>1, <2>1 DEF IInv, GenerationInv
  <2>2. ASSUME NEW c \in Conns, outcome[c] # "none" PROVE outcome'[c] = outcome[c]
    <3> USE DEF launchVars
    <3>1. outcome \in [Conns -> Outcomes]
      BY <1>1 DEF IInv, TypeOK
    <3>2. ASSUME NEW d \in Conns, Admit(d) PROVE outcome' = outcome
      BY <3>2 DEF Admit, AdmitPost, PostEnds, AskUpgrade, StopWaiting, Reserve,
         RefuseUpgrade, SwitchProtocols, Abandon
    <3>3. ASSUME NEW d \in Conns,
                 \/ Build(d) \/ Connect(d) \/ Spawn(d) \/ Initialize(d) \/ End(d)
                 \/ Cancelled(d) \/ KillChild(d) \/ Release(d)
          PROVE  outcome' = outcome
      BY <3>3 DEF Build, Connect, Spawn, Initialize, End, Cancelled, KillChild, Release
    <3>4. ASSUME NEW d \in Conns,
                 (\E o \in {"ok", "failed"} : Respond(d, o)) \/ RecordEnd(d)
          PROVE  outcome'[c] = outcome[c]
      BY <3>1, <3>4, <2>2 DEF Respond, RecordEnd, TryRecord, Record
    <3>5. ASSUME Cancel \/ UNCHANGED vars PROVE outcome' = outcome
      BY <3>5 DEF Cancel, vars
    <3> QED BY <1>1, <3>2, <3>3, <3>4, <3>5 DEF Next, Launch, Finished
  <2> QED BY <2>1, <2>2
<1>2. IInv /\ [Next]_vars => [A]_vars
  BY <1>1
<1>3. Spec => [][A]_vars
  BY <1>2, Invariance, PTL DEF Spec
<1> QED BY <1>3 DEF LaunchRecordedOnce
=============================================================================
