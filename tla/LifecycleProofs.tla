--------------------------- MODULE LifecycleProofs ----------------------------
(***************************************************************************)
(* Theorems about Lifecycle, for any processes, agents, commands, catalogs *)
(* and first contents of the machine.                                      *)
(***************************************************************************)
EXTENDS Lifecycle, SequenceTheorems, FiniteSetTheorems, TLAPS

-----------------------------------------------------------------------------
(***************************************************************************)
(* The inductive invariant.                                                *)
(***************************************************************************)

\* Which command is in which phase, and that only an exit has a code.
PhaseInv ==
  \A p \in Processes :
    /\ phase[p] \in {"confirm", "install"} => Cmd(p) = "install_env"
    /\ phase[p] = "work" => Cmd(p) # "install_env" /\ registry[p] # None
    /\ phase[p] \in {"start", "args"} => \A a \in Agents : op[p][a] = "queued"
    /\ phase[p] # "exited" => code[p] = None

\* Which command's operations are where, and what was resolved on the way.
OpInv ==
  \A p \in Processes, a \in Agents :
    /\ Cmd(p) = "uninstall" =>
         op[p][a] \in {"queued", "list", "remove", "inspect", "npm", "uvx", "done"}
    /\ op[p][a] = "running" => Cmd(p) = "run"
    /\ op[p][a] = "binary" => registry[p] \in Digests
    /\ op[p][a] = "inspect" => Distribution(a) = "npx"
    /\ Cmd(p) = "uninstall" /\ op[p][a] = "npm" => Distribution(a) = "npx"
    /\ Cmd(p) = "uninstall" /\ op[p][a] = "uvx" => Distribution(a) # "npx"

\* Nobody uninstalls agent a; nobody but p works on it.
NotUninstalled(a) == \A q \in Processes : Cmd(q) = "uninstall" => a \notin Requested(q)
Alone(p, a)       == \A q \in Processes \ {p} : a \notin Requested(q)

\* An operation that holds the lease of its own entry.
Leasing(p, a) ==
  /\ phase[p] = "work" /\ Cmd(p) # "uninstall"
  /\ \/ op[p][a] \in {"log", "list", "remove"}
     \/ op[p][a] = "running" /\ Distribution(a) = "binary"

\* The entry is there, and is none of those that an update prunes.
LeaseInv ==
  \A p \in Processes, a \in Agents : NotUninstalled(a) /\ Leasing(p, a) =>
    /\ holds[p][a] \in entries[a]
    /\ op[p][a] = "remove" => holds[p][a] \notin listed[p][a]

\* The package runner that uninstall removes an agent's package from.
PackagesOf(a) == IF Distribution(a) = "npx" THEN "npm" ELSE "uvx"

\* What is left of an agent that only one process works on, while that
\* process uninstalls it.
GoneInv ==
  \A p \in Processes, a \in Agents : Cmd(p) = "uninstall" /\ Alone(p, a) =>
    /\ op[p][a] = "remove" => entries[a] \subseteq listed[p][a] \cup {holds[p][a]}
    /\ op[p][a] \in {"inspect", "npm", "uvx"} => entries[a] = {}

\* Programs that make npm's packages and uv's run.
HasJavaScript == {"npm", "deno", Home.deno} \cap programs # {}
HasPython     == {"uv", Home.uv} \cap programs # {}

\* A target that is not there is in the plan still.
PlanInv ==
  \A p \in Processes : phase[p] \in {"confirm", "install"} =>
    /\ HasJavaScript \/ "deno" \in Range(plan[p])
    /\ HasPython \/ "uv" \in Range(plan[p])

\* An operation has one result from its end on, and none before.
ResultInv ==
  \A p \in Processes :
    /\ \A i \in DOMAIN result[p] :
         op[p][result[p][i][1]] = "done" /\ result[p][i][1] \in Requested(p)
    /\ \A i, j \in DOMAIN result[p] : result[p][i][1] = result[p][j][1] => i = j
    /\ \A a \in Agents : op[p][a] = "done" =>
         \E i \in DOMAIN result[p] : result[p][i][1] = a

IInv ==
  /\ PhaseInv /\ OpInv /\ LeaseInv /\ GoneInv /\ PlanInv /\ ResultInv
  /\ InstalledStaysInstalled /\ UninstalledMeansGone /\ EnvironmentIsVerified /\ BatchReport

-----------------------------------------------------------------------------
(***************************************************************************)
(* What the commands are, and what the steps of an operation change.       *)
(***************************************************************************)

\* A process has one of the commands, which names agents (commands/mod.rs:354).
LEMMA JobType ==
  ASSUME TypeOK, NEW p \in Processes
  PROVE  /\ Cmd(p) \in Commands
         /\ job[p].ids \in Seq(Agents)
         /\ job[p].yolo => Cmd(p) = "run"
         /\ Requested(p) \subseteq Agents
<1>1. job[p] \in Jobs
  BY AssignmentsAssumption DEF TypeOK
<1>2. job[p].ids \in Seq(Agents)
  BY <1>1 DEF Jobs
<1>3. Requested(p) \subseteq Agents
  BY <1>2, RangeOfSeq DEF Requested
<1>4. QED
  BY <1>1, <1>2, <1>3 DEF Jobs, Cmd

\* resolve_distribution knows three kinds (registry.rs), npm_package_runner two
\* programs.
LEMMA RunnerType ==
  ASSUME NEW a
  PROVE  Runner(a) \in Runners /\ (Runner(a) = "uvx" <=> Distribution(a) # "npx")
BY DEF Runner, NpmRunner, Runners

\* A step of p's operation for a changes nothing of another operation.
LEMMA GotoEffect ==
  ASSUME TypeOK, NEW p \in Processes, NEW a \in Agents, NEW l \in OpPcs, Goto(p, a, l)
  PROVE  /\ op' \in [Processes -> [Agents -> OpPcs]]
         /\ \A q \in Processes, b \in Agents :
              op'[q][b] = IF q = p /\ b = a THEN l ELSE op[q][b]
BY DEF TypeOK, Goto

\* Nor of the leases and locks of another (BinaryCacheLease, cache.rs).
LEMMA HoldEffect ==
  ASSUME TypeOK, NEW p \in Processes, NEW a \in Agents, NEW d \in Digests \cup {None},
         Hold(p, a, d)
  PROVE  /\ holds' \in [Processes -> [Agents -> Digests \cup {None}]]
         /\ \A q \in Processes, b \in Agents :
              holds'[q][b] = IF q = p /\ b = a THEN d ELSE holds[q][b]
BY DEF TypeOK, Hold

\* Nor of the entries that another has listed (list_cached_agents, cache.rs:388).
LEMMA ListedEffect ==
  ASSUME TypeOK, NEW p \in Processes, NEW a \in Agents, NEW ds \in SUBSET Digests,
         listed' = [listed EXCEPT ![p][a] = ds]
  PROVE  /\ listed' \in [Processes -> [Agents -> SUBSET Digests]]
         /\ \A q \in Processes, b \in Agents :
              listed'[q][b] = IF q = p /\ b = a THEN ds ELSE listed[q][b]
BY DEF TypeOK

\* An operation that returns adds its result after those that are there
\* (run_concurrently, lifecycle.rs:510).
LEMMA FinishEffect ==
  ASSUME TypeOK, NEW p \in Processes, NEW a \in Agents, NEW o \in Good \cup {"failed"},
         Finish(p, a, o)
  PROVE  /\ result' \in [Processes -> Seq(Results)]
         /\ \A q \in Processes : q # p => result'[q] = result[q]
         /\ Len(result'[p]) = Len(result[p]) + 1
         /\ \A i \in 1..Len(result[p]) : result'[p][i] = result[p][i]
         /\ result'[p][Len(result[p]) + 1] = <<a, o>>
<1>1. <<a, o>> \in Results
  BY DEF Results
<1>2. result[p] \in Seq(Results) /\ result \in [Processes -> Seq(Results)]
  BY DEF TypeOK
<1>3. result' = [result EXCEPT ![p] = Append(result[p], <<a, o>>)]
  BY DEF Finish
<1>4. Append(result[p], <<a, o>>) \in Seq(Results)
  BY <1>1, <1>2, AppendProperties
<1>5. result'[p] = Append(result[p], <<a, o>>)
  BY <1>2, <1>3
<1>6. /\ Len(Append(result[p], <<a, o>>)) = Len(result[p]) + 1
      /\ \A i \in 1..Len(result[p]) : Append(result[p], <<a, o>>)[i] = result[p][i]
      /\ Append(result[p], <<a, o>>)[Len(result[p]) + 1] = <<a, o>>
  BY <1>1, <1>2, AppendProperties
<1>7. QED
  BY <1>2, <1>3, <1>4, <1>5, <1>6

\* The same, of the set of results.
LEMMA RangeAppend ==
  ASSUME NEW S, NEW s \in Seq(S), NEW e \in S
  PROVE  Range(Append(s, e)) = Range(s) \cup {e}
<1>1. Append(s, e) = s \o <<e>> /\ <<e>> \in Seq(S)
  BY AppendIsConcat
<1>2. Range(s \o <<e>>) = Range(s) \cup Range(<<e>>)
  BY <1>1, RangeConcatenation
<1>3. Range(<<e>>) = {e}
  BY DEF Range
<1>4. QED
  BY <1>1, <1>2, <1>3

\* What collect has so far, as a set (run_concurrently, lifecycle.rs:531).
LEMMA FinishRange ==
  ASSUME TypeOK, NEW p \in Processes, NEW a \in Agents, NEW o \in Good \cup {"failed"},
         Finish(p, a, o)
  PROVE  /\ \A q \in Processes : q # p => Range(result'[q]) = Range(result[q])
         /\ Range(result'[p]) = Range(result[p]) \cup {<<a, o>>}
<1>1. /\ result' = [result EXCEPT ![p] = Append(result[p], <<a, o>>)]
      /\ result \in [Processes -> Seq(Results)]
  BY DEF Finish, TypeOK
<1>2. /\ result'[p] = Append(result[p], <<a, o>>)
      /\ \A q \in Processes : q # p => result'[q] = result[q]
  BY <1>1
<1>3. result[p] \in Seq(Results) /\ <<a, o>> \in Results
  BY <1>1 DEF Results
<1>4. Range(Append(result[p], <<a, o>>)) = Range(result[p]) \cup {<<a, o>>}
  BY <1>3, RangeAppend
<1>5. QED
  BY <1>2, <1>4

-----------------------------------------------------------------------------
(***************************************************************************)
(* What a filter keeps.                                                    *)
(***************************************************************************)

\* The positions that a filter keeps (the `seen` set of run_concurrently,
\* lifecycle.rs:498, and the failures of report_batch_outcome), one after the
\* other, are all of them in their order.
LEMMA Positions ==
  ASSUME NEW n \in Nat, NEW S \in SUBSET (1..n)
  PROVE  /\ IsFiniteSet(S) /\ Cardinality(S) \in Nat
         /\ \A k \in 1..Cardinality(S) : Position(S, k) \in S
         /\ \A i \in S : \E k \in 1..Cardinality(S) : Position(S, k) = i
         /\ \A j, k \in 1..Cardinality(S) : j < k => Position(S, j) < Position(S, k)
<1> DEFINE Below(i) == {j \in S : j < i}
           rank     == [i \in S |-> Cardinality(Below(i))]
           Ranks    == 0..(Cardinality(S) - 1)
<1>0. \A i \in S : i \in Nat
  OBVIOUS
<1>1. IsFiniteSet(S) /\ Cardinality(S) \in Nat
  <2>1. IsFiniteSet(1..n)
    BY FS_Interval
  <2>2. IsFiniteSet(S)
    BY <2>1, FS_Subset
  <2>3. QED
    BY <2>2, FS_CardinalityType
<1>2. \A i \in S : IsFiniteSet(Below(i)) /\ Cardinality(Below(i)) \in Ranks
  <2> SUFFICES ASSUME NEW i \in S
               PROVE  IsFiniteSet(Below(i)) /\ Cardinality(Below(i)) \in Ranks
    OBVIOUS
  <2>1. Below(i) \in SUBSET S /\ i \notin Below(i) /\ i \in S
    OBVIOUS
  <2>2. /\ IsFiniteSet(Below(i)) /\ Cardinality(Below(i)) <= Cardinality(S)
        /\ Cardinality(Below(i)) # Cardinality(S)
    BY <1>1, <2>1, FS_Subset
  <2>3. Cardinality(Below(i)) \in Nat
    BY <2>2, FS_CardinalityType
  <2> HIDE DEF Below
  <2>4. QED
    BY <1>1, <2>2, <2>3
<1>3. \A i, j \in S : i < j => Cardinality(Below(i)) < Cardinality(Below(j))
  <2> SUFFICES ASSUME NEW i \in S, NEW j \in S, i < j
               PROVE  Cardinality(Below(i)) < Cardinality(Below(j))
    OBVIOUS
  <2>1. Below(i) \in SUBSET Below(j) /\ i \in Below(j) /\ i \notin Below(i)
    <3>1. ~(i < i) /\ \A h \in S : h < i => h < j
      BY <1>0
    <3>2. \A h \in Below(i) : h \in Below(j)
      BY <3>1
    <3>3. QED
      BY <3>1, <3>2
  <2>2. /\ Cardinality(Below(i)) <= Cardinality(Below(j))
        /\ Cardinality(Below(i)) # Cardinality(Below(j))
    BY <1>2, <2>1, FS_Subset
  <2>3. Cardinality(Below(i)) \in Nat /\ Cardinality(Below(j)) \in Nat
    BY <1>2, FS_CardinalityType
  <2> HIDE DEF Below
  <2>4. QED
    BY <2>2, <2>3
<1> HIDE DEF Below
<1>4. rank \in Injection(S, Ranks)
  <2>1. \A i, j \in S : i # j => i < j \/ j < i
    OBVIOUS
  <2>2. \A i, j \in S : i # j => Cardinality(Below(i)) # Cardinality(Below(j))
    BY <1>2, <1>3, <2>1
  <2>3. QED
    BY <1>2, <2>2 DEF Injection, IsInjective
<1>5. IsFiniteSet(Ranks) /\ Cardinality(Ranks) = Cardinality(S)
  <2> DEFINE c == Cardinality(S)
  <2>1. c \in Nat
    BY <1>1
  <2> HIDE DEF c
  <2>2. /\ IsFiniteSet(0..(c - 1))
        /\ Cardinality(0..(c - 1)) = IF 0 > c - 1 THEN 0 ELSE c - 1 - 0 + 1
    BY <2>1, FS_Interval
  <2>3. IsFiniteSet(0..(c - 1)) /\ Cardinality(0..(c - 1)) = c
    BY <2>1, <2>2
  <2>4. QED
    BY <2>3 DEF c
<1>6. rank \in Surjection(S, Ranks)
  <2> HIDE DEF rank, Ranks
  <2> QED BY <1>4, <1>5, FS_Injection
<1>7. \A k \in 1..Cardinality(S) : \E i \in S : Cardinality(Below(i)) = k - 1
  <2>1. \A t \in Ranks : \E i \in S : rank[i] = t
    BY <1>6 DEF Surjection
  <2>2. \A k \in 1..Cardinality(S) : k - 1 \in Ranks
    BY <1>1
  <2>3. QED
    BY <2>1, <2>2
<1>8. \A k \in 1..Cardinality(S) :
        Position(S, k) \in S /\ Cardinality(Below(Position(S, k))) = k - 1
  BY <1>7 DEF Position, Below
<1>9. \A i \in S : \E k \in 1..Cardinality(S) : Position(S, k) = i
  <2> SUFFICES ASSUME NEW i \in S PROVE \E k \in 1..Cardinality(S) : Position(S, k) = i
    OBVIOUS
  <2> DEFINE k == Cardinality(Below(i)) + 1
  <2>1. k \in 1..Cardinality(S) /\ k - 1 = Cardinality(Below(i))
    BY <1>1, <1>2
  <2>2. Position(S, k) \in S /\ Cardinality(Below(Position(S, k))) = Cardinality(Below(i))
    BY <1>8, <2>1
  <2>3. ~(Position(S, k) < i) /\ ~(i < Position(S, k))
    <3> HIDE DEF k, Ranks
    <3>1. Cardinality(Below(i)) \in Int
      BY <1>1, <1>2 DEF Ranks
    <3>2. ~(Cardinality(Below(i)) < Cardinality(Below(i)))
      BY <3>1
    <3>3. QED
      BY <1>3, <2>2, <3>2
  <2>4. Position(S, k) = i
    <3> HIDE DEF k
    <3>1. Position(S, k) \in Nat /\ i \in Nat
      BY <1>0, <2>2
    <3>2. QED
      BY <2>3, <3>1
  <2> HIDE DEF k
  <2>5. QED
    BY <2>1, <2>4
<1>10. \A j, k \in 1..Cardinality(S) : j < k => Position(S, j) < Position(S, k)
  <2> SUFFICES ASSUME NEW j \in 1..Cardinality(S), NEW k \in 1..Cardinality(S), j < k
               PROVE  Position(S, j) < Position(S, k)
    OBVIOUS
  <2>1. /\ Position(S, j) \in S /\ Cardinality(Below(Position(S, j))) = j - 1
        /\ Position(S, k) \in S /\ Cardinality(Below(Position(S, k))) = k - 1
    BY <1>8
  <2>2. Position(S, j) # Position(S, k) /\ ~(Position(S, k) < Position(S, j))
    <3>1. j - 1 # k - 1 /\ ~(k - 1 < j - 1)
      BY <1>1
    <3>2. QED
      BY <1>3, <2>1, <3>1
  <2>3. Position(S, j) \in Nat /\ Position(S, k) \in Nat
    BY <1>0, <2>1
  <2>4. QED
    BY <2>2, <2>3
<1>11. QED
  BY <1>1, <1>8, <1>9, <1>10

\* What a filter keeps, in the order in which it was (dedup of the ids,
\* lifecycle.rs:499, failures of report_batch_outcome, commands/mod.rs:265).
LEMMA FilteredProperties ==
  ASSUME NEW T, NEW s \in Seq(T), NEW S \in SUBSET (1..Len(s))
  PROVE  /\ Filtered(s, S) \in Seq(T) /\ Len(Filtered(s, S)) = Cardinality(S)
         /\ DOMAIN Filtered(s, S) = 1..Cardinality(S)
         /\ \A k \in 1..Cardinality(S) :
              Position(S, k) \in S /\ Filtered(s, S)[k] = s[Position(S, k)]
         /\ Range(Filtered(s, S)) = {s[i] : i \in S}
         /\ Filtered(s, S) = <<>> <=> S = {}
<1>1. Len(s) \in Nat /\ \A i \in S : s[i] \in T
  OBVIOUS
<1>2. /\ IsFiniteSet(S) /\ Cardinality(S) \in Nat
      /\ \A k \in 1..Cardinality(S) : Position(S, k) \in S
      /\ \A i \in S : \E k \in 1..Cardinality(S) : Position(S, k) = i
  BY <1>1, Positions
<1>3. /\ Filtered(s, S) \in Seq(T) /\ Len(Filtered(s, S)) = Cardinality(S)
      /\ DOMAIN Filtered(s, S) = 1..Cardinality(S)
  <2>1. Filtered(s, S) \in [1..Cardinality(S) -> T]
    BY <1>1, <1>2 DEF Filtered
  <2>2. QED
    BY <1>2, <2>1
<1>4. \A k \in 1..Cardinality(S) : Filtered(s, S)[k] = s[Position(S, k)]
  BY DEF Filtered
<1>5. Range(Filtered(s, S)) = {s[i] : i \in S}
  <2>1. Range(Filtered(s, S)) = {s[Position(S, k)] : k \in 1..Cardinality(S)}
    BY <1>3, <1>4 DEF Range
  <2>2. QED
    BY <1>2, <2>1
<1>6. Filtered(s, S) = <<>> <=> S = {}
  <2>1. Cardinality(S) = 0 <=> S = {}
    BY <1>2, FS_EmptySet
  <2>2. Filtered(s, S) = <<>> <=> Len(Filtered(s, S)) = 0
    BY <1>3
  <2>3. QED
    BY <1>3, <2>1, <2>2
<1>7. QED
  BY <1>2, <1>3, <1>4, <1>5, <1>6

-----------------------------------------------------------------------------
(***************************************************************************)
(* The report.                                                             *)
(***************************************************************************)

\* The ids of a request without repetitions are the agents of the request
\* (run_concurrently, lifecycle.rs:498).
LEMMA IdsProperties ==
  ASSUME TypeOK, NEW p \in Processes
  PROVE  /\ Ids(p) \in Seq(Agents) /\ DOMAIN Ids(p) = 1..Len(Ids(p))
         /\ Len(Ids(p)) = Cardinality(First(job[p].ids))
         /\ First(job[p].ids) \in SUBSET (1..Len(job[p].ids))
         /\ \A k \in 1..Len(Ids(p)) :
              /\ Position(First(job[p].ids), k) \in First(job[p].ids)
              /\ Ids(p)[k] = job[p].ids[Position(First(job[p].ids), k)]
         /\ Range(Ids(p)) \subseteq Requested(p)
<1>1. job[p].ids \in Seq(Agents)
  BY JobType
<1>2. First(job[p].ids) \in SUBSET (1..Len(job[p].ids)) /\ DOMAIN job[p].ids = 1..Len(job[p].ids)
  BY <1>1 DEF First
<1>3. /\ Ids(p) \in Seq(Agents) /\ Len(Ids(p)) = Cardinality(First(job[p].ids))
      /\ DOMAIN Ids(p) = 1..Cardinality(First(job[p].ids))
      /\ \A k \in 1..Cardinality(First(job[p].ids)) :
              /\ Position(First(job[p].ids), k) \in First(job[p].ids)
              /\ Ids(p)[k] = job[p].ids[Position(First(job[p].ids), k)]
      /\ Range(Ids(p)) = {job[p].ids[i] : i \in First(job[p].ids)}
  BY <1>1, <1>2, FilteredProperties DEF Ids
<1>4. Range(Ids(p)) \subseteq Requested(p)
  BY <1>2, <1>3 DEF Requested, Range
<1>5. QED
  BY <1>2, <1>3, <1>4

\* The result of an operation that is done, whichever of the results it is.
LEMMA ResultOfProperties ==
  ASSUME TypeOK, ResultInv, NEW p \in Processes, NEW a \in Agents, op[p][a] = "done"
  PROVE  /\ ResultOf(p, a) \in Good \cup {"failed"}
         /\ <<a, ResultOf(p, a)>> \in Range(result[p])
         /\ \A o : <<a, o>> \in Range(result[p]) => o = ResultOf(p, a)
<1> DEFINE at == CHOOSE i \in DOMAIN result[p] : result[p][i][1] = a
<1>1. at \in DOMAIN result[p] /\ result[p][at][1] = a
  <2>1. \E i \in DOMAIN result[p] : result[p][i][1] = a
    BY DEF ResultInv
  <2>2. QED
    BY <2>1
<1>2. ResultOf(p, a) = result[p][at][2]
  BY DEF ResultOf
<1> HIDE DEF at
<1>3. result[p][at] \in Results
  BY <1>1 DEF TypeOK
<1>4. result[p][at] = <<a, ResultOf(p, a)>> /\ ResultOf(p, a) \in Good \cup {"failed"}
  BY <1>1, <1>2, <1>3 DEF Results
<1>5. ASSUME NEW o, <<a, o>> \in Range(result[p]) PROVE o = ResultOf(p, a)
  <2>1. PICK j \in DOMAIN result[p] : result[p][j] = <<a, o>>
    BY <1>5 DEF Range
  <2>2. at = j
    BY <1>1, <2>1 DEF ResultInv
  <2>3. QED
    BY <1>4, <2>1, <2>2
<1>6. QED
  BY <1>1, <1>4, <1>5 DEF Range

\* What run_concurrently returns (lifecycle.rs:537).
LEMMA RequestOrder ==
  ASSUME TypeOK, ResultInv, NEW p \in Processes,
         \A a \in Requested(p) : op[p][a] = "done"
  PROVE  /\ InRequestOrder(p) \in Seq(Results)
         /\ Len(InRequestOrder(p)) = Len(Ids(p))
         /\ DOMAIN InRequestOrder(p) = 1..Len(Ids(p))
         /\ \A k \in 1..Len(Ids(p)) :
              InRequestOrder(p)[k] = <<Ids(p)[k], ResultOf(p, Ids(p)[k])>>
<1>1. /\ Ids(p) \in Seq(Agents) /\ DOMAIN Ids(p) = 1..Len(Ids(p)) /\ Len(Ids(p)) \in Nat
      /\ Range(Ids(p)) \subseteq Requested(p)
  BY IdsProperties
<1>2. \A k \in 1..Len(Ids(p)) : Ids(p)[k] \in Requested(p) /\ Ids(p)[k] \in Agents
  BY <1>1 DEF Range
<1>3. \A k \in 1..Len(Ids(p)) : ResultOf(p, Ids(p)[k]) \in Good \cup {"failed"}
  BY <1>2, ResultOfProperties
<1>4. \A k \in 1..Len(Ids(p)) : <<Ids(p)[k], ResultOf(p, Ids(p)[k])>> \in Results
  BY <1>2, <1>3 DEF Results
<1>5. InRequestOrder(p) \in [1..Len(Ids(p)) -> Results]
  BY <1>1, <1>4 DEF InRequestOrder
<1>6. QED
  BY <1>1, <1>5 DEF InRequestOrder

-----------------------------------------------------------------------------
(***************************************************************************)
(* Type correctness.                                                       *)
(***************************************************************************)

OperationsOK ==
  /\ op \in [Processes -> [Agents -> OpPcs]]
  /\ holds \in [Processes -> [Agents -> Digests \cup {None}]]
  /\ listed \in [Processes -> [Agents -> SUBSET Digests]]
  /\ removed \in [Processes -> SUBSET Agents]
  /\ result \in [Processes -> Seq(Results)]

\* An operation that returns, or goes on, keeps the types (lifecycle.rs:492).
LEMMA FinishType ==
  ASSUME TypeOK, NEW p \in Processes, NEW a \in Agents, NEW o \in Good \cup {"failed"},
         Finish(p, a, o)
  PROVE  OperationsOK'
<1>1. op' \in [Processes -> [Agents -> OpPcs]]
  <2>1. "done" \in OpPcs /\ Goto(p, a, "done")
    BY DEF OpPcs, Finish
  <2>2. QED
    BY <2>1, GotoEffect
<1>2. holds' \in [Processes -> [Agents -> Digests \cup {None}]]
  BY HoldEffect DEF Finish
<1>3. listed' \in [Processes -> [Agents -> SUBSET Digests]]
  <2>1. {} \in SUBSET Digests /\ listed' = [listed EXCEPT ![p][a] = {}]
    BY DEF Finish
  <2>2. QED
    BY <2>1, ListedEffect
<1>4. result' \in [Processes -> Seq(Results)]
  BY FinishEffect
<1>5. QED
  BY <1>1, <1>2, <1>3, <1>4 DEF OperationsOK, Finish, TypeOK

\* So does one that goes on to its next await.
LEMMA MoveType ==
  ASSUME TypeOK, NEW p \in Processes, NEW a \in Agents, NEW l \in OpPcs, Move(p, a, l)
  PROVE  OperationsOK'
<1>1. op' \in [Processes -> [Agents -> OpPcs]]
  BY GotoEffect DEF Move
<1>2. QED
  BY <1>1 DEF OperationsOK, Move, TypeOK

\* A step of an operation keeps the types of what operations are (OpStep).
LEMMA OpType ==
  ASSUME TypeOK, OpInv, NEW p \in Processes, NEW a \in Agents,
         OpStep(p, a) \/ AgentEnds(p, a) \/ Panic(p, a)
  PROVE  OperationsOK'
<1> USE DEF OpPcs, Good
<1>1. CASE StartUninstall(p, a)
  BY <1>1, MoveType DEF StartUninstall
<1>2. CASE StartInstall(p, a)
  <2>1. CASE Finish(p, a, "failed")
    BY <2>1, FinishType
  <2>2. CASE Move(p, a, IF Distribution(a) = "binary" THEN "binary" ELSE Runner(a))
    <3>1. Runner(a) \in OpPcs
      BY RunnerType DEF Runners
    <3>2. QED
      BY <2>2, <3>1, MoveType
  <2>3. QED
    BY <1>2, <2>1, <2>2 DEF StartInstall
<1>3. CASE StartRun(p, a)
  <2>1. CASE Finish(p, a, "failed")
    BY <2>1, FinishType
  <2>2. CASE Move(p, a, IF Distribution(a) = "binary" THEN "binary" ELSE "running")
    BY <2>2, MoveType
  <2>3. QED
    BY <1>3, <2>1, <2>2 DEF StartRun
<1>4. CASE CacheBinary(p, a)
  <2>1. CASE Finish(p, a, "failed")
    BY <2>1, FinishType
  <2>2. CASE Hold(p, a, registry[p]) /\ Goto(p, a, "log") /\ UNCHANGED <<listed, removed, result>>
    <3>1. registry[p] \in Digests
      BY <1>4 DEF CacheBinary, At, OpInv
    <3>2. op' \in [Processes -> [Agents -> OpPcs]]
      BY <2>2, GotoEffect
    <3>3. holds' \in [Processes -> [Agents -> Digests \cup {None}]]
      BY <2>2, <3>1, HoldEffect
    <3>4. QED
      BY <2>2, <3>2, <3>3 DEF OperationsOK, TypeOK
  <2>3. QED
    BY <1>4, <2>1, <2>2 DEF CacheBinary
<1>5. CASE LogInstall(p, a)
  <2>1. Move(p, a, "list") \/ Move(p, a, "running") \/ Finish(p, a, "binary")
    BY <1>5 DEF LogInstall
  <2>2. QED
    BY <2>1, MoveType, FinishType
<1>6. CASE ListEntries(p, a)
  <2>1. op' \in [Processes -> [Agents -> OpPcs]]
    BY <1>6, GotoEffect DEF ListEntries
  <2>2. entries[a] \ {holds[p][a]} \in SUBSET Digests
    BY DEF TypeOK
  <2>3. listed' \in [Processes -> [Agents -> SUBSET Digests]]
    BY <1>6, <2>2, ListedEffect DEF ListEntries
  <2>4. QED
    BY <1>6, <2>1, <2>3 DEF ListEntries, OperationsOK, TypeOK
<1>7. CASE Prune(p, a)
  <2>1. CASE Finish(p, a, "failed")
    BY <2>1, FinishType
  <2>2. ASSUME NEW d, Look(p, a, d), UNCHANGED <<op, holds, removed, result>>
        PROVE  OperationsOK'
    <3>1. listed[p][a] \ {d} \in SUBSET Digests
      BY DEF TypeOK
    <3>2. listed' = [listed EXCEPT ![p][a] = listed[p][a] \ {d}]
      BY <2>2 DEF Look
    <3>3. listed' \in [Processes -> [Agents -> SUBSET Digests]]
      BY <3>1, <3>2, ListedEffect
    <3>4. QED
      BY <2>2, <3>3 DEF OperationsOK, TypeOK
  <2>3. QED
    BY <1>7, <2>1, <2>2 DEF Prune
<1>8. CASE Pruned(p, a)
  BY <1>8, FinishType DEF Pruned
<1>9. CASE LockEntry(p, a)
  <2>1. PICK d \in listed[p][a] : Hold(p, a, d) /\ Look(p, a, d)
    BY <1>9 DEF LockEntry
  <2>2. d \in Digests /\ listed[p][a] \ {d} \in SUBSET Digests
    BY DEF TypeOK
  <2>3. holds' \in [Processes -> [Agents -> Digests \cup {None}]]
    BY <2>1, <2>2, HoldEffect
  <2>4. listed' = [listed EXCEPT ![p][a] = listed[p][a] \ {d}]
    BY <2>1 DEF Look
  <2>5. listed' \in [Processes -> [Agents -> SUBSET Digests]]
    BY <2>2, <2>4, ListedEffect
  <2>6. QED
    BY <1>9, <2>3, <2>5 DEF LockEntry, OperationsOK, TypeOK
<1>10. CASE RemoveEntry(p, a)
  <2>1. CASE Finish(p, a, "failed")
    BY <2>1, FinishType
  <2>2. CASE /\ removed' = IF holds[p][a] \in entries[a]
                             THEN [removed EXCEPT ![p] = @ \cup {a}] ELSE removed
             /\ Hold(p, a, None)
             /\ UNCHANGED <<op, listed, result>>
    <3>1. holds' \in [Processes -> [Agents -> Digests \cup {None}]]
      BY <2>2, HoldEffect
    <3>2. removed' \in [Processes -> SUBSET Agents]
      BY <2>2 DEF TypeOK
    <3>3. QED
      BY <2>2, <3>1, <3>2 DEF OperationsOK, TypeOK
  <2>3. QED
    BY <1>10, <2>1, <2>2 DEF RemoveEntry
<1>11. CASE Lookup(p, a)
  <2>1. \/ \E o \in Good \cup {"failed"} : Finish(p, a, o)
        \/ Move(p, a, "inspect") \/ Move(p, a, "uvx")
    BY <1>11 DEF Lookup
  <2>2. QED
    BY <2>1, MoveType, FinishType
<1>12. CASE Inspect(p, a)
  <2>1. Move(p, a, "npm") \/ Finish(p, a, "managed") \/ Finish(p, a, "failed")
    BY <1>12 DEF Inspect
  <2>2. QED
    BY <2>1, MoveType, FinishType
<1>13. CASE RunPackageManager(p, a)
  <2>1. Finish(p, a, "package") \/ Finish(p, a, "failed")
    BY <1>13 DEF RunPackageManager
  <2>2. QED
    BY <2>1, FinishType
<1>14. CASE AgentEnds(p, a)
  <2>1. Finish(p, a, "binary") \/ Finish(p, a, "package")
    BY <1>14 DEF AgentEnds
  <2>2. QED
    BY <2>1, FinishType
<1>15. CASE Panic(p, a)
  BY <1>15, FinishType DEF Panic
<1>16. QED
  BY <1>1, <1>2, <1>3, <1>4, <1>5, <1>6, <1>7, <1>8, <1>9, <1>10, <1>11, <1>12, <1>13,
     <1>14, <1>15 DEF OpStep

MachineOK ==
  /\ published \in Digests
  /\ entries \in [Agents -> SUBSET Digests]
  /\ packages \in [Runners -> SUBSET Agents]
  /\ programs \subseteq Names

\* The cache and the package managers hold agents' things only.
LEMMA MachineType ==
  ASSUME TypeOK, OpInv, NEW p \in Processes, NEW a \in Agents,
         OpStep(p, a) \/ AgentEnds(p, a) \/ Panic(p, a)
  PROVE  MachineOK'
<1>1. CASE UNCHANGED machine
  BY <1>1 DEF machine, TypeOK, MachineOK
<1>2. CASE CacheBinary(p, a)
  <2>1. registry[p] \in Digests
    BY <1>2 DEF CacheBinary, At, OpInv
  <2>2. entries[a] \cup {registry[p]} \in SUBSET Digests
    BY <2>1 DEF TypeOK
  <2>3. /\ entries' = entries \/ entries' = [entries EXCEPT ![a] = entries[a] \cup {registry[p]}]
        /\ UNCHANGED <<published, packages, programs>>
    BY <1>2 DEF CacheBinary
  <2>4. entries' \in [Agents -> SUBSET Digests]
    <3>1. entries \in [Agents -> SUBSET Digests]
      BY DEF TypeOK
    <3>2. QED
      BY <2>2, <2>3, <3>1
  <2>5. QED
    BY <2>3, <2>4 DEF TypeOK, MachineOK
<1>3. CASE Prune(p, a) \/ RemoveEntry(p, a)
  <2>1. /\ entries' = entries \/ \E d : entries' = [entries EXCEPT ![a] = entries[a] \ {d}]
        /\ UNCHANGED <<published, packages, programs>>
    BY <1>3 DEF Prune, RemoveEntry, Drop
  <2>2. entries' \in [Agents -> SUBSET Digests]
    <3>1. entries \in [Agents -> SUBSET Digests]
      BY DEF TypeOK
    <3>2. \A d : entries[a] \ {d} \in SUBSET Digests
      BY <3>1
    <3>3. QED
      BY <2>1, <3>1, <3>2
  <2>3. QED
    BY <2>1, <2>2 DEF TypeOK, MachineOK
<1>4. CASE RunPackageManager(p, a)
  <2> DEFINE r == op[p][a]
  <2>1. /\ \/ packages' = packages
           \/ packages' = [packages EXCEPT ![r] = packages[r] \ {a}]
           \/ packages' = [packages EXCEPT ![r] = packages[r] \cup {a}]
        /\ UNCHANGED <<published, entries, programs>>
    BY <1>4 DEF RunPackageManager
  <2>2. packages' \in [Runners -> SUBSET Agents]
    <3> HIDE DEF r
    <3> QED BY <2>1 DEF TypeOK
  <2>3. QED
    BY <2>1, <2>2 DEF TypeOK, MachineOK
<1>5. QED
  BY <1>1, <1>2, <1>3, <1>4
     DEF OpStep, StartUninstall, StartInstall, StartRun, LogInstall, ListEntries, Pruned,
         LockEntry, Lookup, Inspect, AgentEnds, Panic

\* plan_installation plans targets only (environment.rs:47).
LEMMA PlanType == PlanInstallation \in Seq(Targets)
<1>1. <<"deno">> \in Seq(Targets) /\ <<"uv">> \in Seq(Targets) /\ <<>> \in Seq(Targets)
  BY DEF Targets
<1>2. QED
  BY <1>1, ConcatProperties DEF PlanInstallation

\* The phase and the exit code of a process that takes a step.
LEMMA ControlType ==
  ASSUME TypeOK, NEW p \in Processes,
         \/ phase' = phase
         \/ \E l \in {"args", "work", "confirm", "install", "exited"} :
              phase' = [phase EXCEPT ![p] = l],
         code' = code \/ \E c \in {0, 1, 137} : code' = [code EXCEPT ![p] = c]
  PROVE  /\ phase' \in [Processes -> {"start", "args", "work", "confirm", "install", "exited"}]
         /\ code' \in [Processes -> {None, 0, 1, 137}]
<1>1. /\ phase \in [Processes -> {"start", "args", "work", "confirm", "install", "exited"}]
      /\ code \in [Processes -> {None, 0, 1, 137}]
  BY DEF TypeOK
<1>2. phase' \in [Processes -> {"start", "args", "work", "confirm", "install", "exited"}]
  BY <1>1
<1>3. code' \in [Processes -> {None, 0, 1, 137}]
  BY <1>1
<1>4. QED
  BY <1>2, <1>3

\* Every step keeps the types; what OpInv and ResultInv say of a registry's digest
\* and of a batch's results is needed for an entry's and for the report's.
LEMMA TypeStep == TypeOK /\ OpInv /\ ResultInv /\ [Next]_vars => TypeOK'
<1> SUFFICES ASSUME TypeOK, OpInv, ResultInv, [Next]_vars PROVE TypeOK'
  OBVIOUS
<1> USE DEF rest, machine, operations, vars
<1>1. ASSUME NEW p \in Processes, ResolveArgs(p) PROVE TypeOK'
  <2>1. /\ \/ phase' = [phase EXCEPT ![p] = "args"]
           \/ phase' = [phase EXCEPT ![p] = "exited"]
        /\ code' = code \/ code' = [code EXCEPT ![p] = 1]
        /\ UNCHANGED <<job, machine, registry, operations, plan, output>>
    BY <1>1 DEF ResolveArgs, Exit
  <2>2. QED
    BY <2>1, ControlType DEF TypeOK
<1>2. ASSUME NEW p \in Processes, FetchRegistry(p) PROVE TypeOK'
  BY <1>2 DEF TypeOK, FetchRegistry, Snapshots
<1>3. ASSUME NEW p \in Processes, Report(p) PROVE TypeOK'
  <2> DEFINE rs == InRequestOrder(p)
             F  == {i \in DOMAIN rs : rs[i][2] \notin Good}
  <2>1. rs \in Seq(Results) /\ F \in SUBSET (1..Len(rs))
    BY <1>3, RequestOrder DEF Report
  <2>2. Filtered(rs, F) \in Seq(Results)
    BY <2>1, FilteredProperties
  <2>3. rs \in Seq(Results \cup Notices) /\ Filtered(rs, F) \in Seq(Results \cup Notices)
    BY <2>1, <2>2, SeqMonotonic
  <2>4. /\ output' = [output EXCEPT ![p] = IF Filtered(rs, F) = <<>> THEN rs ELSE Filtered(rs, F)]
        /\ code' = [code EXCEPT ![p] = IF Filtered(rs, F) = <<>> THEN 0 ELSE 1]
        /\ phase' = [phase EXCEPT ![p] = "exited"]
        /\ UNCHANGED <<job, machine, registry, operations, plan>>
    BY <1>3 DEF Report
  <2> HIDE DEF rs, F
  <2>5. QED
    BY <2>3, <2>4 DEF TypeOK
<1>4. ASSUME NEW p \in Processes, RunFails(p) PROVE TypeOK'
  BY <1>4 DEF TypeOK, RunFails, Exit
<1>5. ASSUME NEW p \in Processes, Detect(p) PROVE TypeOK'
  <2>1. /\ \/ phase' = [phase EXCEPT ![p] = "exited"]
           \/ phase' = [phase EXCEPT ![p] = "install"]
           \/ phase' = [phase EXCEPT ![p] = "confirm"]
        /\ code' = code \/ code' = [code EXCEPT ![p] = 0]
        /\ plan' = [plan EXCEPT ![p] = PlanInstallation]
        /\ UNCHANGED <<job, machine, registry, operations, output>>
    BY <1>5 DEF Detect, Exit
  <2>2. plan' \in [Processes -> Seq(Targets)]
    BY <2>1, PlanType DEF TypeOK
  <2>3. QED
    BY <2>1, <2>2, ControlType DEF TypeOK
<1>6. ASSUME NEW p \in Processes, Confirm(p) PROVE TypeOK'
  <2>1. <<<<None, "cancelled">>>> \in Seq(Results \cup Notices)
    BY DEF Notices
  <2>2. /\ \/ phase' = phase
           \/ phase' = [phase EXCEPT ![p] = "exited"]
           \/ phase' = [phase EXCEPT ![p] = "install"]
        /\ code' = code \/ code' = [code EXCEPT ![p] = 0]
        /\ output' = output \/ output' = [output EXCEPT ![p] = <<<<None, "cancelled">>>>]
        /\ UNCHANGED <<job, machine, registry, operations, plan>>
    BY <1>6 DEF Confirm, Exit
  <2>3. output' \in [Processes -> Seq(Results \cup Notices)]
    <3>1. output \in [Processes -> Seq(Results \cup Notices)]
      BY DEF TypeOK
    <3>2. QED
      BY <2>1, <2>2, <3>1
  <2>4. QED
    BY <2>2, <2>3, ControlType DEF TypeOK
<1>7. ASSUME NEW p \in Processes, InstallTarget(p) PROVE TypeOK'
  <2>1. plan[p] \in Seq(Targets) /\ plan[p] # <<>>
    BY <1>7 DEF TypeOK, InstallTarget
  <2>2. Head(plan[p]) \in Targets /\ Tail(plan[p]) \in Seq(Targets)
    BY <2>1, HeadTailProperties
  <2>3. {Head(plan[p])} \subseteq Names /\ {Home[Head(plan[p])]} \subseteq Names
    BY <2>2 DEF Targets, Names, Home
  <2>4. programs' \subseteq Names
    BY <1>7, <2>3 DEF InstallTarget, TypeOK
  <2>5. /\ plan' = plan \/ plan' = [plan EXCEPT ![p] = Tail(plan[p])]
        /\ phase' = phase \/ phase' = [phase EXCEPT ![p] = "exited"]
        /\ code' = code \/ code' = [code EXCEPT ![p] = 1]
        /\ UNCHANGED <<job, published, entries, packages, registry, operations, output>>
    BY <1>7 DEF InstallTarget, Exit
  <2>6. plan' \in [Processes -> Seq(Targets)]
    <3>1. plan \in [Processes -> Seq(Targets)]
      BY DEF TypeOK
    <3>2. QED
      BY <2>2, <2>5, <3>1
  <2>7. QED
    BY <2>4, <2>5, <2>6, ControlType DEF TypeOK
<1>8. ASSUME NEW p \in Processes, InstallComplete(p) PROVE TypeOK'
  <2>1. <<<<None, "complete">>>> \in Seq(Results \cup Notices)
    BY DEF Notices
  <2>2. QED
    BY <1>8, <2>1 DEF TypeOK, InstallComplete, Exit
<1>9. ASSUME NEW p \in Processes, NEW a \in Requested(p),
             OpStep(p, a) \/ AgentEnds(p, a) \/ Panic(p, a)
      PROVE  TypeOK'
  <2>1. a \in Agents
    BY JobType
  <2>2. OperationsOK' /\ MachineOK'
    BY <1>9, <2>1, OpType, MachineType
  <2>3. /\ phase' = phase \/ phase' = [phase EXCEPT ![p] = "exited"]
        /\ code' = code \/ \E c \in {0, 1, 137} : code' = [code EXCEPT ![p] = c]
        /\ UNCHANGED <<job, registry, plan, output>>
    <3>1. CASE OpStep(p, a) \/ Panic(p, a)
      BY <3>1 DEF OpStep, StartUninstall, StartInstall, StartRun, CacheBinary, LogInstall,
                  ListEntries, Prune, Pruned, LockEntry, RemoveEntry, Lookup, Inspect,
                  RunPackageManager, Panic
    <3>2. CASE AgentEnds(p, a)
      <4>1. PICK status \in {<<"code", 0>>, <<"code", 1>>, <<"signal", 9>>} :
              Exit(p, ExitFromStatus(status))
        BY <3>2 DEF AgentEnds
      <4>2. ExitFromStatus(status) \in {0, 1, 137}
        BY DEF ExitFromStatus
      <4>3. QED
        BY <3>2, <4>1, <4>2 DEF AgentEnds, Exit
    <3>3. QED
      BY <1>9, <3>1, <3>2
  <2>4. /\ phase' \in [Processes -> {"start", "args", "work", "confirm", "install", "exited"}]
        /\ code' \in [Processes -> {None, 0, 1, 137}]
    BY <2>3, ControlType
  <2>5. QED
    BY <2>2, <2>3, <2>4 DEF TypeOK, OperationsOK, MachineOK
<1>10. CASE Publish
  BY <1>10 DEF TypeOK, Publish, Digests
<1>11. CASE UNCHANGED vars
  BY <1>11 DEF TypeOK
<1>12. QED
  BY <1>1, <1>2, <1>3, <1>4, <1>5, <1>6, <1>7, <1>8, <1>9, <1>10, <1>11 DEF Next

-----------------------------------------------------------------------------
(***************************************************************************)
(* What a step of an operation leaves alone.                               *)
(***************************************************************************)

Frame(p, a) ==
  \A q \in Processes, b \in Agents : q # p \/ b # a =>
    /\ op'[q][b] = op[q][b]
    /\ holds'[q][b] = holds[q][b]
    /\ listed'[q][b] = listed[q][b]

\* An operation ends (run_concurrently, lifecycle.rs:510).
LEMMA FinishStep ==
  ASSUME TypeOK, NEW p \in Processes, NEW a \in Agents, NEW o \in Good \cup {"failed"},
         Finish(p, a, o)
  PROVE  /\ Frame(p, a)
         /\ op'[p][a] = "done" /\ holds'[p][a] = None /\ listed'[p][a] = {}
<1>1. "done" \in OpPcs /\ {} \in SUBSET Digests /\ listed' = [listed EXCEPT ![p][a] = {}]
  BY DEF OpPcs, Finish
<1>2. \A q \in Processes, b \in Agents :
        op'[q][b] = IF q = p /\ b = a THEN "done" ELSE op[q][b]
  BY <1>1, GotoEffect DEF Finish
<1>3. \A q \in Processes, b \in Agents :
        holds'[q][b] = IF q = p /\ b = a THEN None ELSE holds[q][b]
  BY HoldEffect DEF Finish
<1>4. \A q \in Processes, b \in Agents :
        listed'[q][b] = IF q = p /\ b = a THEN {} ELSE listed[q][b]
  BY <1>1, ListedEffect
<1>5. QED
  BY <1>2, <1>3, <1>4 DEF Frame

\* An operation goes on.
LEMMA MoveStep ==
  ASSUME TypeOK, NEW p \in Processes, NEW a \in Agents, NEW l \in OpPcs, Move(p, a, l)
  PROVE  /\ Frame(p, a)
         /\ op'[p][a] = l /\ holds' = holds /\ listed' = listed /\ result' = result
BY GotoEffect DEF Move, Frame

\* An update or an uninstall takes an entry off its list (cache.rs:538).
LEMMA LookStep ==
  ASSUME TypeOK, NEW p \in Processes, NEW a \in Agents, NEW d, Look(p, a, d)
  PROVE  \A q \in Processes, b \in Agents :
           listed'[q][b] = IF q = p /\ b = a THEN listed[p][a] \ {d} ELSE listed[q][b]
<1>1. /\ listed' = [listed EXCEPT ![p][a] = listed[p][a] \ {d}]
      /\ listed[p][a] \ {d} \in SUBSET Digests
  BY DEF Look, TypeOK
<1>2. QED
  BY <1>1, ListedEffect

\* What a run, an install and an update do with the registry's entry
\* (refresh_binary_target_in, mod.rs).
LEMMA CacheStep ==
  ASSUME TypeOK, OpInv, NEW p \in Processes, NEW a \in Agents, CacheBinary(p, a)
  PROVE  /\ op[p][a] = "binary" /\ registry[p] \in Digests
         /\ \/ Finish(p, a, "failed") /\ entries' = entries
            \/ /\ Frame(p, a) /\ op'[p][a] = "log" /\ holds'[p][a] = registry[p]
               /\ UNCHANGED <<listed, result>>
               /\ \A b \in Agents :
                    entries'[b] = IF b = a THEN entries[a] \cup {registry[p]} ELSE entries[b]
<1>1. op[p][a] = "binary" /\ registry[p] \in Digests
  BY DEF CacheBinary, At, OpInv
<1>2. CASE Finish(p, a, "failed") /\ entries' = entries
  BY <1>1, <1>2
<1>3. CASE /\ entries' = [entries EXCEPT ![a] = entries[a] \cup {registry[p]}]
           /\ Hold(p, a, registry[p]) /\ Goto(p, a, "log")
           /\ UNCHANGED <<listed, removed, result>>
  <2>1. \A b \in Agents :
          entries'[b] = IF b = a THEN entries[a] \cup {registry[p]} ELSE entries[b]
    BY <1>3 DEF TypeOK
  <2>2. "log" \in OpPcs /\ registry[p] \in Digests \cup {None}
    BY <1>1 DEF OpPcs
  <2>3. \A q \in Processes, b \in Agents :
          op'[q][b] = IF q = p /\ b = a THEN "log" ELSE op[q][b]
    BY <1>3, <2>2, GotoEffect
  <2>4. \A q \in Processes, b \in Agents :
          holds'[q][b] = IF q = p /\ b = a THEN registry[p] ELSE holds[q][b]
    BY <1>3, <2>2, HoldEffect
  <2>5. QED
    BY <1>1, <1>3, <2>1, <2>3, <2>4 DEF Frame
<1>4. QED
  BY <1>2, <1>3 DEF CacheBinary

\* The entries that an update or an uninstall will look at (cache.rs:476).
LEMMA ListStep ==
  ASSUME TypeOK, NEW p \in Processes, NEW a \in Agents, ListEntries(p, a)
  PROVE  /\ Frame(p, a)
         /\ op[p][a] = "list" /\ op'[p][a] = "remove"
         /\ listed'[p][a] = entries[a] \ {holds[p][a]}
         /\ UNCHANGED <<holds, result, entries, packages>>
<1>1. "remove" \in OpPcs /\ entries[a] \ {holds[p][a]} \in SUBSET Digests
  BY DEF OpPcs, TypeOK
<1>2. \A q \in Processes, b \in Agents :
        op'[q][b] = IF q = p /\ b = a THEN "remove" ELSE op[q][b]
  BY <1>1, GotoEffect DEF ListEntries
<1>3. \A q \in Processes, b \in Agents :
        listed'[q][b] = IF q = p /\ b = a THEN entries[a] \ {holds[p][a]} ELSE listed[q][b]
  BY <1>1, ListedEffect DEF ListEntries
<1>4. QED
  BY <1>2, <1>3 DEF ListEntries, machine, At, Frame

\* An update looks at one of the other entries: it is in use, or goes, or its
\* removal fails (remove_replaced_platform_entries, cache.rs:453).
LEMMA PruneStep ==
  ASSUME TypeOK, NEW p \in Processes, NEW a \in Agents, Prune(p, a)
  PROVE  /\ Cmd(p) = "update" /\ op[p][a] = "remove"
         /\ \/ Finish(p, a, "failed") /\ entries' = entries
            \/ /\ Frame(p, a) /\ UNCHANGED <<op, holds, result>>
               /\ \E d \in listed[p][a] :
                    /\ listed'[p][a] = listed[p][a] \ {d}
                    /\ \/ entries' = entries
                       \/ /\ \A q \in Others(p, a) : holds[q][a] # d
                          /\ \A b \in Agents :
                               entries'[b] = IF b = a THEN entries[a] \ {d} ELSE entries[b]
<1>1. Cmd(p) = "update" /\ op[p][a] = "remove"
  BY DEF Prune, At
<1>2. CASE Finish(p, a, "failed") /\ entries' = entries
  BY <1>1, <1>2
<1>3. ASSUME NEW d \in listed[p][a], Look(p, a, d), UNCHANGED <<op, holds, result>>,
             \/ entries' = entries
             \/ Drop(a, d) /\ \A q \in Others(p, a) : holds[q][a] # d
      PROVE  /\ Frame(p, a) /\ UNCHANGED <<op, holds, result>>
             /\ listed'[p][a] = listed[p][a] \ {d}
             /\ \/ entries' = entries
                \/ /\ \A q \in Others(p, a) : holds[q][a] # d
                   /\ \A b \in Agents :
                        entries'[b] = IF b = a THEN entries[a] \ {d} ELSE entries[b]
  <2>1. Drop(a, d) => \A b \in Agents :
          entries'[b] = IF b = a THEN entries[a] \ {d} ELSE entries[b]
    BY DEF Drop, TypeOK
  <2>2. \A q \in Processes, b \in Agents :
          listed'[q][b] = IF q = p /\ b = a THEN listed[p][a] \ {d} ELSE listed[q][b]
    <3>1. /\ listed' = [listed EXCEPT ![p][a] = listed[p][a] \ {d}]
          /\ listed[p][a] \ {d} \in SUBSET Digests
      BY <1>3 DEF Look, TypeOK
    <3>2. QED
      BY <3>1, ListedEffect
  <2>3. Frame(p, a)
    BY <1>3, <2>2 DEF Frame
  <2>4. QED
    BY <1>3, <2>1, <2>2, <2>3
<1>4. QED
  BY <1>1, <1>2, <1>3 DEF Prune

\* An uninstall locks an entry of its list, then removes it or fails
\* (remove_cached_agent, cache.rs:442).
LEMMA LockStep ==
  ASSUME TypeOK, NEW p \in Processes, NEW a \in Agents, LockEntry(p, a)
  PROVE  /\ Cmd(p) = "uninstall" /\ op[p][a] = "remove" /\ holds[p][a] = None
         /\ Frame(p, a) /\ UNCHANGED <<op, result, entries, packages>>
         /\ holds'[p][a] \in listed[p][a]
         /\ listed'[p][a] = listed[p][a] \ {holds'[p][a]}
<1>1. PICK d \in listed[p][a] : Hold(p, a, d) /\ Look(p, a, d)
  BY DEF LockEntry
<1>2. d \in Digests \cup {None}
  BY DEF TypeOK
<1>3. \A q \in Processes, b \in Agents :
        holds'[q][b] = IF q = p /\ b = a THEN d ELSE holds[q][b]
  BY <1>1, <1>2, HoldEffect
<1>4. \A q \in Processes, b \in Agents :
        listed'[q][b] = IF q = p /\ b = a THEN listed[p][a] \ {d} ELSE listed[q][b]
  BY <1>1, LookStep
<1>5. /\ Cmd(p) = "uninstall" /\ op[p][a] = "remove" /\ holds[p][a] = None
      /\ UNCHANGED <<op, result, entries, packages>>
  BY DEF LockEntry, At, machine
<1>6. Frame(p, a)
  BY <1>3, <1>4, <1>5 DEF Frame
<1>7. QED
  BY <1>3, <1>4, <1>5, <1>6

\* The entry that is locked goes, unless its removal fails
\* (remove_cached_entries, cache.rs:565).
LEMMA RemoveStep ==
  ASSUME TypeOK, NEW p \in Processes, NEW a \in Agents, RemoveEntry(p, a)
  PROVE  /\ Cmd(p) = "uninstall" /\ op[p][a] = "remove"
         /\ \/ Finish(p, a, "failed") /\ entries' = entries
            \/ /\ Frame(p, a) /\ UNCHANGED <<op, listed, result>>
               /\ holds'[p][a] = None
               /\ \A b \in Agents :
                    entries'[b] = IF b = a THEN entries[a] \ {holds[p][a]} ELSE entries[b]
<1>1. Cmd(p) = "uninstall" /\ op[p][a] = "remove"
  BY DEF RemoveEntry, At
<1>2. CASE Finish(p, a, "failed") /\ entries' = entries
  BY <1>1, <1>2
<1>3. CASE Drop(a, holds[p][a]) /\ Hold(p, a, None) /\ UNCHANGED <<op, listed, result>>
  <2>1. \A b \in Agents :
          entries'[b] = IF b = a THEN entries[a] \ {holds[p][a]} ELSE entries[b]
    BY <1>3 DEF Drop, TypeOK
  <2>2. \A q \in Processes, b \in Agents :
          holds'[q][b] = IF q = p /\ b = a THEN None ELSE holds[q][b]
    BY <1>3, HoldEffect
  <2>3. Frame(p, a)
    BY <1>3, <2>2 DEF Frame
  <2>4. QED
    BY <1>1, <1>3, <2>1, <2>2, <2>3
<1>4. QED
  BY <1>2, <1>3 DEF RemoveEntry

\* Every step of an operation is one of these (lifecycle.rs, runner.rs).
LEMMA OpSteps ==
  ASSUME TypeOK, OpInv, NEW p \in Processes, NEW a \in Agents,
         OpStep(p, a) \/ AgentEnds(p, a) \/ Panic(p, a)
  PROVE  /\ phase[p] = "work" /\ op[p][a] # "done"
         /\ UNCHANGED <<job, registry, programs, plan, output>>
         /\ \A q \in Processes : q # p => phase'[q] = phase[q] /\ code'[q] = code[q]
         /\ \/ phase' = phase /\ code' = code
            \/ phase'[p] = "exited" /\ Cmd(p) = "run"
<1>1. CASE OpStep(p, a) \/ Panic(p, a)
  <2>1. phase[p] = "work" /\ op[p][a] # "done"
    BY <1>1 DEF OpStep, StartUninstall, StartInstall, StartRun, StartNext, CacheBinary,
                LogInstall, ListEntries, Prune, Pruned, LockEntry, RemoveEntry, Lookup,
                Inspect, RunPackageManager, Panic, Active, At, Runners
  <2>2. /\ UNCHANGED <<job, registry, programs, plan, output>>
        /\ phase' = phase /\ code' = code
    BY <1>1 DEF OpStep, StartUninstall, StartInstall, StartRun, CacheBinary, LogInstall,
                ListEntries, Prune, Pruned, LockEntry, RemoveEntry, Lookup, Inspect,
                RunPackageManager, Panic, machine, rest
  <2>3. QED
    BY <2>1, <2>2
<1>2. CASE AgentEnds(p, a)
  <2>1. /\ op[p][a] = "running" /\ phase[p] = "work"
        /\ UNCHANGED <<job, registry, programs, plan, output>>
    BY <1>2 DEF AgentEnds, At, machine
  <2>2. PICK c : Exit(p, c)
    BY <1>2 DEF AgentEnds
  <2>3. /\ \A q \in Processes : q # p => phase'[q] = phase[q] /\ code'[q] = code[q]
        /\ phase'[p] = "exited"
    BY <2>2 DEF Exit, TypeOK
  <2>4. Cmd(p) = "run"
    BY <2>1 DEF OpInv
  <2>5. QED
    BY <2>1, <2>3, <2>4
<1>3. QED
  BY <1>1, <1>2

-----------------------------------------------------------------------------
(***************************************************************************)
(* Phases and operations.                                                  *)
(***************************************************************************)

\* A command has its registry before its operations, and its exit code at its end
\* (execute_cli, commands/mod.rs:277).
LEMMA PhaseInvStep == TypeOK /\ OpInv /\ PhaseInv /\ [Next]_vars => PhaseInv'
<1> SUFFICES ASSUME TypeOK, OpInv, PhaseInv, [Next]_vars PROVE PhaseInv'
  OBVIOUS
<1> USE DEF rest, machine, operations, vars, Cmd
<1>1. ASSUME NEW p \in Processes,
             ResolveArgs(p) \/ FetchRegistry(p) \/ Report(p) \/ RunFails(p)
      PROVE  PhaseInv'
  <2>1. /\ phase \in [Processes -> {"start", "args", "work", "confirm", "install", "exited"}]
        /\ registry \in [Processes -> Digests \cup {"unavailable", None}]
        /\ code \in [Processes -> {None, 0, 1, 137}]
        /\ published \in Digests
    BY DEF TypeOK
  <2>2. CASE ResolveArgs(p)
    BY <2>1, <2>2 DEF PhaseInv, ResolveArgs, Exit
  <2>3. CASE FetchRegistry(p)
    BY <2>1, <2>3, NoneAssumption DEF PhaseInv, FetchRegistry, Snapshots
  <2>4. CASE Report(p)
    BY <2>1, <2>4 DEF PhaseInv, Report
  <2>5. CASE RunFails(p)
    BY <2>1, <2>5 DEF PhaseInv, RunFails, Exit
  <2>6. QED
    BY <1>1, <2>2, <2>3, <2>4, <2>5
<1>2. ASSUME NEW p \in Processes,
             Detect(p) \/ Confirm(p) \/ InstallTarget(p) \/ InstallComplete(p)
      PROVE  PhaseInv'
  <2>1. /\ phase \in [Processes -> {"start", "args", "work", "confirm", "install", "exited"}]
        /\ code \in [Processes -> {None, 0, 1, 137}]
    BY DEF TypeOK
  <2>2. CASE Detect(p)
    BY <2>1, <2>2 DEF PhaseInv, Detect, Exit
  <2>3. CASE Confirm(p)
    <3>1. /\ phase[p] = "confirm" /\ UNCHANGED <<job, registry, op>>
          /\ \/ phase' = phase /\ code' = code
             \/ phase' = [phase EXCEPT ![p] = "exited"] /\ code' = [code EXCEPT ![p] = 0]
             \/ phase' = [phase EXCEPT ![p] = "install"] /\ code' = code
      BY <2>3 DEF Confirm, Exit
    <3>2. QED
      BY <2>1, <3>1 DEF PhaseInv
  <2>4. CASE InstallTarget(p)
    BY <2>1, <2>4 DEF PhaseInv, InstallTarget, Exit
  <2>5. CASE InstallComplete(p)
    BY <2>1, <2>5 DEF PhaseInv, InstallComplete, Exit
  <2>6. QED
    BY <1>2, <2>2, <2>3, <2>4, <2>5
<1>3. ASSUME NEW p \in Processes, NEW a \in Requested(p),
             OpStep(p, a) \/ AgentEnds(p, a) \/ Panic(p, a)
      PROVE  PhaseInv'
  <2>1. a \in Agents
    BY JobType
  <2>2. /\ phase[p] = "work" /\ UNCHANGED <<job, registry>>
        /\ \A q \in Processes : q # p => phase'[q] = phase[q] /\ code'[q] = code[q]
        /\ (phase' = phase /\ code' = code) \/ phase'[p] = "exited"
    BY <1>3, <2>1, OpSteps
  <2>3. \A q \in Processes : q # p => op'[q] = op[q]
    <3>1. op' = op \/ \E l : op' = [op EXCEPT ![p][a] = l]
      BY <1>3 DEF OpStep, StartUninstall, StartInstall, StartRun, CacheBinary, LogInstall,
                  ListEntries, Prune, Pruned, LockEntry, RemoveEntry, Lookup, Inspect,
                  RunPackageManager, Panic, AgentEnds, Move, Finish, Goto
    <3>2. op \in [Processes -> [Agents -> OpPcs]]
      BY DEF TypeOK
    <3>3. QED
      BY <3>1, <3>2
  <2>4. QED
    BY <2>2, <2>3 DEF PhaseInv
<1>4. CASE Publish
  BY <1>4 DEF PhaseInv, Publish
<1>5. CASE UNCHANGED vars
  BY <1>5 DEF PhaseInv
<1>6. QED
  BY <1>1, <1>2, <1>3, <1>4, <1>5 DEF Next

\* Where p's operation for a goes from where it is, told by what the agent's
\* distribution and the registry are.
LEMMA OpInvAt ==
  ASSUME TypeOK, OpInv, PhaseInv, NEW p \in Processes, NEW a \in Agents,
         OpStep(p, a) \/ AgentEnds(p, a) \/ Panic(p, a)
  PROVE  /\ Frame(p, a)
         /\ Cmd(p) = "uninstall" =>
              op'[p][a] \in {"queued", "list", "remove", "inspect", "npm", "uvx", "done"}
         /\ op'[p][a] = "running" => Cmd(p) = "run"
         /\ op'[p][a] = "binary" => registry[p] \in Digests
         /\ op'[p][a] = "inspect" => Distribution(a) = "npx"
         /\ Cmd(p) = "uninstall" /\ op'[p][a] = "npm" => Distribution(a) = "npx"
         /\ Cmd(p) = "uninstall" /\ op'[p][a] = "uvx" => Distribution(a) # "npx"
<1> DEFINE Goal == /\ Frame(p, a)
                   /\ Cmd(p) = "uninstall" =>
                        op'[p][a] \in {"queued", "list", "remove", "inspect", "npm", "uvx", "done"}
                   /\ op'[p][a] = "running" => Cmd(p) = "run"
                   /\ op'[p][a] = "binary" => registry[p] \in Digests
                   /\ op'[p][a] = "inspect" => Distribution(a) = "npx"
                   /\ Cmd(p) = "uninstall" /\ op'[p][a] = "npm" => Distribution(a) = "npx"
                   /\ Cmd(p) = "uninstall" /\ op'[p][a] = "uvx" => Distribution(a) # "npx"
<1>1. /\ phase[p] = "work" /\ registry[p] \in Digests \cup {"unavailable"}
      /\ Cmd(p) = "uninstall" =>
           op[p][a] \in {"queued", "list", "remove", "inspect", "npm", "uvx", "done"}
      /\ op[p][a] = "inspect" => Distribution(a) = "npx"
  BY OpSteps DEF OpInv, PhaseInv, TypeOK
<1>2. ASSUME NEW o \in Good \cup {"failed"}, Finish(p, a, o) PROVE Goal
  BY <1>2, FinishStep
<1>3. CASE StartUninstall(p, a)
  <2>1. Move(p, a, "list") /\ "list" \in OpPcs
    BY <1>3 DEF StartUninstall, OpPcs
  <2>2. QED
    BY <2>1, MoveStep
<1>4. CASE StartInstall(p, a)
  <2> DEFINE l == IF Distribution(a) = "binary" THEN "binary" ELSE Runner(a)
  <2>1. CASE Move(p, a, l) /\ Known(p, a)
    <3>1. l \in OpPcs /\ l \notin {"running", "inspect"} /\ Cmd(p) # "uninstall"
      BY <1>4, RunnerType DEF StartInstall, OpPcs, Runners
    <3>2. Frame(p, a) /\ op'[p][a] = l
      BY <2>1, <3>1, MoveStep
    <3>3. registry[p] \in Digests
      BY <1>1, <2>1 DEF Known
    <3> HIDE DEF l
    <3>4. QED
      BY <3>1, <3>2, <3>3
  <2>2. QED
    BY <1>2, <1>4, <2>1 DEF StartInstall
<1>5. CASE StartRun(p, a)
  <2>1. ASSUME NEW l \in {"binary", "running"}, Move(p, a, l), Known(p, a) PROVE Goal
    <3>1. l \in OpPcs /\ Cmd(p) = "run"
      BY <1>5 DEF StartRun, OpPcs
    <3>2. Frame(p, a) /\ op'[p][a] = l
      BY <2>1, <3>1, MoveStep
    <3>3. registry[p] \in Digests
      BY <1>1, <2>1 DEF Known
    <3>4. QED
      BY <2>1, <3>1, <3>2, <3>3
  <2>2. QED
    BY <1>2, <1>5, <2>1 DEF StartRun
<1>6. CASE CacheBinary(p, a)
  <2>1. op[p][a] = "binary"
    BY <1>6, CacheStep
  <2>2. QED
    BY <1>1, <1>2, <1>6, <2>1, CacheStep
<1>7. CASE LogInstall(p, a)
  <2>1. CASE Move(p, a, "list") /\ Cmd(p) = "update"
    <3>1. Frame(p, a) /\ op'[p][a] = "list"
      BY <2>1, MoveStep DEF OpPcs
    <3>2. QED
      BY <2>1, <3>1
  <2>2. CASE Move(p, a, "running") /\ Cmd(p) = "run"
    <3>1. Frame(p, a) /\ op'[p][a] = "running"
      BY <2>2, MoveStep DEF OpPcs
    <3>2. QED
      BY <2>2, <3>1
  <2>3. QED
    BY <1>2, <1>7, <2>1, <2>2 DEF LogInstall, Good
<1>8. CASE ListEntries(p, a)
  BY <1>8, ListStep
<1>9. CASE Prune(p, a)
  <2>1. Cmd(p) = "update" /\ op[p][a] = "remove"
    BY <1>9, PruneStep
  <2>2. QED
    BY <1>2, <1>9, <2>1, PruneStep
<1>10. CASE LockEntry(p, a)
  BY <1>10, LockStep
<1>11. CASE RemoveEntry(p, a)
  <2>1. op[p][a] = "remove"
    BY <1>11, RemoveStep
  <2>2. QED
    BY <1>2, <1>11, <2>1, RemoveStep
<1>12. CASE Lookup(p, a)
  <2>1. CASE Move(p, a, "inspect") /\ Runner(a) = "npm"
    <3>1. Frame(p, a) /\ op'[p][a] = "inspect"
      BY <2>1, MoveStep DEF OpPcs
    <3>2. QED
      BY <2>1, <3>1, RunnerType
  <2>2. CASE Move(p, a, "uvx") /\ Runner(a) \notin {"npm", "deno"}
    <3>1. Frame(p, a) /\ op'[p][a] = "uvx"
      BY <2>2, MoveStep DEF OpPcs
    <3>2. QED
      BY <2>2, <3>1, RunnerType DEF Runners
  <2>3. \/ \E o \in Good \cup {"failed"} : Finish(p, a, o)
        \/ Move(p, a, "inspect") /\ Runner(a) = "npm"
        \/ Move(p, a, "uvx") /\ Runner(a) \notin {"npm", "deno"}
    BY <1>12 DEF Lookup, Good
  <2>4. QED
    BY <1>2, <2>1, <2>2, <2>3
<1>13. CASE Inspect(p, a)
  <2>1. CASE Move(p, a, "npm")
    <3>1. Frame(p, a) /\ op'[p][a] = "npm"
      BY <2>1, MoveStep DEF OpPcs
    <3>2. Distribution(a) = "npx"
      BY <1>1, <1>13 DEF Inspect, At
    <3>3. QED
      BY <3>1, <3>2
  <2>2. QED
    BY <1>2, <1>13, <2>1 DEF Inspect, Good
<1>14. CASE Pruned(p, a) \/ RunPackageManager(p, a) \/ AgentEnds(p, a) \/ Panic(p, a)
  <2>1. \E o \in Good \cup {"failed"} : Finish(p, a, o)
    BY <1>14 DEF Pruned, RunPackageManager, AgentEnds, Panic, Good
  <2>2. QED
    BY <1>2, <2>1
<1>15. QED
  BY <1>3, <1>4, <1>5, <1>6, <1>7, <1>8, <1>9, <1>10, <1>11, <1>12, <1>13, <1>14 DEF OpStep

\* What a step that is none of an operation may change, as far as operations go:
\* a command starts to work on a snapshot, or ends.
Quiet ==
  /\ UNCHANGED <<job, entries, packages, op, holds, listed, removed, result>>
  /\ \A p \in Processes :
       /\ registry'[p] = registry[p] \/ phase[p] \in {"start", "args"}
       /\ phase'[p] = "work" => phase[p] \in {"start", "args", "work"}

\* Only operations touch the cache, the packages and the results.
LEMMA Steps ==
  ASSUME TypeOK, [Next]_vars
  PROVE  \/ Quiet
         \/ \E p \in Processes : \E a \in Requested(p) :
              a \in Agents /\ (OpStep(p, a) \/ AgentEnds(p, a) \/ Panic(p, a))
<1> USE DEF rest, machine, operations, vars
<1>1. /\ phase \in [Processes -> {"start", "args", "work", "confirm", "install", "exited"}]
      /\ registry \in [Processes -> Digests \cup {"unavailable", None}]
  BY DEF TypeOK
<1>2. ASSUME NEW p \in Processes,
             \/ ResolveArgs(p) \/ FetchRegistry(p) \/ Report(p) \/ RunFails(p)
             \/ Detect(p) \/ InstallTarget(p) \/ InstallComplete(p)
      PROVE  Quiet
  BY <1>1, <1>2 DEF Quiet, ResolveArgs, FetchRegistry, Report, RunFails, Detect,
                    InstallTarget, InstallComplete, Exit
<1>3. ASSUME NEW p \in Processes, Confirm(p) PROVE Quiet
  <2>1. /\ UNCHANGED <<job, machine, registry, operations>>
        /\ \/ phase' = phase
           \/ phase' = [phase EXCEPT ![p] = "exited"]
           \/ phase' = [phase EXCEPT ![p] = "install"]
    BY <1>3 DEF Confirm, Exit
  <2>2. QED
    BY <1>1, <2>1 DEF Quiet
<1>4. ASSUME NEW p \in Processes, NEW a \in Requested(p) PROVE a \in Agents
  BY JobType
<1>5. CASE Publish \/ UNCHANGED vars
  BY <1>5 DEF Quiet, Publish
<1>6. QED
  BY <1>2, <1>3, <1>4, <1>5 DEF Next

\* Commands keep to the operations that are theirs (lifecycle.rs:259, :280, :316).
LEMMA OpInvStep == TypeOK /\ OpInv /\ PhaseInv /\ [Next]_vars => OpInv'
<1> SUFFICES ASSUME TypeOK, OpInv, PhaseInv, [Next]_vars PROVE OpInv'
  OBVIOUS
<1>1. \A q \in Processes, b \in Agents : Distribution(b)' = Distribution(b)
  BY DEF Distribution
<1>2. CASE Quiet
  <2>1. \A q \in Processes, b \in Agents :
          Cmd(q)' = Cmd(q) /\ op'[q][b] = op[q][b]
          /\ (registry'[q] = registry[q] \/ op[q][b] = "queued")
    BY <1>2 DEF Quiet, PhaseInv, Cmd
  <2>2. QED
    BY <1>1, <2>1 DEF OpInv
<1>3. ASSUME NEW p \in Processes, NEW a \in Agents,
             OpStep(p, a) \/ AgentEnds(p, a) \/ Panic(p, a)
      PROVE  OpInv'
  <2>1. job' = job /\ registry' = registry
    BY <1>3, OpSteps
  <2>2. \A q \in Processes, b \in Agents : q # p \/ b # a => op'[q][b] = op[q][b]
    BY <1>3, OpInvAt DEF Frame
  <2>3. \A q \in Processes : Cmd(q)' = Cmd(q) /\ registry'[q] = registry[q]
    BY <2>1 DEF Cmd
  <2>4. ASSUME NEW q \in Processes, NEW b \in Agents
        PROVE  /\ Cmd(q) = "uninstall" =>
                    op'[q][b] \in {"queued", "list", "remove", "inspect", "npm", "uvx", "done"}
               /\ op'[q][b] = "running" => Cmd(q) = "run"
               /\ op'[q][b] = "binary" => registry[q] \in Digests
               /\ op'[q][b] = "inspect" => Distribution(b) = "npx"
               /\ Cmd(q) = "uninstall" /\ op'[q][b] = "npm" => Distribution(b) = "npx"
               /\ Cmd(q) = "uninstall" /\ op'[q][b] = "uvx" => Distribution(b) # "npx"
    <3>1. CASE q = p /\ b = a
      BY <1>3, <3>1, OpInvAt
    <3>2. CASE q # p \/ b # a
      BY <2>2, <3>2 DEF OpInv
    <3>3. QED
      BY <3>1, <3>2
  <2>5. QED
    BY <1>1, <2>3, <2>4 DEF OpInv
<1>4. QED
  BY <1>2, <1>3, Steps

-----------------------------------------------------------------------------
(***************************************************************************)
(* What an operation does to the machine, told from the outside.           *)
(***************************************************************************)

\* It ends with the outcome o.
Ends(p, a, o) ==
  /\ Finish(p, a, o) /\ entries' = entries
  /\ o = "binary" => Leasing(p, a)
  /\ Cmd(p) = "uninstall" /\ o \in Good =>
       (op[p][a] = "remove" /\ Cleared(p, a)) \/ op[p][a] \in {"inspect", "npm", "uvx"}
  /\ Cmd(p) = "uninstall" /\ o = "package" => a \notin packages'[PackagesOf(a)]

\* It goes on and leaves the cache alone.
Goes(p, a) ==
  /\ op'[p][a] \in {"list", "running", "binary", "inspect", "npm", "deno", "uvx"}
  /\ UNCHANGED <<holds, listed, entries>>
  /\ op'[p][a] = "running" /\ Distribution(a) = "binary" => op[p][a] = "log"
  /\ op'[p][a] = "list" /\ Cmd(p) # "uninstall" => op[p][a] = "log"
  /\ Cmd(p) = "uninstall" /\ op'[p][a] \in {"inspect", "npm", "uvx"} =>
       (op[p][a] = "remove" /\ Cleared(p, a)) \/ op[p][a] = "inspect"

\* It has the registry's entry, with a lease.
Publishes(p, a) ==
  /\ op[p][a] = "binary" /\ op'[p][a] = "log" /\ listed' = listed
  /\ entries[a] \subseteq entries'[a] /\ holds'[p][a] \in entries'[a]

\* It has read which entries there are.
Lists(p, a) ==
  /\ op[p][a] = "list" /\ op'[p][a] = "remove"
  /\ listed'[p][a] = entries[a] \ {holds[p][a]}
  /\ holds' = holds /\ entries' = entries

\* It has looked at an entry to prune, which may be gone.
Prunes(p, a) ==
  /\ Cmd(p) = "update" /\ op[p][a] = "remove" /\ op' = op /\ holds' = holds
  /\ \E d \in listed[p][a] :
       /\ listed'[p][a] = listed[p][a] \ {d}
       /\ \/ entries' = entries
          \/ /\ \A q \in Others(p, a) : holds[q][a] # d
             /\ entries'[a] = entries[a] \ {d}

\* It has locked an entry to remove.
Locks(p, a) ==
  /\ Cmd(p) = "uninstall" /\ op[p][a] = "remove" /\ op' = op
  /\ holds[p][a] = None /\ holds'[p][a] \in listed[p][a]
  /\ listed'[p][a] = listed[p][a] \ {holds'[p][a]}
  /\ entries' = entries

\* It has removed the entry that it had locked.
Removes(p, a) ==
  /\ Cmd(p) = "uninstall" /\ op[p][a] = "remove" /\ op' = op
  /\ holds'[p][a] = None /\ listed' = listed
  /\ entries'[a] = entries[a] \ {holds[p][a]}

GoesOn(p, a) ==
  Goes(p, a) \/ Publishes(p, a) \/ Lists(p, a) \/ Prunes(p, a) \/ Locks(p, a) \/ Removes(p, a)

\* The step of an operation is one of these, and concerns its own agent only.
LEMMA Outside ==
  ASSUME TypeOK, OpInv, PhaseInv, NEW p \in Processes, NEW a \in Requested(p), a \in Agents,
         OpStep(p, a) \/ AgentEnds(p, a) \/ Panic(p, a)
  PROVE  /\ \A b \in Agents : b # a =>
              /\ entries'[b] = entries[b]
              /\ \A r \in Runners : b \in packages'[r] <=> b \in packages[r]
         /\ \/ \E o \in Good \cup {"failed"} : Ends(p, a, o)
            \/ GoesOn(p, a) /\ result' = result
<1> USE DEF rest, machine
<1> DEFINE Kinds == \/ \E o \in Good \cup {"failed"} : Ends(p, a, o)
                    \/ GoesOn(p, a) /\ result' = result
<1>0. ASSUME NEW b \in Agents, b # a
       PROVE  /\ entries'[b] = entries[b]
              /\ \A r \in Runners : b \in packages'[r] <=> b \in packages[r]
  <2>1. entries \in [Agents -> SUBSET Digests] /\ packages \in [Runners -> SUBSET Agents]
    BY DEF TypeOK
  <2>2. \/ entries' = entries
        \/ \E es : entries' = [entries EXCEPT ![a] = es]
    BY DEF OpStep, StartUninstall, StartInstall, StartRun, CacheBinary, LogInstall, ListEntries,
           Prune, Pruned, LockEntry, RemoveEntry, Lookup, Inspect, RunPackageManager, Panic,
           AgentEnds, Drop
  <2>3. \/ packages' = packages
        \/ \E r : \/ packages' = [packages EXCEPT ![r] = packages[r] \ {a}]
                  \/ packages' = [packages EXCEPT ![r] = packages[r] \cup {a}]
    BY DEF OpStep, StartUninstall, StartInstall, StartRun, CacheBinary, LogInstall, ListEntries,
           Prune, Pruned, LockEntry, RemoveEntry, Lookup, Inspect, RunPackageManager, Panic,
           AgentEnds
  <2>4. entries'[b] = entries[b]
    BY <1>0, <2>1, <2>2
  <2>5. \A r \in Runners : b \in packages'[r] <=> b \in packages[r]
    BY <1>0, <2>1, <2>3
  <2>6. QED
    BY <2>4, <2>5
<1> SUFFICES Kinds
  BY <1>0
<1>1. /\ phase[p] = "work"
      /\ Cmd(p) = "uninstall" =>
           op[p][a] \in {"queued", "list", "remove", "inspect", "npm", "uvx", "done"}
  BY OpSteps DEF OpInv
<1>2. CASE Finish(p, a, "failed") /\ entries' = entries
  <2>1. Ends(p, a, "failed")
    BY <1>2 DEF Ends, Good
  <2>2. QED
    BY <2>1
<1>3. CASE StartUninstall(p, a)
  <2>1. Move(p, a, "list") /\ "list" \in OpPcs /\ Cmd(p) = "uninstall" /\ entries' = entries
    BY <1>3 DEF StartUninstall, OpPcs
  <2>2. op'[p][a] = "list" /\ UNCHANGED <<holds, listed, result>>
    BY <2>1, MoveStep
  <2>3. Goes(p, a)
    BY <2>1, <2>2 DEF Goes
  <2>4. QED
    BY <2>2, <2>3 DEF GoesOn
<1>4. CASE StartInstall(p, a)
  <2> DEFINE l == IF Distribution(a) = "binary" THEN "binary" ELSE Runner(a)
  <2>1. CASE Move(p, a, l)
    <3>1. /\ l \in OpPcs /\ l \in {"binary", "npm", "deno", "uvx"}
          /\ Cmd(p) # "uninstall" /\ entries' = entries
      BY <1>4, RunnerType DEF StartInstall, OpPcs, Runners
    <3>2. op'[p][a] = l /\ UNCHANGED <<holds, listed, result>>
      BY <2>1, <3>1, MoveStep
    <3> HIDE DEF l
    <3>3. Goes(p, a)
      BY <3>1, <3>2 DEF Goes
    <3>4. QED
      BY <3>2, <3>3 DEF GoesOn
  <2>2. QED
    BY <1>2, <1>4, <2>1 DEF StartInstall
<1>5. CASE StartRun(p, a)
  <2> DEFINE l == IF Distribution(a) = "binary" THEN "binary" ELSE "running"
  <2>1. CASE Move(p, a, l)
    <3>1. l \in OpPcs /\ Cmd(p) # "uninstall" /\ entries' = entries
      BY <1>5 DEF StartRun, OpPcs
    <3>2. op'[p][a] = l /\ UNCHANGED <<holds, listed, result>>
      BY <2>1, <3>1, MoveStep
    <3>3. Goes(p, a)
      BY <3>1, <3>2 DEF Goes
    <3>4. QED
      BY <3>2, <3>3 DEF GoesOn
  <2>2. QED
    BY <1>2, <1>5, <2>1 DEF StartRun
<1>6. CASE CacheBinary(p, a)
  <2>1. ASSUME op'[p][a] = "log", holds'[p][a] = registry[p], listed' = listed,
               entries'[a] = entries[a] \cup {registry[p]}
        PROVE  Publishes(p, a)
    BY <1>6, <2>1, CacheStep DEF Publishes
  <2>2. \/ Finish(p, a, "failed") /\ entries' = entries
        \/ Publishes(p, a) /\ result' = result
    BY <1>6, <2>1, CacheStep
  <2>3. QED
    BY <1>2, <2>2 DEF GoesOn
<1>7. CASE LogInstall(p, a)
  <2>1. op[p][a] = "log" /\ Cmd(p) # "uninstall" /\ entries' = entries
    BY <1>1, <1>7 DEF LogInstall, At
  <2>2. ASSUME NEW l \in {"list", "running"}, Move(p, a, l) PROVE Kinds
    <3>1. op'[p][a] = l /\ UNCHANGED <<holds, listed, result>>
      BY <2>2, MoveStep DEF OpPcs
    <3>2. Goes(p, a)
      BY <2>1, <3>1 DEF Goes
    <3>3. QED
      BY <3>1, <3>2 DEF GoesOn
  <2>3. CASE Finish(p, a, "binary")
    <3>1. Ends(p, a, "binary")
      BY <1>1, <2>1, <2>3 DEF Ends, Leasing
    <3>2. QED
      BY <3>1 DEF Good
  <2>4. QED
    BY <1>7, <2>2, <2>3 DEF LogInstall
<1>8. CASE ListEntries(p, a)
  BY <1>8, ListStep DEF Lists, GoesOn
<1>9. CASE Prune(p, a)
  <2>1. \/ Finish(p, a, "failed") /\ entries' = entries
        \/ Prunes(p, a) /\ result' = result
    BY <1>9, PruneStep DEF Prunes
  <2>2. QED
    BY <1>2, <2>1 DEF GoesOn
<1>10. CASE Pruned(p, a)
  <2>1. Finish(p, a, "binary") /\ entries' = entries /\ Cmd(p) = "update" /\ op[p][a] = "remove"
    BY <1>10 DEF Pruned, At
  <2>2. Ends(p, a, "binary")
    BY <1>1, <2>1 DEF Ends, Leasing
  <2>3. QED
    BY <2>2 DEF Good
<1>11. CASE LockEntry(p, a)
  BY <1>11, LockStep DEF Locks, GoesOn
<1>12. CASE RemoveEntry(p, a)
  <2>1. \/ Finish(p, a, "failed") /\ entries' = entries
        \/ Removes(p, a) /\ result' = result
    BY <1>12, RemoveStep DEF Removes
  <2>2. QED
    BY <1>2, <2>1 DEF GoesOn
<1>13. CASE Lookup(p, a)
  <2>1. op[p][a] = "remove" /\ Cleared(p, a) /\ entries' = entries /\ Cmd(p) = "uninstall"
    BY <1>13 DEF Lookup, At
  <2>2. ASSUME NEW o \in {"cache", "cache_only", "managed", "failed"}, Finish(p, a, o) PROVE Kinds
    <3>1. Ends(p, a, o)
      BY <2>1, <2>2 DEF Ends
    <3>2. QED
      BY <3>1 DEF Good
  <2>3. ASSUME NEW l \in {"inspect", "uvx"}, Move(p, a, l) PROVE Kinds
    <3>1. op'[p][a] = l /\ UNCHANGED <<holds, listed, result>>
      BY <2>3, MoveStep DEF OpPcs
    <3>2. Goes(p, a)
      BY <2>1, <3>1 DEF Goes
    <3>3. QED
      BY <3>1, <3>2 DEF GoesOn
  <2>4. (\E o \in {"cache", "cache_only", "managed", "failed"} : Finish(p, a, o))
        \/ (\E l \in {"inspect", "uvx"} : Move(p, a, l))
    BY <1>13 DEF Lookup
  <2>5. QED
    BY <2>2, <2>3, <2>4
<1>14. CASE Inspect(p, a)
  <2>1. op[p][a] = "inspect" /\ entries' = entries
    BY <1>14 DEF Inspect, At
  <2>2. CASE Move(p, a, "npm")
    <3>1. op'[p][a] = "npm" /\ UNCHANGED <<holds, listed, result>>
      BY <2>2, MoveStep DEF OpPcs
    <3>2. Goes(p, a)
      BY <2>1, <3>1 DEF Goes
    <3>3. QED
      BY <3>1, <3>2 DEF GoesOn
  <2>3. CASE Finish(p, a, "managed")
    <3>1. Ends(p, a, "managed")
      BY <2>1, <2>3 DEF Ends
    <3>2. QED
      BY <3>1 DEF Good
  <2>4. QED
    BY <1>2, <1>14, <2>1, <2>2, <2>3 DEF Inspect
<1>15. CASE RunPackageManager(p, a)
  <2> DEFINE r == op[p][a]
  <2>1. r \in Runners /\ entries' = entries
    BY <1>15 DEF RunPackageManager
  <2>2. CASE Finish(p, a, "package")
             /\ (Cmd(p) = "uninstall" => packages' = [packages EXCEPT ![r] = packages[r] \ {a}])
    <3>1. Cmd(p) = "uninstall" => r \in {"npm", "uvx"} /\ r = PackagesOf(a)
      BY <1>1, <2>1 DEF Runners, OpInv, PackagesOf
    <3>2. packages \in [Runners -> SUBSET Agents]
      BY DEF TypeOK
    <3>3. Cmd(p) = "uninstall" => a \notin packages'[PackagesOf(a)]
      <4> HIDE DEF r
      <4> QED BY <2>1, <2>2, <3>1, <3>2
    <3>4. Ends(p, a, "package")
      BY <2>1, <2>2, <3>1, <3>3 DEF Ends
    <3>5. QED
      BY <3>4 DEF Good
  <2>3. QED
    BY <1>2, <1>15, <2>1, <2>2 DEF RunPackageManager
<1>16. CASE AgentEnds(p, a)
  <2>1. op[p][a] = "running" /\ entries' = entries /\ Cmd(p) # "uninstall"
    BY <1>1, <1>16 DEF AgentEnds, At
  <2>2. CASE Finish(p, a, "binary") /\ Distribution(a) = "binary"
    <3>1. Ends(p, a, "binary")
      BY <1>1, <2>1, <2>2 DEF Ends, Leasing
    <3>2. QED
      BY <3>1 DEF Good
  <2>3. CASE Finish(p, a, "package")
    <3>1. Ends(p, a, "package")
      BY <2>1, <2>3 DEF Ends
    <3>2. QED
      BY <3>1 DEF Good
  <2>4. QED
    BY <1>16, <2>2, <2>3 DEF AgentEnds
<1>17. CASE Panic(p, a)
  BY <1>2, <1>17 DEF Panic
<1>18. Kinds
  BY <1>3, <1>4, <1>5, <1>6, <1>7, <1>8, <1>9, <1>10, <1>11, <1>12, <1>13, <1>14, <1>15, <1>16,
     <1>17 DEF OpStep
<1>19. QED
  BY <1>18

\* The results, when an operation has ended with o or goes on.
LEMMA ResultInvStep == TypeOK /\ OpInv /\ PhaseInv /\ ResultInv /\ [Next]_vars => ResultInv'
<1> SUFFICES ASSUME TypeOK, OpInv, PhaseInv, ResultInv, [Next]_vars PROVE ResultInv'
  OBVIOUS
<1>1. CASE Quiet
  BY <1>1 DEF Quiet, ResultInv, Requested
<1>2. ASSUME NEW p \in Processes, NEW a \in Requested(p), a \in Agents,
             OpStep(p, a) \/ AgentEnds(p, a) \/ Panic(p, a)
      PROVE  ResultInv'
  <2>1. op[p][a] # "done" /\ \A q \in Processes : Requested(q)' = Requested(q)
    BY <1>2, OpSteps DEF Requested
  <2>2. \A q \in Processes, b \in Agents : q # p \/ b # a => op'[q][b] = op[q][b]
    BY <1>2, OpInvAt DEF Frame
  <2>3. \A q \in Processes : result[q] \in Seq(Results)
    BY DEF TypeOK
  <2>4. \A q \in Processes : \A i \in DOMAIN result[q] :
          /\ result[q][i][1] \in Agents /\ op[q][result[q][i][1]] = "done"
          /\ result[q][i][1] \in Requested(q)
    BY <2>3, ElementOfSeq DEF ResultInv, Results
  <2>5. CASE result' = result /\ op'[p][a] # "done"
    <3>1. \A q \in Processes, b \in Agents : op'[q][b] = "done" <=> op[q][b] = "done"
      BY <2>1, <2>2, <2>5
    <3>2. QED
      BY <2>1, <2>4, <2>5, <3>1 DEF ResultInv
  <2>6. ASSUME NEW o \in Good \cup {"failed"}, Finish(p, a, o) PROVE ResultInv'
    <3> DEFINE n == Len(result[p]) + 1
    <3>1. op'[p][a] = "done"
      BY <1>2, <2>6, FinishStep
    <3>2. /\ result' \in [Processes -> Seq(Results)]
          /\ \A q \in Processes : q # p => result'[q] = result[q]
          /\ Len(result'[p]) = n
          /\ \A i \in 1..Len(result[p]) : result'[p][i] = result[p][i]
          /\ result'[p][n] = <<a, o>>
      BY <1>2, <2>6, FinishEffect
    <3>3. Len(result[p]) \in Nat /\ DOMAIN result[p] = 1..Len(result[p])
      BY <2>3
    <3>4. /\ DOMAIN result'[p] = 1..n
          /\ DOMAIN result'[p] = DOMAIN result[p] \cup {n} /\ n \notin DOMAIN result[p]
      BY <3>2, <3>3
    <3>5. result'[p][n][1] = a /\ \A i \in DOMAIN result[p] : result'[p][i] = result[p][i]
      BY <3>2, <3>3
    <3> HIDE DEF n
    <3>6. \A q \in Processes, b \in Agents :
            op'[q][b] = "done" <=> op[q][b] = "done" \/ (q = p /\ b = a)
      BY <2>2, <3>1
    <3>7. \A i \in DOMAIN result[p] : result[p][i][1] # a
      BY <2>1, <2>4
    <3>8. ASSUME NEW q \in Processes
          PROVE  /\ \A i \in DOMAIN result'[q] :
                      op'[q][result'[q][i][1]] = "done" /\ result'[q][i][1] \in Requested(q)
                 /\ \A i, j \in DOMAIN result'[q] : result'[q][i][1] = result'[q][j][1] => i = j
                 /\ \A b \in Agents : op'[q][b] = "done" =>
                      \E i \in DOMAIN result'[q] : result'[q][i][1] = b
      <4>1. CASE q = p
        <5>1. \A i \in DOMAIN result'[p] :
                op'[p][result'[p][i][1]] = "done" /\ result'[p][i][1] \in Requested(p)
          <6> TAKE i \in DOMAIN result'[p]
          <6>1. CASE i = n
            BY <1>2, <3>1, <3>5, <6>1
          <6>2. CASE i \in DOMAIN result[p]
            <7>1. result'[p][i] = result[p][i]
              BY <3>5, <6>2
            <7>2. /\ result[p][i][1] \in Agents /\ op[p][result[p][i][1]] = "done"
                  /\ result[p][i][1] \in Requested(p)
              BY <2>4, <6>2
            <7>3. QED
              BY <3>6, <7>1, <7>2
          <6>3. QED
            BY <3>4, <6>1, <6>2
        <5>2. \A i, j \in DOMAIN result'[p] : result'[p][i][1] = result'[p][j][1] => i = j
          <6>1. \A i, j \in DOMAIN result[p] : result[p][i][1] = result[p][j][1] => i = j
            BY DEF ResultInv
          <6>2. \A i \in DOMAIN result[p] :
                  result'[p][i][1] = result[p][i][1] /\ result[p][i][1] # a
            BY <3>5, <3>7
          <6>3. QED
            BY <3>4, <3>5, <6>1, <6>2
        <5>3. ASSUME NEW b \in Agents, op'[p][b] = "done"
              PROVE  \E i \in DOMAIN result'[p] : result'[p][i][1] = b
          <6>1. CASE b = a
            BY <3>4, <3>5, <6>1
          <6>2. CASE op[p][b] = "done"
            <7>1. PICK i \in DOMAIN result[p] : result[p][i][1] = b
              BY <6>2 DEF ResultInv
            <7>2. i \in DOMAIN result'[p] /\ result'[p][i] = result[p][i]
              BY <3>4, <3>5
            <7>3. QED
              BY <7>1, <7>2
          <6>3. QED
            BY <3>6, <5>3, <6>1, <6>2
        <5>4. QED
          BY <4>1, <5>1, <5>2, <5>3
      <4>2. CASE q # p
        <5>1. result'[q] = result[q]
          BY <3>2, <4>2
        <5>2. \A b \in Agents : op'[q][b] = "done" <=> op[q][b] = "done"
          BY <3>6, <4>2
        <5>3. QED
          BY <2>4, <5>1, <5>2 DEF ResultInv
      <4>3. QED
        BY <4>1, <4>2
    <3>9. QED
      BY <2>1, <3>8 DEF ResultInv
  <2>7. GoesOn(p, a) => op'[p][a] # "done"
    BY DEF GoesOn, Goes, Publishes, Lists, Prunes, Locks, Removes
  <2>8. QED
    BY <1>2, <2>5, <2>6, <2>7, Outside DEF Ends
<1>3. QED
  BY <1>1, <1>2, Steps

-----------------------------------------------------------------------------
(***************************************************************************)
(* The cache.                                                              *)
(***************************************************************************)

\* Whoever holds a lease finds its entry, whatever the others prune
\* (remove_replaced_platform_entries, cache.rs:453).
LEMMA LeaseInvStep ==
  TypeOK /\ OpInv /\ PhaseInv /\ LeaseInv /\ [Next]_vars => LeaseInv'
<1> SUFFICES ASSUME TypeOK, OpInv, PhaseInv, LeaseInv, [Next]_vars,
                    NEW q \in Processes, NEW b \in Agents, NotUninstalled(b)', Leasing(q, b)'
             PROVE  /\ holds'[q][b] \in entries'[b]
                    /\ op'[q][b] = "remove" => holds'[q][b] \notin listed'[q][b]
  BY DEF LeaseInv
<1>1. CASE Quiet
  <2>1. NotUninstalled(b) /\ Leasing(q, b)
    BY <1>1 DEF Quiet, NotUninstalled, Leasing, PhaseInv, Cmd, Requested, Distribution
  <2>2. QED
    BY <1>1, <2>1 DEF Quiet, LeaseInv
<1>2. ASSUME NEW p \in Processes, NEW a \in Requested(p), a \in Agents,
             OpStep(p, a) \/ AgentEnds(p, a) \/ Panic(p, a)
      PROVE  /\ holds'[q][b] \in entries'[b]
             /\ op'[q][b] = "remove" => holds'[q][b] \notin listed'[q][b]
  <2>1. /\ job' = job /\ phase[p] = "work"
        /\ \A x \in Processes : x # p => phase'[x] = phase[x]
    BY <1>2, OpSteps
  <2>2. NotUninstalled(b) /\ Cmd(q)' = Cmd(q) /\ Cmd(q) # "uninstall" /\ phase'[q] = "work"
    BY <2>1 DEF NotUninstalled, Leasing, Cmd, Requested
  <2>3. /\ \A x \in Processes, y \in Agents : x # p \/ y # a =>
             op'[x][y] = op[x][y] /\ holds'[x][y] = holds[x][y] /\ listed'[x][y] = listed[x][y]
        /\ \A y \in Agents : y # a => entries'[y] = entries[y]
        /\ (\E o \in Good \cup {"failed"} : Ends(p, a, o)) \/ GoesOn(p, a)
    BY <1>2, OpInvAt, Outside DEF Frame
  <2>4. CASE b # a
    <3>1. Leasing(q, b) /\ phase[q] = "work"
      BY <2>1, <2>2, <2>3, <2>4 DEF Leasing, Distribution
    <3>2. QED
      BY <2>2, <2>3, <2>4, <3>1 DEF LeaseInv
  <2>5. CASE b = a /\ q # p
    <3>1. Leasing(q, a) /\ phase[q] = "work"
      BY <2>1, <2>2, <2>3, <2>5 DEF Leasing, Distribution
    <3>2. /\ holds[q][a] \in entries[a]
          /\ op[q][a] = "remove" => holds[q][a] \notin listed[q][a]
      BY <1>2, <2>2, <2>5, <3>1 DEF LeaseInv
    <3>3. q \in Others(p, a)
      BY <2>5, <3>1 DEF Others, PhaseInv
    <3>4. ~Removes(p, a) /\ ~Locks(p, a)
      BY <2>2, <2>5 DEF NotUninstalled, Removes, Locks
    <3>5. holds[q][a] \in entries'[a]
      BY <2>3, <3>2, <3>3, <3>4 DEF Ends, GoesOn, Goes, Publishes, Lists, Prunes
    <3>6. QED
      BY <1>2, <2>3, <2>5, <3>2, <3>5
  <2>6. CASE b = a /\ q = p
    <3>1. Cmd(p) # "uninstall" /\ phase[p] = "work" /\ NotUninstalled(a)
      BY <2>1, <2>2, <2>6
    <3>2. \/ op'[p][a] \in {"log", "list", "remove"}
          \/ op'[p][a] = "running" /\ Distribution(a) = "binary"
      BY <2>6 DEF Leasing, Distribution
    <3>3. ASSUME NEW o \in Good \cup {"failed"}, Ends(p, a, o) PROVE FALSE
      <4>1. op'[p][a] = "done"
        BY <1>2, <3>3, FinishStep DEF Ends
      <4>2. QED
        BY <3>2, <4>1
    <3>4. CASE Goes(p, a)
      <4>1. op[p][a] = "log" /\ UNCHANGED <<holds, listed, entries>> /\ op'[p][a] # "remove"
        BY <3>1, <3>2, <3>4 DEF Goes
      <4>2. holds[p][a] \in entries[a]
        BY <1>2, <3>1, <4>1 DEF LeaseInv, Leasing
      <4>3. QED
        BY <2>6, <4>1, <4>2
    <3>5. CASE Publishes(p, a)
      BY <2>6, <3>5 DEF Publishes
    <3>6. CASE Lists(p, a)
      <4>1. holds[p][a] \in entries[a]
        BY <1>2, <3>1, <3>6 DEF Lists, LeaseInv, Leasing
      <4>2. QED
        BY <2>6, <3>6, <4>1 DEF Lists
    <3>7. CASE Prunes(p, a)
      <4>1. holds[p][a] \in entries[a] /\ holds[p][a] \notin listed[p][a]
        BY <1>2, <3>1, <3>7 DEF Prunes, LeaseInv, Leasing
      <4>2. QED
        BY <2>6, <3>7, <4>1 DEF Prunes
    <3>8. QED
      BY <2>3, <3>1, <3>3, <3>4, <3>5, <3>6, <3>7 DEF GoesOn, Locks, Removes
  <2>7. QED
    BY <2>4, <2>5, <2>6
<1>3. QED
  BY <1>1, <1>2, Steps

\* The lease of a command keeps the agent installed, until its result says so
\* and after it (update_from, lifecycle.rs:280).
LEMMA InstalledStep ==
  TypeOK /\ OpInv /\ PhaseInv /\ LeaseInv /\ InstalledStaysInstalled /\ [Next]_vars
    => InstalledStaysInstalled'
<1> SUFFICES ASSUME TypeOK, OpInv, PhaseInv, LeaseInv, InstalledStaysInstalled, [Next]_vars,
                    NEW q \in Processes, NEW b \in Agents,
                    <<b, "binary">> \in Range(result'[q]), NotUninstalled(b)'
             PROVE  entries'[b] # {}
  BY DEF InstalledStaysInstalled, NotUninstalled, Requested
<1>1. \A x \in Processes :
        <<b, "binary">> \in Range(result[x]) /\ NotUninstalled(b) => entries[b] # {}
  BY DEF InstalledStaysInstalled, NotUninstalled, Requested
<1>2. CASE Quiet
  BY <1>1, <1>2 DEF Quiet, NotUninstalled, Cmd, Requested
<1>3. ASSUME NEW p \in Processes, NEW a \in Requested(p), a \in Agents,
             OpStep(p, a) \/ AgentEnds(p, a) \/ Panic(p, a)
      PROVE  entries'[b] # {}
  <2>1. job' = job /\ phase[p] = "work"
    BY <1>3, OpSteps
  <2>2. NotUninstalled(b)
    BY <2>1 DEF NotUninstalled, Cmd, Requested
  <2>3. /\ \A y \in Agents : y # a => entries'[y] = entries[y]
        /\ \/ \E o \in Good \cup {"failed"} : Ends(p, a, o)
           \/ GoesOn(p, a) /\ result' = result
    BY <1>3, Outside
  <2>4. ASSUME NEW o \in Good \cup {"failed"}, Ends(p, a, o) PROVE entries'[b] # {}
    <3>1. \/ <<b, "binary">> \in Range(result[q])
          \/ b = a /\ o = "binary"
      BY <1>3, <2>4, FinishRange DEF Ends
    <3>2. CASE b = a /\ o = "binary"
      BY <2>2, <2>4, <3>2 DEF Ends, LeaseInv
    <3>3. QED
      BY <1>1, <2>2, <2>4, <3>1, <3>2 DEF Ends
  <2>5. CASE GoesOn(p, a) /\ result' = result
    <3>1. entries[b] # {}
      BY <1>1, <2>2, <2>5
    <3>2. b = a => ~Removes(p, a) /\ ~Locks(p, a)
      BY <2>2 DEF NotUninstalled, Removes, Locks
    <3>3. CASE b = a /\ Prunes(p, a)
      <4>1. holds[p][a] \in entries[a] /\ holds[p][a] \notin listed[p][a]
        BY <2>1, <2>2, <3>3 DEF Prunes, LeaseInv, Leasing
      <4>2. QED
        BY <3>3, <4>1 DEF Prunes
    <3>4. CASE b = a /\ (Goes(p, a) \/ Publishes(p, a) \/ Lists(p, a))
      BY <3>1, <3>4 DEF Goes, Publishes, Lists
    <3>5. QED
      BY <2>3, <2>5, <3>1, <3>2, <3>3, <3>4 DEF GoesOn
  <2>6. QED
    BY <2>3, <2>4, <2>5
<1>4. QED
  BY <1>2, <1>3, Steps

\* While an uninstall is at the entries of an agent, it has listed or locked
\* all there are (remove_cached_agent, cache.rs:442).
LEMMA GoneInvStep ==
  TypeOK /\ OpInv /\ PhaseInv /\ GoneInv /\ [Next]_vars => GoneInv'
<1> SUFFICES ASSUME TypeOK, OpInv, PhaseInv, GoneInv, [Next]_vars,
                    NEW q \in Processes, NEW b \in Agents,
                    Cmd(q)' = "uninstall", Alone(q, b)'
             PROVE  /\ op'[q][b] = "remove" =>
                         entries'[b] \subseteq listed'[q][b] \cup {holds'[q][b]}
                    /\ op'[q][b] \in {"inspect", "npm", "uvx"} => entries'[b] = {}
  BY DEF GoneInv
<1>1. Cmd(q) = "uninstall" /\ Alone(q, b) =>
        /\ op[q][b] = "remove" => entries[b] \subseteq listed[q][b] \cup {holds[q][b]}
        /\ op[q][b] \in {"inspect", "npm", "uvx"} => entries[b] = {}
  BY DEF GoneInv
<1>2. CASE Quiet
  BY <1>1, <1>2 DEF Quiet, Cmd, Alone, Requested
<1>3. ASSUME NEW p \in Processes, NEW a \in Requested(p), a \in Agents,
             OpStep(p, a) \/ AgentEnds(p, a) \/ Panic(p, a)
      PROVE  /\ op'[q][b] = "remove" => entries'[b] \subseteq listed'[q][b] \cup {holds'[q][b]}
             /\ op'[q][b] \in {"inspect", "npm", "uvx"} => entries'[b] = {}
  <2>1. job' = job
    BY <1>3, OpSteps
  <2>2. Cmd(q) = "uninstall" /\ Alone(q, b)
    BY <2>1 DEF Cmd, Alone, Requested
  <2>3. /\ \A x \in Processes, y \in Agents : x # p \/ y # a =>
             op'[x][y] = op[x][y] /\ holds'[x][y] = holds[x][y] /\ listed'[x][y] = listed[x][y]
        /\ \A y \in Agents : y # a => entries'[y] = entries[y]
        /\ (\E o \in Good \cup {"failed"} : Ends(p, a, o)) \/ GoesOn(p, a)
    BY <1>3, OpInvAt, Outside DEF Frame
  <2>4. b = a => q = p
    BY <1>3, <2>2 DEF Alone
  <2>5. CASE b # a
    BY <1>1, <2>2, <2>3, <2>5
  <2>6. CASE b = a /\ q = p
    <3>1. /\ op[p][a] = "remove" => entries[a] \subseteq listed[p][a] \cup {holds[p][a]}
          /\ op[p][a] \in {"inspect", "npm", "uvx"} => entries[a] = {}
          /\ entries[a] \subseteq Digests /\ None \notin Digests
      BY <1>1, <2>2, <2>6, NoneAssumption DEF TypeOK
    <3>2. ASSUME NEW o \in Good \cup {"failed"}, Ends(p, a, o)
          PROVE  op'[p][a] \notin {"remove", "inspect", "npm", "uvx"}
      BY <1>3, <3>2, FinishStep DEF Ends
    <3>3. CASE Goes(p, a)
      <4>1. ASSUME op'[p][a] \in {"inspect", "npm", "uvx"} PROVE entries[a] = {}
        BY <2>2, <2>6, <3>1, <3>3, <4>1 DEF Goes, Cleared
      <4>2. QED
        BY <2>6, <3>3, <4>1 DEF Goes
    <3>4. CASE Publishes(p, a)
      BY <2>6, <3>4 DEF Publishes
    <3>5. CASE Lists(p, a)
      BY <2>6, <3>5 DEF Lists
    <3>6. CASE Prunes(p, a)
      BY <2>2, <2>6, <3>6 DEF Prunes
    <3>7. CASE Locks(p, a)
      BY <2>6, <3>1, <3>7 DEF Locks
    <3>8. CASE Removes(p, a)
      BY <2>6, <3>1, <3>8 DEF Removes
    <3>9. QED
      BY <2>3, <2>6, <3>2, <3>3, <3>4, <3>5, <3>6, <3>7, <3>8 DEF GoesOn
  <2>7. QED
    BY <2>4, <2>5, <2>6
<1>4. QED
  BY <1>2, <1>3, Steps

\* An uninstall that ends well ends with the cache cleared, or with the package
\* removed as well (uninstall_from, lifecycle.rs:316).
LEMMA UninstalledStep ==
  TypeOK /\ OpInv /\ PhaseInv /\ ResultInv /\ GoneInv /\ UninstalledMeansGone /\ [Next]_vars
    => UninstalledMeansGone'
<1> SUFFICES ASSUME TypeOK, OpInv, PhaseInv, ResultInv, GoneInv, UninstalledMeansGone, [Next]_vars,
                    NEW q \in Processes, NEW b \in Agents, NEW g \in Good,
                    Cmd(q)' = "uninstall", <<b, g>> \in Range(result'[q]), Alone(q, b)'
             PROVE  /\ entries'[b] = {}
                    /\ <<b, "package">> \in Range(result'[q]) => b \notin packages'[PackagesOf(b)]
  BY DEF UninstalledMeansGone, Alone, Requested, PackagesOf, Distribution
<1>1. \A o \in Good : Cmd(q) = "uninstall" /\ <<b, o>> \in Range(result[q]) /\ Alone(q, b) =>
        /\ entries[b] = {}
        /\ <<b, "package">> \in Range(result[q]) => b \notin packages[PackagesOf(b)]
  BY DEF UninstalledMeansGone, Alone, Requested, PackagesOf, Distribution
<1>2. CASE Quiet
  BY <1>1, <1>2 DEF Quiet, Cmd, Alone, Requested
<1>3. ASSUME NEW p \in Processes, NEW a \in Requested(p), a \in Agents,
             OpStep(p, a) \/ AgentEnds(p, a) \/ Panic(p, a)
      PROVE  /\ entries'[b] = {}
             /\ <<b, "package">> \in Range(result'[q]) => b \notin packages'[PackagesOf(b)]
  <2>1. job' = job /\ op[p][a] # "done"
    BY <1>3, OpSteps
  <2>2. Cmd(q) = "uninstall" /\ Alone(q, b)
    BY <2>1 DEF Cmd, Alone, Requested
  <2>3. /\ \A y \in Agents : y # a =>
             entries'[y] = entries[y] /\ \A r \in Runners : y \in packages'[r] <=> y \in packages[r]
        /\ \/ \E o \in Good \cup {"failed"} : Ends(p, a, o)
           \/ GoesOn(p, a) /\ result' = result
    BY <1>3, Outside
  <2>4. b = a => q = p
    BY <1>3, <2>2 DEF Alone
  <2>5. PackagesOf(b) \in Runners
    BY DEF PackagesOf, Runners
  <2>6. \A o : <<a, o>> \notin Range(result[p])
    BY <1>3, <2>1 DEF ResultInv, Range
  <2>7. CASE b # a
    <3>1. \A o : <<b, o>> \in Range(result'[q]) => <<b, o>> \in Range(result[q])
      <4>1. ASSUME NEW u \in Good \cup {"failed"}, Ends(p, a, u),
                   NEW o, <<b, o>> \in Range(result'[q])
            PROVE  <<b, o>> \in Range(result[q])
        BY <1>3, <2>7, <4>1, FinishRange DEF Ends
      <4>2. QED
        BY <2>3, <4>1
    <3>2. QED
      BY <1>1, <2>2, <2>3, <2>5, <2>7, <3>1
  <2>8. CASE b = a /\ q = p
    <3>1. PICK o \in Good \cup {"failed"} : Ends(p, a, o)
      BY <2>3, <2>6, <2>8
    <3>2. Range(result'[p]) = Range(result[p]) \cup {<<a, o>>}
      BY <1>3, <3>1, FinishRange DEF Ends
    <3>3. o = g
      BY <2>6, <2>8, <3>2
    <3>4. (op[p][a] = "remove" /\ Cleared(p, a)) \/ op[p][a] \in {"inspect", "npm", "uvx"}
      BY <2>2, <2>8, <3>1, <3>3 DEF Ends
    <3>5. /\ op[p][a] = "remove" => entries[a] \subseteq listed[p][a] \cup {holds[p][a]}
          /\ op[p][a] \in {"inspect", "npm", "uvx"} => entries[a] = {}
          /\ entries[a] \subseteq Digests /\ None \notin Digests
      BY <2>2, <2>8, NoneAssumption DEF GoneInv, TypeOK
    <3>6. entries'[a] = {}
      BY <3>1, <3>4, <3>5 DEF Ends, Cleared
    <3>7. <<a, "package">> \in Range(result'[p]) => a \notin packages'[PackagesOf(a)]
      <4>1. <<a, "package">> \in Range(result'[p]) => o = "package"
        BY <2>6, <3>2
      <4>2. QED
        BY <2>2, <2>8, <3>1, <4>1 DEF Ends
    <3>8. QED
      BY <2>8, <3>6, <3>7
  <2>9. QED
    BY <2>4, <2>7, <2>8
<1>4. QED
  BY <1>2, <1>3, Steps

-----------------------------------------------------------------------------
(***************************************************************************)
(* install-env.                                                            *)
(***************************************************************************)

\* A plan names what is missing, and is empty only where nothing is
\* (plan_installation, environment.rs:47).
LEMMA PlanProperties ==
  /\ HasJavaScript \/ "deno" \in Range(PlanInstallation)
  /\ HasPython \/ "uv" \in Range(PlanInstallation)
<1> DEFINE d == IF ~Available("npm") /\ ~Available("deno") THEN <<"deno">> ELSE <<>>
           u == IF ~Available("uv") THEN <<"uv">> ELSE <<>>
<1>1. /\ d \in Seq(Targets) /\ u \in Seq(Targets)
      /\ HasJavaScript \/ d = <<"deno">>
      /\ HasPython \/ u = <<"uv">>
  <2>1. (Available("npm") \/ Available("deno") => HasJavaScript) /\ (Available("uv") => HasPython)
    BY DEF Available, ResolveProgram, HasJavaScript, HasPython
  <2>2. <<"deno">> \in Seq(Targets) /\ <<"uv">> \in Seq(Targets) /\ <<>> \in Seq(Targets)
    BY DEF Targets
  <2>3. QED
    BY <2>1, <2>2
<1>2. PlanInstallation = d \o u
  BY DEF PlanInstallation
<1> HIDE DEF d, u
<1>3. Range(PlanInstallation) = Range(d) \cup Range(u)
  BY <1>1, <1>2, RangeConcatenation
<1>4. "deno" \in Range(<<"deno">>) /\ "uv" \in Range(<<"uv">>)
  BY DEF Range
<1>5. QED
  BY <1>1, <1>3, <1>4

\* What is left of a plan when its first target is there.
LEMMA PlanTail ==
  ASSUME NEW s \in Seq(Targets), s # <<>>
  PROVE  /\ Head(s) \in Targets /\ Tail(s) \in Seq(Targets)
         /\ Range(s) = {Head(s)} \cup Range(Tail(s))
<1> DEFINE h == <<Head(s)>>
           t == Tail(s)
<1>1. Head(s) \in Targets /\ t \in Seq(Targets) /\ s = h \o t
  BY HeadTailProperties
<1>2. h \in Seq(Targets) /\ Range(h) = {Head(s)}
  BY <1>1 DEF Range
<1> HIDE DEF h, t
<1>3. Range(h \o t) = Range(h) \cup Range(t)
  BY <1>1, <1>2, RangeConcatenation
<1>4. Range(s) = {Head(s)} \cup Range(t)
  BY <1>1, <1>2, <1>3
<1>5. QED
  BY <1>1, <1>4 DEF t

\* What install-env has seen, or verified, stays: only it adds programs, and
\* nothing takes them away (environment.rs:232).
LEMMA EnvironmentStep ==
  TypeOK /\ OpInv /\ PhaseInv /\ PlanInv /\ EnvironmentIsVerified /\ [Next]_vars
    => PlanInv' /\ EnvironmentIsVerified'
<1> SUFFICES ASSUME TypeOK, OpInv, PhaseInv, PlanInv, EnvironmentIsVerified, [Next]_vars
             PROVE  PlanInv' /\ EnvironmentIsVerified'
  OBVIOUS
<1> USE DEF rest, machine, operations, vars
<1> DEFINE Planned(q)  == /\ HasJavaScript \/ "deno" \in Range(plan[q])
                          /\ HasPython \/ "uv" \in Range(plan[q])
           Ended(q)    == Cmd(q) = "install_env" /\ code[q] = 0
                          /\ output[q] # <<<<None, "cancelled">>>>
           InPlan(q)   == phase[q] \in {"confirm", "install"}
           \* q's own step, or its absence, keeps what is said of it.
           Keeps(q)    == /\ InPlan(q)' => Planned(q)'
                          /\ Ended(q)' => (HasJavaScript /\ HasPython)'
           Same(q)     == /\ phase'[q] = phase[q] /\ code'[q] = code[q]
                          /\ plan'[q] = plan[q] /\ output'[q] = output[q]
<1>1. /\ phase \in [Processes -> {"start", "args", "work", "confirm", "install", "exited"}]
      /\ code \in [Processes -> {None, 0, 1, 137}]
      /\ plan \in [Processes -> Seq(Targets)]
      /\ output \in [Processes -> Seq(Results \cup Notices)]
      /\ None # 0
  BY NoneAssumption DEF TypeOK
<1>2. \A q \in Processes : (InPlan(q) => Planned(q)) /\ (Ended(q) => HasJavaScript /\ HasPython)
  BY DEF PlanInv, EnvironmentIsVerified, HasJavaScript, HasPython
<1>3. job' = job /\ \A q \in Processes : Cmd(q)' = Cmd(q)
  <2>1. Quiet => job' = job
    BY DEF Quiet
  <2>2. job' = job
    BY <2>1, Steps, OpSteps
  <2>3. QED
    BY <2>2 DEF Cmd
<1>4. ASSUME programs \subseteq programs', NEW q \in Processes, Same(q) PROVE Keeps(q)
  <2>1. (HasJavaScript => HasJavaScript') /\ (HasPython => HasPython')
    BY <1>4 DEF HasJavaScript, HasPython
  <2>2. QED
    BY <1>2, <1>3, <1>4, <2>1
<1>5. (\A q \in Processes : Keeps(q)) => PlanInv' /\ EnvironmentIsVerified'
  BY DEF PlanInv, EnvironmentIsVerified, HasJavaScript, HasPython
<1>6. ASSUME NEW p \in Processes, Detect(p) PROVE PlanInv' /\ EnvironmentIsVerified'
  <2>1. programs' = programs /\ \A q \in Processes : q # p => Same(q)
    BY <1>1, <1>6 DEF Detect, Exit
  <2>2. plan'[p] = PlanInstallation /\ HasJavaScript' = HasJavaScript /\ HasPython' = HasPython
    BY <1>1, <1>6 DEF Detect, HasJavaScript, HasPython
  <2>3. Planned(p)'
    BY <2>2, PlanProperties
  <2>4. code'[p] = 0 => PlanInstallation = <<>>
    BY <1>1, <1>6 DEF Detect, Exit, PhaseInv
  <2>5. Range(<<>>) = {}
    BY DEF Range
  <2>6. Keeps(p)
    BY <2>2, <2>3, <2>4, <2>5
  <2>7. QED
    BY <1>4, <1>5, <2>1, <2>6
<1>7. ASSUME NEW p \in Processes, Confirm(p) PROVE PlanInv' /\ EnvironmentIsVerified'
  <2>1. /\ UNCHANGED <<programs, plan>> /\ phase[p] = "confirm"
        /\ \/ UNCHANGED <<phase, code, output>>
           \/ /\ phase' = [phase EXCEPT ![p] = "exited"] /\ code' = [code EXCEPT ![p] = 0]
              /\ output' = [output EXCEPT ![p] = <<<<None, "cancelled">>>>]
           \/ phase' = [phase EXCEPT ![p] = "install"] /\ UNCHANGED <<code, output>>
    BY <1>7 DEF Confirm, Exit
  <2>2. programs' = programs /\ \A q \in Processes : q # p => Same(q)
    BY <1>1, <2>1
  <2>3. HasJavaScript' = HasJavaScript /\ HasPython' = HasPython /\ Planned(p)
    BY <1>2, <2>1 DEF HasJavaScript, HasPython
  <2>4. code[p] = None
    BY <2>1 DEF PhaseInv
  <2>5. ~Ended(p)'
    BY <1>1, <2>1, <2>4
  <2>6. Keeps(p)
    BY <2>1, <2>3, <2>5
  <2>7. QED
    BY <1>4, <1>5, <2>2, <2>6
<1>8. ASSUME NEW p \in Processes, InstallTarget(p) PROVE PlanInv' /\ EnvironmentIsVerified'
  <2> DEFINE t == Head(plan[p])
  <2>1. phase[p] = "install" /\ plan[p] # <<>> /\ plan[p] \in Seq(Targets) /\ code[p] = None
    BY <1>1, <1>8 DEF InstallTarget, PhaseInv
  <2>2. t \in Targets /\ Range(plan[p]) = {t} \cup Range(Tail(plan[p]))
    BY <2>1, PlanTail
  <2>3. programs \subseteq programs' /\ \A q \in Processes : q # p => Same(q)
    BY <1>1, <1>8 DEF InstallTarget, Exit
  <2>4. \/ /\ Verified(t) /\ plan'[p] = Tail(plan[p]) /\ UNCHANGED <<phase, code>>
        \/ phase'[p] = "exited" /\ code'[p] = 1
    BY <1>1, <1>8 DEF InstallTarget, Exit
  <2>5. Planned(p) /\ (HasJavaScript => HasJavaScript') /\ (HasPython => HasPython')
    BY <1>2, <2>1, <2>3 DEF HasJavaScript, HasPython
  <2>6. Verified(t) => (t = "deno" => HasJavaScript') /\ (t = "uv" => HasPython')
    BY <2>2 DEF Verified, ResolveProgram, HasJavaScript, HasPython, Targets, Home
  <2> HIDE DEF t
  <2>7. ~Ended(p)'
    BY <1>1, <2>1, <2>4
  <2>8. Keeps(p)
    BY <2>2, <2>4, <2>5, <2>6, <2>7
  <2>9. QED
    BY <1>4, <1>5, <2>3, <2>8
<1>9. ASSUME NEW p \in Processes, InstallComplete(p) PROVE PlanInv' /\ EnvironmentIsVerified'
  <2>1. /\ programs' = programs /\ phase'[p] = "exited" /\ \A q \in Processes : q # p => Same(q)
        /\ phase[p] = "install" /\ plan[p] = <<>>
    BY <1>1, <1>9 DEF InstallComplete, Exit
  <2>2. Range(<<>>) = {}
    BY DEF Range
  <2>3. HasJavaScript /\ HasPython /\ HasJavaScript' = HasJavaScript /\ HasPython' = HasPython
    BY <1>2, <2>1, <2>2 DEF HasJavaScript, HasPython
  <2>4. Keeps(p)
    BY <2>1, <2>3
  <2>5. QED
    BY <1>4, <1>5, <2>1, <2>4
<1>10. ASSUME programs' = programs,
              \A q \in Processes : Same(q) \/ (Cmd(q) # "install_env" /\ ~InPlan(q)')
       PROVE  PlanInv' /\ EnvironmentIsVerified'
  BY <1>3, <1>4, <1>5, <1>10
<1>11. ASSUME NEW p \in Processes,
              ResolveArgs(p) \/ FetchRegistry(p) \/ Report(p) \/ RunFails(p)
       PROVE  PlanInv' /\ EnvironmentIsVerified'
  <2>1. job[p].yolo => Cmd(p) = "run"
    BY JobType
  <2>2. Cmd(p) # "install_env" /\ programs' = programs
    BY <1>11, <2>1 DEF ResolveArgs, FetchRegistry, Report, RunFails, IsBatch
  <2>3. ~InPlan(p)' /\ \A q \in Processes : q # p => Same(q)
    BY <1>1, <1>11 DEF ResolveArgs, FetchRegistry, Report, RunFails, Exit
  <2>4. QED
    BY <1>10, <2>2, <2>3
<1>12. ASSUME NEW p \in Processes, NEW a \in Requested(p), a \in Agents,
              OpStep(p, a) \/ AgentEnds(p, a) \/ Panic(p, a)
       PROVE  PlanInv' /\ EnvironmentIsVerified'
  <2>1. /\ phase[p] = "work" /\ UNCHANGED <<programs, plan, output>>
        /\ \A q \in Processes : q # p => phase'[q] = phase[q] /\ code'[q] = code[q]
        /\ (phase' = phase /\ code' = code) \/ phase'[p] = "exited"
    BY <1>12, OpSteps
  <2>2. Cmd(p) # "install_env"
    BY <2>1 DEF PhaseInv
  <2>3. QED
    BY <1>10, <2>1, <2>2
<1>13. CASE Publish \/ UNCHANGED vars
  BY <1>10, <1>13 DEF Publish
<1>14. \A p \in Processes : \A a \in Requested(p) : a \in Agents
  BY JobType
<1>15. QED
  BY <1>6, <1>7, <1>8, <1>9, <1>11, <1>12, <1>13, <1>14 DEF Next

-----------------------------------------------------------------------------
(***************************************************************************)
(* What a batch reports.                                                   *)
(***************************************************************************)

\* Every id of a request has one place, which is where it comes first
\* (run_concurrently, lifecycle.rs:498).
LEMMA Places ==
  ASSUME NEW T, NEW ids \in Seq(T)
  PROVE  /\ \A a \in Range(ids) : \E i \in First(ids) : ids[i] = a
         /\ \A i, j \in First(ids) : ids[i] = ids[j] => i = j
         /\ First(ids) \in SUBSET (1..Len(ids))
<1>1. Len(ids) \in Nat /\ DOMAIN ids = 1..Len(ids)
  OBVIOUS
<1>2. First(ids) \in SUBSET (1..Len(ids))
  BY <1>1 DEF First
<1>3. ASSUME NEW a \in Range(ids) PROVE \E i \in First(ids) : ids[i] = a
  <2> DEFINE S == {i \in 1..Len(ids) : ids[i] = a}
             m == Position(S, 1)
  <2>1. S \in SUBSET (1..Len(ids)) /\ S # {}
    BY <1>1 DEF Range
  <2>2. /\ Cardinality(S) \in Nat
        /\ \A k \in 1..Cardinality(S) : Position(S, k) \in S
        /\ \A i \in S : \E k \in 1..Cardinality(S) : Position(S, k) = i
        /\ \A j, k \in 1..Cardinality(S) : j < k => Position(S, j) < Position(S, k)
    BY <1>1, <2>1, Positions
  <2>3. 1 \in 1..Cardinality(S)
    BY <2>1, <2>2
  <2>4. m \in S
    BY <2>2, <2>3
  <2>5. ASSUME NEW i \in S PROVE ~(i < m)
    <3>1. PICK k \in 1..Cardinality(S) : Position(S, k) = i
      BY <2>2
    <3>2. i \in 1..Len(ids) /\ m \in 1..Len(ids)
      BY <2>1, <2>4
    <3>3. k = 1 \/ 1 < k
      BY <2>2
    <3>4. i = m \/ m < i
      BY <2>2, <2>3, <3>1, <3>3
    <3>5. QED
      BY <3>2, <3>4
  <2>6. m \in 1..Len(ids) /\ ids[m] = a
    BY <2>4
  <2> HIDE DEF m
  <2>7. \A j \in 1..(m - 1) : ids[j] # ids[m]
    <3> SUFFICES ASSUME NEW j \in 1..(m - 1), ids[j] = ids[m] PROVE FALSE
      OBVIOUS
    <3>1. j \in 1..Len(ids) /\ j < m
      BY <1>1, <2>6
    <3>2. j \in S
      BY <2>6, <3>1
    <3>3. QED
      BY <2>5, <3>1, <3>2
  <2>8. QED
    BY <1>1, <2>6, <2>7 DEF First
<1>4. ASSUME NEW i \in First(ids), NEW j \in First(ids), ids[i] = ids[j] PROVE i = j
  <2>1. i \in 1..Len(ids) /\ j \in 1..Len(ids)
    BY <1>2
  <2>2. ~(i < j) /\ ~(j < i)
    BY <1>1, <1>4, <2>1 DEF First
  <2>3. QED
    BY <1>1, <2>1, <2>2
<1>5. QED
  BY <1>2, <1>3, <1>4

\* The truth about a batch of ids with the results rs, told by the lines and the
\* exit code c.
Truth(ids, rs, lines, c) ==
  LET Place(a) == CHOOSE i \in First(ids) : ids[i] = a
      bad == {r[1] : r \in {s \in Range(rs) : s[2] = "failed"}}
  IN  /\ c = 0 <=> bad = {}
      /\ {r[1] : r \in Range(lines)} = IF bad = {} THEN Range(ids) ELSE bad
      /\ \A i, j \in DOMAIN lines : i < j => Place(lines[i][1]) < Place(lines[j][1])

\* report_batch_outcome tells it (commands/mod.rs:247).
LEMMA ReportTells ==
  ASSUME TypeOK, ResultInv, NEW p \in Processes, Report(p)
  PROVE  Truth(job[p].ids, result[p], output'[p], code'[p])
<1> DEFINE ids      == job[p].ids
           F        == First(ids)
           n        == Len(Ids(p))
           Place(a) == CHOOSE i \in F : ids[i] = a
           bad      == {r[1] : r \in {s \in Range(result[p]) : s[2] = "failed"}}
           rs       == InRequestOrder(p)
           B        == {i \in DOMAIN rs : rs[i][2] \notin Good}
           failures == Filtered(rs, B)
<1>1. \A a \in Requested(p) : op[p][a] = "done"
  BY DEF Report
<1>2. /\ ids \in Seq(Agents) /\ Requested(p) = Range(ids) /\ Requested(p) \subseteq Agents
      /\ Len(ids) \in Nat
  BY JobType DEF Requested
<1>3. /\ n \in Nat /\ n = Cardinality(F) /\ F \in SUBSET (1..Len(ids))
      /\ \A k \in 1..n : Position(F, k) \in F /\ Ids(p)[k] = ids[Position(F, k)]
      /\ \A k \in 1..n : Ids(p)[k] \in Requested(p)
  BY IdsProperties DEF Range
<1>4. /\ rs \in Seq(Results) /\ Len(rs) = n /\ DOMAIN rs = 1..n
      /\ \A k \in 1..n : rs[k] = <<Ids(p)[k], ResultOf(p, Ids(p)[k])>>
  BY <1>1, RequestOrder
<1>5. /\ \A a \in Range(ids) : \E i \in F : ids[i] = a
      /\ \A i, j \in F : ids[i] = ids[j] => i = j
  BY <1>2, Places
<1>6. /\ \A i \in F : \E k \in 1..n : Position(F, k) = i
      /\ \A j, k \in 1..n : j < k => Position(F, j) < Position(F, k)
  BY <1>2, <1>3, Positions
<1>7. ASSUME NEW k \in 1..n PROVE Place(rs[k][1]) = Position(F, k)
  <2>1. rs[k][1] = ids[Position(F, k)] /\ Position(F, k) \in F
    BY <1>3, <1>4
  <2>2. Place(rs[k][1]) \in F /\ ids[Place(rs[k][1])] = rs[k][1]
    BY <2>1
  <2> HIDE DEF Place
  <2>3. QED
    BY <1>5, <2>1, <2>2
<1>8. \A j, k \in 1..n : j < k => Place(rs[j][1]) < Place(rs[k][1])
  <2> HIDE DEF Place, rs
  <2> QED BY <1>6, <1>7
<1>9. B \in SUBSET (1..Len(rs))
  BY <1>4
<1>10. /\ DOMAIN failures = 1..Cardinality(B)
       /\ \A k \in 1..Cardinality(B) :
            Position(B, k) \in B /\ failures[k] = rs[Position(B, k)]
       /\ Range(failures) = {rs[i] : i \in B}
       /\ failures = <<>> <=> B = {}
  BY <1>4, <1>9, FilteredProperties
<1>11. \A j, k \in 1..Cardinality(B) : j < k => Position(B, j) < Position(B, k)
  BY <1>3, <1>4, <1>9, Positions
<1>12. bad = {rs[i][1] : i \in B}
  <2>1. ASSUME NEW r \in Range(result[p]), r[2] = "failed"
        PROVE  \E k \in B : rs[k][1] = r[1]
    <3>1. r \in Results /\ r = <<r[1], "failed">> /\ r[1] \in Agents
      BY <2>1, RangeOfSeq DEF TypeOK, Results
    <3>2. r[1] \in Requested(p)
      BY <2>1 DEF ResultInv, Range
    <3>3. PICK i \in F : ids[i] = r[1]
      BY <1>2, <1>5, <3>2
    <3>4. PICK k \in 1..n : Position(F, k) = i
      BY <1>6
    <3>5. Ids(p)[k] = r[1]
      BY <1>3, <3>3, <3>4
    <3>6. ResultOf(p, r[1]) = "failed"
      <4>1. <<r[1], "failed">> \in Range(result[p]) /\ op[p][r[1]] = "done"
        BY <1>1, <3>1, <3>2
      <4>2. \A a \in Agents : op[p][a] = "done" =>
              \A o : <<a, o>> \in Range(result[p]) => o = ResultOf(p, a)
        BY ResultOfProperties
      <4>3. QED
        BY <3>1, <4>1, <4>2
    <3>7. rs[k][1] = r[1] /\ rs[k][2] = "failed"
      BY <1>4, <3>5, <3>6
    <3>8. k \in B
      BY <1>4, <3>7 DEF Good
    <3>9. QED
      BY <3>7, <3>8
  <2>2. ASSUME NEW i \in B PROVE rs[i][1] \in bad
    <3>1. i \in 1..n /\ rs[i][2] \notin Good
      BY <1>4
    <3> DEFINE a == Ids(p)[i]
    <3>2. a \in Requested(p) /\ a \in Agents /\ rs[i] = <<a, ResultOf(p, a)>>
      BY <1>2, <1>3, <1>4, <3>1
    <3>3. ResultOf(p, a) \in Good \cup {"failed"} /\ <<a, ResultOf(p, a)>> \in Range(result[p])
      BY <1>1, <3>2, ResultOfProperties
    <3> HIDE DEF a
    <3>4. <<a, "failed">> \in Range(result[p]) /\ rs[i][1] = a
      BY <3>1, <3>2, <3>3
    <3>5. QED
      BY <3>4
  <2>3. bad \subseteq {rs[i][1] : i \in B}
    <3> HIDE DEF rs, B
    <3> QED BY <2>1
  <2> HIDE DEF bad, rs, B
  <2>4. QED
    BY <2>2, <2>3
<1>13. bad = {} <=> failures = <<>>
  <2>1. failures = <<>> <=> B = {}
    BY <1>10
  <2> HIDE DEF bad, rs, B, failures
  <2>2. bad = {} <=> B = {}
    BY <1>12
  <2>3. QED
    BY <2>1, <2>2
<1>14. /\ output'[p] = IF failures = <<>> THEN rs ELSE failures
       /\ code'[p] = IF failures = <<>> THEN 0 ELSE 1
  <2>1. p \in DOMAIN output /\ p \in DOMAIN code
    BY DEF TypeOK
  <2>2. /\ output' = [output EXCEPT ![p] = IF failures = <<>> THEN rs ELSE failures]
        /\ code' = [code EXCEPT ![p] = IF failures = <<>> THEN 0 ELSE 1]
    BY DEF Report
  <2> HIDE DEF rs, failures
  <2>3. QED
    BY <2>1, <2>2
<1>15. {rs[k][1] : k \in 1..n} = Range(ids)
  <2>1. ASSUME NEW a \in Range(ids) PROVE \E k \in 1..n : rs[k][1] = a
    <3>1. PICK i \in F : ids[i] = a
      BY <1>5
    <3>2. PICK k \in 1..n : Position(F, k) = i
      BY <1>6
    <3>3. QED
      BY <1>3, <1>4, <3>1, <3>2
  <2>2. ASSUME NEW k \in 1..n PROVE rs[k][1] \in Range(ids)
    BY <1>2, <1>3, <1>4
  <2>3. QED
    BY <2>1, <2>2
<1>16. Range(rs) = {rs[k] : k \in 1..n}
  BY <1>4 DEF Range
<1>17. \A j, k \in DOMAIN failures : j < k => Place(failures[j][1]) < Place(failures[k][1])
  <2> HIDE DEF Place, rs, failures, B
  <2>1. \A k \in 1..Cardinality(B) : Position(B, k) \in 1..n
    BY <1>4, <1>9, <1>10
  <2>2. QED
    BY <1>8, <1>10, <1>11, <2>1
<1> HIDE DEF rs, failures, B, Place, bad
<1>18. code'[p] = 0 <=> bad = {}
  BY <1>13, <1>14
<1>19. {r[1] : r \in Range(output'[p])} = IF bad = {} THEN Range(ids) ELSE bad
  <2>1. CASE bad = {}
    BY <1>13, <1>14, <1>15, <1>16, <2>1
  <2>2. CASE bad # {}
    BY <1>10, <1>12, <1>13, <1>14, <2>2
  <2>3. QED
    BY <2>1, <2>2
<1>20. \A i, j \in DOMAIN output'[p] : i < j => Place(output'[p][i][1]) < Place(output'[p][j][1])
  BY <1>4, <1>8, <1>14, <1>17
<1>21. QED
  BY <1>18, <1>19, <1>20 DEF Truth, Place, bad

\* A batch ends with its report only, and what it then did is over.
LEMMA BatchReportStep ==
  TypeOK /\ OpInv /\ PhaseInv /\ ResultInv /\ BatchReport /\ [Next]_vars => BatchReport'
<1> SUFFICES ASSUME TypeOK, OpInv, PhaseInv, ResultInv, BatchReport, [Next]_vars
             PROVE  BatchReport'
  OBVIOUS
<1> USE DEF rest, machine, operations, vars
<1> DEFINE Same(q) == /\ phase'[q] = phase[q] /\ code'[q] = code[q]
                      /\ output'[q] = output[q] /\ result'[q] = result[q]
           Told(q) == IsBatch(q) /\ phase'[q] = "exited" =>
                        /\ Truth(job[q].ids, result[q], output'[q], code'[q])
                        /\ result'[q] = result[q]
<1>1. /\ phase \in [Processes -> {"start", "args", "work", "confirm", "install", "exited"}]
      /\ code \in [Processes -> {None, 0, 1, 137}]
      /\ output \in [Processes -> Seq(Results \cup Notices)]
  BY DEF TypeOK
<1>2. job' = job
  <2>1. Quiet => job' = job
    BY DEF Quiet
  <2>2. QED
    BY <2>1, Steps, OpSteps
<1>3. ASSUME NEW q \in Processes, Same(q) PROVE Told(q)
  <2>1. IsBatch(q) /\ phase[q] = "exited" => Truth(job[q].ids, result[q], output[q], code[q])
    BY DEF BatchReport, Truth
  <2>2. QED
    BY <1>3, <2>1
<1>4. ASSUME \A q \in Processes : Told(q) PROVE BatchReport'
  <2>1. ASSUME NEW q \in Processes, IsBatch(q)', phase'[q] = "exited"
        PROVE  Truth(job[q].ids, result[q], output[q], code[q])'
    <3>1. IsBatch(q)
      BY <1>2, <2>1 DEF IsBatch, Cmd
    <3>2. Truth(job[q].ids, result[q], output'[q], code'[q]) /\ result'[q] = result[q]
      BY <1>4, <2>1, <3>1
    <3>3. QED
      BY <1>2, <3>2
  <2>2. QED
    BY <2>1 DEF BatchReport, Truth
<1>5. ASSUME NEW p \in Processes,
             \/ ResolveArgs(p) \/ FetchRegistry(p) \/ RunFails(p) \/ Detect(p) \/ Confirm(p)
             \/ InstallTarget(p) \/ InstallComplete(p)
      PROVE  \A q \in Processes : Told(q)
  <2>1. job[p].yolo => Cmd(p) = "run"
    BY JobType
  <2>2. \A q \in Processes : q # p => Same(q)
    <3>1. CASE Confirm(p)
      <4>1. /\ result' = result
            /\ phase' = phase \/ phase' = [phase EXCEPT ![p] = "exited"]
               \/ phase' = [phase EXCEPT ![p] = "install"]
            /\ code' = code \/ code' = [code EXCEPT ![p] = 0]
            /\ output' = output \/ output' = [output EXCEPT ![p] = <<<<None, "cancelled">>>>]
        BY <3>1 DEF Confirm, Exit
      <4>2. QED
        BY <1>1, <4>1
    <3>2. QED
      BY <1>1, <1>5, <3>1 DEF ResolveArgs, FetchRegistry, RunFails, Detect, InstallTarget,
                              InstallComplete, Exit
  <2>3. ~IsBatch(p) \/ phase'[p] = "work"
    <3>1. CASE ResolveArgs(p) \/ RunFails(p)
      BY <2>1, <3>1 DEF ResolveArgs, RunFails, IsBatch
    <3>2. CASE FetchRegistry(p)
      BY <1>1, <3>2 DEF FetchRegistry
    <3>3. CASE Detect(p) \/ Confirm(p) \/ InstallTarget(p) \/ InstallComplete(p)
      BY <3>3 DEF Detect, Confirm, InstallTarget, InstallComplete, IsBatch, PhaseInv
    <3>4. QED
      BY <1>5, <3>1, <3>2, <3>3
  <2>4. QED
    BY <1>3, <2>2, <2>3
<1>6. ASSUME NEW p \in Processes, Report(p) PROVE \A q \in Processes : Told(q)
  <2>1. result' = result /\ \A q \in Processes : q # p => Same(q)
    BY <1>1, <1>6 DEF Report
  <2>2. Truth(job[p].ids, result[p], output'[p], code'[p])
    BY <1>6, ReportTells
  <2>3. QED
    BY <1>3, <2>1, <2>2
<1>7. ASSUME NEW p \in Processes, NEW a \in Requested(p), a \in Agents,
             OpStep(p, a) \/ AgentEnds(p, a) \/ Panic(p, a)
      PROVE  \A q \in Processes : Told(q)
  <2>1. /\ phase[p] = "work" /\ output' = output
        /\ \A q \in Processes : q # p => phase'[q] = phase[q] /\ code'[q] = code[q]
        /\ \/ phase' = phase /\ code' = code
           \/ phase'[p] = "exited" /\ Cmd(p) = "run"
    BY <1>7, OpSteps
  <2>2. \A q \in Processes : q # p => result'[q] = result[q]
    <3>1. ASSUME NEW o \in Good \cup {"failed"}, Ends(p, a, o)
          PROVE  \A q \in Processes : q # p => result'[q] = result[q]
      BY <1>7, <3>1, FinishEffect DEF Ends
    <3>2. QED
      BY <1>7, <3>1, Outside
  <2>3. phase'[p] # "exited" \/ ~IsBatch(p)
    BY <2>1 DEF IsBatch
  <2>4. QED
    BY <1>3, <2>1, <2>2, <2>3
<1>8. CASE Publish \/ UNCHANGED vars
  BY <1>3, <1>4, <1>8 DEF Publish
<1>9. \A p \in Processes : \A a \in Requested(p) : a \in Agents
  BY JobType
<1>10. QED
  BY <1>4, <1>5, <1>6, <1>7, <1>8, <1>9 DEF Next

-----------------------------------------------------------------------------
(***************************************************************************)
(* The theorems.                                                           *)
(***************************************************************************)

\* At first no command has done anything (main.rs).
LEMMA Initially == Init => TypeOK /\ IInv
<1> SUFFICES ASSUME Init PROVE TypeOK /\ IInv
  OBVIOUS
<1> USE DEF Init
<1>1. TypeOK
  <2>1. <<>> \in Seq(Results) /\ <<>> \in Seq(Targets) /\ <<>> \in Seq(Results \cup Notices)
    OBVIOUS
  <2>2. /\ entries \in [Agents -> SUBSET Digests] /\ packages \in [Runners -> SUBSET Agents]
        /\ programs \subseteq Names
    BY FirstAssumption
  <2>3. QED
    BY <2>1, <2>2 DEF TypeOK, Digests, OpPcs
<1>2. \A p \in Processes : Range(result[p]) = {} /\ DOMAIN result[p] = {} /\ code[p] # 0
  BY NoneAssumption DEF Range
<1>3. PhaseInv /\ OpInv /\ LeaseInv /\ GoneInv /\ PlanInv /\ ResultInv
  BY <1>2 DEF PhaseInv, OpInv, LeaseInv, Leasing, GoneInv, PlanInv, ResultInv
<1>4. InstalledStaysInstalled /\ UninstalledMeansGone /\ EnvironmentIsVerified /\ BatchReport
  BY <1>2 DEF InstalledStaysInstalled, UninstalledMeansGone, EnvironmentIsVerified, BatchReport
<1>5. QED
  BY <1>1, <1>3, <1>4 DEF IInv

\* The inductive invariant, of any number of commands on one machine
\* (installer/lifecycle.rs, environment.rs, runner.rs).
THEOREM Invariance == Spec => [](TypeOK /\ IInv)
<1>1. Init => TypeOK /\ IInv
  BY Initially
<1>2. TypeOK /\ IInv /\ [Next]_vars => (TypeOK /\ IInv)'
  <2> SUFFICES ASSUME TypeOK, IInv, [Next]_vars PROVE TypeOK' /\ IInv'
    OBVIOUS
  <2>1. /\ PhaseInv /\ OpInv /\ LeaseInv /\ GoneInv /\ PlanInv /\ ResultInv
        /\ InstalledStaysInstalled /\ UninstalledMeansGone /\ EnvironmentIsVerified /\ BatchReport
    BY DEF IInv
  <2>2. TypeOK' /\ PhaseInv' /\ OpInv' /\ ResultInv'
    BY <2>1, TypeStep, PhaseInvStep, OpInvStep, ResultInvStep
  <2>3. LeaseInv' /\ InstalledStaysInstalled'
    BY <2>1, LeaseInvStep, InstalledStep
  <2>4. GoneInv' /\ UninstalledMeansGone'
    BY <2>1, GoneInvStep, UninstalledStep
  <2>5. PlanInv' /\ EnvironmentIsVerified' /\ BatchReport'
    BY <2>1, EnvironmentStep, BatchReportStep
  <2>6. QED
    BY <2>2, <2>3, <2>4, <2>5 DEF IInv
<1>3. QED
  BY <1>1, <1>2, PTL DEF Spec

\* Every variable has its type, the printed lines among them
\* (commands/mod.rs:247).
THEOREM TypeCorrect == Spec => []TypeOK
BY Invariance, PTL

\* A batch's exit code and lines are the truth about its operations, in the
\* order of the request, whatever they were, ended first or panicked
\* (run_concurrently, lifecycle.rs:492, report_batch_outcome, commands/mod.rs:247).
THEOREM BatchesTellTheTruth == Spec => []BatchReport
<1>1. IInv => BatchReport
  BY DEF IInv
<1>2. QED
  BY <1>1, Invariance, PTL

\* No prune of any update removes the last entry of an agent that a command has
\* reported as installed (remove_replaced_platform_entries, cache.rs:453).
THEOREM LeasesKeepAgents == Spec => []InstalledStaysInstalled
<1>1. IInv => InstalledStaysInstalled
  BY DEF IInv
<1>2. QED
  BY <1>1, Invariance, PTL

\* An uninstall that reports success has left nothing where it looked
\* (uninstall_from, lifecycle.rs:316).
THEOREM UninstallsAreComplete == Spec => []UninstalledMeansGone
<1>1. IInv => UninstalledMeansGone
  BY DEF IInv
<1>2. QED
  BY <1>1, Invariance, PTL

\* A success of install-env is one of verify_installation, for each program that
\* was missing (environment.rs:232).
THEOREM EnvironmentsAreVerified == Spec => []EnvironmentIsVerified
<1>1. IInv => EnvironmentIsVerified
  BY DEF IInv
<1>2. QED
  BY <1>1, Invariance, PTL

=============================================================================
