------------------------------ MODULE Lifecycle ------------------------------
(***************************************************************************)
(* Commands that install, update, uninstall and run agents, several at     *)
(* once on one machine: the batch of operations of a command, the choice   *)
(* of a distribution and of its package runner, what each operation        *)
(* changes, and the report.  `install-env` installs the runners.           *)
(* Source: src/src/installer/lifecycle.rs, environment.rs,                 *)
(* src/src/runner.rs, registry.rs, yolo.rs, src/src/commands/mod.rs,       *)
(* src/src/commands/environment.rs.                                        *)
(*                                                                         *)
(* An agent's binaries are the entries of its cache, named by the digest   *)
(* that the registry publishes.  Publication and removal of one entry are  *)
(* BinaryCache's; here they are one step under the entry's locks.          *)
(***************************************************************************)
EXTENDS Naturals, FiniteSets, Sequences, Functions

CONSTANTS
  Processes, Agents,
  Assignments,           \* the commands that the processes may be given
  Channels,              \* an agent's channels in the registry
  Listed,                \* the agents that the registry lists
  Catalogs,              \* yolo catalogs, on the CDN and bundled: their agents
  FirstEntries,          \* what may be cached at first
  FirstPackages,         \* what the package managers may have at first
  FirstPrograms,         \* the sets of programs there may be on PATH at first
  OPERATION_CONCURRENCY, \* operations of a batch that run at once
  None

Digests == {"old", "new"}
Runners == {"npm", "deno", "uvx"}
Targets == {"deno", "uv"}

\* Where an installer puts a program; the directory need not be on PATH.
Home == [deno |-> "~/.deno/bin/deno", uv |-> "~/.local/bin/uv"]

ASSUME ChannelsAssumption    == Channels \in [Listed -> SUBSET {"binary", "npx", "uvx"}]
ASSUME ListedAssumption      == Listed \subseteq Agents
ASSUME ConcurrencyAssumption == OPERATION_CONCURRENCY \in Nat \ {0}
ASSUME NoneAssumption        == None \notin Digests \cup {"unavailable"} /\ None # 0

\* A command line names agents; `--yolo` is a flag of run only.
Commands == {"install", "update", "uninstall", "run", "install_env"}
Jobs == {j \in [cmd : Commands, ids : Seq(Agents), yes : BOOLEAN, yolo : BOOLEAN] :
           j.yolo => j.cmd = "run"}
Names == {"npm", "deno", "uv", "curl", Home.deno, Home.uv}

ASSUME AssignmentsAssumption == \A j \in Assignments : DOMAIN j = Processes /\ \A p \in Processes : j[p] \in Jobs
ASSUME FirstAssumption ==
  /\ FirstEntries \subseteq [Agents -> SUBSET Digests]
  /\ FirstPackages \subseteq [Runners -> SUBSET Agents]
  /\ FirstPrograms \subseteq SUBSET Names

VARIABLES
  job,       \* a process's command: [cmd, ids, yes, yolo]
  published, \* the digest of the binaries that the registry publishes
  entries,   \* the cache: digests of an agent's entries
  packages,  \* what each package runner keeps: the agents it has prepared
  programs,  \* programs on PATH, and those in a Home that is not
  phase,     \* a process: "start", "args", "work", "confirm", "install", "exited"
  registry,  \* its registry snapshot: a digest, "unavailable", or None
  op,        \* what its operation for an agent does next
  holds,     \* the entry that an operation has leased, or locked for removal
  listed,    \* entries that an operation has listed and not looked at yet
  removed,   \* cache_removed
  result,    \* results of the operations, in the order in which they end
  plan,      \* targets that install-env has left
  output,    \* what the command prints: <<agent, outcome>>, or about none
  code       \* the exit code, None before the exit

operations == <<op, holds, listed, removed, result>>
machine    == <<published, entries, packages, programs>>
vars == <<job, machine, phase, registry, operations, plan, output, code>>

-----------------------------------------------------------------------------
OpPcs == {"queued", "binary", "log", "list", "remove", "lookup", "inspect",
          "npm", "deno", "uvx", "running", "done"}
Good  == {"binary", "package", "cache", "cache_only", "managed"}
Results == Agents \X (Good \cup {"failed"})
Notices == {None} \X {"cancelled", "complete"}

TypeOK ==
  /\ job \in Assignments
  /\ published \in Digests
  /\ entries \in [Agents -> SUBSET Digests]
  /\ packages \in [Runners -> SUBSET Agents]
  /\ programs \subseteq Names
  /\ phase \in [Processes -> {"start", "args", "work", "confirm", "install", "exited"}]
  /\ registry \in [Processes -> Digests \cup {"unavailable", None}]
  /\ op \in [Processes -> [Agents -> OpPcs]]
  /\ holds \in [Processes -> [Agents -> Digests \cup {None}]]
  /\ listed \in [Processes -> [Agents -> SUBSET Digests]]
  /\ removed \in [Processes -> SUBSET Agents]
  /\ result \in [Processes -> Seq(Results)]
  /\ plan \in [Processes -> Seq(Targets)]
  /\ output \in [Processes -> Seq(Results \cup Notices)]
  /\ code \in [Processes -> {None, 0, 1, 137}]

Init ==
  /\ job \in Assignments
  /\ published = "old"
  /\ entries \in FirstEntries
  /\ packages \in FirstPackages
  /\ programs \in FirstPrograms
  /\ phase = [p \in Processes |-> "start"]
  /\ registry = [p \in Processes |-> None]
  /\ op = [p \in Processes |-> [a \in Agents |-> "queued"]]
  /\ holds = [p \in Processes |-> [a \in Agents |-> None]]
  /\ listed = [p \in Processes |-> [a \in Agents |-> {}]]
  /\ removed = [p \in Processes |-> {}]
  /\ result = [p \in Processes |-> <<>>]
  /\ plan = [p \in Processes |-> <<>>]
  /\ output = [p \in Processes |-> <<>>]
  /\ code = [p \in Processes |-> None]

-----------------------------------------------------------------------------
(***************************************************************************)
(* The distribution of an agent.                                           *)
(***************************************************************************)
\* resolve_distribution: a binary, then npm, then uvx.
Distribution(a) ==
  CASE a \notin Listed           -> None
    [] "binary" \in Channels[a]  -> "binary"
    [] "npx" \in Channels[a]     -> "npx"
    [] "uvx" \in Channels[a]     -> "uvx"
    [] OTHER                     -> None

\* resolve_program_with_directories: on PATH, or where it is known to be.
ResolveProgram(x, known, there) == ({x} \cup known) \cap there # {}

Available(x) == ResolveProgram(x, {}, programs)

\* npm_package_runner; install, run and uninstall all ask it.
NpmRunner == IF Available("npm") THEN "npm" ELSE "deno"

Runner(a) == IF Distribution(a) = "npx" THEN NpmRunner ELSE "uvx"

\* The program that installs and removes for a runner.
Installer(r) == IF r = "uvx" THEN "uv" ELSE r

\* The program that `run` starts is a cached file or is looked up on PATH
\* (npm_command_spec, package_command_spec).
Executable(a) == Distribution(a) = "binary" \/ Available(Installer(Runner(a)))

-----------------------------------------------------------------------------
(***************************************************************************)
(* A batch.  A definition whose comment starts with "Mutation" changes the *)
(* one that follows it the way a slip in the code would.                   *)
(***************************************************************************)
Cmd(p) == job[p].cmd
IsBatch(p) == Cmd(p) \in {"install", "update", "uninstall"}

Requested(p) == Range(job[p].ids)

\* What a filter keeps of the sequence s: the elements at the positions S.
Position(S, k) == CHOOSE i \in S : Cardinality({j \in S : j < i}) = k - 1
Filtered(s, S) == [k \in 1..Cardinality(S) |-> s[Position(S, k)]]

\* The ids of a request, without those that came before.
First(ids) == {i \in DOMAIN ids : \A j \in 1..(i - 1) : ids[j] # ids[i]}
Ids(p)     == Filtered(job[p].ids, First(job[p].ids))

At(p, a, l)   == phase[p] = "work" /\ op[p][a] = l
Goto(p, a, l) == op' = [op EXCEPT ![p][a] = l]
Hold(p, a, d) == holds' = [holds EXCEPT ![p][a] = d]
Active(p)     == {a \in Requested(p) : op[p][a] \notin {"queued", "done"}}

\* An operation returns, which drops its lease or its locks.
Finish(p, a, outcome) ==
  /\ Goto(p, a, "done")
  /\ Hold(p, a, None)
  /\ result' = [result EXCEPT ![p] = Append(@, <<a, outcome>>)]
  /\ listed' = [listed EXCEPT ![p][a] = {}]
  /\ UNCHANGED removed

Move(p, a, l) == Goto(p, a, l) /\ UNCHANGED <<holds, listed, removed, result>>

Exit(p, c) ==
  /\ phase' = [phase EXCEPT ![p] = "exited"]
  /\ code' = [code EXCEPT ![p] = c]

rest == <<job, phase, registry, plan, output, code>>

\* `run --yolo` looks its agent up in the catalog of the CDN, or in the one
\* that is bundled, before anything else.
ResolveArgs(p) ==
  /\ phase[p] = "start" /\ job[p].yolo
  /\ \E catalog \in Catalogs :
       IF Requested(p) \subseteq catalog
         THEN phase' = [phase EXCEPT ![p] = "args"] /\ UNCHANGED code
         ELSE Exit(p, 1)
  /\ UNCHANGED <<job, machine, registry, operations, plan, output>>

\* fetch_registry: a payload that does not arrive or is not valid is no
\* snapshot.
Snapshots == {published, "unavailable"}

\* get_agent
Known(p, a) == registry[p] # "unavailable" /\ a \in Listed

\* One snapshot of the registry serves the whole batch.
FetchRegistry(p) ==
  /\ phase[p] = IF job[p].yolo THEN "args" ELSE "start"
  /\ Cmd(p) # "install_env"
  /\ \E r \in Snapshots : registry' = [registry EXCEPT ![p] = r]
  /\ phase' = [phase EXCEPT ![p] = "work"]
  /\ UNCHANGED <<job, machine, operations, plan, output, code>>

\* buffer_unordered starts operations in order as long as there is room;
\* each runs to its first await.
StartNext(p, a) ==
  /\ At(p, a, "queued")
  /\ \E i \in DOMAIN job[p].ids :
       /\ job[p].ids[i] = a
       /\ \A j \in 1..(i - 1) : op[p][job[p].ids[j]] # "queued"
  /\ Cardinality(Active(p)) < OPERATION_CONCURRENCY

\* uninstall_from removes before it resolves anything.
StartUninstall(p, a) ==
  /\ Cmd(p) = "uninstall"
  /\ StartNext(p, a)
  /\ Move(p, a, "list")
  /\ UNCHANGED <<machine, rest>>

StartInstall(p, a) ==
  /\ Cmd(p) \in {"install", "update"}
  /\ StartNext(p, a)
  /\ IF ~Known(p, a) \/ Distribution(a) = None
       THEN Finish(p, a, "failed")
       ELSE Move(p, a, IF Distribution(a) = "binary" THEN "binary" ELSE Runner(a))
  /\ UNCHANGED <<machine, rest>>

\* run_agent, which installs nothing but binaries.
StartRun(p, a) ==
  /\ Cmd(p) = "run"
  /\ StartNext(p, a)
  /\ IF ~Known(p, a) \/ Distribution(a) = None \/ ~Executable(a)
       THEN Finish(p, a, "failed")
       ELSE Move(p, a, IF Distribution(a) = "binary" THEN "binary" ELSE "running")
  /\ UNCHANGED <<machine, rest>>

-----------------------------------------------------------------------------
(***************************************************************************)
(* Operations on the cache.                                                *)
(***************************************************************************)
Others(p, a) == {q \in Processes \ {p} : phase[q] = "work" /\ Cmd(q) # "install_env"}
LeasedBy(q, a, d) == holds[q][a] = d /\ Cmd(q) # "uninstall"
LockedBy(q, a, d) == holds[q][a] = d /\ Cmd(q) = "uninstall"

\* cache_binary_target, refresh_binary_target_in: the registry's entry is
\* validated or published, and comes back with a lease.
CacheBinary(p, a) ==
  /\ At(p, a, "binary")
  /\ \A q \in Others(p, a) : ~LockedBy(q, a, registry[p])
  /\ \/ /\ entries' = [entries EXCEPT ![a] = @ \cup {registry[p]}]
        /\ Hold(p, a, registry[p])
        /\ Goto(p, a, "log")
        /\ UNCHANGED <<listed, removed, result>>
     \/ Finish(p, a, "failed") /\ UNCHANGED entries
  /\ UNCHANGED <<published, packages, programs, rest>>

\* record_install_log (module InstallLog); then an update prunes, a run
\* executes, an install is done.
LogInstall(p, a) ==
  /\ At(p, a, "log")
  /\ CASE Cmd(p) = "update" -> Move(p, a, "list")
       [] Cmd(p) = "run"    -> Move(p, a, "running")
       [] OTHER             -> Finish(p, a, "binary")
  /\ UNCHANGED <<machine, rest>>

\* Mutation: an update lets its own entry go before it prunes the others.
ListUnleased(p, a) ==
  /\ At(p, a, "list")
  /\ listed' = [listed EXCEPT ![p][a] = entries[a] \ {holds[p][a]}]
  /\ Goto(p, a, "remove")
  /\ Hold(p, a, None)
  /\ UNCHANGED <<removed, result, machine, rest>>

\* list_cached_agents, and the agent's own directory; an update keeps its
\* entry, an uninstall holds none.
ListEntries(p, a) ==
  /\ At(p, a, "list")
  /\ listed' = [listed EXCEPT ![p][a] = entries[a] \ {holds[p][a]}]
  /\ Goto(p, a, "remove")
  /\ UNCHANGED <<holds, removed, result, machine, rest>>

Drop(a, d) == entries' = [entries EXCEPT ![a] = @ \ {d}]
Look(p, a, d) == listed' = [listed EXCEPT ![p][a] = @ \ {d}]

\* remove_replaced_platform_entries: a replaced entry in use is left alone.
Prune(p, a) ==
  /\ Cmd(p) = "update"
  /\ At(p, a, "remove")
  /\ \E d \in listed[p][a] :
       IF \E q \in Others(p, a) : holds[q][a] = d
         THEN Look(p, a, d) /\ UNCHANGED <<entries, op, holds, result>>
         ELSE \/ Look(p, a, d) /\ Drop(a, d) /\ UNCHANGED <<op, holds, result>>
              \/ Finish(p, a, "failed") /\ UNCHANGED entries
  /\ UNCHANGED <<removed, published, packages, programs, rest>>

Pruned(p, a) ==
  /\ Cmd(p) = "update"
  /\ At(p, a, "remove") /\ listed[p][a] = {}
  /\ Finish(p, a, "binary")
  /\ UNCHANGED <<machine, rest>>

\* remove_cached_agent, entry by entry: its publication lock first ...
LockEntry(p, a) ==
  /\ Cmd(p) = "uninstall"
  /\ At(p, a, "remove") /\ holds[p][a] = None
  /\ \E d \in listed[p][a] :
       /\ \A q \in Others(p, a) : ~LockedBy(q, a, d)
       /\ Hold(p, a, d)
       /\ Look(p, a, d)
  /\ UNCHANGED <<op, removed, result, machine, rest>>

\* ... then the use lock, for which it waits.
RemoveEntry(p, a) ==
  /\ Cmd(p) = "uninstall"
  /\ At(p, a, "remove") /\ holds[p][a] # None
  /\ \A q \in Others(p, a) : ~LeasedBy(q, a, holds[p][a])
  /\ \/ /\ Drop(a, holds[p][a])
        /\ removed' = IF holds[p][a] \in entries[a]
                        THEN [removed EXCEPT ![p] = @ \cup {a}] ELSE removed
        /\ Hold(p, a, None)
        /\ UNCHANGED <<op, listed, result>>
     \/ Finish(p, a, "failed") /\ UNCHANGED entries
  /\ UNCHANGED <<published, packages, programs, rest>>

-----------------------------------------------------------------------------
(***************************************************************************)
(* The rest of uninstall_from, and the package runners.                    *)
(***************************************************************************)
\* Mutation: the cache is cleared of the registry's entry only.
ClearedOfCurrent(p, a) == holds[p][a] = None /\ registry[p] \notin listed[p][a]

Cleared(p, a) == holds[p][a] = None /\ listed[p][a] = {}

\* A package is looked for only where no entry was removed.
Lookup(p, a) ==
  /\ Cmd(p) = "uninstall"
  /\ At(p, a, "remove") /\ Cleared(p, a)
  /\ IF a \in removed[p]
       THEN Finish(p, a, IF registry[p] = "unavailable" THEN "cache_only" ELSE "cache")
     ELSE IF ~Known(p, a) \/ Distribution(a) \in {None, "binary"}
       THEN Finish(p, a, "failed")
     ELSE IF Runner(a) = "deno" THEN Finish(p, a, "managed")
     ELSE Move(p, a, IF Runner(a) = "npm" THEN "inspect" ELSE "uvx")
  /\ UNCHANGED <<machine, rest>>

\* npm_package_installed, npm_list_contains
NpmPackageInstalled(a) == a \in packages["npm"]

\* uninstall_npm_package
Inspect(p, a) ==
  /\ At(p, a, "inspect")
  /\ \/ IF NpmPackageInstalled(a) THEN Move(p, a, "npm") ELSE Finish(p, a, "managed")
     \/ Finish(p, a, "failed")
  /\ UNCHANGED <<machine, rest>>

\* run_command: the package manager does its work and ends well, or fails.
RunPackageManager(p, a) ==
  /\ phase[p] = "work" /\ op[p][a] \in Runners
  /\ LET r == op[p][a] IN
     \/ /\ Available(Installer(r))
        /\ IF Cmd(p) = "uninstall"
             THEN /\ a \in packages[r]
                  /\ packages' = [packages EXCEPT ![r] = @ \ {a}]
             ELSE packages' = [packages EXCEPT ![r] = @ \cup {a}]
        /\ Finish(p, a, "package")
     \/ Finish(p, a, "failed") /\ UNCHANGED packages
  /\ UNCHANGED <<published, entries, programs, rest>>

\* exit_from_status
ExitFromStatus(status) == IF status[1] = "code" THEN status[2] ELSE 128 + status[2]

\* The agent that `run` has started ends, or could not be started.
AgentEnds(p, a) ==
  /\ At(p, a, "running")
  /\ Finish(p, a, IF Distribution(a) = "binary" THEN "binary" ELSE "package")
  /\ \E status \in {<<"code", 0>>, <<"code", 1>>, <<"signal", 9>>} :
       Exit(p, ExitFromStatus(status))
  /\ UNCHANGED <<job, machine, registry, plan, output>>

\* An agent that could not be resolved or cached.
RunFails(p) ==
  /\ Cmd(p) = "run" /\ phase[p] = "work"
  /\ \E a \in Requested(p) : op[p][a] = "done"
  /\ Exit(p, 1)
  /\ UNCHANGED <<job, machine, registry, operations, plan, output>>


\* catch_unwind: a panic is a failed result.
Panic(p, a) ==
  /\ phase[p] = "work" /\ a \in Active(p) /\ IsBatch(p)
  /\ Finish(p, a, "failed")
  /\ UNCHANGED <<machine, rest>>

-----------------------------------------------------------------------------
(***************************************************************************)
(* The report.                                                             *)
(***************************************************************************)
ResultOf(p, a) ==
  LET i == CHOOSE i \in DOMAIN result[p] : result[p][i][1] = a IN result[p][i][2]

\* Mutation: the results are printed in the order in which they came.
ByCompletion(p) == result[p]

\* run_concurrently puts the results back into the order of the request.
InRequestOrder(p) ==
  [i \in DOMAIN Ids(p) |-> <<Ids(p)[i], ResultOf(p, Ids(p)[i])>>]

\* report_batch_outcome: every line of a success, or the failures' only.
Report(p) ==
  /\ IsBatch(p) /\ phase[p] = "work"
  /\ \A a \in Requested(p) : op[p][a] = "done"
  /\ LET rs == InRequestOrder(p)
         failures == Filtered(rs, {i \in DOMAIN rs : rs[i][2] \notin Good})
     IN  /\ output' = [output EXCEPT ![p] = IF failures = <<>> THEN rs ELSE failures]
         /\ code' = [code EXCEPT ![p] = IF failures = <<>> THEN 0 ELSE 1]
  /\ phase' = [phase EXCEPT ![p] = "exited"]
  /\ UNCHANGED <<job, machine, registry, operations, plan>>

-----------------------------------------------------------------------------
(***************************************************************************)
(* install-env.                                                            *)
(***************************************************************************)
\* plan_installation: deno for want of npm and deno, uv for want of uv.
PlanInstallation ==
  (IF ~Available("npm") /\ ~Available("deno") THEN <<"deno">> ELSE <<>>)
    \o (IF ~Available("uv") THEN <<"uv">> ELSE <<>>)

\* detect_environment, plan_installation and what is done about the plan.
Detect(p) ==
  /\ phase[p] = "start" /\ Cmd(p) = "install_env"
  /\ plan' = [plan EXCEPT ![p] = PlanInstallation]
  /\ IF PlanInstallation = <<>>
       THEN Exit(p, 0)
       ELSE /\ phase' = [phase EXCEPT ![p] = IF job[p].yes THEN "install" ELSE "confirm"]
            /\ UNCHANGED code
  /\ UNCHANGED <<job, machine, registry, operations, output>>

\* prompt_for_installation: the end of the input and an empty line are a yes;
\* anything else but y, yes, n and no is asked again.
Confirm(p) ==
  /\ phase[p] = "confirm"
  /\ \E answer \in {"eof", "", "y", "yes", "n", "no", "other"} :
       IF answer = "other" THEN UNCHANGED <<phase, code, output>>
       ELSE IF answer \in {"n", "no"}
         THEN Exit(p, 0) /\ output' = [output EXCEPT ![p] = <<<<None, "cancelled">>>>]
       ELSE /\ phase' = [phase EXCEPT ![p] = "install"]
            /\ UNCHANGED <<code, output>>
  /\ UNCHANGED <<job, machine, registry, operations, plan>>

\* Mutation: the installer's status is believed.
Believed(t) == TRUE

\* verify_installation finds the program on PATH or in its Home.
Verified(t) == ResolveProgram(t, {Home[t]}, programs')

\* install_and_verify, one target after the other; the first failure ends the
\* command.  `curl ... | sh` succeeds without installing when curl fails.
InstallTarget(p) ==
  /\ phase[p] = "install" /\ plan[p] # <<>>
  /\ LET t == Head(plan[p]) IN
     \/ /\ Available("curl")
        /\ \E installed \in {{}, {t}, {Home[t]}} : programs' = programs \cup installed
        /\ Verified(t)
        /\ plan' = [plan EXCEPT ![p] = Tail(@)]
        /\ UNCHANGED <<phase, code>>
     \/ /\ \E installed \in {{}, {t}, {Home[t]}} :
             /\ ~Available("curl") => installed = {}
             /\ programs' = programs \cup installed
        /\ Exit(p, 1)
        /\ UNCHANGED plan
  /\ UNCHANGED <<job, published, entries, packages, registry, operations, output>>

InstallComplete(p) ==
  /\ phase[p] = "install" /\ plan[p] = <<>>
  /\ Exit(p, 0)
  /\ output' = [output EXCEPT ![p] = <<<<None, "complete">>>>]
  /\ UNCHANGED <<job, machine, registry, operations, plan>>

-----------------------------------------------------------------------------
\* The registry publishes another version.
Publish ==
  /\ published = "old"
  /\ published' = "new"
  /\ UNCHANGED <<job, entries, packages, programs, phase, registry, operations,
                 plan, output, code>>

OpStep(p, a) ==
  \/ StartUninstall(p, a) \/ StartInstall(p, a) \/ StartRun(p, a)
  \/ CacheBinary(p, a) \/ LogInstall(p, a) \/ ListEntries(p, a) \/ Prune(p, a) \/ Pruned(p, a)
  \/ LockEntry(p, a) \/ RemoveEntry(p, a) \/ Lookup(p, a) \/ Inspect(p, a)
  \/ RunPackageManager(p, a)

Next ==
  \/ \E p \in Processes :
       \/ ResolveArgs(p) \/ FetchRegistry(p) \/ Report(p) \/ RunFails(p)
       \/ Detect(p) \/ Confirm(p) \/ InstallTarget(p) \/ InstallComplete(p)
       \/ \E a \in Requested(p) : OpStep(p, a) \/ AgentEnds(p, a) \/ Panic(p, a)
  \/ Publish

Spec == Init /\ [][Next]_vars

\* The processes run; nobody has to answer a prompt, and an agent may run for
\* ever.
FairSpec ==
  /\ Spec
  /\ \A p \in Processes :
       /\ WF_vars(FetchRegistry(p) \/ Report(p) \/ RunFails(p))
       /\ WF_vars(Detect(p) \/ InstallTarget(p) \/ InstallComplete(p))
       /\ \A a \in Agents : WF_vars(a \in Requested(p) /\ OpStep(p, a))

-----------------------------------------------------------------------------
(***************************************************************************)
(* Properties.                                                             *)
(***************************************************************************)

\* A batch command that ended has told the whole truth in the order of the
\* request: 0 and a line for each distinct id, or 1 and a line for each that
\* failed, whatever panicked or ended first (report_batch_outcome,
\* commands/mod.rs:247, run_concurrently, lifecycle.rs:492).
BatchReport ==
  \A p \in Processes : IsBatch(p) /\ phase[p] = "exited" =>
    LET lines == output[p]
        ids   == job[p].ids
        Place(a) == CHOOSE i \in First(ids) : ids[i] = a
        bad   == {r[1] : r \in {s \in Range(result[p]) : s[2] = "failed"}}
    IN  /\ code[p] = 0 <=> bad = {}
        /\ {r[1] : r \in Range(lines)} = IF bad = {} THEN Range(ids) ELSE bad
        /\ \A i, j \in DOMAIN lines : i < j => Place(lines[i][1]) < Place(lines[j][1])

\* An agent whose binary a command has installed, updated or run stays
\* installed, whatever updates to other versions prune meanwhile, as long as
\* nobody uninstalls it: concurrent updates from two snapshots of the registry
\* must not remove each other's entry (remove_replaced_platform_entries,
\* cache.rs:453, update_from, lifecycle.rs:280).
InstalledStaysInstalled ==
  \A p \in Processes, a \in Agents :
    (/\ <<a, "binary">> \in Range(result[p])
     /\ \A q \in Processes : Cmd(q) = "uninstall" => a \notin Range(job[q].ids))
    => entries[a] # {}

\* After an uninstall that reports success nothing of the agent is left where
\* uninstall looked, unless another command has worked on it
\* (uninstall_from, lifecycle.rs:316): all its entries are gone, also those of
\* other versions, or its package.
UninstalledMeansGone ==
  \A p \in Processes, a \in Agents :
    (/\ Cmd(p) = "uninstall"
     /\ \E o \in Good : <<a, o>> \in Range(result[p])
     /\ \A q \in Processes \ {p} : a \notin Range(job[q].ids))
    => /\ entries[a] = {}
       /\ <<a, "package">> \in Range(result[p]) =>
            a \notin packages[IF Distribution(a) = "npx" THEN "npm" ELSE "uvx"]

\* install-env that ends with a success, and was not cancelled, leaves the
\* programs it exists for, although an installer that could not be fetched
\* succeeds too (install_and_verify, installer/environment.rs:195).
EnvironmentIsVerified ==
  \A p \in Processes :
    Cmd(p) = "install_env" /\ code[p] = 0 /\ output[p] # <<<<None, "cancelled">>>> =>
      /\ {"npm", "deno", Home.deno} \cap programs # {}
      /\ {"uv", Home.uv} \cap programs # {}

\* The uninstall of r has locked an entry of the agent that q runs from it.
WaitsForAgent(r, q, a) ==
  \E d \in Digests : LockedBy(r, a, d) /\ LeasedBy(q, a, d) /\ At(q, a, "running")


=============================================================================
