----------------------------- MODULE DaemonSocket -----------------------------
(***************************************************************************)
(* The daemon's Unix socket: daemons that bind it, recover a stale one and *)
(* remove it when they exit, and commands that reach a daemon through it   *)
(* and start one when none is there.                                       *)
(* Source: src/src/server/protocol.rs, client.rs, control.rs, daemon.rs.   *)
(*                                                                         *)
(* The child that a client starts has the client's name; a Runner is a     *)
(* daemon started by hand or by a service manager.  A process takes one    *)
(* system call a step.  What the daemon does with an accepted request is   *)
(* Supervisor's; here a request is answered while its accept loop runs.    *)
(***************************************************************************)
EXTENDS Naturals

CONSTANTS
  Clients,     \* processes that run one `acp-agent server` command
  Runners,     \* daemons that no client starts
  Nobody,      \* the owner of a free lock; the peer of no connection
  MayShutdown, \* daemons that are told to stop (a signal, a Shutdown request)
  MayCrash,    \* daemons that are killed, or whose accept fails
  MayTimeout,  \* clients that may wait DAEMON_START_TIMEOUT in vain
  Entries,     \* what is at the socket's path at first
  Directories  \* the state of the path's parent directory at first

Daemons == Clients \cup Runners

ASSUME DisjointAssumption == Clients \cap Runners = {}
ASSUME NobodyAssumption   == Nobody \notin Daemons
ASSUME NamesAssumption    == Daemons \cap {"none", "stale", "file"} = {}
ASSUME EntriesAssumption  == Entries \subseteq {"none", "stale", "file"}
ASSUME DirectoriesAssumption == Directories \subseteq {"absent", "open", "private"}

VARIABLES
  dir,      \* the parent directory: "absent", with the mode that the umask
            \* leaves ("open"), or with mode 0700 ("private")
  entry,    \* the directory entry: the daemon whose socket it is, a dead
            \* daemon's ("stale"), something else ("file"), or "none"
  bindLock, \* owner of the lock on .<name>.lock
  daemon,   \* what a daemon does next
  status,   \* a daemon's exit status, 0 while it is not known
  cmd,      \* a client's command: "start", or one that starts no daemon
  client,   \* what a client does next
  peer,     \* the daemon at the other end of a client's connection
  winner    \* waiting_for_winner: the client's child has failed to bind

vars == <<dir, entry, bindLock, daemon, status, cmd, client, peer, winner>>

-----------------------------------------------------------------------------

DirectoryPcs == {"inspect", "create", "chmod", "mode"}
DaemonPcs == DirectoryPcs \cup
             {"off", "lock", "bind", "connect", "stat", "remove", "rebind",
              "accept", "stop_all", "remove_own", "close", "exited", "killed"}
ClientPcs == DirectoryPcs \cup
             {"request", "await", "spawn", "health", "await_health", "try_wait",
              "repeat", "await_repeat", "cleanup", "abandon",
              "done", "failed", "timed_out"}

TypeOK ==
  /\ dir \in {"absent", "open", "private"}
  /\ entry \in Daemons \cup {"none", "stale", "file"}
  /\ bindLock \in Daemons \cup {Nobody}
  /\ daemon \in [Daemons -> DaemonPcs]
  /\ status \in [Daemons -> 0..1]
  /\ cmd \in [Clients -> {"start", "other"}]
  /\ client \in [Clients -> ClientPcs]
  /\ peer \in [Clients -> Daemons \cup {Nobody}]
  /\ winner \in [Clients -> BOOLEAN]

Init ==
  /\ dir \in Directories
  /\ entry \in Entries
  /\ dir = "absent" => entry = "none"
  /\ bindLock = Nobody
  /\ daemon = [d \in Daemons |-> IF d \in Runners THEN "inspect" ELSE "off"]
  /\ status = [d \in Daemons |-> 0]
  /\ cmd \in [Clients -> {"start", "other"}]
  /\ client = [c \in Clients |-> "inspect"]
  /\ peer = [c \in Clients |-> Nobody]
  /\ winner = [c \in Clients |-> FALSE]

-----------------------------------------------------------------------------
(***************************************************************************)
(* The directory of the socket.  Every process calls daemon_socket_path    *)
(* before each use of the path; once a call has returned the directory     *)
(* stays as it is, so that the first call of a process is all that counts. *)
(***************************************************************************)

\* ensure_private_directory, as the steps from `at` to `next` of a process.
EnsurePrivateDirectory(at, next, found, refused) ==
  \/ /\ at = "inspect"
     /\ next = IF dir = "absent" THEN "create" ELSE "mode"
     /\ UNCHANGED dir
  \/ /\ at = "create" /\ next = "chmod"
     /\ dir' = IF dir = "absent" THEN "open" ELSE dir
  \/ /\ at = "chmod" /\ next = "mode"
     /\ dir' = "private"
  \/ /\ at = "mode"
     /\ next = IF dir = "private" THEN found ELSE refused
     /\ UNCHANGED dir

-----------------------------------------------------------------------------
(***************************************************************************)
(* Daemons.  A definition whose comment starts with "Mutation" changes the *)
(* one that follows it the way a slip in the code would.                   *)
(***************************************************************************)
daemonVars == <<daemon, status>>
clientVars == <<cmd, client, peer, winner>>

\* A bound listener accepts connections into its backlog until it is closed,
\* whether or not the accept loop still runs.
Listening(d) == daemon[d] \in {"accept", "stop_all", "remove_own", "close"}

Connectable == entry \in Daemons /\ Listening(entry)

Step(d, l) == daemon' = [daemon EXCEPT ![d] = l]

\* The process ends; its locks and its listener go with it, its socket's
\* directory entry does not.
End(d, l, s) ==
  /\ Step(d, l)
  /\ status' = [status EXCEPT ![d] = s]

\* bind_daemon_socket resolves the path.
DaemonDirectory(d) ==
  /\ daemon[d] \in DirectoryPcs
  /\ \E next \in DirectoryPcs \cup {"lock", "exited"} :
       /\ EnsurePrivateDirectory(daemon[d], next, "lock", "exited")
       /\ End(d, next, IF next = "exited" THEN 1 ELSE status[d])
  /\ UNCHANGED <<entry, bindLock, clientVars>>

\* Mutation: the bind lock is not taken.
LockUnlocked(d) ==
  /\ daemon[d] = "lock"
  /\ Step(d, "bind")
  /\ UNCHANGED <<dir, entry, bindLock, status, clientVars>>

\* acquire_socket_bind_lock, which waits for as long as it takes.
Lock(d) ==
  /\ daemon[d] = "lock"
  /\ bindLock = Nobody
  /\ bindLock' = d
  /\ Step(d, "bind")
  /\ UNCHANGED <<dir, entry, status, clientVars>>

\* bind_daemon_socket_at returns, and drops its lock.
Bound(d) ==
  /\ entry' = d
  /\ bindLock' = IF bindLock = d THEN Nobody ELSE bindLock
  /\ Step(d, "accept")
  /\ UNCHANGED status

BindFailed(d) ==
  /\ End(d, "exited", 1)
  /\ bindLock' = IF bindLock = d THEN Nobody ELSE bindLock
  /\ UNCHANGED entry

\* The first bind; AddrInUse for every kind of entry.
Bind(d) ==
  /\ daemon[d] = "bind"
  /\ IF entry = "none"
       THEN Bound(d)
       ELSE Step(d, "connect") /\ UNCHANGED <<entry, bindLock, status>>
  /\ UNCHANGED <<dir, clientVars>>

\* remove_stale_socket's connect: a live owner, or refused and not found.
ConnectStale(d) ==
  /\ daemon[d] = "connect"
  /\ IF Connectable
       THEN BindFailed(d)
       ELSE Step(d, "stat") /\ UNCHANGED <<entry, bindLock, status>>
  /\ UNCHANGED <<dir, clientVars>>

\* Mutation: the kind of the entry is not looked at.
StatAnyEntry(d) ==
  /\ daemon[d] = "stat"
  /\ Step(d, IF entry = "none" THEN "rebind" ELSE "remove")
  /\ UNCHANGED <<dir, entry, bindLock, status, clientVars>>

\* symlink_metadata: only a socket is removed.
StatStale(d) ==
  /\ daemon[d] = "stat"
  /\ IF entry = "file"
       THEN BindFailed(d)
       ELSE /\ Step(d, IF entry = "none" THEN "rebind" ELSE "remove")
            /\ UNCHANGED <<entry, bindLock, status>>
  /\ UNCHANGED <<dir, clientVars>>

\* remove_file removes whatever is at the path by then.
RemoveStale(d) ==
  /\ daemon[d] = "remove"
  /\ entry' = "none"
  /\ Step(d, "rebind")
  /\ UNCHANGED <<dir, bindLock, status, clientVars>>

\* The second bind, whose error is final.
Rebind(d) ==
  /\ daemon[d] = "rebind"
  /\ IF entry = "none" THEN Bound(d) ELSE BindFailed(d)
  /\ UNCHANGED <<dir, clientVars>>

\* run_supervisor_loop leaves its loop: told to stop, or its accept fails.
LeaveLoop(d) ==
  /\ daemon[d] = "accept"
  /\ \/ d \in MayShutdown /\ UNCHANGED status
     \/ d \in MayCrash /\ status' = [status EXCEPT ![d] = 1]
  /\ Step(d, "stop_all")
  /\ UNCHANGED <<dir, entry, bindLock, clientVars>>

\* stop_all_instances (module Supervisor).
StopAll(d) ==
  /\ daemon[d] = "stop_all"
  /\ Step(d, "remove_own")
  /\ UNCHANGED <<dir, entry, bindLock, status, clientVars>>

\* Mutation: the daemon leaves its socket behind.
KeepOwn(d) ==
  /\ daemon[d] = "remove_own"
  /\ Step(d, "close")
  /\ UNCHANGED <<dir, entry, bindLock, status, clientVars>>

\* The loop's remove_file, without the bind lock; NotFound is no error.
RemoveOwn(d) ==
  /\ daemon[d] = "remove_own"
  /\ entry' = "none"
  /\ Step(d, "close")
  /\ UNCHANGED <<dir, bindLock, status, clientVars>>

\* The loop returns, which drops the listener, and the process exits.
Close(d) ==
  /\ daemon[d] = "close"
  /\ Step(d, "exited")
  /\ UNCHANGED <<dir, entry, bindLock, status, clientVars>>

Running(d) == daemon[d] \notin {"off", "exited", "killed"}

Die(d) ==
  /\ End(d, "killed", 1)
  /\ bindLock' = IF bindLock = d THEN Nobody ELSE bindLock

Crash(d) ==
  /\ d \in MayCrash
  /\ Running(d)
  /\ Die(d)
  /\ UNCHANGED <<dir, entry, clientVars>>

-----------------------------------------------------------------------------
(***************************************************************************)
(* Clients.                                                                *)
(***************************************************************************)
At(c, l)   == client[c] = l
Goto(c, l) == client' = [client EXCEPT ![c] = l]

\* request_existing resolves the path; its error is not a missing endpoint.
ClientDirectory(c) ==
  /\ client[c] \in DirectoryPcs
  /\ \E next \in DirectoryPcs \cup {"request", "failed"} :
       /\ EnsurePrivateDirectory(client[c], next, "request", "failed")
       /\ Goto(c, next)
  /\ UNCHANGED <<entry, bindLock, daemonVars, cmd, peer, winner>>

\* request_existing's connect: on success the request is written and its
\* answer awaited, else the endpoint is missing (NotFound, Refused).
Connect(c, connected, missing) ==
  /\ IF Connectable
       THEN Goto(c, connected) /\ peer' = [peer EXCEPT ![c] = entry]
       ELSE Goto(c, missing) /\ UNCHANGED peer
  /\ UNCHANGED <<dir, entry, bindLock, daemonVars, cmd, winner>>

\* request_or_start: only `server start` goes on from a missing endpoint.
Request(c) ==
  /\ At(c, "request")
  /\ Connect(c, "await", IF cmd[c] = "start" THEN "spawn" ELSE "failed")

\* The request is made again once the daemon is healthy.
Repeat(c) ==
  /\ At(c, "repeat")
  /\ Connect(c, "await_repeat", "failed")

\* A daemon that has left its loop refuses a connection that it has accepted
\* and drops the others; a process that has ended closes them all.
Answered(c, answered, dropped) ==
  /\ \/ daemon[peer[c]] = "accept" /\ Goto(c, answered)
     \/ daemon[peer[c]] # "accept" /\ Goto(c, dropped)
  /\ peer' = [peer EXCEPT ![c] = Nobody]
  /\ UNCHANGED <<dir, entry, bindLock, daemonVars, cmd, winner>>

AwaitAnswer(c) ==
  /\ client[c] \in {"await", "await_repeat"}
  /\ Answered(c, "done", "failed")

\* start_daemon; the child's StartupChildGuard is held until Repeat.
Spawn(c) ==
  /\ At(c, "spawn")
  /\ Goto(c, "health")
  /\ Step(c, "inspect")
  /\ UNCHANGED <<dir, entry, bindLock, status, cmd, peer, winner>>

\* wait_for_health: one round is a health request and, when the endpoint is
\* missing, a look at the child and a sleep.
Health(c) ==
  /\ At(c, "health")
  /\ Connect(c, "await_health", "try_wait")

AwaitHealth(c) ==
  /\ At(c, "await_health")
  /\ Answered(c, "repeat", "cleanup")

\* Mutation: a child that has failed to bind ends the wait.
TryWaitStrict(c) ==
  /\ At(c, "try_wait")
  /\ Goto(c, IF Running(c) THEN "health" ELSE "cleanup")
  /\ UNCHANGED <<dir, entry, bindLock, daemonVars, cmd, peer, winner>>

\* A child that failed may have lost the path to another starter's; one that
\* succeeded has served and is gone.
TryWait(c) ==
  /\ At(c, "try_wait")
  /\ IF winner[c] \/ Running(c)
       THEN Goto(c, "health") /\ UNCHANGED winner
       ELSE /\ winner' = [winner EXCEPT ![c] = status[c] # 0]
            /\ Goto(c, IF status[c] # 0 THEN "health" ELSE "cleanup")
  /\ UNCHANGED <<dir, entry, bindLock, daemonVars, cmd, peer>>

\* DAEMON_START_TIMEOUT elapses.
Timeout(c) ==
  /\ c \in MayTimeout
  /\ client[c] \in {"health", "await_health", "try_wait"}
  /\ Goto(c, "abandon")
  /\ peer' = [peer EXCEPT ![c] = Nobody]
  /\ UNCHANGED <<dir, entry, bindLock, daemonVars, cmd, winner>>

\* StartupChildGuard.cleanup kills the child, whomever it serves by then.
Cleanup(c) ==
  /\ client[c] \in {"cleanup", "abandon"}
  /\ Goto(c, IF At(c, "cleanup") THEN "failed" ELSE "timed_out")
  /\ IF Running(c) THEN Die(c) ELSE UNCHANGED <<daemonVars, bindLock>>
  /\ UNCHANGED <<dir, entry, cmd, peer, winner>>

-----------------------------------------------------------------------------
DaemonStep(d) ==
  \/ DaemonDirectory(d) \/ Lock(d) \/ Bind(d) \/ ConnectStale(d) \/ StatStale(d) \/ RemoveStale(d)
  \/ Rebind(d) \/ StopAll(d) \/ RemoveOwn(d) \/ Close(d)

ClientStep(c) ==
  \/ ClientDirectory(c) \/ Request(c) \/ AwaitAnswer(c) \/ Spawn(c) \/ Health(c) \/ AwaitHealth(c)
  \/ TryWait(c) \/ Repeat(c) \/ Cleanup(c)

Next ==
  \/ \E d \in Daemons : DaemonStep(d) \/ LeaveLoop(d) \/ Crash(d)
  \/ \E c \in Clients : ClientStep(c) \/ Timeout(c)

Spec == Init /\ [][Next]_vars

\* Processes run; nobody has to stop a daemon, kill it or wait ten seconds.
\* The lock is held for a few system calls by each daemon once.
FairSpec ==
  /\ Spec
  /\ \A d \in Daemons : WF_vars(DaemonStep(d))
  /\ \A c \in Clients : WF_vars(ClientStep(c))

-----------------------------------------------------------------------------
(***************************************************************************)
(* Properties.                                                             *)
(***************************************************************************)

\* A daemon that serves, or stops its instances, owns the socket at the path:
\* whoever connects there reaches it, so there is never a second live daemon
\* (tests/Daemon.md:7) and no exit removes the socket of another.  Recovery
\* by remove_stale_socket (protocol.rs:200) and the unlocked remove_file of
\* an exiting daemon (control.rs:46) could both break it.
LiveDaemonOwnsThePath ==
  \A d \in Daemons : daemon[d] \in {"accept", "stop_all", "remove_own"} => entry = d

\* A file or a directory at the path is never removed (protocol.rs:220,
\* tests/Daemon.md:8), also when the path changes between the connect, the
\* stat and the removal of a recovery.
UnrelatedEntryIsKept == [][entry = "file" => entry' = "file"]_vars

\* A daemon that has exited cleanly leaves no socket behind
\* (tests/Daemon.md:11), although it removes whatever is at the path.
CleanExitLeavesNoSocket ==
  \A d \in Daemons : daemon[d] \in {"close", "exited"} => entry # d

\* What excuses a start that does not succeed: the path is not a socket's, a
\* daemon that served was told to stop or was killed, a client waited for ten
\* seconds and killed its child.
Disturbed ==
  \/ entry = "file"
  \/ \E d \in Daemons : daemon[d] \in {"stop_all", "killed"}
  \/ \E c \in Clients : client[c] = "timed_out"

Succeeds(c) == client[c] = "done"

\* A process reads the directory's mode before the one that made the directory
\* has set it.
MeetsOpenDirectory ==
  dir = "open" /\ (\/ \E d \in Daemons : daemon[d] = "mode"
                   \/ \E c \in Clients : client[c] = "mode")

\* Every `server start` gets its answer, whichever of the daemons started at
\* the same time wins the path, makes the directory or finds it made, and
\* whatever socket a dead one has left there (wait_for_health, client.rs:369),
\* unless one process meets the directory that another has made and not yet
\* secured.
StartsSucceed ==
  \A c \in Clients :
    cmd[c] = "start" => <>(Succeeds(c) \/ Disturbed \/ MeetsOpenDirectory)

\* The same of the first starts on a machine, where "a missing parent MUST be
\* created with that mode", 0700 (tests/Daemon.md:17), and is made and changed
\* in two steps (protocol.rs:111-135).
FirstStartsSucceed ==
  dir = "absent" => \A c \in Clients : cmd[c] = "start" => <>(Succeeds(c) \/ Disturbed)

=============================================================================
