-------------------------- MODULE DaemonSocketProofs --------------------------
(***************************************************************************)
(* Proofs about DaemonSocket, for every number of clients and daemons.     *)
(*                                                                         *)
(* LiveDaemonOwnsThePath is not inductive alone: that a recovery removes   *)
(* nobody's socket rests on the bind lock, which its removal holds, and on *)
(* what the recovery has seen, which only another holder could change.     *)
(* SocketInv adds both.                                                    *)
(***************************************************************************)
EXTENDS DaemonSocket, TLAPS

InRecovery == {"bind", "connect", "stat", "remove", "rebind"}

\* The lock belongs to the daemon between acquire_socket_bind_lock and the
\* return of bind_daemon_socket_at.
LockIsHeld == \A d \in Daemons : daemon[d] \in InRecovery <=> bindLock = d

\* Past its connect, a recovery knows that nobody listens at the path, and
\* past its stat that a socket is there.
RecoveryIsRight ==
  \A d \in Daemons :
    /\ daemon[d] \in {"stat", "remove", "rebind"} => ~Connectable
    /\ daemon[d] = "remove" => entry # "file"

\* A socket's owner has bound it, and has not removed it.
EntryIsOwn ==
  \A d \in Daemons :
    entry = d => daemon[d] \in {"accept", "stop_all", "remove_own", "killed"}

\* The child of a client that has not started it does not run.
ChildIsNew ==
  \A c \in Clients :
    client[c] \in DirectoryPcs \cup {"request", "spawn"} => daemon[c] = "off"

SocketInv ==
  /\ TypeOK
  /\ LockIsHeld
  /\ ChildIsNew
  /\ RecoveryIsRight
  /\ EntryIsOwn
  /\ LiveDaemonOwnsThePath

-----------------------------------------------------------------------------
\* Nothing is locked, bound or recovered before a daemon runs.
LEMMA InitSocketInv == Init => SocketInv
<1> SUFFICES ASSUME Init PROVE SocketInv
  OBVIOUS
<1>1. \A d \in Daemons : daemon[d] \in {"off", "inspect"} /\ entry # d
  BY NamesAssumption, EntriesAssumption DEF Init
<1>2. TypeOK
  BY <1>1, EntriesAssumption, DirectoriesAssumption
  DEF Init, TypeOK, DirectoryPcs, DaemonPcs, ClientPcs
<1>3. LockIsHeld
  BY <1>1, NobodyAssumption DEF Init, LockIsHeld, InRecovery
<1>4. ChildIsNew
  BY DisjointAssumption DEF Init, ChildIsNew, Daemons
<1>5. RecoveryIsRight /\ EntryIsOwn /\ LiveDaemonOwnsThePath
  BY <1>1 DEF RecoveryIsRight, EntryIsOwn, LiveDaemonOwnsThePath
<1>6. QED
  BY <1>2, <1>3, <1>4, <1>5 DEF SocketInv

\* No step leaves the types.
LEMMA TypeStep ==
  ASSUME SocketInv, [Next]_vars
  PROVE  TypeOK'
<1>0. Clients \subseteq Daemons
  BY DEF Daemons
<1> USE <1>0, NobodyAssumption, NamesAssumption
    DEF SocketInv, TypeOK, DirectoryPcs, DaemonPcs, ClientPcs, Connectable
<1>1. CASE UNCHANGED vars
  BY <1>1 DEF vars
<1>2. ASSUME NEW d \in Daemons, DaemonStep(d) \/ LeaveLoop(d) \/ Crash(d)
      PROVE  TypeOK'
  <2>0. CASE DaemonDirectory(d)
    BY <2>0 DEF DaemonDirectory, EnsurePrivateDirectory, End, Step, clientVars
  <2>1. CASE Lock(d)
    BY <2>1 DEF Lock, Step, clientVars
  <2>2. CASE Bind(d)
    BY <2>2 DEF Bind, Bound, Step, clientVars
  <2>3. CASE ConnectStale(d)
    BY <2>3 DEF ConnectStale, BindFailed, End, Step, clientVars
  <2>4. CASE StatStale(d)
    BY <2>4 DEF StatStale, BindFailed, End, Step, clientVars
  <2>5. CASE RemoveStale(d)
    BY <2>5 DEF RemoveStale, Step, clientVars
  <2>6. CASE Rebind(d)
    BY <2>6 DEF Rebind, Bound, BindFailed, End, Step, clientVars
  <2>7. CASE StopAll(d)
    BY <2>7 DEF StopAll, Step, clientVars
  <2>8. CASE RemoveOwn(d)
    BY <2>8 DEF RemoveOwn, Step, clientVars
  <2>9. CASE Close(d)
    BY <2>9 DEF Close, Step, clientVars
  <2>10. CASE LeaveLoop(d)
    BY <2>10 DEF LeaveLoop, Step, clientVars
  <2>11. CASE Crash(d)
    BY <2>11 DEF Crash, Die, End, Running, Step, clientVars
  <2>12. QED
    BY <1>2, <2>0, <2>1, <2>2, <2>3, <2>4, <2>5, <2>6, <2>7, <2>8, <2>9, <2>10,
       <2>11
    DEF DaemonStep
<1>3. ASSUME NEW c \in Clients, ClientStep(c) \/ Timeout(c)
      PROVE  TypeOK'
  <2>0. CASE ClientDirectory(c)
    BY <2>0 DEF ClientDirectory, EnsurePrivateDirectory, Goto, daemonVars
  <2>1. CASE Request(c)
    BY <2>1 DEF Request, Connect, Step, At, Goto, daemonVars
  <2>2. CASE AwaitAnswer(c)
    BY <2>2 DEF AwaitAnswer, Answered, Step, At, Goto, daemonVars
  <2>3. CASE Spawn(c)
    BY <2>3 DEF Spawn, Step, At, Goto, daemonVars
  <2>4. CASE Health(c)
    BY <2>4 DEF Health, Connect, Step, At, Goto, daemonVars
  <2>5. CASE AwaitHealth(c)
    BY <2>5 DEF AwaitHealth, Answered, Step, At, Goto, daemonVars
  <2>6. CASE TryWait(c)
    BY <2>6 DEF TryWait, Running, Step, At, Goto, daemonVars
  <2>7. CASE Repeat(c)
    BY <2>7 DEF Repeat, Connect, Step, At, Goto, daemonVars
  <2>8. CASE Cleanup(c)
    BY <2>8 DEF Cleanup, Die, End, Running, Step, At, Goto, daemonVars
  <2>9. CASE Timeout(c)
    BY <2>9 DEF Timeout, Step, At, Goto, daemonVars
  <2>10. QED
    BY <1>3, <2>0, <2>1, <2>2, <2>3, <2>4, <2>5, <2>6, <2>7, <2>8, <2>9
    DEF ClientStep
<1>4. QED
  BY <1>1, <1>2, <1>3 DEF Next

\* Every way out of the recovery gives the lock back, an end of the process too.
LEMMA LockStep ==
  ASSUME SocketInv, [Next]_vars
  PROVE  LockIsHeld'
<1>0. Clients \subseteq Daemons
  BY DEF Daemons
<1> USE <1>0, NobodyAssumption, NamesAssumption
    DEF SocketInv, TypeOK, DirectoryPcs, DaemonPcs, ClientPcs, LockIsHeld, InRecovery, ChildIsNew
<1>1. CASE UNCHANGED vars
  BY <1>1 DEF vars
<1>2. ASSUME NEW d \in Daemons, DaemonStep(d) \/ LeaveLoop(d) \/ Crash(d)
      PROVE  LockIsHeld'
  <2>0. CASE DaemonDirectory(d)
    BY <2>0 DEF DaemonDirectory, EnsurePrivateDirectory, End, Step, clientVars
  <2>1. CASE Lock(d)
    BY <2>1 DEF Lock, Step, clientVars
  <2>2. CASE Bind(d)
    BY <2>2 DEF Bind, Bound, Step, clientVars
  <2>3. CASE ConnectStale(d)
    BY <2>3 DEF ConnectStale, BindFailed, End, Step, clientVars
  <2>4. CASE StatStale(d)
    BY <2>4 DEF StatStale, BindFailed, End, Step, clientVars
  <2>5. CASE RemoveStale(d)
    BY <2>5 DEF RemoveStale, Step, clientVars
  <2>6. CASE Rebind(d)
    BY <2>6 DEF Rebind, Bound, BindFailed, End, Step, clientVars
  <2>7. CASE StopAll(d)
    BY <2>7 DEF StopAll, Step, clientVars
  <2>8. CASE RemoveOwn(d)
    BY <2>8 DEF RemoveOwn, Step, clientVars
  <2>9. CASE Close(d)
    BY <2>9 DEF Close, Step, clientVars
  <2>10. CASE LeaveLoop(d)
    BY <2>10 DEF LeaveLoop, Step, clientVars
  <2>11. CASE Crash(d)
    BY <2>11 DEF Crash, Die, End, Running, Step, clientVars
  <2>12. QED
    BY <1>2, <2>0, <2>1, <2>2, <2>3, <2>4, <2>5, <2>6, <2>7, <2>8, <2>9, <2>10,
       <2>11
    DEF DaemonStep
<1>3. ASSUME NEW c \in Clients, ClientStep(c) \/ Timeout(c)
      PROVE  LockIsHeld'
  <2>0. CASE ClientDirectory(c)
    BY <2>0 DEF ClientDirectory, EnsurePrivateDirectory, Goto, daemonVars
  <2>1. CASE Request(c)
    BY <2>1 DEF Request, Connect, Step, At, Goto, daemonVars
  <2>2. CASE AwaitAnswer(c)
    BY <2>2 DEF AwaitAnswer, Answered, Step, At, Goto, daemonVars
  <2>3. CASE Spawn(c)
    BY <2>3 DEF Spawn, Step, At, Goto, daemonVars
  <2>4. CASE Health(c)
    BY <2>4 DEF Health, Connect, Step, At, Goto, daemonVars
  <2>5. CASE AwaitHealth(c)
    BY <2>5 DEF AwaitHealth, Answered, Step, At, Goto, daemonVars
  <2>6. CASE TryWait(c)
    BY <2>6 DEF TryWait, Running, Step, At, Goto, daemonVars
  <2>7. CASE Repeat(c)
    BY <2>7 DEF Repeat, Connect, Step, At, Goto, daemonVars
  <2>8. CASE Cleanup(c)
    BY <2>8 DEF Cleanup, Die, End, Running, Step, At, Goto, daemonVars
  <2>9. CASE Timeout(c)
    BY <2>9 DEF Timeout, Step, At, Goto, daemonVars
  <2>10. QED
    BY <1>3, <2>0, <2>1, <2>2, <2>3, <2>4, <2>5, <2>6, <2>7, <2>8, <2>9
    DEF ClientStep
<1>4. QED
  BY <1>1, <1>2, <1>3 DEF Next

\* A child runs from its spawn on, and its client does not go back.
LEMMA ChildStep ==
  ASSUME SocketInv, [Next]_vars
  PROVE  ChildIsNew'
<1>0. Clients \subseteq Daemons
  BY DEF Daemons
<1> USE <1>0, NobodyAssumption, NamesAssumption
    DEF SocketInv, TypeOK, DirectoryPcs, DaemonPcs, ClientPcs, ChildIsNew
<1>1. CASE UNCHANGED vars
  BY <1>1 DEF vars
<1>2. ASSUME NEW d \in Daemons, DaemonStep(d) \/ LeaveLoop(d) \/ Crash(d)
      PROVE  ChildIsNew'
  <2>0. CASE DaemonDirectory(d)
    BY <2>0 DEF DaemonDirectory, EnsurePrivateDirectory, End, Step, clientVars
  <2>1. CASE Lock(d)
    BY <2>1 DEF Lock, Step, clientVars
  <2>2. CASE Bind(d)
    BY <2>2 DEF Bind, Bound, Step, clientVars
  <2>3. CASE ConnectStale(d)
    BY <2>3 DEF ConnectStale, BindFailed, End, Step, clientVars
  <2>4. CASE StatStale(d)
    BY <2>4 DEF StatStale, BindFailed, End, Step, clientVars
  <2>5. CASE RemoveStale(d)
    BY <2>5 DEF RemoveStale, Step, clientVars
  <2>6. CASE Rebind(d)
    BY <2>6 DEF Rebind, Bound, BindFailed, End, Step, clientVars
  <2>7. CASE StopAll(d)
    BY <2>7 DEF StopAll, Step, clientVars
  <2>8. CASE RemoveOwn(d)
    BY <2>8 DEF RemoveOwn, Step, clientVars
  <2>9. CASE Close(d)
    BY <2>9 DEF Close, Step, clientVars
  <2>10. CASE LeaveLoop(d)
    BY <2>10 DEF LeaveLoop, Step, clientVars
  <2>11. CASE Crash(d)
    BY <2>11 DEF Crash, Die, End, Running, Step, clientVars
  <2>12. QED
    BY <1>2, <2>0, <2>1, <2>2, <2>3, <2>4, <2>5, <2>6, <2>7, <2>8, <2>9, <2>10,
       <2>11
    DEF DaemonStep
<1>3. ASSUME NEW c \in Clients, ClientStep(c) \/ Timeout(c)
      PROVE  ChildIsNew'
  <2>0. CASE ClientDirectory(c)
    BY <2>0 DEF ClientDirectory, EnsurePrivateDirectory, Goto, daemonVars
  <2>1. CASE Request(c)
    BY <2>1 DEF Request, Connect, Step, At, Goto, daemonVars
  <2>2. CASE AwaitAnswer(c)
    BY <2>2 DEF AwaitAnswer, Answered, Step, At, Goto, daemonVars
  <2>3. CASE Spawn(c)
    BY <2>3 DEF Spawn, Step, At, Goto, daemonVars
  <2>4. CASE Health(c)
    BY <2>4 DEF Health, Connect, Step, At, Goto, daemonVars
  <2>5. CASE AwaitHealth(c)
    BY <2>5 DEF AwaitHealth, Answered, Step, At, Goto, daemonVars
  <2>6. CASE TryWait(c)
    BY <2>6 DEF TryWait, Running, Step, At, Goto, daemonVars
  <2>7. CASE Repeat(c)
    BY <2>7 DEF Repeat, Connect, Step, At, Goto, daemonVars
  <2>8. CASE Cleanup(c)
    BY <2>8 DEF Cleanup, Die, End, Running, Step, At, Goto, daemonVars
  <2>9. CASE Timeout(c)
    BY <2>9 DEF Timeout, Step, At, Goto, daemonVars
  <2>10. QED
    BY <1>3, <2>0, <2>1, <2>2, <2>3, <2>4, <2>5, <2>6, <2>7, <2>8, <2>9
    DEF ClientStep
<1>4. QED
  BY <1>1, <1>2, <1>3 DEF Next

\* Only the holder of the lock makes the path connectable.
LEMMA RecoveryStep ==
  ASSUME SocketInv, [Next]_vars
  PROVE  RecoveryIsRight'
<1>0. Clients \subseteq Daemons
  BY DEF Daemons
<1> USE <1>0, NobodyAssumption, NamesAssumption
    DEF SocketInv, TypeOK, DirectoryPcs, DaemonPcs, ClientPcs, LockIsHeld, InRecovery,
            ChildIsNew, RecoveryIsRight, EntryIsOwn, LiveDaemonOwnsThePath,
            Connectable, Listening
<1>1. CASE UNCHANGED vars
  BY <1>1 DEF vars
<1>2. ASSUME NEW d \in Daemons, DaemonStep(d) \/ LeaveLoop(d) \/ Crash(d)
      PROVE  RecoveryIsRight'
  <2>0. CASE DaemonDirectory(d)
    BY <2>0 DEF DaemonDirectory, EnsurePrivateDirectory, End, Step, clientVars
  <2>1. CASE Lock(d)
    BY <2>1 DEF Lock, Step, clientVars
  <2>2. CASE Bind(d)
    BY <2>2 DEF Bind, Bound, Step, clientVars
  <2>3. CASE ConnectStale(d)
    BY <2>3 DEF ConnectStale, BindFailed, End, Step, clientVars
  <2>4. CASE StatStale(d)
    BY <2>4 DEF StatStale, BindFailed, End, Step, clientVars
  <2>5. CASE RemoveStale(d)
    BY <2>5 DEF RemoveStale, Step, clientVars
  <2>6. CASE Rebind(d)
    BY <2>6 DEF Rebind, Bound, BindFailed, End, Step, clientVars
  <2>7. CASE StopAll(d)
    BY <2>7 DEF StopAll, Step, clientVars
  <2>8. CASE RemoveOwn(d)
    BY <2>8 DEF RemoveOwn, Step, clientVars
  <2>9. CASE Close(d)
    BY <2>9 DEF Close, Step, clientVars
  <2>10. CASE LeaveLoop(d)
    BY <2>10 DEF LeaveLoop, Step, clientVars
  <2>11. CASE Crash(d)
    BY <2>11 DEF Crash, Die, End, Running, Step, clientVars
  <2>12. QED
    BY <1>2, <2>0, <2>1, <2>2, <2>3, <2>4, <2>5, <2>6, <2>7, <2>8, <2>9, <2>10,
       <2>11
    DEF DaemonStep
<1>3. ASSUME NEW c \in Clients, ClientStep(c) \/ Timeout(c)
      PROVE  RecoveryIsRight'
  <2>0. CASE ClientDirectory(c)
    BY <2>0 DEF ClientDirectory, EnsurePrivateDirectory, Goto, daemonVars
  <2>1. CASE Request(c)
    BY <2>1 DEF Request, Connect, Step, At, Goto, daemonVars
  <2>2. CASE AwaitAnswer(c)
    BY <2>2 DEF AwaitAnswer, Answered, Step, At, Goto, daemonVars
  <2>3. CASE Spawn(c)
    BY <2>3 DEF Spawn, Step, At, Goto, daemonVars
  <2>4. CASE Health(c)
    BY <2>4 DEF Health, Connect, Step, At, Goto, daemonVars
  <2>5. CASE AwaitHealth(c)
    BY <2>5 DEF AwaitHealth, Answered, Step, At, Goto, daemonVars
  <2>6. CASE TryWait(c)
    BY <2>6 DEF TryWait, Running, Step, At, Goto, daemonVars
  <2>7. CASE Repeat(c)
    BY <2>7 DEF Repeat, Connect, Step, At, Goto, daemonVars
  <2>8. CASE Cleanup(c)
    BY <2>8 DEF Cleanup, Die, End, Running, Step, At, Goto, daemonVars
  <2>9. CASE Timeout(c)
    BY <2>9 DEF Timeout, Step, At, Goto, daemonVars
  <2>10. QED
    BY <1>3, <2>0, <2>1, <2>2, <2>3, <2>4, <2>5, <2>6, <2>7, <2>8, <2>9
    DEF ClientStep
<1>4. QED
  BY <1>1, <1>2, <1>3 DEF Next

\* An entry becomes a daemon's by its bind only.
LEMMA EntryStep ==
  ASSUME SocketInv, [Next]_vars
  PROVE  EntryIsOwn'
<1>0. Clients \subseteq Daemons
  BY DEF Daemons
<1> USE <1>0, NobodyAssumption, NamesAssumption
    DEF SocketInv, TypeOK, DirectoryPcs, DaemonPcs, ClientPcs, ChildIsNew, EntryIsOwn,
            LiveDaemonOwnsThePath, Connectable, Listening
<1>1. CASE UNCHANGED vars
  BY <1>1 DEF vars
<1>2. ASSUME NEW d \in Daemons, DaemonStep(d) \/ LeaveLoop(d) \/ Crash(d)
      PROVE  EntryIsOwn'
  <2>0. CASE DaemonDirectory(d)
    BY <2>0 DEF DaemonDirectory, EnsurePrivateDirectory, End, Step, clientVars
  <2>1. CASE Lock(d)
    BY <2>1 DEF Lock, Step, clientVars
  <2>2. CASE Bind(d)
    BY <2>2 DEF Bind, Bound, Step, clientVars
  <2>3. CASE ConnectStale(d)
    BY <2>3 DEF ConnectStale, BindFailed, End, Step, clientVars
  <2>4. CASE StatStale(d)
    BY <2>4 DEF StatStale, BindFailed, End, Step, clientVars
  <2>5. CASE RemoveStale(d)
    BY <2>5 DEF RemoveStale, Step, clientVars
  <2>6. CASE Rebind(d)
    BY <2>6 DEF Rebind, Bound, BindFailed, End, Step, clientVars
  <2>7. CASE StopAll(d)
    BY <2>7 DEF StopAll, Step, clientVars
  <2>8. CASE RemoveOwn(d)
    BY <2>8 DEF RemoveOwn, Step, clientVars
  <2>9. CASE Close(d)
    BY <2>9 DEF Close, Step, clientVars
  <2>10. CASE LeaveLoop(d)
    BY <2>10 DEF LeaveLoop, Step, clientVars
  <2>11. CASE Crash(d)
    BY <2>11 DEF Crash, Die, End, Running, Step, clientVars
  <2>12. QED
    BY <1>2, <2>0, <2>1, <2>2, <2>3, <2>4, <2>5, <2>6, <2>7, <2>8, <2>9, <2>10,
       <2>11
    DEF DaemonStep
<1>3. ASSUME NEW c \in Clients, ClientStep(c) \/ Timeout(c)
      PROVE  EntryIsOwn'
  <2>0. CASE ClientDirectory(c)
    BY <2>0 DEF ClientDirectory, EnsurePrivateDirectory, Goto, daemonVars
  <2>1. CASE Request(c)
    BY <2>1 DEF Request, Connect, Step, At, Goto, daemonVars
  <2>2. CASE AwaitAnswer(c)
    BY <2>2 DEF AwaitAnswer, Answered, Step, At, Goto, daemonVars
  <2>3. CASE Spawn(c)
    BY <2>3 DEF Spawn, Step, At, Goto, daemonVars
  <2>4. CASE Health(c)
    BY <2>4 DEF Health, Connect, Step, At, Goto, daemonVars
  <2>5. CASE AwaitHealth(c)
    BY <2>5 DEF AwaitHealth, Answered, Step, At, Goto, daemonVars
  <2>6. CASE TryWait(c)
    BY <2>6 DEF TryWait, Running, Step, At, Goto, daemonVars
  <2>7. CASE Repeat(c)
    BY <2>7 DEF Repeat, Connect, Step, At, Goto, daemonVars
  <2>8. CASE Cleanup(c)
    BY <2>8 DEF Cleanup, Die, End, Running, Step, At, Goto, daemonVars
  <2>9. CASE Timeout(c)
    BY <2>9 DEF Timeout, Step, At, Goto, daemonVars
  <2>10. QED
    BY <1>3, <2>0, <2>1, <2>2, <2>3, <2>4, <2>5, <2>6, <2>7, <2>8, <2>9
    DEF ClientStep
<1>4. QED
  BY <1>1, <1>2, <1>3 DEF Next

\* A removal, by a recovery or at an exit, meets no live daemon's socket.
LEMMA OwnerStep ==
  ASSUME SocketInv, [Next]_vars
  PROVE  LiveDaemonOwnsThePath'
<1>0. Clients \subseteq Daemons
  BY DEF Daemons
<1> USE <1>0, NobodyAssumption, NamesAssumption
    DEF SocketInv, TypeOK, DirectoryPcs, DaemonPcs, ClientPcs, LockIsHeld, InRecovery,
            ChildIsNew, RecoveryIsRight, EntryIsOwn, LiveDaemonOwnsThePath,
            Connectable, Listening
<1>1. CASE UNCHANGED vars
  BY <1>1 DEF vars
<1>2. ASSUME NEW d \in Daemons, DaemonStep(d) \/ LeaveLoop(d) \/ Crash(d)
      PROVE  LiveDaemonOwnsThePath'
  <2>0. CASE DaemonDirectory(d)
    BY <2>0 DEF DaemonDirectory, EnsurePrivateDirectory, End, Step, clientVars
  <2>1. CASE Lock(d)
    BY <2>1 DEF Lock, Step, clientVars
  <2>2. CASE Bind(d)
    BY <2>2 DEF Bind, Bound, Step, clientVars
  <2>3. CASE ConnectStale(d)
    BY <2>3 DEF ConnectStale, BindFailed, End, Step, clientVars
  <2>4. CASE StatStale(d)
    BY <2>4 DEF StatStale, BindFailed, End, Step, clientVars
  <2>5. CASE RemoveStale(d)
    BY <2>5 DEF RemoveStale, Step, clientVars
  <2>6. CASE Rebind(d)
    BY <2>6 DEF Rebind, Bound, BindFailed, End, Step, clientVars
  <2>7. CASE StopAll(d)
    BY <2>7 DEF StopAll, Step, clientVars
  <2>8. CASE RemoveOwn(d)
    BY <2>8 DEF RemoveOwn, Step, clientVars
  <2>9. CASE Close(d)
    BY <2>9 DEF Close, Step, clientVars
  <2>10. CASE LeaveLoop(d)
    BY <2>10 DEF LeaveLoop, Step, clientVars
  <2>11. CASE Crash(d)
    BY <2>11 DEF Crash, Die, End, Running, Step, clientVars
  <2>12. QED
    BY <1>2, <2>0, <2>1, <2>2, <2>3, <2>4, <2>5, <2>6, <2>7, <2>8, <2>9, <2>10,
       <2>11
    DEF DaemonStep
<1>3. ASSUME NEW c \in Clients, ClientStep(c) \/ Timeout(c)
      PROVE  LiveDaemonOwnsThePath'
  <2>0. CASE ClientDirectory(c)
    BY <2>0 DEF ClientDirectory, EnsurePrivateDirectory, Goto, daemonVars
  <2>1. CASE Request(c)
    BY <2>1 DEF Request, Connect, Step, At, Goto, daemonVars
  <2>2. CASE AwaitAnswer(c)
    BY <2>2 DEF AwaitAnswer, Answered, Step, At, Goto, daemonVars
  <2>3. CASE Spawn(c)
    BY <2>3 DEF Spawn, Step, At, Goto, daemonVars
  <2>4. CASE Health(c)
    BY <2>4 DEF Health, Connect, Step, At, Goto, daemonVars
  <2>5. CASE AwaitHealth(c)
    BY <2>5 DEF AwaitHealth, Answered, Step, At, Goto, daemonVars
  <2>6. CASE TryWait(c)
    BY <2>6 DEF TryWait, Running, Step, At, Goto, daemonVars
  <2>7. CASE Repeat(c)
    BY <2>7 DEF Repeat, Connect, Step, At, Goto, daemonVars
  <2>8. CASE Cleanup(c)
    BY <2>8 DEF Cleanup, Die, End, Running, Step, At, Goto, daemonVars
  <2>9. CASE Timeout(c)
    BY <2>9 DEF Timeout, Step, At, Goto, daemonVars
  <2>10. QED
    BY <1>3, <2>0, <2>1, <2>2, <2>3, <2>4, <2>5, <2>6, <2>7, <2>8, <2>9
    DEF ClientStep
<1>4. QED
  BY <1>1, <1>2, <1>3 DEF Next

-----------------------------------------------------------------------------
\* The inductive invariant, from its parts.
THEOREM SocketIsGuarded == Spec => []SocketInv
<1>1. SocketInv /\ [Next]_vars => SocketInv'
  BY TypeStep, LockStep, ChildStep, RecoveryStep, EntryStep, OwnerStep DEF SocketInv
<1>2. QED
  BY InitSocketInv, <1>1, PTL DEF Spec

\* Types of the path, the lock, the daemons and the clients.
THEOREM TypeCorrect == Spec => []TypeOK
<1>1. SocketInv => TypeOK
  BY DEF SocketInv
<1>2. QED
  BY <1>1, SocketIsGuarded, PTL

\* A live daemon owns the socket at the path (protocol.rs:157-232,
\* control.rs:46), whatever number of daemons start, stop and die.
THEOREM OneDaemonOwnsThePath == Spec => []LiveDaemonOwnsThePath
<1>1. SocketInv => LiveDaemonOwnsThePath
  BY DEF SocketInv
<1>2. QED
  BY <1>1, SocketIsGuarded, PTL

\* Nor is there a second: two live daemons would own one path.
THEOREM OneLiveDaemon ==
  Spec => [](\A d, e \in Daemons :
               daemon[d] = "accept" /\ daemon[e] = "accept" => d = e)
<1>1. SocketInv => \A d, e \in Daemons :
                     daemon[d] = "accept" /\ daemon[e] = "accept" => d = e
  BY DEF SocketInv, LiveDaemonOwnsThePath
<1>2. QED
  BY <1>1, SocketIsGuarded, PTL

\* A daemon that has exited left no socket of its own (control.rs:46-54).
THEOREM ExitsAreClean == Spec => []CleanExitLeavesNoSocket
<1>1. SocketInv => CleanExitLeavesNoSocket
  BY DEF SocketInv, EntryIsOwn, CleanExitLeavesNoSocket
<1>2. QED
  BY <1>1, SocketIsGuarded, PTL

\* What is not a socket stays (protocol.rs:220).
THEOREM UnrelatedEntriesStay == Spec => UnrelatedEntryIsKept
<1>1. SocketInv /\ [Next]_vars => (entry = "file" => entry' = "file")
  <2> SUFFICES ASSUME SocketInv, [Next]_vars, entry = "file"
               PROVE  entry' = "file"
    OBVIOUS
  <2>0. \A d \in Daemons : /\ d # "file"
                          /\ daemon[d] # "remove"
                          /\ daemon[d] # "remove_own"
    BY NamesAssumption DEF SocketInv, RecoveryIsRight, LiveDaemonOwnsThePath
  <2>1. CASE UNCHANGED vars
    BY <2>1 DEF vars
  <2>2. ASSUME NEW d \in Daemons, DaemonStep(d) \/ LeaveLoop(d) \/ Crash(d)
        PROVE  entry' = "file"
    BY <2>0, <2>2 DEF DaemonStep, DaemonDirectory, Lock, Bind, ConnectStale, StatStale,
       RemoveStale, Rebind, StopAll, RemoveOwn, Close, LeaveLoop, Crash, BindFailed
  <2>3. ASSUME NEW c \in Clients, ClientStep(c) \/ Timeout(c)
        PROVE  entry' = "file"
    BY <2>3 DEF ClientStep, ClientDirectory, Request, AwaitAnswer, Spawn, Health, AwaitHealth,
       TryWait, Repeat, Cleanup, Timeout, Connect, Answered
  <2>4. QED
    BY <2>1, <2>2, <2>3 DEF Next
<1>2. QED
  BY <1>1, SocketIsGuarded, PTL DEF Spec, UnrelatedEntryIsKept

-----------------------------------------------------------------------------
\* Whoever has found the directory private, or secured it, is right for good:
\* the calls of daemon_socket_path after a process's first change nothing and
\* do not fail (protocol.rs:100-148).
DirectoryInv ==
  /\ \A d \in Daemons :
       daemon[d] \in {"lock", "bind", "connect", "stat", "remove", "rebind",
                     "accept", "stop_all", "remove_own", "close"}
         => dir = "private"
  /\ \A c \in Clients :
       client[c] \notin DirectoryPcs \cup {"failed"} => dir = "private"

\* Every use of the socket's path is in a private directory.
THEOREM PathIsPrivate == Spec => []DirectoryInv
<1>0. Clients \subseteq Daemons
  BY DEF Daemons
<1>1. Init => DirectoryInv
  BY DEF Init, DirectoryInv, DirectoryPcs
<1>2. TypeOK /\ DirectoryInv /\ [Next]_vars => DirectoryInv'
  <2> SUFFICES ASSUME TypeOK, DirectoryInv, [Next]_vars PROVE DirectoryInv'
    OBVIOUS
  <2> USE <1>0 DEF TypeOK, DirectoryInv, DirectoryPcs
  <2>1. CASE UNCHANGED vars
    BY <2>1 DEF vars
  <2>2. ASSUME NEW d \in Daemons, DaemonDirectory(d)
        PROVE  DirectoryInv'
    BY <2>2 DEF DaemonDirectory, EnsurePrivateDirectory, End, Step, clientVars
  <2>3. ASSUME NEW c \in Clients, ClientDirectory(c)
        PROVE  DirectoryInv'
    BY <2>3 DEF ClientDirectory, EnsurePrivateDirectory, Goto, daemonVars
  <2>4. ASSUME NEW d \in Daemons,
               Lock(d) \/ Bind(d) \/ ConnectStale(d) \/ StatStale(d) \/ RemoveStale(d)
        PROVE  DirectoryInv'
    BY <2>4 DEF Lock, Bind, ConnectStale, StatStale, RemoveStale, Bound, BindFailed,
                End, Step, clientVars
  <2>5. ASSUME NEW d \in Daemons,
               \/ Rebind(d) \/ StopAll(d) \/ RemoveOwn(d) \/ Close(d)
               \/ LeaveLoop(d) \/ Crash(d)
        PROVE  DirectoryInv'
    BY <2>5 DEF Rebind, StopAll, RemoveOwn, Close, LeaveLoop, Crash, Die, Bound,
                BindFailed, End, Step, clientVars
  <2>6. ASSUME NEW c \in Clients, ClientStep(c) \/ Timeout(c), ~ClientDirectory(c)
        PROVE  DirectoryInv'
    BY <2>6 DEF ClientStep, Request, AwaitAnswer, Spawn, Health, AwaitHealth, TryWait,
                Repeat, Cleanup, Timeout, Connect, Answered, Die, End, Step, At, Goto,
                daemonVars
  <2>7. QED
    BY <2>1, <2>2, <2>3, <2>4, <2>5, <2>6 DEF Next, DaemonStep
<1>3. QED
  BY <1>1, <1>2, TypeCorrect, PTL DEF Spec

=============================================================================
