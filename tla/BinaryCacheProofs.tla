------------------------- MODULE BinaryCacheProofs -------------------------
(***************************************************************************)
(* Proofs about BinaryCache, for any number of processes.                  *)
(***************************************************************************)
EXTENDS BinaryCache, TLAPS

\* Every step preserves the types.
LEMMA TypeStep ==
  ASSUME TypeOK, [Next]_vars
  PROVE  TypeOK'
<1> USE NobodyAssumption
<1>1. CASE UNCHANGED vars
  BY <1>1 DEF vars, TypeOK, Pcs, Publication, Entry, WorkDirs
<1>2. ASSUME NEW p \in Procs, Work(p) \/ EndUse(p) \/ Fail(p) \/ Crash(p) \/ Cancel(p)
      PROVE  TypeOK'
  <2>1. CASE Scan(p)
    BY <2>1 DEF TypeOK, Pcs, Publication, Entry, WorkDirs, Scan, Step, Go,
      ReleaseAll, dirs, locks, BeginOp, Existing
  <2>2. CASE SweepLock(p)
    BY <2>2 DEF TypeOK, Pcs, Publication, Entry, WorkDirs, SweepLock, Step,
      Go, ReleaseAll, dirs, locks, BeginOp, PubLockIsFree
  <2>3. CASE SweepGiveUp(p)
    BY <2>3 DEF TypeOK, Pcs, Publication, Entry, WorkDirs, SweepGiveUp, Step,
      Go, ReleaseAll, dirs, locks, BeginOp
  <2>4. CASE SweepRestore(p)
    BY <2>4 DEF TypeOK, Pcs, Publication, Entry, WorkDirs, SweepRestore, Step,
      Go, ReleaseAll, dirs, locks, Restorable, FinalIsMissing
  <2>5. CASE SweepClean(p)
    BY <2>5 DEF TypeOK, Pcs, Publication, Entry, WorkDirs, SweepClean, Step,
      Go, ReleaseAll, dirs, locks
  <2>6. CASE SweepEnd(p)
    BY <2>6 DEF TypeOK, Pcs, Publication, Entry, WorkDirs, SweepEnd, Step, Go,
      ReleaseAll, dirs, locks, BeginOp
  <2>7. CASE Lock(p)
    BY <2>7 DEF TypeOK, Pcs, Publication, Entry, WorkDirs, Lock, Step, Go,
      ReleaseAll, dirs, locks, PubLockIsFree
  <2>8. CASE UseRead(p)
    BY <2>8 DEF TypeOK, Pcs, Publication, Entry, WorkDirs, UseRead, Step, Go,
      ReleaseAll, dirs, locks, ReadIsFree
  <2>9. CASE Hit(p)
    BY <2>9 DEF TypeOK, Pcs, Publication, Entry, WorkDirs, Hit, Step, Go,
      ReleaseAll, dirs, locks
  <2>10. CASE Miss(p)
    BY <2>10 DEF TypeOK, Pcs, Publication, Entry, WorkDirs, Miss, Step, Go,
      ReleaseAll, dirs, locks, DropLease
  <2>11. CASE Stage(p)
    BY <2>11 DEF TypeOK, Pcs, Publication, Entry, WorkDirs, Stage, Step, Go,
      ReleaseAll, dirs, locks
  <2>12. CASE Prepare(p)
    BY <2>12 DEF TypeOK, Pcs, Publication, Entry, WorkDirs, Prepare, Step, Go,
      ReleaseAll, dirs, locks
  <2>13. CASE UseWrite(p)
    BY <2>13 DEF TypeOK, Pcs, Publication, Entry, WorkDirs, UseWrite, Step,
      Go, ReleaseAll, dirs, locks, WriteIsFree
  <2>14. CASE Lease(p)
    BY <2>14 DEF TypeOK, Pcs, Publication, Entry, WorkDirs, Lease, Step, Go,
      ReleaseAll, dirs, locks, ReadIsFree
  <2>15. CASE NothingToPreserve(p)
    BY <2>15 DEF TypeOK, Pcs, Publication, Entry, WorkDirs, NothingToPreserve,
      Step, Go, ReleaseAll, dirs, locks
  <2>16. CASE Superseded(p)
    BY <2>16 DEF TypeOK, Pcs, Publication, Entry, WorkDirs, Superseded, Step,
      Go, ReleaseAll, dirs, locks
  <2>17. CASE Preserve(p)
    BY <2>17 DEF TypeOK, Pcs, Publication, Entry, WorkDirs, Preserve, Step,
      Go, ReleaseAll, dirs, locks
  <2>18. CASE Publish(p)
    BY <2>18 DEF TypeOK, Pcs, Publication, Entry, WorkDirs, Publish, Step, Go,
      ReleaseAll, dirs, locks
  <2>19. CASE Confirm(p)
    BY <2>19 DEF TypeOK, Pcs, Publication, Entry, WorkDirs, Confirm, Step, Go,
      ReleaseAll, dirs, locks
  <2>20. CASE DropBackup(p)
    BY <2>20 DEF TypeOK, Pcs, Publication, Entry, WorkDirs, DropBackup, Step,
      Go, ReleaseAll, dirs, locks
  <2>21. CASE Undo(p)
    BY <2>21 DEF TypeOK, Pcs, Publication, Entry, WorkDirs, Undo, Step, Go,
      ReleaseAll, dirs, locks
  <2>22. CASE Unpublish(p)
    BY <2>22 DEF TypeOK, Pcs, Publication, Entry, WorkDirs, Unpublish, Step,
      Go, ReleaseAll, dirs, locks
  <2>23. CASE Restore(p)
    BY <2>23 DEF TypeOK, Pcs, Publication, Entry, WorkDirs, Restore, Step, Go,
      ReleaseAll, dirs, locks
  <2>24. CASE Discard(p)
    BY <2>24 DEF TypeOK, Pcs, Publication, Entry, WorkDirs, Discard, Step, Go,
      ReleaseAll, dirs, locks
  <2>25. CASE Release(p)
    BY <2>25 DEF TypeOK, Pcs, Publication, Entry, WorkDirs, Release, Step, Go,
      ReleaseAll, dirs, locks
  <2>26. CASE ReleaseDetached(p)
    BY <2>26 DEF TypeOK, Pcs, Publication, Entry, WorkDirs, ReleaseDetached,
      Step, Go, ReleaseAll, dirs, locks
  <2>27. CASE List(p)
    BY <2>27 DEF TypeOK, Pcs, Publication, Entry, WorkDirs, List, Step, Go,
      ReleaseAll, dirs, locks
  <2>28. CASE RemoveLock(p)
    BY <2>28 DEF TypeOK, Pcs, Publication, Entry, WorkDirs, RemoveLock, Step,
      Go, ReleaseAll, dirs, locks, PubLockIsFree
  <2>29. CASE RemoveUse(p)
    BY <2>29 DEF TypeOK, Pcs, Publication, Entry, WorkDirs, RemoveUse, Step,
      Go, ReleaseAll, dirs, locks, WriteIsFree
  <2>30. CASE SkipBusy(p)
    BY <2>30 DEF TypeOK, Pcs, Publication, Entry, WorkDirs, SkipBusy, Step,
      Go, ReleaseAll, dirs, locks, MaySkip
  <2>31. CASE Remove(p)
    BY <2>31 DEF TypeOK, Pcs, Publication, Entry, WorkDirs, Remove, Step, Go,
      ReleaseAll, dirs, locks
  <2>32. CASE Drained(p)
    BY <2>32 DEF TypeOK, Pcs, Publication, Entry, WorkDirs, Drained, Step, Go,
      ReleaseAll, dirs, locks, DropLease
  <2>33. CASE Stopped(p)
    BY <2>33 DEF TypeOK, Pcs, Publication, Entry, WorkDirs, Stopped, Step, Go,
      ReleaseAll, dirs, locks
  <2>34. CASE EndUse(p)
    BY <2>34 DEF TypeOK, Pcs, Publication, Entry, WorkDirs, EndUse, Step, Go,
      ReleaseAll, dirs, locks
  <2>35. CASE Fail(p)
    BY <2>35 DEF TypeOK, Pcs, Publication, Entry, WorkDirs, Fail, Step, Go,
      ReleaseAll, dirs, locks
  <2>36. CASE Crash(p)
    BY <2>36 DEF TypeOK, Pcs, Publication, Entry, WorkDirs, Crash, Step, Go,
      ReleaseAll, dirs, locks, Removing
  <2>37. CASE CancelValidate(p)
    BY <2>37 DEF TypeOK, Pcs, Publication, Entry, WorkDirs, CancelValidate,
      Step, Go, ReleaseAll, dirs, locks
  <2>38. CASE CancelPrepare(p)
    BY <2>38 DEF TypeOK, Pcs, Publication, Entry, WorkDirs, CancelPrepare,
      Step, Go, ReleaseAll, dirs, locks
  <2>39. CASE CancelPublication(p)
    BY <2>39 DEF TypeOK, Pcs, Publication, Entry, WorkDirs, CancelPublication,
      Step, Go, ReleaseAll, dirs, locks
  <2> QED
    BY <1>2, <2>1, <2>2, <2>3, <2>4, <2>5, <2>6, <2>7, <2>8, <2>9, <2>10,
      <2>11, <2>12, <2>13, <2>14, <2>15, <2>16, <2>17, <2>18, <2>19, <2>20,
      <2>21, <2>22, <2>23, <2>24, <2>25, <2>26, <2>27, <2>28, <2>29, <2>30,
      <2>31, <2>32, <2>33, <2>34, <2>35, <2>36, <2>37, <2>38, <2>39 DEF Work,
      Sweep, Install, Promote, Uninstall, Drain, Cancel
<1> QED
  BY <1>1, <1>2 DEF Next

\* Where a process needs each lock.
NeedsPubLock == Publication \cup
  {"sweepRestore", "sweepClean", "useRead", "validate", "stage", "prepare",
   "useWrite", "lease", "removeUse", "remove"}

NeedsWriter == Publication \cup {"remove"}

NeedsReader == {"validate", "use", "draining"}

\* The process holds them there, and readers exclude the writer.
Held == \A p \in Procs :
  /\ pc[p] \in NeedsPubLock => pubLock = p
  /\ pc[p] \in NeedsWriter => writer = p
  /\ pc[p] \in NeedsReader => p \in readers

Excluded == writer # Nobody => readers = {}

\* A publication that was confirmed is valid, and stays so until the lease.
Confirmed == {"dropBackup", "release", "lease", "use"}

ConfirmedIsValid == \A p \in Procs : pc[p] \in Confirmed => final = "valid"

\* A step neither takes a lock that another holds nor drops one that is needed.
LEMMA HeldStep ==
  ASSUME TypeOK, Held, Excluded, [Next]_vars
  PROVE  Held' /\ Excluded'
<1> USE NobodyAssumption
<1>1. CASE UNCHANGED vars
  BY <1>1 DEF vars, TypeOK, Pcs, Publication, Held, Excluded, NeedsPubLock, NeedsWriter, NeedsReader
<1>2. ASSUME NEW p \in Procs, Work(p) \/ EndUse(p) \/ Fail(p) \/ Crash(p) \/ Cancel(p)
      PROVE  Held' /\ Excluded'
  <2>1. CASE Scan(p)
    BY <2>1 DEF TypeOK, Pcs, Publication, Held, Excluded, NeedsPubLock,
      NeedsWriter, NeedsReader, Scan, Step, Go, ReleaseAll, dirs, locks,
      BeginOp
  <2>2. CASE SweepLock(p)
    BY <2>2 DEF TypeOK, Pcs, Publication, Held, Excluded, NeedsPubLock,
      NeedsWriter, NeedsReader, SweepLock, Step, Go, ReleaseAll, dirs, locks,
      BeginOp, PubLockIsFree
  <2>3. CASE SweepGiveUp(p)
    BY <2>3 DEF TypeOK, Pcs, Publication, Held, Excluded, NeedsPubLock,
      NeedsWriter, NeedsReader, SweepGiveUp, Step, Go, ReleaseAll, dirs,
      locks, BeginOp
  <2>4. CASE SweepRestore(p)
    BY <2>4 DEF TypeOK, Pcs, Publication, Held, Excluded, NeedsPubLock,
      NeedsWriter, NeedsReader, SweepRestore, Step, Go, ReleaseAll, dirs,
      locks, Restorable, FinalIsMissing
  <2>5. CASE SweepClean(p)
    BY <2>5 DEF TypeOK, Pcs, Publication, Held, Excluded, NeedsPubLock,
      NeedsWriter, NeedsReader, SweepClean, Step, Go, ReleaseAll, dirs, locks
  <2>6. CASE SweepEnd(p)
    BY <2>6 DEF TypeOK, Pcs, Publication, Held, Excluded, NeedsPubLock,
      NeedsWriter, NeedsReader, SweepEnd, Step, Go, ReleaseAll, dirs, locks,
      BeginOp
  <2>7. CASE Lock(p)
    BY <2>7 DEF TypeOK, Pcs, Publication, Held, Excluded, NeedsPubLock,
      NeedsWriter, NeedsReader, Lock, Step, Go, ReleaseAll, dirs, locks,
      PubLockIsFree
  <2>8. CASE UseRead(p)
    BY <2>8 DEF TypeOK, Pcs, Publication, Held, Excluded, NeedsPubLock,
      NeedsWriter, NeedsReader, UseRead, Step, Go, ReleaseAll, dirs, locks,
      ReadIsFree
  <2>9. CASE Hit(p)
    BY <2>9 DEF TypeOK, Pcs, Publication, Held, Excluded, NeedsPubLock,
      NeedsWriter, NeedsReader, Hit, Step, Go, ReleaseAll, dirs, locks
  <2>10. CASE Miss(p)
    BY <2>10 DEF TypeOK, Pcs, Publication, Held, Excluded, NeedsPubLock,
      NeedsWriter, NeedsReader, Miss, Step, Go, ReleaseAll, dirs, locks,
      DropLease
  <2>11. CASE Stage(p)
    BY <2>11 DEF TypeOK, Pcs, Publication, Held, Excluded, NeedsPubLock,
      NeedsWriter, NeedsReader, Stage, Step, Go, ReleaseAll, dirs, locks
  <2>12. CASE Prepare(p)
    BY <2>12 DEF TypeOK, Pcs, Publication, Held, Excluded, NeedsPubLock,
      NeedsWriter, NeedsReader, Prepare, Step, Go, ReleaseAll, dirs, locks
  <2>13. CASE UseWrite(p)
    BY <2>13 DEF TypeOK, Pcs, Publication, Held, Excluded, NeedsPubLock,
      NeedsWriter, NeedsReader, UseWrite, Step, Go, ReleaseAll, dirs, locks,
      WriteIsFree
  <2>14. CASE Lease(p)
    BY <2>14 DEF TypeOK, Pcs, Publication, Held, Excluded, NeedsPubLock,
      NeedsWriter, NeedsReader, Lease, Step, Go, ReleaseAll, dirs, locks,
      ReadIsFree
  <2>15. CASE NothingToPreserve(p)
    BY <2>15 DEF TypeOK, Pcs, Publication, Held, Excluded, NeedsPubLock,
      NeedsWriter, NeedsReader, NothingToPreserve, Step, Go, ReleaseAll, dirs,
      locks
  <2>16. CASE Superseded(p)
    BY <2>16 DEF TypeOK, Pcs, Publication, Held, Excluded, NeedsPubLock,
      NeedsWriter, NeedsReader, Superseded, Step, Go, ReleaseAll, dirs, locks
  <2>17. CASE Preserve(p)
    BY <2>17 DEF TypeOK, Pcs, Publication, Held, Excluded, NeedsPubLock,
      NeedsWriter, NeedsReader, Preserve, Step, Go, ReleaseAll, dirs, locks
  <2>18. CASE Publish(p)
    BY <2>18 DEF TypeOK, Pcs, Publication, Held, Excluded, NeedsPubLock,
      NeedsWriter, NeedsReader, Publish, Step, Go, ReleaseAll, dirs, locks
  <2>19. CASE Confirm(p)
    BY <2>19 DEF TypeOK, Pcs, Publication, Held, Excluded, NeedsPubLock,
      NeedsWriter, NeedsReader, Confirm, Step, Go, ReleaseAll, dirs, locks
  <2>20. CASE DropBackup(p)
    BY <2>20 DEF TypeOK, Pcs, Publication, Held, Excluded, NeedsPubLock,
      NeedsWriter, NeedsReader, DropBackup, Step, Go, ReleaseAll, dirs, locks
  <2>21. CASE Undo(p)
    BY <2>21 DEF TypeOK, Pcs, Publication, Held, Excluded, NeedsPubLock,
      NeedsWriter, NeedsReader, Undo, Step, Go, ReleaseAll, dirs, locks
  <2>22. CASE Unpublish(p)
    BY <2>22 DEF TypeOK, Pcs, Publication, Held, Excluded, NeedsPubLock,
      NeedsWriter, NeedsReader, Unpublish, Step, Go, ReleaseAll, dirs, locks
  <2>23. CASE Restore(p)
    BY <2>23 DEF TypeOK, Pcs, Publication, Held, Excluded, NeedsPubLock,
      NeedsWriter, NeedsReader, Restore, Step, Go, ReleaseAll, dirs, locks
  <2>24. CASE Discard(p)
    BY <2>24 DEF TypeOK, Pcs, Publication, Held, Excluded, NeedsPubLock,
      NeedsWriter, NeedsReader, Discard, Step, Go, ReleaseAll, dirs, locks
  <2>25. CASE Release(p)
    BY <2>25 DEF TypeOK, Pcs, Publication, Held, Excluded, NeedsPubLock,
      NeedsWriter, NeedsReader, Release, Step, Go, ReleaseAll, dirs, locks
  <2>26. CASE ReleaseDetached(p)
    BY <2>26 DEF TypeOK, Pcs, Publication, Held, Excluded, NeedsPubLock,
      NeedsWriter, NeedsReader, ReleaseDetached, Step, Go, ReleaseAll, dirs,
      locks
  <2>27. CASE List(p)
    BY <2>27 DEF TypeOK, Pcs, Publication, Held, Excluded, NeedsPubLock,
      NeedsWriter, NeedsReader, List, Step, Go, ReleaseAll, dirs, locks
  <2>28. CASE RemoveLock(p)
    BY <2>28 DEF TypeOK, Pcs, Publication, Held, Excluded, NeedsPubLock,
      NeedsWriter, NeedsReader, RemoveLock, Step, Go, ReleaseAll, dirs, locks,
      PubLockIsFree
  <2>29. CASE RemoveUse(p)
    BY <2>29 DEF TypeOK, Pcs, Publication, Held, Excluded, NeedsPubLock,
      NeedsWriter, NeedsReader, RemoveUse, Step, Go, ReleaseAll, dirs, locks,
      WriteIsFree
  <2>30. CASE SkipBusy(p)
    BY <2>30 DEF TypeOK, Pcs, Publication, Held, Excluded, NeedsPubLock,
      NeedsWriter, NeedsReader, SkipBusy, Step, Go, ReleaseAll, dirs, locks,
      MaySkip
  <2>31. CASE Remove(p)
    BY <2>31 DEF TypeOK, Pcs, Publication, Held, Excluded, NeedsPubLock,
      NeedsWriter, NeedsReader, Remove, Step, Go, ReleaseAll, dirs, locks
  <2>32. CASE Drained(p)
    BY <2>32 DEF TypeOK, Pcs, Publication, Held, Excluded, NeedsPubLock,
      NeedsWriter, NeedsReader, Drained, Step, Go, ReleaseAll, dirs, locks,
      DropLease
  <2>33. CASE Stopped(p)
    BY <2>33 DEF TypeOK, Pcs, Publication, Held, Excluded, NeedsPubLock,
      NeedsWriter, NeedsReader, Stopped, Step, Go, ReleaseAll, dirs, locks
  <2>34. CASE EndUse(p)
    BY <2>34 DEF TypeOK, Pcs, Publication, Held, Excluded, NeedsPubLock,
      NeedsWriter, NeedsReader, EndUse, Step, Go, ReleaseAll, dirs, locks
  <2>35. CASE Fail(p)
    BY <2>35 DEF TypeOK, Pcs, Publication, Held, Excluded, NeedsPubLock,
      NeedsWriter, NeedsReader, Fail, Step, Go, ReleaseAll, dirs, locks
  <2>36. CASE Crash(p)
    BY <2>36 DEF TypeOK, Pcs, Publication, Held, Excluded, NeedsPubLock,
      NeedsWriter, NeedsReader, Crash, Step, Go, ReleaseAll, dirs, locks,
      Removing
  <2>37. CASE CancelValidate(p)
    BY <2>37 DEF TypeOK, Pcs, Publication, Held, Excluded, NeedsPubLock,
      NeedsWriter, NeedsReader, CancelValidate, Step, Go, ReleaseAll, dirs,
      locks
  <2>38. CASE CancelPrepare(p)
    BY <2>38 DEF TypeOK, Pcs, Publication, Held, Excluded, NeedsPubLock,
      NeedsWriter, NeedsReader, CancelPrepare, Step, Go, ReleaseAll, dirs,
      locks
  <2>39. CASE CancelPublication(p)
    BY <2>39 DEF TypeOK, Pcs, Publication, Held, Excluded, NeedsPubLock,
      NeedsWriter, NeedsReader, CancelPublication, Step, Go, ReleaseAll, dirs,
      locks
  <2> QED
    BY <1>2, <2>1, <2>2, <2>3, <2>4, <2>5, <2>6, <2>7, <2>8, <2>9, <2>10,
      <2>11, <2>12, <2>13, <2>14, <2>15, <2>16, <2>17, <2>18, <2>19, <2>20,
      <2>21, <2>22, <2>23, <2>24, <2>25, <2>26, <2>27, <2>28, <2>29, <2>30,
      <2>31, <2>32, <2>33, <2>34, <2>35, <2>36, <2>37, <2>38, <2>39 DEF Work,
      Sweep, Install, Promote, Uninstall, Drain, Cancel
<1> QED
  BY <1>1, <1>2 DEF Next

\* Only a process with both locks changes an entry that is there.
LEMMA ValidStep ==
  ASSUME TypeOK, Held, Excluded, ConfirmedIsValid, [Next]_vars
  PROVE  ConfirmedIsValid'
<1> USE NobodyAssumption
<1>1. CASE UNCHANGED vars
  BY <1>1 DEF vars, TypeOK, Pcs, Publication, Held, Excluded, NeedsPubLock,
    NeedsWriter, NeedsReader, ConfirmedIsValid, Confirmed
<1>2. ASSUME NEW p \in Procs, Work(p) \/ EndUse(p) \/ Fail(p) \/ Crash(p) \/ Cancel(p)
      PROVE  ConfirmedIsValid'
  <2>1. CASE Scan(p) \/ SweepLock(p) \/ SweepGiveUp(p) \/ SweepEnd(p)
    BY <2>1 DEF Scan, SweepLock, SweepGiveUp, SweepEnd, BeginOp,
      PubLockIsFree, Step, Go, ReleaseAll, dirs, locks, TypeOK, Pcs,
      Publication, Held, Excluded, NeedsPubLock, NeedsWriter, NeedsReader,
      ConfirmedIsValid, Confirmed
  <2>2. CASE SweepRestore(p)
    BY <2>2 DEF SweepRestore, Restorable, FinalIsMissing, Step, Go,
      ReleaseAll, dirs, locks, TypeOK, Pcs, Publication, Held, Excluded,
      NeedsPubLock, NeedsWriter, NeedsReader, ConfirmedIsValid, Confirmed
  <2>3. CASE SweepClean(p)
    BY <2>3 DEF SweepClean, Step, Go, ReleaseAll, dirs, locks, TypeOK, Pcs,
      Publication, Held, Excluded, NeedsPubLock, NeedsWriter, NeedsReader,
      ConfirmedIsValid, Confirmed
  <2>4. CASE Install(p)
    BY <2>4 DEF Install, Lock, UseRead, Hit, Miss, Stage, Prepare, UseWrite,
      Lease, PubLockIsFree, ReadIsFree, DropLease, WriteIsFree, Step, Go,
      ReleaseAll, dirs, locks, TypeOK, Pcs, Publication, Held, Excluded,
      NeedsPubLock, NeedsWriter, NeedsReader, ConfirmedIsValid, Confirmed
  <2>5. CASE Promote(p)
    BY <2>5 DEF Promote, NothingToPreserve, Superseded, Preserve, Publish,
      Confirm, DropBackup, Undo, Unpublish, Restore, Discard, Release,
      ReleaseDetached, Step, Go, ReleaseAll, dirs, locks, TypeOK, Pcs,
      Publication, Held, Excluded, NeedsPubLock, NeedsWriter, NeedsReader,
      ConfirmedIsValid, Confirmed
  <2>6. CASE Uninstall(p)
    BY <2>6 DEF Uninstall, List, RemoveLock, RemoveUse, SkipBusy, Remove,
      PubLockIsFree, WriteIsFree, MaySkip, Step, Go, ReleaseAll, dirs, locks,
      TypeOK, Pcs, Publication, Held, Excluded, NeedsPubLock, NeedsWriter,
      NeedsReader, ConfirmedIsValid, Confirmed
  <2>7. CASE Drain(p) \/ EndUse(p) \/ Fail(p)
    BY <2>7 DEF Drain, Drained, Stopped, EndUse, Fail, DropLease, Step, Go,
      ReleaseAll, dirs, locks, TypeOK, Pcs, Publication, Held, Excluded,
      NeedsPubLock, NeedsWriter, NeedsReader, ConfirmedIsValid, Confirmed
  <2>8. CASE Crash(p)
    BY <2>8 DEF Crash, Removing, Step, Go, ReleaseAll, dirs, locks, TypeOK,
      Pcs, Publication, Held, Excluded, NeedsPubLock, NeedsWriter,
      NeedsReader, ConfirmedIsValid, Confirmed
  <2>9. CASE Cancel(p)
    BY <2>9 DEF Cancel, CancelValidate, CancelPrepare, CancelPublication,
      Step, Go, ReleaseAll, dirs, locks, TypeOK, Pcs, Publication, Held,
      Excluded, NeedsPubLock, NeedsWriter, NeedsReader, ConfirmedIsValid,
      Confirmed
  <2> QED
    BY <1>2, <2>1, <2>2, <2>3, <2>4, <2>5, <2>6, <2>7, <2>8, <2>9
      DEF Work, Sweep
<1> QED
  BY <1>1, <1>2 DEF Next

\* The sweep holds the publication lock, as every install that builds does.
LEMMA ActiveWorkStep ==
  ASSUME TypeOK, Held, [Next]_vars
  PROVE  \A q \in Procs : Building(q) /\ staging'[q] # staging[q] => pc'[q] # pc[q]
<1> USE NobodyAssumption
<1>1. CASE UNCHANGED vars
  BY <1>1 DEF vars, TypeOK, Pcs, Publication, Held, NeedsPubLock, Building,
    WorkDirs
<1>2. ASSUME NEW p \in Procs, Work(p) \/ EndUse(p) \/ Fail(p) \/ Crash(p) \/ Cancel(p)
      PROVE  \A q \in Procs : Building(q) /\ staging'[q] # staging[q] => pc'[q] # pc[q]
  <2>1. CASE Scan(p) \/ SweepLock(p) \/ SweepGiveUp(p) \/ SweepEnd(p)
    BY <2>1 DEF Scan, SweepLock, SweepGiveUp, SweepEnd, BeginOp,
      PubLockIsFree, Step, Go, ReleaseAll, dirs, locks, TypeOK, Pcs,
      Publication, Held, NeedsPubLock, Building, WorkDirs
  <2>2. CASE SweepRestore(p)
    BY <2>2 DEF SweepRestore, Restorable, FinalIsMissing, Step, Go,
      ReleaseAll, dirs, locks, TypeOK, Pcs, Publication, Held, NeedsPubLock,
      Building, WorkDirs
  <2>3. CASE SweepClean(p)
    BY <2>3 DEF SweepClean, Step, Go, ReleaseAll, dirs, locks, TypeOK, Pcs,
      Publication, Held, NeedsPubLock, Building, WorkDirs
  <2>4. CASE Install(p)
    BY <2>4 DEF Install, Lock, UseRead, Hit, Miss, Stage, Prepare, UseWrite,
      Lease, PubLockIsFree, ReadIsFree, DropLease, WriteIsFree, Step, Go,
      ReleaseAll, dirs, locks, TypeOK, Pcs, Publication, Held, NeedsPubLock,
      Building, WorkDirs
  <2>5. CASE Promote(p)
    BY <2>5 DEF Promote, NothingToPreserve, Superseded, Preserve, Publish,
      Confirm, DropBackup, Undo, Unpublish, Restore, Discard, Release,
      ReleaseDetached, Step, Go, ReleaseAll, dirs, locks, TypeOK, Pcs,
      Publication, Held, NeedsPubLock, Building, WorkDirs
  <2>6. CASE Uninstall(p)
    BY <2>6 DEF Uninstall, List, RemoveLock, RemoveUse, SkipBusy, Remove,
      PubLockIsFree, WriteIsFree, MaySkip, Step, Go, ReleaseAll, dirs, locks,
      TypeOK, Pcs, Publication, Held, NeedsPubLock, Building, WorkDirs
  <2>7. CASE Drain(p) \/ EndUse(p) \/ Fail(p)
    BY <2>7 DEF Drain, Drained, Stopped, EndUse, Fail, DropLease, Step, Go,
      ReleaseAll, dirs, locks, TypeOK, Pcs, Publication, Held, NeedsPubLock,
      Building, WorkDirs
  <2>8. CASE Crash(p)
    BY <2>8 DEF Crash, Removing, Step, Go, ReleaseAll, dirs, locks, TypeOK,
      Pcs, Publication, Held, NeedsPubLock, Building, WorkDirs
  <2>9. CASE Cancel(p)
    BY <2>9 DEF Cancel, CancelValidate, CancelPrepare, CancelPublication,
      Step, Go, ReleaseAll, dirs, locks, TypeOK, Pcs, Publication, Held,
      NeedsPubLock, Building, WorkDirs
  <2> QED
    BY <1>2, <2>1, <2>2, <2>3, <2>4, <2>5, <2>6, <2>7, <2>8, <2>9
      DEF Work, Sweep
<1> QED
  BY <1>1, <1>2 DEF Next

\* The entry changes in a publication, a removal or a restoration.
LEMMA EntryStep ==
  ASSUME TypeOK, Held, Excluded, [Next]_vars
  PROVE  final' # final =>
           pubLock # Nobody /\ (final # "absent" => writer = pubLock /\ readers = {})
<1> USE NobodyAssumption
<1>1. CASE UNCHANGED vars
  BY <1>1 DEF vars, TypeOK, Pcs, Publication, Held, Excluded, NeedsPubLock,
    NeedsWriter, NeedsReader
<1>2. ASSUME NEW p \in Procs, Work(p) \/ EndUse(p) \/ Fail(p) \/ Crash(p) \/ Cancel(p)
      PROVE  final' # final =>
           pubLock # Nobody /\ (final # "absent" => writer = pubLock /\ readers = {})
  <2>1. CASE Scan(p) \/ SweepLock(p) \/ SweepGiveUp(p) \/ SweepEnd(p)
    BY <2>1 DEF Scan, SweepLock, SweepGiveUp, SweepEnd, BeginOp,
      PubLockIsFree, Step, Go, ReleaseAll, dirs, locks, TypeOK, Pcs,
      Publication, Held, Excluded, NeedsPubLock, NeedsWriter, NeedsReader
  <2>2. CASE SweepRestore(p)
    BY <2>2 DEF SweepRestore, Restorable, FinalIsMissing, Step, Go,
      ReleaseAll, dirs, locks, TypeOK, Pcs, Publication, Held, Excluded,
      NeedsPubLock, NeedsWriter, NeedsReader
  <2>3. CASE SweepClean(p)
    BY <2>3 DEF SweepClean, Step, Go, ReleaseAll, dirs, locks, TypeOK, Pcs,
      Publication, Held, Excluded, NeedsPubLock, NeedsWriter, NeedsReader
  <2>4. CASE Install(p)
    BY <2>4 DEF Install, Lock, UseRead, Hit, Miss, Stage, Prepare, UseWrite,
      Lease, PubLockIsFree, ReadIsFree, DropLease, WriteIsFree, Step, Go,
      ReleaseAll, dirs, locks, TypeOK, Pcs, Publication, Held, Excluded,
      NeedsPubLock, NeedsWriter, NeedsReader
  <2>5. CASE Promote(p)
    BY <2>5 DEF Promote, NothingToPreserve, Superseded, Preserve, Publish,
      Confirm, DropBackup, Undo, Unpublish, Restore, Discard, Release,
      ReleaseDetached, Step, Go, ReleaseAll, dirs, locks, TypeOK, Pcs,
      Publication, Held, Excluded, NeedsPubLock, NeedsWriter, NeedsReader
  <2>6. CASE Uninstall(p)
    BY <2>6 DEF Uninstall, List, RemoveLock, RemoveUse, SkipBusy, Remove,
      PubLockIsFree, WriteIsFree, MaySkip, Step, Go, ReleaseAll, dirs, locks,
      TypeOK, Pcs, Publication, Held, Excluded, NeedsPubLock, NeedsWriter,
      NeedsReader
  <2>7. CASE Drain(p) \/ EndUse(p) \/ Fail(p)
    BY <2>7 DEF Drain, Drained, Stopped, EndUse, Fail, DropLease, Step, Go,
      ReleaseAll, dirs, locks, TypeOK, Pcs, Publication, Held, Excluded,
      NeedsPubLock, NeedsWriter, NeedsReader
  <2>8. CASE Crash(p)
    BY <2>8 DEF Crash, Removing, Step, Go, ReleaseAll, dirs, locks, TypeOK,
      Pcs, Publication, Held, Excluded, NeedsPubLock, NeedsWriter, NeedsReader
  <2>9. CASE Cancel(p)
    BY <2>9 DEF Cancel, CancelValidate, CancelPrepare, CancelPublication,
      Step, Go, ReleaseAll, dirs, locks, TypeOK, Pcs, Publication, Held,
      Excluded, NeedsPubLock, NeedsWriter, NeedsReader
  <2> QED
    BY <1>2, <2>1, <2>2, <2>3, <2>4, <2>5, <2>6, <2>7, <2>8, <2>9
      DEF Work, Sweep
<1> QED
  BY <1>1, <1>2 DEF Next

\* A sweep that deletes found an entry, or put one there, or has no copy to lose.
NothingToLose == \A p \in Procs : pc[p] = "sweepClean" =>
  \/ final # "absent"
  \/ \A q \in Procs : <<"backup", q>> \in seen[p] => backup[q] = "absent"

\* It stays so: nobody else changes the entry or a backup under its lock.
LEMMA NothingToLoseStep ==
  ASSUME TypeOK, Held, NothingToLose, RestoreFails = FALSE, [Next]_vars
  PROVE  NothingToLose'
<1> USE NobodyAssumption
<1>1. CASE UNCHANGED vars
  BY <1>1 DEF vars, TypeOK, Pcs, Publication, Entry, WorkDirs, Held,
    NeedsPubLock, NothingToLose
<1>2. ASSUME NEW p \in Procs, Work(p) \/ EndUse(p) \/ Fail(p) \/ Crash(p) \/ Cancel(p)
      PROVE  NothingToLose'
  <2>1. CASE Scan(p) \/ SweepLock(p) \/ SweepGiveUp(p) \/ SweepEnd(p)
    BY <2>1 DEF Scan, SweepLock, SweepGiveUp, SweepEnd, BeginOp,
      PubLockIsFree, Step, Go, ReleaseAll, dirs, locks, TypeOK, Pcs,
      Publication, Entry, WorkDirs, Held, NeedsPubLock, NothingToLose
  <2>2. CASE SweepRestore(p)
    BY <2>2 DEF SweepRestore, Restorable, FinalIsMissing, Step, Go,
      ReleaseAll, dirs, locks, TypeOK, Pcs, Publication, Entry, WorkDirs,
      Held, NeedsPubLock, NothingToLose
  <2>3. CASE SweepClean(p)
    BY <2>3 DEF SweepClean, Step, Go, ReleaseAll, dirs, locks, TypeOK, Pcs,
      Publication, Entry, WorkDirs, Held, NeedsPubLock, NothingToLose
  <2>4. CASE Install(p)
    BY <2>4 DEF Install, Lock, UseRead, Hit, Miss, Stage, Prepare, UseWrite,
      Lease, PubLockIsFree, ReadIsFree, DropLease, WriteIsFree, Step, Go,
      ReleaseAll, dirs, locks, TypeOK, Pcs, Publication, Entry, WorkDirs,
      Held, NeedsPubLock, NothingToLose
  <2>5. CASE Promote(p)
    BY <2>5 DEF Promote, NothingToPreserve, Superseded, Preserve, Publish,
      Confirm, DropBackup, Undo, Unpublish, Restore, Discard, Release,
      ReleaseDetached, Step, Go, ReleaseAll, dirs, locks, TypeOK, Pcs,
      Publication, Entry, WorkDirs, Held, NeedsPubLock, NothingToLose
  <2>6. CASE Uninstall(p)
    BY <2>6 DEF Uninstall, List, RemoveLock, RemoveUse, SkipBusy, Remove,
      PubLockIsFree, WriteIsFree, MaySkip, Step, Go, ReleaseAll, dirs, locks,
      TypeOK, Pcs, Publication, Entry, WorkDirs, Held, NeedsPubLock,
      NothingToLose
  <2>7. CASE Drain(p) \/ EndUse(p) \/ Fail(p)
    BY <2>7 DEF Drain, Drained, Stopped, EndUse, Fail, DropLease, Step, Go,
      ReleaseAll, dirs, locks, TypeOK, Pcs, Publication, Entry, WorkDirs,
      Held, NeedsPubLock, NothingToLose
  <2>8. CASE Crash(p)
    BY <2>8 DEF Crash, Removing, Step, Go, ReleaseAll, dirs, locks, TypeOK,
      Pcs, Publication, Entry, WorkDirs, Held, NeedsPubLock, NothingToLose
  <2>9. CASE Cancel(p)
    BY <2>9 DEF Cancel, CancelValidate, CancelPrepare, CancelPublication,
      Step, Go, ReleaseAll, dirs, locks, TypeOK, Pcs, Publication, Entry,
      WorkDirs, Held, NeedsPubLock, NothingToLose
  <2> QED
    BY <1>2, <2>1, <2>2, <2>3, <2>4, <2>5, <2>6, <2>7, <2>8, <2>9
      DEF Work, Sweep
<1> QED
  BY <1>1, <1>2 DEF Next

\* A process that has not begun its publication has preserved nothing.
Unpreserved == {"scan", "sweepLock", "sweepRestore", "sweepClean", "lock", "useRead",
                "validate", "stage", "prepare", "useWrite", "preserve"}

PreservesOnce == \A p \in Procs : pc[p] \in Unpreserved => backup[p] = "absent"

\* Only its own publication fills a process's backup, once.
LEMMA PreservesOnceStep ==
  ASSUME TypeOK, PreservesOnce, [Next]_vars
  PROVE  PreservesOnce'
<1>1. CASE UNCHANGED vars
  BY <1>1 DEF vars, PreservesOnce
<1>2. ASSUME NEW p \in Procs, Work(p) \/ EndUse(p) \/ Fail(p) \/ Crash(p) \/ Cancel(p)
      PROVE  PreservesOnce'
  <2>1. CASE Sweep(p)
    BY <2>1 DEF Sweep, Scan, SweepLock, SweepGiveUp, SweepRestore, SweepClean,
      SweepEnd, BeginOp, Step, Go, dirs, TypeOK, PreservesOnce, Unpreserved
  <2>2. CASE Install(p)
    BY <2>2 DEF Install, Lock, UseRead, Hit, Miss, Stage, Prepare, UseWrite,
      Lease, Step, Go, dirs, TypeOK, PreservesOnce, Unpreserved
  <2>3. CASE Promote(p)
    BY <2>3 DEF Promote, NothingToPreserve, Superseded, Preserve, Publish,
      Confirm, DropBackup, Undo, Unpublish, Restore, Discard, Release,
      ReleaseDetached, Step, Go, dirs, TypeOK, PreservesOnce, Unpreserved
  <2>4. CASE Uninstall(p) \/ Drain(p) \/ EndUse(p) \/ Fail(p)
    BY <2>4 DEF Uninstall, List, RemoveLock, RemoveUse, SkipBusy, Remove,
      Drain, Drained, Stopped, EndUse, Fail, Step, Go, dirs, TypeOK,
      PreservesOnce, Unpreserved
  <2>5. CASE Crash(p) \/ Cancel(p)
    BY <2>5 DEF Crash, Cancel, CancelValidate, CancelPrepare,
      CancelPublication, Step, Go, dirs, TypeOK, PreservesOnce, Unpreserved
  <2> QED
    BY <1>2, <2>1, <2>2, <2>3, <2>4, <2>5 DEF Work
<1> QED
  BY <1>1, <1>2 DEF Next

\* A valid copy is given up for a valid entry, or by a sweep that sees an entry.
LEMMA PreservedCopyStep ==
  ASSUME TypeOK, Held, ConfirmedIsValid, NothingToLose, PreservesOnce, [Next]_vars
  PROVE  \A q \in Procs : KeepsCopy(q)
<1> USE NobodyAssumption
<1>1. CASE UNCHANGED vars
  BY <1>1 DEF vars, TypeOK, Pcs, Publication, Entry, WorkDirs, Held,
    NeedsPubLock, NothingToLose, ConfirmedIsValid, Confirmed, KeepsCopy
<1>2. ASSUME NEW p \in Procs, Work(p) \/ EndUse(p) \/ Fail(p) \/ Crash(p) \/ Cancel(p)
      PROVE  \A q \in Procs : KeepsCopy(q)
  <2>1. CASE Scan(p) \/ SweepLock(p) \/ SweepGiveUp(p) \/ SweepEnd(p)
    BY <2>1 DEF Scan, SweepLock, SweepGiveUp, SweepEnd, BeginOp,
      PubLockIsFree, Step, Go, ReleaseAll, dirs, locks, TypeOK, Pcs,
      Publication, Entry, WorkDirs, Held, NeedsPubLock, NothingToLose,
      ConfirmedIsValid, Confirmed, KeepsCopy
  <2>2. CASE SweepRestore(p)
    BY <2>2 DEF SweepRestore, Restorable, FinalIsMissing, Step, Go,
      ReleaseAll, dirs, locks, TypeOK, Pcs, Publication, Entry, WorkDirs,
      Held, NeedsPubLock, NothingToLose, ConfirmedIsValid, Confirmed, KeepsCopy
  <2>3. CASE SweepClean(p)
    BY <2>3 DEF SweepClean, Step, Go, ReleaseAll, dirs, locks, TypeOK, Pcs,
      Publication, Entry, WorkDirs, Held, NeedsPubLock, NothingToLose,
      ConfirmedIsValid, Confirmed, KeepsCopy
  <2>4. CASE Install(p)
    BY <2>4 DEF Install, Lock, UseRead, Hit, Miss, Stage, Prepare, UseWrite,
      Lease, PubLockIsFree, ReadIsFree, DropLease, WriteIsFree, Step, Go,
      ReleaseAll, dirs, locks, TypeOK, Pcs, Publication, Entry, WorkDirs,
      Held, NeedsPubLock, NothingToLose, ConfirmedIsValid, Confirmed, KeepsCopy
  <2>5. CASE Promote(p)
    <3>1. CASE DropBackup(p)
      <4>1. final' = "valid"
        BY <3>1 DEF DropBackup, Step, ConfirmedIsValid, Confirmed
      <4> QED
        BY <4>1 DEF KeepsCopy
    <3>2. CASE Restore(p)
      BY <3>2 DEF Restore, Step, TypeOK, KeepsCopy
    <3>3. CASE Preserve(p)
      BY <3>3 DEF Preserve, Step, TypeOK, PreservesOnce, Unpreserved, KeepsCopy
    <3>4. CASE UNCHANGED backup
      BY <3>4 DEF KeepsCopy
    <3> QED
      BY <2>5, <3>1, <3>2, <3>3, <3>4 DEF Promote, NothingToPreserve,
        Superseded, Publish, Confirm, Undo, Unpublish, Discard, Release,
        ReleaseDetached, dirs
  <2>6. CASE Uninstall(p)
    BY <2>6 DEF Uninstall, List, RemoveLock, RemoveUse, SkipBusy, Remove,
      PubLockIsFree, WriteIsFree, MaySkip, Step, Go, ReleaseAll, dirs, locks,
      TypeOK, Pcs, Publication, Entry, WorkDirs, Held, NeedsPubLock,
      NothingToLose, ConfirmedIsValid, Confirmed, KeepsCopy
  <2>7. CASE Drain(p) \/ EndUse(p) \/ Fail(p)
    BY <2>7 DEF Drain, Drained, Stopped, EndUse, Fail, DropLease, Step, Go,
      ReleaseAll, dirs, locks, TypeOK, Pcs, Publication, Entry, WorkDirs,
      Held, NeedsPubLock, NothingToLose, ConfirmedIsValid, Confirmed, KeepsCopy
  <2>8. CASE Crash(p)
    BY <2>8 DEF Crash, Removing, Step, Go, ReleaseAll, dirs, locks, TypeOK,
      Pcs, Publication, Entry, WorkDirs, Held, NeedsPubLock, NothingToLose,
      ConfirmedIsValid, Confirmed, KeepsCopy
  <2>9. CASE Cancel(p)
    BY <2>9 DEF Cancel, CancelValidate, CancelPrepare, CancelPublication,
      Step, Go, ReleaseAll, dirs, locks, TypeOK, Pcs, Publication, Entry,
      WorkDirs, Held, NeedsPubLock, NothingToLose, ConfirmedIsValid, Confirmed, KeepsCopy
  <2> QED
    BY <1>2, <2>1, <2>2, <2>3, <2>4, <2>5, <2>6, <2>7, <2>8, <2>9
      DEF Work, Sweep
<1> QED
  BY <1>1, <1>2 DEF Next

-----------------------------------------------------------------------------
\* Types: the work directories, the locks and the labels.
THEOREM TypeCorrect == Spec => []TypeOK
<1>1. Init => TypeOK
  BY DEF Init, TypeOK, Entry, Pcs, Publication
<1>2. TypeOK /\ [Next]_vars => TypeOK'
  BY TypeStep
<1> QED
  BY <1>1, <1>2, PTL DEF Spec

\* Every process holds the locks of the place where it is.
THEOREM LocksAreHeld == Spec => [](Held /\ Excluded)
<1>1. Init => Held /\ Excluded
  BY DEF Init, Held, Excluded, NeedsPubLock, NeedsWriter, NeedsReader, Publication
<1>2. TypeOK /\ Held /\ Excluded /\ [Next]_vars => Held' /\ Excluded'
  BY HeldStep
<1> QED
  BY <1>1, <1>2, TypeCorrect, PTL DEF Spec

\* What is confirmed stays valid until its lease is dropped.
THEOREM ConfirmedStaysValid == Spec => []ConfirmedIsValid
<1>1. Init => ConfirmedIsValid
  BY DEF Init, ConfirmedIsValid, Confirmed
<1>2. TypeOK /\ Held /\ Excluded /\ ConfirmedIsValid /\ [Next]_vars => ConfirmedIsValid'
  BY ValidStep
<1> QED
  BY <1>1, <1>2, TypeCorrect, LocksAreHeld, PTL DEF Spec

\* An agent never runs from an entry that another process replaces, removes or
\* recovers, however many processes install, crash and are cancelled.
THEOREM LeasesProtect == Spec => []LeasedEntryIsValid
<1>1. ConfirmedIsValid => LeasedEntryIsValid
  BY DEF ConfirmedIsValid, Confirmed, LeasedEntryIsValid
<1> QED
  BY <1>1, ConfirmedStaysValid, PTL

\* No sweep deletes the work of an install that goes on.
THEOREM ActiveWorkSurvives == Spec => ActiveWorkIsKept
<1>1. TypeOK /\ Held /\ [Next]_vars =>
        [\A p \in Procs : Building(p) /\ staging'[p] # staging[p] => pc'[p] # pc[p]]_vars
  BY ActiveWorkStep
<1> QED
  BY <1>1, TypeCorrect, LocksAreHeld, PTL DEF Spec, ActiveWorkIsKept

\* An entry that is there changes only under both locks.
THEOREM EntryIsLocked == Spec => EntryChangesUnderLocks
<1>1. TypeOK /\ Held /\ Excluded /\ [Next]_vars =>
        [final' # final =>
           pubLock # Nobody /\ (final # "absent" => writer = pubLock /\ readers = {})]_vars
  BY EntryStep
<1> QED
  BY <1>1, TypeCorrect, LocksAreHeld, PTL DEF Spec, EntryChangesUnderLocks

\* If restoring never fails, a publication gives a valid copy up for a valid
\* entry only, and a sweep never while the place is empty.
THEOREM LastCopySurvives ==
  ASSUME RestoreFails = FALSE
  PROVE  Spec => PreservedCopyIsKept
<1>1. Init => NothingToLose
  BY DEF Init, NothingToLose
<1>2. TypeOK /\ Held /\ NothingToLose /\ [Next]_vars => NothingToLose'
  BY NothingToLoseStep
<1>3. Init => PreservesOnce
  BY DEF Init, PreservesOnce
<1>4. TypeOK /\ PreservesOnce /\ [Next]_vars => PreservesOnce'
  BY PreservesOnceStep
<1>5. TypeOK /\ Held /\ ConfirmedIsValid /\ NothingToLose /\ PreservesOnce /\ [Next]_vars =>
        [\A p \in Procs : KeepsCopy(p)]_vars
  BY PreservedCopyStep
<1> QED
  BY <1>1, <1>2, <1>3, <1>4, <1>5, TypeCorrect, LocksAreHeld, ConfirmedStaysValid, PTL
  DEF Spec, PreservedCopyIsKept
=============================================================================
