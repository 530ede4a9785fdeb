------------------------------ MODULE InstallLog ------------------------------
(***************************************************************************)
(* The install log of the cache: processes append lines to one bounded     *)
(* file, which is rewritten to its last bytes when a line would exceed the *)
(* bound.  Source: src/src/installer/binary/log.rs, mod.rs:15-18.          *)
(*                                                                         *)
(* A line is a record of its writer and its length; a file is a sequence   *)
(* of lines.  An append goes through the file that the writer has opened,  *)
(* which a rename may since have taken from the path: `file` counts the    *)
(* renames, and a writer keeps the count of its open.                      *)
(***************************************************************************)
EXTENDS Naturals, SequencesExt, FiniteSetsExt

CONSTANTS
  Writers,                 \* processes, each of which logs one install
  INSTALL_LOG_MAX_BYTES,
  INSTALL_LOG_TAIL_BYTES,
  HeaderBytes,             \* length of the line that tells of a truncation
  LineBytes,               \* lengths that a line may have
  Nobody

\* A line has a length, and the header of a truncated log no writer.
ASSUME LogAssumption ==
  /\ INSTALL_LOG_MAX_BYTES \in Nat /\ INSTALL_LOG_TAIL_BYTES \in Nat
  /\ HeaderBytes \in Nat /\ LineBytes \subseteq Nat
  /\ Nobody \notin Writers

VARIABLES
  log,      \* the lines of the file at the log's path
  file,     \* which file that is
  logLock,  \* owner of the lock on <log>.lock
  opened,   \* the file that a writer has open
  size,     \* the length of a writer's line
  temp,     \* what a writer has put into the temporary file
  writer,   \* what a writer does next
  logged    \* every line that was written, in order

logVars == <<log, file, logLock, opened, size, temp, writer, logged>>

-----------------------------------------------------------------------------
Line(w, n) == [by |-> w, bytes |-> n]
Header     == Line(Nobody, HeaderBytes)

\* Of each line of a file, the places of its bytes; and the file's length.
Places(lines) == UNION {{i} \X (1..lines[i].bytes) : i \in DOMAIN lines}
Bytes(lines)  == Cardinality(Places(lines))

LogInit ==
  /\ log = <<>> /\ logged = <<>>
  /\ file = 0
  /\ logLock = Nobody
  /\ opened = [w \in Writers |-> 0]
  /\ size \in [Writers -> LineBytes]
  /\ temp = [w \in Writers |-> <<>>]
  /\ writer = [w \in Writers |-> "start"]

-----------------------------------------------------------------------------
At(w, l)   == writer[w] = l
Goto(w, l) == writer' = [writer EXCEPT ![w] = l]

\* The lock file is opened and locked.
LockLog(w) ==
  /\ At(w, "start")
  /\ logLock = Nobody
  /\ logLock' = w
  /\ Goto(w, "open")
  /\ UNCHANGED <<log, file, opened, size, temp, logged>>

LineIsTooLong(w) == Bytes(log) + size[w] > INSTALL_LOG_MAX_BYTES

\* The log is opened and its length looked at.
OpenLog(w) ==
  /\ At(w, "open")
  /\ opened' = [opened EXCEPT ![w] = file]
  /\ Goto(w, IF LineIsTooLong(w) THEN "rewrite" ELSE "append")
  /\ UNCHANGED <<log, file, logLock, size, temp, logged>>

\* The lines that start in the last INSTALL_LOG_TAIL_BYTES bytes, without the
\* first of them: what follows the first newline in there.
Kept(lines) ==
  LET From(i) == Bytes(SubSeq(lines, i, Len(lines)))
      touched == {i \in DOMAIN lines : From(i + 1) < INSTALL_LOG_TAIL_BYTES}
  IN  IF touched = {} THEN <<>> ELSE SubSeq(lines, Min(touched) + 1, Len(lines))

\* truncate_install_log: the temporary file, and its rename over the log.
Rewrite(w) ==
  /\ At(w, "rewrite")
  /\ temp' = [temp EXCEPT ![w] = <<Header>> \o Kept(log)]
  /\ Goto(w, "rename")
  /\ UNCHANGED <<log, file, logLock, opened, size, logged>>

Rename(w) ==
  /\ At(w, "rename")
  /\ log' = temp[w]
  /\ file' = file + 1
  /\ Goto(w, "reopen")
  /\ UNCHANGED <<logLock, opened, size, temp, logged>>

\* Mutation: the file that was open before the truncation is written to.
KeepOpened(w) ==
  /\ At(w, "reopen")
  /\ Goto(w, "append_unchecked")
  /\ UNCHANGED <<log, file, logLock, opened, size, temp, logged>>

Reopen(w) ==
  /\ At(w, "reopen")
  /\ opened' = [opened EXCEPT ![w] = file]
  /\ Goto(w, "append_unchecked")
  /\ UNCHANGED <<log, file, logLock, size, temp, logged>>

\* write_all appends to the file that is open, and the function returns.  The
\* line is written whole: a write that fails half-way is not modelled.
AppendLine(w) ==
  /\ writer[w] \in {"append", "append_unchecked"}
  /\ log' = IF opened[w] = file THEN Append(log, Line(w, size[w])) ELSE log
  /\ logged' = Append(logged, Line(w, size[w]))
  /\ Goto(w, "done")
  /\ logLock' = IF logLock = w THEN Nobody ELSE logLock
  /\ UNCHANGED <<file, opened, size, temp>>

\* The process is killed, and its lock goes.
Kill(w) ==
  /\ writer[w] \notin {"done", "killed"}
  /\ Goto(w, "killed")
  /\ logLock' = IF logLock = w THEN Nobody ELSE logLock
  /\ UNCHANGED <<log, file, opened, size, temp, logged>>

WriterStep(w) ==
  \/ LockLog(w) \/ OpenLog(w) \/ Rewrite(w) \/ Rename(w) \/ Reopen(w) \/ AppendLine(w)

LogNext == \E w \in Writers : WriterStep(w) \/ Kill(w)

LogSpec == LogInit /\ [][LogNext]_logVars

-----------------------------------------------------------------------------
\* No truncation and no kill loses, cuts or moves a line but the oldest, and
\* the log is bounded: it is a suffix of all that was written, after the header
\* of the last truncation, and within INSTALL_LOG_MAX_BYTES unless a single line
\* exceeds it after a truncation (append_install_log_inner, log.rs:61-88).
LogIsRecent ==
  LET lines == IF log # <<>> /\ Head(log) = Header THEN Tail(log) ELSE log IN
  /\ IsSuffix(lines, logged)
  /\ file = 0 => lines = logged
  /\ \/ Bytes(log) <= INSTALL_LOG_MAX_BYTES
     \/ Bytes(log) <= HeaderBytes + INSTALL_LOG_TAIL_BYTES + Last(log).bytes

=============================================================================
