------------------------------ MODULE StderrTail ------------------------------
(***************************************************************************)
(* What the launches of one agent print to stderr: each keeps the last     *)
(* bytes of it for /readyz, and all put their lines into one queue that a  *)
(* task of the server prints.  Source: src/src/serve/runtime.rs:285-330,   *)
(* 375-490.                                                                *)
(*                                                                         *)
(* A byte is the number of the line it came with; the byte that ends a     *)
(* line is 0.                                                              *)
(***************************************************************************)
EXTENDS Naturals, Sequences, FiniteSets

CONSTANTS
  Launches,                \* launches of the agent
  Lengths,                 \* lengths that a line may have
  Lines,                   \* lines that a launch prints at most
  STDERR_TAIL_BYTES,
  STDERR_CHANNEL_CAPACITY

\* A tail holds at least the end of a line.
ASSUME StderrAssumption ==
  /\ IsFiniteSet(Launches)
  /\ Lengths \subseteq Nat /\ Lines \in Nat
  /\ STDERR_TAIL_BYTES \in Nat \ {0} /\ STDERR_CHANNEL_CAPACITY \in Nat

VARIABLES
  tail,      \* of each launch, the bytes kept
  printed,   \* of each launch, all bytes it has printed
  count,     \* of each launch, the lines it has printed
  pending,   \* of each launch, a line kept and not yet queued, or <<>>
  channel,   \* the queue: [by, line]
  dropped,   \* lines that found the queue full
  reported,  \* what was last told of them
  echoed     \* lines that the task has printed

stderrVars == <<tail, printed, count, pending, channel, dropped, reported, echoed>>

-----------------------------------------------------------------------------
LastOf(s, n) == SubSeq(s, Len(s) - n + 1, Len(s))

\* Mutation: the suffix leaves no room for the end of the line.
WholeSuffix(t, line) ==
  LET required == Len(line) + 1 IN
  IF required >= STDERR_TAIL_BYTES
  THEN Append(LastOf(line, STDERR_TAIL_BYTES), 0)
  ELSE t \o line

\* LaunchState::push_stderr
Pushed(t, line) ==
  LET required == Len(line) + 1
      room     == STDERR_TAIL_BYTES - required
  IN  IF required >= STDERR_TAIL_BYTES
      THEN Append(LastOf(line, STDERR_TAIL_BYTES - 1), 0)
      ELSE Append((IF Len(t) > room THEN LastOf(t, room) ELSE t) \o line, 0)

StderrInit ==
  /\ tail = [l \in Launches |-> <<>>] /\ printed = tail /\ pending = tail
  /\ count = [l \in Launches |-> 0]
  /\ channel = <<>> /\ dropped = 0 /\ reported = 0 /\ echoed = 0

\* forward_agent_line: the line is kept, and then queued.
Keep(l, n) ==
  LET line == [i \in 1..n |-> count[l] + 1] IN
  /\ pending[l] = <<>>
  /\ count[l] < Lines
  /\ count' = [count EXCEPT ![l] = @ + 1]
  /\ tail' = [tail EXCEPT ![l] = Pushed(@, line)]
  /\ printed' = [printed EXCEPT ![l] = Append(@ \o line, 0)]
  /\ pending' = [pending EXCEPT ![l] = <<count[l] + 1>>]
  /\ UNCHANGED <<channel, dropped, reported, echoed>>

\* AgentStderr::push does not wait for room.
Queue(l) ==
  /\ pending[l] # <<>>
  /\ pending' = [pending EXCEPT ![l] = <<>>]
  /\ IF Len(channel) < STDERR_CHANNEL_CAPACITY
     THEN channel' = Append(channel, [by |-> l, line |-> pending[l][1]]) /\ UNCHANGED dropped
     ELSE dropped' = dropped + 1 /\ UNCHANGED channel
  /\ UNCHANGED <<tail, printed, count, reported, echoed>>

\* The task prints a line and, when a second has passed since it last did,
\* tells how many lines were dropped.
Echo ==
  /\ channel # <<>>
  /\ channel' = Tail(channel)
  /\ echoed' = echoed + 1
  /\ reported' \in {reported, dropped}
  /\ UNCHANGED <<tail, printed, count, pending, dropped>>

StderrNext == Echo \/ \E l \in Launches : Queue(l) \/ \E n \in Lengths : Keep(l, n)

StderrSpec == StderrInit /\ [][StderrNext]_stderrVars

-----------------------------------------------------------------------------
\* The launches that are about to queue a line, and all lines that were printed.
Waiting   == {l \in Launches : pending[l] # <<>>}
Forwarded == UNION {{l} \X (1..count[l]) : l \in Launches}

\* The tail of a launch is, byte for byte, the last STDERR_TAIL_BYTES bytes
\* that it printed, for lines shorter than, as long as and longer than that
\* (LaunchState::push_stderr, runtime.rs:307-325); and each line of any launch
\* is printed, queued or counted as dropped, in its launch's order
\* (AgentStderr, runtime.rs:435-475).
StderrIsAccountedFor ==
  /\ \A l \in Launches :
       LET all == printed[l] IN
       tail[l] = IF Len(all) <= STDERR_TAIL_BYTES THEN all ELSE LastOf(all, STDERR_TAIL_BYTES)
  /\ echoed + Len(channel) + dropped + Cardinality(Waiting) = Cardinality(Forwarded)
  /\ Len(channel) <= STDERR_CHANNEL_CAPACITY /\ reported <= dropped
  /\ \A i, j \in DOMAIN channel :
       i < j /\ channel[i].by = channel[j].by => channel[i].line < channel[j].line

=============================================================================
