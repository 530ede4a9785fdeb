------------------------------- MODULE LogProofs -------------------------------
(***************************************************************************)
(* Theorems about InstallLog and StderrTail, the two places where lines    *)
(* are kept: for any writers, launches, lines and limits.                  *)
(***************************************************************************)
EXTENDS InstallLog, StderrTail, SequenceTheorems, FiniteSetTheorems, TLAPS

-----------------------------------------------------------------------------
(***************************************************************************)
(* The install log.  Lengths of files.                                     *)
(***************************************************************************)

\* A line of any length.
SomeLine == [by : Writers \cup {Nobody}, bytes : Nat]

\* A file has a length: each line has one, and the lines are finitely many.
LEMMA BytesType ==
  ASSUME NEW s \in Seq(SomeLine)
  PROVE  IsFiniteSet(Places(s)) /\ Bytes(s) \in Nat
<1> DEFINE Of == [i \in 1..Len(s) |-> {i} \X (1..s[i].bytes)]
           Sets == {{i} \X (1..s[i].bytes) : i \in 1..Len(s)}
<1>1. DOMAIN s = 1..Len(s) /\ Len(s) \in Nat /\ \A i \in 1..Len(s) : s[i].bytes \in Nat
  <2>1. \A i \in 1..Len(s) : s[i] \in SomeLine
    BY ElementOfSeq
  <2>2. \A l \in SomeLine : l.bytes \in Nat
    BY DEF SomeLine
  <2> QED BY <2>1, <2>2, LenProperties
<1>2. Of \in Surjection(1..Len(s), Sets)
  BY DEF Surjection
<1>3. IsFiniteSet(1..Len(s))
  BY <1>1, FS_Interval
<1>4. IsFiniteSet(Sets)
  <2> HIDE DEF Of, Sets
  <2> QED BY <1>2, <1>3, FS_Surjection
<1>5. \A T \in Sets : IsFiniteSet(T)
  <2> TAKE T \in Sets
  <2>1. PICK i \in 1..Len(s) : T = {i} \X (1..s[i].bytes)
    OBVIOUS
  <2>2. s[i].bytes \in Int /\ 1 \in Int
    BY <1>1
  <2>3. IsFiniteSet(1..s[i].bytes)
    BY <2>2, FS_Interval
  <2>4. IsFiniteSet({i})
    BY FS_Singleton
  <2> QED BY <2>1, <2>3, <2>4, FS_Product
<1>6. Places(s) = UNION Sets
  BY <1>1 DEF Places
<1>7. IsFiniteSet(Places(s))
  <2> HIDE DEF Sets
  <2> QED BY <1>4, <1>5, <1>6, FS_UNION
<1> QED BY <1>7, FS_CardinalityType DEF Bytes

\* An empty file has no bytes, and a file of one line has the line's.
LEMMA BytesOfFew ==
  /\ Bytes(<<>>) = 0
  /\ \A l \in SomeLine : Bytes(<<l>>) = l.bytes
<1>1. Bytes(<<>>) = 0
  <2>1. Places(<<>>) = {}
    BY DEF Places
  <2> QED BY <2>1, FS_EmptySet DEF Bytes
<1>2. ASSUME NEW l \in SomeLine
      PROVE  Bytes(<<l>>) = l.bytes
  <2>1. DOMAIN <<l>> = {1} /\ <<l>>[1] = l
    OBVIOUS
  <2>2. Places(<<l>>) = {1} \X (1..l.bytes)
    BY <2>1 DEF Places
  <2> DEFINE n == l.bytes
  <2>3. n \in Nat
    BY DEF SomeLine
  <2> HIDE DEF n
  <2>4. IsFiniteSet(1..n) /\ Cardinality(1..n) = IF 1 > n THEN 0 ELSE n - 1 + 1
    BY <2>3, FS_Interval
  <2>5. (IF 1 > n THEN 0 ELSE n - 1 + 1) = n /\ 1 * n = n
    BY <2>3
  <2>6. IsFiniteSet({1}) /\ Cardinality({1}) = 1
    BY FS_Singleton
  <2>7. Cardinality({1} \X (1..n)) = Cardinality({1}) * Cardinality(1..n)
    BY <2>4, <2>6, FS_Product
  <2>8. Cardinality({1} \X (1..n)) = n
    BY <2>4, <2>5, <2>6, <2>7
  <2> QED BY <2>2, <2>8 DEF Bytes, n
<1> QED BY <1>1, <1>2

\* What is appended to a file adds to its length.
LEMMA BytesOfConcat ==
  ASSUME NEW s \in Seq(SomeLine), NEW t \in Seq(SomeLine)
  PROVE  Bytes(s \o t) = Bytes(s) + Bytes(t)
<1> DEFINE n == Len(s)
           Move == [p \in Places(t) |-> <<n + p[1], p[2]>>]
           Moved == UNION {{n + i} \X (1..t[i].bytes) : i \in 1..Len(t)}
<1>1. /\ n \in Nat /\ DOMAIN s = 1..n /\ Len(t) \in Nat /\ DOMAIN t = 1..Len(t)
      /\ s \o t \in Seq(SomeLine) /\ Len(s \o t) = n + Len(t)
      /\ \A i \in 1..n + Len(t) : (s \o t)[i] = IF i <= n THEN s[i] ELSE t[i - n]
  BY LenProperties, ConcatProperties
<1>2. DOMAIN (s \o t) = 1..n + Len(t)
  BY <1>1, LenProperties
<1>3. Places(s \o t) = Places(s) \cup Moved
  <2> HIDE DEF n
  <2>1. ASSUME NEW x \in Places(s \o t)
        PROVE  x \in Places(s) \cup Moved
    <3>1. PICK i \in 1..n + Len(t) : x \in {i} \X (1..(s \o t)[i].bytes)
      BY <1>2 DEF Places
    <3>2. CASE i <= n
      <4>1. i \in DOMAIN s /\ x \in {i} \X (1..s[i].bytes)
        BY <1>1, <3>1, <3>2
      <4> QED BY <4>1 DEF Places
    <3>3. CASE ~(i <= n)
      <4>1. i - n \in 1..Len(t) /\ n + (i - n) = i /\ x \in {i} \X (1..t[i - n].bytes)
        BY <1>1, <3>1, <3>3
      <4> QED BY <4>1
    <3> QED BY <3>2, <3>3
  <2>2. ASSUME NEW x \in Places(s)
        PROVE  x \in Places(s \o t)
    <3>1. PICK i \in 1..n : x \in {i} \X (1..s[i].bytes)
      BY <1>1 DEF Places
    <3>2. i \in 1..n + Len(t) /\ (s \o t)[i] = s[i]
      BY <1>1
    <3> QED BY <1>2, <3>1, <3>2 DEF Places
  <2>3. ASSUME NEW x \in Moved
        PROVE  x \in Places(s \o t)
    <3>1. PICK i \in 1..Len(t) : x \in {n + i} \X (1..t[i].bytes)
      OBVIOUS
    <3>2. n + i \in 1..n + Len(t) /\ (s \o t)[n + i] = t[i]
      BY <1>1
    <3> QED BY <1>2, <3>1, <3>2 DEF Places
  <2> QED BY <2>1, <2>2, <2>3
<1>4. Places(s) \cap Moved = {}
  BY <1>1 DEF Places
<1>5. Move \in Bijection(Places(t), Moved)
  <2> HIDE DEF n
  <2>1. ASSUME NEW p \in Places(t)
        PROVE  /\ p = <<p[1], p[2]>> /\ p[1] \in 1..Len(t) /\ p[2] \in 1..t[p[1]].bytes
               /\ Move[p] \in Moved
    <3>1. PICK i \in 1..Len(t) : p \in {i} \X (1..t[i].bytes)
      BY <1>1 DEF Places
    <3>2. p[1] = i /\ p[2] \in 1..t[i].bytes /\ p = <<p[1], p[2]>>
      BY <3>1
    <3>3. Move[p] \in {n + i} \X (1..t[i].bytes)
      BY <3>2
    <3> QED BY <3>2, <3>3
  <2>2. Move \in [Places(t) -> Moved]
    BY <2>1
  <2>3. \A p, q \in Places(t) : Move[p] = Move[q] => p = q
    <3> TAKE p, q \in Places(t)
    <3> HAVE Move[p] = Move[q]
    <3>1. n + p[1] = n + q[1] /\ p[2] = q[2]
      OBVIOUS
    <3>2. p[1] \in Nat /\ q[1] \in Nat
      <4> HIDE DEF Move, Moved
      <4> QED BY <1>1, <2>1
    <3>3. \A i, j \in Nat : n + i = n + j => i = j
      BY <1>1
    <3>4. p[1] = q[1]
      BY <3>1, <3>2, <3>3
    <3> QED BY <2>1, <3>1, <3>4
  <2>4. ASSUME NEW x \in Moved
        PROVE  \E p \in Places(t) : Move[p] = x
    <3>1. PICK i \in 1..Len(t) : x \in {n + i} \X (1..t[i].bytes)
      OBVIOUS
    <3>2. x = <<n + i, x[2]>> /\ <<i, x[2]>> \in {i} \X (1..t[i].bytes)
      BY <3>1
    <3>3. <<i, x[2]>> \in Places(t)
      BY <1>1, <3>2 DEF Places
    <3>4. Move[<<i, x[2]>>] = x
      BY <3>2, <3>3
    <3> QED BY <3>3, <3>4
  <2> QED BY <2>2, <2>3, <2>4 DEF Bijection, Injection, Surjection, IsInjective
<1>6. IsFiniteSet(Moved) /\ Cardinality(Moved) = Bytes(t)
  <2> HIDE DEF Move, Moved
  <2>1. ExistsBijection(Places(t), Moved)
    BY <1>5 DEF ExistsBijection
  <2> QED BY <2>1, BytesType, FS_Bijection DEF Bytes
<1>7. Cardinality(Places(s) \cup Moved) = Cardinality(Places(s)) + Cardinality(Moved) - 0
  <2> HIDE DEF Moved
  <2> QED BY <1>4, <1>6, BytesType, FS_Union, FS_EmptySet
<1> HIDE DEF Moved
<1> QED BY <1>3, <1>6, <1>7, BytesType DEF Bytes

-----------------------------------------------------------------------------
(***************************************************************************)
(* Ends of files.                                                          *)
(***************************************************************************)

\* The lines of s are the last lines of t.
EndOf(s, t) ==
  /\ Len(s) <= Len(t)
  /\ \A i \in 1..Len(s) : s[i] = t[Len(t) - Len(s) + i]

\* IsSuffix, line by line.
LEMMA EndIsSuffix ==
  ASSUME NEW s \in Seq(SomeLine), NEW t \in Seq(SomeLine), EndOf(s, t)
  PROVE  IsSuffix(s, t)
<1> DEFINE m == Len(s)
           n == Len(t)
<1>1. m \in Nat /\ n \in Nat /\ m <= n
  BY LenProperties DEF EndOf
<1>2. /\ Reverse(s) \in Seq(SomeLine) /\ Len(Reverse(s)) = m
      /\ \A i \in 1..m : Reverse(s)[i] = s[m - i + 1]
  <2>1. \A i \in 1..m : s[m - i + 1] \in SomeLine
    BY <1>1, ElementOfSeq
  <2> QED BY <1>1, <2>1 DEF Reverse
<1>3. /\ Reverse(t) \in Seq(SomeLine) /\ Len(Reverse(t)) = n
      /\ \A i \in 1..n : Reverse(t)[i] = t[n - i + 1]
  <2>1. \A i \in 1..n : t[n - i + 1] \in SomeLine
    BY <1>1, ElementOfSeq
  <2> QED BY <1>1, <2>1 DEF Reverse
<1>4. \A i \in 1..m : Reverse(s)[i] = Reverse(t)[i]
  <2> TAKE i \in 1..m
  <2>1. m - i + 1 \in 1..m /\ n - m + (m - i + 1) = n - i + 1 /\ i \in 1..n
    BY <1>1
  <2>2. s[m - i + 1] = t[n - m + (m - i + 1)]
    BY <2>1 DEF EndOf
  <2> HIDE DEF m, n
  <2> QED BY <1>2, <1>3, <2>1, <2>2
<1>5. SubSeq(Reverse(s), 1, m) = SubSeq(Reverse(t), 1, m)
  <2> HIDE DEF m, n
  <2>1. /\ SubSeq(Reverse(s), 1, m) = [i \in 1..m |-> Reverse(s)[i]]
        /\ SubSeq(Reverse(t), 1, m) = [i \in 1..m |-> Reverse(t)[i]]
    BY <1>1, <1>2, <1>3
  <2> QED BY <1>4, <2>1
<1> HIDE DEF m, n
<1> QED BY <1>1, <1>2, <1>3, <1>5 DEF IsSuffix, IsPrefix

\* A set of positions has a smallest.
LEMMA SmallestExists ==
  ASSUME NEW S \in SUBSET Nat, S # {}
  PROVE  Min(S) \in S
<1>1. PICK x \in S : \A y \in S : ~ (<<y, x>> \in OpToRel(<, Nat))
  BY NatLessThanWellFounded, WFMin, Zenon
<1>2. \A y \in S : x <= y
  <2> TAKE y \in S
  <2>1. ~ (y < x)
    BY <1>1, Zenon DEF OpToRel
  <2> QED BY <2>1
<1> QED BY <1>2 DEF Min

\* What a truncation keeps is shorter than INSTALL_LOG_TAIL_BYTES, and is the
\* end of the file without its first line.
LEMMA KeptIsAnEnd ==
  ASSUME NEW s \in Seq(SomeLine)
  PROVE  /\ Kept(s) \in Seq(SomeLine) /\ Bytes(Kept(s)) <= INSTALL_LOG_TAIL_BYTES
         /\ \E m \in Nat : m >= 2 /\ Kept(s) = SubSeq(s, m, Len(s))
<1> DEFINE From(i) == Bytes(SubSeq(s, i, Len(s)))
           touched == {i \in DOMAIN s : From(i + 1) < INSTALL_LOG_TAIL_BYTES}
<1>1. Len(s) \in Nat /\ DOMAIN s = 1..Len(s) /\ INSTALL_LOG_TAIL_BYTES \in Nat
  BY LenProperties, LogAssumption
<1>2. CASE touched = {}
  <2>1. Kept(s) = <<>>
    BY <1>2 DEF Kept
  <2>2. SubSeq(s, Len(s) + 2, Len(s)) = <<>>
    BY <1>1, SubSeqEmpty
  <2>3. 0 <= INSTALL_LOG_TAIL_BYTES /\ Len(s) + 2 \in Nat /\ Len(s) + 2 >= 2
    BY <1>1
  <2> QED BY <2>1, <2>2, <2>3, BytesOfFew, EmptySeq
<1>3. CASE touched # {}
  <2>1. touched \in SUBSET Nat
    BY <1>1
  <2>2. Min(touched) \in touched
    <3> HIDE DEF touched
    <3> QED BY <1>3, <2>1, SmallestExists
  <2>3. Kept(s) = SubSeq(s, Min(touched) + 1, Len(s))
    BY <1>3 DEF Kept
  <2>4. /\ Min(touched) \in 1..Len(s)
        /\ Bytes(SubSeq(s, Min(touched) + 1, Len(s))) < INSTALL_LOG_TAIL_BYTES
    BY <1>1, <2>2
  <2> HIDE DEF touched
  <2>5. SubSeq(s, Min(touched) + 1, Len(s)) \in Seq(SomeLine)
    <3>1. Min(touched) + 1 \in Int /\ Len(s) \in Int
      BY <1>1, <2>4
    <3>2. \A i \in (Min(touched) + 1)..Len(s) : s[i] \in SomeLine
      BY <1>1, <2>4, ElementOfSeq
    <3> QED BY <3>1, <3>2, SubSeqProperties
  <2>6. Bytes(SubSeq(s, Min(touched) + 1, Len(s))) \in Nat
    BY <2>5, BytesType
  <2>7. Min(touched) + 1 \in Nat /\ Min(touched) + 1 >= 2
    BY <1>1, <2>4
  <2>8. \A b \in Nat : b < INSTALL_LOG_TAIL_BYTES => b <= INSTALL_LOG_TAIL_BYTES
    BY <1>1
  <2> QED BY <2>3, <2>4, <2>5, <2>6, <2>7, <2>8
<1> QED BY <1>2, <1>3

-----------------------------------------------------------------------------
(***************************************************************************)
(* The inductive invariant of the log.                                     *)
(***************************************************************************)

\* A line of a writer, and any line of the file.
LogLine == [by : Writers, bytes : LineBytes]
AnyLine == LogLine \cup {Header}

LogTypeOK ==
  /\ log \in Seq(AnyLine) /\ logged \in Seq(LogLine)
  /\ file \in Nat
  /\ logLock \in Writers \cup {Nobody}
  /\ opened \in [Writers -> Nat]
  /\ size \in [Writers -> LineBytes]
  /\ temp \in [Writers -> Seq(AnyLine)]
  /\ writer \in [Writers -> {"start", "open", "append", "rewrite", "rename", "reopen",
                             "append_unchecked", "done", "killed"}]

\* Only a writer that has the lock is between opening the log and its return.
LockInv ==
  \A w \in Writers :
    writer[w] \in {"open", "append", "rewrite", "rename", "reopen", "append_unchecked"}
      => logLock = w

\* A writer about to append has the file at the path open, and has looked at
\* its length or cut it; one about to rename has cut it in its own file.
WriterInv ==
  \A w \in Writers :
    /\ writer[w] \in {"append", "append_unchecked"} => opened[w] = file
    /\ writer[w] = "append" => Bytes(log) + size[w] <= INSTALL_LOG_MAX_BYTES
    /\ writer[w] = "rename" => temp[w] = <<Header>> \o Kept(log)
    /\ writer[w] \in {"reopen", "append_unchecked"} =>
         Bytes(log) <= HeaderBytes + INSTALL_LOG_TAIL_BYTES

\* The lines of a file after its header.
Body(s) == IF s # <<>> /\ Head(s) = Header THEN Tail(s) ELSE s

\* Only the first line is a header; the others are the last that were written,
\* and all of them until the first truncation.
LinesInv ==
  /\ \A i \in 2..Len(log) : log[i] \in LogLine
  /\ EndOf(Body(log), logged)
  /\ file = 0 => log = logged

\* The log is as long as LogIsRecent says.
LengthInv ==
  \/ Bytes(log) <= INSTALL_LOG_MAX_BYTES
  \/ Bytes(log) <= HeaderBytes + INSTALL_LOG_TAIL_BYTES + Last(log).bytes

LogIInv == LockInv /\ WriterInv /\ LinesInv /\ LengthInv

-----------------------------------------------------------------------------
(***************************************************************************)
(* Lines, and the two ways in which the log changes.                       *)
(***************************************************************************)

\* The header is no line of a writer, and all lines have a length.
LEMMA LineTypes ==
  /\ AnyLine \subseteq SomeLine /\ LogLine \subseteq AnyLine
  /\ Header \in AnyLine /\ Header \notin LogLine /\ Header.bytes = HeaderBytes
  /\ HeaderBytes \in Nat /\ INSTALL_LOG_TAIL_BYTES \in Nat
  /\ INSTALL_LOG_MAX_BYTES \in Nat /\ LineBytes \subseteq Nat /\ Nobody \notin Writers
<1>1. /\ HeaderBytes \in Nat /\ INSTALL_LOG_TAIL_BYTES \in Nat
      /\ INSTALL_LOG_MAX_BYTES \in Nat /\ LineBytes \subseteq Nat /\ Nobody \notin Writers
  BY LogAssumption
<1>2. Header.by = Nobody /\ Header.bytes = HeaderBytes
  BY DEF Header, Line
<1>3. Header \in SomeLine
  BY <1>1 DEF Header, Line, SomeLine
<1>4. LogLine \subseteq SomeLine
  BY <1>1 DEF LogLine, SomeLine
<1>5. \A l \in LogLine : l.by \in Writers
  BY DEF LogLine
<1> QED BY <1>1, <1>2, <1>3, <1>4, <1>5 DEF AnyLine

\* What follows the header is a sequence of lines.
LEMMA BodyType ==
  ASSUME NEW S, NEW s \in Seq(S)
  PROVE  Body(s) \in Seq(S)
BY HeadTailProperties DEF Body

\* A line that is appended is appended to the lines that follow the header.
LEMMA BodyOfAppend ==
  ASSUME NEW s \in Seq(AnyLine), NEW l \in LogLine
  PROVE  Body(Append(s, l)) = Append(Body(s), l)
<1>1. l \in AnyLine /\ l # Header
  BY LineTypes
<1>2. /\ Append(s, l) # <<>>
      /\ Head(Append(s, l)) = IF s = <<>> THEN l ELSE Head(s)
      /\ Tail(Append(s, l)) = IF s = <<>> THEN <<>> ELSE Append(Tail(s), l)
  BY <1>1, AppendProperties, HeadTailAppend
<1> QED BY <1>1, <1>2 DEF Body

\* Two files that end alike do so with one more line.
LEMMA EndOfAppend ==
  ASSUME NEW S, NEW s \in Seq(S), NEW t \in Seq(S), NEW l \in S, EndOf(s, t)
  PROVE  EndOf(Append(s, l), Append(t, l))
<1> DEFINE m == Len(s)
           n == Len(t)
<1>1. m \in Nat /\ n \in Nat /\ m <= n
  BY LenProperties DEF EndOf
<1>2. /\ Len(Append(s, l)) = m + 1 /\ Len(Append(t, l)) = n + 1
      /\ \A i \in 1..m : Append(s, l)[i] = s[i]
      /\ \A i \in 1..n : Append(t, l)[i] = t[i]
      /\ Append(s, l)[m + 1] = l /\ Append(t, l)[n + 1] = l
  BY AppendProperties
<1>3. \A i \in 1..m : s[i] = t[n - m + i]
  BY DEF EndOf
<1> HIDE DEF m, n
<1>4. ASSUME NEW i \in 1..(m + 1)
      PROVE  Append(s, l)[i] = Append(t, l)[(n + 1) - (m + 1) + i]
  <2>1. CASE i = m + 1
    <3>1. (n + 1) - (m + 1) + i = n + 1
      BY <1>1, <2>1
    <3> QED BY <1>2, <2>1, <3>1
  <2>2. CASE i # m + 1
    <3>1. i \in 1..m /\ n - m + i \in 1..n /\ (n + 1) - (m + 1) + i = n - m + i
      BY <1>1, <2>2
    <3> QED BY <1>2, <1>3, <3>1
  <2> QED BY <2>1, <2>2
<1>5. m + 1 <= n + 1
  BY <1>1
<1> QED BY <1>2, <1>4, <1>5 DEF EndOf

\* An end of an end is an end.
LEMMA EndOfEnd ==
  ASSUME NEW S, NEW s \in Seq(S), NEW t \in Seq(S), NEW u \in Seq(S),
         EndOf(s, t), EndOf(t, u)
  PROVE  EndOf(s, u)
<1> DEFINE l == Len(s)
           m == Len(t)
           n == Len(u)
<1>1. l \in Nat /\ m \in Nat /\ n \in Nat /\ l <= m /\ m <= n
  BY LenProperties DEF EndOf
<1>2. /\ \A i \in 1..l : s[i] = t[m - l + i]
      /\ \A i \in 1..m : t[i] = u[n - m + i]
  BY DEF EndOf
<1> HIDE DEF l, m, n
<1>3. \A i \in 1..l : s[i] = u[n - l + i]
  <2> TAKE i \in 1..l
  <2>1. m - l + i \in 1..m /\ n - m + (m - l + i) = n - l + i
    BY <1>1
  <2> QED BY <1>2, <2>1
<1> QED BY <1>1, <1>3 DEF EndOf, l, m, n

\* The end of a file without its first line is an end of what follows its
\* header.
LEMMA EndOfBody ==
  ASSUME NEW S, NEW s \in Seq(S), NEW m \in Nat, m >= 2
  PROVE  /\ SubSeq(s, m, Len(s)) \in Seq(S)
         /\ EndOf(SubSeq(s, m, Len(s)), Body(s))
<1> DEFINE n == Len(s)
           u == SubSeq(s, m, n)
<1>1. n \in Nat
  BY LenProperties
<1>2. /\ u \in Seq(S) /\ Len(u) = IF m <= n THEN n - m + 1 ELSE 0
      /\ \A i \in 1..(n - m + 1) : u[i] = s[m + i - 1]
  <2>1. \A i \in m..n : s[i] \in S
    BY <1>1, ElementOfSeq
  <2>2. m \in Int /\ n \in Int
    BY <1>1
  <2> HIDE DEF n
  <2> QED BY <2>1, <2>2, SubSeqProperties
<1>3. CASE Body(s) = s
  <2> HIDE DEF u, n
  <2>1. \A i \in 1..Len(u) : i \in 1..(n - m + 1) /\ m + i - 1 = n - Len(u) + i
    BY <1>1, <1>2
  <2>2. Len(u) <= n
    BY <1>1, <1>2
  <2> QED BY <1>2, <1>3, <2>1, <2>2 DEF EndOf, u, n
<1>4. CASE s # <<>> /\ Body(s) = Tail(s)
  <2>1. /\ Len(Tail(s)) = n - 1
        /\ \A i \in 1..(n - 1) : Tail(s)[i] = s[i + 1]
    BY <1>4, HeadTailProperties
  <2>2. n >= 1
    BY <1>1, <1>4, EmptySeq
  <2> HIDE DEF u, n
  <2>3. \A i \in 1..Len(u) :
          /\ i \in 1..(n - m + 1) /\ n - 1 - Len(u) + i \in 1..(n - 1)
          /\ m + i - 1 = n - 1 - Len(u) + i + 1
    BY <1>1, <1>2
  <2>4. Len(u) <= n - 1
    BY <1>1, <1>2, <2>2
  <2>5. \A i \in 1..Len(u) : u[i] = Tail(s)[n - 1 - Len(u) + i]
    BY <1>2, <2>1, <2>3
  <2>6. EndOf(u, Tail(s))
    BY <2>1, <2>4, <2>5 DEF EndOf
  <2> QED BY <1>2, <1>4, <2>6 DEF u, n
<1> QED BY <1>3, <1>4 DEF Body

\* The file that a truncation leaves: its length, its header and its lines.
LEMMA Truncated ==
  ASSUME NEW s \in Seq(AnyLine), \A i \in 2..Len(s) : s[i] \in LogLine
  PROVE  LET t == <<Header>> \o Kept(s) IN
         /\ t \in Seq(AnyLine) /\ t # <<>>
         /\ Bytes(t) \in Nat /\ Bytes(t) <= HeaderBytes + INSTALL_LOG_TAIL_BYTES
         /\ \A i \in 2..Len(t) : t[i] \in LogLine
         /\ EndOf(Body(t), Body(s))
<1> DEFINE k == Kept(s)
           t == <<Header>> \o k
           n == Len(s)
<1>1. s \in Seq(SomeLine) /\ n \in Nat
  BY LineTypes, SeqMonotonic, LenProperties
<1>2. /\ Bytes(k) <= INSTALL_LOG_TAIL_BYTES
      /\ \E m \in Nat : m >= 2 /\ k = SubSeq(s, m, n)
  BY <1>1, KeptIsAnEnd
<1> HIDE DEF k, n
<1>3. PICK m \in Nat : m >= 2 /\ k = SubSeq(s, m, n)
  BY <1>2
<1>4. k \in Seq(AnyLine) /\ EndOf(k, Body(s))
  BY <1>3, EndOfBody DEF n
<1>5. <<Header>> \in Seq(AnyLine) /\ Len(<<Header>>) = 1 /\ <<Header>>[1] = Header
  BY LineTypes
<1>6. /\ t \in Seq(AnyLine) /\ Len(t) = 1 + Len(k) /\ Len(k) \in Nat
      /\ \A i \in 1..(1 + Len(k)) : t[i] = IF i <= 1 THEN Header ELSE k[i - 1]
  <2> HIDE DEF t
  <2>1. \A i \in 1..1 : <<Header>>[i] = Header
    BY <1>5
  <2> QED BY <1>4, <1>5, <2>1, ConcatProperties, LenProperties DEF t
<1>7. t # <<>> /\ Head(t) = Header /\ Tail(t) = k
  <2> HIDE DEF t
  <2>1. t # <<>>
    BY <1>6, EmptySeq
  <2>2. t[1] = Header
    BY <1>6
  <2>3. Head(t) = Header
    BY <1>6, <2>1, <2>2
  <2>4. /\ Tail(t) \in Seq(AnyLine) /\ Len(Tail(t)) = Len(k)
        /\ \A i \in 1..Len(k) : Tail(t)[i] = t[i + 1]
    BY <1>6, <2>1, HeadTailProperties
  <2>5. \A i \in 1..Len(k) : t[i + 1] = k[i]
    BY <1>6
  <2>6. Tail(t) = k
    BY <1>4, <2>4, <2>5, SeqEqual
  <2> QED BY <2>1, <2>3, <2>6
<1>8. Bytes(t) = HeaderBytes + Bytes(k) /\ Bytes(k) \in Nat
  <2>1. Header \in SomeLine /\ <<Header>> \in Seq(SomeLine) /\ k \in Seq(SomeLine)
    BY <1>4, <1>5, LineTypes, SeqMonotonic
  <2>2. Bytes(<<Header>>) = HeaderBytes
    BY <2>1, LineTypes, BytesOfFew
  <2> QED BY <2>1, <2>2, BytesOfConcat, BytesType
<1>9. \A i \in 2..Len(t) : t[i] \in LogLine
  <2> HIDE DEF t
  <2> TAKE i \in 2..Len(t)
  <2>1. i \in 1..(1 + Len(k)) /\ t[i] = k[i - 1] /\ i - 1 \in 1..Len(k)
    BY <1>6
  <2>2. \A j \in m..n : s[j] \in AnyLine
    BY <1>1, <1>3, ElementOfSeq DEF n
  <2>3. /\ Len(k) = IF m <= n THEN n - m + 1 ELSE 0
        /\ \A j \in 1..(n - m + 1) : k[j] = s[m + j - 1]
    BY <1>1, <1>3, <2>2, SubSeqProperties
  <2>4. i - 1 \in 1..(n - m + 1) /\ m + (i - 1) - 1 \in 2..n
    BY <1>1, <1>3, <2>1, <2>3
  <2>5. t[i] = s[m + (i - 1) - 1]
    BY <2>1, <2>3, <2>4
  <2> QED BY <2>4, <2>5 DEF n
<1>10. Body(t) = k
  <2> HIDE DEF t
  <2> QED BY <1>7 DEF Body
<1>11. Bytes(t) \in Nat /\ Bytes(t) <= HeaderBytes + INSTALL_LOG_TAIL_BYTES
  <2>1. HeaderBytes \in Nat /\ INSTALL_LOG_TAIL_BYTES \in Nat
    BY LineTypes
  <2> HIDE DEF t
  <2> QED BY <1>2, <1>8, <2>1
<1> HIDE DEF t
<1>12. /\ t \in Seq(AnyLine) /\ t # <<>>
       /\ Bytes(t) \in Nat /\ Bytes(t) <= HeaderBytes + INSTALL_LOG_TAIL_BYTES
       /\ \A i \in 2..Len(t) : t[i] \in LogLine
       /\ EndOf(Body(t), Body(s))
  BY <1>4, <1>6, <1>7, <1>9, <1>10, <1>11
<1> QED BY <1>12 DEF t, k

-----------------------------------------------------------------------------
(***************************************************************************)
(* Every step keeps the invariant of the log.                              *)
(***************************************************************************)

\* It holds at first.
LEMMA LogInitInv ==
  ASSUME LogInit
  PROVE  LogTypeOK /\ LogIInv
<1>1. log = <<>> /\ logged = <<>> /\ file = 0 /\ \A w \in Writers : writer[w] = "start"
  BY DEF LogInit
<1>2. LogTypeOK
  BY EmptySeq DEF LogInit, LogTypeOK
<1>3. LockInv /\ WriterInv
  BY <1>1 DEF LockInv, WriterInv
<1>4. LinesInv
  <2>1. Body(<<>>) = <<>> /\ Len(<<>>) = 0
    BY DEF Body
  <2> QED BY <1>1, <2>1 DEF LinesInv, EndOf
<1>5. LengthInv
  BY <1>1, LineTypes, BytesOfFew DEF LengthInv
<1> QED BY <1>2, <1>3, <1>4, <1>5 DEF LogIInv

\* A step keeps the types.
LEMMA TypeStep ==
  ASSUME LogTypeOK, LinesInv, NEW w \in Writers, WriterStep(w) \/ Kill(w)
  PROVE  LogTypeOK'
<1>1. /\ log \in Seq(AnyLine) /\ logged \in Seq(LogLine) /\ file \in Nat
      /\ logLock \in Writers \cup {Nobody} /\ opened \in [Writers -> Nat]
      /\ size \in [Writers -> LineBytes] /\ temp \in [Writers -> Seq(AnyLine)]
      /\ writer \in [Writers -> {"start", "open", "append", "rewrite", "rename", "reopen",
                                 "append_unchecked", "done", "killed"}]
  BY DEF LogTypeOK
<1>2. CASE LockLog(w)
  BY <1>1, <1>2 DEF LockLog, Goto, LogTypeOK
<1>3. CASE OpenLog(w)
  BY <1>1, <1>3 DEF OpenLog, Goto, LogTypeOK
<1>4. CASE Rewrite(w)
  <2>1. <<Header>> \o Kept(log) \in Seq(AnyLine)
    BY <1>1, Truncated DEF LinesInv
  <2>2. temp' \in [Writers -> Seq(AnyLine)]
    BY <1>1, <1>4, <2>1 DEF Rewrite
  <2> QED BY <1>1, <1>4, <2>2 DEF Rewrite, Goto, LogTypeOK
<1>5. CASE Rename(w)
  <2>1. log' \in Seq(AnyLine)
    BY <1>1, <1>5 DEF Rename
  <2> QED BY <1>1, <1>5, <2>1 DEF Rename, Goto, LogTypeOK
<1>6. CASE Reopen(w)
  BY <1>1, <1>6 DEF Reopen, Goto, LogTypeOK
<1>7. CASE AppendLine(w)
  <2>1. Line(w, size[w]) \in LogLine /\ Line(w, size[w]) \in AnyLine
    BY <1>1 DEF Line, LogLine, AnyLine
  <2>2. /\ log' \in Seq(AnyLine) /\ logged' \in Seq(LogLine)
    BY <1>1, <1>7, <2>1, AppendProperties DEF AppendLine
  <2> QED BY <1>1, <1>7, <2>2 DEF AppendLine, Goto, LogTypeOK
<1>8. CASE Kill(w)
  BY <1>1, <1>8 DEF Kill, Goto, LogTypeOK
<1> QED BY <1>2, <1>3, <1>4, <1>5, <1>6, <1>7, <1>8 DEF WriterStep

\* A writer between opening the log and its return.
Working(w) ==
  writer[w] \in {"open", "append", "rewrite", "rename", "reopen", "append_unchecked"}

\* A step keeps the lock with the writer that works.
LEMMA LockStep ==
  ASSUME LogTypeOK, LockInv, NEW w \in Writers, WriterStep(w) \/ Kill(w)
  PROVE  LockInv'
<1>1. /\ writer' = [writer EXCEPT ![w] = writer'[w]] /\ DOMAIN writer = Writers
      /\ w # Nobody
  BY LineTypes DEF LogTypeOK, WriterStep, LockLog, OpenLog, Rewrite, Rename, Reopen, AppendLine,
     Kill, Goto
<1>2. ASSUME NEW v \in Writers \ {w}
      PROVE  writer'[v] = writer[v] /\ v # Nobody /\ (Working(v) => logLock = v)
  BY <1>1, LineTypes DEF LockInv, Working
<1>3. CASE LockLog(w)
  BY <1>1, <1>2, <1>3 DEF LockLog, Goto, LockInv, Working
<1>4. CASE OpenLog(w) \/ Rewrite(w) \/ Rename(w) \/ Reopen(w)
  BY <1>1, <1>2, <1>4 DEF OpenLog, Rewrite, Rename, Reopen, At, LockInv, Working
<1>5. CASE AppendLine(w) \/ Kill(w)
  <2>1. /\ writer'[w] \in {"done", "killed"}
        /\ logLock' = IF logLock = w THEN Nobody ELSE logLock
    BY <1>1, <1>5 DEF AppendLine, Kill, Goto
  <2> QED BY <1>2, <2>1 DEF LockInv, Working
<1> QED BY <1>3, <1>4, <1>5 DEF WriterStep

\* What the other writers know of the log stays true.
LEMMA OthersAreIdle ==
  ASSUME LockInv, NEW w \in Writers, Working(w), NEW v \in Writers \ {w}
  PROVE  ~Working(v)
BY DEF LockInv, Working

\* A step keeps what the writers know.
LEMMA WriterInvStep ==
  ASSUME LogTypeOK, LockInv, LinesInv, WriterInv,
         NEW w \in Writers, WriterStep(w) \/ Kill(w)
  PROVE  WriterInv'
<1> DEFINE Knows(v) ==
             /\ writer[v] \in {"append", "append_unchecked"} => opened[v] = file
             /\ writer[v] = "append" => Bytes(log) + size[v] <= INSTALL_LOG_MAX_BYTES
             /\ writer[v] = "rename" => temp[v] = <<Header>> \o Kept(log)
             /\ writer[v] \in {"reopen", "append_unchecked"} =>
                  Bytes(log) <= HeaderBytes + INSTALL_LOG_TAIL_BYTES
<1>1. \A v \in Writers : Knows(v)
  BY DEF WriterInv
<1>2. /\ writer' = [writer EXCEPT ![w] = writer'[w]] /\ DOMAIN writer = Writers
      /\ opened' = [opened EXCEPT ![w] = opened'[w]] /\ DOMAIN opened = Writers
      /\ temp' = [temp EXCEPT ![w] = temp'[w]] /\ DOMAIN temp = Writers /\ size' = size
  BY DEF LogTypeOK, WriterStep, LockLog, OpenLog, Rewrite, Rename, Reopen, AppendLine, Kill, Goto
<1>3. \A v \in Writers \ {w} :
        writer'[v] = writer[v] /\ opened'[v] = opened[v] /\ temp'[v] = temp[v]
  BY <1>2
<1>4. \A v \in Writers : ~Working(v) => Knows(v)
  BY DEF Working
<1>5. ASSUME NEW v \in Writers \ {w}
      PROVE  Knows(v)'
  <2>1. CASE log' = log /\ file' = file
    BY <1>1, <1>2, <1>3, <2>1
  <2>2. CASE Rename(w) \/ AppendLine(w)
    <3>1. Working(w)
      BY <2>2 DEF Rename, AppendLine, At, Working
    <3>2. ~Working(v)'
      BY <1>3, <3>1, OthersAreIdle DEF Working
    <3> QED BY <3>2 DEF Working
  <2> QED BY <2>1, <2>2 DEF WriterStep, LockLog, OpenLog, Rewrite, Reopen, Kill
<1>6. CASE LockLog(w) \/ Kill(w) \/ AppendLine(w)
  <2>1. writer'[w] \in {"open", "killed", "done"}
    BY <1>2, <1>6 DEF LockLog, Kill, AppendLine, Goto
  <2>2. Knows(w)'
    BY <2>1
  <2> QED BY <1>5, <2>2 DEF WriterInv
<1>7. CASE OpenLog(w)
  <2>1. opened'[w] = file' /\ log' = log
    BY <1>2, <1>7 DEF OpenLog
  <2>2. writer'[w] = IF LineIsTooLong(w) THEN "rewrite" ELSE "append"
    BY <1>2, <1>7 DEF OpenLog, Goto
  <2>3. Bytes(log) \in Nat /\ size[w] \in Nat /\ INSTALL_LOG_MAX_BYTES \in Nat
    BY LineTypes, SeqMonotonic, BytesType DEF LogTypeOK
  <2>4. ~LineIsTooLong(w) => Bytes(log) + size[w] <= INSTALL_LOG_MAX_BYTES
    BY <2>3 DEF LineIsTooLong
  <2>5. Knows(w)'
    BY <1>2, <2>1, <2>2, <2>4
  <2> QED BY <1>5, <2>5 DEF WriterInv
<1>8. CASE Rewrite(w)
  <2>1. writer'[w] = "rename" /\ temp'[w] = <<Header>> \o Kept(log) /\ log' = log
    BY <1>2, <1>8 DEF Rewrite, Goto
  <2>2. Knows(w)'
    BY <2>1
  <2> QED BY <1>5, <2>2 DEF WriterInv
<1>9. CASE Rename(w)
  <2>1. writer[w] = "rename" /\ writer'[w] = "reopen" /\ log' = temp[w]
    BY <1>2, <1>9 DEF Rename, At, Goto
  <2>2. log' = <<Header>> \o Kept(log)
    BY <1>1, <2>1
  <2>3. Bytes(log') <= HeaderBytes + INSTALL_LOG_TAIL_BYTES
    BY <2>2, Truncated DEF LogTypeOK, LinesInv
  <2>4. Knows(w)'
    BY <2>1, <2>3
  <2> QED BY <1>5, <2>4 DEF WriterInv
<1>10. CASE Reopen(w)
  <2>1. /\ writer[w] = "reopen" /\ writer'[w] = "append_unchecked" /\ log' = log
        /\ opened'[w] = file'
    BY <1>2, <1>10 DEF Reopen, At, Goto
  <2>2. Knows(w)'
    BY <1>1, <2>1
  <2> QED BY <1>5, <2>2 DEF WriterInv
<1> QED BY <1>6, <1>7, <1>8, <1>9, <1>10 DEF WriterStep

\* A step keeps the lines and the length of the log: only a rename and an
\* append change it.
LEMMA LogStep ==
  ASSUME LogTypeOK, LockInv, WriterInv, LinesInv, LengthInv,
         NEW w \in Writers, WriterStep(w) \/ Kill(w)
  PROVE  LinesInv' /\ LengthInv'
<1>1. /\ log \in Seq(AnyLine) /\ logged \in Seq(AnyLine) /\ log \in Seq(SomeLine)
      /\ file \in Nat /\ size[w] \in LineBytes
  BY LineTypes, SeqMonotonic DEF LogTypeOK
<1>2. CASE log' = log /\ file' = file /\ logged' = logged
  BY <1>2 DEF LinesInv, LengthInv
<1>3. CASE Rename(w)
  <2>1. log' = <<Header>> \o Kept(log) /\ file' = file + 1 /\ logged' = logged
    BY <1>3 DEF Rename, At, WriterInv
  <2>2. /\ log' \in Seq(AnyLine) /\ log' # <<>>
        /\ Bytes(log') \in Nat /\ Bytes(log') <= HeaderBytes + INSTALL_LOG_TAIL_BYTES
        /\ \A i \in 2..Len(log') : log'[i] \in LogLine
        /\ EndOf(Body(log'), Body(log))
    BY <1>1, <2>1, Truncated DEF LinesInv
  <2>3. EndOf(Body(log'), logged)
    BY <1>1, <2>2, BodyType, EndOfEnd DEF LinesInv
  <2>4. file' # 0
    BY <1>1, <2>1
  <2>5. LinesInv'
    BY <2>1, <2>2, <2>3, <2>4 DEF LinesInv
  <2>6. Last(log').bytes \in Nat
    <3>1. Len(log') \in 1..Len(log')
      BY <2>2, EmptySeq
    <3>2. Last(log') \in AnyLine
      BY <2>2, <3>1, ElementOfSeq DEF Last
    <3> QED BY <3>2, LineTypes DEF SomeLine
  <2>7. \A b, l \in Nat :
          b <= HeaderBytes + INSTALL_LOG_TAIL_BYTES => b <= HeaderBytes + INSTALL_LOG_TAIL_BYTES + l
    BY LineTypes
  <2> QED BY <2>2, <2>5, <2>6, <2>7 DEF LengthInv
<1>4. CASE AppendLine(w)
  <2> DEFINE l == Line(w, size[w])
  <2>1. writer[w] \in {"append", "append_unchecked"} /\ opened[w] = file
    BY <1>4 DEF AppendLine, WriterInv
  <2>2. log' = Append(log, l) /\ logged' = Append(logged, l) /\ file' = file
    BY <1>4, <2>1 DEF AppendLine
  <2>3. l \in LogLine /\ l \in AnyLine /\ l \in SomeLine /\ l.bytes = size[w]
    BY <1>1, LineTypes DEF Line, LogLine
  <2> HIDE DEF l
  <2>4. /\ Len(log') = Len(log) + 1 /\ Len(log) \in Nat /\ log'[Len(log) + 1] = l
        /\ \A i \in 1..Len(log) : log'[i] = log[i]
    BY <1>1, <2>2, <2>3, AppendProperties, LenProperties
  <2>5. \A i \in 2..Len(log') : log'[i] \in LogLine
    BY <2>3, <2>4 DEF LinesInv
  <2>6. EndOf(Body(log'), logged')
    <3>1. Body(log') = Append(Body(log), l)
      BY <1>1, <2>2, <2>3, BodyOfAppend
    <3>2. Body(log) \in Seq(AnyLine) /\ EndOf(Body(log), logged)
      BY <1>1, BodyType DEF LinesInv
    <3> QED BY <1>1, <2>2, <2>3, <3>1, <3>2, EndOfAppend
  <2>7. LinesInv'
    BY <2>2, <2>5, <2>6 DEF LinesInv
  <2>8. Last(log') = l
    BY <2>4 DEF Last
  <2>9. Bytes(log') = Bytes(log) + size[w] /\ Bytes(log) \in Nat
    <3>1. log' = log \o <<l>> /\ <<l>> \in Seq(SomeLine)
      BY <1>1, <2>2, <2>3, AppendIsConcat
    <3> QED BY <1>1, <2>3, <3>1, BytesOfConcat, BytesOfFew, BytesType
  <2>10. CASE writer[w] = "append"
    BY <2>7, <2>9, <2>10 DEF WriterInv, LengthInv
  <2>11. CASE writer[w] = "append_unchecked"
    <3>1. Bytes(log) <= HeaderBytes + INSTALL_LOG_TAIL_BYTES
      BY <2>11 DEF WriterInv
    <3>2. \A b, n \in Nat : b <= HeaderBytes + INSTALL_LOG_TAIL_BYTES
                             => b + n <= HeaderBytes + INSTALL_LOG_TAIL_BYTES + n
      BY LineTypes
    <3>3. Bytes(log') <= HeaderBytes + INSTALL_LOG_TAIL_BYTES + Last(log').bytes
      BY <1>1, <2>3, <2>8, <2>9, <3>1, <3>2, LineTypes
    <3> QED BY <2>7, <3>3 DEF LengthInv
  <2> QED BY <2>1, <2>10, <2>11
<1> QED BY <1>2, <1>3, <1>4 DEF WriterStep, LockLog, OpenLog, Rewrite, Reopen, Kill

-----------------------------------------------------------------------------
(***************************************************************************)
(* The theorems about the log.                                             *)
(***************************************************************************)

\* What is true of the log whenever no step is under way.
THEOREM LogInvariance == LogSpec => [](LogTypeOK /\ LogIInv)
<1>1. LogInit => LogTypeOK /\ LogIInv
  BY LogInitInv
<1>2. LogTypeOK /\ LogIInv /\ [LogNext]_logVars => (LogTypeOK /\ LogIInv)'
  <2> SUFFICES ASSUME LogTypeOK, LogIInv, [LogNext]_logVars
               PROVE  (LogTypeOK /\ LogIInv)'
    OBVIOUS
  <2>1. CASE UNCHANGED logVars
    BY <2>1 DEF logVars, LogTypeOK, LogIInv, LockInv, WriterInv, LinesInv, LengthInv
  <2>2. ASSUME NEW w \in Writers, WriterStep(w) \/ Kill(w)
        PROVE  (LogTypeOK /\ LogIInv)'
    BY <2>2, TypeStep, LockStep, WriterInvStep, LogStep DEF LogIInv
  <2> QED BY <2>1, <2>2 DEF LogNext
<1> QED BY <1>1, <1>2, PTL DEF LogSpec

\* The log is the end of all that was written, after the header of the last
\* truncation, and stays within its limit but for a line that exceeds it alone
\* (append_install_log_inner, log.rs:61-88; truncate_install_log, 108-129).
THEOREM LogStaysRecent == LogSpec => []LogIsRecent
<1>1. LogTypeOK /\ LogIInv => LogIsRecent
  <2> SUFFICES ASSUME LogTypeOK, LogIInv
               PROVE  LogIsRecent
    OBVIOUS
  <2>1. log \in Seq(AnyLine) /\ logged \in Seq(LogLine)
    BY DEF LogTypeOK
  <2>2. Body(log) \in Seq(SomeLine) /\ logged \in Seq(SomeLine)
    BY <2>1, LineTypes, SeqMonotonic, BodyType
  <2>3. IsSuffix(Body(log), logged)
    BY <2>2, EndIsSuffix DEF LogIInv, LinesInv
  <2>4. file = 0 => Body(log) = logged
    <3>1. log # <<>> /\ log \in Seq(LogLine) => Head(log) \in LogLine
      BY HeadTailProperties
    <3> QED BY <2>1, <3>1, LineTypes DEF LogIInv, LinesInv, Body
  <2> QED BY <2>3, <2>4 DEF LogIsRecent, LogIInv, LengthInv, Body
<1> QED BY <1>1, LogInvariance, PTL

-----------------------------------------------------------------------------
(***************************************************************************)
(* The stderr of the launches.  Ends of sequences.                         *)
(***************************************************************************)

\* The last STDERR_TAIL_BYTES bytes of s, and how many they are.
TailOf(s)   == IF Len(s) <= STDERR_TAIL_BYTES THEN s ELSE LastOf(s, STDERR_TAIL_BYTES)
TailSize(s) == IF Len(s) <= STDERR_TAIL_BYTES THEN Len(s) ELSE STDERR_TAIL_BYTES

\* The last n elements of s, one by one.
LEMMA LastOfProperties ==
  ASSUME NEW S, NEW s \in Seq(S), NEW n \in 0..Len(s)
  PROVE  /\ LastOf(s, n) \in Seq(S) /\ Len(LastOf(s, n)) = n
         /\ \A i \in 1..n : LastOf(s, n)[i] = s[Len(s) - n + i]
<1> DEFINE k == Len(s)
           m == k - n + 1
<1>1. k \in Nat /\ n \in Nat /\ n <= k
  BY LenProperties
<1>2. \A i \in m..k : s[i] \in S
  BY <1>1, ElementOfSeq
<1> HIDE DEF k
<1>3. m \in Int /\ k \in Int
  BY <1>1
<1> HIDE DEF m
<1>4. /\ SubSeq(s, m, k) \in Seq(S)
      /\ Len(SubSeq(s, m, k)) = IF m <= k THEN k - m + 1 ELSE 0
      /\ \A i \in 1..(k - m + 1) : SubSeq(s, m, k)[i] = s[m + i - 1]
  BY <1>2, <1>3, SubSeqProperties
<1>5. /\ (IF m <= k THEN k - m + 1 ELSE 0) = n /\ k - m + 1 = n
      /\ \A i \in 1..n : m + i - 1 = k - n + i
  BY <1>1 DEF m
<1>6. LastOf(s, n) = SubSeq(s, m, k)
  BY DEF LastOf, k, m
<1> QED BY <1>4, <1>5, <1>6 DEF k

\* The tail of s, byte by byte.
LEMMA TailOfProperties ==
  ASSUME NEW S, NEW s \in Seq(S)
  PROVE  /\ TailOf(s) \in Seq(S) /\ Len(TailOf(s)) = TailSize(s)
         /\ TailSize(s) \in 0..Len(s)
         /\ \A i \in 1..TailSize(s) : TailOf(s)[i] = s[Len(s) - TailSize(s) + i]
<1>1. Len(s) \in Nat /\ STDERR_TAIL_BYTES \in Nat
  BY LenProperties, StderrAssumption
<1>2. CASE Len(s) <= STDERR_TAIL_BYTES
  <2>1. TailOf(s) = s /\ TailSize(s) = Len(s)
    BY <1>2 DEF TailOf, TailSize
  <2>2. \A i \in 1..Len(s) : Len(s) - Len(s) + i = i
    BY <1>1
  <2> QED BY <1>1, <2>1, <2>2
<1>3. CASE ~(Len(s) <= STDERR_TAIL_BYTES)
  <2>1. TailOf(s) = LastOf(s, STDERR_TAIL_BYTES) /\ TailSize(s) = STDERR_TAIL_BYTES
    BY <1>3 DEF TailOf, TailSize
  <2>2. STDERR_TAIL_BYTES \in 0..Len(s)
    BY <1>1, <1>3
  <2> QED BY <2>1, <2>2, LastOfProperties
<1> QED BY <1>2, <1>3

\* A line and its end, appended to what was printed, byte by byte.
LEMMA LineAppended ==
  ASSUME NEW s \in Seq(Nat), NEW line \in Seq(Nat)
  PROVE  LET r == Append(s \o line, 0) IN
         /\ r \in Seq(Nat) /\ Len(r) = Len(s) + Len(line) + 1
         /\ \A i \in 1..Len(s) : r[i] = s[i]
         /\ \A i \in 1..Len(line) : r[Len(s) + i] = line[i]
         /\ r[Len(s) + Len(line) + 1] = 0
<1> DEFINE n == Len(s)
           k == Len(line)
           c == s \o line
           r == Append(c, 0)
<1>1. /\ n \in Nat /\ k \in Nat /\ c \in Seq(Nat) /\ Len(c) = n + k
      /\ \A i \in 1..n + k : c[i] = IF i <= n THEN s[i] ELSE line[i - n]
  BY ConcatProperties, LenProperties
<1> HIDE DEF n, k, c
<1>2. /\ r \in Seq(Nat) /\ Len(r) = n + k + 1 /\ r[n + k + 1] = 0
      /\ \A i \in 1..n + k : r[i] = c[i]
  BY <1>1, AppendProperties
<1> HIDE DEF r
<1>3. \A i \in 1..n : r[i] = s[i]
  BY <1>1, <1>2
<1>4. \A i \in 1..k : r[n + i] = line[i]
  <2> TAKE i \in 1..k
  <2>1. n + i \in 1..n + k /\ ~(n + i <= n) /\ n + i - n = i
    BY <1>1
  <2> QED BY <1>1, <1>2, <2>1
<1> QED BY <1>2, <1>3, <1>4 DEF n, k, c, r

\* push_stderr keeps the last bytes of all that was printed, whatever the
\* length of the line.
LEMMA PushedIsTail ==
  ASSUME NEW s \in Seq(Nat), NEW line \in Seq(Nat)
  PROVE  Pushed(TailOf(s), line) = TailOf(Append(s \o line, 0))
<1> DEFINE T == STDERR_TAIL_BYTES
           n == Len(s)
           k == Len(line)
           r == Append(s \o line, 0)
           z == TailSize(r)
           p == Pushed(TailOf(s), line)
<1>1. n \in Nat /\ k \in Nat /\ T \in Nat /\ T >= 1
  BY LenProperties, StderrAssumption
<1>2. /\ r \in Seq(Nat) /\ Len(r) = n + k + 1 /\ r[n + k + 1] = 0
      /\ \A i \in 1..n : r[i] = s[i]
      /\ \A i \in 1..k : r[n + i] = line[i]
  BY LineAppended
<1> HIDE DEF r
<1>3. /\ TailOf(r) \in Seq(Nat) /\ Len(TailOf(r)) = z
      /\ \A i \in 1..z : TailOf(r)[i] = r[n + k + 1 - z + i]
      /\ z = IF n + k + 1 <= T THEN n + k + 1 ELSE T
  <2>1. z = IF n + k + 1 <= T THEN n + k + 1 ELSE T
    BY <1>2 DEF TailSize
  <2>2. /\ TailOf(r) \in Seq(Nat) /\ Len(TailOf(r)) = z
        /\ \A i \in 1..z : TailOf(r)[i] = r[Len(r) - z + i]
    BY <1>2, TailOfProperties
  <2> HIDE DEF z, n, k, T
  <2>3. Len(r) = n + k + 1
    BY <1>2
  <2>4. \A i \in 1..z : TailOf(r)[i] = r[n + k + 1 - z + i]
    <3> TAKE i \in 1..z
    <3>1. TailOf(r)[i] = r[Len(r) - z + i]
      BY <2>2
    <3>2. z \in Nat /\ i \in Nat
      BY <1>1, <2>1
    <3>3. Len(r) - z + i = n + k + 1 - z + i
      BY <1>1, <2>3, <3>2
    <3> QED BY <3>1, <3>3
  <2> QED BY <2>1, <2>2, <2>4
<1> HIDE DEF z
<1>4. SUFFICES p \in Seq(Nat) /\ Len(p) = z /\ \A i \in 1..z : p[i] = r[n + k + 1 - z + i]
  <2> HIDE DEF p
  <2>1. \A i \in 1..Len(p) : p[i] = TailOf(r)[i]
    BY <1>3, <1>4
  <2>2. p = TailOf(r)
    BY <1>3, <1>4, <2>1, SeqEqual
  <2> QED BY <2>2 DEF p, r
<1>5. CASE k + 1 >= T
  <2> DEFINE e == LastOf(line, T - 1)
  <2>1. p = Append(e, 0)
    BY <1>5 DEF Pushed
  <2>2. T - 1 \in 0..k /\ z = T
    BY <1>1, <1>3, <1>5
  <2>3. /\ e \in Seq(Nat) /\ Len(e) = T - 1
        /\ \A i \in 1..(T - 1) : e[i] = line[k - (T - 1) + i]
    BY <2>2, LastOfProperties
  <2> HIDE DEF e, p, n, k, T
  <2>4. /\ p \in Seq(Nat) /\ Len(p) = T /\ p[T] = 0
        /\ \A i \in 1..(T - 1) : p[i] = e[i]
    <3>1. (T - 1) + 1 = T
      BY <1>1
    <3> QED BY <2>1, <2>3, <3>1, AppendProperties
  <2>5. ASSUME NEW i \in 1..z
        PROVE  p[i] = r[n + k + 1 - z + i]
    <3>1. CASE i = T
      <4>1. n + k + 1 - z + i = n + k + 1
        BY <1>1, <2>2, <3>1
      <4> QED BY <1>2, <2>4, <3>1, <4>1
    <3>2. CASE i # T
      <4>1. /\ i \in 1..(T - 1) /\ k - (T - 1) + i \in 1..k
            /\ n + (k - (T - 1) + i) = n + k + 1 - z + i
        BY <1>1, <1>5, <2>2, <3>2
      <4>2. p[i] = line[k - (T - 1) + i]
        BY <2>3, <2>4, <4>1
      <4>3. line[k - (T - 1) + i] = r[n + (k - (T - 1) + i)]
        BY <1>2, <4>1
      <4> QED BY <4>1, <4>2, <4>3
    <3> QED BY <3>1, <3>2
  <2> QED BY <2>2, <2>4, <2>5
<1>6. CASE ~(k + 1 >= T)
  <2> DEFINE t == TailOf(s)
             room == T - (k + 1)
             q == IF Len(t) > room THEN LastOf(t, room) ELSE t
             m == IF n > room THEN room ELSE n
  <2>1. p = Append(q \o line, 0)
    BY <1>6 DEF Pushed
  <2>2. /\ t \in Seq(Nat) /\ Len(t) = TailSize(s)
        /\ \A i \in 1..TailSize(s) : t[i] = s[n - TailSize(s) + i]
    BY TailOfProperties
  <2>3. TailSize(s) = IF n <= T THEN n ELSE T
    BY DEF TailSize
  <2>4. room \in Nat /\ m \in Nat /\ m <= n /\ z = m + k + 1 /\ room < T
    <3> HIDE DEF n, k, T
    <3> QED BY <1>1, <1>3, <1>6
  <2> DEFINE o == TailSize(s)
  <2>5. /\ q \in Seq(Nat) /\ Len(q) = m
        /\ \A i \in 1..m : q[i] = s[n - m + i]
    <3> HIDE DEF t, n, k, T, room, o
    <3>1. CASE o > room
      <4>1. q = LastOf(t, room) /\ m = room /\ room \in 0..o /\ o \in Nat
        BY <1>1, <2>2, <2>3, <2>4, <3>1 DEF o
      <4> HIDE DEF m, q
      <4>2. /\ q \in Seq(Nat) /\ Len(q) = m
            /\ \A i \in 1..m : q[i] = t[o - m + i]
        <5>1. Len(t) = o /\ m \in 0..Len(t) /\ q = LastOf(t, m)
          BY <2>2, <4>1 DEF o
        <5>2. /\ LastOf(t, m) \in Seq(Nat) /\ Len(LastOf(t, m)) = m
              /\ \A i \in 1..m : LastOf(t, m)[i] = t[Len(t) - m + i]
          BY <2>2, <5>1, LastOfProperties
        <5> QED BY <5>1, <5>2
      <4>3. \A i \in 1..m : o - m + i \in 1..o /\ n - o + (o - m + i) = n - m + i
        BY <1>1, <2>4, <4>1
      <4>4. \A i \in 1..m : t[o - m + i] = s[n - m + i]
        BY <2>2, <4>3 DEF o
      <4> QED BY <4>2, <4>4
    <3>2. CASE ~(o > room)
      <4>1. q = t /\ m = n /\ o = n
        BY <1>1, <2>2, <2>3, <2>4, <3>2 DEF o
      <4> HIDE DEF m, q
      <4> QED BY <2>2, <4>1 DEF o
    <3> QED BY <3>1, <3>2
  <2> HIDE DEF t, q, m, o
  <2>6. /\ p \in Seq(Nat) /\ Len(p) = m + k + 1 /\ p[m + k + 1] = 0
        /\ \A i \in 1..m : p[i] = q[i]
        /\ \A i \in 1..k : p[m + i] = line[i]
    <3> HIDE DEF p
    <3> QED BY <2>1, <2>5, LineAppended
  <2> HIDE DEF p, n, k, T
  <2>7. ASSUME NEW i \in 1..z
        PROVE  p[i] = r[n + k + 1 - z + i]
    <3>1. n + k + 1 - z + i = n - m + i /\ i \in Nat
      BY <1>1, <2>4
    <3>2. CASE i <= m
      <4>1. i \in 1..m /\ n - m + i \in 1..n
        BY <1>1, <2>4, <3>2
      <4>2. p[i] = s[n - m + i]
        BY <2>5, <2>6, <4>1
      <4> QED BY <1>2, <3>1, <4>1, <4>2
    <3>3. CASE i > m /\ i <= m + k
      <4>1. i - m \in 1..k /\ m + (i - m) = i /\ n + (i - m) = n - m + i
        BY <1>1, <2>4, <3>3
      <4>2. p[i] = line[i - m]
        BY <2>6, <4>1
      <4>3. line[i - m] = r[n + (i - m)]
        BY <1>2, <4>1
      <4> QED BY <3>1, <4>1, <4>2, <4>3
    <3>4. CASE i > m + k
      <4>1. i = m + k + 1 /\ n - m + i = n + k + 1
        BY <1>1, <2>4, <3>4
      <4> QED BY <1>2, <2>6, <3>1, <4>1
    <3> QED BY <1>1, <2>4, <3>1, <3>2, <3>3, <3>4
  <2> QED BY <2>4, <2>6, <2>7
<1> QED BY <1>5, <1>6

-----------------------------------------------------------------------------
(***************************************************************************)
(* The inductive invariant of the tails and the queue.                     *)
(***************************************************************************)

Queued == [by : Launches, line : Nat]

StderrTypeOK ==
  /\ tail \in [Launches -> Seq(Nat)] /\ printed \in [Launches -> Seq(Nat)]
  /\ count \in [Launches -> Nat] /\ pending \in [Launches -> Seq(Nat)]
  /\ channel \in Seq(Queued)
  /\ dropped \in Nat /\ reported \in Nat /\ echoed \in Nat

\* What is kept of a launch is the tail of what it has printed.
TailInv == \A l \in Launches : tail[l] = TailOf(printed[l])

\* The line that a launch is about to queue is its latest, and the lines of it
\* in the queue are older, in the order in which it printed them.
OrderInv ==
  /\ \A l \in Launches : pending[l] = <<>> \/ pending[l] = <<count[l]>>
  /\ \A i \in 1..Len(channel) :
       /\ channel[i].line <= count[channel[i].by]
       /\ pending[channel[i].by] # <<>> => channel[i].line < count[channel[i].by]
  /\ \A i, j \in 1..Len(channel) :
       i < j /\ channel[i].by = channel[j].by => channel[i].line < channel[j].line

\* Each line that was printed is somewhere.
CountInv ==
  /\ IsFiniteSet(Forwarded)
  /\ echoed + Len(channel) + dropped + Cardinality(Waiting) = Cardinality(Forwarded)

\* The queue has room for no more than its capacity, and no line is reported
\* as dropped that was not.
LimitInv == Len(channel) <= STDERR_CHANNEL_CAPACITY /\ reported <= dropped

StderrIInv == TailInv /\ OrderInv /\ CountInv /\ LimitInv

-----------------------------------------------------------------------------
(***************************************************************************)
(* Every step keeps the invariant of the tails and the queue.              *)
(***************************************************************************)

\* It holds at first.
LEMMA StderrInitInv ==
  ASSUME StderrInit
  PROVE  StderrTypeOK /\ StderrIInv
<1>1. /\ tail = [l \in Launches |-> <<>>] /\ printed = tail /\ pending = tail
      /\ count = [l \in Launches |-> 0]
      /\ channel = <<>> /\ dropped = 0 /\ reported = 0 /\ echoed = 0
  BY DEF StderrInit
<1>2. StderrTypeOK
  <2>1. <<>> \in Seq(Nat) /\ channel \in Seq(Queued)
    BY <1>1, EmptySeq
  <2> QED BY <1>1, <2>1 DEF StderrTypeOK
<1>3. TailInv
  <2>1. TailOf(<<>>) = <<>>
    BY StderrAssumption DEF TailOf
  <2> QED BY <1>1, <2>1 DEF TailInv
<1>4. OrderInv
  BY <1>1 DEF OrderInv
<1>5. CountInv
  <2>1. Forwarded = {}
    BY <1>1 DEF Forwarded
  <2>2. Waiting = {}
    BY <1>1 DEF Waiting
  <2> QED BY <1>1, <2>1, <2>2, FS_EmptySet DEF CountInv
<1>6. LimitInv
  BY <1>1, StderrAssumption DEF LimitInv
<1> QED BY <1>2, <1>3, <1>4, <1>5, <1>6 DEF StderrIInv

\* Those that wait are finitely many.
LEMMA WaitingType ==
  IsFiniteSet(Waiting) /\ Cardinality(Waiting) \in Nat
<1>1. Waiting \in SUBSET Launches
  BY DEF Waiting
<1> QED BY <1>1, FS_Subset, FS_CardinalityType, StderrAssumption

\* A line that is printed and kept.
LEMMA KeepStep ==
  ASSUME StderrTypeOK, StderrIInv, NEW l \in Launches, NEW n \in Lengths, Keep(l, n)
  PROVE  StderrTypeOK' /\ StderrIInv'
<1> DEFINE line == [i \in 1..n |-> count[l] + 1]
<1>1. /\ tail \in [Launches -> Seq(Nat)] /\ printed \in [Launches -> Seq(Nat)]
      /\ count \in [Launches -> Nat] /\ pending \in [Launches -> Seq(Nat)]
      /\ channel \in Seq(Queued) /\ Len(channel) \in Nat
      /\ dropped \in Nat /\ reported \in Nat /\ echoed \in Nat
  BY LenProperties DEF StderrTypeOK
<1>2. /\ pending[l] = <<>>
      /\ count' = [count EXCEPT ![l] = @ + 1]
      /\ tail' = [tail EXCEPT ![l] = Pushed(@, line)]
      /\ printed' = [printed EXCEPT ![l] = Append(@ \o line, 0)]
      /\ pending' = [pending EXCEPT ![l] = <<count[l] + 1>>]
      /\ channel' = channel /\ dropped' = dropped /\ reported' = reported /\ echoed' = echoed
  BY DEF Keep
<1>3. line \in Seq(Nat)
  BY <1>1, StderrAssumption
<1> HIDE DEF line
<1>4. /\ Append(printed[l] \o line, 0) \in Seq(Nat)
      /\ Pushed(tail[l], line) = TailOf(Append(printed[l] \o line, 0))
  BY <1>1, <1>3, LineAppended, PushedIsTail DEF StderrIInv, TailInv
<1>5. Pushed(tail[l], line) \in Seq(Nat)
  BY <1>4, TailOfProperties
<1>6. StderrTypeOK'
  BY <1>1, <1>2, <1>4, <1>5 DEF StderrTypeOK
<1>7. TailInv'
  BY <1>1, <1>2, <1>4 DEF StderrIInv, TailInv
<1>8. OrderInv'
  <2>1. ASSUME NEW m \in Launches
        PROVE  pending'[m] = <<>> \/ pending'[m] = <<count'[m]>>
    <3>1. CASE m = l
      <4>1. pending'[m] = <<count[l] + 1>> /\ count'[m] = count[l] + 1
        BY <1>1, <1>2, <3>1
      <4> QED BY <4>1
    <3>2. CASE m # l
      <4>1. pending'[m] = pending[m] /\ count'[m] = count[m]
        BY <1>1, <1>2, <3>2
      <4> QED BY <4>1 DEF StderrIInv, OrderInv
    <3> QED BY <3>1, <3>2
  <2>2. \A i \in 1..Len(channel) : channel[i].by \in Launches /\ channel[i].line \in Nat
    <3>1. \A i \in 1..Len(channel) : channel[i] \in Queued
      BY <1>1, ElementOfSeq
    <3> QED BY <3>1 DEF Queued
  <2>3. \A i \in 1..Len(channel) : channel[i].line <= count[channel[i].by]
    BY DEF StderrIInv, OrderInv
  <2>4. ASSUME NEW i \in 1..Len(channel)
        PROVE  /\ channel[i].line <= count'[channel[i].by]
               /\ pending'[channel[i].by] # <<>> => channel[i].line < count'[channel[i].by]
    <3>1. CASE channel[i].by = l
      <4>1. count'[channel[i].by] = count[l] + 1 /\ count[l] \in Nat
        BY <1>1, <1>2, <3>1
      <4> QED BY <2>2, <2>3, <3>1, <4>1
    <3>2. CASE channel[i].by # l
      <4>1. /\ count'[channel[i].by] = count[channel[i].by]
            /\ pending'[channel[i].by] = pending[channel[i].by]
        BY <1>1, <1>2, <2>2, <3>2
      <4> QED BY <4>1 DEF StderrIInv, OrderInv
    <3> QED BY <3>1, <3>2
  <2>5. \A i, j \in 1..Len(channel) :
          i < j /\ channel[i].by = channel[j].by => channel[i].line < channel[j].line
    BY DEF StderrIInv, OrderInv
  <2> QED BY <1>2, <2>1, <2>4, <2>5 DEF OrderInv
<1>9. CountInv'
  <2> DEFINE new == <<l, count[l] + 1>>
  <2>1. Forwarded' = Forwarded \cup {new} /\ new \notin Forwarded
    <3>1. \A m \in Launches : count[m] \in Nat
      BY <1>1
    <3>2. \A m \in Launches : count'[m] = IF m = l THEN count[m] + 1 ELSE count[m]
      BY <1>1, <1>2
    <3>3. \A k \in Nat : 1..(k + 1) = (1..k) \cup {k + 1} /\ k + 1 \notin 1..k
      OBVIOUS
    <3>4. \A m \in Launches :
            {m} \X (1..count'[m]) =
              IF m = l THEN ({m} \X (1..count[m])) \cup {new} ELSE {m} \X (1..count[m])
      <4> TAKE m \in Launches
      <4>1. CASE m = l
        <5>1. 1..count'[m] = (1..count[m]) \cup {count[m] + 1}
          BY <3>1, <3>2, <3>3, <4>1
        <5> QED BY <4>1, <5>1
      <4>2. CASE m # l
        BY <3>2, <4>2
      <4> QED BY <4>1, <4>2
    <3>5. Forwarded' = Forwarded \cup {new}
      BY <3>4 DEF Forwarded
    <3>6. new \notin Forwarded
      BY <3>1, <3>3 DEF Forwarded
    <3> QED BY <3>5, <3>6
  <2>2. Waiting' = Waiting \cup {l} /\ l \notin Waiting
    BY <1>1, <1>2 DEF Waiting
  <2> HIDE DEF new
  <2>3. IsFiniteSet(Forwarded) /\ Cardinality(Forwarded) \in Nat
    BY FS_CardinalityType DEF StderrIInv, CountInv
  <2>4. IsFiniteSet(Forwarded') /\ Cardinality(Forwarded') = Cardinality(Forwarded) + 1
    BY <2>1, <2>3, FS_AddElement
  <2>5. Cardinality(Waiting') = Cardinality(Waiting) + 1 /\ Cardinality(Waiting) \in Nat
    BY <2>2, WaitingType, FS_AddElement
  <2>6. echoed + Len(channel) + dropped + Cardinality(Waiting) = Cardinality(Forwarded)
    BY DEF StderrIInv, CountInv
  <2>7. echoed + Len(channel) + dropped + (Cardinality(Waiting) + 1) = Cardinality(Forwarded) + 1
    BY <1>1, <2>3, <2>5, <2>6
  <2> QED BY <1>2, <2>4, <2>5, <2>7 DEF CountInv
<1>10. LimitInv'
  BY <1>2 DEF StderrIInv, LimitInv
<1> QED BY <1>6, <1>7, <1>8, <1>9, <1>10 DEF StderrIInv

\* A line that is put into the queue, or dropped.
LEMMA QueueStep ==
  ASSUME StderrTypeOK, StderrIInv, NEW l \in Launches, Queue(l)
  PROVE  StderrTypeOK' /\ StderrIInv'
<1> DEFINE e == [by |-> l, line |-> pending[l][1]]
           n == Len(channel)
<1>1. /\ tail \in [Launches -> Seq(Nat)] /\ printed \in [Launches -> Seq(Nat)]
      /\ count \in [Launches -> Nat] /\ pending \in [Launches -> Seq(Nat)]
      /\ channel \in Seq(Queued) /\ n \in Nat
      /\ dropped \in Nat /\ reported \in Nat /\ echoed \in Nat
  BY LenProperties DEF StderrTypeOK
<1>2. /\ pending[l] # <<>> /\ pending' = [pending EXCEPT ![l] = <<>>]
      /\ IF n < STDERR_CHANNEL_CAPACITY
         THEN channel' = Append(channel, e) /\ dropped' = dropped
         ELSE dropped' = dropped + 1 /\ channel' = channel
      /\ tail' = tail /\ printed' = printed /\ count' = count
      /\ reported' = reported /\ echoed' = echoed
  BY DEF Queue
<1>3. e.by = l /\ e.line = count[l] /\ e \in Queued
  <2>1. pending[l][1] = count[l] /\ count[l] \in Nat
    BY <1>1, <1>2 DEF StderrIInv, OrderInv
  <2> QED BY <2>1 DEF Queued
<1> HIDE DEF e, n
<1>4. /\ Append(channel, e) \in Seq(Queued) /\ Len(Append(channel, e)) = n + 1
      /\ \A i \in 1..n : Append(channel, e)[i] = channel[i]
      /\ Append(channel, e)[n + 1] = e
  BY <1>1, <1>3, AppendProperties DEF n
<1>5. \A m \in Launches : pending'[m] = IF m = l THEN <<>> ELSE pending[m]
  BY <1>1, <1>2
<1>6. StderrTypeOK'
  <2>1. pending' \in [Launches -> Seq(Nat)]
    <3>1. <<>> \in Seq(Nat)
      BY EmptySeq
    <3>2. pending' = [pending EXCEPT ![l] = <<>>] /\ pending \in [Launches -> Seq(Nat)]
      BY <1>1, <1>2
    <3> QED BY <3>1, <3>2
  <2>2. /\ channel' = channel \/ channel' = Append(channel, e)
        /\ dropped' = dropped \/ dropped' = dropped + 1
    BY <1>2
  <2>3. channel' \in Seq(Queued)
    BY <1>1, <1>4, <2>2
  <2>4. dropped' \in Nat
    BY <1>1, <2>2
  <2> QED BY <1>1, <1>2, <2>1, <2>3, <2>4 DEF StderrTypeOK
<1>7. TailInv'
  BY <1>2 DEF StderrIInv, TailInv
<1>8. OrderInv'
  <2>1. ASSUME NEW m \in Launches
        PROVE  pending'[m] = <<>> \/ pending'[m] = <<count'[m]>>
    <3>1. (pending'[m] = <<>> \/ pending'[m] = pending[m]) /\ count'[m] = count[m]
      BY <1>2, <1>5
    <3> QED BY <3>1 DEF StderrIInv, OrderInv
  <2>2. \A i \in 1..n : channel[i].by \in Launches /\ channel[i].line \in Nat
    <3>1. \A i \in 1..n : channel[i] \in Queued
      BY <1>1, ElementOfSeq DEF n
    <3> QED BY <3>1 DEF Queued
  <2>3. ASSUME NEW i \in 1..n
        PROVE  /\ channel[i].line <= count'[channel[i].by]
               /\ pending'[channel[i].by] # <<>> => channel[i].line < count'[channel[i].by]
               /\ channel[i].by = l => channel[i].line < count[l]
    BY <1>2, <1>5, <2>2 DEF StderrIInv, OrderInv, n
  <2>4. \A i, j \in 1..n :
          i < j /\ channel[i].by = channel[j].by => channel[i].line < channel[j].line
    BY DEF StderrIInv, OrderInv, n
  <2>5. CASE channel' = channel
    BY <2>1, <2>3, <2>4, <2>5 DEF OrderInv, n
  <2>6. CASE channel' = Append(channel, e)
    <3>1. /\ Len(channel') = n + 1 /\ channel'[n + 1] = e
          /\ \A i \in 1..n : channel'[i] = channel[i]
      BY <1>4, <2>6
    <3>2. ASSUME NEW i \in 1..(n + 1)
          PROVE  /\ channel'[i].line <= count'[channel'[i].by]
                 /\ pending'[channel'[i].by] # <<>> => channel'[i].line < count'[channel'[i].by]
      <4>1. CASE i = n + 1
        <5>1. e.line <= count'[e.by] /\ pending'[e.by] = <<>>
          BY <1>1, <1>2, <1>3, <1>5
        <5> QED BY <3>1, <4>1, <5>1
      <4>2. CASE i # n + 1
        <5>1. i \in 1..n
          BY <1>1, <4>2
        <5> QED BY <2>3, <3>1, <5>1
      <4> QED BY <4>1, <4>2
    <3>3. ASSUME NEW i \in 1..(n + 1), NEW j \in 1..(n + 1),
                 i < j, channel'[i].by = channel'[j].by
          PROVE  channel'[i].line < channel'[j].line
      <4>1. i \in 1..n
        BY <1>1, <3>3
      <4>2. CASE j = n + 1
        <5>1. channel[i].by = l
          BY <1>3, <3>1, <3>3, <4>1, <4>2
        <5> QED BY <1>3, <2>3, <3>1, <4>1, <4>2, <5>1
      <4>3. CASE j # n + 1
        <5>1. j \in 1..n
          BY <1>1, <4>3
        <5> QED BY <2>4, <3>1, <3>3, <4>1, <5>1
      <4> QED BY <4>2, <4>3
    <3> QED BY <2>1, <3>1, <3>2, <3>3 DEF OrderInv
  <2> QED BY <1>2, <2>5, <2>6
<1>9. CountInv'
  <2>1. Forwarded' = Forwarded
    BY <1>2 DEF Forwarded
  <2>2. Waiting' = Waiting \ {l} /\ l \in Waiting
    BY <1>2, <1>5 DEF Waiting
  <2>3. IsFiniteSet(Forwarded) /\ Cardinality(Forwarded) \in Nat
    BY FS_CardinalityType DEF StderrIInv, CountInv
  <2>4. Cardinality(Waiting') = Cardinality(Waiting) - 1 /\ Cardinality(Waiting) \in Nat
    BY <2>2, WaitingType, FS_RemoveElement
  <2>5. echoed + n + dropped + Cardinality(Waiting) = Cardinality(Forwarded)
    BY DEF StderrIInv, CountInv, n
  <2>6. \/ Len(channel') = n + 1 /\ dropped' = dropped
        \/ Len(channel') = n /\ dropped' = dropped + 1
    BY <1>2, <1>4 DEF n
  <2>7. echoed + Len(channel') + dropped' + (Cardinality(Waiting) - 1) = Cardinality(Forwarded)
    <3>1. /\ echoed + (n + 1) + dropped + (Cardinality(Waiting) - 1) = Cardinality(Forwarded)
          /\ echoed + n + (dropped + 1) + (Cardinality(Waiting) - 1) = Cardinality(Forwarded)
      BY <1>1, <2>3, <2>4, <2>5
    <3> QED BY <2>6, <3>1
  <2> QED BY <1>2, <2>1, <2>3, <2>4, <2>7 DEF CountInv
<1>10. LimitInv'
  <2>1. STDERR_CHANNEL_CAPACITY \in Nat
    BY StderrAssumption
  <2>2. n <= STDERR_CHANNEL_CAPACITY /\ reported <= dropped
    BY DEF StderrIInv, LimitInv, n
  <2>3. Len(channel') <= STDERR_CHANNEL_CAPACITY
    BY <1>1, <1>2, <1>4, <2>1, <2>2 DEF n
  <2>4. reported' <= dropped'
    BY <1>1, <1>2, <2>2
  <2> QED BY <2>3, <2>4 DEF LimitInv
<1> QED BY <1>6, <1>7, <1>8, <1>9, <1>10 DEF StderrIInv

\* A line that the server's task prints.
LEMMA EchoStep ==
  ASSUME StderrTypeOK, StderrIInv, Echo
  PROVE  StderrTypeOK' /\ StderrIInv'
<1> DEFINE n == Len(channel)
<1>1. /\ channel \in Seq(Queued) /\ n \in Nat
      /\ dropped \in Nat /\ reported \in Nat /\ echoed \in Nat
  BY LenProperties DEF StderrTypeOK
<1>2. /\ channel # <<>> /\ channel' = Tail(channel) /\ echoed' = echoed + 1
      /\ reported' \in {reported, dropped}
      /\ tail' = tail /\ printed' = printed /\ count' = count /\ pending' = pending
      /\ dropped' = dropped
  BY DEF Echo
<1>3. /\ channel' \in Seq(Queued) /\ Len(channel') = n - 1 /\ n >= 1
      /\ \A i \in 1..(n - 1) : channel'[i] = channel[i + 1]
  <2>1. n >= 1
    BY <1>1, <1>2, EmptySeq
  <2> QED BY <1>1, <1>2, <2>1, HeadTailProperties
<1> HIDE DEF n
<1>4. StderrTypeOK'
  BY <1>1, <1>2, <1>3 DEF StderrTypeOK
<1>5. TailInv'
  BY <1>2 DEF StderrIInv, TailInv
<1>6. OrderInv'
  <2>1. \A l \in Launches : pending'[l] = <<>> \/ pending'[l] = <<count'[l]>>
    BY <1>2 DEF StderrIInv, OrderInv
  <2>2. \A i \in 1..(n - 1) : i + 1 \in 1..n
    BY <1>1, <1>3
  <2>3. \A i \in 1..(n - 1) :
          /\ channel'[i].line <= count'[channel'[i].by]
          /\ pending'[channel'[i].by] # <<>> => channel'[i].line < count'[channel'[i].by]
    BY <1>2, <1>3, <2>2 DEF StderrIInv, OrderInv, n
  <2>4. ASSUME NEW i \in 1..(n - 1), NEW j \in 1..(n - 1),
               i < j, channel'[i].by = channel'[j].by
        PROVE  channel'[i].line < channel'[j].line
    <3>1. i + 1 \in 1..n /\ j + 1 \in 1..n /\ i + 1 < j + 1
      BY <1>1, <2>2, <2>4
    <3>2. channel'[i] = channel[i + 1] /\ channel'[j] = channel[j + 1]
      BY <1>3
    <3> QED BY <2>4, <3>1, <3>2 DEF StderrIInv, OrderInv, n
  <2> QED BY <1>3, <2>1, <2>3, <2>4 DEF OrderInv
<1>7. CountInv'
  <2>1. Forwarded' = Forwarded /\ Waiting' = Waiting
    BY <1>2 DEF Forwarded, Waiting
  <2>2. Cardinality(Waiting) \in Nat
    BY WaitingType
  <2>3. IsFiniteSet(Forwarded) /\ Cardinality(Forwarded) \in Nat
    BY FS_CardinalityType DEF StderrIInv, CountInv
  <2>4. echoed + n + dropped + Cardinality(Waiting) = Cardinality(Forwarded)
    BY DEF StderrIInv, CountInv, n
  <2>5. (echoed + 1) + (n - 1) + dropped + Cardinality(Waiting) = Cardinality(Forwarded)
    BY <1>1, <2>2, <2>4
  <2> QED BY <1>2, <1>3, <2>1, <2>3, <2>5 DEF CountInv
<1>8. LimitInv'
  <2>1. STDERR_CHANNEL_CAPACITY \in Nat
    BY StderrAssumption
  <2>2. n <= STDERR_CHANNEL_CAPACITY /\ reported <= dropped
    BY DEF StderrIInv, LimitInv, n
  <2> QED BY <1>1, <1>2, <1>3, <2>1, <2>2 DEF LimitInv
<1> QED BY <1>4, <1>5, <1>6, <1>7, <1>8 DEF StderrIInv

-----------------------------------------------------------------------------
(***************************************************************************)
(* The theorems about the tails and the queue.                             *)
(***************************************************************************)

\* What is true of the tails, the queue and the counts after every step.
THEOREM StderrInvariance == StderrSpec => [](StderrTypeOK /\ StderrIInv)
<1>1. StderrInit => StderrTypeOK /\ StderrIInv
  BY StderrInitInv
<1>2. StderrTypeOK /\ StderrIInv /\ [StderrNext]_stderrVars => (StderrTypeOK /\ StderrIInv)'
  <2> SUFFICES ASSUME StderrTypeOK, StderrIInv, [StderrNext]_stderrVars
               PROVE  (StderrTypeOK /\ StderrIInv)'
    OBVIOUS
  <2>1. CASE UNCHANGED stderrVars
    BY <2>1 DEF stderrVars, StderrTypeOK, StderrIInv, TailInv, OrderInv, CountInv, LimitInv,
                  Waiting, Forwarded
  <2>2. CASE Echo
    BY <2>2, EchoStep
  <2>3. ASSUME NEW l \in Launches, Queue(l)
        PROVE  (StderrTypeOK /\ StderrIInv)'
    BY <2>3, QueueStep
  <2>4. ASSUME NEW l \in Launches, NEW n \in Lengths, Keep(l, n)
        PROVE  (StderrTypeOK /\ StderrIInv)'
    BY <2>4, KeepStep
  <2> QED BY <2>1, <2>2, <2>3, <2>4 DEF StderrNext
<1> QED BY <1>1, <1>2, PTL DEF StderrSpec

\* The tail of a launch is the last STDERR_TAIL_BYTES bytes that it printed,
\* and each line is printed, queued, dropped and counted, or about to be
\* queued, in its launch's order (LaunchState::push_stderr, runtime.rs:307-325;
\* AgentStderr, runtime.rs:435-475).
THEOREM StderrStaysAccountedFor == StderrSpec => []StderrIsAccountedFor
<1>1. StderrTypeOK /\ StderrIInv => StderrIsAccountedFor
  <2> SUFFICES ASSUME StderrTypeOK, StderrIInv
               PROVE  StderrIsAccountedFor
    OBVIOUS
  <2>1. DOMAIN channel = 1..Len(channel)
    BY LenProperties DEF StderrTypeOK
  <2> QED BY <2>1
          DEF StderrIsAccountedFor, StderrIInv, TailInv, TailOf, OrderInv, CountInv, LimitInv
<1> QED BY <1>1, StderrInvariance, PTL

=============================================================================
