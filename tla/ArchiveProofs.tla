---------------------------- MODULE ArchiveProofs ----------------------------
(***************************************************************************)
(* Theorems about Archive, for any archives and limits.                    *)
(***************************************************************************)
EXTENDS Archive, SequenceTheorems, FiniteSetTheorems, TLAPS

-----------------------------------------------------------------------------
(***************************************************************************)
(* The invariant.                                                          *)
(***************************************************************************)

\* Components of a path that was looked at, and those of a place.
Safe == Component \ Unsafe
Name == Safe \ {"."}

Thing == [at : Seq(Name), kind : {"dir", "file", "link"}, to : Seq(Safe)]

Fetching  == {"request", "receive", "extract"}
Extracted == {"copied", "staged"}
Steps     == Fetching \cup {"entry", "copy", "failed"} \cup Extracted

NonDirs(T) == {f \in T : f.kind # "dir"}
Done       == next - 1

TypeOK ==
  /\ archive \in Archives
  /\ step \in Steps
  /\ downloaded \in Nat /\ next \in Nat \ {0} /\ expanded \in Nat /\ files \in Nat
  /\ copied \in Nat /\ written \in Nat
  /\ hasFile \in BOOLEAN /\ cancel \in BOOLEAN
  /\ tree \in SUBSET Thing /\ IsFiniteSet(tree)

\* What was looked at before something is extracted.
DownloadInv ==
  /\ downloaded <= MaxDownload
  /\ step = "request" => ~hasFile
  /\ step \in Fetching
       => tree = {} /\ written = 0 /\ next = 1 /\ expanded = 0 /\ files = 0 /\ sealed = {}
  /\ step \notin {"request", "failed"} => archive.name \in Name
  /\ step \notin {"request", "receive", "failed"} => archive.digest = "right"
  /\ step = "failed" /\ archive.digest # "right" => ~hasFile

\* An entry whose body is copied was looked at.
EntryInv ==
  /\ step \in {"entry", "copy"}
       => archive.format # "none" /\ Done <= Len(archive.entries)
          /\ (IsZip => Len(archive.entries) <= MaxEntries)
  /\ step = "copy"
       => /\ next <= Len(archive.entries) /\ next <= MaxEntries
          /\ Entry.kind # "dir" /\ SafePath(Entry.path)
          /\ Entry.kind = "file" => Made(Entry) \in tree
          /\ copied <= Entry.holds

\* What is written is within what was declared, but for the entry that is
\* copied, of which no more is written than the limit has left.
LimitsInv ==
  /\ written <= MaxExpanded /\ expanded <= MaxExpanded /\ files <= MaxFiles
  /\ Cardinality(NonDirs(tree)) <= MaxFiles /\ Cardinality(tree) <= MaxEntries
  /\ step = "entry"
       => /\ written <= expanded
          /\ Cardinality(NonDirs(tree)) <= files /\ Cardinality(tree) <= Done
  /\ step = "copy"
       => LET made == IF Entry.kind = "file" THEN 0 ELSE 1 IN
          /\ Entry.declared <= expanded /\ written + Entry.declared <= expanded + copied
          /\ Cardinality(NonDirs(tree)) + made <= files /\ Cardinality(tree) + made <= next

\* The first k numbers of n.
First(n, k) == [i \in 1..k |-> n[i]]

\* The counters are the sums over the entries so far.
SumsInv ==
  LET e == archive.entries IN
  /\ step = "entry"
       => /\ expanded = Total(First(Sizes(e), Done))
          /\ written = Total(First(FileSizes(e), Done))
  /\ step = "copy"
       => /\ expanded = Total(First(Sizes(e), next))
          /\ written = Total(First(FileSizes(e), Done)) + (IF Entry.kind = "file" THEN copied ELSE 0)
  /\ step \in Extracted /\ archive.format # "none"
       => written = FileUnits(e) /\ Declared(e) <= MaxExpanded

\* Where entries of an archive that keeps the rules lie.
Own(e) == [at |-> e.path, kind |-> e.kind, to |-> IF e.kind = "link" THEN e.to ELSE <<>>]
Owned(e, k) == {Own(e[i]) : i \in 1..k}
NonDirectoriesTo(e, k) == {i \in 1..k : e[i].kind # "dir"}

GoodInv ==
  LET e == archive.entries IN
  Good(archive) =>
    /\ step = "failed" => cancel \/ downloaded < archive.body
    /\ step \in {"entry", "copy"} => sealed = {}
    /\ step = "entry"
         => tree = Owned(e, Done) /\ files = Cardinality(NonDirectoriesTo(e, Done))
    /\ step = "copy"
         => /\ tree = Owned(e, Done) \cup (IF Entry.kind = "file" THEN {Own(Entry)} ELSE {})
            /\ files = Cardinality(NonDirectoriesTo(e, next))
    /\ step \in Extracted => tree = Owned(e, Len(e))

IInv == TypeOK /\ DownloadInv /\ EntryInv /\ LimitsInv /\ SumsInv /\ GoodInv

-----------------------------------------------------------------------------
(***************************************************************************)
(* Iteration.  A function on the naturals that is defined by its value at  *)
(* 0 and by a step exists, when the step stays in a set.                   *)
(***************************************************************************)

\* Induction over the naturals, for the elements of a set.
LEMMA NatInduced ==
  ASSUME NEW P, 0 \in P, \A n \in Nat : n \in P => n + 1 \in P
  PROVE  \A n \in Nat : n \in P
<1> DEFINE bad == Nat \ P
<1>1. SUFFICES ASSUME bad # {} PROVE FALSE
  OBVIOUS
<1>2. PICK x \in bad : \A y \in bad : ~ (<<y, x>> \in OpToRel(<, Nat))
  <2>1. bad \subseteq Nat
    OBVIOUS
  <2> HIDE DEF bad
  <2> QED BY <1>1, <2>1, NatLessThanWellFounded, WFMin, Zenon
<1>3. \A y \in bad : ~ (y < x)
  <2> TAKE y \in bad
  <2> QED BY <1>2, Zenon DEF OpToRel
<1>4. x \in Nat /\ x # 0 /\ x - 1 \in Nat /\ x - 1 < x /\ (x - 1) + 1 = x
  <2>1. x \in Nat /\ x # 0
    OBVIOUS
  <2> HIDE DEF bad
  <2> QED BY <2>1
<1>5. x - 1 \in P
  BY <1>3, <1>4
<1>6. x \in P
  BY <1>4, <1>5
<1> QED BY <1>6

LEMMA IterationExists ==
  ASSUME NEW S, NEW start \in S, NEW Step \in [S -> S]
  PROVE  \E w \in [Nat -> S] : w[0] = start /\ \A n \in Nat : w[n + 1] = Step[w[n]]
<1> DEFINE Upto(n, g) == g[0] = start /\ \A i \in Nat : i < n => g[i + 1] = Step[g[i]]
           Some(n)    == CHOOSE g \in [Nat -> S] : Upto(n, g)
           w          == [n \in Nat |-> Some(n)[n]]
\* Each finite part of it exists,
<1>1. \A n \in Nat : \E g \in [Nat -> S] : Upto(n, g)
  <2> DEFINE P == {n \in Nat : \E g \in [Nat -> S] : Upto(n, g)}
  <2>1. 0 \in P
    <3> DEFINE g == [i \in Nat |-> start]
    <3>1. g \in [Nat -> S] /\ g[0] = start
      OBVIOUS
    <3>2. \A i \in Nat : ~ (i < 0)
      OBVIOUS
    <3>3. Upto(0, g)
      BY <3>1, <3>2
    <3> QED BY <3>1, <3>3
  <2>2. ASSUME NEW n \in Nat, n \in P
        PROVE  n + 1 \in P
    <3>1. PICK g \in [Nat -> S] : Upto(n, g)
      BY <2>2
    <3> DEFINE h == [i \in Nat |-> IF i = n + 1 THEN Step[g[n]] ELSE g[i]]
    <3>2. h \in [Nat -> S]
      OBVIOUS
    <3>3. h[0] = start
      <4>1. 0 # n + 1
        OBVIOUS
      <4> QED BY <3>1, <4>1
    <3>4. ASSUME NEW i \in Nat, i < n + 1
          PROVE  h[i + 1] = Step[h[i]]
      <4>1. i # n + 1 /\ h[i] = g[i]
        BY <3>4
      <4>2. CASE i = n
        BY <4>1, <4>2
      <4>3. CASE i # n
        <5>1. i < n /\ i + 1 # n + 1 /\ i + 1 \in Nat
          BY <3>4, <4>3
        <5> QED BY <3>1, <4>1, <5>1
      <4> QED BY <4>2, <4>3
    <3>5. Upto(n + 1, h)
      BY <3>3, <3>4
    <3> HIDE DEF h
    <3> QED BY <3>2, <3>5
  <2> HIDE DEF P
  <2>3. \A n \in Nat : n \in P
    BY <2>1, <2>2, NatInduced
  <2> QED BY <2>3 DEF P
<1>2. \A n \in Nat : Some(n) \in [Nat -> S] /\ Upto(n, Some(n))
  <2> TAKE n \in Nat
  <2>1. \E g \in [Nat -> S] : Upto(n, g)
    BY <1>1
  <2> QED BY <2>1, Zenon
\* and the parts agree.
<1>3. ASSUME NEW n \in Nat, NEW g \in [Nat -> S], NEW h \in [Nat -> S], Upto(n, g), Upto(n + 1, h)
      PROVE  g[n] = h[n]
  <2> DEFINE P == {i \in Nat : i <= n => g[i] = h[i]}
  <2>1. 0 \in P
    BY <1>3
  <2>2. ASSUME NEW i \in Nat, i \in P
        PROVE  i + 1 \in P
    <3>1. SUFFICES ASSUME i + 1 <= n PROVE g[i + 1] = h[i + 1]
      OBVIOUS
    <3>2. i < n /\ i < n + 1 /\ i <= n
      BY <3>1
    <3> QED BY <1>3, <2>2, <3>2
  <2>3. n \in P
    <3> HIDE DEF P
    <3> QED BY <2>1, <2>2, NatInduced
  <2> QED BY <2>3
<1>4. w \in [Nat -> S]
  BY <1>2
<1>5. w[0] = start
  BY <1>2
<1>6. ASSUME NEW n \in Nat
      PROVE  w[n + 1] = Step[w[n]]
  <2> DEFINE g == Some(n)  h == Some(n + 1)
  <2>1. n + 1 \in Nat /\ n < n + 1
    OBVIOUS
  <2>2. g \in [Nat -> S] /\ Upto(n, g) /\ h \in [Nat -> S] /\ Upto(n + 1, h)
    BY <1>2, <2>1
  <2>3. w[n] = g[n] /\ w[n + 1] = h[n + 1]
    BY <2>1
  <2> HIDE DEF g, h, w, Some
  <2>4. h[n + 1] = Step[h[n]]
    BY <2>1, <2>2
  <2>5. g[n] = h[n]
    BY <1>3, <2>2
  <2> QED BY <2>3, <2>4, <2>5
<1> HIDE DEF w
<1> QED BY <1>4, <1>5, <1>6

-----------------------------------------------------------------------------
(***************************************************************************)
(* Lookups of paths.                                                       *)
(***************************************************************************)

\* What a lookup has come to after each of its steps.
Walks(w, links, from, p) ==
  /\ w[0] = [at |-> from, rest |-> p]
  /\ \A n \in Nat : w[n + 1] = Ahead(links, w[n])

\* A lookup is an iteration, when there is a set that its steps stay in.
LEMMA LookupIterates ==
  ASSUME NEW links, NEW from, NEW p, NEW S,
         [at |-> from, rest |-> p] \in S,
         \A w \in S : Ahead(links, w) \in S
  PROVE  \E w \in [Nat -> S] :
           Walks(w, links, from, p) /\ Lookup(links, from, p) = w[MaxSteps]
<1> DEFINE start == [at |-> from, rest |-> p]
           Step == [w \in S |-> Ahead(links, w)]
           walk[n \in Nat] == IF n = 0 THEN [at |-> from, rest |-> p]
                                       ELSE Ahead(links, walk[n - 1])
           Is(w) == w = [n \in Nat |-> IF n = 0 THEN start ELSE Ahead(links, w[n - 1])]
<1>1. Lookup(links, from, p) = walk[MaxSteps]
  BY DEF Lookup
<1>2. walk = CHOOSE w : Is(w)
  OBVIOUS
<1> HIDE DEF walk
<1>3. PICK v \in [Nat -> S] : v[0] = start /\ \A n \in Nat : v[n + 1] = Step[v[n]]
  <2>1. start \in S
    OBVIOUS
  <2>2. Step \in [S -> S]
    <3>1. \A w \in S : Ahead(links, w) \in S
      OBVIOUS
    <3> HIDE DEF start
    <3> QED BY <3>1
  <2> HIDE DEF start, Step
  <2> QED BY <2>1, <2>2, IterationExists, SMTT(60)
<1>4. Is(v)
  <2>1. ASSUME NEW n \in Nat
        PROVE  v[n] = IF n = 0 THEN start ELSE Ahead(links, v[n - 1])
    <3>1. CASE n = 0
      BY <1>3, <3>1
    <3>2. CASE n # 0
      <4>1. n - 1 \in Nat /\ (n - 1) + 1 = n
        BY <3>2
      <4>2. v[n - 1] \in S /\ v[n] = Step[v[n - 1]]
        BY <1>3, <4>1
      <4> QED BY <3>2, <4>2
    <3> QED BY <3>1, <3>2
  <2> HIDE DEF start
  <2> QED BY <2>1, <1>3
<1>5. Is(walk)
  <2> HIDE DEF Is
  <2> QED BY <1>2, <1>4
<1>6. walk[0] = start /\ \A n \in Nat : walk[n + 1] = Ahead(links, walk[n])
  <2>1. \A n \in Nat : n + 1 \in Nat /\ n + 1 # 0 /\ (n + 1) - 1 = n
    OBVIOUS
  <2> QED BY <1>5, <2>1
<1>7. walk \in [Nat -> S]
  <2> DEFINE P == {n \in Nat : walk[n] \in S}
  <2>1. 0 \in P /\ \A n \in Nat : n \in P => n + 1 \in P
    <3> HIDE DEF Is
    <3> QED BY <1>6
  <2>2. \A n \in Nat : n \in P
    <3> HIDE DEF P
    <3> QED BY <2>1, NatInduced
  <2>3. \A n \in Nat : walk[n] \in S
    BY <2>2
  <2>4. walk = [n \in Nat |-> walk[n]]
    BY <1>5
  <2> HIDE DEF Is
  <2> QED BY <2>3, <2>4
<1> HIDE DEF Is
<1>8. Walks(walk, links, from, p)
  BY <1>6 DEF Walks
<1> QED BY <1>1, <1>7, <1>8

\* A lookup of a safe path goes to a place in the destination.
LEMMA SafeLookup ==
  ASSUME NEW links \in SUBSET Thing, NEW from \in Seq(Name), NEW p \in Seq(Safe)
  PROVE  Lookup(links, from, p).at \in Seq(Name)
<1> DEFINE S == [at : Seq(Name), rest : Seq(Safe)]
<1>1. ASSUME NEW w \in S
      PROVE  Ahead(links, w) \in S
  <2> DEFINE first == Head(w.rest)
             found == {f \in links : f.at = Append(w.at, first)}
             t     == (CHOOSE f \in found : TRUE).to
  <2>1. w.at \in Seq(Name) /\ w.rest \in Seq(Safe) /\ w = [at |-> w.at, rest |-> w.rest]
    OBVIOUS
  <2>2. CASE w.rest = <<>>
    BY <2>2 DEF Ahead
  <2>3. CASE w.rest # <<>>
    <3>1. first \in Safe /\ first \notin Unsafe /\ first # ".." /\ Tail(w.rest) \in Seq(Safe)
      BY <2>1, <2>3, HeadTailProperties DEF Safe, Unsafe
    <3>2. CASE first = "."
      BY <2>1, <2>3, <3>1, <3>2 DEF Ahead
    <3>3. CASE first # "." /\ found = {}
      <4>1. first \in Name
        BY <3>1, <3>3 DEF Name
      <4>2. Append(w.at, first) \in Seq(Name)
        BY <2>1, <4>1
      <4>3. Ahead(links, w) = [at |-> Append(w.at, first), rest |-> Tail(w.rest)]
        BY <2>3, <3>1, <3>3 DEF Ahead
      <4> QED BY <3>1, <4>2, <4>3
    <3>4. CASE first # "." /\ found # {}
      <4>1. (CHOOSE f \in found : TRUE) \in found
        BY <3>4
      <4>2. t \in Seq(Safe)
        <5>1. (CHOOSE f \in found : TRUE) \in Thing
          BY <4>1
        <5> QED BY <5>1 DEF Thing
      <4>3. Ahead(links, w) = [at |-> w.at, rest |-> t \o Tail(w.rest)]
        BY <2>3, <3>1, <3>4 DEF Ahead
      <4> HIDE DEF t, found
      <4>4. t \o Tail(w.rest) \in Seq(Safe)
        BY <3>1, <4>2, ConcatProperties
      <4> QED BY <2>1, <4>3, <4>4
    <3> QED BY <3>2, <3>3, <3>4
  <2> QED BY <2>2, <2>3
<1>2. [at |-> from, rest |-> p] \in S
  OBVIOUS
<1>3. \E w \in [Nat -> S] : Lookup(links, from, p) = w[MaxSteps]
  <2> HIDE DEF S
  <2> QED BY <1>1, <1>2, LookupIterates
<1>4. Lookup(links, from, p) \in S
  BY <1>3, ArchiveAssumption
<1> QED BY <1>4

\* A path that no link lies on is found where it says.
LEMMA ClearLookup ==
  ASSUME NEW links, NEW p \in Seq(Name), Len(p) <= MaxSteps,
         \A f \in links : \A k \in 1..Len(p) : f.at # SubSeq(p, 1, k)
  PROVE  Lookup(links, <<>>, p) = [at |-> p, rest |-> <<>>]
<1> DEFINE m == Len(p)
           Conf(k) == [at |-> SubSeq(p, 1, k), rest |-> SubSeq(p, k + 1, m)]
           S == {Conf(k) : k \in 0..m}
           Next_(k) == IF k < m THEN k + 1 ELSE m
<1>1. m \in Nat /\ \A k \in 0..m : Next_(k) \in 0..m
  OBVIOUS
<1>2. ASSUME NEW k \in 0..m
      PROVE  Ahead(links, Conf(k)) = Conf(Next_(k))
  <2>1. CASE k < m
    <3>1. k + 1 \in 1..m /\ Next_(k) = k + 1 /\ k \in Int /\ m \in Int /\ k + 1 \in Int
      BY <2>1
    <3>2. p[k + 1] \in Name
      BY <3>1, ElementOfSeq
    <3>3. /\ SubSeq(p, k + 1, m) # <<>> /\ Head(SubSeq(p, k + 1, m)) = p[k + 1]
          /\ Tail(SubSeq(p, k + 1, m)) = SubSeq(p, k + 2, m)
      <4>1. m \in k + 1..m /\ (k + 1) + 1 = k + 2
        BY <3>1
      <4>2. /\ Head(SubSeq(p, k + 1, m)) = p[k + 1]
            /\ Tail(SubSeq(p, k + 1, m)) = SubSeq(p, k + 2, m)
        BY <3>1, <4>1, HeadTailOfSubSeq
      <4>3. \A i \in k + 1..m : p[i] \in Name
        BY ElementOfSeq
      <4>4. Len(SubSeq(p, k + 1, m)) = m - (k + 1) + 1
        <5> HIDE DEF m
        <5>1. k + 1 <= m
          BY <3>1
        <5> QED BY <3>1, <4>3, <5>1, SubSeqProperties
      <4>5. Len(SubSeq(p, k + 1, m)) # 0
        <5> HIDE DEF m
        <5> QED BY <1>1, <2>1, <3>1, <4>4
      <4>6. Len(<<>>) = 0
        BY EmptySeq
      <4> QED BY <4>2, <4>5, <4>6
    <3>4. Append(SubSeq(p, 1, k), p[k + 1]) = SubSeq(p, 1, k + 1)
      <4>1. \A i \in 1..k : p[i] \in Name
        BY <3>1, ElementOfSeq
      <4>2. SubSeq(p, 1, k) \in Seq(Name)
        BY <3>1, <4>1, SubSeqProperties
      <4>3. SubSeq(p, 1, k + 1) = SubSeq(p, 1, (k + 1) - 1) \o <<p[k + 1]>>
        <5>1. 1 \in 1..m /\ k + 1 \in 1..m
          BY <3>1
        <5> QED BY <5>1, SubSeqRecursiveSecond
      <4>4. (k + 1) - 1 = k
        OBVIOUS
      <4> QED BY <3>2, <4>2, <4>3, <4>4
    <3>5. {f \in links : f.at = SubSeq(p, 1, k + 1)} = {}
      BY <3>1
    <3>6. p[k + 1] \notin Unsafe /\ p[k + 1] # "." /\ p[k + 1] # ".."
      BY <3>2 DEF Name, Safe, Unsafe
    <3>7. (k + 1) + 1 = k + 2
      OBVIOUS
    <3>8. Conf(k + 1) = [at |-> SubSeq(p, 1, k + 1), rest |-> SubSeq(p, k + 2, m)]
      BY <3>7
    <3> HIDE DEF m
    <3> QED BY <3>1, <3>3, <3>4, <3>5, <3>6, <3>8 DEF Ahead
  <2>2. CASE ~ (k < m)
    <3>1. k = m /\ Next_(k) = m /\ k + 1 \in Int /\ m \in Int /\ m < k + 1
      BY <2>2
    <3>2. SubSeq(p, k + 1, m) = <<>>
      BY <3>1, SubSeqEmpty
    <3> HIDE DEF m
    <3> QED BY <3>1, <3>2 DEF Ahead
  <2> QED BY <2>1, <2>2
<1>3. [at |-> <<>>, rest |-> p] = Conf(0)
  <2>1. SubSeq(p, 1, 0) = <<>>
    BY SubSeqEmpty
  <2>2. SubSeq(p, 0 + 1, m) = p
    BY SubSeqFull
  <2> QED BY <2>1, <2>2
<1> HIDE DEF m, Conf, Next_
<1>4. PICK w \in [Nat -> S] : Walks(w, links, <<>>, p) /\ Lookup(links, <<>>, p) = w[MaxSteps]
  <2>1. Conf(0) \in S
    BY <1>1
  <2>2. \A c \in S : Ahead(links, c) \in S
    BY <1>1, <1>2
  <2> HIDE DEF S
  <2>3. [at |-> <<>>, rest |-> p] \in S
    BY <1>3, <2>1
  <2> QED BY <2>2, <2>3, LookupIterates, ZenonT(60)
<1>5. w[0] = Conf(0) /\ \A n \in Nat : w[n + 1] = Ahead(links, w[n])
  BY <1>3, <1>4 DEF Walks
<1> DEFINE Reached(n) == IF n <= m THEN n ELSE m
<1>6. \A n \in Nat : w[n] = Conf(Reached(n))
  <2> DEFINE P == {n \in Nat : w[n] = Conf(Reached(n))}
  <2>1. 0 \in P
    <3>1. Reached(0) = 0
      BY <1>1
    <3> QED BY <1>5, <3>1
  <2>2. ASSUME NEW n \in Nat, n \in P
        PROVE  n + 1 \in P
    <3>1. Reached(n) \in 0..m /\ Next_(Reached(n)) = Reached(n + 1)
      BY <1>1 DEF Next_
    <3> HIDE DEF Reached
    <3>2. w[n] = Conf(Reached(n))
      BY <2>2
    <3>3. Ahead(links, Conf(Reached(n))) = Conf(Next_(Reached(n)))
      BY <1>2, <3>1
    <3>4. w[n + 1] = Conf(Reached(n + 1))
      BY <1>5, <3>1, <3>2, <3>3
    <3>5. n + 1 \in Nat
      OBVIOUS
    <3> QED BY <3>4, <3>5, Zenon
  <2>3. \A n \in Nat : n \in P
    <3> HIDE DEF P
    <3> QED BY <2>1, <2>2, NatInduced
  <2> QED BY <2>3
<1>7. MaxSteps \in Nat /\ Reached(MaxSteps) = m
  <2>1. m <= MaxSteps /\ MaxSteps \in Nat
    BY ArchiveAssumption DEF m
  <2> QED BY <1>1, <2>1
<1>8. Conf(m) = [at |-> p, rest |-> <<>>]
  <2>1. SubSeq(p, 1, m) = p
    BY SubSeqFull DEF m
  <2>2. m + 1 \in Int /\ m \in Int /\ m < m + 1
    BY <1>1
  <2>3. SubSeq(p, m + 1, m) = <<>>
    BY <2>2, SubSeqEmpty
  <2> QED BY <2>1, <2>3 DEF Conf
<1> HIDE DEF Reached
<1> QED BY <1>4, <1>6, <1>7, <1>8

-----------------------------------------------------------------------------
(***************************************************************************)
(* Sums.                                                                   *)
(***************************************************************************)

\* A sum of naturals is one.
LEMMA TotalType ==
  ASSUME NEW m \in Nat, NEW n, \A i \in 1..m : n[i] \in Nat
  PROVE  IsFiniteSet(Units(First(n, m))) /\ Total(First(n, m)) \in Nat
<1> DEFINE f == First(n, m)
           Of == [i \in 1..m |-> {i} \X (1..f[i])]
           Sets == {{i} \X (1..f[i]) : i \in 1..m}
<1>1. DOMAIN f = 1..m /\ \A i \in 1..m : f[i] \in Nat
  BY DEF First
<1> HIDE DEF f
<1>2. Of \in Surjection(1..m, Sets)
  BY DEF Surjection
<1>3. IsFiniteSet(Sets)
  <2>1. IsFiniteSet(1..m)
    BY FS_Interval
  <2> HIDE DEF Of, Sets
  <2> QED BY <1>2, <2>1, FS_Surjection
<1>4. \A T \in Sets : IsFiniteSet(T)
  <2> TAKE T \in Sets
  <2>1. PICK i \in 1..m : T = {i} \X (1..f[i])
    OBVIOUS
  <2>2. f[i] \in Int /\ 1 \in Int
    BY <1>1
  <2>3. IsFiniteSet(1..f[i])
    BY <2>2, FS_Interval
  <2>4. IsFiniteSet({i})
    BY FS_Singleton
  <2> QED BY <2>1, <2>3, <2>4, FS_Product
<1>5. Units(f) = UNION Sets
  BY <1>1 DEF Units
<1>6. IsFiniteSet(Units(f))
  <2> HIDE DEF Sets
  <2> QED BY <1>3, <1>4, <1>5, FS_UNION
<1> QED BY <1>6, FS_CardinalityType DEF Total, f

\* One number more adds itself.
LEMMA TotalOneMore ==
  ASSUME NEW m \in Nat, NEW n, \A i \in 1..m + 1 : n[i] \in Nat
  PROVE  Total(First(n, m + 1)) = Total(First(n, m)) + n[m + 1]
<1> DEFINE f == First(n, m)  g == First(n, m + 1)  new == {m + 1} \X (1..n[m + 1])
<1>1. /\ DOMAIN f = 1..m /\ DOMAIN g = 1..m + 1
      /\ \A i \in 1..m : f[i] = n[i] /\ g[i] = n[i] /\ i \in 1..m + 1
      /\ g[m + 1] = n[m + 1] /\ n[m + 1] \in Nat /\ m + 1 \notin 1..m
  BY DEF First
<1>2. 1..m + 1 = 1..m \cup {m + 1}
  OBVIOUS
<1> HIDE DEF f, g
<1>3. Units(g) = Units(f) \cup new
  BY <1>1, <1>2 DEF Units
<1>4. Units(f) \cap new = {}
  BY <1>1 DEF Units
<1>5. IsFiniteSet(Units(f)) /\ Cardinality(Units(f)) \in Nat
  BY <1>1, TotalType DEF f, Total
<1>6. IsFiniteSet(new) /\ Cardinality(new) = n[m + 1]
  <2> DEFINE k == n[m + 1]
  <2>1. k \in Nat
    BY <1>1
  <2> HIDE DEF k
  <2>2. IsFiniteSet(1..k) /\ Cardinality(1..k) = IF 1 > k THEN 0 ELSE k - 1 + 1
    BY <2>1, FS_Interval
  <2>3. (IF 1 > k THEN 0 ELSE k - 1 + 1) = k /\ 1 * k = k
    BY <2>1
  <2>4. IsFiniteSet({m + 1}) /\ Cardinality({m + 1}) = 1
    BY FS_Singleton
  <2>5. /\ IsFiniteSet({m + 1} \X (1..k))
        /\ Cardinality({m + 1} \X (1..k)) = Cardinality({m + 1}) * Cardinality(1..k)
    BY <2>2, <2>4, FS_Product
  <2>6. Cardinality({m + 1} \X (1..k)) = k
    BY <2>2, <2>3, <2>4, <2>5
  <2> QED BY <2>5, <2>6 DEF k
<1> HIDE DEF new
<1>7. Cardinality(Units(f) \cup new)
        = Cardinality(Units(f)) + Cardinality(new) - Cardinality(Units(f) \cap new)
  BY <1>5, <1>6, FS_Union
<1>8. Cardinality(Units(f) \cap new) = 0
  BY <1>4, FS_EmptySet
<1>9. Cardinality(Units(g)) = Cardinality(Units(f)) + n[m + 1]
  BY <1>1, <1>3, <1>5, <1>6, <1>7, <1>8
<1> QED BY <1>9 DEF Total, f, g

\* No numbers, fewer numbers, and all numbers.
LEMMA TotalOfFirst ==
  ASSUME NEW m \in Nat, NEW n \in [1..m -> Nat]
  PROVE  /\ Total(First(n, 0)) = 0
         /\ First(n, m) = n
         /\ \A k \in 0..m : Total(First(n, k)) <= Total(n)
<1>1. Total(First(n, 0)) = 0
  <2>1. DOMAIN First(n, 0) = {}
    BY DEF First
  <2>2. Units(First(n, 0)) = {}
    BY <2>1 DEF Units
  <2> QED BY <2>2, FS_EmptySet DEF Total
<1>2. First(n, m) = n
  BY DEF First
<1>3. ASSUME NEW k \in 0..m
      PROVE  Total(First(n, k)) <= Total(n)
  <2>1. 1..k \subseteq 1..m
    OBVIOUS
  <2>2. DOMAIN First(n, k) = 1..k /\ \A i \in 1..k : First(n, k)[i] = n[i]
    BY DEF First
  <2>3. Units(First(n, k)) \subseteq Units(n)
    BY <2>1, <2>2 DEF Units
  <2>4. IsFiniteSet(Units(n))
    BY <1>2, TotalType
  <2> QED BY <2>3, <2>4, FS_Subset DEF Total
<1> QED BY <1>1, <1>2, <1>3

-----------------------------------------------------------------------------
(***************************************************************************)
(* What is known of an archive and its entries.                            *)
(***************************************************************************)
LEMMA ArchiveType ==
  ASSUME NEW a \in Archives
  PROVE  /\ a.name \in Component /\ a.format \in {"zip", "tar", "none"}
         /\ a.length \in Nat /\ a.body \in Nat /\ a.cmd \in Seq(Component)
         /\ a.entries \in Seq(AnyEntry)
         /\ Len(a.entries) \in Nat /\ DOMAIN a.entries = 1..Len(a.entries)
<1>1. a \in AnyArchive
  BY ArchiveAssumption
<1>2. a.entries \in Seq(AnyEntry)
  BY <1>1 DEF AnyArchive
<1>3. Len(a.entries) \in Nat /\ DOMAIN a.entries = 1..Len(a.entries)
  BY <1>2, LenProperties
<1> HIDE DEF AnyEntry
<1> QED BY <1>1, <1>2, <1>3 DEF AnyArchive

LEMMA EntryTypes ==
  ASSUME NEW e \in Seq(AnyEntry), NEW i \in 1..Len(e)
  PROVE  /\ e[i].kind \in {"dir", "file", "link"}
         /\ e[i].path \in Seq(Component) /\ e[i].to \in Seq(Component)
         /\ e[i].declared \in Nat /\ e[i].holds \in Nat /\ e[i].sealed \in BOOLEAN
<1>1. e[i] \in AnyEntry
  BY ElementOfSeq
<1> QED BY <1>1 DEF AnyEntry

\* The sizes that are summed.
LEMMA SizesType ==
  ASSUME NEW e \in Seq(AnyEntry)
  PROVE  /\ Len(e) \in Nat
         /\ Sizes(e) \in [1..Len(e) -> Nat] /\ FileSizes(e) \in [1..Len(e) -> Nat]
         /\ \A i \in 1..Len(e) :
              /\ Sizes(e)[i] = e[i].declared
              /\ FileSizes(e)[i] = IF e[i].kind = "file" THEN e[i].holds ELSE 0
<1>1. Len(e) \in Nat /\ DOMAIN e = 1..Len(e)
  BY LenProperties
<1>2. \A i \in 1..Len(e) : e[i].declared \in Nat /\ e[i].holds \in Nat
  BY EntryTypes
<1> QED BY <1>1, <1>2 DEF Sizes, FileSizes

\* The current entry.
LEMMA EntryType ==
  ASSUME TypeOK, next <= Len(archive.entries)
  PROVE  /\ next \in 1..Len(archive.entries) /\ Entry = archive.entries[next]
         /\ Done \in Nat /\ next = Done + 1
         /\ Entry.kind \in {"dir", "file", "link"}
         /\ Entry.path \in Seq(Component) /\ Entry.to \in Seq(Component)
         /\ Entry.declared \in Nat /\ Entry.holds \in Nat /\ Entry.sealed \in BOOLEAN
         /\ \A j \in 1..Len(Entry.path) : Entry.path[j] = "." => j = 1
<1> DEFINE e == archive.entries
<1>1. archive \in Archives /\ next \in Nat /\ next # 0
  BY DEF TypeOK
<1>2. e \in Seq(AnyEntry) /\ Len(e) \in Nat /\ DOMAIN e = 1..Len(e)
  BY <1>1, ArchiveType
<1>3. next \in 1..Len(e)
  BY <1>1, <1>2
<1>4. Done \in Nat /\ next = Done + 1
  BY <1>1 DEF Done
<1>5. e[next].path \in Seq(Component) /\ DOMAIN e[next].path = 1..Len(e[next].path)
  BY <1>2, <1>3, EntryTypes, LenProperties
<1>6. \A j \in 1..Len(e[next].path) : e[next].path[j] = "." => j = 1
  BY <1>1, <1>2, <1>3, <1>5, ArchiveAssumption
<1> QED BY <1>2, <1>3, <1>4, <1>6, EntryTypes DEF Entry

\* A path that was looked at.
LEMMA SafePathType ==
  ASSUME NEW p \in Seq(Component), SafePath(p)
  PROVE  p \in Seq(Safe) /\ p # <<>>
<1>1. DOMAIN p = 1..Len(p) /\ Len(p) \in Nat
  BY LenProperties
<1>2. \A i \in 1..Len(p) : p[i] \in Safe
  BY <1>1, ElementOfSeq DEF SafePath, Safe
<1>3. p # <<>>
  BY <1>1 DEF SafePath
<1>4. p \in Seq(Safe)
  BY <1>1, <1>2
<1> QED BY <1>3, <1>4

\* What is made of an entry that was looked at lies in the destination.
LEMMA EntryMade ==
  ASSUME TypeOK, next <= Len(archive.entries), SafePath(Entry.path),
         Entry.kind = "link" => SafePath(Entry.to)
  PROVE  Made(Entry) \in Thing
<1> DEFINE p == Entry.path
<1>1. /\ p \in Seq(Component) /\ Entry.to \in Seq(Component)
      /\ Entry.kind \in {"dir", "file", "link"}
      /\ \A j \in 1..Len(p) : p[j] = "." => j = 1
  BY EntryType
<1>2. p \in Seq(Safe) /\ p # <<>>
  BY <1>1, SafePathType
<1>3. Len(p) \in Nat /\ Len(p) # 0 /\ DOMAIN p = 1..Len(p)
  <2> HIDE DEF p
  <2> QED BY <1>2, EmptySeq, LenProperties
<1>4. Links \in SUBSET Thing
  BY DEF Links, TypeOK
<1>5. <<>> \in Seq(Name)
  BY EmptySeq
<1>6. ParentOf(p) \in Seq(Safe)
  <2> HIDE DEF p
  <2>1. \A i \in 1..Len(p) - 1 : p[i] \in Safe
    BY <1>2, <1>3, ElementOfSeq
  <2>2. SubSeq(p, 1, Len(p) - 1) \in Seq(Safe)
    <3>1. 1 \in Int /\ Len(p) - 1 \in Int
      BY <1>3
    <3> QED BY <2>1, <3>1, SubSeqProperties
  <2> QED BY <1>2, <2>2 DEF ParentOf, Front
<1>7. PlaceOf(p) \in Seq(Name) /\ PlaceOf(ParentOf(p)) \in Seq(Name)
  <2> HIDE DEF p
  <2> QED BY <1>2, <1>4, <1>5, <1>6, SafeLookup DEF PlaceOf
<1>8. Last(p) \in Name
  <2> HIDE DEF p
  <2>1. Len(p) \in 1..Len(p)
    BY <1>3
  <2>2. p[Len(p)] \in Safe
    BY <1>2, <2>1, ElementOfSeq
  <2>3. p[Len(p)] # "."
    <3>1. SUFFICES ASSUME p[Len(p)] = "." PROVE FALSE
      OBVIOUS
    <3>2. Len(p) = 1
      BY <1>1, <2>1, <3>1 DEF p
    <3>3. \A i \in DOMAIN p : p[i] = "."
      BY <1>3, <3>1, <3>2
    <3> QED BY <3>3 DEF SafePath, p
  <2> QED BY <2>2, <2>3 DEF Last, Name
<1>9. Target(Entry) \in Seq(Name)
  <2>1. Append(PlaceOf(ParentOf(p)), Last(p)) \in Seq(Name)
    <3> HIDE DEF p
    <3> QED BY <1>7, <1>8
  <2> QED BY <1>7, <2>1 DEF Target, Followed
<1>10. (IF Entry.kind = "link" THEN Entry.to ELSE <<>>) \in Seq(Safe)
  <2>1. <<>> \in Seq(Safe)
    BY EmptySeq
  <2>2. CASE Entry.kind = "link"
    BY <1>1, <2>2, SafePathType
  <2> QED BY <2>1, <2>2
<1> QED BY <1>1, <1>9, <1>10 DEF Made, Thing

-----------------------------------------------------------------------------
(***************************************************************************)
(* Steps that leave what was extracted as it is.                           *)
(***************************************************************************)
LEMMA SameKeeps ==
  ASSUME IInv, UNCHANGED <<archive, step, downloaded, hasFile>>, UNCHANGED progress,
         cancel' \in BOOLEAN, cancel => cancel'
  PROVE  IInv'
<1>1. /\ archive' = archive /\ step' = step /\ downloaded' = downloaded /\ hasFile' = hasFile
      /\ next' = next /\ expanded' = expanded /\ files' = files /\ copied' = copied
      /\ tree' = tree /\ written' = written /\ sealed' = sealed
  BY DEF progress
<1>2. TypeOK'
  BY <1>1 DEF IInv, TypeOK
<1>3. DownloadInv'
  BY <1>1 DEF IInv, DownloadInv
<1>4. EntryInv'
  BY <1>1 DEF IInv, EntryInv, Done, IsZip, Entry, Made, Target, Followed, PlaceOf, Links
<1>5. LimitsInv'
  BY <1>1 DEF IInv, LimitsInv, Done, Entry
<1>6. SumsInv'
  BY <1>1 DEF IInv, SumsInv, Done, Entry
<1>7. GoodInv'
  BY <1>1 DEF IInv, GoodInv, Done, Entry
<1> QED BY <1>2, <1>3, <1>4, <1>5, <1>6, <1>7 DEF IInv

LEMMA FailKeeps ==
  ASSUME IInv, Fail, downloaded' = downloaded, hasFile' \in BOOLEAN,
         archive.digest # "right" => ~hasFile',
         Good(archive) => cancel \/ downloaded < archive.body
  PROVE  IInv'
<1>1. /\ archive' = archive /\ step' = "failed" /\ cancel' = cancel
      /\ next' = next /\ expanded' = expanded /\ files' = files /\ copied' = copied
      /\ tree' = tree /\ written' = written /\ sealed' = sealed
  BY DEF Fail, progress
<1>2. TypeOK'
  BY <1>1 DEF IInv, TypeOK, Steps
<1>3. DownloadInv'
  BY <1>1 DEF IInv, DownloadInv, Fetching
<1>4. EntryInv'
  BY <1>1 DEF EntryInv
<1>5. LimitsInv'
  BY <1>1 DEF IInv, LimitsInv
<1>6. SumsInv'
  BY <1>1 DEF SumsInv, Extracted
<1>7. GoodInv'
  BY <1>1 DEF GoodInv, Extracted
<1> QED BY <1>2, <1>3, <1>4, <1>5, <1>6, <1>7 DEF IInv

LEMMA FetchKeeps ==
  ASSUME IInv, step \in Fetching, step' \in {"receive", "extract"}, archive' = archive,
         UNCHANGED progress, downloaded' \in Nat, downloaded' <= MaxDownload,
         hasFile' \in BOOLEAN, cancel' \in BOOLEAN,
         archive.name \in Name, step' = "extract" => archive.digest = "right"
  PROVE  IInv'
<1>1. /\ next' = next /\ expanded' = expanded /\ files' = files /\ copied' = copied
      /\ tree' = tree /\ written' = written /\ sealed' = sealed
  BY DEF progress
<1>2. TypeOK'
  BY <1>1 DEF IInv, TypeOK, Steps, Fetching
<1>3. DownloadInv'
  BY <1>1 DEF IInv, DownloadInv, Fetching
<1>4. EntryInv'
  BY DEF EntryInv
<1>5. LimitsInv'
  BY <1>1 DEF IInv, LimitsInv
<1>6. SumsInv'
  BY DEF SumsInv, Extracted
<1>7. GoodInv'
  BY DEF GoodInv, Extracted
<1> QED BY <1>2, <1>3, <1>4, <1>5, <1>6, <1>7 DEF IInv

-----------------------------------------------------------------------------
(***************************************************************************)
(* Archives that keep the rules.                                           *)
(***************************************************************************)
LEMMA GoodPath ==
  ASSUME NEW a \in Archives, Good(a), NEW i \in 1..Len(a.entries)
  PROVE  LET x == a.entries[i] IN
         /\ x.path \in Seq(Name) /\ Len(x.path) \in Nat \ {0} /\ Len(x.path) <= MaxSteps
         /\ SafePath(x.path) /\ (x.kind = "link" => SafePath(x.to))
         /\ x.holds = x.declared
<1> DEFINE x == a.entries[i]
<1>1. a.entries \in Seq(AnyEntry) /\ DOMAIN a.entries = 1..Len(a.entries)
  BY ArchiveType
<1>2. x.path \in Seq(Component) /\ x.to \in Seq(Component)
  BY <1>1, EntryTypes
<1>3. /\ x.holds = x.declared /\ x.path # <<>> /\ Len(x.path) <= MaxSteps
      /\ Unsafe \cap (ToSet(x.path) \cup ToSet(x.to)) = {} /\ "." \notin ToSet(x.path)
      /\ x.kind = "link" => x.to # <<>> /\ ToSet(x.to) # {"."}
  <2>1. Honest(x)
    BY <1>1 DEF Good
  <2> HIDE DEF x
  <2> QED BY <2>1 DEF Honest
<1> HIDE DEF x
<1>4. /\ DOMAIN x.path = 1..Len(x.path) /\ Len(x.path) \in Nat /\ Len(x.path) # 0
      /\ DOMAIN x.to = 1..Len(x.to) /\ Len(x.to) \in Nat
  BY <1>2, <1>3, LenProperties, EmptySeq
<1>5. \A j \in 1..Len(x.path) : x.path[j] \in Name
  <2> TAKE j \in 1..Len(x.path)
  <2>1. x.path[j] \in ToSet(x.path) /\ x.path[j] \in Component
    BY <1>2, <1>4, ElementOfSeq DEF ToSet
  <2> QED BY <1>3, <2>1 DEF Name, Safe
<1>6. x.path \in Seq(Name)
  BY <1>2, <1>4, <1>5
<1>7. SafePath(x.path)
  <2>1. 1 \in DOMAIN x.path /\ x.path[1] # "."
    BY <1>4, <1>5 DEF Name
  <2> QED BY <1>4, <1>5, <2>1 DEF SafePath, Name, Safe
<1>8. ASSUME x.kind = "link"
      PROVE  SafePath(x.to)
  <2>1. \A j \in DOMAIN x.to : x.to[j] \in ToSet(x.to)
    BY DEF ToSet
  <2>2. \E j \in DOMAIN x.to : x.to[j] # "."
    <3>1. Len(x.to) # 0
      BY <1>2, <1>3, <1>8, EmptySeq
    <3>2. 1 \in DOMAIN x.to
      BY <1>4, <3>1
    <3>3. SUFFICES ASSUME \A j \in DOMAIN x.to : x.to[j] = "." PROVE FALSE
      OBVIOUS
    <3>4. ToSet(x.to) = {"."}
      BY <3>2, <3>3 DEF ToSet
    <3> QED BY <1>3, <1>8, <3>4
  <2> QED BY <1>3, <2>1, <2>2 DEF SafePath
<1> QED BY <1>3, <1>4, <1>6, <1>7, <1>8 DEF x

\* Two of its entries.
LEMMA GoodApart ==
  ASSUME NEW a \in Archives, Good(a), NEW i \in 1..Len(a.entries), NEW j \in 1..Len(a.entries)
  PROVE  LET p == a.entries[i].path  q == a.entries[j].path IN
         /\ i # j => p # q
         /\ j < i /\ a.entries[j].kind # "dir" => ~ IsPrefix(q, p)
         /\ i < j => ~ IsPrefix(q, p)
<1>1. DOMAIN a.entries = 1..Len(a.entries) /\ Len(a.entries) \in Nat
  BY ArchiveType
<1>2. (i # j => i < j \/ j < i) /\ (i < j => i \in 1..(j - 1)) /\ (j < i => j \in 1..(i - 1))
  BY <1>1
<1>3. Apart(a.entries)
  BY DEF Good
<1>4. CASE i < j
  BY <1>1, <1>2, <1>3, <1>4 DEF Apart
<1>5. CASE j < i
  BY <1>1, <1>2, <1>3, <1>5 DEF Apart
<1> QED BY <1>1, <1>2, <1>4, <1>5

\* The beginnings of a path, and of the path without its last component.
LEMMA Beginnings ==
  ASSUME NEW p \in Seq(Name), NEW k \in 1..Len(p)
  PROVE  /\ IsPrefix(SubSeq(p, 1, k), p)
         /\ Front(p) \in Seq(Name) /\ Len(Front(p)) = Len(p) - 1
         /\ k < Len(p) => SubSeq(Front(p), 1, k) = SubSeq(p, 1, k)
         /\ Append(Front(p), Last(p)) = p
<1>1. Len(p) \in Nat /\ DOMAIN p = 1..Len(p) /\ \A i \in 1..Len(p) : p[i] \in Name
  BY LenProperties, ElementOfSeq
<1>2. SubSeq(p, 1, k) \in Seq(Name) /\ Len(SubSeq(p, 1, k)) = k
  <2>1. 1 \in Int /\ k \in Int /\ 1 <= k /\ \A i \in 1..k : p[i] \in Name
    BY <1>1
  <2>2. SubSeq(p, 1, k) \in Seq(Name) /\ Len(SubSeq(p, 1, k)) = k - 1 + 1
    BY <2>1, SubSeqProperties
  <2> QED BY <2>2
<1>3. IsPrefix(SubSeq(p, 1, k), p)
  <2> DEFINE s == SubSeq(p, 1, k)
  <2>1. SubSeq(s, 1, Len(s)) = s
    <3> HIDE DEF s
    <3> QED BY <1>2, SubSeqFull DEF s
  <2> QED BY <1>1, <1>2, <2>1 DEF IsPrefix
<1>4. /\ Front(p) \in Seq(Name) /\ Len(Front(p)) = Len(p) - 1
      /\ \A i \in 1..Len(p) - 1 : Front(p)[i] = p[i]
  <2> DEFINE m == Len(p) - 1
  <2>1. 1 \in Int /\ m \in Int /\ \A i \in 1..m : p[i] \in Name
    BY <1>1
  <2>2. (IF 1 <= m THEN m - 1 + 1 ELSE 0) = m /\ m - 1 + 1 = m
    BY <1>1
  <2>3. \A i \in 1..m : 1 + i - 1 = i
    BY <1>1
  <2>4. /\ SubSeq(p, 1, m) \in Seq(Name) /\ Len(SubSeq(p, 1, m)) = (IF 1 <= m THEN m - 1 + 1 ELSE 0)
        /\ \A i \in 1..m - 1 + 1 : SubSeq(p, 1, m)[i] = p[1 + i - 1]
    <3> HIDE DEF m
    <3> QED BY <2>1, SubSeqProperties
  <2>5. Len(SubSeq(p, 1, m)) = m /\ \A i \in 1..m : SubSeq(p, 1, m)[i] = p[i]
    <3> HIDE DEF m
    <3> QED BY <2>2, <2>3, <2>4
  <2> QED BY <2>4, <2>5 DEF Front
<1>5. ASSUME k < Len(p)
      PROVE  SubSeq(Front(p), 1, k) = SubSeq(p, 1, k)
  <2>1. k \in 1..Len(p) - 1 /\ k \in Int /\ 1 \in Int /\ 1 <= k
    BY <1>1, <1>5
  <2>2. \A i \in 1..k : i \in 1..Len(p) - 1 /\ Front(p)[i] \in Name
    BY <1>1, <1>4, <2>1
  <2>3. /\ SubSeq(Front(p), 1, k) \in Seq(Name) /\ Len(SubSeq(Front(p), 1, k)) = k - 1 + 1
        /\ \A i \in 1..k - 1 + 1 : SubSeq(Front(p), 1, k)[i] = Front(p)[1 + i - 1]
    BY <2>1, <2>2, SubSeqProperties
  <2>4. \A i \in 1..k - 1 + 1 : SubSeq(p, 1, k)[i] = p[1 + i - 1]
    <3>1. \A i \in 1..k : p[i] \in Name
      BY <1>1, <2>1
    <3> QED BY <2>1, <3>1, SubSeqProperties
  <2>5. k - 1 + 1 = k /\ \A i \in 1..k : 1 + i - 1 = i
    BY <2>1
  <2>6. \A i \in 1..k : SubSeq(Front(p), 1, k)[i] = SubSeq(p, 1, k)[i]
    BY <1>4, <2>2, <2>3, <2>4, <2>5
  <2> QED BY <1>2, <2>3, <2>5, <2>6, SeqEqual
<1>6. Append(Front(p), Last(p)) = p
  <2>1. SubSeq(p, 1, Len(p)) = SubSeq(p, 1, Len(p) - 1) \o <<p[Len(p)]>>
    <3>1. 1 \in 1..Len(p) /\ Len(p) \in 1..Len(p)
      BY <1>1
    <3> QED BY <3>1, SubSeqRecursiveSecond
  <2>2. SubSeq(p, 1, Len(p)) = p
    BY SubSeqFull
  <2>3. p[Len(p)] \in Name
    BY <1>1
  <2>4. SubSeq(p, 1, Len(p) - 1) \in Seq(Name)
    BY <1>4 DEF Front
  <2>5. Append(SubSeq(p, 1, Len(p) - 1), p[Len(p)]) = p
    <3>1. \A f \in Seq(Name) : \A x \in Name : Append(f, x) = f \o <<x>>
      OBVIOUS
    <3> QED BY <2>1, <2>2, <2>3, <2>4, <3>1, Zenon
  <2> QED BY <2>5 DEF Front, Last
<1> QED BY <1>3, <1>4, <1>5, <1>6, Zenon

\* No link leads an entry elsewhere.
LEMMA GoodPlace ==
  ASSUME TypeOK, Good(archive), NEW i \in 1..Len(archive.entries),
         \A f \in tree : \E j \in 1..Len(archive.entries) :
           f = Own(archive.entries[j]) /\ (archive.entries[i].kind = "link" => j < i)
  PROVE  LET x == archive.entries[i] IN
         /\ Found(x.path) /\ PlaceOf(x.path) = x.path
         /\ Found(Followed(x)) /\ Target(x) = x.path /\ Made(x) = Own(x)
<1> DEFINE e == archive.entries  x == e[i]  p == x.path
<1>1. /\ archive \in Archives
      /\ p \in Seq(Name) /\ Len(p) \in Nat \ {0} /\ Len(p) <= MaxSteps
  BY GoodPath DEF TypeOK
<1>2. \A f \in Links : \A k \in 1..Len(p) : f.at # SubSeq(p, 1, k)
  <2> SUFFICES ASSUME NEW f \in Links, NEW k \in 1..Len(p), f.at = SubSeq(p, 1, k)
               PROVE  FALSE
    OBVIOUS
  <2>1. PICK j \in 1..Len(e) : f = Own(e[j]) /\ (x.kind = "link" => j < i)
    BY DEF Links
  <2>2. f.at = e[j].path /\ e[j].kind = "link"
    BY <2>1 DEF Links, Own
  <2>3. IsPrefix(e[j].path, p)
    BY <1>1, <2>2, Beginnings
  <2>4. /\ j < i /\ e[j].kind # "dir" => ~ IsPrefix(e[j].path, p)
        /\ i < j => ~ IsPrefix(e[j].path, p)
    BY <1>1, GoodApart
  <2>5. j = i
    <3>1. ~ (j < i) /\ ~ (i < j)
      BY <2>2, <2>3, <2>4
    <3>2. i \in Int /\ j \in Int
      OBVIOUS
    <3> QED BY <3>1, <3>2
  <2> QED BY <2>1, <2>2, <2>5
<1>3. Lookup(Links, <<>>, p) = [at |-> p, rest |-> <<>>]
  <2> HIDE DEF p
  <2> QED BY <1>1, <1>2, ClearLookup
<1>4. ParentOf(p) = Front(p)
  <2>1. p # <<>>
    <3> HIDE DEF p
    <3> QED BY <1>1, EmptySeq
  <2> QED BY <2>1 DEF ParentOf
<1>5. Lookup(Links, <<>>, Front(p)) = [at |-> Front(p), rest |-> <<>>]
  <2> HIDE DEF p
  <2>1. Len(p) \in 1..Len(p)
    BY <1>1
  <2>2. Front(p) \in Seq(Name) /\ Len(Front(p)) = Len(p) - 1
    BY <1>1, <2>1, Beginnings
  <2>3. Len(Front(p)) <= MaxSteps
    BY <1>1, <2>2, ArchiveAssumption
  <2>4. ASSUME NEW k \in 1..Len(Front(p))
        PROVE  k \in 1..Len(p) /\ SubSeq(Front(p), 1, k) = SubSeq(p, 1, k)
    <3>1. k \in 1..Len(p) /\ k < Len(p)
      BY <1>1, <2>2
    <3> QED BY <1>1, <3>1, Beginnings
  <2>5. \A f \in Links : \A k \in 1..Len(Front(p)) : f.at # SubSeq(Front(p), 1, k)
    BY <1>2, <2>4
  <2> QED BY <2>2, <2>3, <2>5, ClearLookup
<1>6. Append(Front(p), Last(p)) = p
  <2> HIDE DEF p
  <2>1. Len(p) \in 1..Len(p)
    BY <1>1
  <2> QED BY <1>1, <2>1, Beginnings
<1>7. Found(p) /\ PlaceOf(p) = p /\ Found(ParentOf(p)) /\ PlaceOf(ParentOf(p)) = Front(p)
  BY <1>3, <1>4, <1>5 DEF Found, PlaceOf
<1>8. Found(Followed(x)) /\ Target(x) = p
  BY <1>6, <1>7 DEF Followed, Target
<1> QED BY <1>7, <1>8 DEF Made, Own

\* What was declared before the entry, with the entry and of all entries.
LEMMA DeclaredSoFar ==
  ASSUME TypeOK, next <= Len(archive.entries)
  PROVE  LET e == archive.entries IN
         /\ Total(First(Sizes(e), Done)) \in Nat /\ Total(First(FileSizes(e), Done)) \in Nat
         /\ Total(First(Sizes(e), next)) = Total(First(Sizes(e), Done)) + Entry.declared
         /\ Total(First(FileSizes(e), next))
              = Total(First(FileSizes(e), Done)) + (IF Entry.kind = "file" THEN Entry.holds ELSE 0)
         /\ Total(First(Sizes(e), next)) <= Declared(e)
<1> DEFINE e == archive.entries  n == Sizes(e)  h == FileSizes(e)
<1>1. /\ next \in 1..Len(e) /\ Entry = e[next] /\ Done \in Nat /\ next = Done + 1
  BY EntryType
<1>2. e \in Seq(AnyEntry)
  BY ArchiveType DEF TypeOK
<1>3. /\ Len(e) \in Nat /\ n \in [1..Len(e) -> Nat] /\ h \in [1..Len(e) -> Nat]
      /\ n[next] = Entry.declared /\ h[next] = IF Entry.kind = "file" THEN Entry.holds ELSE 0
  <2> HIDE DEF e
  <2> QED BY <1>1, <1>2, SizesType
<1> HIDE DEF n, h, e
<1>4. \A i \in 1..Done + 1 : i \in 1..Len(e)
  BY <1>1, <1>3
<1>5. \A i \in 1..Done + 1 : n[i] \in Nat /\ h[i] \in Nat
  BY <1>3, <1>4
<1>6. \A i \in 1..Done : n[i] \in Nat /\ h[i] \in Nat
  <2>1. \A i \in 1..Done : i \in 1..Done + 1
    BY <1>1
  <2> QED BY <1>5, <2>1
<1>7. Total(First(n, Done)) \in Nat /\ Total(First(h, Done)) \in Nat
  BY <1>1, <1>6, TotalType
<1>8. /\ Total(First(n, next)) = Total(First(n, Done)) + Entry.declared
      /\ Total(First(h, next))
           = Total(First(h, Done)) + (IF Entry.kind = "file" THEN Entry.holds ELSE 0)
  <2>1. /\ Total(First(n, Done + 1)) = Total(First(n, Done)) + n[Done + 1]
        /\ Total(First(h, Done + 1)) = Total(First(h, Done)) + h[Done + 1]
    BY <1>1, <1>5, TotalOneMore
  <2> QED BY <1>1, <1>3, <2>1
<1>9. Total(First(n, next)) <= Declared(e)
  <2>1. next \in 0..Len(e)
    BY <1>1, <1>3
  <2>2. Total(First(n, next)) <= Total(n)
    BY <1>3, <2>1, TotalOfFirst
  <2> QED BY <2>2 DEF Declared, n
<1> QED BY <1>7, <1>8, <1>9 DEF n, h, e

\* Entries so far that are no directories.
LEMMA NonDirectoriesSoFar ==
  ASSUME NEW e \in Seq(AnyEntry), NEW k \in Nat, k < Len(e)
  PROVE  /\ Cardinality(NonDirectoriesTo(e, k)) \in Nat
         /\ Cardinality(NonDirectoriesTo(e, k + 1))
              = Cardinality(NonDirectoriesTo(e, k)) + (IF e[k + 1].kind = "dir" THEN 0 ELSE 1)
         /\ Cardinality(NonDirectoriesTo(e, k + 1)) <= Cardinality(NonDirectories(e))
<1> DEFINE S == NonDirectoriesTo(e, k)  T == NonDirectoriesTo(e, k + 1)
<1>1. Len(e) \in Nat /\ DOMAIN e = 1..Len(e) /\ k \in Int /\ 1 \in Int
  BY LenProperties
<1>2. 1..k + 1 = 1..k \cup {k + 1} /\ k + 1 \notin 1..k /\ 1..k + 1 \subseteq 1..Len(e)
  BY <1>1
<1>3. T = IF e[k + 1].kind = "dir" THEN S ELSE S \cup {k + 1}
  BY <1>2 DEF NonDirectoriesTo
<1>4. IsFiniteSet(S)
  <2>1. IsFiniteSet(1..k) /\ S \subseteq 1..k
    BY <1>1, FS_Interval DEF NonDirectoriesTo
  <2> HIDE DEF S
  <2> QED BY <2>1, FS_Subset
<1>5. k + 1 \notin S
  BY <1>2 DEF NonDirectoriesTo
<1>6. T \subseteq NonDirectories(e) /\ IsFiniteSet(NonDirectories(e))
  <2>1. T \subseteq NonDirectories(e) /\ NonDirectories(e) \subseteq 1..Len(e)
    BY <1>1, <1>2 DEF NonDirectoriesTo, NonDirectories
  <2>2. IsFiniteSet(1..Len(e))
    BY <1>1, FS_Interval
  <2> QED BY <2>1, <2>2, FS_Subset
<1> HIDE DEF S, T
<1>7. Cardinality(S) \in Nat
  BY <1>4, FS_CardinalityType
<1>8. Cardinality(T) = Cardinality(S) + (IF e[k + 1].kind = "dir" THEN 0 ELSE 1)
  <2>1. Cardinality(S \cup {k + 1}) = Cardinality(S) + 1
    BY <1>4, <1>5, FS_AddElement
  <2> QED BY <1>3, <1>7, <2>1
<1>9. Cardinality(T) <= Cardinality(NonDirectories(e))
  BY <1>6, FS_Subset
<1> QED BY <1>7, <1>8, <1>9 DEF S, T

\* An entry of an archive that keeps the rules is made where it says.
LEMMA GoodEntry ==
  ASSUME TypeOK, EntryInv, GoodInv, Good(archive), step \in {"entry", "copy"},
         next <= Len(archive.entries)
  PROVE  Found(Followed(Entry)) /\ Target(Entry) = Entry.path /\ Made(Entry) = Own(Entry)
<1> DEFINE e == archive.entries
<1>1. next \in 1..Len(e) /\ Entry = e[next] /\ Done \in Nat /\ next = Done + 1
  BY EntryType
<1>2. /\ step = "entry" => tree = Owned(e, Done)
      /\ step = "copy"
           => tree = Owned(e, Done) \cup (IF Entry.kind = "file" THEN {Own(Entry)} ELSE {})
  BY DEF GoodInv
<1>3. ASSUME NEW f \in tree
      PROVE  \E j \in 1..Len(e) : f = Own(e[j]) /\ (e[next].kind = "link" => j < next)
  <2>1. CASE f \in Owned(e, Done)
    <3>1. PICK j \in 1..Done : f = Own(e[j])
      BY <2>1 DEF Owned
    <3>2. j \in 1..Len(e) /\ j < next
      BY <1>1
    <3> QED BY <3>1, <3>2
  <2>2. CASE f \notin Owned(e, Done)
    <3>1. e[next].kind = "file" /\ f = Own(e[next])
      BY <1>1, <1>2, <2>2
    <3> QED BY <1>1, <3>1
  <2> QED BY <2>1, <2>2
<1>4. /\ Found(Followed(e[next])) /\ Target(e[next]) = e[next].path
      /\ Made(e[next]) = Own(e[next])
  BY <1>1, <1>3, GoodPlace
<1> QED BY <1>1, <1>4

\* It passes what is looked at, and nothing is in its way.
LEMMA GoodEntryIsAllowed ==
  ASSUME IInv, Good(archive), step = "entry", next <= Len(archive.entries)
  PROVE  EntryIsAllowed /\ Found(Followed(Entry)) /\ CanMake(Entry.kind, Target(Entry))
<1> DEFINE e == archive.entries  p == Entry.path
<1>1. /\ next \in 1..Len(e) /\ Entry = e[next] /\ Done \in Nat /\ next = Done + 1
      /\ Entry.kind \in {"dir", "file", "link"} /\ Entry.declared \in Nat
  BY EntryType DEF IInv
<1>2. /\ archive \in Archives /\ e \in Seq(AnyEntry) /\ Len(e) \in Nat
      /\ expanded \in Nat /\ files \in Nat
  BY ArchiveType DEF IInv, TypeOK
<1>3. /\ p \in Seq(Name) /\ Len(p) \in Nat \ {0}
      /\ SafePath(p) /\ (Entry.kind = "link" => SafePath(Entry.to))
  BY <1>1, <1>2, GoodPath
<1>4. Found(Followed(Entry)) /\ Target(Entry) = p
  BY GoodEntry DEF IInv
<1>5. tree = Owned(e, Done) /\ sealed = {} /\ files = Cardinality(NonDirectoriesTo(e, Done))
  BY DEF IInv, GoodInv
<1>6. /\ Len(e) <= MaxEntries /\ Cardinality(NonDirectories(e)) <= MaxFiles
      /\ Declared(e) <= MaxExpanded
  BY DEF Good
<1>7. expanded + Entry.declared <= MaxExpanded
  <2>1. expanded = Total(First(Sizes(e), Done))
    BY DEF IInv, SumsInv
  <2>2. /\ Total(First(Sizes(e), next)) = Total(First(Sizes(e), Done)) + Entry.declared
        /\ Total(First(Sizes(e), next)) <= Declared(e)
    BY DeclaredSoFar DEF IInv
  <2>3. expanded + Entry.declared <= Declared(e) /\ MaxExpanded \in Nat
    BY <2>1, <2>2, ArchiveAssumption
  <2>4. Declared(e) \in Nat
    <3>1. Sizes(e) \in [1..Len(e) -> Nat]
      BY <1>2, SizesType
    <3>2. First(Sizes(e), Len(e)) = Sizes(e)
      BY <1>2, <3>1, TotalOfFirst
    <3>3. Total(First(Sizes(e), Len(e))) \in Nat
      BY <1>2, <3>1, TotalType
    <3> QED BY <3>2, <3>3 DEF Declared
  <2> QED BY <1>1, <1>2, <1>6, <2>3, <2>4
<1>8. Entry.kind # "dir" => files + 1 <= MaxFiles
  <2>1. Done < Len(e)
    BY <1>1, <1>2
  <2>2. /\ Cardinality(NonDirectoriesTo(e, Done)) \in Nat
        /\ Cardinality(NonDirectoriesTo(e, Done + 1))
              = Cardinality(NonDirectoriesTo(e, Done)) + (IF e[Done + 1].kind = "dir" THEN 0 ELSE 1)
        /\ Cardinality(NonDirectoriesTo(e, Done + 1)) <= Cardinality(NonDirectories(e))
    BY <1>1, <1>2, <2>1, NonDirectoriesSoFar
  <2>3. NonDirectories(e) \subseteq 1..Len(e) /\ IsFiniteSet(1..Len(e))
    <3>1. DOMAIN e = 1..Len(e) /\ 1 \in Int /\ Len(e) \in Int
      BY <1>2, LenProperties
    <3> QED BY <3>1, FS_Interval DEF NonDirectories
  <2>4. Cardinality(NonDirectories(e)) \in Nat
    BY <2>3, FS_Subset, FS_CardinalityType
  <2>5. MaxFiles \in Nat
    BY ArchiveAssumption
  <2> QED BY <1>1, <1>5, <1>6, <2>2, <2>4, <2>5
<1>9. EntryIsAllowed
  <2>1. next <= MaxEntries
    BY <1>1, <1>2, <1>6, ArchiveAssumption
  <2> QED BY <1>3, <1>7, <1>8, <2>1 DEF EntryIsAllowed
<1>10. ASSUME NEW j \in 1..Done
       PROVE  /\ e[j].path # p
              /\ \A k \in 1..Len(p) - 1 : e[j].kind = "file" => e[j].path # SubSeq(p, 1, k)
  <2>1. j \in 1..Len(e) /\ j < next
    BY <1>1, <1>2
  <2>2. e[j].path # p /\ (e[j].kind # "dir" => ~ IsPrefix(e[j].path, p))
    BY <1>1, <1>2, <2>1, GoodApart
  <2>3. \A k \in 1..Len(p) - 1 : IsPrefix(SubSeq(p, 1, k), p)
    <3> TAKE k \in 1..Len(p) - 1
    <3>1. k \in 1..Len(p)
      BY <1>3
    <3> QED BY <1>3, <3>1, Beginnings
  <2> QED BY <2>2, <2>3
<1>11. CanMake(Entry.kind, p)
  <2>1. \A f \in tree : \E j \in 1..Done : f.at = e[j].path /\ f.kind = e[j].kind
    BY <1>5 DEF Owned, Own
  <2>2. KindAt(p) = {}
    BY <1>10, <2>1 DEF KindAt
  <2>3. \A k \in 1..Len(p) - 1 : "file" \notin KindAt(SubSeq(p, 1, k))
    BY <1>10, <2>1 DEF KindAt
  <2> QED BY <1>5, <2>2, <2>3 DEF CanMake
<1> QED BY <1>4, <1>9, <1>11

\* The command of an archive that keeps the rules is a file when all entries
\* are there.
LEMMA GoodCommand ==
  ASSUME TypeOK, GoodInv, Good(archive), step = "copied"
  PROVE  SafePath(archive.cmd) /\ Found(archive.cmd) /\ KindAt(PlaceOf(archive.cmd)) = {"file"}
<1> DEFINE e == archive.entries
<1>1. archive \in Archives /\ DOMAIN e = 1..Len(e)
  BY ArchiveType DEF TypeOK
<1>2. PICK i \in 1..Len(e) : e[i].kind = "file" /\ e[i].path = archive.cmd
  BY <1>1 DEF Good
<1>3. tree = {Own(e[j]) : j \in 1..Len(e)}
  BY DEF GoodInv, Extracted, Owned
<1>4. Found(archive.cmd) /\ PlaceOf(archive.cmd) = archive.cmd
  <2>1. \A f \in tree : \E j \in 1..Len(e) : f = Own(e[j]) /\ (e[i].kind = "link" => j < i)
    BY <1>2, <1>3
  <2> QED BY <1>2, <2>1, GoodPlace
<1>5. SafePath(archive.cmd)
  BY <1>1, <1>2, GoodPath
<1>6. \A j \in 1..Len(e) : j # i => e[j].path # archive.cmd
  BY <1>1, <1>2, GoodApart
<1>7. KindAt(archive.cmd) = {"file"}
  <2>1. \A f \in tree : f.at = archive.cmd => f.kind = "file"
    BY <1>2, <1>3, <1>6 DEF Own
  <2>2. \E f \in tree : f.at = archive.cmd /\ f.kind = "file"
    <3>1. Own(e[i]) \in tree
      BY <1>3
    <3>2. Own(e[i]).at = archive.cmd /\ Own(e[i]).kind = "file"
      BY <1>2 DEF Own
    <3> QED BY <3>1, <3>2
  <2>3. \A k \in KindAt(archive.cmd) : k = "file"
    BY <2>1 DEF KindAt
  <2>4. "file" \in KindAt(archive.cmd)
    <3>1. PICK f \in tree : f.at = archive.cmd /\ f.kind = "file"
      BY <2>2
    <3>2. f \in {g \in tree : g.at = archive.cmd}
      BY <3>1
    <3>3. f.kind \in KindAt(archive.cmd)
      BY <3>2, Zenon DEF KindAt
    <3> QED BY <3>1, <3>3
  <2> QED BY <2>3, <2>4
<1> QED BY <1>4, <1>5, <1>7

-----------------------------------------------------------------------------
(***************************************************************************)
(* The steps.                                                              *)
(***************************************************************************)
LEMMA InitHolds ==
  ASSUME ArchiveInit
  PROVE  IInv
<1>1. IsFiniteSet({}) /\ Cardinality({}) = 0 /\ NonDirs({}) = {}
  BY FS_EmptySet DEF NonDirs
<1>2. TypeOK
  <2>1. /\ archive \in Archives /\ step = "request" /\ downloaded = 0 /\ next = 1
        /\ expanded = 0 /\ files = 0 /\ copied = 0 /\ written = 0 /\ hasFile = FALSE
        /\ cancel = FALSE /\ tree = {}
    BY DEF ArchiveInit
  <2>2. step \in Steps
    BY <2>1 DEF Steps, Fetching
  <2>3. next \in Nat \ {0} /\ tree \in SUBSET Thing /\ IsFiniteSet(tree)
    BY <1>1, <2>1
  <2> QED BY <2>1, <2>2, <2>3 DEF TypeOK
<1>3. DownloadInv
  BY ArchiveAssumption DEF ArchiveInit, DownloadInv
<1>4. EntryInv
  BY DEF ArchiveInit, EntryInv
<1>5. LimitsInv
  <2>1. /\ step = "request" /\ written = 0 /\ expanded = 0 /\ files = 0
        /\ Cardinality(tree) = 0 /\ Cardinality(NonDirs(tree)) = 0
    BY <1>1 DEF ArchiveInit
  <2> QED BY <2>1, ArchiveAssumption DEF LimitsInv
<1>6. SumsInv
  BY DEF ArchiveInit, SumsInv, Extracted
<1>7. GoodInv
  BY DEF ArchiveInit, GoodInv, Extracted
<1> QED BY <1>2, <1>3, <1>4, <1>5, <1>6, <1>7 DEF IInv

LEMMA RequestKeeps ==
  ASSUME IInv, Request
  PROVE  IInv'
<1>1. /\ step = "request" /\ archive \in Archives /\ hasFile \in BOOLEAN /\ cancel \in BOOLEAN
      /\ ~hasFile /\ downloaded \in Nat /\ downloaded <= MaxDownload
  BY DEF IInv, TypeOK, DownloadInv, Request
<1>2. archive.name \in Component /\ archive.length \in Nat
  BY <1>1, ArchiveType
<1>3. CASE step' = "failed"
  <2>1. /\ Fail /\ downloaded' = downloaded /\ hasFile' = hasFile
        /\ \/ archive.digest \in {"missing", "malformed"}
           \/ archive.name \in {"", ".", "..", "/"}
           \/ archive.length > MaxDownload
    BY <1>3 DEF Request
  <2>2. ~ Good(archive)
    <3>1. Good(archive) => /\ archive.digest = "right" /\ archive.length <= MaxDownload
                           /\ archive.name \notin {"", ".", "..", "/"}
      BY DEF Good
    <3>2. MaxDownload \in Nat
      BY ArchiveAssumption
    <3>3. ASSUME NEW n \in Nat, n <= MaxDownload
          PROVE  ~ (n > MaxDownload)
      BY <3>2, <3>3
    <3>4. Good(archive) => ~ (archive.length > MaxDownload)
      BY <1>2, <3>1, <3>3
    <3> QED BY <2>1, <3>1, <3>4
  <2> QED BY <1>1, <2>1, <2>2, FailKeeps
<1>4. CASE step' # "failed"
  <2>1. /\ step' = "receive" /\ hasFile' = TRUE /\ archive' = archive
        /\ downloaded' = downloaded /\ cancel' = cancel /\ UNCHANGED progress
        /\ archive.name \notin {"", ".", "..", "/"}
    BY <1>4 DEF Request, Fail
  <2>2. archive.name \in Name /\ step \in Fetching
    BY <1>1, <1>2, <2>1 DEF Name, Safe, Unsafe, Fetching
  <2> QED BY <1>1, <2>1, <2>2, FetchKeeps
<1> QED BY <1>3, <1>4

LEMMA ReceiveKeeps ==
  ASSUME IInv, Receive
  PROVE  IInv'
<1>1. /\ step = "receive" /\ step \in Fetching /\ archive \in Archives
      /\ hasFile \in BOOLEAN /\ cancel \in BOOLEAN
      /\ downloaded \in Nat /\ downloaded < archive.body /\ archive.name \in Name
  BY DEF IInv, TypeOK, DownloadInv, Receive, Fetching
<1>2. archive.body \in Nat /\ MaxDownload \in Nat
  BY <1>1, ArchiveType, ArchiveAssumption
<1>3. CASE downloaded + 1 > MaxDownload
  <2>1. Fail /\ hasFile' = FALSE /\ downloaded' = downloaded
    BY <1>3 DEF Receive
  <2> QED BY <1>1, <2>1, FailKeeps
<1>4. CASE ~ (downloaded + 1 > MaxDownload)
  <2>1. /\ downloaded' = downloaded + 1 /\ archive' = archive /\ step' = step
        /\ hasFile' = hasFile /\ cancel' = cancel /\ UNCHANGED progress
    BY <1>4 DEF Receive
  <2>2. downloaded' \in Nat /\ downloaded' <= MaxDownload
    BY <1>1, <1>2, <1>4, <2>1
  <2> QED BY <1>1, <2>1, <2>2, FetchKeeps
<1> QED BY <1>3, <1>4

LEMMA BrokenKeeps ==
  ASSUME IInv, Broken
  PROVE  IInv'
  BY FailKeeps DEF Broken

LEMMA BodyEndsKeeps ==
  ASSUME IInv, BodyEnds
  PROVE  IInv'
<1>1. /\ step = "receive" /\ step \in Fetching /\ hasFile \in BOOLEAN /\ cancel \in BOOLEAN
      /\ downloaded \in Nat /\ downloaded <= MaxDownload /\ archive.name \in Name
      /\ downloaded' = downloaded
  BY DEF IInv, TypeOK, DownloadInv, BodyEnds, Fetching
<1>2. CASE archive.digest = "right"
  <2>1. /\ step' = "extract" /\ archive' = archive /\ hasFile' = hasFile /\ cancel' = cancel
        /\ UNCHANGED progress
    BY <1>2 DEF BodyEnds, Verified
  <2> QED BY <1>1, <1>2, <2>1, FetchKeeps
<1>3. CASE archive.digest # "right"
  <2>1. Fail /\ hasFile' = FALSE
    BY <1>3 DEF BodyEnds, Verified
  <2>2. ~ Good(archive)
    BY <1>3 DEF Good
  <2> QED BY <1>1, <2>1, <2>2, FailKeeps
<1> QED BY <1>2, <1>3

\* An error of the extraction.
LEMMA StopKeeps ==
  ASSUME IInv, Stop, step \in {"extract", "entry", "copy", "copied"}, Good(archive) => cancel
  PROVE  IInv'
<1>1. Fail /\ downloaded' = downloaded /\ hasFile' = hasFile
  BY DEF Stop
<1>2. hasFile \in BOOLEAN /\ archive.digest = "right"
  BY DEF IInv, TypeOK, DownloadInv
<1> QED BY <1>1, <1>2, FailKeeps

LEMMA CancelledKeeps ==
  ASSUME IInv, Cancelled
  PROVE  IInv'
  BY StopKeeps DEF Cancelled

LEMMA CancelKeeps ==
  ASSUME IInv, Cancel
  PROVE  IInv'
  BY SameKeeps DEF Cancel

LEMMA OpenKeeps ==
  ASSUME IInv, Open
  PROVE  IInv'
<1> DEFINE e == archive.entries
           thing == [at |-> <<archive.name>>, kind |-> "file", to |-> <<>>]
<1>1. /\ step = "extract" /\ archive \in Archives /\ archive.name \in Name
      /\ archive.digest = "right" /\ tree = {} /\ written = 0 /\ next = 1
      /\ expanded = 0 /\ files = 0 /\ sealed = {}
      /\ archive' = archive /\ downloaded' = downloaded /\ hasFile' = hasFile /\ cancel' = cancel
  BY DEF IInv, TypeOK, DownloadInv, Fetching, Open, Stop, Fail
<1>2. /\ archive.format \in {"zip", "tar", "none"} /\ archive.body \in Nat
      /\ e \in Seq(AnyEntry) /\ Len(e) \in Nat
  BY <1>1, ArchiveType
<1>3. IsFiniteSet({}) /\ Cardinality({}) = 0 /\ NonDirs({}) = {}
  BY FS_EmptySet DEF NonDirs
<1>4. CASE Stop
  <2>1. \/ archive.format = "none"
        \/ IsZip /\ Len(e) > MaxEntries
    BY <1>1, <1>4 DEF Open, Stop, Fail
  <2>2. Good(archive) => archive.format \in {"zip", "tar"} /\ Len(e) <= MaxEntries
    BY DEF Good
  <2>3. ~ Good(archive)
    BY <1>2, <2>1, <2>2, ArchiveAssumption
  <2> QED BY <1>1, <1>4, <2>3, StopKeeps
<1>5. CASE /\ archive.format = "none" /\ archive.body <= MaxExpanded
           /\ step' = "copied" /\ tree' = {thing} /\ written' = archive.body
           /\ UNCHANGED <<next, expanded, files, copied, modes, sealed>>
  <2>1. IsFiniteSet({thing}) /\ Cardinality({thing}) = 1 /\ NonDirs({thing}) = {thing}
    <3>1. thing.kind # "dir"
      OBVIOUS
    <3> HIDE DEF thing
    <3> QED BY <3>1, FS_Singleton DEF NonDirs
  <2>2. thing \in Thing
    BY <1>1, EmptySeq DEF Thing
  <2> HIDE DEF thing
  <2>3. TypeOK'
    BY <1>1, <1>2, <1>5, <2>1, <2>2 DEF IInv, TypeOK, Steps, Extracted
  <2>4. DownloadInv'
    BY <1>1, <1>5 DEF IInv, DownloadInv, Fetching
  <2>5. EntryInv'
    BY <1>5 DEF EntryInv
  <2>6. LimitsInv'
    <3>1. /\ written' <= MaxExpanded /\ expanded' = 0 /\ files' = 0
          /\ Cardinality(tree)' = 1 /\ Cardinality(NonDirs(tree))' = 1 /\ step' = "copied"
      BY <1>1, <1>5, <2>1
    <3> QED BY <3>1, ArchiveAssumption DEF LimitsInv
  <2>7. SumsInv'
    BY <1>1, <1>5 DEF SumsInv
  <2>8. GoodInv'
    <3>1. ~ Good(archive)
      BY <1>5 DEF Good
    <3>2. ~ Good(archive)'
      BY <1>1, <3>1
    <3> QED BY <3>2 DEF GoodInv
  <2> QED BY <2>3, <2>4, <2>5, <2>6, <2>7, <2>8 DEF IInv
<1>6. CASE /\ archive.format # "none" /\ ~ (IsZip /\ Len(e) > MaxEntries)
           /\ step' = "entry" /\ UNCHANGED progress
  <2>1. /\ next' = 1 /\ expanded' = 0 /\ files' = 0 /\ tree' = {} /\ written' = 0
        /\ sealed' = {} /\ copied' = copied
    BY <1>1, <1>6 DEF progress
  <2>2. Done' = 0
    BY <2>1 DEF Done
  <2>3. TypeOK'
    BY <1>1, <1>3, <1>6, <2>1 DEF IInv, TypeOK, Steps
  <2>4. DownloadInv'
    BY <1>1, <1>6 DEF IInv, DownloadInv, Fetching
  <2>5. EntryInv'
    BY <1>1, <1>2, <1>6, <2>2, ArchiveAssumption DEF EntryInv, IsZip
  <2>6. LimitsInv'
    <3>1. /\ written' = 0 /\ expanded' = 0 /\ files' = 0 /\ Done' = 0
          /\ Cardinality(tree)' = 0 /\ Cardinality(NonDirs(tree))' = 0 /\ step' = "entry"
      BY <1>3, <1>6, <2>1, <2>2
    <3> QED BY <3>1, ArchiveAssumption DEF LimitsInv
  <2>7. SumsInv'
    <3>1. Total(First(Sizes(e), 0)) = 0 /\ Total(First(FileSizes(e), 0)) = 0
      BY <1>2, SizesType, TotalOfFirst
    <3> QED BY <1>1, <1>6, <2>1, <2>2, <3>1 DEF SumsInv, Extracted
  <2>8. GoodInv'
    <3>1. Owned(e, 0) = {} /\ NonDirectoriesTo(e, 0) = {}
      BY DEF Owned, NonDirectoriesTo
    <3> QED BY <1>1, <1>3, <1>6, <2>1, <2>2, <3>1 DEF GoodInv, Extracted
  <2> QED BY <2>3, <2>4, <2>5, <2>6, <2>7, <2>8 DEF IInv
<1> QED BY <1>4, <1>5, <1>6 DEF Open

\* One thing more in the destination.
LEMMA OneMoreThing ==
  ASSUME NEW T \in SUBSET Thing, IsFiniteSet(T), NEW x \in Thing
  PROVE  /\ T \cup {x} \in SUBSET Thing /\ IsFiniteSet(T \cup {x})
         /\ Cardinality(T) \in Nat /\ Cardinality(NonDirs(T)) \in Nat
         /\ Cardinality(T \cup {x}) \in Nat /\ Cardinality(NonDirs(T \cup {x})) \in Nat
         /\ Cardinality(T \cup {x}) <= Cardinality(T) + 1
         /\ Cardinality(NonDirs(T \cup {x}))
              <= Cardinality(NonDirs(T)) + (IF x.kind = "dir" THEN 0 ELSE 1)
<1>1. IsFiniteSet(NonDirs(T)) /\ Cardinality(T) \in Nat /\ Cardinality(NonDirs(T)) \in Nat
  <2>1. NonDirs(T) \subseteq T
    BY DEF NonDirs
  <2> QED BY <2>1, FS_Subset, FS_CardinalityType
<1>2. /\ IsFiniteSet(T \cup {x})
      /\ Cardinality(T \cup {x}) = IF x \in T THEN Cardinality(T) ELSE Cardinality(T) + 1
      /\ Cardinality(NonDirs(T) \cup {x})
           = IF x \in NonDirs(T) THEN Cardinality(NonDirs(T)) ELSE Cardinality(NonDirs(T)) + 1
  BY <1>1, FS_AddElement
<1>3. NonDirs(T \cup {x}) = IF x.kind = "dir" THEN NonDirs(T) ELSE NonDirs(T) \cup {x}
  BY DEF NonDirs
<1> QED BY <1>1, <1>2, <1>3

\* The current entry is made at the same place while no link is made.
LEMMA MadeSame ==
  ASSUME archive' = archive, next' = next, Links' = Links
  PROVE  Made(Entry)' = Made(Entry)
<1>1. PlaceOf(Entry.path)' = PlaceOf(Entry.path)
  BY DEF PlaceOf, Entry
<1>2. PlaceOf(ParentOf(Entry.path))' = PlaceOf(ParentOf(Entry.path))
  BY DEF PlaceOf, Entry
<1> QED BY <1>1, <1>2 DEF Made, Target, Followed, Entry

LEMMA BeginDirectoryKeeps ==
  ASSUME IInv, BeginEntry, EntryIsAllowed, Found(Followed(Entry)),
         CanMake(Entry.kind, Target(Entry)), Entry.kind = "dir"
  PROVE  IInv'
<1> DEFINE e == archive.entries
<1>1. /\ step = "entry" /\ next <= Len(e) /\ archive \in Archives
      /\ expanded' = expanded + Entry.declared /\ tree' = tree \cup {Made(Entry)}
      /\ sealed' = (IF ~IsZip /\ Entry.sealed THEN sealed \cup {Target(Entry)} ELSE sealed)
      /\ next' = next + 1 /\ step' = step /\ files' = files /\ copied' = copied
      /\ written' = written /\ archive' = archive /\ downloaded' = downloaded
      /\ hasFile' = hasFile /\ cancel' = cancel
  BY DEF BeginEntry, MakeDirectory, IInv, TypeOK
<1>2. /\ next \in 1..Len(e) /\ Entry = e[next] /\ Done \in Nat /\ next = Done + 1
      /\ Entry.declared \in Nat
  BY <1>1, EntryType DEF IInv
<1>3. e \in Seq(AnyEntry) /\ Len(e) \in Nat
  BY <1>1, ArchiveType
<1>4. Done' = next
  BY <1>1, <1>2 DEF Done
<1>5. /\ SafePath(Entry.path) /\ expanded + Entry.declared <= MaxExpanded
      /\ IsZip \/ next <= MaxEntries
  BY DEF EntryIsAllowed
<1>6. Made(Entry) \in Thing /\ Made(Entry).kind = "dir"
  <2>1. Made(Entry) \in Thing
    BY <1>1, <1>5, EntryMade DEF IInv
  <2> QED BY <2>1 DEF Made
<1>7. tree \in SUBSET Thing /\ IsFiniteSet(tree) /\ expanded \in Nat /\ written \in Nat
  BY DEF IInv, TypeOK
<1>8. TypeOK'
  <2>1. tree' \in SUBSET Thing /\ IsFiniteSet(tree')
    BY <1>1, <1>6, <1>7, OneMoreThing
  <2>2. next \in Nat /\ Entry.declared \in Nat
    BY <1>2
  <2>3. expanded' \in Nat /\ next' \in Nat \ {0}
    BY <1>1, <1>7, <2>2
  <2> QED BY <1>1, <2>1, <2>3 DEF IInv, TypeOK
<1>9. DownloadInv'
  BY <1>1 DEF IInv, DownloadInv, Fetching
<1>10. EntryInv'
  BY <1>1, <1>4 DEF IInv, EntryInv, IsZip
<1>11. LimitsInv'
  <2>1. /\ Cardinality(tree) \in Nat /\ Cardinality(tree') \in Nat
        /\ Cardinality(NonDirs(tree)) \in Nat /\ Cardinality(NonDirs(tree')) \in Nat
        /\ Cardinality(tree') <= Cardinality(tree) + 1
        /\ Cardinality(NonDirs(tree')) <= Cardinality(NonDirs(tree))
    <3>1. /\ Cardinality(tree) \in Nat /\ Cardinality(tree') \in Nat
          /\ Cardinality(NonDirs(tree)) \in Nat /\ Cardinality(NonDirs(tree')) \in Nat
          /\ Cardinality(tree') <= Cardinality(tree) + 1
          /\ Cardinality(NonDirs(tree')) <= Cardinality(NonDirs(tree)) + 0
      BY <1>1, <1>6, <1>7, OneMoreThing
    <3> QED BY <3>1
  <2>2. /\ written <= MaxExpanded /\ files <= MaxFiles /\ written <= expanded
        /\ Cardinality(NonDirs(tree)) <= MaxFiles
        /\ Cardinality(NonDirs(tree)) <= files /\ Cardinality(tree) <= Done
    BY <1>1 DEF IInv, LimitsInv
  <2>3. next <= MaxEntries
    <3>1. IsZip => Len(e) <= MaxEntries
      BY <1>1 DEF IInv, EntryInv
    <3>2. MaxEntries \in Nat
      BY ArchiveAssumption
    <3>3. next \in Nat /\ next <= Len(e)
      BY <1>2, <1>3
    <3> HIDE DEF e
    <3> QED BY <1>3, <1>5, <3>1, <3>2, <3>3
  <2>4. MaxFiles \in Nat /\ MaxEntries \in Nat /\ files \in Nat
    BY ArchiveAssumption DEF IInv, TypeOK
  <2>5. /\ Cardinality(tree') <= next /\ Cardinality(tree') <= MaxEntries
        /\ Cardinality(NonDirs(tree')) <= files /\ Cardinality(NonDirs(tree')) <= MaxFiles
        /\ written <= expanded + Entry.declared
    <3>1. Done \in Nat /\ next = Done + 1 /\ Entry.declared \in Nat
      BY <1>2
    <3>2. Cardinality(tree') <= next
      BY <2>1, <2>2, <3>1
    <3>3. Cardinality(tree') <= MaxEntries
      BY <2>1, <2>3, <2>4, <3>1, <3>2
    <3>4. Cardinality(NonDirs(tree')) <= files /\ Cardinality(NonDirs(tree')) <= MaxFiles
      BY <2>1, <2>2, <2>4
    <3>5. written <= expanded + Entry.declared
      BY <1>7, <2>2, <3>1
    <3> QED BY <3>2, <3>3, <3>4, <3>5
  <2> QED BY <1>1, <1>4, <1>5, <2>2, <2>5 DEF LimitsInv
<1>12. SumsInv'
  <2>1. /\ expanded = Total(First(Sizes(e), Done)) /\ written = Total(First(FileSizes(e), Done))
    BY <1>1 DEF IInv, SumsInv
  <2>2. /\ Total(First(Sizes(e), next)) = Total(First(Sizes(e), Done)) + Entry.declared
        /\ Total(First(FileSizes(e), next)) = Total(First(FileSizes(e), Done)) + 0
        /\ Total(First(FileSizes(e), Done)) \in Nat
    BY <1>1, DeclaredSoFar DEF IInv
  <2>3. expanded' = Total(First(Sizes(e), next)) /\ written' = Total(First(FileSizes(e), next))
    BY <1>1, <2>1, <2>2
  <2> QED BY <1>1, <1>4, <2>3 DEF SumsInv, Extracted
<1>13. GoodInv'
  <2> SUFFICES ASSUME Good(archive)
               PROVE  /\ sealed' = {} /\ tree' = Owned(e, next)
                      /\ files = Cardinality(NonDirectoriesTo(e, next))
    BY <1>1, <1>4 DEF GoodInv, Extracted
  <2>1. /\ sealed = {} /\ tree = Owned(e, Done)
        /\ files = Cardinality(NonDirectoriesTo(e, Done))
    BY <1>1 DEF IInv, GoodInv
  <2>2. sealed' = {}
    <3>1. archive.format = "tar" => ~ Entry.sealed
      <4>1. next \in DOMAIN e
        BY <1>2, <1>3, LenProperties
      <4> QED BY <1>2, <4>1 DEF Good
    <3>2. archive.format \in {"zip", "tar"}
      BY DEF Good
    <3> QED BY <1>1, <2>1, <3>1, <3>2 DEF IsZip
  <2>3. Made(Entry) = Own(e[next])
    BY <1>1, <1>2, GoodEntry DEF IInv
  <2>4. Owned(e, next) = Owned(e, Done) \cup {Own(e[next])}
    <3>1. 1..next = 1..Done \cup {next}
      BY <1>2
    <3> QED BY <3>1 DEF Owned
  <2>5. Cardinality(NonDirectoriesTo(e, next)) = Cardinality(NonDirectoriesTo(e, Done))
    <3>1. Done < Len(e)
      BY <1>2, <1>3
    <3>2. /\ Cardinality(NonDirectoriesTo(e, Done)) \in Nat
          /\ Cardinality(NonDirectoriesTo(e, Done + 1))
               = Cardinality(NonDirectoriesTo(e, Done)) + (IF e[Done + 1].kind = "dir" THEN 0 ELSE 1)
      BY <1>2, <1>3, <3>1, NonDirectoriesSoFar
    <3> QED BY <1>2, <3>2
  <2> QED BY <1>1, <2>1, <2>2, <2>3, <2>4, <2>5
<1> QED BY <1>8, <1>9, <1>10, <1>11, <1>12, <1>13 DEF IInv

LEMMA BeginFileKeeps ==
  ASSUME IInv, BeginEntry, EntryIsAllowed, Found(Followed(Entry)),
         CanMake(Entry.kind, Target(Entry)), Entry.kind # "dir"
  PROVE  IInv'
<1> DEFINE e == archive.entries
<1>1. /\ step = "entry" /\ next <= Len(e) /\ archive \in Archives
      /\ expanded' = expanded + Entry.declared /\ files' = files + 1 /\ copied' = 0
      /\ tree' = (IF Entry.kind = "file" THEN tree \cup {Made(Entry)} ELSE tree)
      /\ step' = "copy" /\ next' = next /\ written' = written /\ sealed' = sealed
      /\ archive' = archive /\ downloaded' = downloaded /\ hasFile' = hasFile /\ cancel' = cancel
  BY DEF BeginEntry, MakeFile, IInv, TypeOK
<1>2. /\ next \in 1..Len(e) /\ Entry = e[next] /\ Done \in Nat /\ next = Done + 1
      /\ Entry.declared \in Nat /\ Entry.holds \in Nat /\ Entry.kind \in {"file", "link"}
  BY <1>1, EntryType DEF IInv
<1>3. e \in Seq(AnyEntry) /\ Len(e) \in Nat
  BY <1>1, ArchiveType
<1>4. Done' = Done /\ Entry' = Entry
  BY <1>1 DEF Done, Entry
<1>5. /\ SafePath(Entry.path) /\ expanded + Entry.declared <= MaxExpanded
      /\ files + 1 <= MaxFiles
      /\ IsZip \/ next <= MaxEntries
  BY DEF EntryIsAllowed
<1>6. Entry.kind = "file" => Made(Entry) \in Thing /\ Made(Entry).kind = "file"
  <2>1. Entry.kind = "file" => Made(Entry) \in Thing
    BY <1>1, <1>5, EntryMade DEF IInv
  <2> QED BY <2>1 DEF Made
<1>7. tree \in SUBSET Thing /\ IsFiniteSet(tree) /\ expanded \in Nat /\ written \in Nat /\ files \in Nat
  BY DEF IInv, TypeOK
<1>8. Made(Entry)' = Made(Entry)
  <2>1. Links' = Links
    BY <1>1, <1>6 DEF Links
  <2> QED BY <1>1, <2>1, MadeSame
<1>9. next <= MaxEntries
  <2>1. IsZip => Len(e) <= MaxEntries
    BY <1>1 DEF IInv, EntryInv
  <2>2. MaxEntries \in Nat
    BY ArchiveAssumption
  <2>3. next \in Nat /\ next <= Len(e)
    BY <1>2, <1>3
  <2> HIDE DEF e
  <2> QED BY <1>3, <1>5, <2>1, <2>2, <2>3
<1>10. TypeOK'
  <2>1. tree' \in SUBSET Thing /\ IsFiniteSet(tree')
    BY <1>1, <1>6, <1>7, OneMoreThing
  <2>2. expanded' \in Nat /\ files' \in Nat
    BY <1>1, <1>2, <1>7
  <2> QED BY <1>1, <2>1, <2>2 DEF IInv, TypeOK, Steps
<1>11. DownloadInv'
  BY <1>1 DEF IInv, DownloadInv, Fetching
<1>12. EntryInv'
  <2>1. Entry.kind = "file" => Made(Entry) \in tree'
    BY <1>1
  <2>2. copied' <= Entry.holds
    BY <1>1, <1>2
  <2> QED BY <1>1, <1>2, <1>4, <1>5, <1>8, <1>9, <2>1, <2>2 DEF IInv, EntryInv, IsZip
<1>13. LimitsInv'
  <2> DEFINE made == IF Entry.kind = "file" THEN 0 ELSE 1
  <2>1. /\ Cardinality(tree) \in Nat /\ Cardinality(tree') \in Nat
        /\ Cardinality(NonDirs(tree)) \in Nat /\ Cardinality(NonDirs(tree')) \in Nat
        /\ Cardinality(tree') + made <= Cardinality(tree) + 1
        /\ Cardinality(NonDirs(tree')) + made <= Cardinality(NonDirs(tree)) + 1
    <3>1. CASE Entry.kind = "file"
      <4>1. /\ Cardinality(tree) \in Nat /\ Cardinality(tree') \in Nat
            /\ Cardinality(NonDirs(tree)) \in Nat /\ Cardinality(NonDirs(tree')) \in Nat
            /\ Cardinality(tree') <= Cardinality(tree) + 1
            /\ Cardinality(NonDirs(tree')) <= Cardinality(NonDirs(tree)) + 1
        BY <1>1, <1>6, <1>7, <3>1, OneMoreThing
      <4> QED BY <3>1, <4>1
    <3>2. CASE Entry.kind # "file"
      <4>1. Cardinality(tree) \in Nat /\ Cardinality(NonDirs(tree)) \in Nat
        <5>1. NonDirs(tree) \subseteq tree
          BY DEF NonDirs
        <5> QED BY <1>7, <5>1, FS_Subset, FS_CardinalityType
      <4> QED BY <1>1, <3>2, <4>1
    <3> QED BY <3>1, <3>2
  <2>2. /\ written <= MaxExpanded /\ files <= MaxFiles /\ written <= expanded
        /\ Cardinality(NonDirs(tree)) <= files /\ Cardinality(tree) <= Done
    BY <1>1 DEF IInv, LimitsInv
  <2>3. MaxFiles \in Nat /\ MaxEntries \in Nat /\ made \in {0, 1}
    BY ArchiveAssumption
  <2>4. Done \in Nat /\ next = Done + 1 /\ Entry.declared \in Nat
    BY <1>2
  <2>5. Cardinality(tree') + made <= next /\ Cardinality(tree') <= MaxEntries
    <3> HIDE DEF made
    <3> QED BY <1>9, <2>1, <2>2, <2>3, <2>4
  <2>6. Cardinality(NonDirs(tree')) + made <= files + 1 /\ Cardinality(NonDirs(tree')) <= MaxFiles
    <3> HIDE DEF made
    <3>1. files \in Nat /\ files + 1 <= MaxFiles
      BY <1>5, <1>7
    <3>2. Cardinality(NonDirs(tree')) + made <= files + 1
      BY <2>1, <2>2, <2>3, <3>1
    <3> QED BY <2>1, <2>3, <3>1, <3>2
  <2>7. /\ written + Entry.declared <= expanded + Entry.declared + 0
        /\ Entry.declared <= expanded + Entry.declared
    BY <1>7, <2>2, <2>4
  <2>8. /\ written' <= MaxExpanded /\ expanded' <= MaxExpanded /\ files' <= MaxFiles
        /\ Cardinality(NonDirs(tree))' <= MaxFiles /\ Cardinality(tree)' <= MaxEntries
        /\ step' = "copy"
    BY <1>1, <1>5, <2>2, <2>5, <2>6
  <2>9. /\ (Entry.declared <= expanded)' /\ (written + Entry.declared <= expanded + copied)'
        /\ Cardinality(NonDirs(tree))' + made <= files' /\ Cardinality(tree)' + made <= next'
    BY <1>1, <1>4, <2>5, <2>6, <2>7
  <2> QED BY <1>4, <2>8, <2>9 DEF LimitsInv
<1>14. SumsInv'
  <2>1. /\ expanded = Total(First(Sizes(e), Done)) /\ written = Total(First(FileSizes(e), Done))
    BY <1>1 DEF IInv, SumsInv
  <2>2. /\ Total(First(Sizes(e), next)) = Total(First(Sizes(e), Done)) + Entry.declared
        /\ Total(First(FileSizes(e), Done)) \in Nat
    BY <1>1, DeclaredSoFar DEF IInv
  <2>3. /\ expanded' = Total(First(Sizes(e), next))
        /\ written' = Total(First(FileSizes(e), Done)) + (IF Entry.kind = "file" THEN copied' ELSE 0)
    BY <1>1, <2>1, <2>2
  <2> QED BY <1>1, <1>4, <2>3 DEF SumsInv, Extracted
<1>15. GoodInv'
  <2> SUFFICES ASSUME Good(archive)
               PROVE  /\ sealed' = {}
                      /\ tree' = Owned(e, Done) \cup (IF Entry.kind = "file" THEN {Own(Entry)} ELSE {})
                      /\ files + 1 = Cardinality(NonDirectoriesTo(e, next))
    BY <1>1, <1>4 DEF GoodInv, Extracted
  <2>1. /\ sealed = {} /\ tree = Owned(e, Done)
        /\ files = Cardinality(NonDirectoriesTo(e, Done))
    BY <1>1 DEF IInv, GoodInv
  <2>2. Made(Entry) = Own(Entry)
    BY <1>1, GoodEntry DEF IInv
  <2>3. Cardinality(NonDirectoriesTo(e, next)) = Cardinality(NonDirectoriesTo(e, Done)) + 1
    <3>1. Done < Len(e)
      BY <1>2, <1>3
    <3>2. /\ Cardinality(NonDirectoriesTo(e, Done)) \in Nat
          /\ Cardinality(NonDirectoriesTo(e, Done + 1))
               = Cardinality(NonDirectoriesTo(e, Done)) + (IF e[Done + 1].kind = "dir" THEN 0 ELSE 1)
      BY <1>2, <1>3, <3>1, NonDirectoriesSoFar
    <3> QED BY <1>2, <3>2
  <2> QED BY <1>1, <2>1, <2>2, <2>3
<1> QED BY <1>10, <1>11, <1>12, <1>13, <1>14, <1>15 DEF IInv

LEMMA BeginEntryKeeps ==
  ASSUME IInv, BeginEntry
  PROVE  IInv'
<1>1. CASE EntryIsAllowed /\ Found(Followed(Entry)) /\ CanMake(Entry.kind, Target(Entry))
  BY <1>1, BeginDirectoryKeeps, BeginFileKeeps
<1>2. CASE ~ (EntryIsAllowed /\ Found(Followed(Entry)) /\ CanMake(Entry.kind, Target(Entry)))
  <2>1. Stop /\ step = "entry" /\ next <= Len(archive.entries)
    BY <1>2 DEF BeginEntry
  <2>2. ~ Good(archive)
    BY <1>2, <2>1, GoodEntryIsAllowed
  <2> QED BY <2>1, <2>2, StopKeeps
<1> QED BY <1>1, <1>2

LEMMA CopyKeeps ==
  ASSUME IInv, Copy
  PROVE  IInv'
<1> DEFINE e == archive.entries
<1>1. /\ step = "copy" /\ next <= Len(e) /\ archive \in Archives
      /\ copied < Entry.holds /\ expanded <= MaxExpanded
  BY DEF Copy, IInv, TypeOK, EntryInv, LimitsInv
<1>2. /\ next \in 1..Len(e) /\ Entry = e[next] /\ Entry.declared \in Nat /\ Entry.holds \in Nat
      /\ Entry.kind \in {"dir", "file", "link"}
  BY <1>1, EntryType DEF IInv
<1>3. copied \in Nat /\ expanded \in Nat /\ written \in Nat
  BY DEF IInv, TypeOK
<1>4. MaxExpanded \in Nat
  BY ArchiveAssumption
<1>5. CASE copied + 1 > CopyLimit
  <2>1. Stop
    BY <1>5 DEF Copy
  <2>2. Good(archive) => Entry.holds = Entry.declared
    BY <1>1, <1>2, GoodPath
  <2>3. Entry.holds = Entry.declared => copied + 1 <= CopyLimit
    BY <1>1, <1>2, <1>3, <1>4 DEF CopyLimit
  <2>4. CopyLimit \in Int
    BY <1>2, <1>3, <1>4 DEF CopyLimit
  <2>5. ~ Good(archive)
    BY <1>3, <1>5, <2>2, <2>3, <2>4
  <2> QED BY <1>1, <2>1, <2>5, StopKeeps
<1>6. CASE ~ (copied + 1 > CopyLimit)
  <2>1. /\ copied' = copied + 1
        /\ written' = (IF Entry.kind = "file" THEN written + 1 ELSE written)
        /\ archive' = archive /\ step' = step /\ downloaded' = downloaded /\ hasFile' = hasFile
        /\ next' = next /\ expanded' = expanded /\ files' = files /\ tree' = tree
        /\ sealed' = sealed /\ cancel' = cancel
    BY <1>6 DEF Copy
  <2>2. Done' = Done /\ Entry' = Entry
    BY <2>1 DEF Done, Entry
  <2>3. Made(Entry)' = Made(Entry)
    <3>1. Links' = Links
      BY <2>1 DEF Links
    <3> QED BY <2>1, <3>1, MadeSame
  <2>4. copied' \in Nat /\ written' \in Nat /\ copied' <= Entry.holds
    BY <1>1, <1>2, <1>3, <2>1
  <2>5. TypeOK'
    BY <2>1, <2>4 DEF IInv, TypeOK
  <2>6. DownloadInv'
    BY <1>1, <2>1 DEF IInv, DownloadInv, Fetching
  <2>7. EntryInv'
    BY <1>1, <2>1, <2>2, <2>3, <2>4 DEF IInv, EntryInv, IsZip
  <2>8. LimitsInv'
    <3>1. written + Entry.declared <= expanded + copied
      BY <1>1 DEF IInv, LimitsInv
    <3>2. written' + Entry.declared <= expanded + copied'
      BY <1>2, <1>3, <2>1, <3>1
    <3>3. copied' <= MaxExpanded - (expanded - Entry.declared)
      <4>1. MaxExpanded - (expanded - Entry.declared) \in Int
        BY <1>2, <1>3, <1>4
      <4> QED BY <1>3, <1>6, <2>1, <4>1 DEF CopyLimit
    <3>4. written' <= MaxExpanded
      BY <1>2, <1>3, <1>4, <2>4, <3>2, <3>3
    <3> QED BY <1>1, <2>1, <2>2, <3>2, <3>4 DEF IInv, LimitsInv
  <2>9. SumsInv'
    <3>1. Total(First(FileSizes(e), Done)) \in Nat
      BY <1>1, DeclaredSoFar DEF IInv
    <3>2. /\ expanded = Total(First(Sizes(e), next))
          /\ written = Total(First(FileSizes(e), Done)) + (IF Entry.kind = "file" THEN copied ELSE 0)
      BY <1>1 DEF IInv, SumsInv
    <3>3. written' = Total(First(FileSizes(e), Done))
                       + (IF Entry.kind = "file" THEN copied' ELSE 0)
      BY <1>3, <2>1, <3>1, <3>2
    <3> QED BY <1>1, <2>1, <2>2, <3>2, <3>3 DEF SumsInv, Extracted
  <2>10. GoodInv'
    BY <1>1, <2>1, <2>2 DEF IInv, GoodInv, Extracted
  <2> QED BY <2>5, <2>6, <2>7, <2>8, <2>9, <2>10 DEF IInv
<1> QED BY <1>5, <1>6

LEMMA EndEntryKeeps ==
  ASSUME IInv, EndEntry
  PROVE  IInv'
<1> DEFINE e == archive.entries
<1>1. /\ step = "copy" /\ next <= Len(e) /\ archive \in Archives /\ copied = Entry.holds
      /\ Entry.kind # "dir" /\ SafePath(Entry.path) /\ next <= MaxEntries
      /\ Entry.kind = "file" => Made(Entry) \in tree
  BY DEF EndEntry, IInv, TypeOK, EntryInv
<1>2. /\ next \in 1..Len(e) /\ Entry = e[next] /\ Done \in Nat /\ next = Done + 1
      /\ Entry.declared \in Nat /\ Entry.holds \in Nat /\ Entry.kind \in {"dir", "file", "link"}
  BY <1>1, EntryType DEF IInv
<1>3. CASE ~ (SizeIsRight(Entry, copied) /\ (Entry.kind = "link" => SafePath(Entry.to)))
  <2>1. Stop
    BY <1>3 DEF EndEntry
  <2>2. Good(archive)
          => Entry.holds = Entry.declared /\ (Entry.kind = "link" => SafePath(Entry.to))
    BY <1>1, <1>2, GoodPath
  <2>3. ~ Good(archive)
    BY <1>1, <1>3, <2>2 DEF SizeIsRight
  <2> QED BY <1>1, <2>1, <2>3, StopKeeps
<1>4. CASE SizeIsRight(Entry, copied) /\ (Entry.kind = "link" => SafePath(Entry.to))
  <2>1. /\ tree' = tree \cup {Made(Entry)} /\ next' = next + 1 /\ step' = "entry"
        /\ archive' = archive /\ downloaded' = downloaded /\ hasFile' = hasFile
        /\ expanded' = expanded /\ files' = files /\ copied' = copied /\ written' = written
        /\ sealed' = sealed /\ cancel' = cancel
    BY <1>4 DEF EndEntry
  <2>2. Done' = next
    BY <1>2, <2>1 DEF Done
  <2>3. Entry.declared = copied
    BY <1>4 DEF SizeIsRight
  <2>4. Made(Entry) \in Thing /\ Made(Entry).kind # "dir"
    <3>1. Made(Entry) \in Thing
      BY <1>1, <1>4, EntryMade DEF IInv
    <3> QED BY <1>1, <3>1 DEF Made
  <2>5. /\ tree \in SUBSET Thing /\ IsFiniteSet(tree) /\ expanded \in Nat /\ written \in Nat
        /\ files \in Nat /\ copied \in Nat
    BY DEF IInv, TypeOK
  <2>6. Entry.kind = "file" => tree' = tree
    BY <1>1, <2>1
  <2>7. TypeOK'
    <3>1. tree' \in SUBSET Thing /\ IsFiniteSet(tree')
      BY <2>1, <2>4, <2>5, OneMoreThing
    <3>2. next' \in Nat \ {0}
      BY <1>2, <2>1
    <3> QED BY <2>1, <3>1, <3>2 DEF IInv, TypeOK, Steps
  <2>8. DownloadInv'
    BY <1>1, <2>1 DEF IInv, DownloadInv, Fetching
  <2>9. EntryInv'
    BY <1>1, <2>1, <2>2 DEF IInv, EntryInv, IsZip
  <2>10. LimitsInv'
    <3> DEFINE made == IF Entry.kind = "file" THEN 0 ELSE 1
    <3>1. /\ written <= MaxExpanded /\ expanded <= MaxExpanded /\ files <= MaxFiles
          /\ written + Entry.declared <= expanded + copied
          /\ Cardinality(NonDirs(tree)) + made <= files /\ Cardinality(tree) + made <= next
      BY <1>1 DEF IInv, LimitsInv
    <3>2. /\ Cardinality(tree') \in Nat /\ Cardinality(NonDirs(tree')) \in Nat
          /\ Cardinality(tree') <= next /\ Cardinality(NonDirs(tree')) <= files
      <4>1. /\ Cardinality(tree) \in Nat /\ Cardinality(NonDirs(tree)) \in Nat
            /\ Cardinality(tree') \in Nat /\ Cardinality(NonDirs(tree')) \in Nat
            /\ Cardinality(tree') <= Cardinality(tree) + 1
            /\ Cardinality(NonDirs(tree')) <= Cardinality(NonDirs(tree)) + 1
        BY <2>1, <2>4, <2>5, OneMoreThing
      <4>2. CASE Entry.kind = "file"
        BY <1>2, <2>5, <2>6, <3>1, <4>1, <4>2
      <4>3. CASE Entry.kind # "file"
        <5>1. Cardinality(NonDirs(tree)) + 1 <= files /\ Cardinality(tree) + 1 <= next
          BY <3>1, <4>3
        <5>2. next \in Nat
          BY <1>2
        <5> QED BY <2>5, <4>1, <5>1, <5>2
      <4> QED BY <4>2, <4>3
    <3>3. MaxFiles \in Nat /\ MaxEntries \in Nat /\ next \in Nat
      BY <1>2, ArchiveAssumption
    <3>4. Cardinality(tree') <= MaxEntries /\ Cardinality(NonDirs(tree')) <= MaxFiles
      BY <1>1, <2>5, <3>1, <3>2, <3>3
    <3>5. written <= expanded
      BY <2>3, <2>5, <3>1
    <3> QED BY <2>1, <2>2, <3>1, <3>2, <3>4, <3>5 DEF LimitsInv
  <2>11. SumsInv'
    <3>1. /\ expanded = Total(First(Sizes(e), next))
          /\ written = Total(First(FileSizes(e), Done)) + (IF Entry.kind = "file" THEN copied ELSE 0)
      BY <1>1 DEF IInv, SumsInv
    <3>2. written = Total(First(FileSizes(e), next))
      BY <1>1, <3>1, DeclaredSoFar DEF IInv
    <3> QED BY <2>1, <2>2, <3>1, <3>2 DEF SumsInv, Extracted
  <2>12. GoodInv'
    <3> SUFFICES ASSUME Good(archive)
                 PROVE  /\ sealed' = {} /\ tree' = Owned(e, next)
                        /\ files = Cardinality(NonDirectoriesTo(e, next))
      BY <2>1, <2>2 DEF GoodInv, Extracted
    <3>1. /\ sealed = {} /\ files = Cardinality(NonDirectoriesTo(e, next))
          /\ tree = Owned(e, Done) \cup (IF Entry.kind = "file" THEN {Own(Entry)} ELSE {})
      BY <1>1 DEF IInv, GoodInv
    <3>2. Made(Entry) = Own(Entry)
      BY <1>1, GoodEntry DEF IInv
    <3>3. Owned(e, next) = Owned(e, Done) \cup {Own(Entry)}
      <4>1. 1..next = 1..Done \cup {next}
        BY <1>2
      <4> QED BY <1>2, <4>1 DEF Owned
    <3> QED BY <2>1, <3>1, <3>2, <3>3
  <2> QED BY <2>7, <2>8, <2>9, <2>10, <2>11, <2>12 DEF IInv
<1> QED BY <1>3, <1>4

LEMMA EndEntriesKeeps ==
  ASSUME IInv, EndEntries
  PROVE  IInv'
<1> DEFINE e == archive.entries
<1>1. /\ step = "entry" /\ next > Len(e) /\ step' = "copied" /\ archive \in Archives
      /\ archive' = archive /\ downloaded' = downloaded /\ hasFile' = hasFile /\ next' = next
      /\ expanded' = expanded /\ files' = files /\ copied' = copied /\ tree' = tree
      /\ written' = written /\ cancel' = cancel
  BY DEF EndEntries, IInv, TypeOK
<1>2. e \in Seq(AnyEntry) /\ Len(e) \in Nat
  BY <1>1, ArchiveType
<1>3. Done = Len(e)
  <2>1. next \in Nat \ {0} /\ Done <= Len(e)
    BY <1>1 DEF IInv, TypeOK, EntryInv
  <2> HIDE DEF e
  <2> QED BY <1>1, <1>2, <2>1 DEF Done
<1>4. TypeOK'
  BY <1>1 DEF IInv, TypeOK, Steps, Extracted
<1>5. DownloadInv'
  BY <1>1 DEF IInv, DownloadInv, Fetching
<1>6. EntryInv'
  BY <1>1 DEF EntryInv
<1>7. LimitsInv'
  BY <1>1 DEF IInv, LimitsInv
<1>8. SumsInv'
  <2>1. /\ expanded = Total(First(Sizes(e), Len(e))) /\ expanded <= MaxExpanded
        /\ written = Total(First(FileSizes(e), Len(e)))
    BY <1>1, <1>3 DEF IInv, SumsInv, LimitsInv
  <2>2. /\ Sizes(e) \in [1..Len(e) -> Nat] /\ FileSizes(e) \in [1..Len(e) -> Nat]
    BY <1>2, SizesType
  <2>3. First(Sizes(e), Len(e)) = Sizes(e) /\ First(FileSizes(e), Len(e)) = FileSizes(e)
    BY <1>2, <2>2, TotalOfFirst
  <2>4. written = FileUnits(e) /\ Declared(e) <= MaxExpanded
    BY <2>1, <2>3 DEF FileUnits, Declared
  <2> QED BY <1>1, <2>4 DEF SumsInv
<1>9. GoodInv'
  <2>1. Good(archive) => tree = Owned(e, Len(e))
    BY <1>1, <1>3 DEF IInv, GoodInv
  <2> QED BY <1>1, <2>1 DEF GoodInv
<1> QED BY <1>4, <1>5, <1>6, <1>7, <1>8, <1>9 DEF IInv

LEMMA ValidateKeeps ==
  ASSUME IInv, Validate
  PROVE  IInv'
<1>1. CASE SafePath(archive.cmd) /\ Found(archive.cmd) /\ KindAt(PlaceOf(archive.cmd)) = {"file"}
  <2>1. /\ step = "copied" /\ step' = "staged"
        /\ archive' = archive /\ downloaded' = downloaded /\ hasFile' = hasFile /\ next' = next
        /\ expanded' = expanded /\ files' = files /\ copied' = copied /\ tree' = tree
        /\ written' = written /\ sealed' = sealed /\ cancel' = cancel
    BY <1>1 DEF Validate, progress
  <2>2. TypeOK'
    BY <2>1 DEF IInv, TypeOK, Steps, Extracted
  <2>3. DownloadInv'
    BY <2>1 DEF IInv, DownloadInv, Fetching
  <2>4. EntryInv' /\ LimitsInv'
    BY <2>1 DEF IInv, EntryInv, LimitsInv
  <2>5. SumsInv'
    BY <2>1 DEF IInv, SumsInv, Extracted
  <2>6. GoodInv'
    BY <2>1 DEF IInv, GoodInv, Extracted
  <2> QED BY <2>2, <2>3, <2>4, <2>5, <2>6 DEF IInv
<1>2. CASE ~ (SafePath(archive.cmd) /\ Found(archive.cmd) /\ KindAt(PlaceOf(archive.cmd)) = {"file"})
  <2>1. Stop /\ step = "copied"
    BY <1>2 DEF Validate, Stop
  <2>2. ~ Good(archive)
    BY <1>2, <2>1, GoodCommand DEF IInv
  <2> QED BY <2>1, <2>2, StopKeeps
<1> QED BY <1>1, <1>2

LEMMA StepKeeps ==
  ASSUME IInv, [ArchiveNext]_archiveVars
  PROVE  IInv'
<1>1. CASE UNCHANGED archiveVars
  <2>1. UNCHANGED <<archive, step, downloaded, hasFile>> /\ UNCHANGED progress /\ cancel' = cancel
    BY <1>1 DEF archiveVars, progress
  <2>2. cancel \in BOOLEAN
    BY DEF IInv, TypeOK
  <2> QED BY <2>1, <2>2, SameKeeps
<1>2. CASE Request
  BY <1>2, RequestKeeps
<1>3. CASE Receive
  BY <1>3, ReceiveKeeps
<1>4. CASE Broken
  BY <1>4, BrokenKeeps
<1>5. CASE BodyEnds
  BY <1>5, BodyEndsKeeps
<1>6. CASE Open
  BY <1>6, OpenKeeps
<1>7. CASE BeginEntry
  BY <1>7, BeginEntryKeeps
<1>8. CASE Copy
  BY <1>8, CopyKeeps
<1>9. CASE EndEntry
  BY <1>9, EndEntryKeeps
<1>10. CASE EndEntries
  BY <1>10, EndEntriesKeeps
<1>11. CASE Validate
  BY <1>11, ValidateKeeps
<1>12. CASE Cancel
  BY <1>12, CancelKeeps
<1>13. CASE Cancelled
  BY <1>13, CancelledKeeps
<1> QED
  BY <1>1, <1>2, <1>3, <1>4, <1>5, <1>6, <1>7, <1>8, <1>9, <1>10, <1>11, <1>12, <1>13
  DEF ArchiveNext

-----------------------------------------------------------------------------
(***************************************************************************)
(* The theorems.                                                           *)
(***************************************************************************)

\* The invariant holds what the run checks.  That no link leads out of the
\* destination follows from what was looked at: the components of a target.
LEMMA Bounded ==
  ASSUME IInv
  PROVE  ExtractionIsBounded
<1>1. /\ downloaded <= MaxDownload /\ written <= MaxExpanded
      /\ Cardinality({f \in tree : f.kind # "dir"}) <= MaxFiles
      /\ Cardinality(tree) <= MaxEntries
  BY DEF IInv, DownloadInv, LimitsInv, NonDirs
<1>2. ASSUME NEW f \in tree
      PROVE  f.at # Outside /\ Lookup(Links, ParentOf(f.at), f.to).at # Outside
  <2>1. Links \in SUBSET Thing /\ f \in Thing
    BY DEF IInv, TypeOK, Links
  <2>2. f.at \in Seq(Name) /\ f.to \in Seq(Safe)
    BY <2>1 DEF Thing
  <2>3. \A p \in Seq(Name) : p # Outside
    <3>1. SUFFICES ASSUME Outside \in Seq(Name) PROVE FALSE
      OBVIOUS
    <3>2. Outside[1] \in Name
      BY <3>1, ElementOfSeq DEF Outside
    <3> QED BY <3>2 DEF Outside, Name, Safe, Unsafe
  <2>4. ParentOf(f.at) \in Seq(Name)
    <3>1. CASE f.at = <<>>
      BY <3>1, EmptySeq DEF ParentOf
    <3>2. CASE f.at # <<>>
      <4>1. 1 \in 1..Len(f.at)
        BY <2>2, <3>2, EmptySeq, LenProperties
      <4>2. Front(f.at) \in Seq(Name)
        BY <2>2, <4>1, Beginnings
      <4> QED BY <3>2, <4>2 DEF ParentOf
    <3> QED BY <3>1, <3>2
  <2>5. Lookup(Links, ParentOf(f.at), f.to).at \in Seq(Name)
    BY <2>1, <2>2, <2>4, SafeLookup
  <2> QED BY <2>2, <2>3, <2>5
<1>3. step \in {"copied", "staged"} /\ archive.format # "none"
        => /\ archive.digest = "right"
           /\ written = FileUnits(archive.entries)
           /\ Declared(archive.entries) <= MaxExpanded
  BY DEF IInv, DownloadInv, SumsInv, Extracted
<1>4. /\ step = "failed" => cancel \/ downloaded < archive.body \/ ~Good(archive)
      /\ step = "failed" /\ archive.digest # "right" => ~hasFile
  BY DEF IInv, DownloadInv, GoodInv
<1> QED BY <1>1, <1>2, <1>3, <1>4 DEF ExtractionIsBounded

\* Whatever archives there are and whatever they say of themselves, every step
\* of a download and of an extraction keeps the invariant: the counters are
\* the sums over the entries so far, and everything that was made lies in the
\* destination (download.rs, archive.rs).
THEOREM ExtractionInvariance == ArchiveSpec => []IInv
<1>1. ArchiveInit => IInv
  BY InitHolds
<1>2. IInv /\ [ArchiveNext]_archiveVars => IInv'
  BY StepKeeps
<1> QED BY <1>1, <1>2, PTL DEF ArchiveSpec

\* The variables have their types: what lies in the destination lies under it,
\* and the target of a link holds neither ".." nor a root.
THEOREM ArchiveTyping == ArchiveSpec => []TypeOK
<1>1. IInv => TypeOK
  BY DEF IInv
<1> QED BY <1>1, ExtractionInvariance, PTL

\* For all archives and limits, an extraction stays within the limits and the
\* destination, what reaches the validation is whole and has the registry's
\* digest, and an archive that keeps the rules fails only when its connection
\* breaks or its installation is dropped (download_archive_with_limits,
\* extract_tar, extract_zip_with_limits).
THEOREM ExtractionStaysBounded == ArchiveSpec => []ExtractionIsBounded
<1>1. IInv => ExtractionIsBounded
  BY Bounded
<1> QED BY <1>1, ExtractionInvariance, PTL

=============================================================================
