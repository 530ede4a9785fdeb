-------------------------- MODULE PublicRoutesProofs --------------------------
(***************************************************************************)
(* Theorems about PublicRoutes, for any routes and paths.                  *)
(***************************************************************************)
EXTENDS PublicRoutes, SequenceTheorems, FiniteSetTheorems, TLAPS

-----------------------------------------------------------------------------
(***************************************************************************)
(* Slashes and their ranks.                                                *)
(***************************************************************************)

\* A string is a sequence of characters, "/" among them (no prover knows that
\* "/" \in STRING).
Chars == STRING \cup {"/"}
Text  == Seq(Chars)

\* The slashes up to a position.
UpTo(s, i) == {j \in Slashes(s) : j <= i}

\* The slashes are finitely many, and so are those up to a position.
LEMMA SlashesType ==
  ASSUME NEW s \in Text
  PROVE  /\ Len(s) \in Nat /\ DOMAIN s = 1..Len(s) /\ \A i \in 1..Len(s) : s[i] \in Chars
         /\ IsFiniteSet(Slashes(s)) /\ Slashes(s) \subseteq 1..Len(s) /\ Depth(s) \in Nat
         /\ \A i : IsFiniteSet(UpTo(s, i)) /\ UpTo(s, i) \subseteq Slashes(s)
                   /\ Rank(s, i) = Cardinality(UpTo(s, i)) /\ Rank(s, i) \in 0..Depth(s)
<1>1. Len(s) \in Nat /\ DOMAIN s = 1..Len(s) /\ \A i \in 1..Len(s) : s[i] \in Chars
  BY LenProperties, ElementOfSeq DEF Text
<1>2. Slashes(s) \in SUBSET (1..Len(s)) /\ IsFiniteSet(1..Len(s))
  BY <1>1, FS_Interval DEF Slashes
<1>3. IsFiniteSet(Slashes(s)) /\ Depth(s) \in Nat
  BY <1>2, FS_Subset, FS_CardinalityType DEF Depth
<1>4. ASSUME NEW i
      PROVE  IsFiniteSet(UpTo(s, i)) /\ UpTo(s, i) \subseteq Slashes(s)
             /\ Rank(s, i) = Cardinality(UpTo(s, i)) /\ Rank(s, i) \in 0..Depth(s)
  <2>1. UpTo(s, i) \in SUBSET Slashes(s)
    BY DEF UpTo
  <2>2. IsFiniteSet(UpTo(s, i)) /\ Cardinality(UpTo(s, i)) <= Depth(s)
    BY <1>3, <2>1, FS_Subset DEF Depth
  <2>3. Cardinality(UpTo(s, i)) \in Nat
    BY <2>2, FS_CardinalityType
  <2>4. Rank(s, i) = Cardinality(UpTo(s, i))
    BY DEF Rank, UpTo
  <2> QED BY <1>3, <2>1, <2>2, <2>3, <2>4
<1> QED BY <1>1, <1>2, <1>3, <1>4

\* Ranks grow at slashes and only there.
LEMMA RankStep ==
  ASSUME NEW s \in Text, NEW i \in 1..Len(s)
  PROVE  Rank(s, i) = IF s[i] = "/" THEN Rank(s, i - 1) + 1 ELSE Rank(s, i - 1)
<1>1. /\ DOMAIN s = 1..Len(s) /\ Len(s) \in Nat /\ Slashes(s) \subseteq 1..Len(s)
      /\ IsFiniteSet(UpTo(s, i - 1))
      /\ Rank(s, i) = Cardinality(UpTo(s, i)) /\ Rank(s, i - 1) = Cardinality(UpTo(s, i - 1))
  BY SlashesType
<1>2. CASE s[i] = "/"
  <2>1. UpTo(s, i) = UpTo(s, i - 1) \cup {i} /\ i \notin UpTo(s, i - 1)
    <3>1. i \in Slashes(s)
      BY <1>1, <1>2 DEF Slashes
    <3>2. \A j \in 1..Len(s) : j <= i <=> (j <= i - 1 \/ j = i)
      BY <1>1
    <3> QED BY <1>1, <3>1, <3>2 DEF UpTo
  <2> QED BY <1>1, <1>2, <2>1, FS_AddElement
<1>3. CASE s[i] # "/"
  <2>1. UpTo(s, i) = UpTo(s, i - 1)
    <3>1. i \notin Slashes(s)
      BY <1>3 DEF Slashes
    <3>2. \A j \in 1..Len(s) : j <= i <=> (j <= i - 1 \/ j = i)
      BY <1>1
    <3> QED BY <1>1, <3>1, <3>2 DEF UpTo
  <2> QED BY <1>1, <1>3, <2>1
<1> QED BY <1>2, <1>3

\* Up to a later position there are no fewer slashes, and more where one lies
\* between.
LEMMA RankGrows ==
  ASSUME NEW s \in Text, NEW i \in Nat, NEW j \in Nat, i <= j
  PROVE  /\ Rank(s, i) <= Rank(s, j)
         /\ (\E k \in Slashes(s) : i < k /\ k <= j) => Rank(s, i) < Rank(s, j)
<1>1. /\ Slashes(s) \subseteq 1..Len(s) /\ Len(s) \in Nat
      /\ IsFiniteSet(UpTo(s, i)) /\ IsFiniteSet(UpTo(s, j))
      /\ Rank(s, i) = Cardinality(UpTo(s, i)) /\ Rank(s, j) = Cardinality(UpTo(s, j))
      /\ Rank(s, i) \in Nat /\ Rank(s, j) \in Nat
  BY SlashesType
<1>2. UpTo(s, i) \in SUBSET UpTo(s, j)
  BY <1>1 DEF UpTo
<1>3. /\ Cardinality(UpTo(s, i)) <= Cardinality(UpTo(s, j))
      /\ Cardinality(UpTo(s, i)) = Cardinality(UpTo(s, j)) => UpTo(s, i) = UpTo(s, j)
  BY <1>1, <1>2, FS_Subset
<1>4. ASSUME NEW k \in Slashes(s), i < k, k <= j
      PROVE  UpTo(s, i) # UpTo(s, j)
  <2>1. k \in UpTo(s, j)
    BY <1>4 DEF UpTo
  <2>2. k \notin UpTo(s, i)
    BY <1>1, <1>4 DEF UpTo
  <2> QED BY <2>1, <2>2
<1> QED BY <1>1, <1>3, <1>4

\* Every rank up to the number of slashes is that of one slash.
LEMMA SlashProperties ==
  ASSUME NEW s \in Text, NEW k \in 1..Depth(s)
  PROVE  /\ Slash(s, k) \in Slashes(s) /\ Rank(s, Slash(s, k)) = k
         /\ \A i \in Slashes(s) : Rank(s, i) = k => i = Slash(s, k)
<1> DEFINE n == Depth(s)
           R == [i \in Slashes(s) |-> Rank(s, i)]
<1>1. /\ n \in Nat /\ n = Cardinality(Slashes(s)) /\ IsFiniteSet(Slashes(s))
      /\ Slashes(s) \subseteq 1..Len(s) /\ Len(s) \in Nat
  BY SlashesType DEF Depth
<1>2. \A i, j \in Slashes(s) : Rank(s, i) = Rank(s, j) => i = j
  <2>1. ASSUME NEW i \in Slashes(s), NEW j \in Slashes(s), i < j
        PROVE  Rank(s, i) < Rank(s, j)
    <3>1. i \in Nat /\ j \in Nat /\ i <= j /\ j <= j
      BY <1>1, <2>1
    <3> QED BY <2>1, <3>1, RankGrows
  <2>2. \A i, j \in Slashes(s) : i = j \/ i < j \/ j < i
    BY <1>1
  <2>3. \A i \in Slashes(s) : Rank(s, i) \in Nat
    BY SlashesType
  <2>4. \A a, b \in Nat : a < b => a # b
    OBVIOUS
  <2> QED BY <2>1, <2>2, <2>3, <2>4
<1>3. \A i \in Slashes(s) : Rank(s, i) \in 1..n
  <2> TAKE i \in Slashes(s)
  <2>1. i \in UpTo(s, i)
    BY <1>1 DEF UpTo
  <2>2. Rank(s, i) = Cardinality(UpTo(s, i)) /\ IsFiniteSet(UpTo(s, i)) /\ Rank(s, i) \in 0..n
    BY SlashesType
  <2>3. Rank(s, i) # 0
    BY <2>1, <2>2, FS_EmptySet
  <2> QED BY <1>1, <2>2, <2>3
<1> HIDE DEF n
<1>4. R \in Injection(Slashes(s), 1..n)
  BY <1>2, <1>3 DEF Injection, IsInjective
<1>5. IsFiniteSet(1..n) /\ Cardinality(1..n) = n
  BY <1>1, FS_Interval
<1>6. R \in Surjection(Slashes(s), 1..n)
  <2> HIDE DEF R
  <2> QED BY <1>1, <1>4, <1>5, FS_Injection
<1>7. \E i \in Slashes(s) : Rank(s, i) = k
  BY <1>6 DEF Surjection, n
<1>8. Slash(s, k) \in Slashes(s) /\ Rank(s, Slash(s, k)) = k
  BY <1>7 DEF Slash
<1> QED BY <1>2, <1>8

\* Where a segment begins and ends, and what it holds.
LEMMA SegmentProperties ==
  ASSUME NEW s \in Text, NEW k \in 1..Depth(s)
  PROVE  LET a == Slash(s, k)
             e == End(s, k)
         IN  /\ a \in Nat /\ e \in Nat /\ 1 <= a /\ a < e /\ e <= Len(s) + 1 /\ s[a] = "/"
             /\ \A i \in Nat : a <= i /\ i < e => Rank(s, i) = k
             /\ \A i \in Nat : a < i /\ i < e => s[i] # "/"
             /\ e <= Len(s) => s[e] = "/" /\ k < Depth(s) /\ e = Slash(s, k + 1)
             /\ e = Len(s) + 1 => k = Depth(s)
             /\ Segments(s)[k] \in Text /\ Len(Segments(s)[k]) = e - a - 1
             /\ \A i \in 1..(e - a - 1) : Segments(s)[k][i] = s[a + i]
<1> DEFINE a == Slash(s, k)
           e == End(s, k)
           n == Len(s)
<1>1. /\ n \in Nat /\ DOMAIN s = 1..n /\ \A i \in 1..n : s[i] \in Chars
      /\ Slashes(s) \subseteq 1..n /\ Depth(s) \in Nat /\ Depth(s) = Cardinality(Slashes(s))
      /\ IsFiniteSet(Slashes(s))
  BY SlashesType DEF Depth
<1>2. a \in 1..n /\ s[a] = "/" /\ Rank(s, a) = k
  <2>1. a \in Slashes(s) /\ Rank(s, a) = k
    BY SlashProperties
  <2> QED BY <1>1, <2>1 DEF Slashes
<1>3. /\ e \in 1..n + 1 /\ a < e
      /\ e <= n => s[e] = "/" /\ k < Depth(s) /\ e = Slash(s, k + 1) /\ Rank(s, e) = k + 1
      /\ e = n + 1 => k = Depth(s)
  <2>1. CASE k = Depth(s)
    <3>1. e = n + 1
      BY <2>1 DEF End
    <3> HIDE DEF a, e, n
    <3> QED BY <1>1, <1>2, <2>1, <3>1
  <2>2. CASE k # Depth(s)
    <3>1. e = Slash(s, k + 1)
      BY <2>2 DEF End
    <3>2. k + 1 \in 1..Depth(s) /\ k < Depth(s) /\ k < k + 1
      BY <1>1, <2>2
    <3>3. e \in Slashes(s) /\ Rank(s, e) = k + 1
      BY <3>1, <3>2, SlashProperties
    <3>4. e \in 1..n /\ s[e] = "/"
      BY <1>1, <3>3 DEF Slashes
    <3>5. a < e
      <4>1. CASE e <= a
        <5>1. Rank(s, e) <= Rank(s, a)
          BY <1>1, <1>2, <3>4, <4>1, RankGrows
        <5> QED BY <1>2, <3>2, <3>3, <5>1
      <4> QED BY <1>1, <1>2, <3>4, <4>1
    <3> HIDE DEF a, e, n
    <3> QED BY <1>1, <3>1, <3>2, <3>3, <3>4, <3>5
  <2> QED BY <2>1, <2>2
<1> HIDE DEF a, e, n
<1>4. ASSUME NEW i \in Nat, a <= i, i < e
      PROVE  Rank(s, i) = k
  <2>1. Rank(s, a) <= Rank(s, i)
    BY <1>1, <1>2, <1>4, RankGrows
  <2>2. Rank(s, i) \in 0..Depth(s)
    BY SlashesType
  <2>3. CASE e = n + 1
    BY <1>1, <1>2, <1>3, <2>1, <2>2, <2>3
  <2>4. CASE e <= n
    <3>1. e \in Slashes(s) /\ e <= e /\ e \in Nat /\ i <= e
      BY <1>1, <1>3, <1>4, <2>4 DEF Slashes
    <3>2. Rank(s, i) < Rank(s, e)
      BY <1>4, <3>1, RankGrows
    <3> QED BY <1>2, <1>3, <2>1, <2>2, <2>4, <3>2
  <2> QED BY <1>1, <1>3, <2>3, <2>4
<1>5. ASSUME NEW i \in Nat, a < i, i < e
      PROVE  s[i] # "/"
  <2>1. i \in 1..n /\ i - 1 \in Nat /\ a <= i - 1 /\ i - 1 < e /\ a <= i
    BY <1>1, <1>2, <1>3, <1>5
  <2>2. Rank(s, i) = k /\ Rank(s, i - 1) = k
    BY <1>4, <1>5, <2>1
  <2>3. k # k + 1
    BY <1>1
  <2> QED BY <2>1, <2>2, <2>3, RankStep DEF n
<1>6. /\ Segments(s)[k] \in Text /\ Len(Segments(s)[k]) = e - a - 1
      /\ \A i \in 1..(e - a - 1) : Segments(s)[k][i] = s[a + i]
  <2>1. Segments(s)[k] = SubSeq(s, a + 1, e - 1)
    BY DEF Segments, a, e
  <2>2. a + 1 \in Int /\ e - 1 \in Int
    BY <1>2, <1>3
  <2>3. \A i \in (a + 1)..(e - 1) : s[i] \in Chars
    BY <1>1, <1>2, <1>3
  <2>4. /\ SubSeq(s, a + 1, e - 1) \in Text
        /\ Len(SubSeq(s, a + 1, e - 1))
             = IF a + 1 <= e - 1 THEN (e - 1) - (a + 1) + 1 ELSE 0
        /\ \A i \in 1..((e - 1) - (a + 1) + 1) : SubSeq(s, a + 1, e - 1)[i] = s[(a + 1) + i - 1]
    BY <2>2, <2>3, SubSeqProperties DEF Text
  <2>5. /\ (e - 1) - (a + 1) + 1 = e - a - 1
        /\ (IF a + 1 <= e - 1 THEN (e - 1) - (a + 1) + 1 ELSE 0) = e - a - 1
        /\ \A i \in 1..(e - a - 1) : (a + 1) + i - 1 = a + i
    BY <1>2, <1>3
  <2> QED BY <2>1, <2>4, <2>5
<1>7. a \in Nat /\ e \in Nat /\ 1 <= a
  BY <1>1, <1>2, <1>3
<1> QED BY <1>2, <1>3, <1>4, <1>5, <1>6, <1>7 DEF a, e, n

\* The segments of a string are a sequence of strings.
LEMMA SegmentsType ==
  ASSUME NEW s \in Text
  PROVE  /\ Segments(s) \in Seq(Text) /\ Len(Segments(s)) = Depth(s) /\ Depth(s) \in Nat
         /\ DOMAIN Segments(s) = 1..Depth(s)
<1>1. Depth(s) \in Nat
  BY SlashesType
<1>2. \A k \in 1..Depth(s) : Segments(s)[k] \in Text
  BY SegmentProperties
<1>3. DOMAIN Segments(s) = 1..Depth(s)
  BY DEF Segments
<1>4. Segments(s) = [k \in 1..Depth(s) |-> Segments(s)[k]]
  BY DEF Segments
<1>5. Segments(s) \in [1..Depth(s) -> Text]
  BY <1>2, <1>4
<1>6. Segments(s) \in Seq(Text)
  BY <1>1, <1>5
<1> QED BY <1>1, <1>3, <1>6, LenProperties

-----------------------------------------------------------------------------
(***************************************************************************)
(* Strings with a common beginning.                                        *)
(***************************************************************************)

\* The characters of r are the first of p.
Begins(r, p) == Len(r) <= Len(p) /\ \A i \in 1..Len(r) : r[i] = p[i]

\* IsPrefix, character by character.
LEMMA BeginsIsPrefix ==
  ASSUME NEW S, NEW r \in Seq(S), NEW p \in Seq(S)
  PROVE  IsPrefix(r, p) <=> Begins(r, p)
<1> DEFINE n == Len(r)
           m == Len(p)
<1>1. n \in Nat /\ m \in Nat /\ DOMAIN r = 1..n /\ DOMAIN p = 1..m
  BY LenProperties
<1>2. \A i \in 1..n : r[i] \in S
  BY ElementOfSeq
<1>3. \A i \in 1..m : p[i] \in S
  BY ElementOfSeq
<1> HIDE DEF n, m
<1>4. CASE n <= m
  <2>1. 1 \in Int /\ n \in Int /\ \A i \in 1..n : r[i] \in S /\ p[i] \in S
    BY <1>1, <1>2, <1>3, <1>4
  <2>2. n - 1 + 1 = n /\ (IF 1 <= n THEN n - 1 + 1 ELSE 0) = n /\ \A i \in 1..n : 1 + i - 1 = i
    BY <1>1
  <2>3. /\ SubSeq(r, 1, n) \in Seq(S) /\ Len(SubSeq(r, 1, n)) = n
        /\ \A i \in 1..n : SubSeq(r, 1, n)[i] = r[i]
    <3>1. /\ SubSeq(r, 1, n) \in Seq(S)
          /\ Len(SubSeq(r, 1, n)) = IF 1 <= n THEN n - 1 + 1 ELSE 0
          /\ \A i \in 1..n - 1 + 1 : SubSeq(r, 1, n)[i] = r[1 + i - 1]
      BY <2>1, SubSeqProperties
    <3> QED BY <2>2, <3>1
  <2>4. /\ SubSeq(p, 1, n) \in Seq(S) /\ Len(SubSeq(p, 1, n)) = n
        /\ \A i \in 1..n : SubSeq(p, 1, n)[i] = p[i]
    <3>1. /\ SubSeq(p, 1, n) \in Seq(S)
          /\ Len(SubSeq(p, 1, n)) = IF 1 <= n THEN n - 1 + 1 ELSE 0
          /\ \A i \in 1..n - 1 + 1 : SubSeq(p, 1, n)[i] = p[1 + i - 1]
      BY <2>1, SubSeqProperties
    <3> QED BY <2>2, <3>1
  <2>5. ASSUME \A i \in 1..n : r[i] = p[i]
        PROVE  SubSeq(r, 1, n) = SubSeq(p, 1, n)
    <3>1. \A i \in 1..Len(SubSeq(r, 1, n)) : SubSeq(r, 1, n)[i] = SubSeq(p, 1, n)[i]
      BY <2>3, <2>4, <2>5
    <3> QED BY <2>3, <2>4, <3>1, SeqEqual
  <2>6. ASSUME SubSeq(r, 1, n) = SubSeq(p, 1, n), NEW i \in 1..n
        PROVE  r[i] = p[i]
    BY <2>3, <2>4, <2>6
  <2> QED BY <1>4, <2>5, <2>6 DEF IsPrefix, Begins, n, m
<1>5. CASE ~(n <= m)
  BY <1>5 DEF IsPrefix, Begins, n, m
<1> QED BY <1>4, <1>5

\* Strings that agree up to a position have the same slashes up to it.
LEMMA RankCopy ==
  ASSUME NEW r \in Text, NEW p \in Text, NEW n \in Nat, n <= Len(r), n <= Len(p),
         \A i \in 1..n : r[i] = p[i]
  PROVE  /\ \A i \in 0..n : Rank(r, i) = Rank(p, i)
         /\ \A k \in 1..Depth(r) :
              Slash(r, k) <= n => k \in 1..Depth(p) /\ Slash(p, k) = Slash(r, k)
<1>1. /\ Len(r) \in Nat /\ DOMAIN r = 1..Len(r) /\ Slashes(r) \subseteq 1..Len(r)
      /\ Depth(r) \in Nat
      /\ Len(p) \in Nat /\ DOMAIN p = 1..Len(p) /\ Slashes(p) \subseteq 1..Len(p)
      /\ Depth(p) \in Nat
      /\ \A i : Rank(p, i) \in 0..Depth(p)
  BY SlashesType
<1>2. \A i \in 1..n : i \in Slashes(r) <=> i \in Slashes(p)
  BY <1>1 DEF Slashes
<1>3. ASSUME NEW i \in 0..n
      PROVE  Rank(r, i) = Rank(p, i)
  <2>1. UpTo(r, i) = UpTo(p, i)
    <3>1. \A j \in 1..Len(r) : j <= i => j \in 1..n
      BY <1>1
    <3>2. \A j \in 1..Len(p) : j <= i => j \in 1..n
      BY <1>1
    <3> QED BY <1>1, <1>2, <3>1, <3>2 DEF UpTo
  <2>2. Rank(r, i) = Cardinality(UpTo(r, i)) /\ Rank(p, i) = Cardinality(UpTo(p, i))
    BY SlashesType
  <2> QED BY <2>1, <2>2
<1>4. ASSUME NEW k \in 1..Depth(r), Slash(r, k) <= n
      PROVE  k \in 1..Depth(p) /\ Slash(p, k) = Slash(r, k)
  <2>1. Slash(r, k) \in Slashes(r) /\ Rank(r, Slash(r, k)) = k
    BY SlashProperties
  <2>2. Slash(r, k) \in 1..n
    BY <1>1, <1>4, <2>1
  <2>3. Slash(r, k) \in Slashes(p) /\ Rank(p, Slash(r, k)) = k
    BY <1>2, <1>3, <2>1, <2>2
  <2>4. k \in 1..Depth(p)
    BY <1>1, <2>3
  <2> QED BY <2>3, <2>4, SlashProperties
<1> QED BY <1>3, <1>4

\* A route that matches a path by its text does so by its segments.
LEMMA TextThenSegments ==
  ASSUME NEW r \in Text, NEW p \in Text, Begins(r, p), p # r => p[Len(r) + 1] = "/",
         p # r => Len(r) < Len(p)
  PROVE  /\ Depth(r) <= Depth(p) /\ Depth(r) = Rank(p, Len(r))
         /\ \A k \in 1..Depth(r) : Segments(r)[k] = Segments(p)[k]
<1> DEFINE n == Len(r)
           d == Depth(r)
<1>1. /\ n \in Nat /\ DOMAIN r = 1..n /\ Slashes(r) \subseteq 1..n /\ d \in Nat
      /\ Len(p) \in Nat /\ DOMAIN p = 1..Len(p) /\ Slashes(p) \subseteq 1..Len(p)
      /\ Depth(p) \in Nat
      /\ \A i : Rank(p, i) \in 0..Depth(p)
  BY SlashesType
<1>2. n <= n /\ n <= Len(p) /\ \A i \in 1..n : r[i] = p[i]
  BY <1>1 DEF Begins
<1>3. Rank(r, n) = d
  <2>1. UpTo(r, n) = Slashes(r)
    BY <1>1 DEF UpTo
  <2> QED BY <2>1, SlashesType DEF Depth
<1>4. Rank(p, n) = d
  <2>1. n \in 0..n
    BY <1>1
  <2> HIDE DEF n, d
  <2>2. Rank(r, n) = Rank(p, n)
    BY <1>1, <1>2, <2>1, RankCopy DEF n
  <2> QED BY <1>3, <2>2
<1>5. d <= Depth(p)
  BY <1>1, <1>4
<1>6. \A k \in 1..d : k \in 1..Depth(p) /\ Slash(r, k) \in 1..n /\ Slash(p, k) = Slash(r, k)
  <2> TAKE k \in 1..d
  <2>1. Slash(r, k) \in 1..n
    BY <1>1, SlashProperties
  <2>2. Slash(r, k) <= n
    BY <1>1, <2>1
  <2> HIDE DEF n
  <2>3. k \in 1..Depth(p) /\ Slash(p, k) = Slash(r, k)
    BY <1>1, <1>2, <2>2, RankCopy DEF n
  <2> QED BY <2>1, <2>3
<1>7. ASSUME p # r
      PROVE  d + 1 \in 1..Depth(p) /\ Slash(p, d + 1) = n + 1
  <2>1. n + 1 \in 1..Len(p) /\ p[n + 1] = "/"
    BY <1>1, <1>7
  <2>2. Rank(p, n + 1) = d + 1
    <3>1. \A i \in 1..Len(p) : \A j : j = i - 1 /\ p[i] = "/" => Rank(p, i) = Rank(p, j) + 1
      BY RankStep
    <3>2. n = n + 1 - 1 /\ n \in Nat /\ d \in Nat
      BY <1>1
    <3> HIDE DEF n, d
    <3> QED BY <1>4, <2>1, <3>1, <3>2
  <2>3. n + 1 \in Slashes(p)
    BY <1>1, <2>1 DEF Slashes
  <2>4. d + 1 \in 1..Depth(p)
    <3> HIDE DEF n, d
    <3>1. d + 1 \in 0..Depth(p)
      BY <1>1, <2>2
    <3> QED BY <1>1, <3>1
  <2> HIDE DEF n, d
  <2> QED BY <2>2, <2>3, <2>4, SlashProperties
<1>8. \A k \in 1..d : End(r, k) = End(p, k)
  <2> TAKE k \in 1..d
  <2>1. CASE p = r
    BY <2>1
  <2>2. CASE p # r /\ k = d
    <3>1. End(r, k) = n + 1
      BY <2>2 DEF End
    <3> HIDE DEF n, d
    <3>2. k # Depth(p)
      BY <1>1, <1>7, <2>2
    <3>3. End(p, k) = Slash(p, k + 1)
      BY <3>2 DEF End
    <3> QED BY <1>7, <2>2, <3>1, <3>3
  <2>3. CASE k # d
    <3>1. End(r, k) = Slash(r, k + 1)
      BY <2>3 DEF End
    <3> HIDE DEF n, d
    <3>2. k + 1 \in 1..d /\ k # Depth(p)
      BY <1>1, <1>5, <2>3
    <3>3. End(p, k) = Slash(p, k + 1)
      BY <3>2 DEF End
    <3> QED BY <1>6, <3>1, <3>2, <3>3
  <2> QED BY <2>1, <2>2, <2>3
<1>9. \A k \in 1..d : Segments(r)[k] = Segments(p)[k]
  <2> TAKE k \in 1..d
  <2> DEFINE a == Slash(r, k)
             e == End(r, k)
  <2>1. k \in 1..Depth(p) /\ Slash(p, k) = a /\ End(p, k) = e
    BY <1>6, <1>8
  <2>2. /\ a \in Nat /\ e \in Nat /\ 1 <= a /\ a < e /\ e <= n + 1
        /\ Segments(r)[k] \in Text /\ Len(Segments(r)[k]) = e - a - 1
        /\ \A i \in 1..(e - a - 1) : Segments(r)[k][i] = r[a + i]
    BY SegmentProperties
  <2> HIDE DEF n, d, a, e
  <2>3. /\ Segments(p)[k] \in Text /\ Len(Segments(p)[k]) = e - a - 1
        /\ \A i \in 1..(e - a - 1) : Segments(p)[k][i] = p[a + i]
    <3>1. LET b == Slash(p, k)
              f == End(p, k)
          IN  /\ Segments(p)[k] \in Text /\ Len(Segments(p)[k]) = f - b - 1
              /\ \A i \in 1..(f - b - 1) : Segments(p)[k][i] = p[b + i]
      BY <2>1, SegmentProperties
    <3> QED BY <2>1, <3>1
  <2>4. \A i \in 1..(e - a - 1) : a + i \in 1..n
    BY <1>1, <2>2
  <2>5. \A i \in 1..(e - a - 1) : Segments(r)[k][i] = Segments(p)[k][i]
    BY <1>2, <2>2, <2>3, <2>4
  <2> QED BY <2>2, <2>3, <2>5, SeqEqual DEF Text
<1> QED BY <1>4, <1>5, <1>9

\* A set of positions has a smallest.
LEMMA SmallestExists ==
  ASSUME NEW S \in SUBSET Nat, S # {}
  PROVE  \E x \in S : \A y \in S : x <= y
<1>1. PICK x \in S : \A y \in S : ~ (<<y, x>> \in OpToRel(<, Nat))
  BY NatLessThanWellFounded, WFMin, Zenon
<1>2. \A y \in S : x <= y
  <2> TAKE y \in S
  <2>1. ~ (y < x)
    BY <1>1, Zenon DEF OpToRel
  <2> QED BY <2>1
<1> QED BY <1>2

\* Strings that agree before position i, past the k-th slash of both, and whose
\* k-th segments are the same, agree at i too; the second goes on there if the
\* k-th segment of the first is not its last.
LEMMA SegmentStep ==
  ASSUME NEW r \in Text, NEW p \in Text, NEW i \in 1..Len(r) + 1, i - 1 <= Len(p),
         \A j \in 1..i - 1 : r[j] = p[j],
         NEW k \in 1..Depth(r), Rank(r, i - 1) = k, Depth(r) <= Depth(p),
         Segments(r)[k] = Segments(p)[k]
  PROVE  /\ End(r, k) = End(p, k)
         /\ i <= Len(r) => i <= Len(p) /\ r[i] = p[i]
<1> DEFINE n == Len(r)
           m == Len(p)
           a == Slash(r, k)
           e == End(r, k)
           f == End(p, k)
<1>1. /\ n \in Nat /\ DOMAIN r = 1..n /\ Slashes(r) \subseteq 1..n /\ Depth(r) \in Nat
      /\ m \in Nat /\ DOMAIN p = 1..m /\ Slashes(p) \subseteq 1..m /\ Depth(p) \in Nat
  BY SlashesType
<1>2. /\ a \in Nat /\ e \in Nat /\ 1 <= a /\ a < e /\ e <= n + 1
      /\ \A j \in Nat : a <= j /\ j < e => Rank(r, j) = k
      /\ e <= n => r[e] = "/" /\ k < Depth(r) /\ e = Slash(r, k + 1)
      /\ Len(Segments(r)[k]) = e - a - 1
      /\ \A j \in 1..(e - a - 1) : Segments(r)[k][j] = r[a + j]
  BY SegmentProperties
<1>3. a \in Slashes(r) /\ Rank(r, a) = k
  BY SlashProperties
<1>4. i - 1 \in Nat /\ k \in Nat /\ i \in Nat
  BY <1>1
<1> HIDE DEF n, m, a, e, f
<1>5. a <= i - 1
  <2>1. CASE i - 1 < a
    <3>1. i - 1 <= a /\ a <= a
      BY <1>2, <1>4, <2>1
    <3>2. Rank(r, i - 1) < Rank(r, a)
      BY <1>2, <1>3, <1>4, <2>1, <3>1, RankGrows
    <3> QED BY <1>3, <1>4, <3>2
  <2> QED BY <1>2, <1>4, <2>1
<1>6. i <= e
  <2>1. CASE e <= i - 1
    <3>1. e <= n /\ e \in Slashes(r)
      BY <1>1, <1>2, <1>4, <2>1 DEF Slashes, n
    <3>2. a <= i - 1 /\ e <= e /\ a <= e /\ a < e
      BY <1>2, <1>5
    <3>3. Rank(r, a) < Rank(r, e)
      BY <1>2, <3>1, <3>2, RankGrows
    <3>4. Rank(r, e) <= Rank(r, i - 1)
      BY <1>2, <1>4, <2>1, RankGrows
    <3>5. Rank(r, e) \in Nat
      BY SlashesType
    <3> QED BY <1>3, <1>4, <3>3, <3>4, <3>5
  <2> QED BY <1>2, <1>4, <2>1
<1>7. k \in 1..Depth(p) /\ Slash(p, k) = a
  <2>1. i - 1 <= n /\ i - 1 <= m
    BY <1>1 DEF n, m
  <2> QED BY <1>4, <1>5, <2>1, RankCopy DEF n, m, a
<1>8. /\ f \in Nat /\ a < f /\ f <= m + 1
      /\ f <= m => p[f] = "/" /\ k < Depth(p) /\ f = Slash(p, k + 1)
      /\ f = m + 1 => k = Depth(p)
      /\ Len(Segments(p)[k]) = f - a - 1
      /\ \A j \in 1..(f - a - 1) : Segments(p)[k][j] = p[a + j]
  <2>1. LET b == Slash(p, k)
        IN  /\ f \in Nat /\ b < f /\ f <= m + 1
            /\ f <= m => p[f] = "/" /\ k < Depth(p) /\ f = Slash(p, k + 1)
            /\ f = m + 1 => k = Depth(p)
            /\ Len(Segments(p)[k]) = f - b - 1
            /\ \A j \in 1..(f - b - 1) : Segments(p)[k][j] = p[b + j]
    BY <1>7, SegmentProperties DEF f, m
  <2> QED BY <1>7, <2>1
<1>9. e = f
  <2>1. e - a - 1 = f - a - 1
    BY <1>2, <1>8
  <2> QED BY <1>2, <1>8, <2>1
<1>10. ASSUME i <= n
       PROVE  i <= m /\ r[i] = p[i]
  <2>1. CASE i < e
    <3>1. i - a \in 1..(e - a - 1) /\ a + (i - a) = i
      BY <1>2, <1>4, <1>5, <2>1
    <3>2. r[i] = p[i]
      BY <1>2, <1>8, <1>9, <3>1
    <3>3. i <= m
      BY <1>1, <1>4, <1>8, <1>9, <2>1
    <3> QED BY <3>2, <3>3
  <2>2. CASE i = e
    <3>1. r[i] = "/" /\ k < Depth(r)
      BY <1>2, <1>10, <2>2
    <3>2. k # Depth(p)
      BY <1>1, <1>4, <3>1
    <3>3. f <= m
      BY <1>1, <1>8, <3>2
    <3> QED BY <1>8, <1>9, <2>2, <3>1, <3>3
  <2> QED BY <1>2, <1>4, <1>6, <2>1, <2>2
<1> QED BY <1>9, <1>10 DEF n, m, e, f

\* A route whose segments begin a path's matches it by its text.
LEMMA SegmentsThenText ==
  ASSUME NEW r \in Text, NEW p \in Text, StartsWithSlash(r), StartsWithSlash(p),
         Depth(r) <= Depth(p),
         \A k \in 1..Depth(r) : Segments(r)[k] = Segments(p)[k]
  PROVE  Begins(r, p) /\ (p # r => Len(r) < Len(p) /\ p[Len(r) + 1] = "/")
<1> DEFINE n == Len(r)
           m == Len(p)
           d == Depth(r)
           bad == {i \in 1..n : i > m \/ r[i] # p[i]}
<1>1. /\ n \in Nat /\ DOMAIN r = 1..n /\ Slashes(r) \subseteq 1..n /\ d \in Nat
      /\ m \in Nat /\ DOMAIN p = 1..m /\ Slashes(p) \subseteq 1..m /\ Depth(p) \in Nat
      /\ \A i : Rank(r, i) \in 0..d
  BY SlashesType
<1>2. 1 <= n /\ 1 <= m /\ r[1] = "/" /\ p[1] = "/"
  <2>1. \A s \in Text : StartsWithSlash(s) => 1 <= Len(s) /\ s[1] = "/"
    BY EmptySeq DEF StartsWithSlash, Text
  <2> QED BY <2>1
<1>3. \A i \in Nat : 1 <= i => Rank(r, i) \in 1..d
  <2> TAKE i \in Nat
  <2> HAVE 1 <= i
  <2>1. 1 \in Slashes(r)
    BY <1>1, <1>2 DEF Slashes
  <2>2. 0 < 1 /\ 0 <= i
    OBVIOUS
  <2>3. Rank(r, 0) < Rank(r, i)
    BY <2>1, <2>2, RankGrows
  <2> HIDE DEF d
  <2>4. Rank(r, 0) \in 0..d /\ Rank(r, i) \in 0..d
    BY <1>1
  <2> QED BY <1>1, <2>3, <2>4
<1>4. bad = {}
  <2> SUFFICES ASSUME bad # {}
               PROVE  FALSE
    OBVIOUS
  <2>1. bad \in SUBSET Nat
    BY <1>1
  <2>2. PICK i \in bad : \A j \in bad : i <= j
    <3> HIDE DEF bad
    <3> QED BY <2>1, SmallestExists
  <2>3. i \in 1..n /\ (i > m \/ r[i] # p[i])
    OBVIOUS
  <2>4. \A j \in 1..n : j < i => j <= m /\ r[j] = p[j]
    <3> SUFFICES ASSUME NEW j \in 1..n, j < i
                 PROVE  ~ (j > m \/ r[j] # p[j])
      BY <1>1
    <3>1. j \notin bad
      <4> HIDE DEF bad
      <4>1. ~ (i <= j)
        BY <1>1, <2>3
      <4> QED BY <2>2, <4>1
    <3> QED BY <3>1
  <2> HIDE DEF bad, n, m, d
  <2>5. i \in Nat /\ i # 1 /\ i - 1 \in 1..n /\ i - 1 < i
    BY <1>1, <1>2, <2>3
  <2>6. i - 1 <= m /\ \A j \in 1..i - 1 : r[j] = p[j]
    <3>1. \A j \in 1..i - 1 : j \in 1..n /\ j < i
      BY <1>1, <2>5
    <3> QED BY <2>4, <2>5, <3>1
  <2>7. Rank(r, i - 1) \in 1..d
    <3>1. i - 1 \in Nat /\ 1 <= i - 1
      BY <1>1, <2>5
    <3> QED BY <1>3, <3>1
  <2>8. i \in 1..n + 1 /\ i <= n
    <3>1. \A j \in 1..n : j \in 1..n + 1 /\ j <= n
      BY <1>1
    <3> QED BY <2>3, <3>1
  <2>9. i <= m /\ r[i] = p[i]
    BY <2>6, <2>7, <2>8, SegmentStep DEF n, m, d
  <2> QED BY <1>1, <2>3, <2>9
<1>5. n <= m /\ \A i \in 1..n : r[i] = p[i]
  <2>1. \A i \in 1..n : i <= m /\ r[i] = p[i]
    BY <1>1, <1>4
  <2> HIDE DEF bad, n, m
  <2> QED BY <1>1, <1>2, <2>1
<1>6. Rank(r, n) = d
  <2>1. UpTo(r, n) = Slashes(r)
    BY <1>1 DEF UpTo
  <2> QED BY <2>1, SlashesType DEF Depth
<1>7. d \in 1..d
  <2> HIDE DEF n, d
  <2> QED BY <1>1, <1>2, <1>3, <1>6
<1>8. End(p, d) = n + 1
  <2>1. End(r, d) = n + 1
    BY DEF End
  <2> HIDE DEF bad, n, m, d
  <2>2. n + 1 \in 1..n + 1 /\ n = n + 1 - 1
    BY <1>1
  <2>3. \A i \in 1..n + 1 : i - 1 = n /\ i - 1 <= m /\ (\A j \in 1..i - 1 : r[j] = p[j])
                            => End(r, d) = End(p, d)
    BY <1>6, <1>7, SegmentStep DEF n, m, d
  <2> QED BY <1>1, <1>5, <2>1, <2>2, <2>3
<1>9. ASSUME p # r
      PROVE  n < m /\ p[n + 1] = "/"
  <2> HIDE DEF bad, n, m, d
  <2>1. n # m
    <3> SUFFICES ASSUME n = m
                 PROVE  FALSE
      OBVIOUS
    <3> QED BY <1>5, <1>9, SeqEqual DEF Text, n, m
  <2>2. n < m /\ n + 1 <= m
    BY <1>1, <1>5, <2>1
  <2>3. d \in 1..Depth(p)
    BY <1>1, <1>7 DEF d
  <2>4. End(p, d) <= m => p[End(p, d)] = "/"
    BY <2>3, SegmentProperties DEF m
  <2> QED BY <1>8, <2>2, <2>4
<1> HIDE DEF bad
<1> QED BY <1>5, <1>9 DEF Begins

\* What follows a prefix.
LEMMA AfterProperties ==
  ASSUME NEW S, NEW r \in Seq(S), NEW p \in Seq(S), Len(r) <= Len(p)
  PROVE  /\ After(r, p) \in Seq(S) /\ Len(After(r, p)) = Len(p) - Len(r)
         /\ \A i \in 1..Len(p) - Len(r) : After(r, p)[i] = p[Len(r) + i]
<1> DEFINE n == Len(r)
           m == Len(p)
<1>1. n \in Nat /\ m \in Nat /\ n <= m /\ \A i \in 1..m : p[i] \in S
  BY LenProperties, ElementOfSeq
<1>2. After(r, p) = SubSeq(p, n + 1, m)
  BY DEF After
<1> HIDE DEF n, m
<1>3. n + 1 \in Int /\ m \in Int /\ \A i \in n + 1..m : p[i] \in S
  BY <1>1
<1>4. /\ SubSeq(p, n + 1, m) \in Seq(S)
      /\ Len(SubSeq(p, n + 1, m)) = IF n + 1 <= m THEN m - (n + 1) + 1 ELSE 0
      /\ \A i \in 1..m - (n + 1) + 1 : SubSeq(p, n + 1, m)[i] = p[n + 1 + i - 1]
  BY <1>3, SubSeqProperties
<1>5. /\ m - (n + 1) + 1 = m - n
      /\ (IF n + 1 <= m THEN m - (n + 1) + 1 ELSE 0) = m - n
      /\ \A i \in 1..m - n : n + 1 + i - 1 = n + i
  BY <1>1
<1> QED BY <1>2, <1>4, <1>5 DEF n, m

\* RouteMatches, character by character.
LEMMA MatchesIsBegins ==
  ASSUME NEW r \in Text, NEW p \in Text
  PROVE  RouteMatches(r, p)
           <=> Begins(r, p) /\ (p # r => Len(r) < Len(p) /\ p[Len(r) + 1] = "/")
<1> DEFINE n == Len(r)
           m == Len(p)
<1>1. n \in Nat /\ m \in Nat
  BY LenProperties DEF Text
<1>2. Begins(r, r)
  BY <1>1 DEF Begins
<1>3. IsPrefix(r, p) <=> Begins(r, p)
  BY BeginsIsPrefix DEF Text
<1>4. ASSUME Begins(r, p)
      PROVE  StartsWithSlash(After(r, p)) <=> (n < m /\ p[n + 1] = "/")
  <2>1. n <= m
    BY <1>4 DEF Begins
  <2>2. /\ After(r, p) \in Text /\ Len(After(r, p)) = m - n
        /\ \A i \in 1..m - n : After(r, p)[i] = p[n + i]
    BY <2>1, AfterProperties DEF Text
  <2> HIDE DEF n, m
  <2>3. After(r, p) # <<>> => m - n \in Nat \ {0}
    BY <2>2, EmptySeq DEF Text
  <2>4. After(r, p) # <<>> <=> n < m
    <3>1. CASE n < m
      <4>1. m - n # 0
        BY <1>1, <3>1
      <4>2. After(r, p) # <<>>
        BY <2>2, <4>1, EmptySeq
      <4> QED BY <3>1, <4>2
    <3>2. CASE ~ (n < m)
      <4>1. m - n \notin Nat \ {0}
        BY <1>1, <3>2
      <4> QED BY <2>3, <3>2, <4>1
    <3> QED BY <3>1, <3>2
  <2>5. ASSUME n < m
        PROVE  Head(After(r, p)) = p[n + 1]
    <3>1. 1 \in 1..m - n
      BY <1>1, <2>5
    <3>2. After(r, p)[1] = p[n + 1]
      BY <2>2, <3>1
    <3>3. \A s \in Text : Head(s) = s[1]
      BY DEF Text
    <3> QED BY <2>2, <3>2, <3>3
  <2> QED BY <2>4, <2>5 DEF StartsWithSlash
<1> QED BY <1>2, <1>3, <1>4 DEF RouteMatches

\* A route matches a path where its segments begin the path's.
LEMMA MatchesBySegments ==
  ASSUME NEW r \in Text, NEW p \in Text, StartsWithSlash(r), StartsWithSlash(p)
  PROVE  RouteMatches(r, p) <=> IsPrefix(Segments(r), Segments(p))
<1>1. /\ Segments(r) \in Seq(Text) /\ Len(Segments(r)) = Depth(r)
      /\ Segments(p) \in Seq(Text) /\ Len(Segments(p)) = Depth(p)
  BY SegmentsType
<1>2. IsPrefix(Segments(r), Segments(p))
        <=> Depth(r) <= Depth(p) /\ \A k \in 1..Depth(r) : Segments(r)[k] = Segments(p)[k]
  <2>1. IsPrefix(Segments(r), Segments(p)) <=> Begins(Segments(r), Segments(p))
    BY <1>1, BeginsIsPrefix
  <2> QED BY <1>1, <2>1 DEF Begins
<1>3. ASSUME RouteMatches(r, p)
      PROVE  IsPrefix(Segments(r), Segments(p))
  <2>1. Begins(r, p) /\ (p # r => Len(r) < Len(p) /\ p[Len(r) + 1] = "/")
    BY <1>3, MatchesIsBegins
  <2> QED BY <1>2, <2>1, TextThenSegments
<1>4. ASSUME IsPrefix(Segments(r), Segments(p))
      PROVE  RouteMatches(r, p)
  <2>1. Begins(r, p) /\ (p # r => Len(r) < Len(p) /\ p[Len(r) + 1] = "/")
    BY <1>2, <1>4, SegmentsThenText
  <2> QED BY <2>1, MatchesIsBegins
<1> QED BY <1>3, <1>4

-----------------------------------------------------------------------------
(***************************************************************************)
(* What the agent sees.                                                    *)
(***************************************************************************)

\* The slashes of what follows a prefix are those of the whole past it.
LEMMA RankAfter ==
  ASSUME NEW r \in Text, NEW p \in Text, Len(r) <= Len(p),
         NEW i \in 0..Len(p) - Len(r)
  PROVE  Rank(p, Len(r) + i) = Rank(p, Len(r)) + Rank(After(r, p), i)
<1> DEFINE n == Len(r)
           t == After(r, p)
           Moved == {j \in Slashes(p) : n < j /\ j <= n + i}
           Move == [j \in UpTo(t, i) |-> n + j]
<1>1. /\ n \in Nat /\ Len(p) \in Nat /\ DOMAIN p = 1..Len(p) /\ Slashes(p) \subseteq 1..Len(p)
      /\ IsFiniteSet(UpTo(p, n)) /\ IsFiniteSet(UpTo(p, n + i)) /\ Rank(p, n) \in Nat
      /\ Rank(p, n) = Cardinality(UpTo(p, n))
      /\ Rank(p, n + i) = Cardinality(UpTo(p, n + i))
  BY SlashesType
<1>2. /\ t \in Text /\ Len(t) = Len(p) - n
      /\ \A j \in 1..Len(p) - n : t[j] = p[n + j]
  BY AfterProperties DEF Text
<1> HIDE DEF n, t
<1>3. /\ DOMAIN t = 1..Len(p) - n /\ Slashes(t) \subseteq 1..Len(p) - n
      /\ IsFiniteSet(UpTo(t, i)) /\ Rank(t, i) = Cardinality(UpTo(t, i)) /\ Rank(t, i) \in Nat
  BY <1>2, SlashesType
<1>4. i \in 0..Len(p) - n /\ n <= Len(p) /\ i \in Nat
  BY <1>1 DEF n
<1>5. \A j \in 1..Len(p) - n : j \in Slashes(t) <=> n + j \in Slashes(p)
  <2> TAKE j \in 1..Len(p) - n
  <2>1. n + j \in 1..Len(p)
    BY <1>1
  <2> QED BY <1>1, <1>2, <1>3, <2>1 DEF Slashes
<1>6. UpTo(p, n + i) = UpTo(p, n) \cup Moved /\ UpTo(p, n) \cap Moved = {}
  <2>1. \A j \in 1..Len(p) : /\ j <= n + i <=> (j <= n \/ (n < j /\ j <= n + i))
                             /\ ~ (j <= n /\ n < j)
    BY <1>1, <1>4
  <2> QED BY <1>1, <2>1 DEF UpTo
<1>7. Move \in Bijection(UpTo(t, i), Moved)
  <2>1. ASSUME NEW j \in UpTo(t, i)
        PROVE  j \in Nat /\ n + j \in Moved
    <3>1. j \in Slashes(t) /\ j \in 1..Len(p) - n /\ j <= i
      BY <1>3 DEF UpTo
    <3>2. n + j \in Slashes(p)
      BY <1>5, <3>1
    <3>3. j \in Nat /\ n < n + j /\ n + j <= n + i
      BY <1>1, <1>4, <3>1
    <3> QED BY <3>2, <3>3
  <2>2. Move \in [UpTo(t, i) -> Moved]
    BY <2>1
  <2>3. \A x, y \in UpTo(t, i) : Move[x] = Move[y] => x = y
    <3>1. \A x, y \in Nat : n + x = n + y => x = y
      BY <1>1
    <3> QED BY <2>1, <3>1
  <2>4. ASSUME NEW x \in Moved
        PROVE  \E j \in UpTo(t, i) : Move[j] = x
    <3>1. x - n \in 1..Len(p) - n /\ x - n <= i /\ n + (x - n) = x
      BY <1>1, <1>4
    <3>2. x - n \in UpTo(t, i)
      BY <1>5, <3>1 DEF UpTo
    <3> QED BY <3>1, <3>2
  <2> QED BY <2>2, <2>3, <2>4 DEF Bijection, Injection, Surjection, IsInjective
<1>8. IsFiniteSet(Moved) /\ Cardinality(Moved) = Rank(t, i)
  <2> HIDE DEF Move, Moved
  <2>1. ExistsBijection(UpTo(t, i), Moved)
    BY <1>7 DEF ExistsBijection
  <2> QED BY <1>3, <2>1, FS_Bijection
<1>9. Cardinality(UpTo(p, n) \cup Moved) = Cardinality(UpTo(p, n)) + Cardinality(Moved) - 0
  <2> HIDE DEF Moved
  <2> QED BY <1>1, <1>6, <1>8, FS_Union, FS_EmptySet
<1> HIDE DEF Moved
<1>10. Rank(p, n + i) = Rank(p, n) + Rank(t, i) - 0
  BY <1>1, <1>6, <1>8, <1>9
<1> QED BY <1>1, <1>3, <1>10 DEF n, t

\* Past a route that matches, the segments are those the route does not have.
LEMMA SegmentsOfAfter ==
  ASSUME NEW r \in Text, NEW p \in Text, RouteMatches(r, p), p # r
  PROVE  /\ After(r, p) \in Text /\ After(r, p) # <<>>
         /\ Segments(After(r, p)) = After(Segments(r), Segments(p))
         /\ After(Segments(r), Segments(p)) # <<>>
<1> DEFINE n == Len(r)
           m == Len(p)
           d == Depth(r)
           t == After(r, p)
<1>1. Begins(r, p) /\ n < m /\ p[n + 1] = "/"
  BY MatchesIsBegins
<1>2. /\ n \in Nat /\ m \in Nat /\ DOMAIN p = 1..m /\ d \in Nat /\ Depth(p) \in Nat
      /\ Slashes(p) \subseteq 1..m
      /\ \A i : Rank(p, i) \in 0..Depth(p)
  BY SlashesType
<1>3. n <= m
  BY <1>1, <1>2
<1>4. t \in Text /\ Len(t) = m - n /\ \A i \in 1..m - n : t[i] = p[n + i]
  BY <1>3, AfterProperties DEF Text
<1>5. d <= Depth(p) /\ d = Rank(p, n) /\ \A k \in 1..d : Segments(r)[k] = Segments(p)[k]
  BY <1>1, TextThenSegments
<1>6. \A i \in 0..m - n : Rank(p, n + i) = d + Rank(t, i)
  BY <1>3, <1>5, RankAfter
<1> HIDE DEF n, m, d, t
<1>7. /\ Depth(t) \in Nat /\ Slashes(t) \subseteq 1..m - n /\ DOMAIN t = 1..m - n
  BY <1>4, SlashesType
<1>8. Depth(p) = d + Depth(t)
  <2>1. UpTo(p, m) = Slashes(p) /\ UpTo(t, m - n) = Slashes(t)
    BY <1>2, <1>3, <1>7 DEF UpTo
  <2>2. Rank(p, m) = Depth(p) /\ Rank(t, m - n) = Depth(t)
    BY <1>4, <2>1, SlashesType DEF Depth
  <2>3. m - n \in 0..m - n /\ n + (m - n) = m
    BY <1>2, <1>3
  <2>4. Rank(p, n + (m - n)) = d + Rank(t, m - n)
    BY <1>6, <2>3
  <2> QED BY <2>2, <2>3, <2>4
<1>9. Depth(t) # 0
  <2>1. 1 \in Slashes(t)
    <3>1. 1 \in 1..m - n
      BY <1>1, <1>2
    <3> QED BY <1>1, <1>4, <1>7, <3>1 DEF Slashes
  <2>2. IsFiniteSet(Slashes(t))
    BY <1>4, SlashesType
  <2> QED BY <2>1, <2>2, FS_EmptySet DEF Depth
<1>10. \A k \in 1..Depth(t) : d + k \in 1..Depth(p) /\ Slash(p, d + k) = n + Slash(t, k)
  <2> TAKE k \in 1..Depth(t)
  <2>1. d + k \in 1..Depth(p)
    BY <1>2, <1>7, <1>8
  <2>2. Slash(t, k) \in Slashes(t) /\ Rank(t, Slash(t, k)) = k
    BY <1>4, SlashProperties
  <2>3. Slash(t, k) \in 1..m - n /\ t[Slash(t, k)] = "/"
    BY <1>7, <2>2 DEF Slashes
  <2>4. n + Slash(t, k) \in 1..m /\ p[n + Slash(t, k)] = "/"
    BY <1>2, <1>3, <1>4, <2>3
  <2>5. n + Slash(t, k) \in Slashes(p)
    BY <1>2, <2>4 DEF Slashes
  <2>6. Rank(p, n + Slash(t, k)) = d + k
    <3>1. Slash(t, k) \in 0..m - n
      BY <1>2, <1>3, <2>3
    <3> QED BY <1>6, <2>2, <3>1
  <2> QED BY <2>1, <2>5, <2>6, SlashProperties
<1>11. \A k \in 1..Depth(t) : End(p, d + k) = n + End(t, k)
  <2> TAKE k \in 1..Depth(t)
  <2>1. CASE k = Depth(t)
    <3>1. End(t, k) = m - n + 1 /\ End(p, d + k) = m + 1
      BY <1>4, <1>8, <2>1 DEF End, m
    <3>2. n + (m - n + 1) = m + 1
      BY <1>2
    <3> QED BY <3>1, <3>2
  <2>2. CASE k # Depth(t)
    <3>1. k + 1 \in 1..Depth(t) /\ d + k # Depth(p) /\ d + (k + 1) = d + k + 1
      BY <1>2, <1>7, <1>8, <2>2
    <3>2. End(t, k) = Slash(t, k + 1) /\ End(p, d + k) = Slash(p, d + k + 1)
      BY <2>2, <3>1 DEF End
    <3>3. Slash(p, d + (k + 1)) = n + Slash(t, k + 1)
      BY <1>10, <3>1
    <3> QED BY <3>1, <3>2, <3>3
  <2> QED BY <2>1, <2>2
<1>12. \A k \in 1..Depth(t) : Segments(t)[k] = Segments(p)[d + k]
  <2> TAKE k \in 1..Depth(t)
  <2> DEFINE a == Slash(t, k)
             e == End(t, k)
             l == e - a - 1
  <2>1. /\ a \in Nat /\ e \in Nat /\ 1 <= a /\ a < e /\ e <= m - n + 1
        /\ Segments(t)[k] \in Text /\ Len(Segments(t)[k]) = l
        /\ \A i \in 1..l : Segments(t)[k][i] = t[a + i]
    BY <1>4, SegmentProperties
  <2>2. LET b == Slash(p, d + k)
            f == End(p, d + k)
        IN  /\ Segments(p)[d + k] \in Text /\ Len(Segments(p)[d + k]) = f - b - 1
            /\ \A i \in 1..(f - b - 1) : Segments(p)[d + k][i] = p[b + i]
    BY <1>10, SegmentProperties
  <2>3. Slash(p, d + k) = n + a /\ End(p, d + k) = n + e
    BY <1>10, <1>11
  <2> HIDE DEF a, e
  <2>4. (n + e) - (n + a) - 1 = l /\ l \in Nat
    BY <1>2, <2>1
  <2>5. \A i \in 1..l : a + i \in 1..m - n /\ n + (a + i) = n + a + i
    BY <1>2, <1>3, <2>1
  <2> HIDE DEF l
  <2>6. /\ Segments(p)[d + k] \in Text /\ Len(Segments(p)[d + k]) = l
        /\ \A i \in 1..l : Segments(p)[d + k][i] = p[n + a + i]
    BY <2>2, <2>3, <2>4
  <2>7. \A i \in 1..l : Segments(t)[k][i] = Segments(p)[d + k][i]
    BY <1>4, <2>1, <2>5, <2>6
  <2> QED BY <2>1, <2>6, <2>7, SeqEqual DEF Text
<1>13. /\ Segments(r) \in Seq(Text) /\ Len(Segments(r)) = d
       /\ Segments(p) \in Seq(Text) /\ Len(Segments(p)) = Depth(p)
       /\ Segments(t) \in Seq(Text) /\ Len(Segments(t)) = Depth(t)
  BY <1>4, SegmentsType DEF d
<1> DEFINE rest == After(Segments(r), Segments(p))
<1>14. /\ rest \in Seq(Text) /\ Len(rest) = Depth(p) - d
       /\ \A k \in 1..Depth(p) - d : rest[k] = Segments(p)[d + k]
  <2> DEFINE a == Segments(r)
             b == Segments(p)
  <2>1. a \in Seq(Text) /\ b \in Seq(Text) /\ Len(a) = d /\ Len(b) = Depth(p) /\ Len(a) <= Len(b)
    BY <1>5, <1>13
  <2> HIDE DEF a, b
  <2>2. /\ After(a, b) \in Seq(Text) /\ Len(After(a, b)) = Len(b) - Len(a)
        /\ \A k \in 1..Len(b) - Len(a) : After(a, b)[k] = b[Len(a) + k]
    BY <2>1, AfterProperties
  <2>3. rest = After(a, b)
    BY DEF a, b
  <2> HIDE DEF rest
  <2> QED BY <2>1, <2>2, <2>3 DEF b
<1> HIDE DEF rest
<1>15. Depth(p) - d = Depth(t)
  BY <1>2, <1>7, <1>8
<1>16. Segments(t) = rest
  BY <1>12, <1>13, <1>14, <1>15, SeqEqual
<1>17. rest # <<>> /\ t # <<>>
  <2>1. m - n # 0
    BY <1>1, <1>2
  <2> QED BY <1>4, <1>9, <1>14, <1>15, <2>1, EmptySeq
<1> QED BY <1>4, <1>16, <1>17 DEF t, rest

\* The path "/" has one segment, and that is empty.
LEMMA SegmentsOfSlash ==
  <<"/">> \in Text /\ Segments(<<"/">>) = <<(<<>>)>>
<1> DEFINE s == <<"/">>
<1>1. s \in Text /\ Len(s) = 1 /\ DOMAIN s = {1} /\ s[1] = "/"
  <2>1. s \in Seq(Chars)
    <3>1. \A S : \A c \in S : <<c>> \in Seq(S)
      OBVIOUS
    <3>2. "/" \in Chars
      BY DEF Chars
    <3> QED BY <3>1, <3>2
  <2>2. Len(s) = 1 /\ DOMAIN s = {1} /\ s[1] = "/"
    OBVIOUS
  <2> QED BY <2>1, <2>2 DEF Text
<1> HIDE DEF s
<1>2. Slashes(s) = {1}
  BY <1>1 DEF Slashes
<1>3. Depth(s) = 1
  BY <1>2, FS_Singleton DEF Depth
<1>4. 1 \in 1..Depth(s)
  BY <1>3
<1>5. Slash(s, 1) = 1
  BY <1>1, <1>2, <1>4, SlashProperties
<1>6. End(s, 1) = 2
  BY <1>1, <1>3 DEF End
<1>7. Segments(s)[1] \in Text /\ Len(Segments(s)[1]) = 2 - 1 - 1
  BY <1>1, <1>4, <1>5, <1>6, SegmentProperties
<1>8. Segments(s)[1] = <<>>
  BY <1>7, EmptySeq DEF Text
<1>9. Segments(s) \in Seq(Text) /\ Len(Segments(s)) = 1
  BY <1>1, <1>3, SegmentsType
<1>10. Segments(s) = <<(<<>>)>>
  BY <1>8, <1>9
<1> QED BY <1>1, <1>10 DEF s

\* What the agent sees of a path that its route matches.
LEMMA RewrittenBySegments ==
  ASSUME NEW r \in Text, NEW p \in Text, RouteMatches(r, p)
  PROVE  LET rest == After(Segments(r), Segments(p))
         IN  Segments(Rewritten(r, p)) = IF rest = <<>> THEN <<(<<>>)>> ELSE rest
<1>1. CASE p # r
  BY <1>1, SegmentsOfAfter DEF Rewritten
<1>2. CASE p = r
  <2>1. \A S : \A s \in Seq(S) : After(s, s) = <<>>
    <3> TAKE S
    <3> TAKE s \in Seq(S)
    <3>1. Len(s) \in Int /\ Len(s) + 1 \in Int /\ Len(s) < Len(s) + 1
      BY LenProperties
    <3> QED BY <3>1, SubSeqEmpty DEF After
  <2>2. After(r, r) = <<>>
    BY <2>1 DEF Text
  <2>3. After(Segments(r), Segments(r)) = <<>>
    BY <2>1, SegmentsType
  <2> QED BY <1>2, <2>2, <2>3, SegmentsOfSlash DEF Rewritten
<1> QED BY <1>1, <1>2

-----------------------------------------------------------------------------
(***************************************************************************)
(* The longest route.                                                      *)
(***************************************************************************)

\* Of the routes that match a path, the longest in characters has the most
\* segments.
LEMMA LongestHasMostSegments ==
  ASSUME NEW r \in Text, NEW q \in Text, NEW p \in Text,
         RouteMatches(r, p), RouteMatches(q, p), Len(q) <= Len(r)
  PROVE  Depth(q) <= Depth(r)
<1>1. Depth(r) = Rank(p, Len(r)) /\ Depth(q) = Rank(p, Len(q))
  BY MatchesIsBegins, TextThenSegments
<1>2. Len(r) \in Nat /\ Len(q) \in Nat
  BY SlashesType
<1> QED BY <1>1, <1>2, RankGrows

\* Where routes match a path, one of them is longest.
LEMMA LongestExists ==
  ASSUME NEW p \in Text, NEW M \in SUBSET Text, M # {}, \A r \in M : RouteMatches(r, p)
  PROVE  \E r \in M : \A q \in M : Len(q) <= Len(r)
<1> DEFINE Left == {Len(p) - Len(r) : r \in M}
<1>1. Len(p) \in Nat /\ \A r \in M : Len(r) \in Nat /\ Len(r) <= Len(p)
  <2>1. \A r \in M : RouteMatches(r, p) => Len(r) <= Len(p)
    BY MatchesIsBegins DEF Begins
  <2> QED BY <2>1, SlashesType
<1>2. Left \in SUBSET Nat /\ Left # {}
  BY <1>1
<1>3. PICK x \in Left : \A y \in Left : x <= y
  <2> HIDE DEF Left
  <2> QED BY <1>2, SmallestExists
<1>4. PICK r \in M : x = Len(p) - Len(r)
  OBVIOUS
<1>5. \A q \in M : Len(q) <= Len(r)
  <2> TAKE q \in M
  <2>1. Len(p) - Len(r) <= Len(p) - Len(q)
    BY <1>3, <1>4
  <2>2. \A a, b, c \in Nat : a - b <= a - c => c <= b
    OBVIOUS
  <2> QED BY <1>1, <2>1, <2>2
<1> QED BY <1>5

-----------------------------------------------------------------------------
(***************************************************************************)
(* The inductive invariant.                                                *)
(***************************************************************************)

TypeOK ==
  /\ routes \in SUBSET Strings
  /\ request \in Strings \cup {<<>>}

\* Routes are valid, and the answer is what the routes give for the request: a
\* route that comes or goes clears both.
IInv ==
  /\ \A r \in routes : ValidRoute(r)
  /\ request # <<>> => StartsWithSlash(request) /\ answer = Dispatched(routes, request)

LEMMA InitEstablishes == RoutesInit => TypeOK /\ IInv
BY DEF RoutesInit, TypeOK, IInv

LEMMA NextPreserves == TypeOK /\ IInv /\ [RoutesNext]_routesVars => TypeOK' /\ IInv'
<1> SUFFICES ASSUME TypeOK, IInv, [RoutesNext]_routesVars
             PROVE  TypeOK' /\ IInv'
  OBVIOUS
<1>1. ASSUME NEW r \in Strings, Register(r)
      PROVE  TypeOK' /\ IInv'
  BY <1>1 DEF Register, TypeOK, IInv
<1>2. ASSUME NEW r \in Strings, Unregister(r)
      PROVE  TypeOK' /\ IInv'
  BY <1>2 DEF Unregister, TypeOK, IInv
<1>3. ASSUME NEW path \in Strings, Dispatch(path)
      PROVE  TypeOK' /\ IInv'
  BY <1>3 DEF Dispatch, TypeOK, IInv
<1>4. CASE UNCHANGED routesVars
  BY <1>4 DEF routesVars, TypeOK, IInv
<1> QED BY <1>1, <1>2, <1>3, <1>4 DEF RoutesNext

\* What dispatch_instance answers follows the segments.
LEMMA InvariantImplies == TypeOK /\ IInv => DispatchGoesBySegments
<1> SUFFICES ASSUME TypeOK, IInv, request # <<>>
             PROVE  LET begins == {r \in routes : IsPrefix(Segments(r), Segments(request))}
                        rest   == After(Segments(answer.route), Segments(request))
                    IN  IF begins = {} THEN answer.status = 404
                        ELSE /\ answer.status = 200
                             /\ answer.route \in begins
                             /\ \A r \in begins :
                                  Len(Segments(r)) <= Len(Segments(answer.route))
                             /\ Segments(answer.path) = IF rest = <<>> THEN <<(<<>>)>> ELSE rest
  BY DEF DispatchGoesBySegments
<1> DEFINE p == request
           begins == {r \in routes : IsPrefix(Segments(r), Segments(p))}
           matching == {r \in routes : RouteMatches(r, p)}
           Longest(r) == \A q \in matching : Len(q) <= Len(r)
           route == CHOOSE r \in matching : Longest(r)
<1>1. /\ p \in Text /\ StartsWithSlash(p)
      /\ \A r \in routes : r \in Text /\ StartsWithSlash(r)
      /\ answer = Dispatched(routes, p)
  <2>1. Strings \subseteq Text
    BY RoutesAssumption, SeqMonotonic DEF Text, Chars
  <2> QED BY <2>1 DEF TypeOK, IInv, ValidRoute
<1>2. begins = matching
  BY <1>1, MatchesBySegments
<1>3. CASE matching = {}
  BY <1>1, <1>2, <1>3 DEF Dispatched, NotFound
<1>4. CASE matching # {}
  <2>1. answer = [status |-> 200, route |-> route, path |-> Rewritten(route, p)]
    BY <1>1, <1>4 DEF Dispatched
  <2>2. matching \in SUBSET Text /\ \A r \in matching : RouteMatches(r, p)
    BY <1>1
  <2>3. \E r \in matching : Longest(r)
    <3> HIDE DEF matching, p
    <3> QED BY <1>1, <1>4, <2>2, LongestExists
  <2>4. route \in matching /\ Longest(route)
    <3> HIDE DEF matching, Longest
    <3> QED BY <2>3
  <2> HIDE DEF matching, Longest, route, p, begins
  <2>5. route \in Text /\ RouteMatches(route, p)
    BY <2>2, <2>4
  <2>6. \A r \in matching : Len(Segments(r)) <= Len(Segments(route))
    <3>1. \A r \in matching : Depth(r) <= Depth(route)
      BY <1>1, <2>2, <2>4, <2>5, LongestHasMostSegments DEF Longest
    <3>2. \A r \in Text : Len(Segments(r)) = Depth(r)
      BY SegmentsType
    <3> QED BY <2>2, <2>5, <3>1, <3>2
  <2>7. LET rest == After(Segments(route), Segments(p))
        IN  Segments(Rewritten(route, p)) = IF rest = <<>> THEN <<(<<>>)>> ELSE rest
    BY <1>1, <2>5, RewrittenBySegments
  <2> QED BY <1>2, <1>4, <2>1, <2>4, <2>6, <2>7 DEF begins, p
<1> QED BY <1>3, <1>4

-----------------------------------------------------------------------------
(***************************************************************************)
(* The theorem.                                                            *)
(***************************************************************************)

\* Whatever routes come and go, and whatever their texts and the paths asked
\* for are, matching and cutting text is reading by segments
\* (dispatch_instance, routes.rs:242-268; rewrite_route_prefix,
\* routes.rs:270-289; route_matches, routes.rs:291-296).
THEOREM DispatchStaysBySegments == RoutesSpec => []DispatchGoesBySegments
<1>1. RoutesSpec => [](TypeOK /\ IInv)
  BY InitEstablishes, NextPreserves, PTL DEF RoutesSpec
<1> QED BY <1>1, InvariantImplies, PTL

=============================================================================
