------------------------------ MODULE TextProofs ------------------------------
(***************************************************************************)
(* Proofs about the sequential programs on texts and messages, each by an  *)
(* inductive invariant of its own: the KMP search, the line search with    *)
(* Sunday's shift, the bracket checker, the UTF-8 conversions and the      *)
(* parameters of an IPC request, for inputs of any length.                 *)
(***************************************************************************)
EXTENDS Kmp, Wgrep, Balance, Text, IpcParams, ProofLemmas

-----------------------------------------------------------------------------
(* Counting among the first numbers, and reading a line.                    *)

\* How many of the first n numbers are in W: one more with the next one, if it is.
LEMMA CountNext ==
  ASSUME NEW n \in Nat, NEW W
  PROVE  /\ HowMany(1..n, W) \in Nat
         /\ HowMany(1..0, W) = 0
         /\ HowMany(1..(n + 1), W) = HowMany(1..n, W) + (IF n + 1 \in W THEN 1 ELSE 0)
<1>1. IsFiniteSet(1..n)
  BY FS_Interval
<1>2. 1..(n + 1) = (1..n) \cup {n + 1} /\ n + 1 \notin 1..n
  OBVIOUS
<1>3. HowMany(1..0, W) = 0
  <2>1. (1..0) \cap W = {}
    OBVIOUS
  <2> QED BY <2>1, FS_EmptySet DEF HowMany
<1>4. HowMany(1..n, W) \in Nat
  BY <1>1, CountType
<1>5. HowMany((1..n) \cup {n + 1}, W) = HowMany(1..n, W) + (IF n + 1 \in W THEN 1 ELSE 0)
  BY <1>1, <1>2, CountAdded
<1> QED BY <1>2, <1>3, <1>4, <1>5, Zenon

\* The more numbers the more of them are in W, and more of them are if one between is.
LEMMA CountGrows ==
  ASSUME NEW m \in Nat, NEW n \in Nat, m <= n, NEW W
  PROVE  /\ HowMany(1..m, W) \in Nat /\ HowMany(1..n, W) \in Nat
         /\ HowMany(1..m, W) <= HowMany(1..n, W)
         /\ HowMany(1..m, W) < HowMany(1..n, W) <=> \E e \in (m + 1)..n : e \in W
<1> DEFINE A == (1..m) \cap W
           B == (1..n) \cap W
<1>1. IsFiniteSet(B) /\ A \in SUBSET B
  <2>1. IsFiniteSet(1..n) /\ B \in SUBSET (1..n) /\ A \in SUBSET B
    BY FS_Interval
  <2> QED BY <2>1, FS_Subset
<1>2. /\ IsFiniteSet(A) /\ Cardinality(A) <= Cardinality(B)
      /\ Cardinality(A) = Cardinality(B) => A = B
      /\ Cardinality(A) \in Nat /\ Cardinality(B) \in Nat
  <2> HIDE DEF A, B
  <2> QED BY <1>1, FS_Subset, FS_CardinalityType
<1>3. A = B <=> ~\E e \in (m + 1)..n : e \in W
  <2>1. ASSUME A = B, NEW e \in (m + 1)..n, e \in W PROVE FALSE
    <3>1. e \in 1..n /\ e \notin 1..m
      OBVIOUS
    <3> QED BY <2>1, <3>1
  <2>2. ASSUME ~\E e \in (m + 1)..n : e \in W PROVE B \subseteq A
    <3> SUFFICES ASSUME NEW e \in B PROVE e \in A
      OBVIOUS
    <3>1. e \in 1..m \/ e \in (m + 1)..n
      OBVIOUS
    <3> QED BY <2>2, <3>1
  <2> QED BY <1>1, <2>1, <2>2
<1> HIDE DEF A, B
<1>4. Cardinality(A) < Cardinality(B) <=> A # B
  BY <1>2
<1> QED BY <1>2, <1>3, <1>4 DEF HowMany, A, B

\* Where a string first has a character.
LEMMA UpToFirst ==
  ASSUME NEW T, NEW str \in Seq(T), NEW c
  PROVE  /\ UpTo(str, c) \in 0..Len(str)
         /\ Contains(str, c) => UpTo(str, c) \in 1..Len(str) /\ str[UpTo(str, c)] = c
         /\ \A i \in 1..(UpTo(str, c) - 1) : str[i] # c
         /\ ~Contains(str, c) => UpTo(str, c) = Len(str) /\ \A i \in 1..Len(str) : str[i] # c
<1>0. Len(str) \in Nat
  BY LenProperties
<1> DEFINE I == {i \in 1..Len(str) : str[i] = c}
<1>1. CASE Contains(str, c)
  <2>1. I # {} /\ I \subseteq Nat /\ I \subseteq 1..Len(str)
    BY <1>0, <1>1 DEF Contains
  <2>2. UpTo(str, c) = Min(I)
    BY <1>1, <2>1 DEF UpTo, SelectInSeq
  <2>3. \A i \in 1..Len(str) : str[i] = c => i \in I
    OBVIOUS
  <2>4. \A i \in I : str[i] = c
    OBVIOUS
  <2> HIDE DEF I
  <2>5. Min(I) \in I /\ \A y \in I : Min(I) <= y
    BY <2>1, MinIsElement
  <2> DEFINE u == Min(I)
  <2>6. u \in I /\ u \in 1..Len(str) /\ u \in Nat /\ str[u] = c
    BY <2>1, <2>4, <2>5
  <2>7. ASSUME NEW i \in 1..(u - 1), str[i] = c PROVE FALSE
    <3>1. u <= i
      <4>1. i \in I
        <5> HIDE DEF u
        <5>1. i \in 1..Len(str)
          BY <1>0, <2>6
        <5> QED BY <2>3, <2>7, <5>1
      <4> QED BY <2>5, <4>1
    <3> HIDE DEF u
    <3> QED BY <2>6, <3>1
  <2>8. UpTo(str, c) = u
    BY <2>2
  <2> HIDE DEF u
  <2> QED BY <1>0, <1>1, <2>6, <2>7, <2>8
<1>2. CASE ~Contains(str, c)
  <2>1. UpTo(str, c) = Len(str) /\ \A i \in 1..Len(str) : str[i] # c
    BY <1>2 DEF UpTo, Contains
  <2> QED BY <1>0, <1>2, <2>1
<1> QED BY <1>1, <1>2

\* Whatever is in the file, what is read and what is left of it are strings.
LEMMA LineIsSeq ==
  ASSUME NEW T, NEW r \in Seq(T), r # <<>>
  PROVE  /\ Taken(r) \in 1..Len(r)
         /\ LineOf(r) \in Seq(T) /\ RestOf(r) \in Seq(T)
<1>0. Len(r) \in Nat \ {0} /\ Buf \in Nat /\ Buf > 1 /\ \A i \in 1..Len(r) : r[i] \in T
  BY EmptySeq, ElementOfSeq, LinesAssumption
<1>1. UpTo(r, NL) \in 1..Len(r)
  BY <1>0, UpToFirst
<1>2. Taken(r) \in 1..Len(r)
  BY <1>0, <1>1 DEF Taken
<1> DEFINE l == SubSeq(r, 1, Taken(r))
<1>3. l \in Seq(T)
  <2>1. Taken(r) \in Int /\ \A i \in 1..Taken(r) : r[i] \in T
    BY <1>0, <1>2
  <2> QED BY <2>1, SubSeqProperties
<1>4. RestOf(r) \in Seq(T)
  <2>1. /\ Taken(r) + 1 \in Int /\ Len(r) \in Int
        /\ \A i \in (Taken(r) + 1)..Len(r) : r[i] \in T
    BY <1>0, <1>2
  <2> QED BY <2>1, SubSeqProperties DEF RestOf
<1> HIDE DEF l
<1>5. ASSUME Contains(l, NUL) PROVE SubSeq(l, 1, UpTo(l, NUL) - 1) \in Seq(T)
  <2>1. Len(l) \in Nat /\ UpTo(l, NUL) \in 1..Len(l) /\ \A i \in 1..Len(l) : l[i] \in T
    BY <1>3, <1>5, UpToFirst, LenProperties, ElementOfSeq
  <2>2. UpTo(l, NUL) - 1 \in Int /\ \A i \in 1..(UpTo(l, NUL) - 1) : l[i] \in T
    BY <2>1
  <2> QED BY <2>2, SubSeqProperties
<1>6. LineOf(r) \in Seq(T)
  BY <1>3, <1>5 DEF LineOf, l
<1> QED BY <1>2, <1>4, <1>6

\* fgets takes something, nothing behind the end of the line, and the whole line unless
\* the buffer is full; without a NUL in it that is what the string then holds.
LEMMA ReadsLine ==
  ASSUME NEW T, NEW r \in Seq(T), r # <<>>, \A i \in 1..Len(r) : r[i] # NUL
  PROVE  /\ Taken(r) \in 1..Len(r)
         /\ LineOf(r) \in Seq(T) /\ RestOf(r) \in Seq(T)
         /\ Len(LineOf(r)) = Taken(r) /\ Len(RestOf(r)) = Len(r) - Taken(r)
         /\ \A i \in 1..Taken(r) : LineOf(r)[i] = r[i]
         /\ \A i \in 1..(Len(r) - Taken(r)) : RestOf(r)[i] = r[Taken(r) + i]
         /\ \A i \in 1..(Taken(r) - 1) : r[i] # NL
         /\ Taken(r) = Len(r) \/ r[Taken(r)] = NL \/ (Taken(r) = Buf - 1 /\ \A i \in 1..Taken(r) : r[i] # NL)
<1>0. Len(r) \in Nat \ {0} /\ Buf \in Nat /\ Buf > 1
  BY EmptySeq, LinesAssumption
<1>1. /\ UpTo(r, NL) \in 1..Len(r) /\ \A i \in 1..(UpTo(r, NL) - 1) : r[i] # NL
      /\ UpTo(r, NL) = Len(r) \/ r[UpTo(r, NL)] = NL
  BY <1>0, UpToFirst
<1>2. /\ Taken(r) \in 1..Len(r) /\ Taken(r) \in Nat /\ \A i \in 1..(Taken(r) - 1) : r[i] # NL
      /\ Taken(r) = Len(r) \/ r[Taken(r)] = NL \/ (Taken(r) = Buf - 1 /\ \A i \in 1..Taken(r) : r[i] # NL)
  <2>1. CASE UpTo(r, NL) < Buf
    BY <1>0, <1>1, <2>1 DEF Taken
  <2>2. CASE ~(UpTo(r, NL) < Buf)
    <3>1. Taken(r) = Buf - 1 /\ Buf - 1 \in 1..Len(r) /\ \A i \in 1..(Buf - 1) : i \in 1..(UpTo(r, NL) - 1)
      BY <1>0, <1>1, <2>2 DEF Taken
    <3> QED BY <1>0, <1>1, <3>1
  <2> QED BY <2>1, <2>2
<1> DEFINE l == SubSeq(r, 1, Taken(r))
<1>3. \A i \in 1..Len(r) : r[i] \in T
  BY ElementOfSeq
<1>4. l \in Seq(T) /\ Len(l) = Taken(r) /\ \A i \in 1..Taken(r) : l[i] = r[i]
  <2>1. \A i \in 1..Taken(r) : r[i] \in T /\ i \in Int
    BY <1>2, <1>3
  <2> HIDE DEF Taken
  <2>2. /\ SubSeq(r, 1, Taken(r)) \in Seq(T)
        /\ Len(SubSeq(r, 1, Taken(r))) = IF 1 <= Taken(r) THEN Taken(r) - 1 + 1 ELSE 0
        /\ \A i \in 1..(Taken(r) - 1 + 1) : SubSeq(r, 1, Taken(r))[i] = r[1 + i - 1]
    BY <1>2, <2>1, SubSeqProperties
  <2> QED BY <1>2, <2>2
<1>5. LineOf(r) = l
  <2>1. ~Contains(l, NUL)
    <3> HIDE DEF l
    <3> QED BY <1>2, <1>4 DEF Contains
  <2> HIDE DEF l
  <2> QED BY <2>1 DEF LineOf, l
<1>6. RestOf(r) \in Seq(T) /\ Len(RestOf(r)) = Len(r) - Taken(r) /\ \A i \in 1..(Len(r) - Taken(r)) : RestOf(r)[i] = r[Taken(r) + i]
  <2>1. \A i \in (Taken(r) + 1)..Len(r) : r[i] \in T
    BY <1>2, <1>3
  <2>2. RestOf(r) = SubSeq(r, Taken(r) + 1, Len(r))
    BY DEF RestOf
  <2> DEFINE m == Taken(r) + 1
             u == SubSeq(r, m, Len(r))
  <2>3. m \in Int /\ m - 1 = Taken(r) /\ Len(r) \in Int
    BY <1>0, <1>2
  <2> HIDE DEF m
  <2>4. /\ u \in Seq(T) /\ Len(u) = (IF m <= Len(r) THEN (Len(r) - m) + 1 ELSE 0)
        /\ \A i \in 1..((Len(r) - m) + 1) : u[i] = r[(m + i) - 1]
    <3>1. \A i \in m..Len(r) : r[i] \in T
      BY <2>1 DEF m
    <3> QED BY <2>3, <3>1, SubSeqProperties
  <2> HIDE DEF u
  <2>5. u \in Seq(T) /\ Len(u) = Len(r) - Taken(r) /\ \A i \in 1..(Len(r) - Taken(r)) : u[i] = r[Taken(r) + i]
    <3>1. (Len(r) - m) + 1 = Len(r) - Taken(r) /\ Taken(r) \in Int
      BY <1>0, <1>2, <2>3
    <3>2. Len(u) = Len(r) - Taken(r)
      BY <1>0, <1>2, <2>3, <2>4
    <3>3. ASSUME NEW i \in 1..(Len(r) - Taken(r)) PROVE u[i] = r[Taken(r) + i]
      <4>1. (m + i) - 1 = Taken(r) + i
        BY <2>3, <3>1
      <4>2. u[i] = r[(m + i) - 1]
        BY <2>4, <3>1
      <4> QED BY <4>1, <4>2
    <3> QED BY <2>4, <3>2, <3>3
  <2> QED BY <2>2, <2>5 DEF u, m
<1> HIDE DEF l
<1> QED BY <1>2, <1>4, <1>5, <1>6

-----------------------------------------------------------------------------
(* What the search keeps.                                                   *)

\* The pattern's first b letters are the last ones of the first n letters of str.
Ends(str, b, n) == \A e \in 1..b : p[e] = str[n - b + e]

\* b is the length of the longest proper prefix of the first n letters that ends them.
Longest(b, n) ==
  b \in 0..(n - 1) /\ Ends(p, b, n) /\ \A a \in (b + 1)..(n - 1) : ~Ends(p, a, n)

\* The first b letters of the pattern end the first n of str, and no longer prefix, of
\* most letters at most, does so and goes on as str does.
Held(str, b, n, most) ==
  /\ b \in 0..most /\ Ends(str, b, n)
  /\ \A a \in (b + 1)..most : Ends(str, a, n) => Char(p, a) # Char(str, n)

\* The longest prefix KMP may hold after q letters: the whole pattern would be a find.
Top == IF q < Len(p) THEN q ELSE Len(p) - 1

FirstAt(i) == i \in 0..Len(s) /\ Starts(i) /\ \A h \in 0..(i - 1) : ~Starts(h)

KmpTypeOK ==
  /\ s \in Seq(Letters) /\ p \in Seq(Letters)
  /\ k \in Int /\ q \in Nat /\ found \in Int /\ kmp \in {"get_next", "KMP", "done"}

NextIsRight ==
  /\ DOMAIN next = IF kmp = "get_next" THEN 0..(q - 1) ELSE 0..Len(p)
  /\ \A n \in DOMAIN next : n < Len(p) => Longest(next[n] + 1, n + 1) /\ next[n] \in Int

GetNextInv ==
  kmp = "get_next" =>
    /\ q \in 1..(Len(p) + 1)
    /\ IF q <= Len(p) THEN Held(p, k + 1, q, q - 1) ELSE k = -1

SearchInv ==
  kmp = "KMP" =>
    /\ q \in 0..Len(s)
    /\ IF p = <<>> THEN k = -1 /\ q = 0
                   ELSE /\ Held(s, k + 1, q, Top)
                        /\ \A i \in 0..(q - Len(p)) : ~Starts(i)

FoundInv ==
  IF kmp # "done" THEN found = -1
  ELSE IF p = <<>> THEN found = (IF s = <<>> THEN -1 ELSE 1)
  ELSE FirstAt(found) \/ (found = -1 /\ \A i \in 0..Len(s) : ~Starts(i))

KmpInv == KmpTypeOK /\ NextIsRight /\ GetNextInv /\ SearchInv /\ FoundInv

-----------------------------------------------------------------------------
(* Prefixes and ends.                                                       *)

\* A prefix that ends the text, as the modules of sequences say it.
LEMMA EndsIsSuffix ==
  ASSUME p \in Seq(Letters), NEW n \in 1..Len(p), NEW a \in 0..(n - 1)
  PROVE  /\ IsPrefix(SubSeq(p, 1, a), p)
         /\ IsSuffix(SubSeq(p, 1, a), SubSeq(p, 1, n)) <=> Ends(p, a, n)
<1> DEFINE u == SubSeq(p, 1, a)
           v == SubSeq(p, 1, n)
<1>0. Len(p) \in Nat /\ n \in Nat /\ a \in Nat /\ n <= Len(p) /\ a < n
  BY LenProperties
<1>1. Len(u) = a /\ Len(v) = n /\ u \in Seq(Letters) /\ v \in Seq(Letters)
  BY <1>0, SubSeqProperties
<1>2. (\A e \in 1..a : u[e] = p[e]) /\ (\A e \in 1..n : v[e] = p[e])
  BY <1>0, SubSeqProperties
<1>3. IsPrefix(u, p)
  <2>1. SubSeq(u, 1, Len(u)) = SubSeq(p, 1, Len(u))
    BY <1>0, <1>1, <1>2
  <2> QED BY <1>0, <1>1, <2>1 DEF IsPrefix
<1> DEFINE ru == Reverse(u)
           rv == Reverse(v)
<1>4. /\ Len(ru) = a /\ Len(rv) = n
      /\ ru \in Seq(Letters) /\ rv \in Seq(Letters)
      /\ \A e \in 1..a : ru[e] = u[a - e + 1]
      /\ \A e \in 1..n : rv[e] = v[n - e + 1]
  BY <1>0, <1>1 DEF Reverse
<1>5. /\ Len(SubSeq(ru, 1, a)) = a /\ Len(SubSeq(rv, 1, a)) = a
      /\ SubSeq(ru, 1, a) \in Seq(Letters) /\ SubSeq(rv, 1, a) \in Seq(Letters)
      /\ \A e \in 1..a : SubSeq(ru, 1, a)[e] = ru[e]
      /\ \A e \in 1..a : SubSeq(rv, 1, a)[e] = rv[e]
  BY <1>0, <1>4, SubSeqProperties
<1> HIDE DEF u, v, ru, rv
<1>6. SubSeq(ru, 1, a) = SubSeq(rv, 1, a) <=> \A e \in 1..a : ru[e] = rv[e]
  <2>1. SUFFICES ASSUME \A e \in 1..a : ru[e] = rv[e] PROVE SubSeq(ru, 1, a) = SubSeq(rv, 1, a)
    BY <1>5
  <2> QED BY <1>0, <1>5, <2>1, SeqEqual
<1>7. (\A e \in 1..a : ru[e] = rv[e]) <=> Ends(p, a, n)
  <2>1. ASSUME NEW e \in 1..a PROVE ru[e] = p[a - e + 1] /\ rv[e] = p[n - e + 1]
    <3>1. e \in 1..n /\ a - e + 1 \in 1..a /\ n - e + 1 \in 1..n
      BY <1>0
    <3>2. ru[e] = u[a - e + 1] /\ rv[e] = v[n - e + 1]
      BY <1>4, <3>1
    <3> QED BY <1>2, <3>1, <3>2
  <2>2. ASSUME \A e \in 1..a : ru[e] = rv[e], NEW y \in 1..a PROVE p[y] = p[n - a + y]
    <3>1. a - y + 1 \in 1..a /\ a - (a - y + 1) + 1 = y /\ n - (a - y + 1) + 1 = n - a + y
      BY <1>0
    <3> QED BY <2>1, <2>2, <3>1
  <2>3. ASSUME Ends(p, a, n), NEW y \in 1..a PROVE ru[y] = rv[y]
    <3>1. a - y + 1 \in 1..a /\ n - a + (a - y + 1) = n - y + 1
      BY <1>0
    <3> QED BY <2>1, <2>3, <3>1 DEF Ends
  <2> QED BY <2>2, <2>3 DEF Ends
<1>8. IsSuffix(u, v) <=> Ends(p, a, n)
  BY <1>0, <1>4, <1>6, <1>7 DEF IsSuffix, IsPrefix, ru, rv
<1> QED BY <1>3, <1>8 DEF u, v

\* The longest border is the one of the property.
LEMMA LongestIsBorder ==
  ASSUME p \in Seq(Letters), NEW n \in 1..Len(p), NEW b \in Int, Longest(b, n)
  PROVE  Border(n) = b
<1> DEFINE Is(c) == /\ IsPrefix(SubSeq(p, 1, c), p) /\ IsSuffix(SubSeq(p, 1, c), SubSeq(p, 1, n))
                    /\ \A a \in (c + 1)..(n - 1) : ~IsSuffix(SubSeq(p, 1, a), SubSeq(p, 1, n))
<1>0. n \in Nat /\ Len(p) \in Nat /\ b \in 0..(n - 1)
  BY LenProperties DEF Longest
<1>1. ASSUME NEW c \in 0..(n - 1) PROVE Is(c) <=> Longest(c, n)
  <2>1. \A a \in (c + 1)..(n - 1) : a \in 0..(n - 1)
    BY <1>0
  <2> QED BY <1>1, <2>1, EndsIsSuffix DEF Longest
<1>2. ASSUME NEW c \in 0..(n - 1), Longest(c, n) PROVE c = b
  BY <1>0, <1>2 DEF Longest
<1>3. Is(b) /\ \A c \in 0..(n - 1) : Is(c) => c = b
  BY <1>0, <1>1, <1>2
<1>4. Border(n) = CHOOSE c \in 0..(n - 1) : Is(c)
  BY DEF Border
<1> HIDE DEF Is
<1> QED BY <1>0, <1>3, <1>4

\* A place where the pattern is found.
LEMMA EndsIsStart ==
  ASSUME p \in Seq(Letters), s \in Seq(Letters), NEW i \in Int, 0 <= i
  PROVE  Starts(i) <=> i + Len(p) <= Len(s) /\ Ends(s, Len(p), i + Len(p))
<1>0. Len(p) \in Nat /\ Len(s) \in Nat
  BY LenProperties
<1>1. SUFFICES ASSUME i + Len(p) <= Len(s)
               PROVE  SubSeq(s, i + 1, i + Len(p)) = p <=> Ends(s, Len(p), i + Len(p))
  BY DEF Starts, Stands
<1> DEFINE u == SubSeq(s, i + 1, i + Len(p))
<1>2. u \in Seq(Letters) /\ Len(u) = Len(p) /\ \A e \in 1..Len(p) : u[e] = s[i + e]
  BY <1>0, <1>1
<1> HIDE DEF u
<1>3. u = p <=> \A e \in 1..Len(p) : u[e] = p[e]
  <2>1. SUFFICES ASSUME \A e \in 1..Len(p) : u[e] = p[e] PROVE u = p
    OBVIOUS
  <2> QED BY <1>2, <2>1, SeqEqual
<1>4. Ends(s, Len(p), i + Len(p)) <=> \A e \in 1..Len(p) : p[e] = s[i + e]
  <2>1. \A e \in 1..Len(p) : i + Len(p) - Len(p) + e = i + e
    BY <1>0
  <2> QED BY <2>1 DEF Ends
<1>5. u = p <=> Ends(s, Len(p), i + Len(p))
  <2>1. (\A e \in 1..Len(p) : u[e] = p[e]) <=> \A e \in 1..Len(p) : p[e] = s[i + e]
    BY <1>2
  <2> QED BY <1>3, <1>4, <2>1
<1> QED BY <1>5 DEF u

-----------------------------------------------------------------------------
(* The two moves of k.                                                      *)

\* Falling back loses no prefix that may still grow: one that is shorter than k and ends
\* the text ends the first k letters of the pattern.
LEMMA FallsBack ==
  ASSUME p \in Seq(Letters), NEW str, NEW n \in Nat, NEW most \in Nat, most <= n,
         NEW b \in Nat, Held(str, b, n, most), Char(p, b) # Char(str, n),
         NEW d \in Int, Longest(d, b)
  PROVE  Held(str, d, n, most) /\ d < b
<1>1. d \in 0..(b - 1) /\ b \in 0..most /\ d \in Nat /\ d <= most
  BY DEF Longest, Held
<1>2. Ends(str, d, n)
  <2> SUFFICES ASSUME NEW e \in 1..d PROVE p[e] = str[n - d + e]
    BY DEF Ends
  <2>1. p[e] = p[b - d + e]
    BY DEF Ends, Longest
  <2>2. b - d + e \in 1..b /\ n - b + (b - d + e) = n - d + e
    BY <1>1
  <2>3. p[b - d + e] = str[n - b + (b - d + e)]
    BY <2>2 DEF Ends, Held
  <2> QED BY <2>1, <2>2, <2>3
<1>3. ASSUME NEW a \in (d + 1)..most, Ends(str, a, n) PROVE Char(p, a) # Char(str, n)
  <2>1. CASE a > b
    BY <1>1, <1>3, <2>1 DEF Held
  <2>2. CASE a = b
    BY <2>2
  <2>3. CASE a < b
    <3>1. a \in (d + 1)..(b - 1)
      BY <1>1, <2>3
    <3>2. Ends(p, a, b)
      <4> SUFFICES ASSUME NEW e \in 1..a PROVE p[e] = p[b - a + e]
        BY DEF Ends
      <4>1. p[e] = str[n - a + e]
        BY <1>3 DEF Ends
      <4>2. b - a + e \in 1..b /\ n - b + (b - a + e) = n - a + e
        BY <1>1, <3>1
      <4>3. p[b - a + e] = str[n - b + (b - a + e)]
        BY <4>2 DEF Ends, Held
      <4> QED BY <4>1, <4>2, <4>3
    <3> QED BY <3>1, <3>2 DEF Longest
  <2> QED BY <1>1, <2>1, <2>2, <2>3
<1> QED BY <1>1, <1>2, <1>3 DEF Held

\* Going forward with the next letter of the text gives the longest prefix that ends it.
LEMMA GoesForward ==
  ASSUME p \in Seq(Letters), NEW str \in Seq(Letters), NEW n \in Nat, n < Len(str),
         NEW most \in Nat, most <= n, most < Len(p),
         NEW b \in Nat, Held(str, b, n, most), b = 0 \/ Char(p, b) = Char(str, n),
         NEW d, d = IF Char(p, b) = Char(str, n) THEN b + 1 ELSE b
  PROVE  /\ d \in 0..(most + 1) /\ Ends(str, d, n + 1)
         /\ \A a \in (d + 1)..(most + 1) : ~Ends(str, a, n + 1)
<1>0. Len(p) \in Nat /\ Len(str) \in Nat /\ b \in 0..most
  BY LenProperties DEF Held
<1>1. Char(str, n) = str[n + 1]
  BY <1>0 DEF Char
<1>2. \A a \in 0..most : Char(p, a) = p[a + 1]
  BY <1>0 DEF Char
<1>3. ASSUME NEW a \in 1..(most + 1), Ends(str, a, n + 1)
      PROVE  Ends(str, a - 1, n) /\ Char(p, a - 1) = Char(str, n)
  <2>1. p[a] = str[n + 1]
    <3>1. a \in 1..a /\ n + 1 - a + a = n + 1
      BY <1>0
    <3>2. p[a] = str[n + 1 - a + a]
      BY <1>3, <3>1 DEF Ends
    <3> QED BY <3>1, <3>2
  <2>2. Char(p, a - 1) = p[a]
    <3>1. a - 1 \in 0..most /\ a - 1 + 1 = a
      BY <1>0
    <3> QED BY <1>2, <3>1
  <2>3. ASSUME NEW e \in 1..(a - 1) PROVE p[e] = str[n - (a - 1) + e]
    <3>1. e \in 1..a /\ n + 1 - a + e = n - (a - 1) + e
      BY <1>0
    <3>2. p[e] = str[n + 1 - a + e]
      BY <1>3, <3>1 DEF Ends
    <3> QED BY <3>1, <3>2
  <2> QED BY <1>1, <2>1, <2>2, <2>3 DEF Ends
<1>4. \A a \in (b + 2)..(most + 1) : ~Ends(str, a, n + 1)
  <2> SUFFICES ASSUME NEW a \in (b + 2)..(most + 1), Ends(str, a, n + 1) PROVE FALSE
    OBVIOUS
  <2>1. a \in 1..(most + 1) /\ a - 1 \in (b + 1)..most
    BY <1>0
  <2>2. Ends(str, a - 1, n) /\ Char(p, a - 1) = Char(str, n)
    BY <1>3, <2>1
  <2> QED BY <2>1, <2>2 DEF Held
<1>5. CASE Char(p, b) = Char(str, n)
  <2>1. d = b + 1 /\ d \in 0..(most + 1) /\ d + 1 = b + 2
    BY <1>0, <1>5
  <2>2. p[b + 1] = str[n + 1]
    BY <1>0, <1>1, <1>2, <1>5
  <2>3. ASSUME NEW e \in 1..d PROVE p[e] = str[n + 1 - d + e]
    <3>1. n + 1 - d + e = n - b + e
      <4>1. n \in Int /\ b \in Int /\ d \in Int /\ e \in Int /\ d = b + 1
        BY <1>0, <2>1
      <4> QED BY <4>1
    <3>2. CASE e = b + 1
      <4>1. n - b + e = n + 1
        BY <1>0, <3>2
      <4> QED BY <2>2, <3>1, <3>2, <4>1
    <3>3. CASE e # b + 1
      <4>1. e \in 1..b
        BY <1>0, <2>1, <3>3
      <4>2. p[e] = str[n - b + e]
        BY <4>1 DEF Held, Ends
      <4> QED BY <3>1, <4>2
    <3> QED BY <3>2, <3>3
  <2> QED BY <1>4, <2>1, <2>3 DEF Ends
<1>6. CASE Char(p, b) # Char(str, n)
  <2>1. b = 0 /\ d = 0 /\ d \in 0..(most + 1)
    BY <1>0, <1>6
  <2>2. Ends(str, d, n + 1)
    BY <2>1 DEF Ends
  <2>3. ASSUME NEW a \in 1..(most + 1), Ends(str, a, n + 1) PROVE FALSE
    <3>1. Ends(str, a - 1, n) /\ Char(p, a - 1) = Char(str, n)
      BY <1>3, <2>3
    <3>2. CASE a = 1
      <4>1. a - 1 = 0
        BY <3>2
      <4> QED BY <1>6, <2>1, <3>1, <4>1
    <3>3. CASE a # 1
      <4>1. a \in (b + 2)..(most + 1)
        BY <1>0, <2>1, <3>3
      <4> QED BY <1>4, <2>3, <4>1
    <3> QED BY <3>2, <3>3
  <2> QED BY <2>1, <2>2, <2>3
<1> QED BY <1>5, <1>6
-----------------------------------------------------------------------------
(* The invariant.                                                           *)

\* Before its NUL a string has letters.
LEMMA LettersAndNul ==
  ASSUME NEW str \in Seq(Letters)
  PROVE  /\ Char(str, Len(str)) = NUL
         /\ \A i \in 0..(Len(str) - 1) : Char(str, i) \in Letters
<1>1. Len(str) \in Nat /\ \A i \in 0..(Len(str) - 1) : i + 1 \in 1..Len(str) /\ i # Len(str)
  BY LenProperties
<1>2. \A i \in 1..Len(str) : str[i] \in Letters
  BY ElementOfSeq
<1> QED BY <1>1, <1>2 DEF Char

\* Both strings stay what they are, and so does what is said of them.
LEMMA SameStrings ==
  ASSUME s' = s, p' = p
  PROVE  /\ \A b, n : Longest(b, n)' <=> Longest(b, n)
         /\ \A b, n, most : Held(p, b, n, most)' <=> Held(p, b, n, most)
         /\ \A b, n, most : Held(s, b, n, most)' <=> Held(s, b, n, most)
         /\ \A i : Starts(i)' <=> Starts(i)
         /\ \A i : FirstAt(i)' <=> FirstAt(i)
<1>1. \A b, n : Ends(p, b, n)' <=> Ends(p, b, n)
  BY DEF Ends
<1>2. \A b, n : Ends(s, b, n)' <=> Ends(s, b, n)
  BY DEF Ends
<1>3. \A i : Starts(i)' <=> Starts(i)
  BY DEF Starts, Stands
<1> QED BY <1>1, <1>2, <1>3 DEF Longest, Held, Char, FirstAt

\* No letter of the pattern is held when the search begins.
LEMMA NothingHeld ==
  ASSUME NEW str, NEW n \in Nat, NEW most \in Nat, most = 0
  PROVE  Held(str, 0, n, most)
BY DEF Held, Ends

LEMMA KmpInitInv == ASSUME KmpInit PROVE KmpInv
<1>1. s \in Seq(Letters) /\ p \in Seq(Letters)
  BY LinesAssumption DEF KmpInit, SeqOf
<1>2. Len(p) \in Nat
  BY <1>1, LenProperties
<1>3. KmpTypeOK
  BY <1>1 DEF KmpInit, KmpTypeOK
<1>4. NextIsRight
  <2>1. DOMAIN next = {0} /\ next[0] = -1 /\ kmp = "get_next" /\ q = 1
    BY DEF KmpInit
  <2>2. Longest(0, 1)
    BY DEF Longest, Ends
  <2> QED BY <2>1, <2>2 DEF NextIsRight
<1>5. GetNextInv
  <2>1. Held(p, k + 1, q, q - 1)
    BY NothingHeld DEF KmpInit
  <2> QED BY <1>2, <2>1 DEF GetNextInv, KmpInit
<1>6. SearchInv /\ FoundInv
  BY DEF SearchInv, FoundInv, KmpInit
<1> QED BY <1>3, <1>4, <1>5, <1>6 DEF KmpInv

\* A round of get_next that falls back.
LEMMA GetNextBack ==
  ASSUME KmpInv, kmp = "get_next", q <= Len(p), Back(Char(p, q))
  PROVE  KmpInv'
<1> DEFINE b == k + 1
<1>0. k \in Nat /\ q \in Nat /\ Len(p) \in Nat /\ b \in 1..(q - 1) /\ p \in Seq(Letters)
  BY LenProperties DEF KmpInv, KmpTypeOK, GetNextInv, Back, Held
<1>1. k \in DOMAIN next /\ k < Len(p)
  BY <1>0 DEF KmpInv, NextIsRight
<1>2. Longest(next[k] + 1, b) /\ next[k] \in Int
  BY <1>1 DEF KmpInv, NextIsRight
<1>3. Held(p, b, q, q - 1)
  BY DEF KmpInv, GetNextInv
<1>4. Char(p, b) # Char(p, q) /\ k' = next[k] /\ UNCHANGED <<s, p, next, q, kmp, found>>
  BY DEF Back, Fallback
<1>5. Held(p, next[k] + 1, q, q - 1)
  <2>1. q - 1 \in Nat /\ q - 1 <= q /\ b \in Nat /\ next[k] + 1 \in Int
    BY <1>0, <1>2
  <2> HIDE DEF b
  <2> QED BY <1>0, <1>2, <1>3, <1>4, <2>1, FallsBack
<1>6. KmpTypeOK'
  BY <1>2, <1>4 DEF KmpInv, KmpTypeOK
<1>7. NextIsRight'
  BY <1>4, SameStrings DEF KmpInv, NextIsRight
<1>8. GetNextInv'
  BY <1>4, <1>5, SameStrings DEF KmpInv, GetNextInv
<1>9. SearchInv' /\ FoundInv'
  BY <1>4 DEF KmpInv, SearchInv, FoundInv
<1> QED BY <1>6, <1>7, <1>8, <1>9 DEF KmpInv

\* A round of get_next that fills next[q].
LEMMA GetNextFill ==
  ASSUME KmpInv, kmp = "get_next", q <= Len(p), Stays(Char(p, q)),
         k' = Forward(Char(p, q)),
         next' = [i \in DOMAIN next \cup {q} |-> IF i = q THEN k' ELSE next[i]], q' = q + 1,
         UNCHANGED <<s, p, kmp, found>>
  PROVE  KmpInv'
<1> DEFINE b == k + 1
<1>0. q \in Nat /\ q >= 1 /\ Len(p) \in Nat /\ b \in 0..(q - 1) /\ p \in Seq(Letters) /\ k \in Int
  BY LenProperties DEF KmpInv, KmpTypeOK, GetNextInv, Held
<1>1. Held(p, b, q, q - 1)
  BY DEF KmpInv, GetNextInv
<1>2. DOMAIN next = 0..(q - 1)
  BY DEF KmpInv, NextIsRight
<1>3. DOMAIN next' = 0..q /\ next'[q] = k' /\ \A n \in 0..(q - 1) : next'[n] = next[n]
  BY <1>0, <1>2
<1>4. ASSUME q < Len(p)
      PROVE  k' \in Int /\ Longest(k' + 1, q + 1) /\ Held(p, k' + 1, q + 1, q)
  <2> DEFINE d == k' + 1
  <2>1. d = (IF Char(p, b) = Char(p, q) THEN b + 1 ELSE b) /\ (b = 0 \/ Char(p, b) = Char(p, q)) /\ k' \in Int
    BY <1>0 DEF Forward, Stays
  <2>2. q - 1 \in Nat /\ q - 1 <= q /\ q - 1 < Len(p) /\ b \in Nat /\ q - 1 + 1 = q
    BY <1>0
  <2> HIDE DEF b, d
  <2>3. d \in 0..q /\ Ends(p, d, q + 1) /\ \A a \in (d + 1)..q : ~Ends(p, a, q + 1)
    <3>1. /\ d \in 0..(q - 1 + 1) /\ Ends(p, d, q + 1)
          /\ \A a \in (d + 1)..(q - 1 + 1) : ~Ends(p, a, q + 1)
      BY <1>0, <1>1, <1>4, <2>1, <2>2, GoesForward
    <3> QED BY <2>2, <3>1
  <2>4. Longest(d, q + 1) /\ Held(p, d, q + 1, q)
    <3>1. (q + 1) - 1 = q
      BY <1>0
    <3>2. Longest(d, q + 1)
      BY <2>3, <3>1, Zenon DEF Longest
    <3>3. Held(p, d, q + 1, q)
      BY <2>3, Zenon DEF Held
    <3> QED BY <3>2, <3>3
  <2> QED BY <2>1, <2>4 DEF d
<1>5. ASSUME q = Len(p) PROVE k' = -1
  <2>1. Char(p, q) = NUL
    BY <1>0, <1>5, LettersAndNul
  <2>2. b \in 0..(Len(p) - 1)
    BY <1>0, <1>5
  <2>3. Char(p, b) # NUL
    BY <1>0, <2>2, LettersAndNul, LinesAssumption
  <2> QED BY <2>1, <2>3 DEF Forward, Stays
<1>6. k' \in Int
  BY <1>0, <1>4, <1>5
<1>7. KmpTypeOK'
  BY <1>0, <1>6 DEF KmpInv, KmpTypeOK
<1>8. NextIsRight'
  <2>1. DOMAIN next' = 0..(q' - 1)
    BY <1>0, <1>3
  <2>2. ASSUME NEW n \in DOMAIN next', n < Len(p)
        PROVE  Longest(next'[n] + 1, n + 1) /\ next'[n] \in Int
    <3>1. CASE n = q
      BY <1>3, <1>4, <2>2, <3>1
    <3>2. CASE n # q
      <4>1. n \in 0..(q - 1)
        BY <1>0, <1>3, <3>2
      <4> QED BY <1>2, <1>3, <2>2, <4>1 DEF KmpInv, NextIsRight
    <3> QED BY <3>1, <3>2
  <2> QED BY <2>1, <2>2, SameStrings DEF NextIsRight
<1>9. GetNextInv'
  <2>1. q' \in 1..(Len(p') + 1)
    BY <1>0
  <2>2. CASE q < Len(p)
    <3>1. q' - 1 = q /\ q' <= Len(p')
      BY <1>0, <2>2
    <3>2. Held(p, k + 1, q, q - 1)'
      BY <1>4, <2>2, <3>1, SameStrings
    <3> QED BY <2>1, <3>1, <3>2 DEF GetNextInv
  <2>3. CASE q = Len(p)
    BY <1>0, <1>5, <2>1, <2>3 DEF GetNextInv
  <2> QED BY <1>0, <2>2, <2>3
<1>10. SearchInv' /\ FoundInv'
  BY DEF KmpInv, SearchInv, FoundInv
<1> QED BY <1>7, <1>8, <1>9, <1>10 DEF KmpInv

\* get_next returns and KMP begins.
LEMMA SearchBegins ==
  ASSUME KmpInv, kmp = "get_next", q > Len(p), kmp' = "KMP", k' = -1, q' = 0,
         UNCHANGED <<s, p, next, found>>
  PROVE  KmpInv'
<1>0. Len(p) \in Nat /\ Len(s) \in Nat /\ q = Len(p) + 1
  BY LenProperties DEF KmpInv, KmpTypeOK, GetNextInv
<1>1. KmpTypeOK'
  BY DEF KmpInv, KmpTypeOK
<1>2. NextIsRight'
  BY <1>0, SameStrings DEF KmpInv, NextIsRight
<1>3. SearchInv'
  <2>1. ASSUME p # <<>> PROVE Top' = 0 /\ 0 - Len(p) < 0
    <3>1. Len(p) # 0
      BY <2>1, EmptySeq DEF KmpInv, KmpTypeOK
    <3> QED BY <1>0, <3>1 DEF Top
  <2>2. ASSUME p # <<>> PROVE Held(s, k + 1, q, Top)'
    <3>1. Held(s, 0, 0, 0)
      BY NothingHeld
    <3> QED BY <2>1, <2>2, <3>1, SameStrings
  <2>3. ASSUME p # <<>> PROVE \A i \in 0..(q' - Len(p')) : ~Starts(i)'
    BY <1>0, <2>1, <2>3
  <2> QED BY <1>0, <2>2, <2>3 DEF SearchInv
<1>4. GetNextInv' /\ FoundInv'
  BY DEF KmpInv, GetNextInv, FoundInv
<1> QED BY <1>1, <1>2, <1>3, <1>4 DEF KmpInv
\* The bounds of a search for a pattern that is not empty.
LEMMA TopBounds ==
  ASSUME KmpTypeOK, p # <<>>
  PROVE  /\ Len(p) \in Nat \ {0} /\ Top \in Nat /\ Top <= q /\ Top < Len(p)
         /\ Top + 1 <= Len(p) /\ (q >= Len(p) - 1 => Top + 1 = Len(p)) /\ (q < Len(p) => Top = q)
<1>1. Len(p) \in Nat \ {0} /\ q \in Nat
  BY EmptySeq, LenProperties DEF KmpTypeOK
<1> QED BY <1>1 DEF Top

\* A round of KMP that falls back.
LEMMA SearchBack ==
  ASSUME KmpInv, kmp = "KMP", q < Len(s), Back(Char(s, q))
  PROVE  KmpInv'
<1> DEFINE b == k + 1
<1>0. /\ p # <<>> /\ k \in Nat /\ q \in Nat /\ b \in Nat /\ b \in 1..Top
      /\ Held(s, b, q, Top) /\ p \in Seq(Letters)
  BY DEF KmpInv, KmpTypeOK, SearchInv, Back, Held
<1>1. Len(p) \in Nat /\ Top \in Nat /\ Top <= q /\ Top < Len(p)
  BY <1>0, TopBounds DEF KmpInv
<1>2. Longest(next[k] + 1, b) /\ next[k] \in Int
  <2>1. k \in DOMAIN next /\ k < Len(p)
    BY <1>0, <1>1 DEF KmpInv, NextIsRight
  <2> QED BY <2>1 DEF KmpInv, NextIsRight
<1>3. Char(p, b) # Char(s, q) /\ k' = next[k] /\ UNCHANGED <<s, p, next, q, kmp, found>>
  BY DEF Back, Fallback
<1>4. Held(s, next[k] + 1, q, Top)
  <2>1. next[k] + 1 \in Int
    BY <1>2
  <2> HIDE DEF b
  <2> QED BY <1>0, <1>1, <1>2, <1>3, <2>1, FallsBack
<1>5. KmpTypeOK'
  BY <1>2, <1>3 DEF KmpInv, KmpTypeOK
<1>6. NextIsRight'
  BY <1>3, SameStrings DEF KmpInv, NextIsRight
<1>7. SearchInv'
  <2>1. Top' = Top
    BY <1>3 DEF Top
  <2>2. Held(s, k + 1, q, Top)'
    BY <1>3, <1>4, <2>1, SameStrings
  <2> QED BY <1>0, <1>3, <2>2, SameStrings DEF KmpInv, SearchInv
<1>8. GetNextInv' /\ FoundInv'
  BY <1>3 DEF KmpInv, GetNextInv, FoundInv
<1> QED BY <1>5, <1>6, <1>7, <1>8 DEF KmpInv

\* What a round of KMP that goes forward knows: the longest prefix that ends the text with
\* its letter, and with it whether the pattern starts at the place it would have begun at.
LEMMA SearchKnows ==
  ASSUME KmpInv, kmp = "KMP", q < Len(s), Stays(Char(s, q)), p # <<>>,
         NEW d, d = Forward(Char(s, q)) + 1
  PROVE  /\ d \in 0..(Top + 1) /\ Ends(s, d, q + 1)
         /\ \A a \in (d + 1)..(Top + 1) : ~Ends(s, a, q + 1)
         /\ (q + 1) - Len(p) >= 0 => (Starts((q + 1) - Len(p)) <=> d = Len(p))
<1> DEFINE b == k + 1
<1>0. /\ k \in Int /\ q \in Nat /\ Len(s) \in Nat /\ Held(s, b, q, Top)
      /\ p \in Seq(Letters) /\ s \in Seq(Letters)
  BY LenProperties DEF KmpInv, KmpTypeOK, SearchInv
<1>1. Len(p) \in Nat \ {0} /\ Top \in Nat /\ Top <= q /\ Top < Len(p) /\ b \in Nat /\ b <= Top
  BY <1>0, TopBounds DEF KmpInv, Held
<1>2. d = (IF Char(p, b) = Char(s, q) THEN b + 1 ELSE b) /\ (b = 0 \/ Char(p, b) = Char(s, q))
  BY <1>0 DEF Forward, Stays
<1> HIDE DEF b
<1>3. d \in 0..(Top + 1) /\ Ends(s, d, q + 1) /\ \A a \in (d + 1)..(Top + 1) : ~Ends(s, a, q + 1)
  BY <1>0, <1>1, <1>2, GoesForward
<1>4. ASSUME (q + 1) - Len(p) >= 0 PROVE Starts((q + 1) - Len(p)) <=> d = Len(p)
  <2>1. Top + 1 = Len(p)
    BY <1>0, <1>1, <1>4, TopBounds DEF KmpInv
  <2>2. /\ (q + 1) - Len(p) \in Int /\ 0 <= (q + 1) - Len(p)
        /\ (q + 1) - Len(p) + Len(p) = q + 1 /\ q + 1 <= Len(s)
    BY <1>0, <1>1, <1>4
  <2>3. Starts((q + 1) - Len(p)) <=> Ends(s, Len(p), q + 1)
    <3> DEFINE i == (q + 1) - Len(p)
    <3>1. i \in Int /\ 0 <= i /\ i + Len(p) = q + 1
      BY <2>2
    <3> HIDE DEF i
    <3>2. Starts(i) <=> Ends(s, Len(p), q + 1)
      BY <1>0, <2>2, <3>1, EndsIsStart
    <3> QED BY <3>2 DEF i
  <2>4. d # Len(p) => Len(p) \in (d + 1)..(Top + 1)
    BY <1>1, <1>3, <2>1
  <2> QED BY <1>3, <2>3, <2>4
<1> QED BY <1>3, <1>4

\* A round of KMP that goes forward and does not find.
LEMMA SearchForward ==
  ASSUME KmpInv, kmp = "KMP", q < Len(s), Stays(Char(s, q)), k' = Forward(Char(s, q)),
         k' # Len(p) - 1, q' = q + 1, UNCHANGED <<s, p, next, kmp, found>>
  PROVE  KmpInv'
<1> DEFINE d == k' + 1
<1>0. k \in Int /\ q \in Nat /\ Len(s) \in Nat /\ s \in Seq(Letters) /\ Len(p) \in Nat
  BY LenProperties DEF KmpInv, KmpTypeOK
<1>1. k' \in Int
  BY <1>0 DEF Forward
<1>2. p # <<>>
  <2> SUFFICES ASSUME p = <<>>, k = -1 PROVE FALSE
    BY DEF KmpInv, SearchInv
  <2>1. Char(p, k + 1) = NUL
    BY DEF Char
  <2>2. q \in 0..(Len(s) - 1)
    BY <1>0
  <2>3. Char(s, q) # NUL
    BY <1>0, <2>2, LettersAndNul, LinesAssumption
  <2> QED BY <2>1, <2>3 DEF Forward
<1>3. /\ d \in 0..(Top + 1) /\ Ends(s, d, q + 1)
      /\ \A a \in (d + 1)..(Top + 1) : ~Ends(s, a, q + 1)
      /\ (q + 1) - Len(p) >= 0 => ~Starts((q + 1) - Len(p))
  <2>1. d # Len(p)
    BY <1>0, <1>1
  <2> HIDE DEF d
  <2> QED BY <1>2, <2>1, SearchKnows DEF d
<1>4. Len(p) \in Nat \ {0} /\ Top \in Nat /\ Top <= q /\ Top < Len(p) /\ Top + 1 <= Len(p)
  BY <1>2, TopBounds DEF KmpInv
<1>5. KmpTypeOK'
  BY <1>0, <1>1 DEF KmpInv, KmpTypeOK
<1>6. NextIsRight'
  BY SameStrings DEF KmpInv, NextIsRight
<1>7. SearchInv'
  <2>1. Held(s, k + 1, q, Top)'
    <3> DEFINE u == Top'
    <3>1. u \in Nat /\ u <= Top + 1 /\ u < Len(p) /\ (u = Top + 1 \/ u = Len(p) - 1)
      BY <1>0, <1>4 DEF Top
    <3>2. d \in 0..u
      BY <1>0, <1>1, <1>3, <1>4, <3>1
    <3> HIDE DEF u
    <3>3. \A a \in (d + 1)..u : a \in (d + 1)..(Top + 1)
      BY <1>1, <1>4, <3>1
    <3>4. Held(s, d, q + 1, u)
      BY <1>3, <3>2, <3>3 DEF Held
    <3> QED BY <3>4, SameStrings DEF u
  <2>2. \A i \in 0..(q' - Len(p')) : ~Starts(i)'
    <3> SUFFICES ASSUME NEW i \in 0..((q + 1) - Len(p)) PROVE ~Starts(i)
      BY SameStrings
    <3>1. CASE i = (q + 1) - Len(p)
      BY <1>3, <3>1
    <3>2. CASE i # (q + 1) - Len(p)
      <4>1. i \in 0..(q - Len(p))
        BY <1>0, <3>2
      <4> QED BY <1>2, <4>1 DEF KmpInv, SearchInv
    <3> QED BY <3>1, <3>2
  <2>3. q' \in 0..Len(s')
    BY <1>0
  <2> QED BY <1>2, <2>1, <2>2, <2>3 DEF SearchInv
<1>8. GetNextInv' /\ FoundInv'
  BY DEF KmpInv, GetNextInv, FoundInv
<1> QED BY <1>5, <1>6, <1>7, <1>8 DEF KmpInv

\* The round of KMP that finds the pattern.
LEMMA SearchFinds ==
  ASSUME KmpInv, kmp = "KMP", q < Len(s), Stays(Char(s, q)), k' = Forward(Char(s, q)),
         k' = Len(p) - 1, kmp' = "done", found' = q - Len(p) + 1, UNCHANGED <<s, p, next, q>>
  PROVE  KmpInv'
<1>0. k \in Int /\ q \in Nat /\ Len(s) \in Nat /\ s \in Seq(Letters) /\ Len(p) \in Nat
  BY LenProperties DEF KmpInv, KmpTypeOK
<1>1. KmpTypeOK'
  BY <1>0 DEF KmpInv, KmpTypeOK
<1>2. NextIsRight'
  BY SameStrings DEF KmpInv, NextIsRight
<1>3. FoundInv'
  <2>1. CASE p = <<>>
    <3>1. q = 0 /\ Len(p) = 0 /\ s # <<>>
      BY <1>0, <2>1 DEF KmpInv, SearchInv
    <3> QED BY <2>1, <3>1 DEF FoundInv
  <2>2. CASE p # <<>>
    <3>1. Len(p) \in Nat \ {0} /\ Top \in Nat /\ Top + 1 <= Len(p) /\ (q < Len(p) => Top = q)
      BY <2>2, TopBounds DEF KmpInv
    <3> DEFINE d == k' + 1
               i == (q + 1) - Len(p)
    <3>2. d = Len(p) /\ d \in 0..(Top + 1) /\ (i >= 0 => Starts(i))
      <4>1. d = Forward(Char(s, q)) + 1 /\ d = Len(p)
        BY <1>0
      <4> HIDE DEF d
      <4> QED BY <2>2, <4>1, SearchKnows
    <3>3. i \in 0..Len(s) /\ found' = i
      BY <1>0, <3>1, <3>2
    <3>4. \A h \in 0..(i - 1) : ~Starts(h)
      <4>1. \A h \in 0..(i - 1) : h \in 0..(q - Len(p))
        BY <1>0
      <4> QED BY <2>2, <4>1 DEF KmpInv, SearchInv
    <3> HIDE DEF i
    <3>5. FirstAt(i)
      BY <3>2, <3>3, <3>4 DEF FirstAt
    <3> QED BY <2>2, <3>3, <3>5, SameStrings DEF FoundInv
  <2> QED BY <2>1, <2>2
<1>4. GetNextInv' /\ SearchInv'
  BY DEF GetNextInv, SearchInv
<1> QED BY <1>1, <1>2, <1>3, <1>4 DEF KmpInv

\* The text has ended.
LEMMA SearchEnds ==
  ASSUME KmpInv, kmp = "KMP", q = Len(s), kmp' = "done", UNCHANGED <<s, p, next, k, q, found>>
  PROVE  KmpInv'
<1>0. q \in Nat /\ Len(s) \in Nat /\ Len(p) \in Nat /\ p \in Seq(Letters) /\ s \in Seq(Letters) /\ found = -1
  BY LenProperties DEF KmpInv, KmpTypeOK, FoundInv
<1>1. KmpTypeOK'
  BY DEF KmpInv, KmpTypeOK
<1>2. NextIsRight'
  BY SameStrings DEF KmpInv, NextIsRight
<1>3. FoundInv'
  <2>1. CASE p = <<>>
    <3>1. s = <<>>
      BY <1>0, <2>1, EmptySeq DEF KmpInv, SearchInv
    <3> QED BY <1>0, <2>1, <3>1 DEF FoundInv
  <2>2. CASE p # <<>>
    <3>1. ASSUME NEW i \in 0..Len(s) PROVE ~Starts(i)
      <4>1. CASE i + Len(p) <= Len(s)
        <5>1. i \in 0..(q - Len(p))
          BY <1>0, <4>1
        <5> QED BY <2>2, <5>1 DEF KmpInv, SearchInv
      <4>2. CASE ~(i + Len(p) <= Len(s))
        BY <4>2 DEF Starts, Stands
      <4> QED BY <4>1, <4>2
    <3> QED BY <1>0, <2>2, <3>1, SameStrings DEF FoundInv
  <2> QED BY <2>1, <2>2
<1>4. GetNextInv' /\ SearchInv'
  BY DEF GetNextInv, SearchInv
<1> QED BY <1>1, <1>2, <1>3, <1>4 DEF KmpInv

LEMMA KmpStep ==
  ASSUME KmpInv, [KmpNext]_kmpVars
  PROVE  KmpInv'
<1>1. CASE GetNext
  BY <1>1, GetNextBack, GetNextFill, SearchBegins DEF GetNext
<1>2. CASE KMP
  <2>1. CASE q < Len(s) /\ Back(Char(s, q))
    BY <1>2, <2>1, SearchBack DEF KMP
  <2>2. CASE /\ q < Len(s) /\ Stays(Char(s, q)) /\ k' = Forward(Char(s, q))
             /\ IF k' = Len(p) - 1 THEN kmp' = "done" /\ found' = q - Len(p) + 1 /\ UNCHANGED q
                                   ELSE q' = q + 1 /\ UNCHANGED <<kmp, found>>
             /\ UNCHANGED <<s, p, next>>
    <3>1. CASE k' = Len(p) - 1
      BY <1>2, <2>2, <3>1, SearchFinds DEF KMP
    <3>2. CASE k' # Len(p) - 1
      BY <1>2, <2>2, <3>2, SearchForward DEF KMP
    <3> QED BY <3>1, <3>2
  <2>3. CASE q = Len(s) /\ kmp' = "done" /\ UNCHANGED <<s, p, next, k, q, found>>
    BY <1>2, <2>3, SearchEnds DEF KMP
  <2> QED BY <1>2, <2>1, <2>2, <2>3 DEF KMP
<1>3. CASE UNCHANGED kmpVars
  <2>1. s' = s /\ p' = p /\ next' = next /\ k' = k /\ q' = q /\ kmp' = kmp /\ found' = found
    BY <1>3 DEF kmpVars
  <2>2. Top' = Top
    BY <2>1 DEF Top
  <2>3. KmpTypeOK' /\ NextIsRight' /\ GetNextInv'
    BY <2>1, SameStrings DEF KmpInv, KmpTypeOK, NextIsRight, GetNextInv
  <2>4. SearchInv' /\ FoundInv'
    BY <2>1, <2>2, SameStrings DEF KmpInv, SearchInv, FoundInv
  <2> QED BY <2>3, <2>4 DEF KmpInv
<1> QED BY <1>1, <1>2, <1>3 DEF KmpNext

-----------------------------------------------------------------------------
\* What the invariant says of the result is what the property says.
LEMMA KmpInvFinds == KmpInv => KmpFinds
<1> SUFFICES ASSUME KmpInv PROVE KmpFinds
  OBVIOUS
<1>0. /\ p \in Seq(Letters) /\ s \in Seq(Letters) /\ Len(p) \in Nat /\ Len(s) \in Nat
      /\ k \in Int /\ q \in Nat /\ kmp \in {"get_next", "KMP", "done"}
  BY LenProperties DEF KmpInv, KmpTypeOK
<1>1. ASSUME NEW n \in DOMAIN next, n < Len(p) PROVE next[n] = Border(n + 1) - 1
  <2>1. n \in Nat /\ n + 1 \in 1..Len(p)
    BY <1>0, <1>1 DEF KmpInv, NextIsRight
  <2>2. Longest(next[n] + 1, n + 1) /\ next[n] \in Int /\ next[n] + 1 \in Int
    BY <1>1 DEF KmpInv, NextIsRight
  <2>3. Border(n + 1) = next[n] + 1
    BY <1>0, <2>1, <2>2, LongestIsBorder
  <2> QED BY <2>2, <2>3
<1>2. ASSUME kmp # "done" PROVE k + 1 \in 0..Len(p)
  <2>1. CASE kmp = "get_next"
    BY <1>0, <2>1 DEF KmpInv, GetNextInv, Held
  <2>2. CASE kmp = "KMP" /\ p # <<>>
    BY <1>0, <2>2, TopBounds DEF KmpInv, SearchInv, Held
  <2>3. CASE kmp = "KMP" /\ p = <<>>
    BY <1>0, <2>3 DEF KmpInv, SearchInv
  <2> QED BY <1>0, <1>2, <2>1, <2>2, <2>3
<1>3. ASSUME kmp = "done"
      PROVE  found = IF p = <<>> THEN (IF s = <<>> THEN -1 ELSE 1)
                     ELSE IF \A i \in 0..Len(s) : ~Starts(i) THEN -1
                     ELSE CHOOSE i \in 0..Len(s) : Starts(i) /\ \A h \in 0..(i - 1) : ~Starts(h)
  <2>1. CASE p = <<>>
    BY <1>3, <2>1 DEF KmpInv, FoundInv
  <2>2. CASE p # <<>> /\ \A i \in 0..Len(s) : ~Starts(i)
    BY <1>3, <2>2 DEF KmpInv, FoundInv, FirstAt
  <2>3. CASE p # <<>> /\ ~\A i \in 0..Len(s) : ~Starts(i)
    <3> DEFINE First(i) == Starts(i) /\ \A h \in 0..(i - 1) : ~Starts(h)
    <3>1. found \in 0..Len(s) /\ First(found)
      BY <1>3, <2>3 DEF KmpInv, FoundInv, FirstAt
    <3>2. ASSUME NEW i \in 0..Len(s), First(i) PROVE i = found
      <4>1. ~(i < found)
        BY <1>0, <3>1, <3>2
      <4>2. ~(found < i)
        BY <1>0, <3>1, <3>2
      <4> QED BY <1>0, <3>1, <4>1, <4>2
    <3> HIDE DEF First
    <3>3. found = CHOOSE i \in 0..Len(s) : First(i)
      BY <3>1, <3>2
    <3> QED BY <2>3, <3>3 DEF First
  <2> QED BY <2>1, <2>2, <2>3
<1> QED BY <1>1, <1>2, <1>3 DEF KmpFinds

\* Whatever the alphabet and however long the two strings, get_next finds the longest
\* border of every prefix of the pattern and KMP the first place of the pattern.
THEOREM FirstPlace == KmpSpec => []KmpFinds
<1>1. KmpInit => KmpInv
  BY KmpInitInv
<1>2. KmpInv /\ [KmpNext]_kmpVars => KmpInv'
  BY KmpStep
<1>3. KmpInv => KmpFinds
  BY KmpInvFinds
<1> QED BY <1>1, <1>2, <1>3, PTL DEF KmpSpec

-----------------------------------------------------------------------------
(* The lines of a file that contain a word.                                 *)

Chars == Letters \cup {NL, NUL}

WgrepTypeOK ==
  /\ data \in Seq(Chars) /\ rest \in Seq(Chars) /\ line \in Seq(Chars) /\ word \in Seq(Letters)
  /\ out \in Seq(Nat) /\ no \in Nat /\ x \in Nat /\ j \in Nat /\ at \in {"fgets", "search", "end"}

\* What was compared agrees, and the word stands at no place that was passed over.
Searching ==
  /\ j <= Len(word) /\ j <= x /\ x <= Len(line)
  /\ \A e \in 1..j : line[temp + e] = word[e]
  /\ \A h \in 0..(temp - 1) : ~Stands(word, line, h)
  /\ temp = 0 \/ temp + Len(word) <= Len(line)

Clean == (\A i \in 1..Len(data) : data[i] # NUL) /\ LinesFit

\* Where the line begins that is searched or to be read next.
Begin == IF at = "search" THEN (Len(data) - Len(rest)) - Len(line) ELSE Len(data) - Len(rest)

LinesWithWord(n) == {LineNo(i) : i \in {h \in 0..(n - 1) : Stands(word, data, h)}}

Increasing == \A m, n \in 1..Len(out) : m < n => out[m] < out[n]

\* What was read and printed so far.
Reading ==
  /\ Len(rest) <= Len(data) /\ \A i \in 1..Len(rest) : rest[i] = data[(Len(data) - Len(rest)) + i]
  /\ Begin \in Nat /\ ToSet(out) = LinesWithWord(Begin)
  /\ Increasing /\ \A m \in 1..Len(out) : out[m] < no
  /\ at = "fgets" /\ rest # <<>> => no = LineNo(Begin)
  /\ at = "search" =>
       /\ no = LineNo(Begin) /\ line # <<>>
       /\ \A i \in 1..Len(line) : line[i] = data[Begin + i]
       /\ \A i \in 1..(Len(line) - 1) : line[i] # NL
       /\ rest # <<>> => line[Len(line)] = NL
  /\ at = "end" => rest = <<>>

WgrepInv ==
  /\ WgrepTypeOK
  /\ x <= Len(line)
  /\ at = "search" => Searching
  /\ Clean => Reading

LEMMA MaxIsElement ==
  ASSUME NEW n \in Nat, NEW S, S \subseteq 0..n, S # {}
  PROVE  Max(S) \in S /\ \A y \in S : y <= Max(S)
<1> DEFINE R == {n - y : y \in S}
<1>0. \A y \in S : y \in Int /\ n - y \in Nat
  <2>1. \A y \in S : y \in 0..n
    OBVIOUS
  <2> QED BY <2>1
<1>1. R \subseteq Nat /\ R # {}
  BY <1>0
<1>2. \A y \in S : n - y \in R
  OBVIOUS
<1>3. \A r \in R : n - r \in S /\ r \in Nat
  <2>1. ASSUME NEW y \in S PROVE n - (n - y) = y /\ n - y \in Nat
    BY <1>0
  <2> QED BY <2>1
<1> HIDE DEF R
<1>4. Min(R) \in R /\ \A r \in R : Min(R) <= r
  BY <1>1, MinIsElement
<1> DEFINE u == n - Min(R)
<1>5. u \in S
  BY <1>3, <1>4
<1>6. ASSUME NEW y \in S PROVE y <= u
  <2>1. Min(R) <= n - y /\ Min(R) \in Nat /\ y \in Int
    BY <1>2, <1>3, <1>4
  <2> QED BY <2>1
<1> HIDE DEF u
<1> QED BY <1>5, <1>6 DEF Max

\* A string stands in another one when its letters do.
LEMMA StandsByLetters ==
  ASSUME NEW T, NEW str \in Seq(T), NEW w \in Seq(T), NEW h \in Nat
  PROVE  Stands(w, str, h) <=> h + Len(w) <= Len(str) /\ \A e \in 1..Len(w) : str[h + e] = w[e]
<1>0. Len(w) \in Nat /\ Len(str) \in Nat
  BY LenProperties
<1>1. SUFFICES ASSUME h + Len(w) <= Len(str)
               PROVE  SubSeq(str, h + 1, h + Len(w)) = w <=> \A e \in 1..Len(w) : str[h + e] = w[e]
  BY DEF Stands
<1> DEFINE m == h + 1
           n == h + Len(w)
           u == SubSeq(str, m, n)
<1>2. m \in Int /\ n \in Int /\ (n - m) + 1 = Len(w) /\ (IF m <= n THEN (n - m) + 1 ELSE 0) = Len(w)
  <2>1. m \in Int /\ n \in Int /\ m = h + 1 /\ n = h + Len(w)
    BY <1>0
  <2> HIDE DEF m, n
  <2> QED BY <1>0, <2>1
<1>3. \A i \in m..n : str[i] \in T
  <2>1. \A i \in m..n : i \in 1..Len(str)
    BY <1>0, <1>1
  <2> HIDE DEF m, n
  <2> QED BY <2>1, ElementOfSeq
<1>4. \A e \in 1..Len(w) : (m + e) - 1 = h + e
  BY <1>0
<1> HIDE DEF m, n
<1>5. u \in Seq(T) /\ Len(u) = Len(w) /\ \A e \in 1..Len(w) : u[e] = str[(m + e) - 1]
  BY <1>2, <1>3, SubSeqProperties
<1> HIDE DEF u
<1>6. u \in Seq(T) /\ Len(u) = Len(w) /\ \A e \in 1..Len(w) : u[e] = str[h + e]
  BY <1>4, <1>5
<1>7. u = w <=> \A e \in 1..Len(w) : u[e] = w[e]
  <2>1. SUFFICES ASSUME \A e \in 1..Len(w) : u[e] = w[e] PROVE u = w
    OBVIOUS
  <2> QED BY <1>6, <2>1, SeqEqual
<1> QED BY <1>6, <1>7 DEF u, m, n

-----------------------------------------------------------------------------
(* The search in a line.                                                    *)

\* step[c] moves the word so far that its last c stands where c does, at most.
LEMMA StepToLast ==
  ASSUME word \in Seq(Letters), NEW c
  PROVE  /\ Step(c) \in 1..(Len(word) + 1)
         /\ \A g \in 1..Len(word) : word[g] = c => Step(c) <= Len(word) + 1 - g
<1>0. Len(word) \in Nat
  BY LenProperties
<1> DEFINE I == {i \in 1..Len(word) : word[i] = c}
<1>1. Step(c) = Len(word) + 1 - (IF I # {} THEN Max(I) ELSE 0)
  BY DEF Step, SelectLastInSeq
<1>2. I \subseteq 0..Len(word) /\ I \subseteq 1..Len(word) /\ \A g \in 1..Len(word) : word[g] = c => g \in I
  BY <1>0
<1> HIDE DEF I
<1>3. CASE I = {}
  <2>1. Step(c) = Len(word) + 1
    BY <1>0, <1>1, <1>3
  <2> QED BY <1>0, <1>2, <1>3, <2>1
<1>4. CASE I # {}
  <2> DEFINE u == Max(I)
  <2>1. u \in I /\ \A y \in I : y <= u
    BY <1>0, <1>2, <1>4, MaxIsElement
  <2>2. Step(c) = Len(word) + 1 - u
    BY <1>1, <1>4
  <2> HIDE DEF u
  <2>3. u \in 1..Len(word) /\ u \in Nat
    BY <1>0, <1>2, <2>1
  <2>4. Step(c) \in 1..(Len(word) + 1)
    BY <1>0, <2>2, <2>3
  <2>5. ASSUME NEW g \in 1..Len(word), word[g] = c PROVE Step(c) <= Len(word) + 1 - g
    <3>1. g <= u
      BY <1>2, <2>1, <2>5
    <3> QED BY <1>0, <2>2, <2>3, <3>1
  <2> QED BY <2>4, <2>5
<1> QED BY <1>3, <1>4

LEMMA WordInLine ==
  ASSUME WgrepTypeOK, NEW h \in Nat
  PROVE  Stands(word, line, h) <=> h + Len(word) <= Len(line) /\ \A e \in 1..Len(word) : line[h + e] = word[e]
<1>1. line \in Seq(Chars) /\ word \in Seq(Chars)
  BY SeqMonotonic DEF WgrepTypeOK, Chars
<1> QED BY <1>1, StandsByLetters

LEMMA WordInFile ==
  ASSUME WgrepTypeOK, NEW h \in Nat
  PROVE  Stands(word, data, h) <=> h + Len(word) <= Len(data) /\ \A e \in 1..Len(word) : data[h + e] = word[e]
<1>1. data \in Seq(Chars) /\ word \in Seq(Chars)
  BY SeqMonotonic DEF WgrepTypeOK, Chars
<1> QED BY <1>1, StandsByLetters

\* Moving the word by the step of the letter behind its place passes over no place where
\* it stands.
LEMMA SkipsNone ==
  ASSUME WgrepTypeOK, Searching, j < Len(word), ~Same, NEW i, i = temp + Step(Char(line, temp + Len(word)))
  PROVE  i \in Nat /\ temp < i /\ \A h \in 0..(i - 1) : ~Stands(word, line, h)
<1> DEFINE n == Len(word)
           c == Char(line, temp + n)
<1>0. /\ x \in Nat /\ j \in Nat /\ temp \in Nat /\ temp + j = x /\ n \in Nat /\ Len(line) \in Nat
      /\ word \in Seq(Letters)
  BY LenProperties DEF WgrepTypeOK, Searching, temp
<1>1. Step(c) \in 1..(n + 1) /\ \A g \in 1..n : word[g] = c => Step(c) <= (n + 1) - g
  <2>1. Step(c) \in 1..(n + 1) /\ \A g \in 1..n : word[g] = c => Step(c) <= n + 1 - g
    BY <1>0, StepToLast
  <2>2. \A g \in 1..n : n + 1 - g = (n + 1) - g
    BY <1>0
  <2> QED BY <2>1, <2>2
<1>2. i \in Nat /\ temp < i /\ i = temp + Step(c)
  BY <1>0, <1>1
<1>3. SUFFICES ASSUME NEW h \in 0..(i - 1), Stands(word, line, h) PROVE FALSE
  BY <1>2
<1>4. h \in Nat /\ h + n <= Len(line) /\ \A e \in 1..n : line[h + e] = word[e]
  <2>1. h \in Nat
    BY <1>2
  <2> QED BY <1>3, <2>1, WordInLine
<1>5. ~(h < temp)
  BY <1>0, <1>2, <1>3 DEF Searching
<1>6. h # temp
  <2> SUFFICES ASSUME h = temp PROVE FALSE
    OBVIOUS
  <2>1. j + 1 \in 1..n /\ temp + (j + 1) = x + 1 /\ x < Len(line)
    BY <1>0, <1>4
  <2>2. line[x + 1] = word[j + 1]
    BY <1>4, <2>1
  <2> QED BY <1>0, <2>1, <2>2 DEF Same, Char
<1>7. c = line[temp + n + 1] /\ temp + n < Len(line)
  <2>1. temp + n < Len(line)
    BY <1>0, <1>2, <1>4, <1>5, <1>6
  <2> QED BY <2>1 DEF Char
<1> DEFINE g == (temp + n + 1) - h
<1>8. g \in 1..n /\ h + g = temp + n + 1 /\ (n + 1) - g = h - temp
  <2>1. Step(c) <= n + 1 /\ h < temp + Step(c) /\ temp < h
    BY <1>0, <1>1, <1>2, <1>5, <1>6
  <2> QED BY <1>0, <1>1, <1>2, <1>4, <2>1
<1>9. word[g] = c
  BY <1>4, <1>7, <1>8
<1> HIDE DEF g, c
<1>10. Step(c) <= (n + 1) - g
  BY <1>1, <1>8, <1>9
<1> QED BY <1>0, <1>1, <1>2, <1>3, <1>4, <1>8, <1>10

-----------------------------------------------------------------------------
(* The lines of the file.                                                   *)

\* A line has the number of the one before and one more, its places all the same.
LEMMA LineNumbers ==
  ASSUME data \in Seq(Chars), NEW m \in Nat, NEW n \in Nat, m <= n
  PROVE  /\ LineNo(m) \in Nat /\ LineNo(m) <= LineNo(n) /\ LineNo(n) \in Nat
         /\ (\A e \in (m + 1)..n : data[e] # NL) => LineNo(n) = LineNo(m)
         /\ m < n /\ (\A e \in (m + 1)..(n - 1) : data[e] # NL) /\ data[n] = NL => LineNo(n) = LineNo(m) + 1
<1> DEFINE W == {h \in 1..n : data[h] = NL}
           C(l) == HowMany(1..l, W)
<1>1. \A l \in 0..n : LineNo(l) = 1 + C(l) /\ l \in Nat
  <2> SUFFICES ASSUME NEW l \in 0..n PROVE LineNo(l) = 1 + C(l) /\ l \in Nat
    OBVIOUS
  <2>1. {h \in 1..l : data[h] = NL} = (1..l) \cap W
    OBVIOUS
  <2>2. l \in Nat
    OBVIOUS
  <2> HIDE DEF W
  <2> QED BY <2>1, <2>2 DEF LineNo, HowMany
<1>2. \A e : e \in W <=> e \in 1..n /\ data[e] = NL
  OBVIOUS
<1> HIDE DEF W
<1>3. /\ C(m) \in Nat /\ C(n) \in Nat /\ C(m) <= C(n)
      /\ C(m) < C(n) <=> \E e \in (m + 1)..n : e \in W
  BY CountGrows
<1>4. ASSUME \A e \in (m + 1)..n : data[e] # NL PROVE C(n) = C(m)
  BY <1>2, <1>3, <1>4
<1>5. ASSUME m < n, \A e \in (m + 1)..(n - 1) : data[e] # NL, data[n] = NL PROVE C(n) = C(m) + 1
  <2> DEFINE l == n - 1
  <2>1. l \in Nat /\ m <= l /\ l + 1 = n
    BY <1>5
  <2>2. \A e \in (m + 1)..l : e \notin W
    BY <1>2, <1>5
  <2> HIDE DEF l
  <2>3. C(l + 1) = C(l) + (IF l + 1 \in W THEN 1 ELSE 0)
    BY <2>1, CountNext
  <2>4. C(l) \in Nat /\ C(m) <= C(l) /\ ~(C(m) < C(l))
    BY <2>1, <2>2, CountGrows
  <2>5. l + 1 \in W
    BY <1>2, <1>5, <2>1
  <2> HIDE DEF C
  <2>6. C(l) = C(m)
    BY <1>3, <2>4
  <2> QED BY <2>1, <2>3, <2>5, <2>6
<1>6. m \in 0..n /\ n \in 0..n
  OBVIOUS
<1> HIDE DEF C
<1> QED BY <1>1, <1>3, <1>4, <1>5, <1>6

\* When main goes on to the next line, the lines with the word are those before and the
\* one just searched, if the word stands in it.
LEMMA OneLineMore ==
  ASSUME WgrepTypeOK, Reading, at = "search", NEW o, o = Len(data) - Len(rest)
  PROVE  /\ o \in Nat /\ no \in Nat \ {0}
         /\ LinesWithWord(o) = LinesWithWord(Begin) \cup
              (IF \E g \in 0..(Len(line) - 1) : Stands(word, line, g) THEN {no} ELSE {})
         /\ rest # <<>> => LineNo(o) = no + 1
<1> DEFINE b == Begin
           n == Len(word)
<1>0. /\ b \in Nat /\ o \in Nat /\ n \in Nat /\ Len(line) \in Nat \ {0} /\ o = b + Len(line) /\ Len(data) \in Nat
      /\ o <= Len(data) /\ Len(rest) \in Nat
      /\ no = LineNo(b) /\ data \in Seq(Chars) /\ word \in Seq(Letters)
  BY LenProperties, EmptySeq DEF Reading, Begin, WgrepTypeOK
<1>1. \A i \in 1..Len(line) : line[i] = data[b + i]
  BY DEF Reading
<1>2. \A i \in 1..(Len(line) - 1) : line[i] # NL
  BY DEF Reading
<1>3. rest # <<>> => line[Len(line)] = NL
  BY DEF Reading
<1>4. rest = <<>> => o = Len(data)
  BY <1>0
<1> HIDE DEF b
<1>5. ASSUME NEW e \in (b + 1)..(o - 1) PROVE data[e] # NL
  <2> DEFINE i == e - b
  <2>1. i \in 1..(Len(line) - 1) /\ i \in 1..Len(line) /\ b + i = e
    BY <1>0
  <2> QED BY <1>1, <1>2, <2>1
<1>6. ASSUME NEW h \in b..(o - 1) PROVE LineNo(h) = no
  <2>1. h \in Nat /\ b <= h /\ \A e \in (b + 1)..h : e \in (b + 1)..(o - 1)
    BY <1>0
  <2> QED BY <1>0, <1>5, <2>1, LineNumbers
<1>7. no \in Nat \ {0}
  <2>1. 0 \in Nat /\ 0 <= b /\ LineNo(0) = 1
    <3>1. {h \in 1..0 : data[h] = NL} = {}
      OBVIOUS
    <3> QED BY <1>0, <3>1, FS_EmptySet DEF LineNo
  <2>2. LineNo(b) \in Nat /\ LineNo(0) <= LineNo(b)
    BY <1>0, <2>1, LineNumbers
  <2> QED BY <1>0, <2>1, <2>2
<1>8. ASSUME rest # <<>> PROVE LineNo(o) = no + 1
  <2>1. data[o] = NL
    <3>1. Len(line) \in 1..Len(line)
      BY <1>0
    <3> QED BY <1>0, <1>1, <1>3, <1>8, <3>1
  <2>2. b < o /\ b <= o
    BY <1>0
  <2> QED BY <1>0, <1>5, <2>1, <2>2, LineNumbers
<1>9. ASSUME NEW h \in b..(o - 1), Stands(word, data, h) PROVE Stands(word, line, h - b) /\ h - b \in 0..(Len(line) - 1)
  <2>1. h \in Nat /\ h - b \in 0..(Len(line) - 1) /\ h - b \in Nat
    BY <1>0
  <2>2. h + n <= Len(data) /\ \A e \in 1..n : data[h + e] = word[e]
    BY <1>9, <2>1, WordInFile
  <2>3. h + n <= o
    <3> SUFFICES ASSUME rest # <<>>, ~(h + n <= o) PROVE FALSE
      BY <1>4, <2>2
    <3> DEFINE e == o - h
    <3>1. e \in 1..n /\ h + e = o
      BY <1>0, <2>1
    <3>2. word[e] = data[o] /\ word[e] \in Letters
      BY <1>0, <2>2, <3>1, ElementOfSeq
    <3>3. Len(line) \in 1..Len(line) /\ data[o] = NL
      BY <1>0, <1>1, <1>3
    <3> HIDE DEF e
    <3> QED BY <3>2, <3>3, LinesAssumption
  <2>4. \A e \in 1..n : line[(h - b) + e] = word[e]
    <3> SUFFICES ASSUME NEW e \in 1..n PROVE line[(h - b) + e] = word[e]
      OBVIOUS
    <3> DEFINE i == (h - b) + e
    <3>1. i \in 1..Len(line) /\ b + i = h + e
      BY <1>0, <2>1, <2>3
    <3> HIDE DEF i
    <3>2. line[i] = data[b + i] /\ data[h + e] = word[e]
      BY <1>1, <2>2, <3>1
    <3>3. line[i] = word[e]
      BY <3>1, <3>2
    <3> QED BY <3>3 DEF i
  <2>5. (h - b) + n <= Len(line)
    BY <1>0, <2>1, <2>3
  <2> QED BY <2>1, <2>4, <2>5, WordInLine
<1>10. ASSUME NEW g \in 0..(Len(line) - 1), Stands(word, line, g) PROVE Stands(word, data, b + g) /\ b + g \in b..(o - 1)
  <2>1. g \in Nat /\ b + g \in Nat /\ b + g \in b..(o - 1)
    BY <1>0
  <2>2. g + n <= Len(line) /\ \A e \in 1..n : line[g + e] = word[e]
    BY <1>10, <2>1, WordInLine
  <2>3. \A e \in 1..n : data[(b + g) + e] = word[e]
    <3> SUFFICES ASSUME NEW e \in 1..n PROVE data[(b + g) + e] = word[e]
      OBVIOUS
    <3>1. g + e \in 1..Len(line) /\ b + (g + e) = (b + g) + e
      BY <1>0, <2>1, <2>2
    <3> QED BY <1>1, <2>2, <3>1
  <2>4. (b + g) + n <= Len(data)
    BY <1>0, <2>1, <2>2
  <2> QED BY <2>1, <2>3, <2>4, WordInFile
<1> DEFINE P(l) == {h \in 0..(l - 1) : Stands(word, data, h)}
<1>11. P(o) = P(b) \cup {h \in b..(o - 1) : Stands(word, data, h)}
  BY <1>0
<1>12. LinesWithWord(o) = LinesWithWord(b) \cup {LineNo(h) : h \in {g \in b..(o - 1) : Stands(word, data, g)}}
  <2>1. LinesWithWord(o) = {LineNo(i) : i \in P(o)} /\ LinesWithWord(b) = {LineNo(i) : i \in P(b)}
    BY DEF LinesWithWord
  <2> HIDE DEF P
  <2> QED BY <1>11, <2>1
<1> DEFINE Q == {g \in b..(o - 1) : Stands(word, data, g)}
<1>13. {LineNo(h) : h \in Q} = IF Q = {} THEN {} ELSE {no}
  <2>1. \A h \in Q : LineNo(h) = no
    BY <1>6
  <2> HIDE DEF Q
  <2> QED BY <2>1
<1>14. Q # {} <=> \E g \in 0..(Len(line) - 1) : Stands(word, line, g)
  BY <1>9, <1>10
<1> HIDE DEF Q
<1>15. LinesWithWord(o) = LinesWithWord(b) \cup (IF \E g \in 0..(Len(line) - 1) : Stands(word, line, g) THEN {no} ELSE {})
  BY <1>12, <1>13, <1>14 DEF Q
<1> QED BY <1>0, <1>7, <1>8, <1>15 DEF b

-----------------------------------------------------------------------------
(* The steps.                                                               *)

LEMMA WgrepInitInv == ASSUME WgrepInit PROVE WgrepInv
<1>1. data \in Seq(Chars) /\ word \in Seq(Letters)
  <2>1. ASSUME NEW S, NEW n, data \in SeqOf(S, n), S \subseteq Chars PROVE data \in Seq(Chars)
    <3>1. PICK m \in 0..n : data \in [1..m -> S]
      BY <2>1 DEF SeqOf
    <3>2. m \in Nat /\ data \in [1..m -> Chars]
      BY <2>1, <3>1
    <3> QED BY <3>2
  <2>2. data \in Seq(Chars)
    BY <2>1 DEF WgrepInit, Chars
  <2>3. PICK m \in 0..MaxWord : word \in [1..m -> Letters]
    BY DEF WgrepInit, SeqOf
  <2>4. m \in Nat
    BY <2>3, WgrepAssumption
  <2> QED BY <2>2, <2>3, <2>4
<1>2. WgrepTypeOK
  BY <1>1, EmptySeq DEF WgrepInit, WgrepTypeOK
<1>3. Reading
  <2>1. Len(data) \in Nat /\ rest = data /\ at = "fgets" /\ out = <<>> /\ no = 1
    BY <1>1, LenProperties DEF WgrepInit
  <2>2. Begin = 0
    BY <2>1 DEF Begin
  <2>3. LinesWithWord(0) = {} /\ ToSet(out) = {}
    BY <2>1 DEF LinesWithWord, ToSet
  <2>4. LineNo(0) = 1
    <3>1. {h \in 1..0 : data[h] = NL} = {}
      OBVIOUS
    <3> QED BY <3>1, FS_EmptySet DEF LineNo
  <2>5. Increasing /\ \A m \in 1..Len(out) : out[m] < no
    BY <2>1 DEF Increasing
  <2>6. ASSUME NEW i \in 1..Len(data) PROVE (Len(data) - Len(data)) + i = i
    BY <2>1
  <2>7. Len(rest) <= Len(data) /\ \A i \in 1..Len(rest) : rest[i] = data[(Len(data) - Len(rest)) + i]
    BY <2>1, <2>6
  <2> QED BY <2>1, <2>2, <2>3, <2>4, <2>5, <2>7 DEF Reading
<1> QED BY <1>2, <1>3, EmptySeq DEF WgrepInv, WgrepInit

\* The file and the word stay what they are.
LEMMA SameWord ==
  ASSUME data' = data, word' = word
  PROVE  /\ Clean' <=> Clean
         /\ \A n : LineNo(n)' = LineNo(n)
         /\ \A n : LinesWithWord(n)' = LinesWithWord(n)
BY DEF Clean, LinesFit, LineNo, LinesWithWord, Stands

LEMMA KeptByFgets == ASSUME WgrepInv, Fgets PROVE WgrepInv'
<1>0. at = "fgets" /\ UNCHANGED <<data, word, no, out>> /\ WgrepTypeOK /\ x <= Len(line)
  BY DEF Fgets, WgrepInv
<1>1. CASE rest = <<>> /\ at' = "end" /\ UNCHANGED <<rest, line, x, j>>
  <2>1. WgrepTypeOK' /\ Begin' = Begin
    BY <1>0, <1>1 DEF WgrepTypeOK, Begin
  <2>2. ASSUME Reading PROVE Reading'
    BY <1>0, <1>1, <2>1, <2>2, SameWord DEF Reading, Increasing
  <2> QED BY <1>0, <1>1, <2>1, <2>2, SameWord DEF WgrepInv
<1>2. CASE /\ rest # <<>> /\ at' = "search" /\ line' = LineOf(rest) /\ rest' = RestOf(rest)
           /\ x' = 0 /\ j' = 0
  <2>1. line' \in Seq(Chars) /\ rest' \in Seq(Chars) /\ Len(line') \in Nat /\ Len(word) \in Nat
    BY <1>0, <1>2, LineIsSeq, LenProperties DEF WgrepTypeOK
  <2>2. WgrepTypeOK'
    BY <1>0, <1>2, <2>1 DEF WgrepTypeOK
  <2>3. Searching' /\ x' <= Len(line')
    BY <1>0, <1>2, <2>1 DEF Searching, temp
  <2>4. ASSUME Clean PROVE Reading'
    <3> DEFINE o == Len(data) - Len(rest)
               m == Taken(rest)
    <3>0. Reading
      BY <2>4 DEF WgrepInv
    <3>1. /\ o \in Nat /\ Begin = o /\ Len(data) \in Nat /\ Len(rest) \in Nat \ {0} /\ o + Len(rest) = Len(data)
          /\ no = LineNo(o) /\ \A i \in 1..Len(rest) : rest[i] = data[o + i] /\ o + i \in 1..Len(data)
      BY <1>0, <1>2, <3>0, LenProperties, EmptySeq DEF Reading, Begin, WgrepTypeOK
    <3> HIDE DEF o
    <3>2. \A i \in 1..Len(rest) : rest[i] # NUL
      BY <2>4, <3>1 DEF Clean
    <3>3. /\ m \in 1..Len(rest) /\ Len(line') = m /\ Len(rest') = Len(rest) - m
          /\ \A i \in 1..m : line'[i] = rest[i]
          /\ \A i \in 1..(Len(rest) - m) : rest'[i] = rest[m + i]
          /\ \A i \in 1..(m - 1) : rest[i] # NL
          /\ m = Len(rest) \/ rest[m] = NL \/ (m = Buf - 1 /\ \A i \in 1..m : rest[i] # NL)
      BY <1>0, <1>2, <3>2, ReadsLine DEF WgrepTypeOK
    <3> HIDE DEF m
    <3>4. m = Len(rest) \/ rest[m] = NL
      <4> SUFFICES ASSUME m # Len(rest), m = Buf - 1, \A i \in 1..m : rest[i] # NL PROVE FALSE
        BY <3>3
      <4>1. Buf \in Nat /\ Buf > 1
        BY LinesAssumption
      <4>2. o \in 0..(Len(data) - Buf)
        BY <3>1, <3>3, <4>1
      <4>3. PICK h \in 1..(Buf - 1) : data[o + h] = NL
        BY <2>4, <4>2 DEF Clean, LinesFit
      <4>4. h \in 1..m /\ h \in 1..Len(rest)
        BY <3>1, <3>3, <4>1
      <4> QED BY <3>1, <4>3, <4>4
    <3>5. Begin' = o /\ Len(data) - Len(rest') = o + m
      <4>1. m \in Nat /\ Len(rest') \in Int /\ Len(line') = m /\ Len(rest') = Len(rest) - m
        BY <2>1, <3>3
      <4> DEFINE a == Len(data)
                 b == Len(rest)
                 d == Len(rest')
      <4>4. o \in Int /\ a \in Int /\ b \in Int /\ d \in Int /\ m \in Int /\ a = o + b /\ d = b - m
        BY <3>1, <4>1
      <4> HIDE DEF a, b, d
      <4>5. a - d = o + m /\ (o + m) - m = o
        BY <4>4
      <4>2. Len(data) - Len(rest') = o + m /\ (o + m) - m = o
        BY <4>5 DEF a, d
      <4>3. Begin' = (Len(data) - Len(rest')) - Len(line')
        BY <1>0, <1>2 DEF Begin
      <4> QED BY <4>1, <4>2, <4>3
    <3>6. /\ Len(rest') <= Len(data)
          /\ \A i \in 1..Len(rest') : rest'[i] = data[(Len(data) - Len(rest')) + i]
      <4>1. Len(rest') <= Len(data)
        BY <3>1, <3>3
      <4>2. ASSUME NEW i \in 1..Len(rest') PROVE rest'[i] = data[(Len(data) - Len(rest')) + i]
        <5>1. m + i \in 1..Len(rest) /\ m \in Nat /\ i \in Nat /\ i \in 1..(Len(rest) - m)
          BY <3>1, <3>3
        <5>2. o + (m + i) = (Len(data) - Len(rest')) + i
          <6>1. o \in Int /\ m \in Int /\ i \in Int
            BY <3>1, <5>1
          <6>2. o + (m + i) = (o + m) + i
            BY <6>1
          <6> QED BY <3>5, <6>2
        <5> QED BY <3>1, <3>3, <5>1, <5>2
      <4> QED BY <4>1, <4>2
    <3>7. line' # <<>> /\ Len(line') = m
      <4>1. Len(line') # 0
        BY <3>1, <3>3
      <4> QED BY <3>3, <4>1
    <3>8. /\ \A i \in 1..Len(line') : line'[i] = data[o + i]
          /\ \A i \in 1..(Len(line') - 1) : line'[i] # NL
          /\ rest' # <<>> => line'[Len(line')] = NL
      <4>1. ASSUME NEW i \in 1..m PROVE line'[i] = data[o + i]
        BY <3>1, <3>3
      <4>2. ASSUME NEW i \in 1..(m - 1) PROVE line'[i] # NL
        BY <3>1, <3>3
      <4>3. ASSUME rest' # <<>> PROVE line'[m] = NL
        <5>1. Len(rest') \in Nat \ {0}
          BY <2>1, <4>3, EmptySeq
        <5>2. m # Len(rest) /\ m \in 1..m
          BY <3>1, <3>3, <5>1
        <5> QED BY <3>3, <3>4, <5>2
      <4> QED BY <3>7, <4>1, <4>2, <4>3
    <3>9. ToSet(out) = LinesWithWord(o) /\ Increasing /\ \A i \in 1..Len(out) : out[i] < no
      BY <3>0, <3>1 DEF Reading
    <3>10. /\ ToSet(out)' = LinesWithWord(Begin)' /\ Increasing' /\ \A i \in 1..Len(out') : out'[i] < no'
           /\ no' = LineNo(Begin)'
      BY <1>0, <3>1, <3>5, <3>9, SameWord DEF Increasing, LinesWithWord, LineNo
    <3> QED BY <1>0, <1>2, <3>1, <3>5, <3>6, <3>7, <3>8, <3>10 DEF Reading
  <2> QED BY <1>0, <1>2, <2>2, <2>3, <2>4, SameWord DEF WgrepInv
<1> QED BY <1>1, <1>2 DEF Fgets

\* sunday_search has returned what says whether the word stands in the line.
LEMMA KeptByReturns ==
  ASSUME WgrepInv, at = "search", NEW ret \in Int, Returns(ret),
         line # <<>> => (ret # -1 <=> \E g \in 0..(Len(line) - 1) : Stands(word, line, g))
  PROVE  WgrepInv'
<1>0. /\ at' = "fgets" /\ no' = no + 1 /\ out' = (IF ret = -1 THEN out ELSE Append(out, no))
      /\ UNCHANGED <<data, word, rest, line, x, j>> /\ WgrepTypeOK /\ x <= Len(line)
  BY DEF Returns, WgrepInv
<1>1. no \in Nat /\ out \in Seq(Nat) /\ Len(out) \in Nat
  BY <1>0, LenProperties DEF WgrepTypeOK
<1>2. WgrepTypeOK'
  BY <1>0, <1>1, AppendProperties DEF WgrepTypeOK
<1>3. ASSUME Clean PROVE Reading'
  <2> DEFINE o == Len(data) - Len(rest)
             Inside == \E g \in 0..(Len(line) - 1) : Stands(word, line, g)
  <2>0. Reading /\ line # <<>>
    BY <1>3 DEF WgrepInv, Reading
  <2>1. /\ o \in Nat /\ (rest # <<>> => LineNo(o) = no + 1)
        /\ LinesWithWord(o) = LinesWithWord(Begin) \cup (IF Inside THEN {no} ELSE {})
    BY <1>0, <2>0, OneLineMore
  <2>2. Begin' = o
    BY <1>0 DEF Begin
  <2>3. ret # -1 <=> Inside
    BY <2>0
  <2> HIDE DEF o, Inside
  <2>4. ToSet(out) = LinesWithWord(Begin) /\ Increasing /\ \A i \in 1..Len(out) : out[i] < no /\ out[i] \in Nat
    BY <1>1, <2>0, ElementOfSeq DEF Reading
  <2>5. ToSet(out') = LinesWithWord(o) /\ Increasing' /\ \A i \in 1..Len(out') : out'[i] < no'
    <3>1. CASE ret = -1
      <4>1. out' = out /\ ToSet(out) = LinesWithWord(o)
        BY <1>0, <2>1, <2>3, <2>4, <3>1
      <4>2. \A i \in 1..Len(out) : out[i] < no + 1
        BY <1>1, <2>4
      <4> QED BY <1>0, <2>4, <4>1, <4>2 DEF Increasing
    <3>2. CASE ret # -1
      <4>1. /\ out' \in Seq(Nat) /\ Len(out') = Len(out) + 1 /\ out'[Len(out) + 1] = no
            /\ \A i \in 1..Len(out) : out'[i] = out[i]
        BY <1>0, <1>1, <3>2, AppendProperties
      <4>2. DOMAIN out' = 1..(Len(out) + 1) /\ DOMAIN out = 1..Len(out)
        BY <1>1, <4>1, LenProperties
      <4>3. ToSet(out') = ToSet(out) \cup {no}
        <5>1. 1..(Len(out) + 1) = (1..Len(out)) \cup {Len(out) + 1}
          BY <1>1
        <5> QED BY <4>1, <4>2, <5>1 DEF ToSet
      <4>4. ASSUME NEW i \in 1..Len(out') PROVE out'[i] < no'
        <5>1. i \in 1..Len(out) \/ i = Len(out) + 1
          BY <1>1, <4>1
        <5> QED BY <1>0, <1>1, <2>4, <4>1, <5>1
      <4>5. ASSUME NEW m \in 1..Len(out'), NEW i \in 1..Len(out'), m < i PROVE out'[m] < out'[i]
        <5>1. m \in 1..Len(out) /\ (i \in 1..Len(out) \/ i = Len(out) + 1)
          <6>1. m \in 1..(Len(out) + 1) /\ i \in 1..(Len(out) + 1)
            BY <4>1
          <6> QED BY <1>1, <4>5, <6>1
        <5> QED BY <2>4, <4>1, <4>5, <5>1 DEF Increasing
      <4> QED BY <2>1, <2>3, <2>4, <3>2, <4>3, <4>4, <4>5 DEF Increasing
    <3> QED BY <3>1, <3>2
  <2>6. /\ ToSet(out)' = LinesWithWord(Begin)' /\ (rest' # <<>> => no' = LineNo(Begin)')
    BY <1>0, <2>1, <2>2, <2>5, SameWord DEF LinesWithWord, LineNo
  <2>7. /\ Len(rest') <= Len(data') /\ \A i \in 1..Len(rest') : rest'[i] = data'[(Len(data') - Len(rest')) + i]
    BY <1>0, <2>0 DEF Reading
  <2> QED BY <1>0, <2>1, <2>2, <2>5, <2>6, <2>7 DEF Reading
<1> QED BY <1>0, <1>2, <1>3, SameWord DEF WgrepInv

LEMMA KeptByCompare == ASSUME WgrepInv, Compare PROVE WgrepInv'
<1>0. /\ at = "search" /\ j < Len(word) /\ Same /\ x' = x + 1 /\ j' = j + 1
      /\ UNCHANGED <<data, word, at, rest, line, no, out>>
      /\ WgrepTypeOK /\ Searching /\ (Clean => Reading)
  BY DEF Compare, InRound, WgrepInv
<1>1. /\ x \in Nat /\ j \in Nat /\ Len(word) \in Nat /\ Len(line) \in Nat /\ temp = x - j /\ temp' = temp
      /\ word \in Seq(Letters)
  BY <1>0, LenProperties DEF WgrepTypeOK, temp
<1>2. word[j + 1] \in Letters /\ Char(word, j) = word[j + 1]
  <2>1. j + 1 \in 1..Len(word)
    BY <1>0, <1>1
  <2> QED BY <1>0, <1>1, <2>1, ElementOfSeq DEF Char
<1>3. x < Len(line) /\ line[x + 1] = word[j + 1]
  BY <1>0, <1>2, LinesAssumption DEF Same, Char
<1>4. WgrepTypeOK'
  BY <1>0, <1>1 DEF WgrepTypeOK
<1>5. Searching'
  <2>1. ASSUME NEW e \in 1..(j + 1) PROVE line[temp + e] = word[e]
    <3>1. CASE e = j + 1
      <4>1. temp + e = x + 1
        BY <1>1, <3>1
      <4> QED BY <1>3, <3>1, <4>1
    <3>2. CASE e # j + 1
      <4>1. e \in 1..j
        BY <1>1, <3>2
      <4> QED BY <1>0, <4>1 DEF Searching
    <3> QED BY <3>1, <3>2
  <2>2. j + 1 <= Len(word) /\ j + 1 <= x + 1 /\ x + 1 <= Len(line)
    BY <1>0, <1>1, <1>3 DEF Searching
  <2>3. \A h \in 0..(temp - 1) : ~Stands(word, line, h)
    BY <1>0 DEF Searching
  <2>4. temp = 0 \/ temp + Len(word) <= Len(line)
    BY <1>0 DEF Searching
  <2> HIDE DEF temp
  <2> QED BY <1>0, <1>1, <2>1, <2>2, <2>3, <2>4 DEF Searching
<1>6. Reading' <=> Reading
  BY <1>0, SameWord DEF Reading, Begin, Increasing
<1> QED BY <1>0, <1>1, <1>3, <1>4, <1>5, <1>6, SameWord DEF WgrepInv

LEMMA KeptBySkip == ASSUME WgrepInv, Skip PROVE WgrepInv'
<1> DEFINE i == temp + Step(Char(line, temp + Len(word)))
<1>0. /\ at = "search" /\ j < Len(word) /\ ~Same /\ WgrepTypeOK /\ Searching /\ (Clean => Reading)
      /\ \/ i + Len(word) > Len(line) /\ Returns(-1)
         \/ /\ i + Len(word) <= Len(line) /\ x' = i /\ j' = 0
            /\ UNCHANGED <<data, word, at, rest, line, no, out>>
  BY DEF Skip, InRound, WgrepInv
<1>1. i \in Nat /\ \A h \in 0..(i - 1) : ~Stands(word, line, h)
  BY <1>0, SkipsNone
<1>2. Len(word) \in Nat /\ Len(line) \in Nat
  BY <1>0, LenProperties DEF WgrepTypeOK
<1> HIDE DEF i
<1>3. CASE i + Len(word) > Len(line) /\ Returns(-1)
  <2>1. ASSUME NEW g \in 0..(Len(line) - 1), Stands(word, line, g) PROVE FALSE
    <3>1. g \in Nat /\ g + Len(word) <= Len(line)
      BY <1>2, <2>1 DEF Stands
    <3>2. g \in 0..(i - 1)
      BY <1>1, <1>2, <1>3, <3>1
    <3> QED BY <1>1, <2>1, <3>2
  <2>2. -1 \in Int
    OBVIOUS
  <2> QED BY <1>0, <1>3, <2>1, <2>2, KeptByReturns
<1>4. CASE /\ i + Len(word) <= Len(line) /\ x' = i /\ j' = 0
           /\ UNCHANGED <<data, word, at, rest, line, no, out>>
  <2>1. WgrepTypeOK' /\ temp' = i /\ x' <= Len(line')
    BY <1>0, <1>1, <1>2, <1>4 DEF WgrepTypeOK, temp
  <2>2. Searching'
    BY <1>1, <1>2, <1>4, <2>1 DEF Searching
  <2>3. Reading' <=> Reading
    BY <1>4, SameWord DEF Reading, Begin, Increasing
  <2> QED BY <1>0, <1>4, <2>1, <2>2, <2>3, SameWord DEF WgrepInv
<1> QED BY <1>0, <1>3, <1>4

LEMMA KeptByFound == ASSUME WgrepInv, Found PROVE WgrepInv'
<1>0. /\ at = "search" /\ j = Len(word) /\ Returns(temp) /\ (x < Len(line) \/ j > 0) /\ WgrepTypeOK /\ Searching
  BY DEF Found, InRound, WgrepInv
<1>1. x \in Nat /\ j \in Nat /\ temp \in Nat /\ temp + j = x /\ x <= Len(line) /\ Len(line) \in Nat
  BY <1>0, LenProperties DEF WgrepTypeOK, Searching, temp
<1>2. Stands(word, line, temp)
  BY <1>0, <1>1, WordInLine DEF Searching
<1>3. temp \in 0..(Len(line) - 1) /\ temp # -1 /\ temp \in Int
  BY <1>0, <1>1
<1> HIDE DEF temp
<1> QED BY <1>0, <1>2, <1>3, KeptByReturns

LEMMA WgrepStep == ASSUME WgrepInv, [WgrepNext]_wgrepVars PROVE WgrepInv'
<1>1. CASE FallsOff
  <2>1. PICK ret \in {-1, 0} : at = "search" /\ line = <<>> /\ Returns(ret)
    BY <1>1 DEF FallsOff
  <2>2. ret \in Int
    OBVIOUS
  <2> QED BY <2>1, <2>2, KeptByReturns
<1>2. CASE UNCHANGED wgrepVars
  <2>1. UNCHANGED <<data, word, at, rest, line, no, x, j, out>>
    BY <1>2 DEF wgrepVars
  <2>2. WgrepTypeOK' /\ temp' = temp /\ (Searching' <=> Searching)
    BY <2>1 DEF WgrepInv, WgrepTypeOK, temp, Searching
  <2>3. Reading' <=> Reading
    BY <2>1, SameWord DEF Reading, Begin, Increasing
  <2> QED BY <2>1, <2>2, <2>3, SameWord DEF WgrepInv
<1> QED BY <1>1, <1>2, KeptByFgets, KeptByCompare, KeptBySkip, KeptByFound DEF WgrepNext

\* Whatever the letters, the word, the file and the buffer: when every line fits the
\* buffer and holds no NUL, wgrep prints the numbers of the lines that contain the word,
\* all of them and in their order; and sunday_search never compares beyond the line.
THEOREM LinesFound == WgrepSpec => []WgrepPrints
<1>1. WgrepInit => WgrepInv
  BY WgrepInitInv
<1>2. WgrepInv /\ [WgrepNext]_wgrepVars => WgrepInv'
  BY WgrepStep
<1>3. WgrepInv => WgrepPrints
  <2> SUFFICES ASSUME WgrepInv PROVE WgrepPrints
    OBVIOUS
  <2>1. ASSUME at = "end", ~Contains(data, NUL), LinesFit PROVE ToSet(out) = WithWord /\ Increasing
    <3>1. Reading
      BY <2>1 DEF WgrepInv, Clean, Contains
    <3>2. Begin = Len(data)
      <4>1. rest = <<>> /\ Len(data) \in Nat /\ Len(<<>>) = 0
        BY <2>1, <3>1, LenProperties DEF Reading, WgrepInv, WgrepTypeOK
      <4> QED BY <2>1, <4>1 DEF Begin
    <3> QED BY <3>1, <3>2 DEF Reading, WithWord, LinesWithWord
  <2> QED BY <2>1 DEF WgrepInv, WgrepPrints, Increasing
<1> QED BY <1>1, <1>2, <1>3, PTL DEF WgrepSpec

-----------------------------------------------------------------------------
(* The brackets.                                                            *)

BalanceTypeOK ==
  /\ code \in Seq(Symbols \cup {NUL}) /\ unread \in Seq(Symbols \cup {NUL}) /\ todo \in Seq(Symbols \cup {NUL})
  /\ stack \in Seq(Symbols \cup {NUL}) /\ seen \in Seq(Symbols \cup {NUL})
  /\ over \in BOOLEAN /\ refused \in BOOLEAN /\ verdict \in {"none", "ok", "fail", "crash"}

\* Without a NUL the file is what was seen, what is left of the line and what is unread.
InPlace ==
  /\ Len(seen) <= Len(code)
  /\ \A i \in 1..Len(seen) : seen[i] = code[i]
  /\ verdict = "none" =>
       /\ Len(seen) + Len(todo) + Len(unread) = Len(code)
       /\ \A i \in 1..Len(todo) : todo[i] = code[Len(seen) + i]
       /\ \A i \in 1..Len(unread) : unread[i] = code[Len(seen) + Len(todo) + i]

NoNul(str) == \A i \in 1..Len(str) : str[i] # NUL
SoFarGood == \A n \in 0..Len(seen) : Depth(seen, n) >= 0
Good(str) == (\A n \in 0..Len(str) : Depth(str, n) >= 0) /\ Depth(str, Len(str)) = 0
VerdictGiven == NoNul(code) => verdict = IF Good(code) THEN "ok" ELSE "fail"

BalanceInv ==
  /\ BalanceTypeOK
  /\ NoNul(code) => InPlace
  /\ refused => over
  /\ ~over => /\ Len(stack) <= Allocated
              /\ verdict = "none" => HoldsUnclosed /\ SoFarGood
              /\ verdict # "none" => VerdictGiven

\* How much deeper a character leads.
Turn(c) == IF c \in Opening THEN 1 ELSE IF c \in Closing THEN -1 ELSE 0

LEMMA CountNextPlace ==
  ASSUME NEW str, NEW n \in Nat, NEW S
  PROVE  /\ Count(str, n, S) \in Nat /\ Count(str, 0, S) = 0
         /\ Count(str, n + 1, S) = Count(str, n, S) + (IF str[n + 1] \in S THEN 1 ELSE 0)
<1> DEFINE W == {i \in 1..(n + 1) : str[i] \in S}
<1>1. /\ {i \in 1..n : str[i] \in S} = (1..n) \cap W
      /\ {i \in 1..(n + 1) : str[i] \in S} = (1..(n + 1)) \cap W
      /\ {i \in 1..0 : str[i] \in S} = (1..0) \cap W
      /\ n + 1 \in W <=> str[n + 1] \in S
  OBVIOUS
<1> HIDE DEF W
<1>2. /\ Count(str, n, S) = HowMany(1..n, W) /\ Count(str, 0, S) = HowMany(1..0, W)
      /\ Count(str, n + 1, S) = HowMany(1..(n + 1), W)
  BY <1>1 DEF Count, HowMany
<1> QED BY <1>1, <1>2, CountNext

LEMMA DepthNext ==
  ASSUME NEW str, NEW n \in Nat
  PROVE  /\ Depth(str, n) \in Int /\ Depth(str, 0) = 0
         /\ Depth(str, n + 1) = Depth(str, n) + Turn(str[n + 1])
<1>1. /\ Count(str, n, Opening) \in Nat /\ Count(str, 0, Opening) = 0
      /\ Count(str, n + 1, Opening) = Count(str, n, Opening) + (IF str[n + 1] \in Opening THEN 1 ELSE 0)
  BY CountNextPlace
<1>2. /\ Count(str, n, Closing) \in Nat /\ Count(str, 0, Closing) = 0
      /\ Count(str, n + 1, Closing) = Count(str, n, Closing) + (IF str[n + 1] \in Closing THEN 1 ELSE 0)
  BY CountNextPlace
<1>3. ~(str[n + 1] \in Opening /\ str[n + 1] \in Closing)
  BY BalanceAssumption
<1> QED BY <1>1, <1>2, <1>3 DEF Depth, Turn

\* The depth at a place depends on nothing behind it.
LEMMA DepthSame ==
  ASSUME NEW str, NEW str1, NEW n, \A i \in 1..n : str1[i] = str[i]
  PROVE  Depth(str1, n) = Depth(str, n)
<1>1. \A S : {i \in 1..n : str1[i] \in S} = {i \in 1..n : str[i] \in S}
  OBVIOUS
<1> QED BY <1>1 DEF Depth, Count

LEMMA DepthAppended ==
  ASSUME NEW T, NEW str \in Seq(T), NEW c \in T
  PROVE  /\ \A n \in 0..Len(str) : Depth(Append(str, c), n) = Depth(str, n) /\ Depth(str, n) \in Int
         /\ Len(Append(str, c)) = Len(str) + 1 /\ Len(str) \in Nat
         /\ Depth(Append(str, c), Len(str) + 1) = Depth(str, Len(str)) + Turn(c)
<1> DEFINE u == Append(str, c)
<1>1. Len(u) = Len(str) + 1 /\ Len(str) \in Nat /\ u[Len(str) + 1] = c /\ \A i \in 1..Len(str) : u[i] = str[i]
  BY AppendProperties, LenProperties
<1> HIDE DEF u
<1>2. ASSUME NEW n \in 0..Len(str) PROVE Depth(u, n) = Depth(str, n) /\ Depth(str, n) \in Int
  <2>1. n \in Nat /\ \A i \in 1..n : u[i] = str[i]
    BY <1>1
  <2> QED BY <2>1, DepthSame, DepthNext
<1>3. Depth(u, Len(str) + 1) = Depth(u, Len(str)) + Turn(c)
  BY <1>1, DepthNext
<1> QED BY <1>1, <1>2, <1>3 DEF u

-----------------------------------------------------------------------------
(* What a character does to the stack.                                      *)

\* What stays of the levels of the stack as long as it does not get deeper than d.
LEMMA LevelStays ==
  ASSUME seen \in Seq(Symbols \cup {NUL}), NEW c \in Symbols \cup {NUL}, seen' = Append(seen, c),
         HoldsUnclosed, NEW d \in 1..Len(stack), Depth(seen, Len(seen)) + Turn(c) >= d
  PROVE  \E i \in 1..Len(seen') :
           /\ seen'[i] = stack[d] /\ seen'[i] \in Opening /\ Depth(seen', i) = d
           /\ \A n \in i..Len(seen') : Depth(seen', n) >= d
<1>0. /\ Len(seen) \in Nat /\ Len(seen') = Len(seen) + 1 /\ \A i \in 1..Len(seen) : seen'[i] = seen[i]
      /\ \A n \in 0..Len(seen) : Depth(seen', n) = Depth(seen, n)
      /\ Depth(seen', Len(seen) + 1) >= d
  BY DepthAppended, AppendProperties
<1>1. PICK i \in 1..Len(seen) : /\ seen[i] = stack[d] /\ seen[i] \in Opening /\ Depth(seen, i) = d
                                /\ \A n \in i..Len(seen) : Depth(seen, n) >= d
  BY DEF HoldsUnclosed
<1>2. i \in 1..Len(seen') /\ seen'[i] = stack[d] /\ seen'[i] \in Opening /\ Depth(seen', i) = d
  BY <1>0, <1>1
<1>3. ASSUME NEW n \in i..Len(seen') PROVE Depth(seen', n) >= d
  <2>1. CASE n = Len(seen) + 1
    BY <1>0, <2>1
  <2>2. CASE n # Len(seen) + 1
    <3>1. n \in i..Len(seen) /\ n \in 0..Len(seen)
      BY <1>0, <2>2
    <3> QED BY <1>0, <1>1, <3>1
  <2> QED BY <2>1, <2>2
<1> QED BY <1>2, <1>3

LEMMA GoodSoFar ==
  ASSUME seen \in Seq(Symbols \cup {NUL}), NEW c \in Symbols \cup {NUL}, seen' = Append(seen, c),
         SoFarGood, Depth(seen, Len(seen)) + Turn(c) >= 0
  PROVE  SoFarGood'
<1>0. /\ Len(seen) \in Nat /\ Len(seen') = Len(seen) + 1
      /\ \A n \in 0..Len(seen) : Depth(seen', n) = Depth(seen, n)
      /\ Depth(seen', Len(seen) + 1) >= 0
  BY DepthAppended
<1>1. SUFFICES ASSUME NEW n \in 0..Len(seen') PROVE Depth(seen', n) >= 0
  BY DEF SoFarGood, Depth, Count
<1>2. n \in 0..Len(seen) \/ n = Len(seen) + 1
  BY <1>0
<1> QED BY <1>0, <1>2 DEF SoFarGood

LEMMA HoldsPushed ==
  ASSUME BalanceTypeOK, NEW c \in Symbols \cup {NUL}, seen' = Append(seen, c), HoldsUnclosed, SoFarGood,
         c \in Opening, stack' = Append(stack, c)
  PROVE  HoldsUnclosed' /\ SoFarGood'
<1>0. /\ seen \in Seq(Symbols \cup {NUL}) /\ stack \in Seq(Symbols \cup {NUL}) /\ Turn(c) = 1
      /\ Len(seen) \in Nat /\ Len(stack) \in Nat
      /\ Len(seen') = Len(seen) + 1 /\ seen'[Len(seen) + 1] = c
      /\ Len(stack') = Len(stack) + 1 /\ stack'[Len(stack) + 1] = c
      /\ \A d \in 1..Len(stack) : stack'[d] = stack[d]
  BY LenProperties, AppendProperties DEF BalanceTypeOK, Turn
<1>1. Len(stack) = Depth(seen, Len(seen))
  BY DEF HoldsUnclosed
<1>2. Depth(seen', Len(seen')) = Len(stack) + 1
  BY <1>0, <1>1, DepthAppended
<1>3. ASSUME NEW d \in 1..Len(stack')
      PROVE  \E i \in 1..Len(seen') :
               /\ seen'[i] = stack'[d] /\ seen'[i] \in Opening /\ Depth(seen', i) = d
               /\ \A n \in i..Len(seen') : Depth(seen', n) >= d
  <2>1. CASE d \in 1..Len(stack)
    <3>1. Depth(seen, Len(seen)) + Turn(c) >= d
      BY <1>0, <1>1, <2>1
    <3> QED BY <1>0, <2>1, <3>1, LevelStays
  <2>2. CASE d = Len(stack) + 1
    <3> DEFINE i == Len(seen) + 1
    <3>1. /\ i \in 1..Len(seen') /\ seen'[i] = stack'[d] /\ seen'[i] \in Opening /\ Depth(seen', i) = d
          /\ \A n \in i..Len(seen') : n = i
      BY <1>0, <1>2, <2>2
    <3> HIDE DEF i
    <3>2. \A n \in i..Len(seen') : Depth(seen', n) >= d
      BY <1>0, <2>2, <3>1
    <3> QED BY <3>1, <3>2
  <2> QED BY <1>0, <2>1, <2>2
<1>4. SoFarGood'
  BY <1>0, <1>1, GoodSoFar
<1> QED BY <1>0, <1>2, <1>3, <1>4 DEF HoldsUnclosed, Depth, Count

LEMMA FrontIsSeq ==
  ASSUME NEW T, NEW str \in Seq(T), str # <<>>
  PROVE  /\ Front(str) \in Seq(T) /\ Len(str) \in Nat \ {0} /\ Len(Front(str)) = Len(str) - 1
         /\ \A d \in 1..(Len(str) - 1) : Front(str)[d] = str[d]
<1> DEFINE m == Len(str) - 1
<1>0. Len(str) \in Nat \ {0}
  BY EmptySeq
<1>1. m \in Nat /\ (m - 1) + 1 = m /\ (IF 1 <= m THEN (m - 1) + 1 ELSE 0) = m
  <2>1. m \in Nat
    BY <1>0
  <2> HIDE DEF m
  <2> QED BY <2>1
<1>2. Front(str) = SubSeq(str, 1, m)
  BY DEF Front
<1>3. \A d \in 1..m : str[d] \in T /\ (1 + d) - 1 = d
  BY <1>0, <1>1, ElementOfSeq
<1> HIDE DEF m
<1>4. /\ SubSeq(str, 1, m) \in Seq(T) /\ Len(SubSeq(str, 1, m)) = m
      /\ \A d \in 1..m : SubSeq(str, 1, m)[d] = str[(1 + d) - 1]
  BY <1>1, <1>3, SubSeqProperties
<1> QED BY <1>0, <1>1, <1>2, <1>3, <1>4 DEF m

LEMMA HoldsPopped ==
  ASSUME BalanceTypeOK, NEW c \in Symbols \cup {NUL}, seen' = Append(seen, c), HoldsUnclosed, SoFarGood,
         c \in Closing, stack # <<>>, stack' = Front(stack)
  PROVE  HoldsUnclosed' /\ SoFarGood' /\ stack' \in Seq(Symbols \cup {NUL}) /\ Len(stack') = Len(stack) - 1
<1>0. /\ seen \in Seq(Symbols \cup {NUL}) /\ stack \in Seq(Symbols \cup {NUL}) /\ Turn(c) = -1
      /\ Len(seen) \in Nat /\ Len(stack) \in Nat \ {0} /\ Len(seen') = Len(seen) + 1
  BY LenProperties, EmptySeq, AppendProperties, BalanceAssumption DEF BalanceTypeOK, Turn
<1>1. /\ stack' \in Seq(Symbols \cup {NUL}) /\ Len(stack') = Len(stack) - 1
      /\ \A d \in 1..(Len(stack) - 1) : stack'[d] = stack[d]
  BY <1>0, FrontIsSeq
<1>2. Len(stack) = Depth(seen, Len(seen))
  BY DEF HoldsUnclosed
<1>3. Depth(seen', Len(seen')) = Len(stack) - 1
  BY <1>0, <1>2, DepthAppended
<1>4. ASSUME NEW d \in 1..Len(stack')
      PROVE  \E i \in 1..Len(seen') :
               /\ seen'[i] = stack'[d] /\ seen'[i] \in Opening /\ Depth(seen', i) = d
               /\ \A n \in i..Len(seen') : Depth(seen', n) >= d
  <2>1. d \in 1..Len(stack) /\ stack'[d] = stack[d] /\ Depth(seen, Len(seen)) + Turn(c) >= d
    BY <1>0, <1>1, <1>2
  <2> QED BY <1>0, <2>1, LevelStays
<1>5. SoFarGood'
  BY <1>0, <1>2, GoodSoFar
<1> QED BY <1>1, <1>3, <1>4, <1>5 DEF HoldsUnclosed, Depth, Count

LEMMA HoldsOther ==
  ASSUME BalanceTypeOK, NEW c \in Symbols \cup {NUL}, seen' = Append(seen, c), HoldsUnclosed, SoFarGood,
         c \notin Opening, c \notin Closing, stack' = stack
  PROVE  HoldsUnclosed' /\ SoFarGood'
<1>0. /\ seen \in Seq(Symbols \cup {NUL}) /\ stack \in Seq(Symbols \cup {NUL}) /\ Turn(c) = 0
      /\ Len(seen) \in Nat /\ Len(stack) \in Nat /\ Len(seen') = Len(seen) + 1
  BY LenProperties, AppendProperties DEF BalanceTypeOK, Turn
<1>1. Len(stack) = Depth(seen, Len(seen))
  BY DEF HoldsUnclosed
<1>2. Depth(seen', Len(seen')) = Len(stack)
  BY <1>0, <1>1, DepthAppended
<1>3. ASSUME NEW d \in 1..Len(stack)
      PROVE  \E i \in 1..Len(seen') :
               /\ seen'[i] = stack[d] /\ seen'[i] \in Opening /\ Depth(seen', i) = d
               /\ \A n \in i..Len(seen') : Depth(seen', n) >= d
  <2>1. Depth(seen, Len(seen)) + Turn(c) >= d
    BY <1>0, <1>1
  <2> QED BY <1>0, <2>1, LevelStays
<1>4. SoFarGood'
  BY <1>0, <1>1, GoodSoFar
<1> QED BY <1>2, <1>3, <1>4 DEF HoldsUnclosed, Depth, Count

-----------------------------------------------------------------------------
(* The steps.                                                               *)

LEMMA BalanceInitInv == ASSUME BalanceInit PROVE BalanceInv
<1>1. code \in Seq(Symbols \cup {NUL})
  <2>1. ASSUME NEW S, NEW n, code \in SeqOf(S, n), S \subseteq Symbols \cup {NUL} PROVE code \in Seq(Symbols \cup {NUL})
    <3>1. PICK m \in 0..n : code \in [1..m -> S]
      BY <2>1 DEF SeqOf
    <3>2. m \in Nat /\ code \in [1..m -> Symbols \cup {NUL}]
      BY <2>1, <3>1
    <3> QED BY <3>2
  <2> QED BY <2>1 DEF BalanceInit
<1>2. BalanceTypeOK
  BY <1>1, EmptySeq DEF BalanceInit, BalanceTypeOK
<1>3. InPlace
  BY <1>1, LenProperties DEF BalanceInit, InPlace
<1>4. HoldsUnclosed /\ SoFarGood
  <2>1. Depth(<<>>, 0) = 0
    BY DepthNext
  <2>2. seen = <<>> /\ stack = <<>> /\ Len(<<>>) = 0 /\ 1..0 = {} /\ 0..0 = {0}
    BY DEF BalanceInit
  <2> QED BY <2>1, <2>2 DEF HoldsUnclosed, SoFarGood
<1>5. refused = FALSE /\ over = FALSE /\ verdict = "none" /\ Len(stack) <= Allocated
  BY BalanceAssumption DEF BalanceInit
<1> QED BY <1>2, <1>3, <1>4, <1>5 DEF BalanceInv

\* The file stays what it is, and so does what is said of it.
LEMMA SameFile ==
  ASSUME code' = code
  PROVE  (NoNul(code)' <=> NoNul(code)) /\ (Good(code)' <=> Good(code))
BY DEF NoNul, Good, Depth, Count

\* What the stack holds is a matter of the stack and of what was seen.
LEMMA SameStack ==
  ASSUME seen' = seen, stack' = stack
  PROVE  (HoldsUnclosed' <=> HoldsUnclosed) /\ (SoFarGood' <=> SoFarGood)
BY DEF HoldsUnclosed, SoFarGood, Depth, Count

LEMMA KeptByReadLine == ASSUME BalanceInv, ReadLine PROVE BalanceInv'
<1>0. /\ verdict = "none" /\ verdict' = "none" /\ todo = <<>> /\ unread # <<>>
      /\ todo' = LineOf(unread) /\ unread' = RestOf(unread)
      /\ UNCHANGED <<code, stack, over, refused, seen>> /\ BalanceTypeOK
  BY DEF ReadLine, BalanceInv
<1>1. LineOf(unread) \in Seq(Symbols \cup {NUL}) /\ RestOf(unread) \in Seq(Symbols \cup {NUL})
  BY <1>0, LineIsSeq DEF BalanceTypeOK
<1>2. BalanceTypeOK'
  BY <1>0, <1>1 DEF BalanceTypeOK
<1>3. ASSUME NoNul(code) PROVE InPlace'
  <2> DEFINE n == Len(seen)
             m == Taken(unread)
  <2>0. InPlace
    BY <1>3 DEF BalanceInv
  <2>1. /\ n \in Nat /\ Len(code) \in Nat /\ Len(unread) \in Nat /\ Len(todo) = 0
        /\ n + Len(unread) = Len(code)
        /\ \A i \in 1..Len(unread) : unread[i] = code[n + i] /\ n + i \in 1..Len(code)
    BY <1>0, <2>0, LenProperties DEF InPlace, BalanceTypeOK
  <2>2. \A i \in 1..Len(unread) : unread[i] # NUL
    BY <1>3, <2>1 DEF NoNul
  <2>3. /\ m \in 1..Len(unread)
        /\ Len(todo') = m /\ Len(unread') = Len(unread) - m
        /\ \A i \in 1..m : todo'[i] = unread[i]
        /\ \A i \in 1..(Len(unread) - m) : unread'[i] = unread[m + i]
    BY <1>0, <2>2, ReadsLine DEF BalanceTypeOK
  <2> HIDE DEF m, n
  <2>4. n + Len(todo') + Len(unread') = Len(code)
    BY <2>1, <2>3
  <2>5. ASSUME NEW i \in 1..Len(todo') PROVE todo'[i] = code[n + i]
    BY <2>1, <2>3
  <2>6. ASSUME NEW i \in 1..Len(unread') PROVE unread'[i] = code[n + Len(todo') + i]
    <3>1. m + i \in 1..Len(unread) /\ n + (m + i) = n + m + i
      BY <2>1, <2>3
    <3> QED BY <2>1, <2>3, <3>1
  <2> QED BY <1>0, <2>0, <2>4, <2>5, <2>6 DEF n, InPlace
<1> QED BY <1>0, <1>2, <1>3, SameFile, SameStack DEF BalanceInv

\* The place of what was seen goes on by a character.
LEMMA InPlaceGoesOn ==
  ASSUME BalanceTypeOK, InPlace, verdict = "none", todo # <<>>,
         seen' = Append(seen, Head(todo)), todo' = Tail(todo), UNCHANGED <<code, unread>>
  PROVE  InPlace'
<1> DEFINE n == Len(seen)
<1>1. /\ n \in Nat /\ Len(code) \in Nat /\ Len(unread) \in Nat /\ Len(todo) \in Nat \ {0}
      /\ n + Len(todo) + Len(unread) = Len(code)
      /\ \A i \in 1..n : seen[i] = code[i]
      /\ \A i \in 1..Len(todo) : todo[i] = code[n + i]
      /\ \A i \in 1..Len(unread) : unread[i] = code[n + Len(todo) + i]
  BY LenProperties, EmptySeq DEF InPlace, BalanceTypeOK
<1>2. /\ Len(todo') = Len(todo) - 1 /\ \A i \in 1..(Len(todo) - 1) : todo'[i] = todo[i + 1]
      /\ Head(todo) = todo[1] /\ Head(todo) \in Symbols \cup {NUL}
  BY HeadTailProperties DEF BalanceTypeOK
<1>3. Len(seen') = n + 1 /\ seen'[n + 1] = todo[1] /\ \A i \in 1..n : seen'[i] = seen[i]
  BY <1>2, AppendProperties DEF BalanceTypeOK
<1> HIDE DEF n
<1>4. ASSUME NEW i \in 1..(n + 1) PROVE seen'[i] = code[i]
  <2>1. CASE i = n + 1
    BY <1>1, <1>3, <2>1
  <2>2. CASE i # n + 1
    <3>1. i \in 1..n
      BY <1>1, <2>2
    <3> QED BY <1>1, <1>3, <3>1
  <2> QED BY <2>1, <2>2
<1>5. ASSUME NEW i \in 1..Len(todo') PROVE todo'[i] = code[(n + 1) + i]
  <2>1. i + 1 \in 1..Len(todo) /\ n + (i + 1) = (n + 1) + i /\ i \in 1..(Len(todo) - 1)
    BY <1>1, <1>2
  <2> QED BY <1>1, <1>2, <2>1
<1>6. ASSUME NEW i \in 1..Len(unread) PROVE unread[i] = code[(n + 1) + Len(todo') + i]
  <2>1. n + Len(todo) + i = (n + 1) + Len(todo') + i
    BY <1>1, <1>2
  <2> QED BY <1>1, <2>1
<1>7. n + 1 <= Len(code) /\ (n + 1) + Len(todo') + Len(unread) = Len(code)
  BY <1>1, <1>2
<1> QED BY <1>3, <1>4, <1>5, <1>6, <1>7 DEF InPlace

LEMMA KeptByScan == ASSUME BalanceInv, Scan PROVE BalanceInv'
<1> DEFINE c == Head(todo)
<1>0. /\ verdict = "none" /\ todo # <<>> /\ Look(c) /\ seen' = Append(seen, c) /\ todo' = Tail(todo)
      /\ UNCHANGED <<code, unread>> /\ BalanceTypeOK
  BY DEF Scan, BalanceInv, Look
<1>1. c \in Symbols \cup {NUL} /\ todo' \in Seq(Symbols \cup {NUL}) /\ seen' \in Seq(Symbols \cup {NUL})
  BY <1>0, HeadTailProperties, AppendProperties DEF BalanceTypeOK
<1>2. NoNul(code) => InPlace'
  BY <1>0, InPlaceGoesOn DEF BalanceInv
<1> HIDE DEF c
<1>3. CASE c \in Opening /\ verdict' = "none" /\ stack_push(c)
  <2>1. CASE stack_is_full /\ refused' = TRUE /\ UNCHANGED <<stack, over>>
    <3>1. over
      <4>1. stack \in Seq(Symbols \cup {NUL}) /\ Len(stack) \in Nat
        BY <1>0, LenProperties DEF BalanceTypeOK
      <4> QED BY <2>1, <4>1, BalanceAssumption DEF BalanceInv, stack_is_full, top
    <3> QED BY <1>0, <1>1, <1>2, <1>3, <2>1, <3>1, SameFile DEF BalanceInv, BalanceTypeOK
  <2>2. CASE /\ ~stack_is_full /\ stack' = Append(stack, c)
             /\ over' = (over \/ top + 1 >= Allocated) /\ UNCHANGED refused
    <3>1. /\ stack' \in Seq(Symbols \cup {NUL}) /\ Len(stack') = Len(stack) + 1 /\ Len(stack) \in Nat
      BY <1>0, <1>1, <2>2, AppendProperties, LenProperties DEF BalanceTypeOK
    <3>2. over' \in BOOLEAN /\ (over => over')
      BY <1>0, <2>2 DEF BalanceTypeOK
    <3>3. BalanceTypeOK'
      BY <1>0, <1>1, <1>3, <2>2, <3>1, <3>2 DEF BalanceTypeOK
    <3>4. ASSUME ~over' PROVE Len(stack') <= Allocated /\ HoldsUnclosed' /\ SoFarGood'
      <4>1. ~over /\ ~(top + 1 >= Allocated)
        BY <2>2, <3>4
      <4>2. Len(stack') <= Allocated
        BY <3>1, <4>1, BalanceAssumption DEF top
      <4> QED BY <1>0, <1>1, <1>3, <2>2, <4>1, <4>2, HoldsPushed DEF BalanceInv
    <3> QED BY <1>0, <1>2, <1>3, <2>2, <3>2, <3>3, <3>4, SameFile DEF BalanceInv
  <2> QED BY <1>3, <2>1, <2>2 DEF stack_push
<1>4. CASE c \in Closing /\ stack_is_empty /\ verdict' = "fail" /\ stack_destory
  <2>1. stack' = <<>> /\ over' = over /\ refused' = refused /\ stack' \in Seq(Symbols \cup {NUL}) /\ Len(stack') = 0
    BY <1>4, EmptySeq DEF stack_destory
  <2>2. BalanceTypeOK'
    BY <1>0, <1>1, <1>4, <2>1 DEF BalanceTypeOK
  <2>3. ASSUME ~over, NoNul(code) PROVE ~Good(code)
    <3>1. Len(stack) \in Nat /\ Len(stack) = 0 /\ Len(seen) \in Nat /\ Len(code) \in Nat
      BY <1>0, <1>4, LenProperties DEF stack_is_empty, top, BalanceTypeOK
    <3>2. Depth(seen, Len(seen)) = 0 /\ Turn(c) = -1
      BY <1>0, <1>4, <2>3, <3>1, BalanceAssumption DEF BalanceInv, HoldsUnclosed, Turn
    <3>3. Depth(seen', Len(seen) + 1) = -1 /\ Len(seen') = Len(seen) + 1
      <4>1. seen \in Seq(Symbols \cup {NUL}) /\ seen' = Append(seen, c)
        BY <1>0 DEF BalanceTypeOK
      <4>2. /\ Depth(Append(seen, c), Len(seen) + 1) = Depth(seen, Len(seen)) + Turn(c)
            /\ Len(Append(seen, c)) = Len(seen) + 1
        BY <1>1, <4>1, DepthAppended
      <4> QED BY <3>2, <4>1, <4>2
    <3>4. Len(seen') <= Len(code) /\ \A i \in 1..Len(seen') : seen'[i] = code[i]
      BY <1>0, <1>2, <2>3 DEF InPlace
    <3>5. Depth(seen', Len(seen')) = Depth(code, Len(seen'))
      BY <3>4, DepthSame
    <3>6. Len(seen') \in 0..Len(code) /\ ~(Depth(code, Len(seen')) >= 0)
      BY <3>1, <3>3, <3>4, <3>5
    <3> QED BY <3>6 DEF Good
  <2>4. ASSUME ~over' PROVE VerdictGiven'
    BY <1>0, <1>4, <2>1, <2>3, <2>4, SameFile DEF VerdictGiven
  <2>5. 0 <= Allocated
    BY BalanceAssumption
  <2> QED BY <1>0, <1>2, <1>4, <2>1, <2>2, <2>4, <2>5, SameFile DEF BalanceInv
<1>5. CASE c \in Closing /\ ~stack_is_empty /\ stack_pop /\ verdict' = "none"
  <2>1. stack' = Front(stack) /\ over' = over /\ refused' = refused /\ stack # <<>>
    BY <1>5 DEF stack_pop, stack_is_empty, top
  <2>2. stack' \in Seq(Symbols \cup {NUL}) /\ Len(stack') = Len(stack) - 1 /\ Len(stack) \in Nat
    BY <1>0, <2>1, FrontIsSeq, LenProperties DEF BalanceTypeOK
  <2>3. BalanceTypeOK'
    BY <1>0, <1>1, <1>5, <2>1, <2>2 DEF BalanceTypeOK
  <2>4. ASSUME ~over PROVE HoldsUnclosed' /\ SoFarGood'
    BY <1>0, <1>1, <1>5, <2>1, <2>4, HoldsPopped DEF BalanceInv
  <2>5. Len(stack) <= Allocated => Len(stack') <= Allocated
    BY <2>2, BalanceAssumption
  <2> QED BY <1>0, <1>2, <1>5, <2>1, <2>3, <2>4, <2>5, SameFile DEF BalanceInv
<1>6. CASE c \notin Opening /\ c \notin Closing /\ UNCHANGED <<stack, over, refused, verdict>>
  <2>1. BalanceTypeOK'
    BY <1>0, <1>1, <1>6 DEF BalanceTypeOK
  <2>2. ASSUME ~over PROVE HoldsUnclosed' /\ SoFarGood'
    BY <1>0, <1>1, <1>6, <2>2, HoldsOther DEF BalanceInv
  <2> QED BY <1>0, <1>2, <1>6, <2>1, <2>2, SameFile DEF BalanceInv
<1> QED BY <1>0, <1>3, <1>4, <1>5, <1>6 DEF Look, bs_flag

LEMMA KeptByConclude == ASSUME BalanceInv, Conclude PROVE BalanceInv'
<1>0. /\ verdict = "none" /\ todo = <<>> /\ unread = <<>>
      /\ verdict' = (IF stack_is_empty THEN "ok" ELSE "fail")
      /\ stack' = <<>> /\ UNCHANGED <<over, refused, code, unread, todo, seen>> /\ BalanceTypeOK
  BY DEF Conclude, stack_destory, BalanceInv
<1>1. stack' \in Seq(Symbols \cup {NUL}) /\ Len(stack') = 0 /\ 0 <= Allocated
  BY <1>0, EmptySeq, BalanceAssumption
<1>2. BalanceTypeOK' /\ verdict' # "none"
  BY <1>0, <1>1 DEF BalanceTypeOK
<1>3. NoNul(code) => InPlace'
  BY <1>0, <1>2 DEF BalanceInv, InPlace
<1>4. ASSUME ~over, NoNul(code) PROVE Good(code) <=> stack_is_empty
  <2>1. /\ Len(seen) \in Nat /\ Len(code) \in Nat /\ Len(seen) = Len(code) /\ Len(stack) \in Nat
        /\ \A i \in 1..Len(code) : seen[i] = code[i]
    BY <1>0, <1>4, LenProperties DEF BalanceInv, InPlace, BalanceTypeOK
  <2>2. ASSUME NEW n \in 0..Len(code) PROVE Depth(seen, n) = Depth(code, n)
    <3>1. \A i \in 1..n : seen[i] = code[i]
      BY <2>1
    <3> QED BY <3>1, DepthSame
  <2>3. SoFarGood /\ Len(stack) = Depth(seen, Len(seen))
    BY <1>0, <1>4 DEF BalanceInv, HoldsUnclosed
  <2>4. Len(code) \in 0..Len(code) /\ (stack_is_empty <=> Len(stack) = 0)
    BY <2>1 DEF stack_is_empty, top
  <2> QED BY <2>1, <2>2, <2>3, <2>4 DEF Good, SoFarGood
<1>5. ASSUME ~over PROVE VerdictGiven'
  BY <1>0, <1>4, <1>5, SameFile DEF VerdictGiven
<1> QED BY <1>0, <1>1, <1>2, <1>3, <1>5, SameFile DEF BalanceInv

LEMMA BalanceStep == ASSUME BalanceInv, [BalanceNext]_balanceVars PROVE BalanceInv'
<1>1. CASE Corrupted
  <2>1. BalanceTypeOK' /\ over' /\ (NoNul(code) => InPlace')
    BY <1>1 DEF Corrupted, BalanceInv, BalanceTypeOK, InPlace
  <2> QED BY <1>1, <2>1, SameFile DEF Corrupted, BalanceInv
<1>2. CASE UNCHANGED balanceVars
  <2>1. UNCHANGED <<code, unread, todo, stack, over, refused, verdict, seen>>
    BY <1>2 DEF balanceVars
  <2>2. BalanceTypeOK' /\ (NoNul(code) => InPlace') /\ (VerdictGiven' <=> VerdictGiven)
    BY <2>1, SameFile DEF BalanceInv, BalanceTypeOK, InPlace, VerdictGiven
  <2> QED BY <2>1, <2>2, SameFile, SameStack DEF BalanceInv
<1> QED BY <1>1, <1>2, KeptByReadLine, KeptByScan, KeptByConclude DEF BalanceNext

\* Whatever the brackets, the file, the buffer and the size that was allocated: as long
\* as no push has written behind the allocation, the stack holds the brackets that are
\* still open and the verdict is right; and a push is refused only after one has.
THEOREM VerdictIsRight == BalanceSpec => []BalanceVerdict
<1>1. BalanceInit => BalanceInv
  BY BalanceInitInv
<1>2. BalanceInv /\ [BalanceNext]_balanceVars => BalanceInv'
  BY BalanceStep
<1>3. BalanceInv => BalanceVerdict
  <2> SUFFICES ASSUME BalanceInv PROVE BalanceVerdict
    OBVIOUS
  <2>1. ~Contains(code, NUL) => NoNul(code)
    BY DEF Contains, NoNul
  <2> QED BY <2>1 DEF BalanceInv, BalanceVerdict, VerdictGiven, Good
<1> QED BY <1>1, <1>2, <1>3, PTL DEF BalanceSpec

-----------------------------------------------------------------------------
(* The conversions of characters.                                           *)

\* The bytes of the first n units, none of which needs more than three.
Off(n) ==
  n + Cardinality({i \in 1..n : unic[i] >= 128}) + Cardinality({i \in 1..n : unic[i] >= 2048})

\* The bytes that a unit comes from.
IsFirst(b) == b < 128 \/ b \in 224..239
FirstBytes(n) == Cardinality({i \in 1..n : IsFirst(utf8[i])})

\* The first n units were read, those that are dropped left out.
ReadBack(n) ==
  /\ Len(pOutput) = Kept(n)
  /\ \A i \in 1..n : ~Dropped(unic[i]) => pOutput[Kept(i)] = unic[i]
  /\ \A i \in 1..n : ~Stops(unic[i])

\* What a byte of a text can be.
Octets == {b \in Nat : 0 < b /\ b < 256}

TextTypeOK ==
  /\ unic \in Seq(Units) /\ encoded \in 0..Len(unic) /\ utf8 \in Seq(Octets)
  /\ pos \in Nat /\ pOutput \in Seq(Int) /\ phase \in {"encode", "decode", "done"}

OtherInv ==
  unic = <<>> => /\ phase # "encode" /\ Len(pOutput) = FirstBytes(pos)
                 /\ phase = "done" => pos = Len(utf8)

ConvertedInv ==
  unic # <<>> =>
    /\ Len(utf8) = Off(encoded)
    /\ \A i \in 1..encoded : \A h \in 1..Size(unic[i]) :
         utf8[Off(i - 1) + h] = enc_unicode_to_utf8_one(unic[i])[h]
    /\ phase = "encode" => pos = 0 /\ pOutput = <<>>
    /\ phase # "encode" => encoded = Len(unic)
    /\ phase = "decode" => \E n \in 0..Len(unic) : pos = Off(n) /\ ReadBack(n)
    /\ phase = "done" => ReadBack(Len(unic))

TextInv == TextTypeOK /\ pos <= Len(utf8) /\ OtherInv /\ ConvertedInv

\* No unit is 0, and none has more than 16 bits.
LEMMA UnitIs ==
  ASSUME NEW c \in Units
  PROVE  c \in Nat /\ 1 <= c /\ c < 65536
BY TextAssumption

\* Sets of a few elements.
LEMMA Few ==
  ASSUME NEW x1, NEW x2, NEW x3, NEW x4
  PROVE  /\ IsFiniteSet({x1}) /\ Cardinality({x1}) = 1
         /\ x1 # x2 => IsFiniteSet({x1, x2}) /\ Cardinality({x1, x2}) = 2
         /\ IsFiniteSet({x1, x2, x3, x4})
<1>1. IsFiniteSet({x1}) /\ Cardinality({x1}) = 1
  BY FS_Singleton, Zenon
<1>2. /\ IsFiniteSet({x1} \cup {x2})
      /\ Cardinality({x1} \cup {x2}) = IF x2 \in {x1} THEN Cardinality({x1}) ELSE Cardinality({x1}) + 1
  BY <1>1, FS_AddElement
<1>3. IsFiniteSet(({x1} \cup {x2}) \cup {x3})
  BY <1>2, FS_AddElement
<1>4. IsFiniteSet((({x1} \cup {x2}) \cup {x3}) \cup {x4})
  BY <1>3, FS_AddElement
<1>5. {x1, x2} = {x1} \cup {x2} /\ {x1, x2, x3, x4} = (({x1} \cup {x2}) \cup {x3}) \cup {x4}
  OBVIOUS
<1> QED BY <1>1, <1>2, <1>4, <1>5

\* The quotient and the rest of a division by a power of two.
LEMMA Divided ==
  ASSUME NEW c \in Int, NEW m \in Nat \ {0}, NEW y \in Int, NEW z \in Nat, z < m, c = m * y + z
  PROVE  c \div m = y /\ c % m = z
OBVIOUS

LEMMA Division ==
  ASSUME NEW c \in Nat, NEW m \in Nat \ {0}
  PROVE  /\ c \div m \in Nat /\ c % m \in Nat /\ c % m < m
         /\ c = m * (c \div m) + (c % m)
OBVIOUS

\* The codes of two bytes begin at 128, those of three at 2048.
LEMMA SizeIs ==
  ASSUME NEW c \in Nat, c < 65536
  PROVE  /\ c < 128 => Size(c) = 1
         /\ c >= 128 /\ c < 2048 => Size(c) = 2
         /\ c >= 2048 => Size(c) = 3
<1> DEFINE L == {limit \in {128, 2048, 65536, 2097152, 67108864} : limit <= c}
<1>1. CASE c < 128
  <2>1. L = {}
    BY <1>1
  <2> HIDE DEF L
  <2>2. Cardinality(L) = 0
    BY <2>1, FS_EmptySet
  <2> QED BY <1>1, <2>2 DEF Size, L
<1>2. CASE c >= 128 /\ c < 2048
  <2> DEFINE w == 128
  <2>1. L = {w}
    BY <1>2
  <2> HIDE DEF L, w
  <2>2. Cardinality(L) = 1
    BY ONLY <2>1, Few
  <2> QED BY <1>2, <2>2 DEF Size, L
<1>3. CASE c >= 2048
  <2> DEFINE v == 128
             w == 2048
  <2>1. L = {v, w} /\ v # w
    BY <1>3
  <2> HIDE DEF L, v, w
  <2>2. Cardinality(L) = 2
    BY ONLY <2>1, Few
  <2> QED BY <1>3, <2>2 DEF Size, L
<1> QED BY <1>1, <1>2, <1>3

\* The bytes of the code of a character.

IsCode(c, code_c) ==
  /\ c < 128 => code_c[1] = c
  /\ c >= 128 /\ c < 2048 => code_c[1] = 192 + (c \div 64) /\ code_c[2] = 128 + (c % 64)
  /\ c >= 2048 => /\ code_c[1] = 224 + (c \div 4096)
                  /\ code_c[2] = 128 + ((c \div 64) % 64)
                  /\ code_c[3] = 128 + (c % 64)

LEMMA CodeIs ==
  ASSUME NEW c \in Nat, 1 <= c, c < 65536
  PROVE  /\ Size(c) \in 1..3 /\ Len(enc_unicode_to_utf8_one(c)) = Size(c)
         /\ enc_unicode_to_utf8_one(c) \in Seq(Octets)
         /\ IsCode(c, enc_unicode_to_utf8_one(c))
<1> DEFINE m == Size(c)
           At(h) == IF h = 1 THEN Lead[m] + (c \div Weight[m]) ELSE 128 + ((c \div Weight[m - h + 1]) % 64)
<1>1. /\ c < 128 => m = 1
      /\ c >= 128 /\ c < 2048 => m = 2
      /\ c >= 2048 => m = 3
  BY SizeIs
<1>2. enc_unicode_to_utf8_one(c) = [h \in 1..m |-> At(h)]
  BY DEF enc_unicode_to_utf8_one
<1> HIDE DEF m
<1>3. c < 128 => At(1) = c
  <2>1. Lead[1] = 0 /\ Weight[1] = 1 /\ c \div 1 = c
    BY DEF Lead, Weight
  <2> QED BY <1>1, <2>1
<1>4. c >= 128 /\ c < 2048 => At(1) = 192 + (c \div 64) /\ At(2) = 128 + (c % 64)
  <2>1. Lead[2] = 192 /\ Weight[2] = 64 /\ Weight[1] = 1 /\ c \div 1 = c
    BY DEF Lead, Weight
  <2>2. (2 - 2) + 1 = 1
    OBVIOUS
  <2> QED BY <1>1, <2>1, <2>2
<1>5. c >= 2048 => At(1) = 224 + (c \div 4096) /\ At(2) = 128 + ((c \div 64) % 64) /\ At(3) = 128 + (c % 64)
  <2>1. Lead[3] = 224 /\ Weight[3] = 4096 /\ Weight[2] = 64 /\ Weight[1] = 1 /\ c \div 1 = c
    BY DEF Lead, Weight
  <2>2. (3 - 2) + 1 = 2 /\ (3 - 3) + 1 = 1
    OBVIOUS
  <2> QED BY <1>1, <2>1, <2>2
<1>6. /\ c % 64 \in Nat /\ c % 64 < 64 /\ (c \div 64) % 64 \in Nat /\ (c \div 64) % 64 < 64
      /\ c \div 64 \in Nat /\ c < 2048 => c \div 64 < 32
      /\ c \div 4096 \in Nat /\ c \div 4096 < 16
  <2> DEFINE d == c \div 64
             rm == c % 64
             g == c \div 4096
             sm == c % 4096
  <2>1. d \in Nat /\ rm \in Nat /\ rm < 64 /\ c = 64 * d + rm
    BY Division
  <2>2. g \in Nat /\ sm \in Nat /\ sm < 4096 /\ c = 4096 * g + sm
    BY Division
  <2>3. d % 64 \in Nat /\ d % 64 < 64
    BY <2>1, Division
  <2> HIDE DEF d, rm, g, sm
  <2>4. c < 2048 => d < 32
    BY <2>1
  <2>5. g < 16
    BY <2>2
  <2> QED BY <2>1, <2>2, <2>3, <2>4, <2>5 DEF d, rm, g
<1> HIDE DEF At
<1>7. \A h \in 1..m : At(h) \in Nat /\ 1 <= At(h) /\ At(h) < 256
  <2> SUFFICES ASSUME NEW h \in 1..m PROVE At(h) \in Nat /\ 1 <= At(h) /\ At(h) < 256
    OBVIOUS
  <2>1. CASE c < 128
    <3>1. h = 1
      BY <1>1, <2>1
    <3> QED BY <1>3, <2>1, <3>1
  <2>2. CASE c >= 128 /\ c < 2048
    <3>1. h = 1 \/ h = 2
      BY <1>1, <2>2
    <3> QED BY <1>4, <1>6, <2>2, <3>1
  <2>3. CASE c >= 2048
    <3>1. h = 1 \/ h = 2 \/ h = 3
      BY <1>1, <2>3
    <3> QED BY <1>5, <1>6, <2>3, <3>1
  <2> QED BY <2>1, <2>2, <2>3
<1>8. m \in Nat /\ m \in 1..3
  BY <1>1
<1>9. enc_unicode_to_utf8_one(c) \in Seq(Octets) /\ Len(enc_unicode_to_utf8_one(c)) = m
  <2>1. \A h \in 1..m : At(h) \in Octets
    BY <1>7 DEF Octets
  <2>2. [h \in 1..m |-> At(h)] \in Seq(Octets)
    BY <1>8, <2>1, IsASeq
  <2> DEFINE u == [h \in 1..m |-> At(h)]
  <2>3. Len(u) = m /\ u \in Seq(Octets) /\ enc_unicode_to_utf8_one(c) = u
    BY <1>2, <1>8, <2>2
  <2> HIDE DEF u
  <2> QED BY <2>3
<1>10. \A h \in 1..m : enc_unicode_to_utf8_one(c)[h] = At(h)
  BY <1>2
<1>11. 1 \in 1..m /\ (c >= 128 => 2 \in 1..m) /\ (c >= 2048 => 3 \in 1..m)
  BY <1>1
<1>12. IsCode(c, enc_unicode_to_utf8_one(c))
  BY <1>3, <1>4, <1>5, <1>10, <1>11 DEF IsCode
<1> QED BY <1>8, <1>9, <1>12 DEF m

\* How many bytes a first byte announces.
LEMMA AnnouncedIs ==
  ASSUME NEW b \in Nat
  PROVE  /\ enc_get_utf8_size(b) \in Nat
         /\ b < 128 <=> enc_get_utf8_size(b) = 1
         /\ b >= 128 /\ b < 192 <=> enc_get_utf8_size(b) = 0
         /\ b >= 192 /\ b < 224 <=> enc_get_utf8_size(b) = 2
         /\ b >= 224 /\ b < 240 <=> enc_get_utf8_size(b) = 3
<1> DEFINE A == {224, 240, 248, 252}
           F == {first \in A : first <= b}
<1>0. IsFiniteSet(A) /\ F \in SUBSET A
  <2>1. \A x1, x2, x3, x4 : IsFiniteSet({x1, x2, x3, x4})
    BY Few, Zenon
  <2> DEFINE y1 == 224
             y2 == 240
             y3 == 248
             y4 == 252
  <2>2. A = {y1, y2, y3, y4}
    OBVIOUS
  <2> HIDE DEF y1, y2, y3, y4, A
  <2>3. IsFiniteSet(A)
    BY <2>1, <2>2
  <2> QED BY <2>3 DEF A
<1>1. IsFiniteSet(F) /\ Cardinality(F) \in Nat
  <2> HIDE DEF F, A
  <2> QED BY <1>0, FS_Subset, FS_CardinalityType
<1>2. b >= 192 => enc_get_utf8_size(b) = 2 + Cardinality(F)
  BY DEF enc_get_utf8_size
<1>3. b < 192 => enc_get_utf8_size(b) = IF b < 128 THEN 1 ELSE 0
  BY DEF enc_get_utf8_size
<1>4. b >= 192 /\ b < 224 => Cardinality(F) = 0
  <2>1. b < 224 => F = {}
    OBVIOUS
  <2> HIDE DEF F
  <2> QED BY <2>1, FS_EmptySet
<1>5. b >= 224 /\ b < 240 => Cardinality(F) = 1
  <2>1. b >= 224 /\ b < 240 => F = {224}
    OBVIOUS
  <2> HIDE DEF F
  <2> QED BY <2>1, Few
<1>6. b >= 240 => Cardinality(F) >= 2
  <2> DEFINE v == 224
             w == 240
  <2>1. (b >= 240 => {v, w} \in SUBSET F) /\ v # w
    OBVIOUS
  <2> HIDE DEF F, v, w
  <2>2. Cardinality({v, w}) = 2
    BY <2>1, Few
  <2>3. b >= 240 => Cardinality({v, w}) <= Cardinality(F)
    BY <1>1, <2>1, FS_Subset
  <2> QED BY <1>1, <2>2, <2>3
<1> HIDE DEF F
<1> QED BY <1>1, <1>2, <1>3, <1>4, <1>5, <1>6

\* The unit that the three bytes of a code give.
LEMMA ThreeBytes ==
  ASSUME NEW c \in Nat, 2048 <= c, c < 65536
  PROVE  LET b1 == 224 + (c \div 4096)
             b2 == 128 + ((c \div 64) % 64)
             b3 == 128 + (c % 64)
         IN  /\ b1 \in Nat /\ 224 <= b1 /\ b1 < 240 /\ b2 \div 64 = 2 /\ b3 \div 64 = 2
             /\ 256 * ((16 * b1 + ((b2 \div 4) % 16)) % 256) + ((64 * b2 + (b3 % 64)) % 256) = c
<1> DEFINE d == c \div 64
           e == c % 64
           a == d \div 64
           mid == d % 64
           g == mid \div 4
           v == mid % 4
<1>1. d \in Nat /\ e \in Nat /\ e < 64 /\ c = 64 * d + e
  BY Division
<1>2. a \in Nat /\ mid \in Nat /\ mid < 64 /\ d = 64 * a + mid
  BY <1>1, Division
<1>3. g \in Nat /\ v \in Nat /\ v < 4 /\ mid = 4 * g + v
  BY <1>2, Division
<1> HIDE DEF d, e, a, mid, g, v
<1>4. g < 16 /\ a < 16
  BY <1>1, <1>2, <1>3
<1>5. c \div 4096 = a
  <2>1. c = 4096 * a + (64 * mid + e) /\ 64 * mid + e \in Nat /\ 64 * mid + e < 4096
    BY <1>1, <1>2
  <2> QED BY <1>2, <2>1, Divided
<1>6. (128 + mid) \div 4 = 32 + g
  <2>1. 128 + mid = 4 * (32 + g) + v
    BY <1>3
  <2> QED BY <1>2, <1>3, <2>1, Divided
<1>7. (32 + g) % 16 = g
  <2>1. 32 + g = 16 * 2 + g
    BY <1>3
  <2> QED BY <1>3, <1>4, <2>1, Divided
<1>8. (16 * (224 + a) + g) % 256 = 16 * a + g
  <2>1. 16 * (224 + a) + g = 256 * 14 + (16 * a + g) /\ 16 * a + g \in Nat /\ 16 * a + g < 256
    BY <1>2, <1>3, <1>4
  <2> QED BY <1>2, <1>3, <2>1, Divided
<1>9. (64 * (128 + mid) + e) % 256 = 64 * v + e
  <2>1. 64 * (128 + mid) + e = 256 * (32 + g) + (64 * v + e) /\ 64 * v + e \in Nat /\ 64 * v + e < 256
    BY <1>1, <1>3
  <2> QED BY <1>1, <1>2, <1>3, <2>1, Divided
<1>10. (128 + e) % 64 = e /\ (128 + e) \div 64 = 2 /\ (128 + mid) \div 64 = 2
  <2>1. 128 + e = 64 * 2 + e /\ 128 + mid = 64 * 2 + mid
    BY <1>1, <1>2
  <2> QED BY <1>1, <1>2, <2>1, Divided
<1>11. 256 * (16 * a + g) + (64 * v + e) = c
  BY <1>1, <1>2, <1>3
<1>12. 224 + a \in Nat /\ 224 <= 224 + a /\ 224 + a < 240
  BY <1>2, <1>4
<1>13. c \div 64 = d /\ c % 64 = e /\ d % 64 = mid
  BY DEF d, e, mid
<1> QED BY <1>5, <1>6, <1>7, <1>8, <1>9, <1>10, <1>11, <1>12, <1>13

\* So a unit has up to three bytes.
LEMMA UnitSize == ASSUME NEW c \in Units PROVE Size(c) \in 1..3
BY UnitIs, CodeIs

\* Where the bytes of the next unit end, and how many units are kept with it.
LEMMA TextNextPlace ==
  ASSUME unic \in Seq(Units), NEW n \in Nat, n < Len(unic)
  PROVE  /\ unic[n + 1] \in Units
         /\ Off(0) = 0 /\ Off(n) \in Nat /\ Off(n + 1) = Off(n) + Size(unic[n + 1])
         /\ Kept(0) = 0 /\ Kept(n) \in Nat /\ Kept(n + 1) = Kept(n) + (IF Dropped(unic[n + 1]) THEN 0 ELSE 1)
<1> DEFINE W1 == {i \in 1..(n + 1) : unic[i] >= 128}
           W2 == {i \in 1..(n + 1) : unic[i] >= 2048}
           W3 == {i \in 1..(n + 1) : ~Dropped(unic[i])}
           c == unic[n + 1]
<1>1. c \in Units
  <2>1. Len(unic) \in Nat
    BY LenProperties
  <2>2. n + 1 \in 1..Len(unic)
    BY <2>1
  <2> QED BY <2>2, ElementOfSeq
<1>2. c \in Nat /\ c < 65536
  BY <1>1, UnitIs
<1>3. \A h \in {0, n, n + 1} : /\ {i \in 1..h : unic[i] >= 128} = (1..h) \cap W1
                               /\ {i \in 1..h : unic[i] >= 2048} = (1..h) \cap W2
                               /\ {i \in 1..h : ~Dropped(unic[i])} = (1..h) \cap W3
  OBVIOUS
<1>4. (n + 1 \in W1 <=> c >= 128) /\ (n + 1 \in W2 <=> c >= 2048) /\ (n + 1 \in W3 <=> ~Dropped(c))
  OBVIOUS
<1> HIDE DEF W1, W2, W3, c
<1>5. \A h \in {0, n, n + 1} : /\ Off(h) = h + HowMany(1..h, W1) + HowMany(1..h, W2)
                               /\ Kept(h) = HowMany(1..h, W3)
  BY <1>3 DEF Off, Kept, HowMany
<1>6. /\ HowMany(1..n, W1) \in Nat /\ HowMany(1..0, W1) = 0
      /\ HowMany(1..(n + 1), W1) = HowMany(1..n, W1) + (IF c >= 128 THEN 1 ELSE 0)
  BY <1>4, CountNext
<1>7. /\ HowMany(1..n, W2) \in Nat /\ HowMany(1..0, W2) = 0
      /\ HowMany(1..(n + 1), W2) = HowMany(1..n, W2) + (IF c >= 2048 THEN 1 ELSE 0)
  BY <1>4, CountNext
<1>8. /\ HowMany(1..n, W3) \in Nat /\ HowMany(1..0, W3) = 0
      /\ HowMany(1..(n + 1), W3) = HowMany(1..n, W3) + (IF Dropped(c) THEN 0 ELSE 1)
  BY <1>4, CountNext
<1>9. Size(c) = 1 + (IF c >= 128 THEN 1 ELSE 0) + (IF c >= 2048 THEN 1 ELSE 0)
  BY <1>2, SizeIs
<1>10. Off(0) = 0 /\ Off(n) \in Nat /\ Off(n + 1) = Off(n) + Size(c)
  <2>1. /\ Off(0) = 0 + HowMany(1..0, W1) + HowMany(1..0, W2)
        /\ Off(n) = n + HowMany(1..n, W1) + HowMany(1..n, W2)
        /\ Off(n + 1) = (n + 1) + HowMany(1..(n + 1), W1) + HowMany(1..(n + 1), W2)
    BY <1>5
  <2> DEFINE a0 == HowMany(1..n, W1)
             b0 == HowMany(1..n, W2)
             a1 == HowMany(1..(n + 1), W1)
             b1 == HowMany(1..(n + 1), W2)
             da == IF c >= 128 THEN 1 ELSE 0
             db == IF c >= 2048 THEN 1 ELSE 0
  <2>2. a0 \in Nat /\ b0 \in Nat /\ a1 = a0 + da /\ b1 = b0 + db /\ da \in Nat /\ db \in Nat
    BY <1>6, <1>7
  <2>3. Off(n) = n + a0 + b0 /\ Off(n + 1) = (n + 1) + a1 + b1 /\ Size(c) = 1 + da + db
    BY <1>9, <2>1
  <2>4. Off(0) = 0
    BY <1>6, <1>7, <2>1
  <2> HIDE DEF a0, b0, a1, b1, da, db
  <2> QED BY <2>2, <2>3, <2>4
<1>11. Kept(0) = 0 /\ Kept(n) \in Nat /\ Kept(n + 1) = Kept(n) + (IF Dropped(c) THEN 0 ELSE 1)
  BY <1>5, <1>8
<1> QED BY <1>1, <1>10, <1>11 DEF c

\* The places of the units follow each other, and so do those of the units kept.
LEMMA TextPlaces ==
  ASSUME unic \in Seq(Units), NEW m \in Nat, NEW n \in Nat, m <= n, n <= Len(unic)
  PROVE  /\ Off(m) \in Nat /\ Off(n) \in Nat /\ Off(m) <= Off(n) /\ (m < n => Off(m) < Off(n))
         /\ Kept(m) \in Nat /\ Kept(n) \in Nat /\ Kept(m) <= Kept(n)
<1> DEFINE W1 == {i \in 1..n : unic[i] >= 128}
           W2 == {i \in 1..n : unic[i] >= 2048}
           W3 == {i \in 1..n : ~Dropped(unic[i])}
<1>1. \A h \in {m, n} : /\ {i \in 1..h : unic[i] >= 128} = (1..h) \cap W1
                        /\ {i \in 1..h : unic[i] >= 2048} = (1..h) \cap W2
                        /\ {i \in 1..h : ~Dropped(unic[i])} = (1..h) \cap W3
  OBVIOUS
<1> HIDE DEF W1, W2, W3
<1>2. \A h \in {m, n} : /\ Off(h) = h + HowMany(1..h, W1) + HowMany(1..h, W2)
                        /\ Kept(h) = HowMany(1..h, W3)
  BY <1>1 DEF Off, Kept, HowMany
<1>3. HowMany(1..m, W1) \in Nat /\ HowMany(1..n, W1) \in Nat /\ HowMany(1..m, W1) <= HowMany(1..n, W1)
  BY CountGrows
<1>4. HowMany(1..m, W2) \in Nat /\ HowMany(1..n, W2) \in Nat /\ HowMany(1..m, W2) <= HowMany(1..n, W2)
  BY CountGrows
<1>5. HowMany(1..m, W3) \in Nat /\ HowMany(1..n, W3) \in Nat /\ HowMany(1..m, W3) <= HowMany(1..n, W3)
  BY CountGrows
<1> QED BY <1>2, <1>3, <1>4, <1>5

\* The unit i has its bytes between its place and the next one.
LEMMA CodePlaces ==
  ASSUME unic \in Seq(Units), NEW n \in 0..Len(unic), NEW i \in 1..n, NEW h \in 1..Size(unic[i])
  PROVE  /\ Off(i - 1) + h \in 1..Off(n)
         /\ ~Dropped(unic[i]) => Kept(i) \in 1..Kept(n)
<1>1. Len(unic) \in Nat
  BY LenProperties
<1> DEFINE m == i - 1
<1>2. m \in Nat /\ m < Len(unic) /\ m + 1 = i /\ i <= n /\ n <= Len(unic) /\ i \in Nat /\ n \in Nat
  BY <1>1
<1> HIDE DEF m
<1>3. Off(m) \in Nat /\ Off(i) = Off(m) + Size(unic[i]) /\ unic[i] \in Units
  BY <1>2, TextNextPlace
<1>4. Kept(m) \in Nat /\ Kept(i) = Kept(m) + (IF Dropped(unic[i]) THEN 0 ELSE 1)
  BY <1>2, TextNextPlace
<1>5. Off(i) <= Off(n) /\ Kept(i) <= Kept(n) /\ Kept(n) \in Nat /\ Off(n) \in Nat
  BY <1>2, TextPlaces
<1>6. Size(unic[i]) \in Nat
  BY <1>3, UnitIs, CodeIs
<1>7. Off(m) + h \in 1..Off(n)
  BY <1>3, <1>5, <1>6
<1>8. ~Dropped(unic[i]) => Kept(i) \in 1..Kept(n)
  BY <1>4, <1>5
<1> QED BY <1>7, <1>8 DEF m

\* The places depend on the text alone.
LEMMA SameText ==
  ASSUME unic' = unic
  PROVE  \A n : /\ Off(n)' = Off(n) /\ Kept(n)' = Kept(n)
                /\ Size(unic[n])' = Size(unic[n])
                /\ Dropped(unic[n])' = Dropped(unic[n]) /\ Stops(unic[n])' = Stops(unic[n])
                /\ enc_unicode_to_utf8_one(unic[n])' = enc_unicode_to_utf8_one(unic[n])
BY DEF Off, Kept, Dropped, Stops, Size, enc_unicode_to_utf8_one

\* The 0 behind the bytes is the only one.
LEMMA ByteIs ==
  ASSUME TextTypeOK, pos <= Len(utf8), NEW i \in Nat
  PROVE  /\ Byte(i) \in Nat /\ Byte(i) < 256
         /\ Byte(i) # 0 <=> pos + i < Len(utf8)
         /\ Byte(i) # 0 => Byte(i) = utf8[pos + i + 1]
<1>1. Len(utf8) \in Nat /\ pos \in Nat
  BY LenProperties DEF TextTypeOK
<1>2. CASE pos + i < Len(utf8)
  <2>1. pos + i + 1 \in 1..Len(utf8)
    BY <1>1, <1>2
  <2>2. utf8[pos + i + 1] \in Octets
    BY <2>1, ElementOfSeq DEF TextTypeOK
  <2> QED BY <1>2, <2>2 DEF Byte, Octets
<1>3. CASE ~(pos + i < Len(utf8))
  BY <1>3 DEF Byte
<1> QED BY <1>2, <1>3

\* Whatever the bytes are, a code that is accepted ends before the NUL, and of its
\* bytes only the first can be one that a unit comes from.
LEMMA CodeEnds ==
  ASSUME TextTypeOK, pos <= Len(utf8), Byte(0) # 0, utfbytes # 0
  PROVE  /\ pos < Len(utf8) /\ Byte(0) = utf8[pos + 1]
         /\ utfbytes = enc_get_utf8_size(Byte(0))
         /\ utfbytes \in Nat /\ pos + utfbytes <= Len(utf8)
         /\ \A e \in (pos + 2)..(pos + utfbytes) : ~IsFirst(utf8[e])
<1> DEFINE m == enc_get_utf8_size(Byte(0))
<1>0. Len(utf8) \in Nat /\ pos \in Nat
  BY LenProperties DEF TextTypeOK
<1>1. pos < Len(utf8) /\ Byte(0) = utf8[pos + 1] /\ Byte(0) \in Nat
  <2>1. Byte(0) \in Nat /\ pos + 0 < Len(utf8) /\ Byte(0) = utf8[pos + 0 + 1]
    BY ByteIs
  <2> QED BY <1>0, <2>1
<1>2. utfbytes = m /\ Followed(m) /\ m # 0
  BY DEF utfbytes
<1>3. m \in Nat
  BY <1>1, AnnouncedIs
<1> HIDE DEF m
<1>4. \A i \in 1..(m - 1) : Byte(i) # 0 /\ ~IsFirst(Byte(i))
  <2> SUFFICES ASSUME NEW i \in 1..(m - 1) PROVE Byte(i) # 0 /\ ~IsFirst(Byte(i))
    OBVIOUS
  <2>1. i \in Nat
    BY <1>3
  <2> DEFINE b == Byte(i)
  <2>2. b \in Nat /\ b < 256
    BY <2>1, ByteIs
  <2>3. CASE m = 2
    <3>1. i = 1 /\ b \div 32 = 4
      BY <1>2, <2>3 DEF Followed
    <3>2. b = 32 * (b \div 32) + (b % 32) /\ b % 32 \in Nat /\ b % 32 < 32
      BY <2>2, Division
    <3> HIDE DEF b
    <3>3. b >= 128 /\ b < 160
      BY <2>2, <3>1, <3>2
    <3>4. b # 0 /\ ~(b < 128) /\ b \notin 224..239
      BY <2>2, <3>3
    <3> QED BY <3>4 DEF IsFirst, b
  <2>4. CASE m # 2
    <3>1. b \div 64 = 2
      BY <1>2, <2>4 DEF Followed
    <3>2. b = 64 * (b \div 64) + (b % 64) /\ b % 64 \in Nat /\ b % 64 < 64
      BY <2>2, Division
    <3> HIDE DEF b
    <3>3. b >= 128 /\ b < 192
      BY <2>2, <3>1, <3>2
    <3>4. b # 0 /\ ~(b < 128) /\ b \notin 224..239
      BY <2>2, <3>3
    <3> QED BY <3>4 DEF IsFirst, b
  <2> QED BY <2>3, <2>4
<1>5. pos + m <= Len(utf8)
  <2>1. CASE m = 1
    BY <1>0, <1>1, <2>1
  <2>2. CASE m # 1
    <3>1. m - 1 \in 1..(m - 1) /\ m - 1 \in Nat
      BY <1>2, <1>3, <2>2
    <3>2. Byte(m - 1) # 0
      BY <1>4, <3>1
    <3>3. pos + (m - 1) < Len(utf8)
      BY <3>1, <3>2, ByteIs
    <3> QED BY <1>0, <1>3, <3>3
  <2> QED BY <2>1, <2>2
<1>6. ASSUME NEW e \in (pos + 2)..(pos + m) PROVE ~IsFirst(utf8[e])
  <2> DEFINE i == (e - pos) - 1
  <2>1. i \in 1..(m - 1) /\ i \in Nat /\ pos + i + 1 = e
    BY <1>0, <1>3
  <2> HIDE DEF i
  <2>2. Byte(i) # 0 /\ ~IsFirst(Byte(i)) /\ Byte(i) = utf8[pos + i + 1]
    BY <1>4, <2>1, ByteIs
  <2> QED BY <2>1, <2>2
<1> QED BY <1>1, <1>2, <1>3, <1>5, <1>6 DEF m

\* What is read where the bytes of the unit n + 1 begin: it, unless its code has two
\* bytes; such a code is refused when its second byte does not begin with 100.
LEMMA ReadsCode ==
  ASSUME TextInv, phase = "decode", NEW n \in Nat, n < Len(unic), pos = Off(n)
  PROVE  /\ Byte(0) # 0
         /\ utfbytes = IF Stops(unic[n + 1]) THEN 0 ELSE Size(unic[n + 1])
         /\ ~Dropped(unic[n + 1]) => utfbytes \in {1, 3} /\ enc_utf8_to_unicode_one = unic[n + 1]
         /\ Dropped(unic[n + 1]) => utfbytes \notin {1, 3}
<1> DEFINE c == unic[n + 1]
           code_c == enc_unicode_to_utf8_one(c)
<1>1. /\ unic \in Seq(Units) /\ unic # <<>> /\ encoded = Len(unic) /\ Len(unic) \in Nat
      /\ Len(utf8) = Off(encoded) /\ TextTypeOK /\ pos <= Len(utf8)
  <2>1. unic \in Seq(Units) /\ Len(unic) \in Nat
    BY LenProperties DEF TextInv, TextTypeOK
  <2>2. unic # <<>>
    <3>1. Len(<<>>) = 0
      OBVIOUS
    <3> QED BY <2>1, <3>1
  <2> QED BY <2>1, <2>2 DEF TextInv, ConvertedInv
<1>2. c \in Nat /\ 1 <= c /\ c < 65536
  BY <1>1, TextNextPlace, UnitIs
<1>3. /\ Size(c) \in 1..3 /\ code_c \in Seq(Octets) /\ Len(code_c) = Size(c)
  BY <1>2, CodeIs
<1>4. pos \in Nat /\ pos + Size(c) <= Len(utf8)
  <2>1. n + 1 \in Nat /\ n + 1 <= encoded
    BY <1>1
  <2>2. Off(n) \in Nat /\ Off(n + 1) = Off(n) + Size(c)
    BY <1>1, TextNextPlace
  <2>3. Off(n + 1) <= Off(encoded)
    BY <1>1, <2>1, TextPlaces
  <2> QED BY <1>1, <2>2, <2>3
<1>5. \A h \in 1..Size(c) : utf8[pos + h] = code_c[h]
  <2>1. n + 1 \in 1..encoded /\ (n + 1) - 1 = n
    BY <1>1
  <2>2. \A h \in 1..Size(c) : utf8[Off((n + 1) - 1) + h] = code_c[h]
    BY <1>1, <2>1 DEF TextInv, ConvertedInv
  <2> QED BY <2>1, <2>2
<1>6. \A i \in 0..(Size(c) - 1) : Byte(i) = code_c[i + 1]
  <2> SUFFICES ASSUME NEW i \in 0..(Size(c) - 1) PROVE Byte(i) = code_c[i + 1]
    OBVIOUS
  <2>1. i + 1 \in 1..Size(c) /\ pos + i < Len(utf8) /\ pos + i + 1 = pos + (i + 1)
    BY <1>1, <1>3, <1>4
  <2> HIDE DEF c, code_c
  <2> QED BY <1>5, <2>1 DEF Byte
<1>7. Byte(0) = code_c[1] /\ (Size(c) >= 2 => Byte(1) = code_c[2]) /\ (Size(c) = 3 => Byte(2) = code_c[3])
  <2>1. 0 \in 0..(Size(c) - 1) /\ (Size(c) >= 2 => 1 \in 0..(Size(c) - 1)) /\ (Size(c) = 3 => 2 \in 0..(Size(c) - 1))
    BY <1>3
  <2> HIDE DEF code_c, c
  <2>2. 0 + 1 = 1 /\ 1 + 1 = 2 /\ 2 + 1 = 3
    OBVIOUS
  <2> QED BY <1>6, <2>1, <2>2
<1> HIDE DEF c
<1>8. /\ c < 128 => Size(c) = 1
      /\ c >= 128 /\ c < 2048 => Size(c) = 2
      /\ c >= 2048 => Size(c) = 3
  BY <1>2, SizeIs
<1>9. IsCode(c, code_c)
  BY <1>2, CodeIs
<1> HIDE DEF code_c
<1>10. CASE c < 128
  <2>1. Size(c) = 1 /\ Byte(0) = c
    BY <1>7, <1>8, <1>9, <1>10 DEF IsCode
  <2>2. enc_get_utf8_size(Byte(0)) = 1
    <3>1. enc_get_utf8_size(c) = 1
      BY <1>2, <1>10, AnnouncedIs
    <3> QED BY <2>1, <3>1
  <2>3. Followed(1)
    BY DEF Followed
  <2>4. utfbytes = 1
    BY <2>2, <2>3 DEF utfbytes
  <2>5. enc_utf8_to_unicode_one = c
    BY <2>1, <2>4 DEF enc_utf8_to_unicode_one
  <2>6. ~Dropped(c) /\ ~Stops(c)
    BY <2>1 DEF Dropped, Stops
  <2>7. Byte(0) # 0
    BY <1>2, <2>1
  <2> QED BY <2>1, <2>4, <2>5, <2>6, <2>7 DEF c
<1>11. CASE c >= 128 /\ c < 2048
  <2> DEFINE y == c \div 64
             z == c % 64
  <2>1. Size(c) = 2 /\ Byte(0) = 192 + y /\ Byte(1) = 128 + z
    BY <1>7, <1>8, <1>9, <1>11 DEF IsCode
  <2>2. y \in Nat /\ z \in Nat /\ z < 64 /\ c = 64 * y + z
    BY <1>2, Division
  <2> HIDE DEF y, z
  <2>3. y < 32 /\ Byte(0) \in Nat /\ 192 <= Byte(0) /\ Byte(0) < 224
    BY <1>11, <2>1, <2>2
  <2>4. enc_get_utf8_size(Byte(0)) = 2
    BY <2>3, AnnouncedIs
  <2>5. Byte(1) \div 32 = 4 <=> z < 32
    <3>1. CASE z < 32
      <4>1. 128 + z = 32 * 4 + z
        BY <2>2
      <4>2. (128 + z) \div 32 = 4
        BY <2>2, <3>1, <4>1, Divided
      <4> QED BY <2>1, <3>1, <4>2
    <3>2. CASE ~(z < 32)
      <4>1. 128 + z = 32 * 5 + (z - 32) /\ z - 32 \in Nat /\ z - 32 < 32
        BY <2>2, <3>2
      <4>2. (128 + z) \div 32 = 5
        BY <2>2, <4>1, Divided
      <4> QED BY <2>1, <3>2, <4>2
    <3> QED BY <3>1, <3>2
  <2>6. utfbytes = IF z < 32 THEN 2 ELSE 0
    BY <2>4, <2>5 DEF utfbytes, Followed
  <2>7. Dropped(c) /\ (Stops(c) <=> ~(z < 32))
    BY <2>1, <2>2 DEF Dropped, Stops, z
  <2>8. Byte(0) # 0
    BY <2>3
  <2> QED BY <2>1, <2>6, <2>7, <2>8 DEF c
<1>12. CASE c >= 2048
  <2> DEFINE b1 == 224 + (c \div 4096)
             b2 == 128 + ((c \div 64) % 64)
             b3 == 128 + (c % 64)
  <2>1. Size(c) = 3 /\ Byte(0) = b1 /\ Byte(1) = b2 /\ Byte(2) = b3
    BY <1>7, <1>8, <1>9, <1>12 DEF IsCode
  <2>2. /\ b1 \in Nat /\ 224 <= b1 /\ b1 < 240 /\ b2 \div 64 = 2 /\ b3 \div 64 = 2
        /\ 256 * ((16 * b1 + ((b2 \div 4) % 16)) % 256) + ((64 * b2 + (b3 % 64)) % 256) = c
    BY ONLY <1>2, <1>12, ThreeBytes
  <2> HIDE DEF b1, b2, b3
  <2>3. enc_get_utf8_size(Byte(0)) = 3
    BY <2>1, <2>2, AnnouncedIs
  <2>4. Followed(3)
    <3>1. \A i \in 1..(3 - 1) : i = 1 \/ i = 2
      OBVIOUS
    <3> QED BY <2>1, <2>2, <3>1 DEF Followed
  <2>5. utfbytes = 3
    BY <2>3, <2>4 DEF utfbytes
  <2>6. enc_utf8_to_unicode_one = c
    BY <2>1, <2>2, <2>5 DEF enc_utf8_to_unicode_one
  <2>7. ~Dropped(c) /\ ~Stops(c) /\ Byte(0) # 0
    BY <2>1, <2>2 DEF Dropped, Stops
  <2> QED BY <2>1, <2>5, <2>6, <2>7 DEF c
<1> QED BY <1>2, <1>10, <1>11, <1>12 DEF c

\* The first bytes among the first n.
LEMMA FirstNext ==
  ASSUME NEW n \in Nat
  PROVE  /\ FirstBytes(0) = 0 /\ FirstBytes(n) \in Nat
         /\ FirstBytes(n + 1) = FirstBytes(n) + (IF IsFirst(utf8[n + 1]) THEN 1 ELSE 0)
<1> DEFINE W == {i \in 1..(n + 1) : IsFirst(utf8[i])}
<1>1. /\ {i \in 1..n : IsFirst(utf8[i])} = (1..n) \cap W
      /\ {i \in 1..(n + 1) : IsFirst(utf8[i])} = (1..(n + 1)) \cap W
      /\ {i \in 1..0 : IsFirst(utf8[i])} = (1..0) \cap W
      /\ n + 1 \in W <=> IsFirst(utf8[n + 1])
  OBVIOUS
<1> HIDE DEF W
<1>2. /\ FirstBytes(n) = HowMany(1..n, W) /\ FirstBytes(0) = HowMany(1..0, W)
      /\ FirstBytes(n + 1) = HowMany(1..(n + 1), W)
  BY <1>1 DEF FirstBytes, HowMany
<1> QED BY <1>1, <1>2, CountNext

\* Passing over bytes none of which is a first one.
LEMMA FirstOver ==
  ASSUME NEW m \in Nat, NEW n \in Nat, m <= n, \A e \in (m + 1)..n : ~IsFirst(utf8[e])
  PROVE  FirstBytes(n) = FirstBytes(m)
<1>1. {i \in 1..n : IsFirst(utf8[i])} = {i \in 1..m : IsFirst(utf8[i])}
  <2>1. ASSUME NEW i \in 1..n, IsFirst(utf8[i]) PROVE i \in 1..m
    <3>1. i \notin (m + 1)..n
      BY <2>1
    <3> QED BY <3>1
  <2>2. \A i \in 1..m : i \in 1..n
    OBVIOUS
  <2> QED BY <2>1, <2>2
<1> QED BY <1>1 DEF FirstBytes

-----------------------------------------------------------------------------
(* The conversions, step by step.                                           *)

LEMMA TextInitInv == TextInit => TextInv
<1> SUFFICES ASSUME TextInit PROVE TextInv
  OBVIOUS
<1>1. MaxUnits \in Nat /\ MaxBytes \in Nat /\ Bytes \subseteq Octets
  BY TextAssumption DEF Octets
<1>2. \A S, m : m \in Nat => SeqOf(S, m) \subseteq Seq(S)
  BY DEF SeqOf
<1>3. Len(<<>>) = 0 /\ \A S : <<>> \in Seq(S)
  BY EmptySeq
<1>4. CASE phase = "encode"
  <2>1. unic \in Seq(Units) /\ unic # <<>> /\ utf8 = <<>> /\ encoded = 0 /\ pos = 0 /\ pOutput = <<>>
    BY <1>1, <1>2, <1>4 DEF TextInit
  <2>2. Len(unic) \in Nat \ {0}
    BY <2>1, EmptySeq
  <2>3. Off(0) = 0
    BY <2>1, <2>2, TextNextPlace
  <2>4. TextTypeOK /\ pos <= Len(utf8) /\ OtherInv
    BY <1>3, <1>4, <2>1, <2>2 DEF TextTypeOK, OtherInv
  <2>5. ConvertedInv
    BY <1>3, <1>4, <2>1, <2>3 DEF ConvertedInv
  <2> QED BY <2>4, <2>5 DEF TextInv
<1>5. CASE phase = "decode"
  <2>1. unic = <<>> /\ utf8 \in Seq(Bytes) /\ encoded = 0 /\ pos = 0 /\ pOutput = <<>>
    BY <1>1, <1>2, <1>5 DEF TextInit
  <2>2. utf8 \in Seq(Octets) /\ Len(utf8) \in Nat
    BY <1>1, <2>1, SeqMonotonic, LenProperties
  <2>3. FirstBytes(0) = 0
    BY FirstNext
  <2>4. TextTypeOK /\ pos <= Len(utf8) /\ OtherInv
    BY <1>3, <1>5, <2>1, <2>2, <2>3 DEF TextTypeOK, OtherInv
  <2> QED BY <2>1, <2>4 DEF TextInv, ConvertedInv
<1> QED BY <1>4, <1>5 DEF TextInit

\* unicode_to_utf8 writes the next unit behind the others.
LEMMA TextEncodes == TextInv /\ Encode => TextInv'
<1> SUFFICES ASSUME TextInv, Encode PROVE TextInv'
  OBVIOUS
<1> DEFINE c == unic[encoded + 1]
           code_c == enc_unicode_to_utf8_one(c)
<1>1. /\ phase = "encode" /\ encoded < Len(unic) /\ encoded' = encoded + 1 /\ utf8' = utf8 \o code_c
      /\ unic' = unic /\ pos' = pos /\ pOutput' = pOutput /\ phase' = phase
  BY DEF Encode
<1>2. /\ unic \in Seq(Units) /\ Len(unic) \in Nat /\ encoded \in 0..Len(unic) /\ utf8 \in Seq(Octets)
      /\ Len(utf8) \in Nat /\ unic # <<>> /\ pos = 0 /\ pOutput = <<>>
      /\ Len(utf8) = Off(encoded)
      /\ \A i \in 1..encoded : \A h \in 1..Size(unic[i]) : utf8[Off(i - 1) + h] = enc_unicode_to_utf8_one(unic[i])[h]
  BY <1>1, LenProperties DEF TextInv, TextTypeOK, OtherInv, ConvertedInv
<1>3. encoded \in Nat /\ c \in Units /\ Off(encoded) \in Nat /\ Off(encoded + 1) = Off(encoded) + Size(c)
  BY <1>1, <1>2, TextNextPlace
<1>4. code_c \in Seq(Octets) /\ Len(code_c) = Size(c) /\ Size(c) \in Nat
  BY <1>3, UnitIs, CodeIs
<1> HIDE DEF code_c
<1>5. /\ utf8' \in Seq(Octets) /\ Len(utf8') = Off(encoded + 1) /\ Len(utf8') \in Nat
      /\ \A i \in 1..Len(utf8) : utf8'[i] = utf8[i]
      /\ \A h \in 1..Size(c) : utf8'[Off(encoded) + h] = code_c[h]
  <2> HIDE DEF c
  <2>1. /\ utf8 \o code_c \in Seq(Octets) /\ Len(utf8 \o code_c) = Len(utf8) + Size(c)
        /\ \A i \in 1..(Len(utf8) + Size(c)) : (utf8 \o code_c)[i] = IF i <= Len(utf8) THEN utf8[i] ELSE code_c[i - Len(utf8)]
    <3>1. /\ utf8 \o code_c \in Seq(Octets) /\ Len(utf8 \o code_c) = Len(utf8) + Len(code_c)
          /\ \A i \in 1..(Len(utf8) + Len(code_c)) :
               (utf8 \o code_c)[i] = IF i <= Len(utf8) THEN utf8[i] ELSE code_c[i - Len(utf8)]
      BY <1>2, <1>4, ConcatProperties
    <3> QED BY <1>4, <3>1
  <2>2. Len(utf8') = Off(encoded + 1) /\ Len(utf8') \in Nat
    BY <1>1, <1>2, <1>3, <1>4, <2>1
  <2>3. ASSUME NEW i \in 1..Len(utf8) PROVE utf8'[i] = utf8[i]
    <3>1. i \in 1..(Len(utf8) + Size(c)) /\ i <= Len(utf8)
      BY <1>2, <1>4
    <3> QED BY <1>1, <2>1, <3>1
  <2>4. ASSUME NEW h \in 1..Size(c) PROVE utf8'[Off(encoded) + h] = code_c[h]
    <3> DEFINE i == Len(utf8) + h
    <3>1. i \in 1..(Len(utf8) + Size(c)) /\ ~(i <= Len(utf8)) /\ i - Len(utf8) = h /\ i = Off(encoded) + h
      BY <1>2, <1>4
    <3> HIDE DEF i
    <3> QED BY <1>1, <2>1, <3>1
  <2> QED BY <1>1, <2>1, <2>2, <2>3, <2>4
<1>6. ASSUME NEW i \in 1..(encoded + 1), NEW h \in 1..Size(unic[i])
      PROVE  utf8'[Off(i - 1) + h] = enc_unicode_to_utf8_one(unic[i])[h]
  <2>1. CASE i = encoded + 1
    <3>1. i - 1 = encoded /\ unic[i] = c
      BY <1>3, <2>1
    <3> QED BY <1>5, <3>1 DEF code_c
  <2>2. CASE i # encoded + 1
    <3>1. i \in 1..encoded
      BY <1>3, <2>2
    <3>2. Off(i - 1) + h \in 1..Off(encoded)
      BY <1>2, <3>1, CodePlaces
    <3> QED BY <1>2, <1>5, <3>1, <3>2
  <2> QED BY <2>1, <2>2
<1>7. (Len(utf8) = Off(encoded))'
  BY <1>1, <1>5 DEF Off
<1>8. (\A i \in 1..encoded : \A h \in 1..Size(unic[i]) : utf8[Off(i - 1) + h] = enc_unicode_to_utf8_one(unic[i])[h])'
  <2>1. \A i \in 1..encoded' : \A h \in 1..Size(unic[i])' : utf8'[Off(i - 1)' + h] = enc_unicode_to_utf8_one(unic[i])'[h]
    <3> SUFFICES ASSUME NEW i \in 1..encoded', NEW h \in 1..Size(unic[i])'
                 PROVE  utf8'[Off(i - 1)' + h] = enc_unicode_to_utf8_one(unic[i])'[h]
      OBVIOUS
    <3>1. i \in 1..(encoded + 1) /\ h \in 1..Size(unic[i])
      BY <1>1, SameText
    <3>2. /\ utf8'[Off(i - 1) + h] = enc_unicode_to_utf8_one(unic[i])[h]
          /\ Off(i - 1)' = Off(i - 1)
          /\ enc_unicode_to_utf8_one(unic[i])' = enc_unicode_to_utf8_one(unic[i])
      BY <1>1, <1>6, <3>1, SameText
    <3> QED BY <3>2
  <2> QED BY <2>1
<1>9. ConvertedInv'
  BY <1>1, <1>2, <1>7, <1>8 DEF ConvertedInv
<1>10. TextTypeOK' /\ (pos <= Len(utf8))' /\ OtherInv'
  <2>1. encoded' \in 0..Len(unic)
    BY <1>1, <1>2
  <2> QED BY <1>1, <1>2, <1>5, <2>1 DEF TextTypeOK, OtherInv, TextInv
<1> QED BY <1>9, <1>10 DEF TextInv

\* The bytes are all written before utf8_to_unicode reads the first.
LEMMA TextTurns == TextInv /\ Encoded => TextInv'
<1> SUFFICES ASSUME TextInv, Encoded PROVE TextInv'
  OBVIOUS
<1>1. /\ phase = "encode" /\ encoded = Len(unic) /\ phase' = "decode"
      /\ unic' = unic /\ encoded' = encoded /\ utf8' = utf8 /\ pos' = pos /\ pOutput' = pOutput
  BY DEF Encoded
<1>2. /\ unic \in Seq(Units) /\ Len(unic) \in Nat /\ unic # <<>> /\ pos = 0 /\ pOutput = <<>>
      /\ Len(utf8) = Off(encoded)
      /\ \A i \in 1..encoded : \A h \in 1..Size(unic[i]) : utf8[Off(i - 1) + h] = enc_unicode_to_utf8_one(unic[i])[h]
  BY <1>1, LenProperties DEF TextInv, TextTypeOK, OtherInv, ConvertedInv
<1>3. Off(0) = 0 /\ Kept(0) = 0
  <2>1. Len(unic) # 0
    BY <1>2, EmptySeq
  <2> QED BY <1>2, <2>1, TextNextPlace
<1>4. ReadBack(0)
  BY <1>2, <1>3 DEF ReadBack
<1>5. ReadBack(0)' /\ Off(0)' = 0
  BY <1>1, <1>3, <1>4, SameText DEF ReadBack
<1>6. ConvertedInv'
  <2>1. Len(utf8)' = Off(encoded)'
    BY <1>1, <1>2, SameText
  <2>2. (\A i \in 1..encoded : \A h \in 1..Size(unic[i]) : utf8[Off(i - 1) + h] = enc_unicode_to_utf8_one(unic[i])[h])'
    BY <1>1, <1>2, SameText
  <2>3. (\E n \in 0..Len(unic) : pos = Off(n) /\ ReadBack(n))'
    <3>1. 0 \in 0..Len(unic') /\ pos' = Off(0)' /\ ReadBack(0)'
      BY <1>1, <1>2, <1>5
    <3> QED BY <3>1
  <2> QED BY <1>1, <2>1, <2>2, <2>3 DEF ConvertedInv
<1>7. TextTypeOK' /\ (pos <= Len(utf8))' /\ OtherInv'
  BY <1>1, <1>2 DEF TextInv, TextTypeOK, OtherInv
<1> QED BY <1>6, <1>7 DEF TextInv

\* Appending the unit n + 1 when it is not dropped.
LEMMA ReadsOn ==
  ASSUME unic \in Seq(Units), pOutput \in Seq(Int), NEW n \in Nat, n < Len(unic), ReadBack(n),
         ~Stops(unic[n + 1]),
         pOutput' = IF Dropped(unic[n + 1]) THEN pOutput ELSE Append(pOutput, unic[n + 1]),
         unic' = unic
  PROVE  ReadBack(n + 1)'
<1> DEFINE c == unic[n + 1]
<1>1. Kept(n) \in Nat /\ Kept(n + 1) = Kept(n) + (IF Dropped(c) THEN 0 ELSE 1) /\ c \in Units
  BY TextNextPlace
<1>2. Len(pOutput) = Kept(n) /\ Len(unic) \in Nat /\ c \in Int
  BY <1>1, LenProperties, UnitIs DEF ReadBack
<1>3. /\ Len(pOutput') = Kept(n + 1)
      /\ \A h \in 1..Kept(n) : pOutput'[h] = pOutput[h]
      /\ ~Dropped(c) => pOutput'[Kept(n + 1)] = c
  <2> HIDE DEF c
  <2>1. CASE Dropped(c)
    BY <1>1, <1>2, <2>1 DEF c
  <2>2. CASE ~Dropped(c)
    <3>1. pOutput' = Append(pOutput, c) /\ Kept(n + 1) = Len(pOutput) + 1
      BY <1>1, <1>2, <2>2 DEF c
    <3>2. Len(pOutput') = Len(pOutput) + 1 /\ pOutput'[Len(pOutput) + 1] = c
      BY <1>2, <3>1
    <3>3. \A h \in 1..Len(pOutput) : pOutput'[h] = pOutput[h]
      BY <1>2, <3>1
    <3> QED BY <1>2, <2>2, <3>1, <3>2, <3>3
  <2> QED BY <2>1, <2>2
<1>4. \A i \in 1..(n + 1) : ~Dropped(unic[i]) => pOutput'[Kept(i)] = unic[i]
  <2> SUFFICES ASSUME NEW i \in 1..(n + 1), ~Dropped(unic[i]) PROVE pOutput'[Kept(i)] = unic[i]
    OBVIOUS
  <2>1. CASE i = n + 1
    BY <1>3, <2>1
  <2>2. CASE i # n + 1
    <3>1. i \in 1..n /\ n \in 0..Len(unic)
      BY <1>2, <2>2
    <3>2. unic[i] \in Units
      <4>1. i \in 1..Len(unic)
        BY <1>2, <3>1
      <4> QED BY <4>1, ElementOfSeq
    <3>3. 1 \in 1..Size(unic[i])
      <4>1. Size(unic[i]) \in 1..3
        BY <3>2, UnitSize
      <4> QED BY <4>1
    <3>4. Kept(i) \in 1..Kept(n)
      BY <3>1, <3>3, CodePlaces
    <3> QED BY <1>3, <3>1, <3>4 DEF ReadBack
  <2> QED BY <2>1, <2>2
<1>5. \A i \in 1..(n + 1) : ~Stops(unic[i])
  <2> SUFFICES ASSUME NEW i \in 1..(n + 1) PROVE ~Stops(unic[i])
    OBVIOUS
  <2>1. i \in 1..n \/ i = n + 1
    OBVIOUS
  <2> QED BY <2>1 DEF ReadBack
<1>6. /\ Len(pOutput') = Kept(n + 1)'
      /\ \A i \in 1..(n + 1) : ~Dropped(unic[i])' => pOutput'[Kept(i)'] = unic'[i]
      /\ \A i \in 1..(n + 1) : ~Stops(unic[i])'
  BY <1>3, <1>4, <1>5, SameText
<1> QED BY <1>6 DEF ReadBack

\* utf8_to_unicode reads one code, of this text or of another source.
LEMMA TextDecodes == TextInv /\ Decode => TextInv'
<1> SUFFICES ASSUME TextInv, Decode PROVE TextInv'
  OBVIOUS
<1> DEFINE m == utfbytes
           u == enc_utf8_to_unicode_one
<1>1. /\ phase = "decode" /\ Byte(0) # 0 /\ m # 0 /\ pos' = pos + m
      /\ pOutput' = IF m \in {1, 3} THEN Append(pOutput, u) ELSE pOutput
      /\ unic' = unic /\ encoded' = encoded /\ utf8' = utf8 /\ phase' = phase
  BY DEF Decode
<1>2. /\ TextTypeOK /\ pos <= Len(utf8) /\ pos \in Nat /\ Len(utf8) \in Nat
      /\ unic \in Seq(Units) /\ pOutput \in Seq(Int) /\ Len(unic) \in Nat
  BY LenProperties DEF TextInv, TextTypeOK
<1>3. /\ pos < Len(utf8) /\ Byte(0) = utf8[pos + 1] /\ m = enc_get_utf8_size(Byte(0))
      /\ m \in Nat /\ pos + m <= Len(utf8)
      /\ \A e \in (pos + 2)..(pos + m) : ~IsFirst(utf8[e])
  BY <1>1, <1>2, CodeEnds
<1>4. Byte(0) \in Nat /\ Byte(1) \in Nat /\ Byte(2) \in Nat /\ Byte(0) < 256
  BY <1>2, ByteIs
<1>5. u \in Int
  <2> DEFINE y == 16 * Byte(0) + ((Byte(1) \div 4) % 16)
             z == 64 * Byte(1) + (Byte(2) % 64)
  <2>1. y \in Nat /\ z \in Nat
    BY <1>4
  <2> HIDE DEF y, z
  <2>2. 256 * (y % 256) + (z % 256) \in Int
    BY <2>1
  <2> QED BY <1>4, <2>2 DEF enc_utf8_to_unicode_one, y, z
<1> HIDE DEF m, u
<1>6. TextTypeOK' /\ (pos <= Len(utf8))'
  <2>1. pOutput' \in Seq(Int)
    <3>1. Append(pOutput, u) \in Seq(Int)
      BY <1>2, <1>5
    <3> QED BY <1>1, <1>2, <3>1
  <2>2. pos' \in Nat /\ pos' <= Len(utf8)
    BY <1>1, <1>2, <1>3
  <2> QED BY <1>1, <1>2, <2>1, <2>2 DEF TextTypeOK
<1>7. OtherInv'
  <2> SUFFICES ASSUME unic = <<>> PROVE Len(pOutput') = FirstBytes(pos + m)
    <3>1. (FirstBytes(pos))' = FirstBytes(pos + m)
      BY <1>1 DEF FirstBytes
    <3> QED BY <1>1, <3>1 DEF OtherInv
  <2>1. Len(pOutput) = FirstBytes(pos)
    BY DEF TextInv, OtherInv
  <2>2. FirstBytes(pos + m) = FirstBytes(pos + 1)
    <3>1. pos + 1 \in Nat /\ pos + m \in Nat /\ pos + 1 <= pos + m
      BY <1>1, <1>2, <1>3
    <3>2. \A e \in ((pos + 1) + 1)..(pos + m) : ~IsFirst(utf8[e])
      BY <1>2, <1>3
    <3> QED BY <3>1, <3>2, FirstOver
  <2>3. FirstBytes(pos) \in Nat /\ FirstBytes(pos + 1) = FirstBytes(pos) + (IF IsFirst(Byte(0)) THEN 1 ELSE 0)
    BY <1>2, <1>3, FirstNext
  <2>4. IsFirst(Byte(0)) <=> m \in {1, 3}
    <3> DEFINE b == Byte(0)
    <3>1. /\ b < 128 <=> enc_get_utf8_size(b) = 1
          /\ b >= 224 /\ b < 240 <=> enc_get_utf8_size(b) = 3
      BY <1>4, AnnouncedIs
    <3>2. b \in Nat /\ m = enc_get_utf8_size(b)
      BY <1>3, <1>4
    <3> HIDE DEF b
    <3>3. b \in 224..239 <=> b >= 224 /\ b < 240
      BY <3>2
    <3>4. IsFirst(b) <=> m \in {1, 3}
      BY <3>1, <3>2, <3>3 DEF IsFirst
    <3> QED BY <3>4 DEF b
  <2>5. Len(pOutput') = Len(pOutput) + (IF m \in {1, 3} THEN 1 ELSE 0)
    <3>1. Len(Append(pOutput, u)) = Len(pOutput) + 1 /\ Len(pOutput) \in Nat
      BY <1>2, <1>5, LenProperties
    <3> QED BY <1>1, <3>1
  <2> QED BY <2>1, <2>2, <2>3, <2>4, <2>5
<1>8. ConvertedInv'
  <2> SUFFICES ASSUME unic # <<>> PROVE ConvertedInv'
    BY <1>1 DEF ConvertedInv
  <2>1. /\ Len(utf8) = Off(encoded) /\ encoded = Len(unic)
        /\ \A i \in 1..encoded : \A h \in 1..Size(unic[i]) : utf8[Off(i - 1) + h] = enc_unicode_to_utf8_one(unic[i])[h]
        /\ \E n \in 0..Len(unic) : pos = Off(n) /\ ReadBack(n)
    BY <1>1 DEF TextInv, ConvertedInv
  <2>2. PICK n \in 0..Len(unic) : pos = Off(n) /\ ReadBack(n)
    BY <2>1
  <2>3. n \in Nat /\ n < Len(unic)
    <3>1. n # Len(unic)
      BY <1>2, <1>3, <2>1, <2>2
    <3> QED BY <1>2, <3>1
  <2> DEFINE c == unic[n + 1]
  <2>4. /\ m = IF Stops(c) THEN 0 ELSE Size(c)
        /\ ~Dropped(c) => m \in {1, 3} /\ u = c
        /\ Dropped(c) => m \notin {1, 3}
    BY <1>1, <2>2, <2>3, ReadsCode DEF m, u
  <2>5. Off(n + 1) = Off(n) + Size(c)
    BY <1>2, <2>3, TextNextPlace
  <2>6. ~Stops(c) /\ pos' = Off(n + 1)
    BY <1>1, <2>2, <2>4, <2>5
  <2>7. pOutput' = IF Dropped(c) THEN pOutput ELSE Append(pOutput, c)
    BY <1>1, <2>4
  <2>8. ReadBack(n + 1)'
    BY <1>1, <1>2, <2>2, <2>3, <2>6, <2>7, ReadsOn
  <2>9. (\E i \in 0..Len(unic) : pos = Off(i) /\ ReadBack(i))'
    <3>1. n + 1 \in 0..Len(unic') /\ pos' = Off(n + 1)'
      BY <1>1, <1>2, <2>3, <2>6, SameText
    <3> QED BY <2>8, <3>1
  <2>10. Len(utf8)' = Off(encoded)'
    BY <1>1, <2>1, SameText
  <2>11. (\A i \in 1..encoded : \A h \in 1..Size(unic[i]) : utf8[Off(i - 1) + h] = enc_unicode_to_utf8_one(unic[i])[h])'
    BY <1>1, <2>1, SameText
  <2> QED BY <1>1, <2>1, <2>9, <2>10, <2>11 DEF ConvertedInv
<1> QED BY <1>6, <1>7, <1>8 DEF TextInv

\* It stops at the NUL, which is behind the last unit.
LEMMA TextEnds == TextInv /\ Decoded => TextInv'
<1> SUFFICES ASSUME TextInv, Decoded PROVE TextInv'
  OBVIOUS
<1>1. /\ phase = "decode" /\ Byte(0) = 0 /\ phase' = "done"
      /\ unic' = unic /\ encoded' = encoded /\ utf8' = utf8 /\ pos' = pos /\ pOutput' = pOutput
  BY DEF Decoded
<1>2. /\ TextTypeOK /\ pos <= Len(utf8) /\ pos \in Nat /\ Len(utf8) \in Nat
      /\ unic \in Seq(Units) /\ Len(unic) \in Nat
  BY LenProperties DEF TextInv, TextTypeOK
<1>3. pos = Len(utf8)
  <2>1. ~(pos + 0 < Len(utf8))
    BY <1>1, <1>2, ByteIs
  <2> QED BY <1>2, <2>1
<1>4. TextTypeOK' /\ (pos <= Len(utf8))'
  BY <1>1, <1>2 DEF TextTypeOK
<1>5. OtherInv'
  BY <1>1, <1>3 DEF TextInv, OtherInv, FirstBytes
<1>6. ConvertedInv'
  <2> SUFFICES ASSUME unic # <<>> PROVE ConvertedInv'
    BY <1>1 DEF ConvertedInv
  <2>1. /\ Len(utf8) = Off(encoded) /\ encoded = Len(unic)
        /\ \A i \in 1..encoded : \A h \in 1..Size(unic[i]) : utf8[Off(i - 1) + h] = enc_unicode_to_utf8_one(unic[i])[h]
        /\ \E n \in 0..Len(unic) : pos = Off(n) /\ ReadBack(n)
    BY <1>1 DEF TextInv, ConvertedInv
  <2>2. PICK n \in 0..Len(unic) : pos = Off(n) /\ ReadBack(n)
    BY <2>1
  <2>3. n = Len(unic)
    <3>1. ASSUME n < Len(unic) PROVE FALSE
      <4>1. n \in Nat /\ n <= Len(unic)
        BY <1>2
      <4>2. Off(n) \in Nat /\ Off(Len(unic)) \in Nat /\ Off(n) < Off(Len(unic))
        BY <1>2, <3>1, <4>1, TextPlaces
      <4>3. Off(Len(unic)) = Off(n)
        BY <1>3, <2>1, <2>2
      <4> QED BY <4>2, <4>3
    <3> QED BY <1>2, <3>1
  <2>4. ReadBack(Len(unic))'
    BY <1>1, <2>2, <2>3, SameText DEF ReadBack
  <2>5. Len(utf8)' = Off(encoded)'
    BY <1>1, <2>1, SameText
  <2>6. (\A i \in 1..encoded : \A h \in 1..Size(unic[i]) : utf8[Off(i - 1) + h] = enc_unicode_to_utf8_one(unic[i])[h])'
    BY <1>1, <2>1, SameText
  <2> QED BY <1>1, <2>1, <2>4, <2>5, <2>6 DEF ConvertedInv
<1> QED BY <1>4, <1>5, <1>6 DEF TextInv

\* Every step keeps the invariant.
LEMMA TextStep == TextInv /\ [TextNext]_textVars => TextInv'
<1> SUFFICES ASSUME TextInv, [TextNext]_textVars PROVE TextInv'
  OBVIOUS
<1>1. CASE UNCHANGED textVars
  <2>1. /\ unic' = unic /\ encoded' = encoded /\ utf8' = utf8 /\ pos' = pos
        /\ pOutput' = pOutput /\ phase' = phase
    BY <1>1 DEF textVars
  <2>2. TextTypeOK' /\ (pos <= Len(utf8))' /\ OtherInv'
    BY <2>1 DEF TextInv, TextTypeOK, OtherInv, FirstBytes
  <2>3. \A n : ReadBack(n)' <=> ReadBack(n)
    BY <2>1, SameText DEF ReadBack
  <2>4. Len(utf8)' = Len(utf8) /\ Off(encoded)' = Off(encoded)
    BY <2>1, SameText
  <2>5. ASSUME unic # <<>>
        PROVE  (\A i \in 1..encoded : \A h \in 1..Size(unic[i]) : utf8[Off(i - 1) + h] = enc_unicode_to_utf8_one(unic[i])[h])'
    <3>1. \A i \in 1..encoded : \A h \in 1..Size(unic[i]) : utf8[Off(i - 1) + h] = enc_unicode_to_utf8_one(unic[i])[h]
      BY <2>5 DEF TextInv, ConvertedInv
    <3> QED BY <2>1, <3>1, SameText
  <2>6. phase = "decode" /\ (\E n \in 0..Len(unic) : pos = Off(n) /\ ReadBack(n)) =>
          (\E n \in 0..Len(unic) : pos = Off(n) /\ ReadBack(n))'
    BY <2>1, <2>3, SameText
  <2>7. ReadBack(Len(unic)) => ReadBack(Len(unic))'
    BY <2>1, <2>3
  <2>8. ConvertedInv'
    BY <2>1, <2>4, <2>5, <2>6, <2>7 DEF TextInv, ConvertedInv
  <2> QED BY <2>2, <2>8 DEF TextInv
<1> QED BY <1>1, TextEncodes, TextTurns, TextDecodes, TextEnds DEF TextNext

\* Whatever the units and the bytes, and however many: a text that was converted comes
\* back but for its characters of two bytes, the way back is endless exactly at one
\* whose last six bits are 32 or more, and no bytes make the reading step over the NUL.
THEOREM ComesBack == TextSpec => []TextConverts
<1>1. TextInit => TextInv
  BY TextInitInv
<1>2. TextInv /\ [TextNext]_textVars => TextInv'
  BY TextStep
<1>3. TextInv => TextConverts
  <2> SUFFICES ASSUME TextInv PROVE TextConverts
    OBVIOUS
  <2>1. pos <= Len(utf8)
    BY DEF TextInv
  <2>2. ASSUME unic # <<>>, phase = "done"
        PROVE  /\ Len(pOutput) = Kept(Len(unic))
               /\ \A i \in 1..Len(unic) : ~Dropped(unic[i]) => pOutput[Kept(i)] = unic[i]
               /\ \A i \in 1..Len(unic) : ~Stops(unic[i])
    BY <2>2 DEF TextInv, ConvertedInv, ReadBack
  <2>3. ASSUME unic # <<>>, Endless PROVE \E i \in 1..Len(unic) : Stops(unic[i])
    <3>1. /\ unic \in Seq(Units) /\ Len(unic) \in Nat /\ phase = "decode" /\ Byte(0) # 0 /\ utfbytes = 0
          /\ TextTypeOK /\ pos <= Len(utf8)
      BY <2>3, LenProperties DEF TextInv, TextTypeOK, Endless
    <3>2. PICK n \in 0..Len(unic) : pos = Off(n)
      BY <2>3, <3>1 DEF TextInv, ConvertedInv
    <3>3. n # Len(unic)
      <4>1. pos + 0 < Len(utf8) /\ pos \in Nat
        BY <3>1, ByteIs DEF TextTypeOK
      <4>2. Len(utf8) = Off(Len(unic))
        BY <2>3, <3>1 DEF TextInv, ConvertedInv
      <4> QED BY <3>2, <4>1, <4>2
    <3>4. n \in Nat /\ n < Len(unic) /\ n + 1 \in 1..Len(unic)
      BY <3>1, <3>3
    <3>5. utfbytes = IF Stops(unic[n + 1]) THEN 0 ELSE Size(unic[n + 1])
      BY <3>1, <3>2, <3>4, ReadsCode
    <3>6. Size(unic[n + 1]) # 0
      <4>1. Size(unic[n + 1]) \in 1..3
        <5>1. unic[n + 1] \in Units
          BY <3>1, <3>4, TextNextPlace
        <5> QED BY <5>1, UnitSize
      <4> QED BY <4>1
    <3> QED BY <3>1, <3>4, <3>5, <3>6
  <2>4. ASSUME unic = <<>>, phase = "done"
        PROVE  Len(pOutput) = Cardinality({i \in 1..Len(utf8) : utf8[i] < 128 \/ utf8[i] \in 224..239})
    BY <2>4 DEF TextInv, OtherInv, FirstBytes, IsFirst
  <2> QED BY <2>1, <2>2, <2>3, <2>4 DEF TextConverts
<1> QED BY <1>1, <1>2, <1>3, PTL DEF TextSpec

-----------------------------------------------------------------------------
(* The parameters of a request.                                             *)

\* A parameter as the caller has it, as the server gets it and as it answers it.
Asked(i) ==
  [w |-> IF i \in Of(MEMREF) THEN Pointer(Block("user", i)) ELSE Content(Block("value", i)), size |-> size]
AtServer(i) ==
  IF i \in Of(MEMREF) THEN [w |-> Pointer(Block("server", i)), size |-> size] ELSE Asked(i)
Answered(i) == IF i = 2 THEN [w |-> Answer, size |-> size] ELSE AtServer(i)

\* What the blocks in the receive buffers get, and the caller's block.
ServerHolds(i) == memcpy(Content(Block("server", i)), Content(Block("user", i)), size)
ClientHolds(i) == memcpy(Content(Block("client", i)), ServerHolds(i), size)
UserHolds(i) == memcpy(Content(Block("user", i)), Pointer(Block("client", i)), size)

\* The pointer of a memref that is returned.
PointerCopied(i) == memcpy(Pointer(Block("user", i)), Pointer(Block("client", i)), size)

OutValue == Of(VALUE \cap Outputs)
OutMemref == Of(MEMREF \cap Outputs)

Steps == {"request", "requested", "command", "respond", "crashed", "responded", "process", "copy", "called", "returned"}
Asking == {"request", "requested"}
Answering == {"command", "respond", "crashed", "responded"}
Returning == {"process", "copy", "called", "returned"}

ParamTypeOK ==
  /\ t \in Signatures /\ size \in Sizes /\ async \in BOOLEAN /\ step \in Steps
  /\ DOMAIN server = Params /\ DOMAIN node = Params /\ DOMAIN caller = Params
  /\ step \in {"copy", "returned"} => ~async
  /\ step = "called" => async
  /\ step = "crashed" => 2 \in Of(MEMREF)
  /\ step \in {"responded"} \cup Returning => 2 \notin Of(MEMREF)

MessageInv ==
  /\ step = "requested" => \A i \in 1..get_param_count :
       msg[i] = IF i \in Of(VALUE) THEN Asked(i) ELSE [w |-> Content(Block("user", i)), size |-> size]
  /\ step = "responded" => \A i \in 1..get_param_count :
       msg[i] = IF i \in Of(VALUE) THEN Answered(i) ELSE [w |-> ServerHolds(i), size |-> size]

ServerInv ==
  /\ step \in Asking => \A i \in Params : server[i] = Asked(i)
  /\ step = "command" => \A i \in Params : server[i] = AtServer(i)
  /\ step \notin Asking \cup {"command"} => \A i \in Params : server[i] = Answered(i)

ClientInv ==
  /\ step \notin Returning => \A i \in Params : back[i] = Asked(i)
  /\ step \in Returning =>
       /\ \A i \in Of(VALUE) : back[i] = Answered(i)
       /\ \A i \in Of(MEMREF) : back[i] = [w |-> Pointer(Block("client", i)), size |-> size]

NodeInv ==
  /\ step \notin {"copy", "called", "returned"} => \A i \in Params : node[i] = Asked(i)
  /\ step \in {"copy", "called", "returned"} => \A i \in Params :
       node[i] = IF i \in OutValue THEN Answered(i)
                 ELSE IF i \in OutMemref /\ async THEN [w |-> PointerCopied(i), size |-> size] ELSE Asked(i)

CallerInv ==
  \A i \in Params :
    caller[i] = IF step = "returned" /\ i \in OutValue THEN Answered(i)
                ELSE IF step = "returned" /\ i \in OutMemref
                THEN [w |-> memcpy(Pointer(Block("user", i)), UserHolds(i), size), size |-> size] ELSE Asked(i)

MemInv ==
  \A b \in Blocks :
    mem[b] = IF b[1] = "server" /\ b[2] \in Of(MEMREF) /\ step \notin Asking THEN ServerHolds(b[2])
             ELSE IF b[1] = "client" /\ b[2] \in Of(MEMREF) /\ step \in Returning THEN ClientHolds(b[2])
             ELSE IF b[1] = "user" /\ b[2] \in OutMemref /\ step \in {"copy", "returned"} THEN UserHolds(b[2])
             ELSE Content(b)

ParamInv == ParamTypeOK /\ MessageInv /\ ServerInv /\ ClientInv /\ NodeInv /\ CallerInv /\ MemInv

-----------------------------------------------------------------------------
(* What the macros make of the types.                                       *)

Types == {NONE} \cup VALUE \cup MEMREF

\* Every type but NONE has one of its two low bits, and three bits make it up.
LEMMA BitsOfTypes ==
  ASSUME NEW y \in Types
  PROVE  /\ (y \div 4) % 2 = 1 => (y \div 1) % 2 = 1 \/ (y \div 2) % 2 = 1
         /\ y # NONE <=> (y \div 1) % 2 = 1 \/ (y \div 2) % 2 = 1
<1>1. y \in {0, 1, 2, 3, 5, 6, 7}
  BY DEF Types, NONE, VALUE, MEMREF
<1>2. /\ (0 \div 1) % 2 = 0 /\ (0 \div 2) % 2 = 0 /\ (0 \div 4) % 2 = 0
      /\ (1 \div 1) % 2 = 1 /\ (1 \div 4) % 2 = 0
      /\ (2 \div 2) % 2 = 1 /\ (2 \div 4) % 2 = 0
      /\ (3 \div 1) % 2 = 1 /\ (3 \div 4) % 2 = 0
      /\ (5 \div 1) % 2 = 1 /\ (6 \div 2) % 2 = 1 /\ (7 \div 1) % 2 = 1
  OBVIOUS
<1> QED BY <1>1, <1>2 DEF NONE

LEMMA TypesPassed ==
  ASSUME t \in Signatures
  PROVE  /\ \A i \in 1..4 : IPC_PARAM_TYPE_GET(i) \in Types /\ (IPC_PARAM_TYPE_GET(i) = NONE <=> t[i] = NONE)
         /\ IPC_PARAM_TYPE_GET(5) = NONE
<1>0. (\A i \in 1..6 : t[i] \in Types) /\ \A i \in 1..5 : t[i] = NONE => t[i + 1] = NONE
  BY ParamsAssumption DEF Params, Types
<1>1. /\ BitOfLast(1) \in {0, 1} /\ BitOfLast(2) \in {0, 2} /\ BitOfLast(4) \in {0, 4}
      /\ BitOfLast(1) = 1 <=> \E i \in 4..6 : (t[i] \div 1) % 2 = 1
      /\ BitOfLast(2) = 2 <=> \E i \in 4..6 : (t[i] \div 2) % 2 = 1
      /\ BitOfLast(4) = 4 <=> \E i \in 4..6 : (t[i] \div 4) % 2 = 1
  BY DEF BitOfLast
<1>2. ASSUME NEW i \in 4..6
      PROVE  /\ (t[i] \div 4) % 2 = 1 => (t[i] \div 1) % 2 = 1 \/ (t[i] \div 2) % 2 = 1
             /\ t[i] # NONE <=> (t[i] \div 1) % 2 = 1 \/ (t[i] \div 2) % 2 = 1
  <2>1. i \in 1..6
    OBVIOUS
  <2>2. t[i] \in Types
    BY <1>0, <2>1
  <2> QED BY <2>2, BitsOfTypes
<1>3. BitOfLast(4) = 4 => BitOfLast(1) = 1 \/ BitOfLast(2) = 2
  BY <1>1, <1>2
<1>4. t[4] # NONE <=> BitOfLast(1) = 1 \/ BitOfLast(2) = 2
  <2>1. t[4] = NONE => t[5] = NONE /\ t[6] = NONE
    <3>1. 4 \in 1..5 /\ 5 \in 1..5 /\ 4 + 1 = 5 /\ 5 + 1 = 6
      OBVIOUS
    <3> QED BY <1>0, <3>1
  <2>2. (\E i \in 4..6 : t[i] # NONE) <=> BitOfLast(1) = 1 \/ BitOfLast(2) = 2
    BY <1>1, <1>2
  <2>3. \A i \in 4..6 : i = 4 \/ i = 5 \/ i = 6
    OBVIOUS
  <2>4. 4 \in 4..6
    OBVIOUS
  <2> QED BY <2>1, <2>2, <2>3, <2>4
<1> DEFINE d == BitOfLast(1) + BitOfLast(2) + BitOfLast(4)
<1>5. d \in Types /\ (d = NONE <=> t[4] = NONE)
  BY <1>1, <1>3, <1>4 DEF Types, NONE, VALUE, MEMREF
<1> HIDE DEF d
<1>6. IPC_PARAM_TYPES = <<t[1], t[2], t[3], d, NONE, NONE>>
  BY DEF IPC_PARAM_TYPES, d
<1>7. \A i \in 1..4 : i = 1 \/ i = 2 \/ i = 3 \/ i = 4
  OBVIOUS
<1>8. 1 \in 1..6 /\ 2 \in 1..6 /\ 3 \in 1..6
  OBVIOUS
<1> QED BY <1>0, <1>5, <1>6, <1>7, <1>8 DEF IPC_PARAM_TYPE_GET

LEMMA CountGiven ==
  ASSUME t \in Signatures
  PROVE  /\ get_param_count \in 0..4
         /\ \A i \in 1..get_param_count : IPC_PARAM_TYPE_GET(i) # NONE
         /\ IPC_PARAM_TYPE_GET(get_param_count + 1) = NONE
<1> DEFINE Ty(i) == IPC_PARAM_TYPE_GET(i)
           P(n) == (\A i \in 1..n : Ty(i) # NONE) /\ Ty(n + 1) = NONE
<1>1. Ty(5) = NONE
  BY TypesPassed
<1> HIDE DEF Ty
<1>2. \E n \in 0..4 : P(n)
  <2>1. CASE Ty(1) = NONE
    <3>1. P(0)
      BY <2>1
    <3> QED BY <3>1
  <2>2. CASE Ty(1) # NONE /\ Ty(2) = NONE
    <3>1. (\A i \in 1..1 : i = 1) /\ 1 + 1 = 2
      OBVIOUS
    <3>2. P(1)
      BY <2>2, <3>1
    <3> QED BY <3>2
  <2>3. CASE Ty(1) # NONE /\ Ty(2) # NONE /\ Ty(3) = NONE
    <3>1. (\A i \in 1..2 : i = 1 \/ i = 2) /\ 2 + 1 = 3
      OBVIOUS
    <3>2. P(2)
      BY <2>3, <3>1
    <3> QED BY <3>2
  <2>4. CASE Ty(1) # NONE /\ Ty(2) # NONE /\ Ty(3) # NONE /\ Ty(4) = NONE
    <3>1. (\A i \in 1..3 : i = 1 \/ i = 2 \/ i = 3) /\ 3 + 1 = 4
      OBVIOUS
    <3>2. P(3)
      BY <2>4, <3>1
    <3> QED BY <3>2
  <2>5. CASE Ty(1) # NONE /\ Ty(2) # NONE /\ Ty(3) # NONE /\ Ty(4) # NONE
    <3>1. (\A i \in 1..4 : i = 1 \/ i = 2 \/ i = 3 \/ i = 4) /\ 4 + 1 = 5
      OBVIOUS
    <3>2. P(4)
      BY <1>1, <2>5, <3>1
    <3> QED BY <3>2
  <2> QED BY <2>1, <2>2, <2>3, <2>4, <2>5
<1>3. get_param_count = CHOOSE n \in 0..4 : P(n)
  BY DEF get_param_count, Ty
<1> HIDE DEF P
<1>4. get_param_count \in 0..4 /\ P(get_param_count)
  BY <1>2, <1>3
<1> QED BY <1>4 DEF P, Ty

\* All parameters are counted, up to the fourth.
LEMMA CountIsNamed ==
  ASSUME t \in Signatures
  PROVE  get_param_count = IF Named > 4 THEN 4 ELSE Named
<1> DEFINE Q(n) == (\A i \in 1..n : t[i] # NONE) /\ (n < 6 => t[n + 1] = NONE)
           N == {i \in 1..6 : t[i] = NONE}
<1>1. \E n \in 0..6 : Q(n)
  <2>1. CASE N = {}
    <3>1. Q(6)
      BY <2>1
    <3> QED BY <3>1
  <2>2. CASE N # {}
    <3>1. \A i \in 1..6 : t[i] = NONE <=> i \in N
      OBVIOUS
    <3>2. N \subseteq Nat /\ N \subseteq 1..6
      OBVIOUS
    <3> HIDE DEF N
    <3> DEFINE m == Min(N)
    <3>3. m \in N /\ \A y \in N : m <= y
      BY <2>2, <3>2, MinIsElement
    <3> HIDE DEF m
    <3>4. m - 1 \in 0..6 /\ (m - 1) + 1 = m /\ m \in 1..6
      BY <3>2, <3>3
    <3>5. ASSUME NEW i \in 1..(m - 1), t[i] = NONE PROVE FALSE
      <4>1. i \in 1..6 /\ ~(m <= i)
        BY <3>4
      <4> QED BY <3>1, <3>3, <3>5, <4>1
    <3>6. Q(m - 1)
      BY <3>1, <3>3, <3>4, <3>5
    <3> QED BY <3>4, <3>6
  <2> QED BY <2>1, <2>2
<1>2. Named = CHOOSE n \in 0..6 : Q(n)
  BY DEF Named
<1> HIDE DEF Q
<1>3. Named \in 0..6 /\ Q(Named)
  BY <1>1, <1>2
<1>4. (\A i \in 1..Named : t[i] # NONE) /\ (Named < 6 => t[Named + 1] = NONE)
  BY <1>3 DEF Q
<1> DEFINE c == get_param_count
<1>5. c \in 0..4 /\ (\A i \in 1..c : IPC_PARAM_TYPE_GET(i) # NONE) /\ IPC_PARAM_TYPE_GET(c + 1) = NONE
  BY CountGiven
<1>6. \A i \in 1..4 : IPC_PARAM_TYPE_GET(i) = NONE <=> t[i] = NONE
  BY TypesPassed
<1> HIDE DEF c
<1>7. \A i \in 1..c : t[i] # NONE
  BY <1>5, <1>6
<1>8. c < 4 => t[c + 1] = NONE
  BY <1>5, <1>6
<1>9. c <= Named
  <2> SUFFICES ASSUME Named < c PROVE FALSE
    BY <1>3, <1>5
  <2>1. Named + 1 \in 1..c /\ Named < 6
    BY <1>3, <1>5
  <2> QED BY <1>4, <1>7, <2>1
<1>10. c < 4 => ~(c < Named)
  <2> SUFFICES ASSUME c < 4, c < Named PROVE FALSE
    OBVIOUS
  <2>1. c + 1 \in 1..Named
    BY <1>3, <1>5
  <2> QED BY <1>4, <1>8, <2>1
<1>11. c = IF Named > 4 THEN 4 ELSE Named
  BY <1>3, <1>5, <1>9, <1>10
<1> QED BY <1>11 DEF c

\* The parameters are values and memrefs.
LEMMA KindsOfParams ==
  ASSUME t \in Signatures
  PROVE  /\ \A i : i \in Of(VALUE) \/ i \in Of(MEMREF) <=> i \in 1..get_param_count
         /\ \A i : ~(i \in Of(VALUE) /\ i \in Of(MEMREF))
         /\ \A i : i \in OutValue => i \in Of(VALUE)
         /\ \A i : i \in OutMemref => i \in Of(MEMREF)
         /\ \A i : i \in Of(VALUE) \/ i \in Of(MEMREF) => i \in Params
         /\ Of(Returned \cap VALUE) = OutValue /\ Of(Returned \cap MEMREF) = OutMemref
         /\ \A i : i \in Of((VALUE \cup MEMREF) \ Returned) =>
              (i \in Of(VALUE) \/ i \in Of(MEMREF)) /\ i \notin OutValue /\ i \notin OutMemref
<1>1. get_param_count \in 0..4 /\ \A i \in 1..get_param_count : IPC_PARAM_TYPE_GET(i) # NONE
  BY CountGiven
<1>2. \A i \in 1..get_param_count : i \in 1..4
  BY <1>1
<1>3. \A i \in 1..get_param_count : IPC_PARAM_TYPE_GET(i) \in VALUE \/ IPC_PARAM_TYPE_GET(i) \in MEMREF
  BY <1>1, <1>2, TypesPassed DEF Types
<1>4. \A y : ~(y \in VALUE /\ y \in MEMREF)
  BY DEF VALUE, MEMREF
<1>5. Returned \cap VALUE = VALUE \cap Outputs /\ Returned \cap MEMREF = MEMREF \cap Outputs
  BY DEF Returned, Outputs
<1>6. \A i \in 1..get_param_count : i \in Params
  BY <1>2 DEF Params
<1>7. \A S, i : i \in Of(S) <=> i \in 1..get_param_count /\ IPC_PARAM_TYPE_GET(i) \in S
  BY DEF Of
<1>8. /\ \A i : i \in Of(VALUE) \/ i \in Of(MEMREF) <=> i \in 1..get_param_count
      /\ \A i : ~(i \in Of(VALUE) /\ i \in Of(MEMREF))
  BY <1>3, <1>4, <1>7
<1>9. (\A i : i \in OutValue => i \in Of(VALUE)) /\ (\A i : i \in OutMemref => i \in Of(MEMREF))
  BY <1>7 DEF OutValue, OutMemref
<1>10. Of(Returned \cap VALUE) = OutValue /\ Of(Returned \cap MEMREF) = OutMemref
  BY <1>5 DEF OutValue, OutMemref
<1>11. ASSUME NEW i, i \in Of((VALUE \cup MEMREF) \ Returned)
       PROVE  (i \in Of(VALUE) \/ i \in Of(MEMREF)) /\ i \notin OutValue /\ i \notin OutMemref
  <2>1. i \in 1..get_param_count /\ IPC_PARAM_TYPE_GET(i) \notin Returned
    BY <1>7, <1>11
  <2>2. \A y : y \in Outputs => y \in Returned
    BY DEF Outputs, Returned
  <2> QED BY <1>7, <1>8, <2>1, <2>2 DEF OutValue, OutMemref
<1> QED BY <1>6, <1>8, <1>9, <1>10, <1>11

-----------------------------------------------------------------------------
(* Pointers.                                                                *)

LEMMA Blocky ==
  /\ \A owner \in {"user", "server", "client"}, i \in Params :
       Block(owner, i) \in Blocks /\ Block(owner, i)[1] = owner /\ Block(owner, i)[2] = i
  /\ \A b \in Blocks : b[1] \in {"user", "server", "client"} /\ b[2] \in Params /\ b = Block(b[1], b[2])
BY DEF Block, Blocks

\* A pointer points to one block, and where the two halves are of different ones to none.
LEMMA PointersApart ==
  /\ \A b, c : Pointer(b) = Pointer(c) => b = c
  /\ \A b, c : Pointer(b) # Content(c)
  /\ \A b : Pointer(b) # Answer
<1>1. ASSUME NEW b, NEW c, Pointer(b) = Pointer(c) PROVE b = c
  <2>1. Pointer(b)["lo"] = <<"to", b, "lo">> /\ Pointer(c)["lo"] = <<"to", c, "lo">>
    BY DEF Pointer, Words
  <2>2. <<"to", b, "lo">> = <<"to", c, "lo">>
    BY <1>1, <2>1
  <2>3. <<"to", b, "lo">>[2] = b /\ <<"to", c, "lo">>[2] = c
    OBVIOUS
  <2> QED BY <2>2, <2>3
<1>2. ASSUME NEW b, NEW c, Pointer(b) = Content(c) PROVE FALSE
  <2>1. Pointer(b)["lo"] = <<"to", b, "lo">> /\ Content(c)["lo"] = <<"of", c, "lo">>
    BY DEF Pointer, Content, Words
  <2>2. <<"to", b, "lo">>[1] = "to" /\ <<"of", c, "lo">>[1] = "of"
    OBVIOUS
  <2>3. <<"to", b, "lo">> = <<"of", c, "lo">>
    BY <1>2, <2>1
  <2>4. "to" = "of"
    BY <2>2, <2>3
  <2> QED BY <2>4
<1>3. ASSUME NEW b, Pointer(b) = Answer PROVE FALSE
  <2>1. Pointer(b)["lo"] = <<"to", b, "lo">> /\ Answer["lo"] = <<"answer", "lo">>
    BY DEF Pointer, Answer, Words
  <2>2. <<"to", b, "lo">>[1] = "to" /\ <<"answer", "lo">>[1] = "answer"
    OBVIOUS
  <2>3. <<"to", b, "lo">> = <<"answer", "lo">>
    BY <1>3, <2>1
  <2>4. "to" = "answer"
    BY <2>2, <2>3
  <2> QED BY <2>4
<1> QED BY <1>1, <1>2, <1>3

LEMMA TargetOfPointer ==
  ASSUME NEW b \in Blocks, NEW r, r.w = Pointer(b)
  PROVE  Target(r) = b /\ ~Wild(r)
<1>1. \A c \in Blocks : Pointer(c) = r.w => c = b
  BY PointersApart
<1> QED BY <1>1 DEF Target, Wild

-----------------------------------------------------------------------------
(* The steps.                                                               *)

\* The types and the sizes stay what they are, and so does what is said of them.
LEMMA SameTypes ==
  ASSUME t' = t, size' = size
  PROVE  /\ get_param_count' = get_param_count /\ \A S : Of(S)' = Of(S)
         /\ OutValue' = OutValue /\ OutMemref' = OutMemref
         /\ \A i : Asked(i)' = Asked(i) /\ AtServer(i)' = AtServer(i) /\ Answered(i)' = Answered(i)
         /\ \A i : ServerHolds(i)' = ServerHolds(i) /\ ClientHolds(i)' = ClientHolds(i)
         /\ \A i : UserHolds(i)' = UserHolds(i) /\ PointerCopied(i)' = PointerCopied(i)
<1>1. \A i : IPC_PARAM_TYPE_GET(i)' = IPC_PARAM_TYPE_GET(i)
  BY DEF IPC_PARAM_TYPE_GET, IPC_PARAM_TYPES, BitOfLast
<1>2. get_param_count' = get_param_count
  BY <1>1 DEF get_param_count
<1>3. \A S : Of(S)' = Of(S)
  BY <1>1, <1>2 DEF Of
<1>4. \A i : Asked(i)' = Asked(i)
  BY <1>3 DEF Asked
<1>5. \A i : AtServer(i)' = AtServer(i)
  BY <1>3, <1>4 DEF AtServer
<1>6. \A i : Answered(i)' = Answered(i)
  BY <1>5 DEF Answered
<1> QED BY <1>2, <1>3, <1>4, <1>5, <1>6 DEF OutValue, OutMemref, ServerHolds, ClientHolds, UserHolds, PointerCopied

LEMMA ParamInitInv == ASSUME ParamInit PROVE ParamInv
<1>1. ParamTypeOK /\ MessageInv
  BY DEF ParamInit, ParamTypeOK, MessageInv, Steps, Returning
<1>2. \A i \in Params : caller[i] = Asked(i)
  BY DEF ParamInit, Asked
<1>3. ServerInv /\ ClientInv /\ NodeInv /\ CallerInv
  BY <1>2 DEF ParamInit, ServerInv, ClientInv, NodeInv, CallerInv, Asking, Returning
<1>4. MemInv
  BY DEF ParamInit, MemInv, Asking, Returning
<1> QED BY <1>1, <1>3, <1>4 DEF ParamInv

LEMMA KeptByRequest == ASSUME ParamInv, Request PROVE ParamInv'
<1>0. /\ step = "request" /\ step' = "requested" /\ msg' = Converted(caller) /\ node' = caller
      /\ UNCHANGED <<t, size, async, mem, caller, server, back>> /\ t \in Signatures
  BY DEF Request, ParamInv, ParamTypeOK
<1>1. ASSUME NEW i \in 1..get_param_count
      PROVE  msg'[i] = IF i \in Of(VALUE) THEN Asked(i) ELSE [w |-> Content(Block("user", i)), size |-> size]
  <2>1. i \in Params /\ caller[i] = Asked(i)
    BY <1>0, KindsOfParams DEF ParamInv, CallerInv
  <2>2. ASSUME i \notin Of(VALUE)
        PROVE  Target(caller[i]) = Block("user", i) /\ mem[Block("user", i)] = Content(Block("user", i)) /\ caller[i].size = size
    <3>1. i \in Of(MEMREF) /\ Block("user", i) \in Blocks /\ Block("user", i)[1] = "user"
      BY <1>0, <2>1, <2>2, KindsOfParams, Blocky
    <3>2. caller[i].w = Pointer(Block("user", i)) /\ caller[i].size = size
      BY <2>1, <3>1 DEF Asked
    <3>3. mem[Block("user", i)] = Content(Block("user", i))
      BY <1>0, <3>1 DEF ParamInv, MemInv
    <3> QED BY <3>1, <3>2, <3>3, TargetOfPointer
  <2> QED BY <1>0, <2>1, <2>2 DEF Converted
<1>2. ParamTypeOK'
  <2>1. DOMAIN caller = Params /\ DOMAIN server = Params
    BY DEF ParamInv, ParamTypeOK
  <2> QED BY <1>0, <2>1, SameTypes DEF ParamInv, ParamTypeOK, Steps, Returning
<1>3. MessageInv'
  BY <1>0, <1>1, SameTypes DEF MessageInv
<1>4. NodeInv' /\ CallerInv'
  BY <1>0, SameTypes DEF ParamInv, CallerInv, NodeInv
<1>5. ServerInv' /\ ClientInv' /\ MemInv'
  BY <1>0, SameTypes DEF ParamInv, ServerInv, ClientInv, MemInv, Asking, Returning
<1> QED BY <1>2, <1>3, <1>4, <1>5 DEF ParamInv

LEMMA KeptByServerReceives == ASSUME ParamInv, ServerReceives PROVE ParamInv'
<1>0. /\ step = "requested" /\ step' = "command" /\ server' = Received(server, "server") /\ mem' = Filled("server")
      /\ UNCHANGED <<t, size, async, caller, node, back, msg>> /\ t \in Signatures
  BY DEF ServerReceives, ParamInv, ParamTypeOK
<1>1. \A i \in 1..get_param_count :
        msg[i] = IF i \in Of(VALUE) THEN Asked(i) ELSE [w |-> Content(Block("user", i)), size |-> size]
  BY <1>0 DEF ParamInv, MessageInv
<1>2. \A i \in Of(VALUE) : msg[i] = Asked(i)
  BY <1>0, <1>1, KindsOfParams
<1>3. ASSUME NEW i \in Of(MEMREF) PROVE msg[i].w = Content(Block("user", i)) /\ msg[i].size = size
  <2>1. msg[i] = [w |-> Content(Block("user", i)), size |-> size]
    BY <1>0, <1>1, KindsOfParams
  <2> QED BY <2>1
<1>4. ASSUME NEW i \in Params PROVE server'[i] = AtServer(i)
  <2>1. server[i] = Asked(i)
    BY <1>0 DEF ParamInv, ServerInv, Asking
  <2>2. i \in Of(MEMREF) => msg[i].size = size
    BY <1>3
  <2> QED BY <1>0, <1>2, <2>1, <2>2, KindsOfParams DEF Received, AtServer
<1>5. ASSUME NEW b \in Blocks
      PROVE  mem'[b] = IF b[1] = "server" /\ b[2] \in Of(MEMREF) THEN ServerHolds(b[2]) ELSE Content(b)
  <2>1. mem[b] = Content(b)
    BY <1>0 DEF ParamInv, MemInv, Asking, Returning
  <2>2. ASSUME b[1] = "server", b[2] \in Of(MEMREF) PROVE mem'[b] = ServerHolds(b[2])
    <3>1. b = Block("server", b[2])
      BY <2>2, Blocky
    <3>2. msg[b[2]].w = Content(Block("user", b[2])) /\ msg[b[2]].size = size
      BY <1>3, <2>2
    <3>3. mem'[b] = memcpy(mem[b], msg[b[2]].w, msg[b[2]].size)
      BY <1>0, <2>2 DEF Filled
    <3> QED BY <2>1, <3>1, <3>2, <3>3 DEF ServerHolds
  <2> QED BY <1>0, <2>1, <2>2 DEF Filled
<1>6. ParamTypeOK'
  <2>1. DOMAIN server' = Params
    BY <1>0 DEF Received
  <2> QED BY <1>0, <2>1, SameTypes DEF ParamInv, ParamTypeOK, Steps, Returning
<1>7. ServerInv'
  BY <1>0, <1>4, SameTypes DEF ServerInv, Asking
<1>8. MemInv'
  BY <1>0, <1>5, SameTypes DEF MemInv, Asking, Returning
<1>9. MessageInv' /\ ClientInv' /\ NodeInv' /\ CallerInv'
  BY <1>0, SameTypes DEF ParamInv, MessageInv, ClientInv, NodeInv, CallerInv, Returning
<1> QED BY <1>6, <1>7, <1>8, <1>9 DEF ParamInv

LEMMA KeptByProcessCommand == ASSUME ParamInv, ProcessCommand PROVE ParamInv'
<1>0. /\ step = "command" /\ step' = "respond" /\ server' = [server EXCEPT ![2].w = Answer]
      /\ UNCHANGED <<t, size, async, mem, caller, node, back, msg>> /\ t \in Signatures /\ DOMAIN server = Params
  BY DEF ProcessCommand, ParamInv, ParamTypeOK
<1>1. ASSUME NEW i \in Params PROVE server'[i] = Answered(i)
  <2>1. server[i] = AtServer(i)
    BY <1>0 DEF ParamInv, ServerInv
  <2>2. CASE i = 2
    <3>1. server'[i] = [server[i] EXCEPT !.w = Answer]
      BY <1>0, <2>2
    <3>2. \E u : AtServer(i) = [w |-> u, size |-> size]
      BY DEF AtServer, Asked
    <3> QED BY <2>1, <2>2, <3>1, <3>2 DEF Answered
  <2>3. CASE i # 2
    BY <1>0, <2>1, <2>3 DEF Answered
  <2> QED BY <2>2, <2>3
<1>2. ParamTypeOK'
  BY <1>0, SameTypes DEF ParamInv, ParamTypeOK, Steps, Returning
<1>3. ServerInv'
  BY <1>0, <1>1, SameTypes DEF ServerInv, Asking
<1>4. MessageInv' /\ ClientInv' /\ NodeInv' /\ CallerInv'
  BY <1>0, SameTypes DEF ParamInv, MessageInv, ClientInv, NodeInv, CallerInv, Returning
<1>5. MemInv'
  BY <1>0, SameTypes DEF ParamInv, MemInv, Asking, Returning
<1> QED BY <1>2, <1>3, <1>4, <1>5 DEF ParamInv

\* The pointers of what the server answers; that of params[1] is none any more.
LEMMA AnsweredPointers ==
  ASSUME t \in Signatures, NEW i \in Of(MEMREF)
  PROVE  /\ i = 2 => Answered(i).w = Answer
         /\ i # 2 => Answered(i) = [w |-> Pointer(Block("server", i)), size |-> size]
         /\ i \in Params /\ Block("server", i) \in Blocks
BY KindsOfParams, Blocky DEF Answered, AtServer

LEMMA KeptByRespond == ASSUME ParamInv, Respond PROVE ParamInv'
<1>0. step = "respond" /\ UNCHANGED <<t, size, async, mem, caller, node, server, back>> /\ t \in Signatures
  BY DEF Respond, ParamInv, ParamTypeOK
<1>1. \A i \in Params : server[i] = Answered(i)
  BY <1>0 DEF ParamInv, ServerInv, Asking
<1>2. ASSUME NEW i \in Of(MEMREF), i # 2 PROVE Target(server[i]) = Block("server", i) /\ ~Wild(server[i]) /\ server[i].size = size
  <2>1. server[i].w = Pointer(Block("server", i)) /\ server[i].size = size /\ Block("server", i) \in Blocks
    BY <1>0, <1>1, <1>2, AnsweredPointers
  <2> QED BY <2>1, TargetOfPointer
<1>3. 2 \in Of(MEMREF) => Wild(server[2])
  BY <1>0, <1>1, AnsweredPointers, PointersApart DEF Wild
<1>4. CASE (\E i \in Of(MEMREF) : Wild(server[i])) /\ step' = "crashed" /\ UNCHANGED msg
  <2>1. 2 \in Of(MEMREF)
    BY <1>2, <1>4
  <2>2. ParamTypeOK'
    BY <1>0, <1>4, <2>1, SameTypes DEF ParamInv, ParamTypeOK, Steps, Returning
  <2>3. MessageInv' /\ ServerInv' /\ ClientInv' /\ NodeInv' /\ CallerInv'
    BY <1>0, <1>1, <1>4, SameTypes DEF ParamInv, MessageInv, ServerInv, ClientInv, NodeInv, CallerInv, Asking, Returning
  <2>4. MemInv'
    BY <1>0, <1>4, SameTypes DEF ParamInv, MemInv, Asking, Returning
  <2> QED BY <2>2, <2>3, <2>4 DEF ParamInv
<1>5. CASE (\A i \in Of(MEMREF) : ~Wild(server[i])) /\ step' = "responded" /\ msg' = Converted(server)
  <2>1. 2 \notin Of(MEMREF)
    BY <1>3, <1>5
  <2>2. ASSUME NEW i \in 1..get_param_count
        PROVE  msg'[i] = IF i \in Of(VALUE) THEN Answered(i) ELSE [w |-> ServerHolds(i), size |-> size]
    <3>1. i \in Params /\ server[i] = Answered(i)
      BY <1>0, <1>1, KindsOfParams
    <3>2. ASSUME i \notin Of(VALUE)
          PROVE  mem[Target(server[i])] = ServerHolds(i) /\ server[i].size = size
      <4>1. i \in Of(MEMREF) /\ i # 2
        BY <1>0, <2>1, <3>2, KindsOfParams
      <4>2. /\ Target(server[i]) = Block("server", i) /\ server[i].size = size
            /\ Block("server", i) \in Blocks /\ Block("server", i)[1] = "server" /\ Block("server", i)[2] = i
        BY <1>2, <3>1, <4>1, Blocky
      <4>3. mem[Block("server", i)] = ServerHolds(i)
        BY <1>0, <4>1, <4>2 DEF ParamInv, MemInv, Asking
      <4> QED BY <4>2, <4>3
    <3> QED BY <1>5, <3>1, <3>2 DEF Converted
  <2>3. ParamTypeOK'
    BY <1>0, <1>5, <2>1, SameTypes DEF ParamInv, ParamTypeOK, Steps, Returning
  <2>4. MessageInv'
    BY <1>5, <2>2, <1>0, SameTypes DEF MessageInv
  <2>5. ServerInv' /\ ClientInv' /\ NodeInv' /\ CallerInv'
    BY <1>0, <1>1, <1>5, SameTypes DEF ParamInv, ServerInv, ClientInv, NodeInv, CallerInv, Asking, Returning
  <2>6. MemInv'
    BY <1>0, <1>5, SameTypes DEF ParamInv, MemInv, Asking, Returning
  <2> QED BY <2>3, <2>4, <2>5, <2>6 DEF ParamInv
<1> QED BY <1>4, <1>5 DEF Respond

LEMMA KeptByClientReceives == ASSUME ParamInv, ClientReceives PROVE ParamInv'
<1>0. /\ step = "responded" /\ step' = "process" /\ back' = Received(back, "client") /\ mem' = Filled("client")
      /\ UNCHANGED <<t, size, async, caller, node, server, msg>> /\ t \in Signatures
  BY DEF ClientReceives, ParamInv, ParamTypeOK
<1>1. \A i \in 1..get_param_count :
        msg[i] = IF i \in Of(VALUE) THEN Answered(i) ELSE [w |-> ServerHolds(i), size |-> size]
  BY <1>0 DEF ParamInv, MessageInv
<1>2. \A i \in Of(VALUE) : msg[i] = Answered(i)
  BY <1>0, <1>1, KindsOfParams
<1>3. ASSUME NEW i \in Of(MEMREF) PROVE msg[i].w = ServerHolds(i) /\ msg[i].size = size
  <2>1. msg[i] = [w |-> ServerHolds(i), size |-> size]
    BY <1>0, <1>1, KindsOfParams
  <2> QED BY <2>1
<1>4. ASSUME NEW i \in Of(VALUE) PROVE back'[i] = Answered(i)
  BY <1>0, <1>2, KindsOfParams DEF Received
<1>5. ASSUME NEW i \in Of(MEMREF) PROVE back'[i] = [w |-> Pointer(Block("client", i)), size |-> size]
  <2>1. i \in Params /\ i \notin Of(VALUE) /\ msg[i].size = size
    BY <1>0, <1>3, KindsOfParams
  <2> QED BY <1>0, <2>1 DEF Received
<1>6. ASSUME NEW b \in Blocks
      PROVE  mem'[b] = IF b[1] = "server" /\ b[2] \in Of(MEMREF) THEN ServerHolds(b[2])
                       ELSE IF b[1] = "client" /\ b[2] \in Of(MEMREF) THEN ClientHolds(b[2]) ELSE Content(b)
  <2>1. mem[b] = IF b[1] = "server" /\ b[2] \in Of(MEMREF) THEN ServerHolds(b[2]) ELSE Content(b)
    BY <1>0 DEF ParamInv, MemInv, Asking, Returning
  <2>2. ASSUME b[1] = "client", b[2] \in Of(MEMREF) PROVE mem'[b] = ClientHolds(b[2])
    <3>1. b = Block("client", b[2]) /\ mem[b] = Content(b)
      BY <2>1, <2>2, Blocky
    <3>2. msg[b[2]].w = ServerHolds(b[2]) /\ msg[b[2]].size = size
      BY <1>3, <2>2
    <3>3. mem'[b] = memcpy(mem[b], msg[b[2]].w, msg[b[2]].size)
      BY <1>0, <2>2 DEF Filled
    <3> QED BY <3>1, <3>2, <3>3 DEF ClientHolds
  <2> QED BY <1>0, <2>1, <2>2 DEF Filled
<1>7. ParamTypeOK'
  BY <1>0, SameTypes DEF ParamInv, ParamTypeOK, Steps, Returning
<1>8. ClientInv'
  BY <1>0, <1>4, <1>5, SameTypes DEF ClientInv, Returning
<1>9. MemInv'
  BY <1>0, <1>6, SameTypes DEF MemInv, Asking, Returning
<1>10. MessageInv' /\ ServerInv' /\ NodeInv' /\ CallerInv'
  BY <1>0, SameTypes DEF ParamInv, MessageInv, ServerInv, NodeInv, CallerInv, Asking
<1> QED BY <1>7, <1>8, <1>9, <1>10 DEF ParamInv

\* The copies of values and sizes.
LEMMA CopiedBack ==
  ASSUME t \in Signatures, NEW to, NEW from, \A i \in Params : to[i] = Asked(i),
         \A i \in OutValue : from[i] = Answered(i), \A i \in OutMemref : from[i].size = size
  PROVE  \A i \in Params : Copied(to, from)[i] = IF i \in OutValue THEN Answered(i) ELSE Asked(i)
<1> SUFFICES ASSUME NEW i \in Params
             PROVE  Copied(to, from)[i] = IF i \in OutValue THEN Answered(i) ELSE Asked(i)
  OBVIOUS
<1>1. Copied(to, from)[i] = IF i \in OutValue THEN from[i]
                            ELSE IF i \in OutMemref THEN [to[i] EXCEPT !.size = from[i].size] ELSE to[i]
  BY DEF Copied, OutValue, OutMemref
<1>2. [Asked(i) EXCEPT !.size = size] = Asked(i)
  BY DEF Asked
<1> QED BY <1>1, <1>2

\* What the client's receive thread has for the outputs.
LEMMA BackHas ==
  ASSUME ParamInv, step = "process"
  PROVE  /\ \A i \in OutValue : back[i] = Answered(i)
         /\ \A i \in OutMemref : back[i].size = size /\ back[i].w = Pointer(Block("client", i))
<1>1. t \in Signatures /\ \A i \in Of(VALUE) : back[i] = Answered(i)
  BY DEF ParamInv, ParamTypeOK, ClientInv, Returning
<1>2. ASSUME NEW i \in Of(MEMREF) PROVE back[i].size = size /\ back[i].w = Pointer(Block("client", i))
  <2>1. back[i] = [w |-> Pointer(Block("client", i)), size |-> size]
    BY DEF ParamInv, ClientInv, Returning
  <2> QED BY <2>1
<1> QED BY <1>1, <1>2, KindsOfParams

LEMMA KeptBySyncCall == ASSUME ParamInv, process_sync_call PROVE ParamInv'
<1>0. /\ step = "process" /\ ~async /\ step' = "copy" /\ node' = Copied(node, back)
      /\ UNCHANGED <<t, size, async, caller, server, back, msg>> /\ t \in Signatures
      /\ mem' = [b \in Blocks |-> IF \E i \in OutMemref : b = Target(node[i])
                                  THEN memcpy(mem[b], back[b[2]].w, back[b[2]].size) ELSE mem[b]]
  BY DEF process_sync_call, ParamInv, ParamTypeOK, OutMemref
<1>1. \A i \in Params : node[i] = Asked(i)
  BY <1>0 DEF ParamInv, NodeInv
<1>2. \A i \in Params : node'[i] = IF i \in OutValue THEN Answered(i) ELSE Asked(i)
  <2>1. \A i \in Params : Copied(node, back)[i] = IF i \in OutValue THEN Answered(i) ELSE Asked(i)
    BY <1>0, <1>1, BackHas, CopiedBack
  <2> QED BY <1>0, <2>1
<1>3. ASSUME NEW i \in OutMemref PROVE Target(node[i]) = Block("user", i) /\ Block("user", i) \in Blocks /\ i \in Params
  <2>1. i \in Of(MEMREF) /\ i \in Params /\ Block("user", i) \in Blocks
    BY <1>0, KindsOfParams, Blocky
  <2>2. node[i].w = Pointer(Block("user", i))
    <3>1. node[i] = Asked(i)
      BY <1>1, <2>1
    <3> QED BY <2>1, <3>1 DEF Asked
  <2> QED BY <2>1, <2>2, TargetOfPointer
<1>4. ASSUME NEW b \in Blocks
      PROVE  mem'[b] = IF b[1] = "user" /\ b[2] \in OutMemref THEN UserHolds(b[2]) ELSE mem[b]
  <2>1. (\E i \in OutMemref : b = Target(node[i])) <=> b[1] = "user" /\ b[2] \in OutMemref
    <3>1. ASSUME NEW i \in OutMemref, b = Target(node[i]) PROVE b[1] = "user" /\ b[2] \in OutMemref
      BY <1>3, <3>1, Blocky
    <3>2. ASSUME b[1] = "user", b[2] \in OutMemref PROVE b = Target(node[b[2]])
      BY <1>3, <3>2, Blocky
    <3> QED BY <3>1, <3>2
  <2>2. ASSUME b[1] = "user", b[2] \in OutMemref PROVE memcpy(mem[b], back[b[2]].w, back[b[2]].size) = UserHolds(b[2])
    <3>1. b = Block("user", b[2]) /\ mem[b] = Content(b)
      BY <1>0, <2>2, Blocky DEF ParamInv, MemInv
    <3>2. back[b[2]].w = Pointer(Block("client", b[2])) /\ back[b[2]].size = size
      BY <1>0, <2>2, BackHas
    <3> QED BY <3>1, <3>2 DEF UserHolds
  <2> QED BY <1>0, <2>1, <2>2
<1>5. ParamTypeOK'
  <2>1. DOMAIN node' = Params
    BY <1>0 DEF Copied
  <2> QED BY <1>0, <2>1, SameTypes DEF ParamInv, ParamTypeOK, Steps, Returning
<1>6. NodeInv'
  BY <1>0, <1>2, SameTypes DEF NodeInv
<1>7. MemInv'
  BY <1>0, <1>4, SameTypes DEF ParamInv, MemInv, Asking, Returning
<1>8. MessageInv' /\ ServerInv' /\ ClientInv' /\ CallerInv'
  BY <1>0, SameTypes DEF ParamInv, MessageInv, ServerInv, ClientInv, CallerInv, Asking, Returning
<1> QED BY <1>5, <1>6, <1>7, <1>8 DEF ParamInv

LEMMA KeptByAsyncCall == ASSUME ParamInv, process_async_call PROVE ParamInv'
<1>0. /\ step = "process" /\ async /\ step' = "called"
      /\ node' = [i \in Params |-> IF i \in OutMemref
                                   THEN [w |-> memcpy(node[i].w, back[i].w, back[i].size), size |-> back[i].size]
                                   ELSE Copied(node, back)[i]]
      /\ UNCHANGED <<t, size, async, mem, caller, server, back, msg>> /\ t \in Signatures
  BY DEF process_async_call, ParamInv, ParamTypeOK, OutMemref
<1>1. \A i \in Params : node[i] = Asked(i)
  BY <1>0 DEF ParamInv, NodeInv
<1>2. \A i \in Params : Copied(node, back)[i] = IF i \in OutValue THEN Answered(i) ELSE Asked(i)
  BY <1>0, <1>1, BackHas, CopiedBack
<1>3. ASSUME NEW i \in Params
      PROVE  node'[i] = IF i \in OutValue THEN Answered(i)
                        ELSE IF i \in OutMemref THEN [w |-> PointerCopied(i), size |-> size] ELSE Asked(i)
  <2>1. ASSUME i \in OutMemref PROVE node'[i] = [w |-> PointerCopied(i), size |-> size] /\ i \notin OutValue
    <3>1. i \in Of(MEMREF) /\ i \notin OutValue
      BY <1>0, <2>1, KindsOfParams
    <3>2. node[i].w = Pointer(Block("user", i))
      <4>1. node[i] = Asked(i)
        BY <1>1
      <4> QED BY <3>1, <4>1 DEF Asked
    <3>3. back[i].w = Pointer(Block("client", i)) /\ back[i].size = size
      BY <1>0, <2>1, BackHas
    <3> QED BY <1>0, <2>1, <3>1, <3>2, <3>3 DEF PointerCopied
  <2> QED BY <1>0, <1>2, <2>1
<1>4. ParamTypeOK'
  BY <1>0, SameTypes DEF ParamInv, ParamTypeOK, Steps, Returning
<1>5. NodeInv'
  BY <1>0, <1>3, SameTypes DEF NodeInv
<1>6. MemInv'
  BY <1>0, SameTypes DEF ParamInv, MemInv, Asking, Returning
<1>7. MessageInv' /\ ServerInv' /\ ClientInv' /\ CallerInv'
  BY <1>0, SameTypes DEF ParamInv, MessageInv, ServerInv, ClientInv, CallerInv, Asking, Returning
<1> QED BY <1>4, <1>5, <1>6, <1>7 DEF ParamInv

LEMMA KeptByCopyBack == ASSUME ParamInv, CopyBack PROVE ParamInv'
<1>0. /\ step = "copy" /\ step' = "returned" /\ ~async
      /\ caller' = [i \in Params |-> IF i \in OutMemref
                                     THEN [w |-> memcpy(caller[i].w, mem[Target(node[i])], node[i].size), size |-> node[i].size]
                                     ELSE Copied(caller, node)[i]]
      /\ UNCHANGED <<t, size, async, mem, node, server, back, msg>> /\ t \in Signatures
  BY DEF CopyBack, ParamInv, ParamTypeOK, OutMemref
<1>1. \A i \in Params : caller[i] = Asked(i)
  BY <1>0 DEF ParamInv, CallerInv
<1>2. \A i \in Params : node[i] = IF i \in OutValue THEN Answered(i) ELSE Asked(i)
  BY <1>0 DEF ParamInv, NodeInv
<1>3. ASSUME NEW i \in OutMemref
      PROVE  /\ i \in Params /\ i \notin OutValue /\ node[i].size = size /\ caller[i].w = Pointer(Block("user", i))
             /\ mem[Target(node[i])] = UserHolds(i)
  <2>1. /\ i \in Of(MEMREF) /\ i \in Params /\ i \notin OutValue
        /\ Block("user", i) \in Blocks /\ Block("user", i)[1] = "user" /\ Block("user", i)[2] = i
    BY <1>0, KindsOfParams, Blocky
  <2>2. node[i] = Asked(i) /\ caller[i] = Asked(i)
    BY <1>1, <1>2, <2>1
  <2>3. node[i].w = Pointer(Block("user", i)) /\ caller[i].w = Pointer(Block("user", i)) /\ node[i].size = size
    BY <2>1, <2>2 DEF Asked
  <2>4. Target(node[i]) = Block("user", i)
    BY <2>1, <2>3, TargetOfPointer
  <2>5. mem[Block("user", i)] = UserHolds(i)
    BY <1>0, <2>1 DEF ParamInv, MemInv
  <2> QED BY <2>1, <2>3, <2>4, <2>5
<1>4. \A i \in Params : Copied(caller, node)[i] = IF i \in OutValue THEN Answered(i) ELSE Asked(i)
  <2>1. \A i \in OutValue : i \in Params
    BY <1>0, KindsOfParams
  <2> QED BY <1>0, <1>1, <1>2, <1>3, <2>1, CopiedBack
<1>5. ASSUME NEW i \in Params
      PROVE  caller'[i] = IF i \in OutValue THEN Answered(i)
                          ELSE IF i \in OutMemref
                          THEN [w |-> memcpy(Pointer(Block("user", i)), UserHolds(i), size), size |-> size] ELSE Asked(i)
  BY <1>0, <1>3, <1>4
<1>6. ParamTypeOK'
  BY <1>0, SameTypes DEF ParamInv, ParamTypeOK, Steps, Returning
<1>7. CallerInv'
  BY <1>0, <1>5, SameTypes DEF CallerInv
<1>8. NodeInv'
  BY <1>0, <1>2, SameTypes DEF NodeInv
<1>9. MemInv'
  BY <1>0, SameTypes DEF ParamInv, MemInv, Asking, Returning
<1>10. MessageInv' /\ ServerInv' /\ ClientInv'
  BY <1>0, SameTypes DEF ParamInv, MessageInv, ServerInv, ClientInv, Asking, Returning
<1> QED BY <1>6, <1>7, <1>8, <1>9, <1>10 DEF ParamInv

LEMMA ParamStep == ASSUME ParamInv, [ParamNext]_paramVars PROVE ParamInv'
<1>1. CASE UNCHANGED paramVars
  <2>1. UNCHANGED <<t, size, async, step, mem, caller, node, server, back, msg>>
    BY <1>1 DEF paramVars
  <2>2. ParamTypeOK' /\ MessageInv' /\ ServerInv' /\ ClientInv'
    BY <2>1, SameTypes DEF ParamInv, ParamTypeOK, MessageInv, ServerInv, ClientInv
  <2>3. NodeInv' /\ CallerInv' /\ MemInv'
    BY <2>1, SameTypes DEF ParamInv, NodeInv, CallerInv, MemInv
  <2> QED BY <2>2, <2>3 DEF ParamInv
<1> QED BY <1>1, KeptByRequest, KeptByServerReceives, KeptByProcessCommand, KeptByRespond,
           KeptByClientReceives, KeptBySyncCall, KeptByAsyncCall, KeptByCopyBack DEF ParamNext

-----------------------------------------------------------------------------
(* What the property says.                                                  *)

LEMMA Copying ==
  /\ \A a, b, n : memcpy(memcpy(a, b, n), b, n) = memcpy(a, b, n)
  /\ \A a, b, c : memcpy(a, Pointer(b), 2) = Pointer(b)
  /\ \A a, b, c, d : memcpy(a, memcpy(b, c, d), 2) = memcpy(b, c, d)
  /\ \A a, b, n : memcpy(a, b, n)["lo"] = b["lo"]
  /\ \A a, b : memcpy(a, b, 1)["hi"] = a["hi"]
BY DEF memcpy, Pointer, Words

\* Two halves of pointers to different blocks are no pointer.
LEMMA HalvesAreWild ==
  ASSUME NEW b, NEW c, b # c, NEW r, r.w["lo"] = Pointer(b)["lo"], r.w["hi"] = Pointer(c)["hi"]
  PROVE  Wild(r)
<1> SUFFICES ASSUME NEW d, Pointer(d) = r.w PROVE FALSE
  BY DEF Wild
<1>1. <<"to", d, "lo">> = <<"to", b, "lo">> /\ <<"to", d, "hi">> = <<"to", c, "hi">>
  BY DEF Pointer, Words
<1>2. <<"to", d, "lo">>[2] = d /\ <<"to", b, "lo">>[2] = b /\ <<"to", d, "hi">>[2] = d /\ <<"to", c, "hi">>[2] = c
  OBVIOUS
<1> QED BY <1>1, <1>2

\* What somebody finds who has a value, or a memref that points somewhere.
LEMMA FindsWhat ==
  ASSUME t \in Signatures, NEW params, NEW i
  PROVE  /\ i \in Of(VALUE) => Finds(params, i) = params[i].w
         /\ \A b \in Blocks : i \in Of(MEMREF) /\ params[i].w = Pointer(b) => Finds(params, i) = mem[b]
<1>1. ASSUME NEW b \in Blocks, i \in Of(MEMREF), params[i].w = Pointer(b) PROVE Finds(params, i) = mem[b]
  <2>1. Target(params[i]) = b /\ ~Wild(params[i])
    BY <1>1, TargetOfPointer
  <2> QED BY <1>1, <2>1, KindsOfParams DEF Finds
<1> QED BY <1>1 DEF Finds

LEMMA CommandArrives ==
  ASSUME ParamInv, step = "command", NEW i \in 1..get_param_count
  PROVE  Finds(server, i) = IF i \in Of(VALUE) THEN Finds(caller, i) ELSE memcpy(Finds(server, i), Finds(caller, i), size)
<1>0. t \in Signatures /\ i \in Params /\ (i \in Of(VALUE) \/ i \in Of(MEMREF))
  BY KindsOfParams DEF ParamInv, ParamTypeOK
<1>1. server[i] = AtServer(i) /\ caller[i] = Asked(i)
  BY <1>0 DEF ParamInv, ServerInv, CallerInv
<1>2. CASE i \in Of(VALUE)
  <2>1. i \notin Of(MEMREF)
    BY <1>0, <1>2, KindsOfParams
  <2>2. server[i] = caller[i]
    BY <1>1, <2>1 DEF AtServer
  <2> QED BY <1>0, <1>2, <2>2, FindsWhat
<1>3. CASE i \in Of(MEMREF)
  <2>1. i \notin Of(VALUE)
    BY <1>0, <1>3, KindsOfParams
  <2>2. server[i].w = Pointer(Block("server", i)) /\ caller[i].w = Pointer(Block("user", i))
    BY <1>1, <1>3 DEF AtServer, Asked
  <2>3. /\ Block("server", i) \in Blocks /\ Block("server", i)[1] = "server" /\ Block("server", i)[2] = i
        /\ Block("user", i) \in Blocks /\ Block("user", i)[1] = "user" /\ Block("user", i)[2] = i
    BY <1>0, Blocky
  <2>4. Finds(server, i) = mem[Block("server", i)] /\ Finds(caller, i) = mem[Block("user", i)]
    BY <1>0, <1>3, <2>2, <2>3, FindsWhat
  <2>5. mem[Block("server", i)] = ServerHolds(i) /\ mem[Block("user", i)] = Content(Block("user", i))
    BY <1>3, <2>3 DEF ParamInv, MemInv, Asking
  <2> QED BY <2>1, <2>4, <2>5, Copying DEF ServerHolds
<1> QED BY <1>0, <1>2, <1>3

\* What the result is once it is there.
LEMMA ResultIs ==
  ASSUME ParamInv, Over, NEW i \in Params
  PROVE  /\ i \in OutValue => Result[i] = Answered(i)
         /\ i \in OutMemref =>
              /\ Result[i].w["lo"] = Pointer(Block("client", i))["lo"]
              /\ size = 2 => Result[i].w = Pointer(Block("client", i))
              /\ size = 1 => Result[i].w["hi"] = Pointer(Block("user", i))["hi"]
         /\ i \notin OutValue /\ i \notin OutMemref => Result[i] = Asked(i)
<1>0. /\ t \in Signatures /\ step \in {"called", "returned"}
      /\ (step = "called" => async) /\ (step = "returned" => ~async) /\ ~(i \in OutValue /\ i \in OutMemref)
  <2>1. t \in Signatures /\ (step = "called" => async) /\ (step = "returned" => ~async)
    BY DEF ParamInv, ParamTypeOK
  <2> QED BY <2>1, KindsOfParams DEF Over
<1>1. CASE step = "called" /\ async
  <2>1. Result[i] = IF i \in OutValue THEN Answered(i)
                    ELSE IF i \in OutMemref THEN [w |-> PointerCopied(i), size |-> size] ELSE Asked(i)
    BY <1>1 DEF Result, ParamInv, NodeInv
  <2>2. ASSUME i \in OutMemref PROVE Result[i].w = PointerCopied(i)
    <3>1. Result[i] = [w |-> PointerCopied(i), size |-> size]
      BY <1>0, <2>1, <2>2
    <3> QED BY <3>1
  <2> QED BY <1>0, <2>1, <2>2, Copying DEF PointerCopied
<1>2. CASE step = "returned" /\ ~async
  <2> DEFINE u == memcpy(Pointer(Block("user", i)), UserHolds(i), size)
  <2>1. Result[i] = IF i \in OutValue THEN Answered(i)
                    ELSE IF i \in OutMemref THEN [w |-> u, size |-> size] ELSE Asked(i)
    BY <1>2 DEF Result, ParamInv, CallerInv
  <2>2. ASSUME i \in OutMemref PROVE Result[i].w = u
    <3>1. Result[i] = [w |-> u, size |-> size]
      BY <1>0, <2>1, <2>2
    <3> HIDE DEF u
    <3> QED BY <3>1
  <2>3. u["lo"] = Pointer(Block("client", i))["lo"] /\ (size = 2 => u = Pointer(Block("client", i)))
    <3>1. u["lo"] = UserHolds(i)["lo"] /\ UserHolds(i)["lo"] = Pointer(Block("client", i))["lo"]
      BY Copying DEF UserHolds
    <3>2. ASSUME size = 2 PROVE u = Pointer(Block("client", i))
      <4>1. UserHolds(i) = Pointer(Block("client", i))
        BY <3>2, Copying DEF UserHolds
      <4> QED BY <3>2, <4>1, Copying
    <3> QED BY <3>1, <3>2
  <2>4. size = 1 => u["hi"] = Pointer(Block("user", i))["hi"]
    BY Copying
  <2> HIDE DEF u
  <2> QED BY <1>0, <2>1, <2>2, <2>3, <2>4
<1> QED BY <1>0, <1>1, <1>2

LEMMA OutputsArrive ==
  ASSUME ParamInv, Over
  PROVE  /\ \A i \in OutValue : Finds(Result, i) = Finds(server, i)
         /\ \A i \in OutMemref :
              IF size = 2 THEN Target(Result[i]) = Block("client", i) /\ Finds(Result, i) = Finds(server, i)
                          ELSE Wild(Result[i])
         /\ ~async => \A i \in OutMemref : mem[Block("user", i)] # Content(Block("user", i))
<1>0. /\ t \in Signatures /\ 2 \notin Of(MEMREF) /\ size \in {1, 2} /\ step \in {"called", "returned"}
      /\ (step = "called" => async)
  BY ParamsAssumption DEF ParamInv, ParamTypeOK, Over, Returning
<1>1. \A i \in Params : server[i] = Answered(i)
  BY <1>0 DEF ParamInv, ServerInv, Asking
<1>2. ASSUME NEW i \in OutValue PROVE Finds(Result, i) = Finds(server, i)
  <2>1. i \in Of(VALUE) /\ i \in Params
    BY <1>0, KindsOfParams
  <2>2. Result[i] = server[i]
    BY <1>1, <2>1, ResultIs
  <2> QED BY <1>0, <2>1, <2>2, FindsWhat
<1>3. ASSUME NEW i \in OutMemref
      PROVE  /\ i \in Of(MEMREF) /\ i \in Params /\ server[i].w = Pointer(Block("server", i))
             /\ Block("server", i) \in Blocks /\ Block("server", i)[1] = "server" /\ Block("server", i)[2] = i
             /\ Block("client", i) \in Blocks /\ Block("client", i)[1] = "client" /\ Block("client", i)[2] = i
             /\ Block("user", i) \in Blocks /\ Block("user", i)[1] = "user" /\ Block("user", i)[2] = i
  <2>1. i \in Of(MEMREF) /\ i \in Params /\ i # 2
    BY <1>0, KindsOfParams
  <2>2. server[i] = [w |-> Pointer(Block("server", i)), size |-> size]
    BY <1>0, <1>1, <2>1, AnsweredPointers
  <2>3. server[i].w = Pointer(Block("server", i))
    BY <2>2
  <2> QED BY <2>1, <2>3, Blocky
<1>4. ASSUME NEW i \in OutMemref, size = 2
      PROVE  Target(Result[i]) = Block("client", i) /\ Finds(Result, i) = Finds(server, i)
  <2>1. Result[i].w = Pointer(Block("client", i))
    BY <1>3, <1>4, ResultIs
  <2>2. Target(Result[i]) = Block("client", i) /\ Finds(Result, i) = mem[Block("client", i)]
    BY <1>0, <1>3, <2>1, TargetOfPointer, FindsWhat
  <2>3. Finds(server, i) = mem[Block("server", i)]
    BY <1>0, <1>3, FindsWhat
  <2>4. mem[Block("client", i)] = ClientHolds(i)
    BY <1>0, <1>3 DEF ParamInv, MemInv, Returning
  <2>5. mem[Block("server", i)] = ServerHolds(i)
    BY <1>0, <1>3 DEF ParamInv, MemInv, Asking
  <2>6. ClientHolds(i) = ServerHolds(i)
    BY <1>4, Copying DEF ClientHolds, ServerHolds
  <2> QED BY <2>2, <2>3, <2>4, <2>5, <2>6
<1>5. ASSUME NEW i \in OutMemref, size = 1 PROVE Wild(Result[i])
  <2>1. Block("client", i) # Block("user", i)
    BY <1>3
  <2>2. Result[i].w["lo"] = Pointer(Block("client", i))["lo"] /\ Result[i].w["hi"] = Pointer(Block("user", i))["hi"]
    BY <1>3, <1>5, ResultIs
  <2> QED BY <2>1, <2>2, HalvesAreWild
<1>6. ASSUME ~async, NEW i \in OutMemref PROVE mem[Block("user", i)] # Content(Block("user", i))
  <2>1. mem[Block("user", i)] = UserHolds(i)
    BY <1>0, <1>3, <1>6 DEF ParamInv, MemInv
  <2>2. UserHolds(i)["lo"] = Pointer(Block("client", i))["lo"]
    BY Copying DEF UserHolds
  <2>3. Pointer(Block("client", i))["lo"] # Content(Block("user", i))["lo"]
    <3> DEFINE b == Block("client", i)
               c == Block("user", i)
    <3>1. Pointer(b)["lo"] = <<"to", b, "lo">> /\ Content(c)["lo"] = <<"of", c, "lo">>
      BY DEF Pointer, Content, Words
    <3> HIDE DEF b, c
    <3>2. <<"to", b, "lo">>[1] = "to" /\ <<"of", c, "lo">>[1] = "of" /\ "to" # "of"
      OBVIOUS
    <3>3. <<"to", b, "lo">> # <<"of", c, "lo">>
      BY <3>2
    <3>4. Pointer(b)["lo"] # Content(c)["lo"]
      BY <3>1, <3>3
    <3> QED BY <3>4 DEF b, c
  <2> QED BY <2>1, <2>2, <2>3
<1> QED BY <1>0, <1>2, <1>4, <1>5, <1>6

LEMMA InputsStay ==
  ASSUME ParamInv, Over, NEW i \in Of((VALUE \cup MEMREF) \ Returned)
  PROVE  Finds(Result, i) = Content(Block(IF i \in Of(VALUE) THEN "value" ELSE "user", i))
<1>0. /\ t \in Signatures /\ i \in Params /\ (i \in Of(VALUE) \/ i \in Of(MEMREF)) /\ i \notin OutValue /\ i \notin OutMemref
      /\ ~(i \in Of(VALUE) /\ i \in Of(MEMREF))
  <2>1. t \in Signatures
    BY DEF ParamInv, ParamTypeOK
  <2> QED BY <2>1, KindsOfParams
<1>1. Result[i] = Asked(i)
  BY <1>0, ResultIs
<1>2. CASE i \in Of(VALUE)
  <2>1. Result[i].w = Content(Block("value", i))
    BY <1>0, <1>1, <1>2 DEF Asked
  <2> QED BY <1>0, <1>2, <2>1, FindsWhat
<1>3. CASE i \in Of(MEMREF)
  <2>1. Result[i].w = Pointer(Block("user", i))
    BY <1>0, <1>1, <1>3 DEF Asked
  <2>2. Block("user", i) \in Blocks /\ Block("user", i)[1] = "user" /\ Block("user", i)[2] = i
    BY <1>0, Blocky
  <2>3. mem[Block("user", i)] = Content(Block("user", i))
    BY <1>0, <2>2 DEF ParamInv, MemInv
  <2> QED BY <1>0, <1>3, <2>1, <2>2, <2>3, FindsWhat
<1> QED BY <1>0, <1>2, <1>3

\* Whatever types a caller names and whatever the sizes: up to four parameters reach the
\* server, the server crashes only over a memref in params[1], outputs come back as they
\* were answered where a memref is as long as a pointer and wild where it is shorter, the
\* caller's own block is lost, and inputs stay.
THEOREM ParamsReach == ParamSpec => []ParamsArrive
<1>1. ParamInit => ParamInv
  BY ParamInitInv
<1>2. ParamInv /\ [ParamNext]_paramVars => ParamInv'
  BY ParamStep
<1>3. ParamInv => ParamsArrive
  <2> SUFFICES ASSUME ParamInv PROVE ParamsArrive
    OBVIOUS
  <2>1. t \in Signatures /\ (step = "crashed" => 2 \in Of(MEMREF))
    BY DEF ParamInv, ParamTypeOK
  <2>2. Of(Returned \cap VALUE) = OutValue /\ Of(Returned \cap MEMREF) = OutMemref
    BY <2>1, KindsOfParams
  <2>3. step = "command" => \A i \in 1..get_param_count :
          Finds(server, i) = IF i \in Of(VALUE) THEN Finds(caller, i) ELSE memcpy(Finds(server, i), Finds(caller, i), size)
    BY CommandArrives
  <2>4. get_param_count = IF Named > 4 THEN 4 ELSE Named
    BY <2>1, CountIsNamed
  <2>5. ASSUME Over
        PROVE  /\ \A i \in Of(Returned \cap VALUE) : Finds(Result, i) = Finds(server, i)
               /\ \A i \in Of(Returned \cap MEMREF) :
                    IF size = 2 THEN Target(Result[i]) = Block("client", i) /\ Finds(Result, i) = Finds(server, i)
                                ELSE Wild(Result[i])
               /\ ~async => \A i \in Of(Returned \cap MEMREF) : mem[Block("user", i)] # Content(Block("user", i))
    BY <2>2, <2>5, OutputsArrive
  <2>6. Over => \A i \in Of((VALUE \cup MEMREF) \ Returned) :
          Finds(Result, i) = Content(Block(IF i \in Of(VALUE) THEN "value" ELSE "user", i))
    BY InputsStay
  <2> QED BY <2>1, <2>3, <2>4, <2>5, <2>6 DEF ParamsArrive
<1> QED BY <1>1, <1>2, <1>3, PTL DEF ParamSpec

===============================================================================
