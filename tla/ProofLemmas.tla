------------------------------ MODULE ProofLemmas ------------------------------
(***************************************************************************)
(* Facts about sets of numbers and about sequences that proofs of several  *)
(* components rest on.                                                     *)
(***************************************************************************)
EXTENDS Integers, FiniteSetsExt, SequencesExt, SequenceTheorems, FiniteSetTheorems, TLAPS

\* A set of natural numbers that is not empty has a least element, which Min
\* returns.
LEMMA MinIsElement ==
  ASSUME NEW S, S \subseteq Nat, S # {}
  PROVE  Min(S) \in S /\ \A y \in S : Min(S) <= y
<1> DEFINE R == {ss \in Nat \X Nat : ss[1] < ss[2]}
<1>0. IsWellFoundedOn(R, Nat)
  BY NatLessThanWellFounded DEF OpToRel
<1>1. PICK x \in S : \A y \in S : <<y, x>> \notin R
  <2> HIDE DEF R
  <2> QED BY <1>0, WFMin, Zenon
<1>2. \A y \in S : x <= y
  <2> TAKE y \in S
  <2>1. x \in Nat /\ y \in Nat
    OBVIOUS
  <2>2. ~(y < x)
    BY <1>1, <2>1
  <2> QED BY <2>1, <2>2
<1> QED BY <1>2 DEF Min

-----------------------------------------------------------------------------
(* Taking an element out of a sequence, and counting the elements of a kind. *)

\* Taking out element i shifts the elements behind it down by one.
LEMMA RemoveAtProperties ==
  ASSUME NEW S, NEW s \in Seq(S), NEW i \in 1..Len(s)
  PROVE  /\ RemoveAt(s, i) \in Seq(S)
         /\ Len(RemoveAt(s, i)) = Len(s) - 1
         /\ \A j \in 1..(Len(s) - 1) :
              RemoveAt(s, i)[j] = IF j < i THEN s[j] ELSE s[j + 1]
<1> DEFINE a == SubSeq(s, 1, i - 1)
           b == SubSeq(s, i + 1, Len(s))
<1>1. Len(s) \in Nat /\ i \in Nat /\ 1 <= i /\ i <= Len(s)
  BY LenProperties
<1>2. a \in Seq(S) /\ Len(a) = i - 1 /\ \A j \in 1..(i - 1) : a[j] = s[j]
  BY <1>1
<1>3. b \in Seq(S) /\ Len(b) = Len(s) - i /\ \A j \in 1..(Len(s) - i) : b[j] = s[i + j]
  BY <1>1
<1>4. RemoveAt(s, i) = a \o b
  BY DEF RemoveAt
<1> HIDE DEF a, b
<1>5. /\ a \o b \in Seq(S)
      /\ Len(a \o b) = Len(a) + Len(b)
      /\ \A j \in 1..(Len(a) + Len(b)) :
           (a \o b)[j] = IF j <= Len(a) THEN a[j] ELSE b[j - Len(a)]
  BY <1>2, <1>3, ConcatProperties, Zenon
<1>6. Len(a) + Len(b) = Len(s) - 1
  BY <1>1, <1>2, <1>3
<1>7. ASSUME NEW j \in 1..(Len(s) - 1)
      PROVE  (a \o b)[j] = IF j < i THEN s[j] ELSE s[j + 1]
  <2>1. (a \o b)[j] = IF j <= Len(a) THEN a[j] ELSE b[j - Len(a)]
    BY <1>5, <1>6
  <2>2. CASE j < i
    <3>1. j \in 1..(i - 1) /\ j <= Len(a)
      BY <2>2, <1>1, <1>2
    <3> QED BY <2>1, <2>2, <3>1, <1>2
  <2>3. CASE ~(j < i)
    <3>1. j - (i - 1) \in 1..(Len(s) - i) /\ i + (j - (i - 1)) = j + 1 /\ ~(j <= Len(a))
      BY <2>3, <1>1, <1>2
    <3>2. (a \o b)[j] = b[j - (i - 1)]
      BY <2>1, <3>1, <1>2
    <3>3. b[j - (i - 1)] = s[i + (j - (i - 1))]
      BY <3>1, <1>3
    <3> QED BY <2>3, <3>1, <3>2, <3>3
  <2> QED BY <2>2, <2>3
<1> QED BY <1>4, <1>5, <1>6, <1>7

\* What is left are the elements at the other places, all of them.
LEMMA RemoveAtKeeps ==
  ASSUME NEW S, NEW s \in Seq(S), NEW i \in 1..Len(s), NEW k \in 1..Len(s), k # i
  PROVE  \E j \in 1..Len(RemoveAt(s, i)) : RemoveAt(s, i)[j] = s[k]
<1> DEFINE t == RemoveAt(s, i)
<1>1. /\ Len(s) \in Nat /\ i \in Nat /\ k \in Nat /\ Len(t) = Len(s) - 1
      /\ \A j \in 1..(Len(s) - 1) : t[j] = IF j < i THEN s[j] ELSE s[j + 1]
  BY RemoveAtProperties, LenProperties
<1> HIDE DEF t
<1>2. CASE k < i
  <2>1. k \in 1..Len(t) /\ t[k] = s[k]
    BY <1>1, <1>2
  <2> QED BY <2>1 DEF t
<1>3. CASE k > i
  <2>1. k - 1 \in 1..Len(t) /\ ~(k - 1 < i) /\ (k - 1) + 1 = k
    BY <1>1, <1>3
  <2>2. t[k - 1] = s[k]
    BY <1>1, <2>1
  <2> QED BY <2>1, <2>2 DEF t
<1> QED BY <1>1, <1>2, <1>3

LEMMA RemoveAtLeaves ==
  ASSUME NEW S, NEW s \in Seq(S), NEW i \in 1..Len(s), NEW j \in 1..Len(RemoveAt(s, i))
  PROVE  \E k \in 1..Len(s) : k # i /\ RemoveAt(s, i)[j] = s[k]
<1> DEFINE t == RemoveAt(s, i)
<1>1. /\ Len(s) \in Nat /\ i \in Nat /\ Len(t) = Len(s) - 1
      /\ \A l \in 1..(Len(s) - 1) : t[l] = IF l < i THEN s[l] ELSE s[l + 1]
  <2>1. Len(s) \in Nat /\ i \in Nat
    BY LenProperties
  <2> QED BY <2>1, RemoveAtProperties
<1>2. j \in 1..(Len(s) - 1) /\ j \in 1..Len(s) /\ j + 1 \in 1..Len(s)
  BY <1>1
<1> HIDE DEF t
<1>3. CASE j < i
  BY <1>1, <1>2, <1>3 DEF t
<1>4. CASE ~(j < i)
  BY <1>1, <1>2, <1>4 DEF t
<1> QED BY <1>3, <1>4

\* Where the elements of a kind stand in a sequence.
PlacesOf(s, W) == {j \in 1..Len(s) : s[j] \in W}

LEMMA PlacesFinite ==
  ASSUME NEW S, NEW s \in Seq(S), NEW W
  PROVE  IsFiniteSet(PlacesOf(s, W)) /\ Cardinality(PlacesOf(s, W)) \in Nat
<1>1. IsFiniteSet(1..Len(s))
  BY LenProperties, FS_Interval
<1>2. PlacesOf(s, W) \in SUBSET (1..Len(s))
  BY DEF PlacesOf
<1> QED BY <1>1, <1>2, FS_Subset, FS_CardinalityType

\* Appending an element of the kind makes one more.
LEMMA CountAppended ==
  ASSUME NEW S, NEW s \in Seq(S), NEW e \in S, NEW W
  PROVE  Cardinality(PlacesOf(Append(s, e), W)) = Cardinality(PlacesOf(s, W)) + (IF e \in W THEN 1 ELSE 0)
<1> DEFINE t == Append(s, e)
<1>1. /\ Len(s) \in Nat /\ Len(t) = Len(s) + 1 /\ t[Len(s) + 1] = e
      /\ \A j \in 1..Len(s) : t[j] = s[j]
  BY AppendProperties, LenProperties
<1> HIDE DEF t
<1>2. IsFiniteSet(PlacesOf(s, W)) /\ Cardinality(PlacesOf(s, W)) \in Nat
  BY PlacesFinite
<1>3. CASE e \in W
  <2>1. PlacesOf(t, W) = PlacesOf(s, W) \cup {Len(s) + 1} /\ Len(s) + 1 \notin PlacesOf(s, W)
    BY <1>1, <1>3 DEF PlacesOf
  <2> QED BY <1>2, <1>3, <2>1, FS_AddElement DEF t
<1>4. CASE e \notin W
  <2>1. PlacesOf(t, W) = PlacesOf(s, W)
    BY <1>1, <1>4 DEF PlacesOf
  <2> QED BY <1>2, <1>4, <2>1 DEF t
<1> QED BY <1>3, <1>4

\* Taking one out makes one less.
LEMMA CountRemoved ==
  ASSUME NEW S, NEW s \in Seq(S), NEW i \in 1..Len(s), NEW W
  PROVE  Cardinality(PlacesOf(RemoveAt(s, i), W)) = Cardinality(PlacesOf(s, W)) - (IF s[i] \in W THEN 1 ELSE 0)
<1> DEFINE t == RemoveAt(s, i)
           P == PlacesOf(s, W) \ {i}
           Q == PlacesOf(t, W)
           f == [j \in Q |-> IF j < i THEN j ELSE j + 1]
<1>1. /\ Len(s) \in Nat /\ Len(t) = Len(s) - 1 /\ t \in Seq(S) /\ i \in Nat
      /\ \A j \in 1..Len(t) : t[j] = IF j < i THEN s[j] ELSE s[j + 1]
  BY RemoveAtProperties, LenProperties
<1> HIDE DEF t
<1>2. IsFiniteSet(Q) /\ Cardinality(Q) \in Nat
  BY <1>1, PlacesFinite
<1>3. ExistsBijection(Q, P)
  <2>1. f \in [Q -> P]
    <3> SUFFICES ASSUME NEW j \in Q PROVE (IF j < i THEN j ELSE j + 1) \in P
      OBVIOUS
    <3>1. j \in 1..Len(t) /\ t[j] \in W
      BY DEF PlacesOf
    <3>2. CASE j < i
      BY <3>1, <3>2, <1>1 DEF PlacesOf
    <3>3. CASE ~(j < i)
      <4>1. j + 1 \in 1..Len(s) /\ j + 1 # i /\ s[j + 1] = t[j]
        BY <3>1, <3>3, <1>1
      <4> QED BY <3>1, <3>3, <4>1 DEF PlacesOf
    <3> QED BY <3>2, <3>3
  <2>2. \A j, k \in Q : f[j] = f[k] => j = k
    BY <1>1 DEF PlacesOf
  <2>3. ASSUME NEW y \in P PROVE \E j \in Q : f[j] = y
    <3>1. y \in 1..Len(s) /\ s[y] \in W /\ y # i
      BY DEF PlacesOf
    <3>2. CASE y < i
      <4>1. y \in 1..Len(t) /\ t[y] = s[y]
        BY <3>1, <3>2, <1>1
      <4> QED BY <3>1, <3>2, <4>1 DEF PlacesOf
    <3>3. CASE y > i
      <4>1. y - 1 \in 1..Len(t) /\ ~(y - 1 < i) /\ (y - 1) + 1 = y
        BY <3>1, <3>3, <1>1
      <4>2. t[y - 1] = s[y]
        BY <4>1, <1>1
      <4>3. y - 1 \in Q /\ f[y - 1] = y
        BY <3>1, <4>1, <4>2 DEF PlacesOf
      <4> QED BY <4>3
    <3> QED BY <3>1, <3>2, <3>3, <1>1
  <2> HIDE DEF f, P, Q
  <2> QED BY <2>1, <2>2, <2>3 DEF ExistsBijection, Bijection, Injection, Surjection, IsInjective
<1>4. Cardinality(P) = Cardinality(Q)
  BY <1>2, <1>3, FS_Bijection
<1>5. IsFiniteSet(PlacesOf(s, W)) /\ Cardinality(PlacesOf(s, W)) \in Nat
  BY PlacesFinite
<1>6. i \in PlacesOf(s, W) <=> s[i] \in W
  BY DEF PlacesOf
<1> HIDE DEF Q
<1>7. Cardinality(P) = Cardinality(PlacesOf(s, W)) - (IF s[i] \in W THEN 1 ELSE 0)
  <2>1. CASE s[i] \in W
    BY <1>5, <1>6, <2>1, FS_RemoveElement
  <2>2. CASE s[i] \notin W
    <3>1. P = PlacesOf(s, W)
      BY <1>6, <2>2
    <3> HIDE DEF P
    <3> QED BY <1>5, <2>2, <3>1
  <2> QED BY <2>1, <2>2
<1> QED BY <1>4, <1>7 DEF Q, t

\* The same of a set.
HowMany(S, W) == Cardinality(S \cap W)

LEMMA CountType ==
  ASSUME NEW S, IsFiniteSet(S), NEW W
  PROVE  HowMany(S, W) \in Nat
BY FS_Subset, FS_CardinalityType DEF HowMany

LEMMA CountAdded ==
  ASSUME NEW S, IsFiniteSet(S), NEW e, e \notin S, NEW W
  PROVE  /\ IsFiniteSet(S \cup {e})
         /\ HowMany(S \cup {e}, W) = HowMany(S, W) + (IF e \in W THEN 1 ELSE 0)
<1> DEFINE A == S \cap W
           B == (S \cup {e}) \cap W
<1>1. IsFiniteSet(A) /\ Cardinality(A) \in Nat
  BY FS_Subset, FS_CardinalityType
<1>2. IsFiniteSet(S \cup {e})
  BY FS_AddElement
<1>3. Cardinality(B) = Cardinality(A) + (IF e \in W THEN 1 ELSE 0)
  <2>1. CASE e \in W
    <3>1. B = A \cup {e} /\ e \notin A
      BY <2>1
    <3> HIDE DEF A, B
    <3> QED BY <1>1, <2>1, <3>1, FS_AddElement
  <2>2. CASE e \notin W
    <3>1. B = A
      BY <2>2
    <3> HIDE DEF A, B
    <3> QED BY <1>1, <2>2, <3>1
  <2> QED BY <2>1, <2>2
<1> QED BY <1>1, <1>2, <1>3 DEF HowMany

LEMMA CountDropped ==
  ASSUME NEW S, IsFiniteSet(S), NEW e \in S, NEW W
  PROVE  /\ IsFiniteSet(S \ {e})
         /\ HowMany(S \ {e}, W) = HowMany(S, W) - (IF e \in W THEN 1 ELSE 0)
<1> DEFINE T == S \ {e}
<1>1. IsFiniteSet(T) /\ e \notin T /\ T \cup {e} = S
  BY FS_RemoveElement
<1> HIDE DEF T
<1>2. HowMany(T \cup {e}, W) = HowMany(T, W) + (IF e \in W THEN 1 ELSE 0)
  BY <1>1, CountAdded
<1>3. HowMany(T, W) \in Nat
  BY <1>1, CountType
<1>4. HowMany(T, W) = HowMany(S, W) - (IF e \in W THEN 1 ELSE 0)
  <2>1. HowMany(S, W) = HowMany(T, W) + (IF e \in W THEN 1 ELSE 0)
    BY <1>1, <1>2, Zenon
  <2> QED BY <1>3, <2>1
<1> QED BY <1>1, <1>4 DEF T

-----------------------------------------------------------------------------
(* Rings of nodes: the links nx and pv lead from the head h through the      *)
(* nodes of s, in their order, and back.                                     *)

RingPlace(s, h, k) == IF k \in DOMAIN s THEN s[k] ELSE h

IsRing(nx, pv, s, h) ==
  \A k \in 0..Len(s) :
    nx[RingPlace(s, h, k)] = RingPlace(s, h, k + 1) /\ pv[RingPlace(s, h, k + 1)] = RingPlace(s, h, k)

LEMMA RingPlaces ==
  ASSUME NEW N, NEW h, h \notin N, NEW s \in Seq(N)
  PROVE  /\ Len(s) \in Nat /\ DOMAIN s = 1..Len(s)
         /\ RingPlace(s, h, 0) = h /\ RingPlace(s, h, Len(s) + 1) = h
         /\ \A k \in 1..Len(s) : RingPlace(s, h, k) = s[k] /\ s[k] \in N /\ s[k] # h
         /\ \A k \in 0..(Len(s) + 1) : RingPlace(s, h, k) \in N \cup {h}
<1>1. Len(s) \in Nat /\ DOMAIN s = 1..Len(s)
  BY LenProperties
<1>2. \A k \in 1..Len(s) : s[k] \in N
  BY ElementOfSeq
<1> QED BY <1>1, <1>2 DEF RingPlace

\* Different places of the ring hold different nodes.
LEMMA RingPlacesApart ==
  ASSUME NEW N, NEW h, h \notin N, NEW s \in Seq(N), IsInjective(s),
         NEW i \in 0..Len(s), NEW j \in 0..Len(s), i # j
  PROVE  RingPlace(s, h, i) # RingPlace(s, h, j)
<1>0. /\ Len(s) \in Nat /\ DOMAIN s = 1..Len(s) /\ RingPlace(s, h, 0) = h
      /\ \A k \in 1..Len(s) : RingPlace(s, h, k) = s[k] /\ s[k] # h
  BY RingPlaces
<1>1. CASE i = 0 \/ j = 0
  BY <1>0, <1>1
<1>2. CASE i # 0 /\ j # 0
  <2>1. i \in DOMAIN s /\ j \in DOMAIN s
    BY <1>0, <1>2
  <2> QED BY <1>0, <1>2, <2>1 DEF IsInjective
<1> QED BY <1>1, <1>2

LEMMA RingOtherPlace ==
  ASSUME NEW N, NEW h, h \notin N, NEW s \in Seq(N), IsInjective(s),
         NEW i \in 1..(Len(s) + 1), NEW j \in 1..(Len(s) + 1), i # j
  PROVE  RingPlace(s, h, i) # RingPlace(s, h, j)
<1>1. /\ Len(s) \in Nat /\ RingPlace(s, h, Len(s) + 1) = h
      /\ \A k \in 1..Len(s) : RingPlace(s, h, k) # h
  BY RingPlaces
<1>2. CASE i # Len(s) + 1 /\ j # Len(s) + 1
  <2>1. i \in 0..Len(s) /\ j \in 0..Len(s)
    BY <1>1, <1>2
  <2> QED BY <2>1, RingPlacesApart
<1>3. CASE i = Len(s) + 1 \/ j = Len(s) + 1
  BY <1>1, <1>3
<1> QED BY <1>2, <1>3

\* z is s with n put in behind its i-th place.
InsertedAfter(s, i, n, z) ==
  /\ Len(z) = Len(s) + 1 /\ z[i + 1] = n
  /\ \A k \in 1..i : z[k] = s[k]
  /\ \A k \in (i + 1)..Len(s) : z[k + 1] = s[k]

\* z is s without its i-th element.
TakenOutAt(s, i, z) ==
  /\ Len(z) = Len(s) - 1
  /\ \A k \in 1..(i - 1) : z[k] = s[k]
  /\ \A k \in i..(Len(s) - 1) : z[k] = s[k + 1]

\* The links nx1 and pv1 of the nodes in C lead through n between a and b, as nx and pv do not.
LinkedIn(C, nx, pv, nx1, pv1, a, n, b) ==
  /\ nx1[n] = b /\ nx1[a] = n /\ \A p \in C \ {n, a} : nx1[p] = nx[p]
  /\ pv1[n] = a /\ pv1[b] = n /\ \A p \in C \ {n, b} : pv1[p] = pv[p]

\* The same the other way: they lead from a to b, past n.
LinkedPast(C, nx, pv, nx1, pv1, a, n, b) ==
  /\ nx1[a] = b /\ \A p \in C \ {n, a} : nx1[p] = nx[p]
  /\ pv1[b] = a /\ \A p \in C \ {n, b} : pv1[p] = pv[p]

\* A node linked in between two neighbours of a ring.
LEMMA RingInserted ==
  ASSUME NEW N, NEW h, h \notin N, NEW C, C = N \cup {h}, NEW s \in Seq(N), IsInjective(s), NEW nx, NEW pv, IsRing(nx, pv, s, h),
         NEW i \in 0..Len(s), NEW n \in N, n \notin ToSet(s), NEW z \in Seq(N), InsertedAfter(s, i, n, z),
         NEW nx1, NEW pv1,
         LinkedIn(C, nx, pv, nx1, pv1, RingPlace(s, h, i), n, RingPlace(s, h, i + 1))
  PROVE  IsInjective(z) /\ IsRing(nx1, pv1, z, h) /\ ToSet(z) = ToSet(s) \cup {n}
<1> DEFINE L == Len(s)
           P(k) == RingPlace(s, h, k)
           Q(k) == RingPlace(z, h, k)
           Cells == N \cup {h}
<1>places. /\ L \in Nat /\ DOMAIN s = 1..L /\ Len(z) \in Nat /\ DOMAIN z = 1..Len(z)
           /\ P(0) = h /\ P(L + 1) = h
           /\ \A k \in 1..L : P(k) = s[k] /\ s[k] \in N /\ s[k] # h
           /\ \A k \in 0..(L + 1) : P(k) \in Cells
  BY RingPlaces
<1>apart. \A a, b \in 0..L : a # b => P(a) # P(b)
  BY RingPlacesApart
<1>other. \A a, b \in 1..(L + 1) : a # b => P(a) # P(b)
  BY RingOtherPlace
<1>data. /\ Len(z) = Len(s) + 1 /\ z[i + 1] = n
         /\ \A k \in 1..i : z[k] = s[k]
         /\ \A k \in (i + 1)..Len(s) : z[k + 1] = s[k]
  BY DEF InsertedAfter
<1>1. /\ L \in Nat /\ i \in Nat /\ i <= L /\ Len(z) = L + 1
      /\ DOMAIN s = 1..L /\ DOMAIN z = 1..(L + 1)
  BY <1>places, <1>data
<1>0. L \in Nat /\ i \in Nat /\ i <= L
  BY <1>1
<1>2. /\ \A k \in 0..i : Q(k) = P(k)
      /\ Q(i + 1) = n
      /\ \A k \in (i + 1)..(L + 1) : Q(k + 1) = P(k)
  <2>1. \A k \in 0..i : Q(k) = P(k)
    BY <1>1, <1>data DEF RingPlace
  <2>2. Q(i + 1) = n
    BY <1>1, <1>data DEF RingPlace
  <2>3. \A k \in (i + 1)..(L + 1) : Q(k + 1) = P(k)
    BY <1>1, <1>data DEF RingPlace
  <2> QED BY <2>1, <2>2, <2>3
<1>3. n # h /\ \A k \in 0..(L + 1) : P(k) # n
  BY <1>1, <1>places DEF ToSet
<1>6. /\ nx1[P(i)] = n /\ nx1[n] = P(i + 1)
      /\ \A p \in Cells \ {n, P(i)} : nx1[p] = nx[p]
      /\ pv1[P(i + 1)] = n /\ pv1[n] = P(i)
      /\ \A p \in Cells \ {n, P(i + 1)} : pv1[p] = pv[p]
  BY DEF LinkedIn
<1>8. ASSUME NEW a \in DOMAIN z, NEW b \in DOMAIN z, z[a] = z[b]
      PROVE  a = b
  <2>1. \A k \in 1..L : s[k] # n
    BY <1>1 DEF ToSet
  <2> DEFINE Old(k) == IF k <= i THEN k ELSE k - 1
  <2>2. \A k \in 1..(L + 1) : k # i + 1 => Old(k) \in 1..L /\ z[k] = s[Old(k)]
    BY <1>1, <1>data
  <2>3. z[i + 1] = n
    BY <1>data
  <2>4. CASE a = i + 1 \/ b = i + 1
    BY <1>1, <1>8, <2>1, <2>2, <2>3, <2>4
  <2>5. CASE a # i + 1 /\ b # i + 1
    <3>1. Old(a) \in 1..L /\ Old(b) \in 1..L /\ s[Old(a)] = s[Old(b)]
      BY <1>1, <1>8, <2>2, <2>5
    <3>2. Old(a) = Old(b)
      BY <3>1, <1>1 DEF IsInjective
    <3> QED BY <3>2, <1>1, <2>5
  <2> QED BY <2>4, <2>5
<1>9. ASSUME NEW k \in 0..(L + 1)
      PROVE  nx1[Q(k)] = Q(k + 1) /\ pv1[Q(k + 1)] = Q(k)
  <2>1. CASE k < i
    <3>1. /\ k \in 0..L /\ k + 1 \in 0..L /\ k # i
          /\ Q(k) = P(k) /\ Q(k + 1) = P(k + 1)
      BY <2>1, <1>1, <1>2
    <3>2. nx[P(k)] = P(k + 1) /\ pv[P(k + 1)] = P(k)
      BY <3>1 DEF IsRing
    <3>3. P(k) # P(i)
      BY <3>1, <1>apart
    <3>4. P(k + 1) # P(i + 1)
      <4>1. CASE i = L
        BY <4>1, <3>1, <2>1, <1>places
      <4>2. CASE i # L
        <5>1. i + 1 \in 0..L
          <6> HIDE DEF L
          <6> QED BY <4>2, <1>0
        <5>2. k + 1 # i + 1
          BY <2>1, <1>1
        <5> QED BY <5>1, <5>2, <3>1, <1>apart
      <4> QED BY <4>1, <4>2
    <3>5. P(k) \in Cells \ {n, P(i)} /\ P(k + 1) \in Cells \ {n, P(i + 1)}
      BY <3>1, <3>3, <3>4, <1>1, <1>3, <1>places
    <3> QED BY <3>1, <3>2, <3>5, <1>6
  <2>2. CASE k = i
    BY <2>2, <1>1, <1>2, <1>6
  <2>3. CASE k = i + 1
    <3>1. Q(k) = n /\ Q(k + 1) = P(i + 1)
      BY <2>3, <1>1, <1>2
    <3> QED BY <3>1, <1>6
  <2>4. CASE k > i + 1
    <3> DEFINE m == k - 1
    <3>1. m \in (i + 1)..L /\ k = m + 1
      BY <2>4, <1>1
    <3>2. Q(k) = P(m) /\ Q(k + 1) = P(m + 1)
      <4>1. m \in (i + 1)..(L + 1) /\ m + 1 \in (i + 1)..(L + 1)
        BY <3>1, <1>1
      <4> HIDE DEF m
      <4> QED BY <4>1, <3>1, <1>2
    <3>3. nx[P(m)] = P(m + 1) /\ pv[P(m + 1)] = P(m)
      BY <3>1, <1>1 DEF IsRing
    <3>4. P(m) # P(i)
      BY <3>1, <1>1, <1>apart
    <3>5. P(m + 1) # P(i + 1)
      <4>1. i + 1 \in 1..L /\ m \in 0..L /\ m # i + 1 - 1
        BY <3>1, <1>1
      <4>2. CASE m = L
        BY <4>1, <4>2, <1>places
      <4>3. CASE m # L
        <5>1. m + 1 \in 0..L /\ i + 1 \in 0..L /\ m + 1 # i + 1
          BY <3>1, <4>3, <1>1
        <5> QED BY <5>1, <1>apart
      <4> QED BY <4>2, <4>3
    <3>6. P(m) \in Cells \ {n, P(i)} /\ P(m + 1) \in Cells \ {n, P(i + 1)}
      BY <3>1, <3>4, <3>5, <1>1, <1>3, <1>places
    <3> QED BY <3>2, <3>3, <3>6, <1>6
  <2> QED BY <2>1, <2>2, <2>3, <2>4, <1>1
<1>10. ToSet(z) = ToSet(s) \cup {n}
  <2>1. ASSUME NEW x \in ToSet(z) PROVE x \in ToSet(s) \cup {n}
    <3>1. PICK k \in 1..(L + 1) : x = z[k]
      BY <1>1, <2>1 DEF ToSet
    <3>2. CASE k <= i
      <4>1. k \in DOMAIN s /\ x = s[k]
        BY <3>1, <3>2, <1>1, <1>data
      <4> QED BY <4>1 DEF ToSet
    <3>3. CASE k = i + 1
      BY <3>1, <3>3, <1>1, <1>data
    <3>4. CASE k > i + 1
      <4>1. k - 1 \in (i + 1)..L /\ z[(k - 1) + 1] = s[k - 1] /\ (k - 1) + 1 = k
        BY <3>4, <1>1, <1>data
      <4>2. k - 1 \in DOMAIN s /\ x = s[k - 1]
        BY <4>1, <3>1, <1>1
      <4> QED BY <4>2 DEF ToSet
    <3> QED BY <3>2, <3>3, <3>4, <1>1
  <2>2. n \in ToSet(z)
    <3>1. i + 1 \in DOMAIN z /\ z[i + 1] = n
      BY <1>1, <1>data
    <3> QED BY <3>1 DEF ToSet
  <2>3. ASSUME NEW x \in ToSet(s) PROVE x \in ToSet(z)
    <3>1. PICK k \in 1..L : x = s[k]
      BY <1>1, <2>3 DEF ToSet
    <3>2. CASE k <= i
      <4>1. k \in DOMAIN z /\ z[k] = s[k]
        BY <3>2, <1>1, <1>data
      <4> QED BY <4>1, <3>1 DEF ToSet
    <3>3. CASE k > i
      <4>1. k + 1 \in DOMAIN z /\ z[k + 1] = s[k]
        BY <3>3, <1>1, <1>data
      <4> QED BY <4>1, <3>1 DEF ToSet
    <3> QED BY <3>2, <3>3, <1>1
  <2> QED BY <2>1, <2>2, <2>3
<1> QED BY <1>1, <1>8, <1>9, <1>10 DEF IsInjective, IsRing

\* A node of a ring whose neighbours are linked with each other.
Unlinks(N, h, s, i, z, nx, pv, nx1, pv1) ==
  /\ h \notin N /\ s \in Seq(N) /\ IsInjective(s) /\ IsRing(nx, pv, s, h)
  /\ i \in 1..Len(s) /\ z \in Seq(N) /\ TakenOutAt(s, i, z)
  /\ LinkedPast(N \cup {h}, nx, pv, nx1, pv1, RingPlace(s, h, i - 1), s[i], RingPlace(s, h, i + 1))

LEMMA RingRemoved ==
  ASSUME NEW N, NEW h, NEW s, NEW i, NEW z, NEW nx, NEW pv, NEW nx1, NEW pv1,
         Unlinks(N, h, s, i, z, nx, pv, nx1, pv1)
  PROVE  IsInjective(z) /\ IsRing(nx1, pv1, z, h) /\ ToSet(z) = ToSet(s) \ {s[i]}
<1> USE DEF Unlinks
<1> DEFINE L == Len(s)
           P(k) == RingPlace(s, h, k)
           Q(k) == RingPlace(z, h, k)
           Cells == N \cup {h}
<1>places. /\ L \in Nat /\ DOMAIN s = 1..L /\ Len(z) \in Nat /\ DOMAIN z = 1..Len(z)
           /\ P(0) = h /\ P(L + 1) = h
           /\ \A k \in 1..L : P(k) = s[k] /\ s[k] \in N /\ s[k] # h
           /\ \A k \in 0..(L + 1) : P(k) \in Cells
  BY RingPlaces
<1>apart. \A j, k \in 0..L : j # k => P(j) # P(k)
  BY RingPlacesApart
<1>other. \A j, k \in 1..(L + 1) : j # k => P(j) # P(k)
  BY RingOtherPlace
<1>data. /\ Len(z) = Len(s) - 1
         /\ \A k \in 1..(i - 1) : z[k] = s[k]
         /\ \A k \in i..(Len(s) - 1) : z[k] = s[k + 1]
  BY DEF TakenOutAt
<1>0. L \in Nat /\ i \in Nat /\ 1 <= i /\ i <= L
  BY <1>places
<1>1. /\ Len(z) = L - 1
      /\ DOMAIN s = 1..L /\ DOMAIN z = 1..(L - 1)
  BY <1>0, <1>places, <1>data
<1>2. /\ \A k \in 0..(i - 1) : Q(k) = P(k)
      /\ \A k \in i..L : Q(k) = P(k + 1)
  <2>1. \A k \in 0..(i - 1) : Q(k) = P(k)
    BY <1>0, <1>1, <1>data DEF RingPlace
  <2>2. \A k \in i..L : Q(k) = P(k + 1)
    BY <1>0, <1>1, <1>data DEF RingPlace
  <2> QED BY <2>1, <2>2
<1>4. /\ nx1[P(i - 1)] = P(i + 1) /\ pv1[P(i + 1)] = P(i - 1)
      /\ \A p \in Cells \ {P(i), P(i - 1)} : nx1[p] = nx[p]
      /\ \A p \in Cells \ {P(i), P(i + 1)} : pv1[p] = pv[p]
  BY <1>places DEF LinkedPast
<1> DEFINE Old(k) == IF k < i THEN k ELSE k + 1
<1>5. \A k \in 1..(L - 1) : Old(k) \in (1..L) \ {i} /\ z[k] = s[Old(k)]
  BY ONLY <1>0, <1>data
<1>6. ASSUME NEW c \in DOMAIN z, NEW d \in DOMAIN z, z[c] = z[d]
      PROVE  c = d
  <2>1. Old(c) \in 1..L /\ Old(d) \in 1..L /\ s[Old(c)] = s[Old(d)]
    BY <1>1, <1>5, <1>6
  <2>2. Old(c) = Old(d)
    BY <2>1, <1>1 DEF IsInjective
  <2> QED BY <2>2, <1>0, <1>1
<1>7. ASSUME NEW k \in 0..(L - 1)
      PROVE  nx1[Q(k)] = Q(k + 1) /\ pv1[Q(k + 1)] = Q(k)
  <2>1. CASE k < i - 1
    <3>1. k \in 0..L /\ i - 1 \in 0..L /\ k \in 0..(i - 1) /\ k + 1 \in 0..(i - 1) /\ k # i - 1 /\ k + 1 # i + 1
      BY <2>1, <1>0
    <3>2. Q(k) = P(k) /\ Q(k + 1) = P(k + 1) /\ P(k) # P(i - 1)
      BY <3>1, <1>2, <1>apart
    <3>3. P(k + 1) # P(i + 1)
      BY <2>1, <1>0, <3>1, <1>places, <1>other
    <3>4. nx[P(k)] = P(k + 1) /\ pv[P(k + 1)] = P(k)
      BY <3>1 DEF IsRing
    <3>5. P(k) \in Cells /\ P(k + 1) \in Cells
      BY <3>1, <1>0, <1>places
    <3>6. P(k) # P(i) /\ P(k + 1) # P(i)
      <4>1. k \in 0..L /\ k + 1 \in 0..L /\ i \in 0..L /\ k # i /\ k + 1 # i
        BY <2>1, <1>0
      <4> QED BY <4>1, <1>apart
    <3> QED BY <3>2, <3>3, <3>4, <3>5, <3>6, <1>4
  <2>2. CASE k = i - 1
    <3>1. Q(k) = P(i - 1) /\ Q(k + 1) = P(i + 1)
      <4>1. k \in 0..(i - 1) /\ k + 1 = i /\ i \in i..L
        BY <2>2, <1>0
      <4> QED BY <4>1, <2>2, <1>2
    <3> QED BY <3>1, <1>4
  <2>3. CASE k > i - 1
    <3>1. k \in i..L /\ k + 1 \in i..L /\ k + 1 \in 1..L /\ i - 1 \in 0..L /\ k + 1 # i - 1 /\ k + 1 + 1 # i + 1
      BY <2>3, <1>0
    <3>2. Q(k) = P(k + 1) /\ Q(k + 1) = P(k + 1 + 1)
      BY <3>1, <1>2
    <3>3. P(k + 1) # P(i - 1)
      <4>1. k + 1 \in 0..L
        BY <3>1, <1>0
      <4> QED BY <3>1, <4>1, <1>apart
    <3>4. P(k + 1 + 1) # P(i + 1)
      BY <3>1, <1>0, <1>other
    <3>5. nx[P(k + 1)] = P(k + 1 + 1) /\ pv[P(k + 1 + 1)] = P(k + 1)
      <4>1. k + 1 \in 0..L
        BY <3>1, <1>0
      <4> QED BY <4>1 DEF IsRing
    <3>6. P(k + 1) \in Cells /\ P(k + 1 + 1) \in Cells
      <4>1. k + 1 \in 0..(L + 1) /\ k + 1 + 1 \in 0..(L + 1)
        BY <3>1, <1>0
      <4> QED BY <4>1, <1>places
    <3>7. P(k + 1) # P(i) /\ P(k + 1 + 1) # P(i)
      <4>1. k + 1 \in 1..(L + 1) /\ k + 1 + 1 \in 1..(L + 1) /\ i \in 1..(L + 1) /\ k + 1 # i /\ k + 1 + 1 # i
        BY <3>1, <1>0
      <4> QED BY <4>1, <1>other
    <3> QED BY <3>2, <3>3, <3>4, <3>5, <3>6, <3>7, <1>4
  <2> QED BY <2>1, <2>2, <2>3, <1>0
<1>8. ToSet(z) = ToSet(s) \ {s[i]}
  <2>1. ASSUME NEW x \in ToSet(z) PROVE x \in ToSet(s) \ {s[i]}
    <3>1. PICK k \in 1..(L - 1) : x = z[k]
      BY <1>1, <2>1 DEF ToSet
    <3>2. Old(k) \in 1..L /\ Old(k) # i /\ x = s[Old(k)]
      BY <3>1, <1>5
    <3> QED BY <3>2, <1>0, <1>1 DEF ToSet, IsInjective
  <2>2. ASSUME NEW x \in ToSet(s) \ {s[i]} PROVE x \in ToSet(z)
    <3>1. PICK k \in 1..L : x = s[k] /\ k # i
      BY <1>1, <2>2 DEF ToSet
    <3>2. CASE k < i
      <4>1. k \in DOMAIN z /\ z[k] = s[k]
        BY <3>2, <1>0, <1>1, <1>data
      <4> QED BY <4>1, <3>1 DEF ToSet
    <3>3. CASE k > i
      <4>1. k - 1 \in DOMAIN z /\ z[k - 1] = s[k - 1 + 1] /\ k - 1 + 1 = k
        BY <3>3, <1>0, <1>1, <1>data
      <4> QED BY <4>1, <3>1 DEF ToSet
    <3> QED BY <3>1, <3>2, <3>3, <1>0
  <2> QED BY <2>1, <2>2
<1> QED BY <1>1, <1>6, <1>7, <1>8 DEF IsInjective, IsRing
================================================================================
