------------------------------ MODULE ListProofs ------------------------------
(***************************************************************************)
(* Proofs about BaseList and NodeList for every set of nodes and of data.  *)
(* BaseList: the pointers stay one ring with the nodes the calls have left *)
(* on it, and the list implements the sequence of Deque.  NodeList: every  *)
(* function that reads the list of the IPC libraries says what the calls   *)
(* have left on it.                                                        *)
(***************************************************************************)
EXTENDS BaseList, NodeList, ProofLemmas

-----------------------------------------------------------------------------
(* Places of the ring.                                                      *)

LEMMA PlaceFacts ==
  ASSUME TypeOK
  PROVE  /\ Len(order) \in Nat /\ DOMAIN order = 1..Len(order)
         /\ Place(0) = head /\ Place(Len(order) + 1) = head
         /\ \A k \in 1..Len(order) : Place(k) = order[k] /\ order[k] \in Nodes /\ order[k] # head
         /\ \A k \in 0..(Len(order) + 1) : Place(k) \in Places
  BY ListAssumption DEF TypeOK, Place, Places

\* Different places of the ring hold different nodes.
LEMMA PlacesApart ==
  ASSUME TypeOK, IsInjective(order), NEW i \in 0..Len(order), NEW j \in 0..Len(order), i # j
  PROVE  Place(i) # Place(j)
  <1>1. CASE i = 0 \/ j = 0
    BY <1>1, PlaceFacts
  <1>2. CASE i # 0 /\ j # 0
    <2>1. i \in DOMAIN order /\ j \in DOMAIN order
      BY <1>2, PlaceFacts
    <2> QED  BY <2>1, <1>2, PlaceFacts DEF IsInjective
  <1> QED  BY <1>1, <1>2

LEMMA OtherPlace ==
  ASSUME TypeOK, IsInjective(order),
         NEW i \in 1..(Len(order) + 1), NEW j \in 1..(Len(order) + 1), i # j
  PROVE  Place(i) # Place(j)
  <1> DEFINE L == Len(order)
  <1>1. L \in Nat /\ Place(L + 1) = head /\ \A k \in 1..L : Place(k) # head
    BY PlaceFacts
  <1>2. CASE i # L + 1 /\ j # L + 1
    <2>1. i \in 0..L /\ j \in 0..L
      BY <1>1, <1>2
    <2> QED  BY <2>1, PlacesApart
  <1>3. CASE i = L + 1 \/ j = L + 1
    BY <1>1, <1>3
  <1> QED  BY <1>2, <1>3

\* The i-th place of a ring with a node put in behind the i-th, seen from the old one.
InsertedBehind(i, n) ==
  /\ order' \in Seq(Nodes) /\ Len(order') = Len(order) + 1
  /\ order'[i + 1] = n
  /\ \A k \in 1..i : order'[k] = order[k]
  /\ \A k \in (i + 1)..Len(order) : order'[k + 1] = order[k]

\* A ring without its i-th node.
TakenOut(i) ==
  /\ order' \in Seq(Nodes) /\ Len(order') = Len(order) - 1
  /\ \A k \in 1..(i - 1) : order'[k] = order[k]
  /\ \A k \in i..(Len(order) - 1) : order'[k] = order[k + 1]

\* list_add between two neighbours of the ring.
LEMMA AddLinks ==
  ASSUME TypeOK, IsInjective(order), Linked,
         NEW i \in 0..Len(order), NEW n \in Nodes, n \notin ToSet(order),
         ListAdd(n, Place(i), Place(i + 1)), InsertedBehind(i, n)
  PROVE  /\ next' \in [Places -> Places] /\ prev' \in [Places -> Places]
         /\ IsInjective(order') /\ Linked'
         /\ ToSet(order') = ToSet(order) \cup {n}
  <1> DEFINE L == Len(order)
  <1>1. /\ L \in Nat /\ i \in Nat /\ i <= L /\ Len(order') = L + 1
        /\ DOMAIN order = 1..L /\ DOMAIN order' = 1..(L + 1)
    BY PlaceFacts DEF InsertedBehind
  <1>0. L \in Nat /\ i \in Nat /\ i <= L
    BY <1>1
  <1>2. /\ \A k \in 0..i : Place(k)' = Place(k)
        /\ Place(i + 1)' = n
        /\ \A k \in (i + 1)..(L + 1) : Place(k + 1)' = Place(k)
    <2>1. \A k \in 0..i : Place(k)' = Place(k)
      BY <1>1 DEF Place, InsertedBehind
    <2>2. Place(i + 1)' = n
      BY <1>1 DEF Place, InsertedBehind
    <2>3. \A k \in (i + 1)..(L + 1) : Place(k + 1)' = Place(k)
      BY <1>1 DEF Place, InsertedBehind
    <2> QED  BY <2>1, <2>2, <2>3
  <1>3. n # head /\ \A k \in 0..(L + 1) : Place(k) # n
    BY <1>1, PlaceFacts, ListAssumption DEF ToSet
  <1>4. /\ Place(i) \in Places /\ Place(i + 1) \in Places /\ n \in Places
        /\ next \in [Places -> Places] /\ prev \in [Places -> Places]
    BY <1>1, PlaceFacts DEF Places, TypeOK
  <1>5. /\ next' = [next EXCEPT ![n] = Place(i + 1), ![Place(i)] = n]
        /\ prev' = [prev EXCEPT ![Place(i + 1)] = n, ![n] = Place(i)]
    BY DEF ListAdd
  <1>6. /\ next'[Place(i)] = n /\ next'[n] = Place(i + 1)
        /\ \A p \in Places \ {n, Place(i)} : next'[p] = next[p]
        /\ prev'[Place(i + 1)] = n /\ prev'[n] = Place(i)
        /\ \A p \in Places \ {n, Place(i + 1)} : prev'[p] = prev[p]
    BY <1>1, <1>3, <1>4, <1>5
  <1>7. /\ next' \in [Places -> Places] /\ prev' \in [Places -> Places]
    BY <1>4, <1>5
  <1>8. ASSUME NEW a \in DOMAIN order', NEW b \in DOMAIN order', order'[a] = order'[b]
        PROVE  a = b
    <2>1. \A k \in 1..L : order[k] # n
      BY <1>1 DEF ToSet
    <2> DEFINE Old(k) == IF k <= i THEN k ELSE k - 1
    <2>2. \A k \in 1..(L + 1) : k # i + 1 => Old(k) \in 1..L /\ order'[k] = order[Old(k)]
      BY <1>1 DEF InsertedBehind
    <2>3. order'[i + 1] = n
      BY DEF InsertedBehind
    <2>4. CASE a = i + 1 \/ b = i + 1
      BY <1>1, <1>8, <2>1, <2>2, <2>3, <2>4
    <2>5. CASE a # i + 1 /\ b # i + 1
      <3>1. Old(a) \in 1..L /\ Old(b) \in 1..L /\ order[Old(a)] = order[Old(b)]
        BY <1>1, <1>8, <2>2, <2>5
      <3>2. Old(a) = Old(b)
        BY <3>1, <1>1 DEF IsInjective
      <3> QED  BY <3>2, <1>1, <2>5
    <2> QED  BY <2>4, <2>5
  <1>9. ASSUME NEW k \in 0..(L + 1)
        PROVE  next'[Place(k)'] = Place(k + 1)' /\ prev'[Place(k + 1)'] = Place(k)'
    <2>1. CASE k < i
      <3>1. /\ k \in 0..L /\ k + 1 \in 0..L /\ k # i
            /\ Place(k)' = Place(k) /\ Place(k + 1)' = Place(k + 1)
        BY <2>1, <1>1, <1>2
      <3>2. next[Place(k)] = Place(k + 1) /\ prev[Place(k + 1)] = Place(k)
        BY <3>1 DEF Linked
      <3>3. Place(k) # Place(i)
        BY <3>1, PlacesApart
      <3>4. Place(k + 1) # Place(i + 1)
        <4>1. CASE i = L
          BY <4>1, <3>1, <2>1, PlaceFacts
        <4>2. CASE i # L
          <5>1. i + 1 \in 0..L
            <6> HIDE DEF L
            <6> QED  BY <4>2, <1>0
          <5>2. k + 1 # i + 1
            BY <2>1, <1>1
          <5> QED  BY <5>1, <5>2, <3>1, PlacesApart
        <4> QED  BY <4>1, <4>2
      <3>5. Place(k) \in Places \ {n, Place(i)} /\ Place(k + 1) \in Places \ {n, Place(i + 1)}
        BY <3>1, <3>3, <3>4, <1>1, <1>3, PlaceFacts
      <3> QED  BY <3>1, <3>2, <3>5, <1>6
    <2>2. CASE k = i
      BY <2>2, <1>1, <1>2, <1>6
    <2>3. CASE k = i + 1
      <3>1. Place(k)' = n /\ Place(k + 1)' = Place(i + 1)
        BY <2>3, <1>1, <1>2
      <3> QED  BY <3>1, <1>6
    <2>4. CASE k > i + 1
      <3> DEFINE m == k - 1
      <3>1. m \in (i + 1)..L /\ k = m + 1
        BY <2>4, <1>1
      <3>2. Place(k)' = Place(m) /\ Place(k + 1)' = Place(m + 1)
        <4>1. m \in (i + 1)..(L + 1) /\ m + 1 \in (i + 1)..(L + 1)
          BY <3>1, <1>1
        <4> HIDE DEF m
        <4> QED  BY <4>1, <3>1, <1>2
      <3>3. next[Place(m)] = Place(m + 1) /\ prev[Place(m + 1)] = Place(m)
        BY <3>1, <1>1 DEF Linked
      <3>4. Place(m) # Place(i)
        BY <3>1, <1>1, PlacesApart
      <3>5. Place(m + 1) # Place(i + 1)
        <4>1. i + 1 \in 1..L /\ m \in 0..L /\ m # i + 1 - 1
          BY <3>1, <1>1
        <4>2. CASE m = L
          BY <4>1, <4>2, PlaceFacts
        <4>3. CASE m # L
          <5>1. m + 1 \in 0..L /\ i + 1 \in 0..L /\ m + 1 # i + 1
            BY <3>1, <4>3, <1>1
          <5> QED  BY <5>1, PlacesApart
        <4> QED  BY <4>2, <4>3
      <3>6. Place(m) \in Places \ {n, Place(i)} /\ Place(m + 1) \in Places \ {n, Place(i + 1)}
        BY <3>1, <3>4, <3>5, <1>1, <1>3, PlaceFacts
      <3> QED  BY <3>2, <3>3, <3>6, <1>6
    <2> QED  BY <2>1, <2>2, <2>3, <2>4, <1>1
  <1>10. ToSet(order') = ToSet(order) \cup {n}
    <2>1. ASSUME NEW x \in ToSet(order') PROVE x \in ToSet(order) \cup {n}
      <3>1. PICK k \in 1..(L + 1) : x = order'[k]
        BY <1>1, <2>1 DEF ToSet
      <3>2. CASE k <= i
        BY <3>1, <3>2, <1>1 DEF InsertedBehind, ToSet
      <3>3. CASE k = i + 1
        BY <3>1, <3>3, <1>1 DEF InsertedBehind
      <3>4. CASE k > i + 1
        <4>1. k - 1 \in (i + 1)..L /\ order'[(k - 1) + 1] = order[k - 1] /\ (k - 1) + 1 = k
          BY <3>4, <1>1 DEF InsertedBehind
        <4> QED  BY <4>1, <3>1, <1>1 DEF ToSet
      <3> QED  BY <3>2, <3>3, <3>4, <1>1
    <2>2. n \in ToSet(order')
      BY <1>1 DEF ToSet, InsertedBehind
    <2>3. ASSUME NEW x \in ToSet(order) PROVE x \in ToSet(order')
      <3>1. PICK k \in 1..L : x = order[k]
        BY <1>1, <2>3 DEF ToSet
      <3>2. CASE k <= i
        <4>1. k \in DOMAIN order' /\ order'[k] = order[k]
          BY <3>2, <1>1 DEF InsertedBehind
        <4> QED  BY <4>1, <3>1 DEF ToSet
      <3>3. CASE k > i
        <4>1. k + 1 \in DOMAIN order' /\ order'[k + 1] = order[k]
          BY <3>3, <1>1 DEF InsertedBehind
        <4> QED  BY <4>1, <3>1 DEF ToSet
      <3> QED  BY <3>2, <3>3, <1>1
    <2> QED  BY <2>1, <2>2, <2>3
  <1> QED  BY <1>1, <1>7, <1>8, <1>9, <1>10 DEF IsInjective, Linked

\* list_del of the neighbours of a node of the ring.
LEMMA DelLinks ==
  ASSUME TypeOK, IsInjective(order), Linked,
         NEW i \in 1..Len(order), ListDel(Place(i - 1), Place(i + 1)), TakenOut(i)
  PROVE  /\ next' \in [Places -> Places] /\ prev' \in [Places -> Places]
         /\ IsInjective(order') /\ Linked'
         /\ ToSet(order') = ToSet(order) \ {order[i]}
  <1> DEFINE L == Len(order)
  <1>0. L \in Nat /\ i \in Nat /\ 1 <= i /\ i <= L
    BY PlaceFacts
  <1>1. /\ Len(order') = L - 1
        /\ DOMAIN order = 1..L /\ DOMAIN order' = 1..(L - 1)
    BY <1>0, PlaceFacts DEF TakenOut
  <1>2. /\ \A k \in 0..(i - 1) : Place(k)' = Place(k)
        /\ \A k \in i..L : Place(k)' = Place(k + 1)
    <2>1. \A k \in 0..(i - 1) : Place(k)' = Place(k)
      BY <1>0, <1>1 DEF Place, TakenOut
    <2>2. \A k \in i..L : Place(k)' = Place(k + 1)
      BY <1>0, <1>1 DEF Place, TakenOut
    <2> QED  BY <2>1, <2>2
  <1>3. /\ Place(i - 1) \in Places /\ Place(i + 1) \in Places
        /\ next \in [Places -> Places] /\ prev \in [Places -> Places]
    BY <1>0, PlaceFacts DEF Places, TypeOK
  <1>4. /\ next'[Place(i - 1)] = Place(i + 1) /\ prev'[Place(i + 1)] = Place(i - 1)
        /\ \A p \in Places \ {Place(i - 1)} : next'[p] = next[p]
        /\ \A p \in Places \ {Place(i + 1)} : prev'[p] = prev[p]
        /\ next' \in [Places -> Places] /\ prev' \in [Places -> Places]
    BY <1>3 DEF ListDel
  <1> DEFINE Old(k) == IF k < i THEN k ELSE k + 1
  <1>5. \A k \in 1..(L - 1) : Old(k) \in (1..L) \ {i} /\ order'[k] = order[Old(k)]
    BY <1>0 DEF TakenOut
  <1>6. ASSUME NEW a \in DOMAIN order', NEW b \in DOMAIN order', order'[a] = order'[b]
        PROVE  a = b
    <2>1. Old(a) \in 1..L /\ Old(b) \in 1..L /\ order[Old(a)] = order[Old(b)]
      BY <1>1, <1>5, <1>6
    <2>2. Old(a) = Old(b)
      BY <2>1, <1>1 DEF IsInjective
    <2> QED  BY <2>2, <1>0, <1>1
  <1>7. ASSUME NEW k \in 0..(L - 1)
        PROVE  next'[Place(k)'] = Place(k + 1)' /\ prev'[Place(k + 1)'] = Place(k)'
    <2>1. CASE k < i - 1
      <3>1. k \in 0..L /\ i - 1 \in 0..L /\ k \in 0..(i - 1) /\ k + 1 \in 0..(i - 1) /\ k # i - 1 /\ k + 1 # i + 1
        BY <2>1, <1>0
      <3>2. Place(k)' = Place(k) /\ Place(k + 1)' = Place(k + 1) /\ Place(k) # Place(i - 1)
        BY <3>1, <1>2, PlacesApart
      <3>3. Place(k + 1) # Place(i + 1)
        BY <2>1, <1>0, <3>1, PlaceFacts, OtherPlace
      <3>4. next[Place(k)] = Place(k + 1) /\ prev[Place(k + 1)] = Place(k)
        BY <3>1 DEF Linked
      <3>5. Place(k) \in Places /\ Place(k + 1) \in Places
        BY <3>1, <1>0, PlaceFacts
      <3> QED  BY <3>2, <3>3, <3>4, <3>5, <1>4
    <2>2. CASE k = i - 1
      <3>1. Place(k)' = Place(i - 1) /\ Place(k + 1)' = Place(i + 1)
        <4>1. k \in 0..(i - 1) /\ k + 1 = i /\ i \in i..L
          BY <2>2, <1>0
        <4> QED  BY <4>1, <2>2, <1>2
      <3> QED  BY <3>1, <1>4
    <2>3. CASE k > i - 1
      <3>1. k \in i..L /\ k + 1 \in i..L /\ k + 1 \in 1..L /\ i - 1 \in 0..L /\ k + 1 # i - 1 /\ k + 1 + 1 # i + 1
        BY <2>3, <1>0
      <3>2. Place(k)' = Place(k + 1) /\ Place(k + 1)' = Place(k + 1 + 1)
        BY <3>1, <1>2
      <3>3. Place(k + 1) # Place(i - 1)
        <4>1. k + 1 \in 0..L
          BY <3>1, <1>0
        <4> QED  BY <3>1, <4>1, PlacesApart
      <3>4. Place(k + 1 + 1) # Place(i + 1)
        BY <3>1, <1>0, OtherPlace
      <3>5. next[Place(k + 1)] = Place(k + 1 + 1) /\ prev[Place(k + 1 + 1)] = Place(k + 1)
        <4>1. k + 1 \in 0..L
          BY <3>1, <1>0
        <4> QED  BY <4>1 DEF Linked
      <3>6. Place(k + 1) \in Places /\ Place(k + 1 + 1) \in Places
        <4>1. k + 1 \in 0..(L + 1) /\ k + 1 + 1 \in 0..(L + 1)
          BY <3>1, <1>0
        <4> QED  BY <4>1, PlaceFacts
      <3> QED  BY <3>2, <3>3, <3>4, <3>5, <3>6, <1>4
    <2> QED  BY <2>1, <2>2, <2>3, <1>0
  <1>8. ToSet(order') = ToSet(order) \ {order[i]}
    <2>1. ASSUME NEW x \in ToSet(order') PROVE x \in ToSet(order) \ {order[i]}
      <3>1. PICK k \in 1..(L - 1) : x = order'[k]
        BY <1>1, <2>1 DEF ToSet
      <3>2. Old(k) \in 1..L /\ Old(k) # i /\ x = order[Old(k)]
        BY <3>1, <1>5
      <3> QED  BY <3>2, <1>0, <1>1 DEF ToSet, IsInjective
    <2>2. ASSUME NEW x \in ToSet(order) \ {order[i]} PROVE x \in ToSet(order')
      <3>1. PICK k \in 1..L : x = order[k] /\ k # i
        BY <1>1, <2>2 DEF ToSet
      <3>2. CASE k < i
        <4>1. k \in DOMAIN order' /\ order'[k] = order[k]
          BY <3>2, <1>0, <1>1 DEF TakenOut
        <4> QED  BY <4>1, <3>1 DEF ToSet
      <3>3. CASE k > i
        <4>1. k - 1 \in DOMAIN order' /\ order'[k - 1] = order[k - 1 + 1] /\ k - 1 + 1 = k
          BY <3>3, <1>0, <1>1 DEF TakenOut
        <4> QED  BY <4>1, <3>1 DEF ToSet
      <3> QED  BY <3>1, <3>2, <3>3, <1>0
    <2> QED  BY <2>1, <2>2
  <1> QED  BY <1>1, <1>4, <1>6, <1>7, <1>8 DEF IsInjective, Linked

-----------------------------------------------------------------------------
(* The invariant.                                                           *)

LEMMA InitRing == Init => RingInv
  <1> SUFFICES ASSUME Init PROVE RingInv
    OBVIOUS
  <1>1. PICK d \in Data : d = CHOOSE e \in Data : TRUE
    BY ListAssumption
  <1>2. TypeOK
    BY <1>1 DEF Init, TypeOK, Places
  <1>3. Len(order) = 0 /\ order = <<>> /\ DOMAIN order = {}
    BY DEF Init
  <1>4. \A k \in 0..0 : next[Place(k)] = Place(k + 1) /\ prev[Place(k + 1)] = Place(k)
    BY <1>3 DEF Init, Place, Places
  <1> QED  BY <1>2, <1>3, <1>4 DEF Init, RingInv, IsInjective, Linked, ToSet, LoopSound

\* A step that moves no pointer and keeps the list keeps its links.
LEMMA SameRing ==
  ASSUME RingInv, UNCHANGED <<next, prev, order>>
  PROVE  /\ IsInjective(order') /\ Linked' /\ ToSet(order') = ToSet(order)
         /\ \A k \in Nat : Place(k)' = Place(k)
  BY DEF RingInv, Linked, Place, ToSet

LEMMA CreateRing ==
  ASSUME RingInv, NEW n \in Nodes, NEW d \in Data, QueueIn(n, d) \/ StackPush(n, d)
  PROVE  RingInv'
  <1> DEFINE L == Len(order)
  <1>1. /\ TypeOK /\ IsInjective(order) /\ Linked /\ at = "idle" /\ tmp = head
        /\ n \notin ToSet(order) /\ heap = ToSet(order) /\ order \in Seq(Nodes) /\ L \in Nat
    <2>1. Create(n, d)
      BY DEF QueueIn, StackPush
    <2> QED  BY <2>1, PlaceFacts DEF RingInv, LoopSound, Create, Idle, TypeOK
  <1>2. \E i \in 0..L : ListAdd(n, Place(i), Place(i + 1)) /\ InsertedBehind(i, n)
    <2>1. 0 \in 0..L /\ L \in 0..L
      BY <1>1
    <2>2. next[head] = Place(1) /\ prev[head] = Place(L)
      BY <1>1, <2>1, PlaceFacts DEF Linked
    <2>3. CASE QueueIn(n, d)
      <3>1. ListAdd(n, Place(L), Place(L + 1))
        BY <2>2, <2>3, <1>1, PlaceFacts DEF QueueIn, ListAddTail
      <3>2. InsertedBehind(L, n)
        BY <2>3, <1>1 DEF QueueIn, InsertedBehind
      <3> QED  BY <3>1, <3>2, <2>1
    <2>4. CASE StackPush(n, d)
      <3>1. ListAdd(n, Place(0), Place(0 + 1))
        BY <2>2, <2>4, <1>1, PlaceFacts DEF StackPush, ListAddHead
      <3>2. InsertedBehind(0, n)
        <4>1. order' = <<n>> \o order
          BY <2>4 DEF StackPush
        <4>2. /\ order' \in Seq(Nodes) /\ Len(order') = L + 1 /\ order'[1] = n
              /\ \A k \in 1..L : order'[k + 1] = order[k]
          BY <4>1, <1>1
        <4> QED  BY <4>2, <1>1 DEF InsertedBehind
      <3> QED  BY <3>1, <3>2, <2>1
    <2> QED  BY <2>3, <2>4
  <1>3. PICK i \in 0..L : ListAdd(n, Place(i), Place(i + 1)) /\ InsertedBehind(i, n)
    BY <1>2
  <1>4. /\ next' \in [Places -> Places] /\ prev' \in [Places -> Places]
        /\ IsInjective(order') /\ Linked' /\ ToSet(order') = ToSet(order) \cup {n}
    BY <1>1, <1>3, AddLinks
  <1>5. /\ order' \in Seq(Nodes) /\ heap' = heap \cup {n} /\ cmd' = [cmd EXCEPT ![n] = d]
        /\ UNCHANGED loopVars
    BY <1>3 DEF QueueIn, StackPush, Create, InsertedBehind
  <1>6. TypeOK'
    BY <1>1, <1>4, <1>5 DEF TypeOK, loopVars
  <1>7. LoopSound' /\ heap' = ToSet(order')
    BY <1>1, <1>4, <1>5 DEF LoopSound, loopVars
  <1> QED  BY <1>4, <1>6, <1>7 DEF RingInv

\* What list_del and free leave of a ring when they take out its i-th node.
LEMMA DeletedRing ==
  ASSUME RingInv, at # "destroy",
         NEW i \in 1..Len(order), ListDel(Place(i - 1), Place(i + 1)), TakenOut(i),
         heap' = heap \ {order[i]}, cmd' = cmd, want' = want, at' = "idle", tmp' = head
  PROVE  RingInv'
  <1>1. /\ next' \in [Places -> Places] /\ prev' \in [Places -> Places]
        /\ IsInjective(order') /\ Linked' /\ ToSet(order') = ToSet(order) \ {order[i]}
    BY DelLinks DEF RingInv
  <1>2. TypeOK'
    BY <1>1 DEF RingInv, TypeOK, TakenOut, Places
  <1>3. heap' = ToSet(order') /\ LoopSound'
    BY <1>1 DEF RingInv, LoopSound
  <1> QED  BY <1>1, <1>2, <1>3 DEF RingInv

LEMMA TakeOutRing ==
  ASSUME RingInv, TakeOut
  PROVE  RingInv'
  <1>1. TypeOK /\ Linked /\ at = "idle" /\ tmp = head
    BY DEF TakeOut, Idle, RingInv, LoopSound
  <1>2. Len(order) \in Nat /\ order \in Seq(Nodes) /\ next[head] # head /\ 0 \in 0..Len(order)
    BY <1>1, PlaceFacts DEF TypeOK, TakeOut, ListEmpty
  <1>3. next[head] = Place(1)
    BY <1>1, <1>2, PlaceFacts DEF Linked
  <1>4. 1 \in 1..Len(order)
    BY <1>2, <1>3, <1>1, PlaceFacts
  <1>5. next[Place(1)] = Place(2) /\ Place(1) = order[1]
    <2>1. 1 \in 0..Len(order)
      BY <1>2, <1>4
    <2> QED  BY <2>1, <1>1, <1>4, PlaceFacts DEF Linked
  <1>6. ListDel(Place(1 - 1), Place(1 + 1))
    BY <1>1, <1>3, <1>5, PlaceFacts DEF TakeOut
  <1>7. TakenOut(1)
    <2>1. order' = Tail(order)
      BY DEF TakeOut
    <2> QED  BY <2>1, <1>2, <1>4 DEF TakenOut
  <1> QED  BY <1>1, <1>3, <1>4, <1>5, <1>6, <1>7, DeletedRing DEF TakeOut, loopVars

\* RemoveAt of the community module.
LEMMA RemovedAt ==
  ASSUME NEW S, NEW s \in Seq(S), NEW i \in 1..Len(s)
  PROVE  /\ RemoveAt(s, i) \in Seq(S) /\ Len(RemoveAt(s, i)) = Len(s) - 1
         /\ \A k \in 1..(i - 1) : RemoveAt(s, i)[k] = s[k]
         /\ \A k \in i..(Len(s) - 1) : RemoveAt(s, i)[k] = s[k + 1]
  <1> DEFINE a == SubSeq(s, 1, i - 1)
             b == SubSeq(s, i + 1, Len(s))
  <1>0. Len(s) \in Nat /\ i \in Nat /\ 1 <= i /\ i <= Len(s)
    OBVIOUS
  <1>1. a \in Seq(S) /\ Len(a) = i - 1 /\ \A k \in 1..(i - 1) : a[k] = s[k]
    BY <1>0
  <1>2. b \in Seq(S) /\ Len(b) = Len(s) - i /\ \A k \in 1..(Len(s) - i) : b[k] = s[k + i]
    BY <1>0
  <1>3. RemoveAt(s, i) = a \o b
    BY DEF RemoveAt
  <1> HIDE DEF a, b
  <1>4. /\ a \o b \in Seq(S) /\ Len(a \o b) = Len(s) - 1
        /\ \A k \in 1..(i - 1) : (a \o b)[k] = a[k]
        /\ \A k \in i..(Len(s) - 1) : (a \o b)[k] = b[k - (i - 1)]
    <2>0. a \in Seq(S) /\ b \in Seq(S)
      BY <1>1, <1>2
    <2>1. a \o b \in Seq(S) /\ Len(a \o b) = Len(a) + Len(b)
      BY <2>0
    <2>2. ASSUME NEW k \in 1..(Len(a) + Len(b))
          PROVE  (a \o b)[k] = IF k <= Len(a) THEN a[k] ELSE b[k - Len(a)]
      BY <1>1, <1>2
    <2>3. Len(a) + Len(b) = Len(s) - 1
      BY <1>0, <1>1, <1>2
    <2>4. ASSUME NEW k \in 1..(i - 1) PROVE (a \o b)[k] = a[k]
      <3>1. k \in 1..(Len(a) + Len(b)) /\ k <= Len(a)
        BY <1>0, <1>1, <2>3
      <3> QED  BY <3>1, <2>2
    <2>5. ASSUME NEW k \in i..(Len(s) - 1) PROVE (a \o b)[k] = b[k - (i - 1)]
      <3>1. k \in 1..(Len(a) + Len(b)) /\ ~(k <= Len(a)) /\ Len(a) = i - 1
        BY <1>0, <1>1, <2>3
      <3> QED  BY <3>1, <2>2
    <2> QED  BY <2>1, <2>3, <2>4, <2>5
  <1>5. ASSUME NEW k \in i..(Len(s) - 1) PROVE b[k - (i - 1)] = s[k + 1]
    <2>1. k - (i - 1) \in 1..(Len(s) - i) /\ k - (i - 1) + i = k + 1
      BY <1>0
    <2> QED  BY <2>1, <1>2
  <1> QED  BY <1>1, <1>3, <1>4, <1>5

\* Where a search stands: the node it is at, and that it has come past none it wants.
LEMMA SearchStands ==
  ASSUME RingInv, at = "node_del", tmp # head
  PROVE  \E k \in 1..Len(order) : tmp = order[k] /\ \A j \in 1..(k - 1) : cmd[order[j]] # want
  <1>1. PICK k \in 1..(Len(order) + 1) : tmp = Place(k) /\ \A j \in 1..(k - 1) : cmd[order[j]] # want
    BY DEF RingInv, LoopSound
  <1>2. k \in 1..Len(order)
    BY <1>1, PlaceFacts DEF RingInv
  <1> QED  BY <1>1, <1>2, PlaceFacts DEF RingInv

LEMMA FoundRing ==
  ASSUME RingInv, Found
  PROVE  RingInv'
  <1>1. TypeOK /\ Linked /\ IsInjective(order) /\ Len(order) \in Nat /\ DOMAIN order = 1..Len(order)
    BY PlaceFacts DEF RingInv
  <1>2. PICK i \in DOMAIN order : order[i] = tmp /\ order' = RemoveAt(order, i)
    BY DEF Found
  <1>3. i \in 1..Len(order) /\ i \in 0..Len(order) /\ i - 1 \in 0..Len(order) /\ i - 1 + 1 = i
    BY <1>1, <1>2
  <1>4. Place(i) = tmp /\ next[Place(i)] = Place(i + 1) /\ prev[Place(i - 1 + 1)] = Place(i - 1)
    BY <1>1, <1>2, <1>3, PlaceFacts DEF Linked
  <1>5. ListDel(Place(i - 1), Place(i + 1))
    BY <1>3, <1>4 DEF Found
  <1>6. TakenOut(i)
    BY <1>1, <1>2, <1>3, RemovedAt DEF TakenOut, TypeOK
  <1>7. heap' = heap \ {order[i]} /\ at # "destroy"
    BY <1>2 DEF Found
  <1> QED  BY <1>3, <1>5, <1>6, <1>7, DeletedRing DEF Found

\* A loop starts at a neighbour of the head.
LEMMA StartRing ==
  ASSUME RingInv, (\E d \in Data : NodeDel(d)) \/ Walk \/ Destroy
  PROVE  RingInv'
  <1>1. UNCHANGED <<next, prev, order>> /\ UNCHANGED <<cmd, heap>> /\ at = "idle"
    BY DEF NodeDel, Walk, Destroy, ptrVars, Idle
  <1>2. TypeOK /\ Linked /\ heap = ToSet(order) /\ Len(order) \in Nat
    BY <1>1, PlaceFacts DEF RingInv
  <1>3. /\ IsInjective(order') /\ Linked' /\ heap' = ToSet(order')
        /\ \A k \in Nat : Place(k)' = Place(k)
    BY <1>1, <1>2, SameRing
  <1>4. next[head] = Place(1) /\ prev[head] = Place(Len(order))
    <2>1. 0 \in 0..Len(order) /\ Len(order) \in 0..Len(order)
      BY <1>2
    <2> QED  BY <2>1, <1>2, PlaceFacts DEF Linked
  <1>5. TypeOK' /\ at' # "idle"
    BY <1>1, <1>2 DEF TypeOK, NodeDel, Walk, Destroy, Places
  <1>6. LoopSound'
    <2>1. CASE \E d \in Data : NodeDel(d)
      <3>1. at' = "node_del" /\ tmp' = Place(1)'
        BY <2>1, <1>3, <1>4 DEF NodeDel
      <3>2. 1 \in 1..(Len(order)' + 1) /\ \A j \in 1..(1 - 1) : (cmd[order[j]] # want)'
        BY <1>1, <1>2
      <3> QED  BY <3>1, <3>2 DEF LoopSound
    <2>2. CASE Walk
      <3>1. at' = "walk" /\ tmp' = Place(1)' /\ 1 \in 1..(Len(order)' + 1)
        BY <2>2, <1>1, <1>2, <1>3, <1>4 DEF Walk
      <3> QED  BY <3>1 DEF LoopSound
    <2>3. CASE Destroy
      <3>1. at' = "destroy" /\ tmp' = Place(Len(order))' /\ Len(order)' \in 0..Len(order)'
        BY <2>3, <1>1, <1>2, <1>3, <1>4 DEF Destroy
      <3>2. heap' = {order'[j] : j \in 1..Len(order)'}
        BY <1>1, <1>2, PlaceFacts DEF ToSet
      <3> QED  BY <3>1, <3>2 DEF LoopSound
    <2> QED  BY <2>1, <2>2, <2>3
  <1> QED  BY <1>3, <1>5, <1>6 DEF RingInv

\* The loops that only look: one place on, or out at the head.
LEMMA LookRing ==
  ASSUME RingInv, FindNext \/ NotFound \/ WalkNext
  PROVE  RingInv'
  <1>1. /\ UNCHANGED <<next, prev, order>> /\ UNCHANGED <<cmd, heap, want>>
        /\ at \in {"node_del", "walk"} /\ at' \in {at, "idle"}
    BY DEF FindNext, NotFound, WalkNext, ptrVars
  <1>2. TypeOK /\ Linked /\ heap = ToSet(order) /\ Len(order) \in Nat
    BY <1>1, PlaceFacts DEF RingInv
  <1>3. /\ IsInjective(order') /\ Linked' /\ heap' = ToSet(order')
        /\ \A k \in Nat : Place(k)' = Place(k)
    BY <1>1, <1>2, SameRing
  <1>4. TypeOK'
    BY <1>1, <1>2 DEF TypeOK, FindNext, NotFound, WalkNext, Places
  <1>5. CASE at' = "idle"
    <2>1. tmp' = head
      BY <1>1, <1>5 DEF FindNext, NotFound, WalkNext
    <2>2. LoopSound'
      BY <2>1, <1>5 DEF LoopSound
    <2> QED  BY <2>2, <1>3, <1>4 DEF RingInv
  <1>6. CASE at' = at
    <2>1. tmp # head /\ tmp' = next[tmp]
      BY <1>1, <1>6 DEF FindNext, NotFound, WalkNext
    <2>2. PICK k \in 1..(Len(order) + 1) :
             tmp = Place(k) /\ (at = "node_del" => \A j \in 1..(k - 1) : cmd[order[j]] # want)
      BY <1>1 DEF RingInv, LoopSound
    <2>3. k \in 1..Len(order) /\ k \in 0..Len(order) /\ k + 1 \in 1..(Len(order) + 1) /\ k + 1 \in Nat
      BY <2>1, <2>2, <1>2, PlaceFacts
    <2>4. tmp' = Place(k + 1)' /\ k + 1 \in 1..(Len(order)' + 1)
      BY <2>1, <2>2, <2>3, <1>1, <1>2, <1>3 DEF Linked
    <2>5. CASE at = "walk"
      BY <2>4, <2>5, <1>3, <1>4, <1>6, <1>1 DEF RingInv, LoopSound
    <2>6. CASE at = "node_del"
      <3>1. cmd[tmp] # want /\ tmp = order[k]
        BY <2>6, <1>6, <2>1, <2>2, <2>3, <1>2, PlaceFacts DEF FindNext, NotFound, WalkNext
      <3>2. \A j \in 1..(k + 1 - 1) : (cmd[order[j]] # want)'
        <4>1. \A j \in 1..(k + 1 - 1) : j = k \/ j \in 1..(k - 1)
          BY <2>3
        <4>2. \A j \in 1..(k - 1) : cmd[order[j]] # want
          BY <2>2, <2>6
        <4> QED  BY <3>1, <4>1, <4>2, <1>1
      <3>3. LoopSound'
        BY <3>2, <2>4, <2>6, <1>6 DEF LoopSound
      <3> QED  BY <3>3, <1>1, <1>3, <1>4 DEF RingInv
    <2> QED  BY <2>5, <2>6, <1>1
  <1> QED  BY <1>1, <1>5, <1>6

LEMMA DestroyRing ==
  ASSUME RingInv, DestroyNext
  PROVE  RingInv'
  <1> DEFINE L == Len(order)
  <1>1. /\ UNCHANGED <<next, prev, order>> /\ UNCHANGED <<cmd, want, at>> /\ at = "destroy"
        /\ heap' = heap \ {tmp} /\ tmp' = prev[tmp] /\ tmp # head
    BY DEF DestroyNext
  <1>2. TypeOK /\ Linked /\ IsInjective(order) /\ L \in Nat /\ DOMAIN order = 1..L
    BY PlaceFacts DEF RingInv
  <1>3. IsInjective(order') /\ Linked' /\ \A k \in Nat : Place(k)' = Place(k)
    BY <1>1, SameRing
  <1>4. TypeOK'
    BY <1>1, <1>2 DEF TypeOK, Places
  <1>5. PICK k \in 0..L : tmp = Place(k) /\ heap = {order[j] : j \in 1..k}
    BY <1>1 DEF RingInv, LoopSound
  <1>6. k \in 1..L /\ k - 1 \in 0..L /\ k - 1 \in Nat /\ k - 1 + 1 = k /\ tmp = order[k]
    BY <1>1, <1>2, <1>5, PlaceFacts
  <1>7. tmp' = Place(k - 1)'
    <2>1. prev[Place(k - 1 + 1)] = Place(k - 1)
      BY <1>2, <1>6 DEF Linked
    <2> QED  BY <2>1, <1>1, <1>3, <1>5, <1>6
  <1>8. heap' = {order'[j] : j \in 1..(k - 1)}
    <2>1. ASSUME NEW j \in 1..L, order[j] = order[k] PROVE j = k
      BY <2>1, <1>2, <1>6 DEF IsInjective
    <2>2. heap' = {order[j] : j \in 1..k} \ {order[k]}
      BY <1>1, <1>5, <1>6
    <2>3. {order[j] : j \in 1..k} \ {order[k]} = {order[j] : j \in 1..(k - 1)}
      BY <2>1, <1>2, <1>6
    <2> QED  BY <2>2, <2>3, <1>1
  <1>9. LoopSound'
    <2>1. at' = "destroy" /\ k - 1 \in 0..Len(order')
      BY <1>1, <1>6
    <2> QED  BY <2>1, <1>7, <1>8 DEF LoopSound
  <1> QED  BY <1>1, <1>3, <1>4, <1>9 DEF RingInv

LEMMA EmptiedRing ==
  ASSUME RingInv, ListHeadInit
  PROVE  RingInv'
  <1>1. TypeOK /\ at = "destroy" /\ tmp = head
    BY DEF RingInv, ListHeadInit
  <1>2. heap = {}
    <2>1. PICK k \in 0..Len(order) : tmp = Place(k) /\ heap = {order[j] : j \in 1..k}
      BY <1>1 DEF RingInv, LoopSound
    <2>2. ASSUME k # 0 PROVE FALSE
      <3>1. k \in 1..Len(order)
        BY <1>1, <2>1, <2>2, PlaceFacts
      <3> QED  BY <3>1, <1>1, <2>1, PlaceFacts
    <2> QED  BY <2>1, <2>2
  <1>3. order' = <<>> /\ Len(order') = 0 /\ DOMAIN order' = {} /\ heap' = {}
    BY <1>2 DEF ListHeadInit
  <1>4. TypeOK'
    BY <1>1, <1>3 DEF TypeOK, ListHeadInit, Places
  <1>5. \A k \in 0..0 : (next[Place(k)] = Place(k + 1) /\ prev[Place(k + 1)] = Place(k))'
    BY <1>1, <1>3 DEF ListHeadInit, Place, TypeOK, Places
  <1> QED  BY <1>1, <1>3, <1>4, <1>5 DEF RingInv, IsInjective, Linked, ToSet, LoopSound, ListHeadInit

\* list.c, queue.c, stack.c, list_test.c: whatever is added, taken out, searched for,
\* deleted or destroyed, the pointers are one ring with the nodes in order, nothing is
\* leaked or freed twice, and no loop leaves the ring.
THEOREM Invariance == Spec => []RingInv
  <1>1. ASSUME RingInv, [Next]_vars
        PROVE  RingInv'
    <2>1. CASE \E n \in Nodes, d \in Data : QueueIn(n, d) \/ StackPush(n, d)
      BY <1>1, <2>1, CreateRing
    <2>2. CASE TakeOut
      BY <1>1, <2>2, TakeOutRing
    <2>3. CASE (\E d \in Data : NodeDel(d)) \/ Walk \/ Destroy
      BY <1>1, <2>3, StartRing
    <2>4. CASE Found
      BY <1>1, <2>4, FoundRing
    <2>5. CASE FindNext \/ NotFound \/ WalkNext
      BY <1>1, <2>5, LookRing
    <2>6. CASE DestroyNext
      BY <1>1, <2>6, DestroyRing
    <2>7. CASE ListHeadInit
      BY <1>1, <2>7, EmptiedRing
    <2>8. CASE UNCHANGED vars
      <3>1. UNCHANGED <<next, prev, order>> /\ UNCHANGED <<cmd, heap>> /\ UNCHANGED <<at, tmp, want>>
        BY <2>8 DEF vars, ptrVars, loopVars
      <3>2. /\ IsInjective(order') /\ Linked' /\ ToSet(order') = ToSet(order)
        BY <1>1, <3>1, SameRing
      <3>3. TypeOK'
        BY <1>1, <3>1 DEF RingInv, TypeOK
      <3>4. LoopSound'
        <4>1. \A k : Place(k)' = Place(k)
          BY <3>1 DEF Place
        <4>2. LoopSound /\ at \in {"idle", "walk", "node_del", "destroy"}
          BY <1>1 DEF RingInv, TypeOK
        <4>3. CASE at \in {"idle", "walk"}
          BY <3>1, <4>1, <4>2, <4>3 DEF LoopSound
        <4>4. CASE at = "node_del"
          BY <3>1, <4>1, <4>2, <4>4 DEF LoopSound
        <4>5. CASE at = "destroy"
          BY <3>1, <4>1, <4>2, <4>5 DEF LoopSound
        <4> QED  BY <4>2, <4>3, <4>4, <4>5
      <3> QED  BY <1>1, <3>1, <3>2, <3>3, <3>4 DEF RingInv
    <2> QED  BY <1>1, <2>1, <2>2, <2>3, <2>4, <2>5, <2>6, <2>7, <2>8 DEF Next, Loop
  <1> QED  BY InitRing, <1>1, PTL DEF Spec

-----------------------------------------------------------------------------
(* The refinement.                                                          *)

LEMMA Mapped ==
  ASSUME NEW o \in Seq(Nodes), NEW c \in [Nodes -> Data], NEW s, s = [k \in DOMAIN o |-> c[o[k]]]
  PROVE  /\ s \in Seq(Data) /\ Len(s) = Len(o) /\ Len(o) \in Nat
         /\ DOMAIN s = 1..Len(o)
         /\ \A k \in 1..Len(o) : o[k] \in Nodes /\ s[k] = c[o[k]]
  <1>1. Len(o) \in Nat /\ DOMAIN o = 1..Len(o) /\ \A k \in 1..Len(o) : o[k] \in Nodes
    OBVIOUS
  <1>2. s \in [1..Len(o) -> Data]
    BY <1>1
  <1>3. s \in Seq(Data)
    BY <1>1, <1>2
  <1> QED  BY <1>1, <1>2, <1>3

LEMMA ItemsAre ==
  ASSUME TypeOK
  PROVE  /\ items \in Seq(Data) /\ Len(items) = Len(order) /\ Len(order) \in Nat
         /\ DOMAIN items = 1..Len(order)
         /\ \A k \in 1..Len(order) : order[k] \in Nodes /\ items[k] = cmd[order[k]]
  <1>1. order \in Seq(Nodes) /\ cmd \in [Nodes -> Data] /\ items = [k \in DOMAIN order |-> cmd[order[k]]]
    BY DEF TypeOK, items
  <1> HIDE DEF items
  <1> QED  BY <1>1, Mapped

LEMMA ItemsAreThen ==
  ASSUME TypeOK'
  PROVE  /\ items' \in Seq(Data) /\ Len(items') = Len(order')
         /\ \A k \in 1..Len(order') : items'[k] = cmd'[order'[k]]
  <1>1. order' \in Seq(Nodes) /\ cmd' \in [Nodes -> Data] /\ items' = [k \in DOMAIN order' |-> cmd'[order'[k]]]
    BY DEF TypeOK, items
  <1> HIDE DEF items
  <1> QED  BY <1>1, Mapped

\* A command for a new node, and what the old ones hold then.
LEMMA AddsItem ==
  ASSUME RingInv, RingInv', NEW n \in Nodes, NEW d \in Data, QueueIn(n, d) \/ StackPush(n, d)
  PROVE  D!AddFirst(d) \/ D!AddLast(d)
  <1> DEFINE L == Len(order)
  <1>1. TypeOK /\ TypeOK' /\ n \notin ToSet(order) /\ cmd' = [cmd EXCEPT ![n] = d]
    BY DEF RingInv, QueueIn, StackPush, Create, Idle
  <1>2. L \in Nat /\ order \in Seq(Nodes) /\ DOMAIN order = 1..L
    BY <1>1, PlaceFacts DEF TypeOK
  <1>3. cmd'[n] = d /\ \A k \in 1..L : cmd'[order[k]] = items[k]
    <2>1. cmd \in [Nodes -> Data]
      BY <1>1 DEF TypeOK
    <2>2. \A k \in 1..L : order[k] # n /\ order[k] \in Nodes /\ items[k] = cmd[order[k]]
      BY <1>1, <1>2, ItemsAre DEF ToSet
    <2> QED  BY <2>1, <2>2, <1>1
  <1>4. items \in Seq(Data) /\ Len(items) = L
    BY <1>1, ItemsAre
  <1>5. /\ items' \in Seq(Data) /\ Len(items') = Len(order')
        /\ \A k \in 1..Len(order') : items'[k] = cmd'[order'[k]]
    BY <1>1, ItemsAreThen
  <1>6. CASE QueueIn(n, d)
    <2>1. order' = Append(order, n)
      BY <1>6 DEF QueueIn
    <2>2. Len(order') = L + 1 /\ order'[L + 1] = n /\ \A k \in 1..L : order'[k] = order[k]
      BY <2>1, <1>2
    <2>3. Len(items') = L + 1 /\ items'[L + 1] = d /\ \A k \in 1..L : items'[k] = items[k]
      BY <2>2, <1>2, <1>3, <1>5
    <2>4. items' = Append(items, d)
      <3> HIDE DEF L
      <3>1. /\ Append(items, d) \in Seq(Data) /\ Len(Append(items, d)) = L + 1
            /\ Append(items, d)[L + 1] = d /\ \A k \in 1..L : Append(items, d)[k] = items[k]
        BY <1>4
      <3>2. \A k \in 1..(L + 1) : items'[k] = Append(items, d)[k]
        BY <3>1, <2>3, <1>2
      <3> QED  BY <3>1, <3>2, <2>3, <1>5, SeqEqual
    <2> QED  BY <2>4 DEF D!AddLast
  <1>7. CASE StackPush(n, d)
    <2>1. order' = <<n>> \o order
      BY <1>7 DEF StackPush
    <2>2. Len(order') = L + 1 /\ order'[1] = n /\ \A k \in 1..L : order'[k + 1] = order[k]
      BY <2>1, <1>2
    <2>3. Len(items') = L + 1 /\ items'[1] = d /\ \A k \in 1..L : items'[k + 1] = items[k]
      <3>1. 1 \in 1..(L + 1) /\ \A k \in 1..L : k + 1 \in 1..(L + 1)
        BY <1>2
      <3> QED  BY <3>1, <2>2, <1>3, <1>5
    <2>4. items' = <<d>> \o items
      <3> HIDE DEF L
      <3>1. /\ <<d>> \o items \in Seq(Data) /\ Len(<<d>> \o items) = L + 1
            /\ (<<d>> \o items)[1] = d /\ \A k \in 1..L : (<<d>> \o items)[k + 1] = items[k]
        BY <1>4
      <3>2. \A k \in 1..(L + 1) : items'[k] = (<<d>> \o items)[k]
        <4>1. \A k \in 1..(L + 1) : k = 1 \/ (k - 1 \in 1..L /\ k = k - 1 + 1)
          BY <1>2
        <4> QED  BY <4>1, <3>1, <2>3
      <3> QED  BY <3>1, <3>2, <2>3, <1>5, SeqEqual
    <2> QED  BY <2>4 DEF D!AddFirst
  <1> QED  BY <1>6, <1>7

\* What is left of the commands when the i-th node is taken out.
LEMMA TakesItem ==
  ASSUME TypeOK, TypeOK', NEW i \in 1..Len(order), TakenOut(i), cmd' = cmd
  PROVE  /\ items' \in Seq(Data) /\ Len(items') = Len(items) - 1
         /\ \A k \in 1..(i - 1) : items'[k] = items[k]
         /\ \A k \in i..(Len(items) - 1) : items'[k] = items[k + 1]
  <1> DEFINE L == Len(order)
  <1>1. /\ items' \in Seq(Data) /\ Len(items') = Len(order')
        /\ \A k \in 1..Len(order') : items'[k] = cmd'[order'[k]]
    BY ItemsAreThen
  <1>2. /\ L \in Nat /\ Len(items) = L /\ Len(order') = L - 1
        /\ \A k \in 1..L : items[k] = cmd[order[k]]
    BY ItemsAre DEF TakenOut
  <1>3. ASSUME NEW k \in 1..(i - 1) PROVE items'[k] = items[k]
    <2>1. k \in 1..Len(order') /\ k \in 1..L /\ order'[k] = order[k]
      BY <1>2, <1>3 DEF TakenOut
    <2> QED  BY <2>1, <1>1, <1>2
  <1>4. ASSUME NEW k \in i..(L - 1) PROVE items'[k] = items[k + 1]
    <2>1. k \in 1..Len(order') /\ k + 1 \in 1..L /\ order'[k] = order[k + 1]
      BY <1>2, <1>4 DEF TakenOut
    <2> QED  BY <2>1, <1>1, <1>2
  <1> QED  BY <1>1, <1>2, <1>3, <1>4

\* Two sequences with the same elements.
LEMMA SameItems ==
  ASSUME NEW s \in Seq(Data), NEW i \in 1..Len(s), NEW t \in Seq(Data),
         Len(t) = Len(s) - 1,
         \A k \in 1..(i - 1) : t[k] = s[k],
         \A k \in i..(Len(s) - 1) : t[k] = s[k + 1]
  PROVE  t = RemoveAt(s, i)
  <1> DEFINE r == RemoveAt(s, i)
  <1>1. /\ r \in Seq(Data) /\ Len(r) = Len(s) - 1
        /\ \A k \in 1..(i - 1) : r[k] = s[k]
        /\ \A k \in i..(Len(s) - 1) : r[k] = s[k + 1]
    BY RemovedAt
  <1> HIDE DEF r
  <1>2. ASSUME NEW k \in 1..(Len(s) - 1) PROVE t[k] = r[k]
    <2>1. k \in 1..(i - 1) \/ k \in i..(Len(s) - 1)
      BY <1>2
    <2> QED  BY <2>1, <1>1
  <1>3. t = r
    BY <1>1, <1>2, SeqEqual
  <1> QED  BY <1>3 DEF r

LEMMA TakesFirst ==
  ASSUME RingInv, RingInv', TakeOut
  PROVE  D!TakeFirst
  <1>1. TypeOK /\ TypeOK' /\ Linked /\ cmd' = cmd /\ order' = Tail(order) /\ next[head] # head
    BY DEF RingInv, TakeOut, ListEmpty
  <1>2. Len(order) \in Nat /\ order \in Seq(Nodes) /\ 0 \in 0..Len(order)
    BY <1>1, PlaceFacts DEF TypeOK
  <1>3. 1 \in 1..Len(order)
    <2>1. next[Place(0)] = Place(0 + 1)
      BY <1>1, <1>2 DEF Linked
    <2> QED  BY <2>1, <1>1, <1>2, PlaceFacts
  <1>4. TakenOut(1)
    BY <1>1, <1>2, <1>3 DEF TakenOut
  <1>5. items \in Seq(Data) /\ Len(items) = Len(order)
    BY <1>1, ItemsAre
  <1>6. /\ items' \in Seq(Data) /\ Len(items') = Len(items) - 1
        /\ \A k \in 1..(Len(items) - 1) : items'[k] = items[k + 1]
    BY <1>1, <1>3, <1>4, TakesItem
  <1>7. items # <<>> /\ items' = Tail(items)
    <2> HIDE DEF items
    <2>1. items # <<>> /\ Tail(items) \in Seq(Data) /\ Len(Tail(items)) = Len(items) - 1
      BY <1>2, <1>3, <1>5
    <2>2. \A k \in 1..(Len(items) - 1) : Tail(items)[k] = items[k + 1]
      BY <1>2, <1>3, <1>5
    <2> QED  BY <2>1, <2>2, <1>6, SeqEqual
  <1> QED  BY <1>7 DEF D!TakeFirst

\* node_del deletes the first node with the command it was given.
LEMMA DeletesFirst ==
  ASSUME RingInv, RingInv', Found
  PROVE  want \in Data /\ D!DeleteFirst(want)
  <1>1. TypeOK /\ TypeOK' /\ IsInjective(order) /\ cmd' = cmd /\ cmd[tmp] = want
    BY DEF RingInv, Found
  <1>2. PICK i \in DOMAIN order : order[i] = tmp /\ order' = RemoveAt(order, i)
    BY DEF Found
  <1>3. Len(order) \in Nat /\ order \in Seq(Nodes) /\ i \in 1..Len(order) /\ DOMAIN order = 1..Len(order)
    BY <1>1, <1>2, PlaceFacts DEF TypeOK
  <1>4. TakenOut(i)
    BY <1>2, <1>3, RemovedAt DEF TakenOut
  <1>5. \A j \in 1..(i - 1) : cmd[order[j]] # want
    <2>1. PICK k \in 1..Len(order) : tmp = order[k] /\ \A j \in 1..(k - 1) : cmd[order[j]] # want
      BY SearchStands DEF Found
    <2>2. k = i
      BY <2>1, <1>1, <1>2, <1>3 DEF IsInjective
    <2> QED  BY <2>1, <2>2
  <1>6. /\ items \in Seq(Data) /\ Len(items) = Len(order) /\ DOMAIN items = 1..Len(order)
        /\ \A k \in 1..Len(order) : items[k] = cmd[order[k]]
    BY <1>1, ItemsAre
  <1>7. items[i] = want /\ \A j \in 1..(i - 1) : items[j] # want
    BY <1>1, <1>2, <1>3, <1>5, <1>6
  <1>8. items' = RemoveAt(items, i)
    <2>1. /\ items' \in Seq(Data) /\ Len(items') = Len(items) - 1
          /\ \A k \in 1..(i - 1) : items'[k] = items[k]
          /\ \A k \in i..(Len(items) - 1) : items'[k] = items[k + 1]
      BY <1>1, <1>3, <1>4, TakesItem
    <2> HIDE DEF items
    <2> QED  BY <2>1, <1>3, <1>6, SameItems
  <1>9. i \in DOMAIN items
    BY <1>3, <1>6
  <1>10. want \in Data
    BY <1>1 DEF TypeOK
  <1> HIDE DEF items
  <1> QED  BY <1>7, <1>8, <1>9, <1>10 DEF D!DeleteFirst, D!RemoveAt, RemoveAt

\* The list, the queue and the stack implement the sequence of Deque.
THEOREM ImplementsDeque == Spec => DequeSpec
  <1>1. Init => D!DequeInit
    <2> SUFFICES ASSUME Init PROVE items = <<>>
      BY DEF D!DequeInit
    <2>1. TypeOK /\ Len(order) = 0
      BY InitRing DEF RingInv, Init
    <2>2. items \in Seq(Data) /\ Len(items) = 0
      BY <2>1, ItemsAre
    <2> HIDE DEF items
    <2> QED  BY <2>2
  <1>2. ASSUME RingInv, RingInv', [Next]_vars
        PROVE  [D!DequeNext]_items
    <2>1. CASE \E n \in Nodes, d \in Data : QueueIn(n, d) \/ StackPush(n, d)
      BY <1>2, <2>1, AddsItem DEF D!DequeNext
    <2>2. CASE TakeOut
      BY <1>2, <2>2, TakesFirst DEF D!DequeNext
    <2>3. CASE Found
      BY <1>2, <2>3, DeletesFirst DEF D!DequeNext
    <2>4. CASE ListHeadInit
      <3>1. TypeOK' /\ Len(order') = 0
        BY <1>2, <2>4 DEF RingInv, ListHeadInit
      <3>2. items' \in Seq(Data) /\ Len(items') = 0
        BY <3>1, ItemsAreThen
      <3>3. items' = <<>>
        BY <3>2
      <3> QED  BY <3>3 DEF D!DequeNext, D!Clear
    <2>5. CASE \/ (\E d \in Data : NodeDel(d)) \/ Walk \/ Destroy
               \/ FindNext \/ NotFound \/ WalkNext \/ DestroyNext \/ UNCHANGED vars
      <3>1. UNCHANGED <<order, cmd>>
        BY <2>5 DEF NodeDel, Walk, Destroy, FindNext, NotFound, WalkNext, DestroyNext, vars, ptrVars
      <3> QED  BY <3>1 DEF items
    <2> QED  BY <1>2, <2>1, <2>2, <2>3, <2>4, <2>5 DEF Next, Loop
  <1> QED  BY <1>1, <1>2, Invariance, PTL DEF Spec, DequeSpec, D!DequeSpec

-----------------------------------------------------------------------------
(* NodeList: one store, and the functions that are made of stores.          *)

Typed(m) == m \in [Cells -> ListNode]

\* One store: the memory r is m with p in n's prev, or in its next.
StoredPrev(m, r, n, p) ==
  Typed(r) /\ \A x \in Cells : r[x].prev = (IF x = n THEN p ELSE m[x].prev) /\ r[x].next = m[x].next
StoredNext(m, r, n, p) ==
  Typed(r) /\ \A x \in Cells : r[x].next = (IF x = n THEN p ELSE m[x].next) /\ r[x].prev = m[x].prev

LEMMA StorePrev ==
  ASSUME NEW m, Typed(m), NEW n \in Cells, NEW p \in Cells \cup {NULL}
  PROVE  StoredPrev(m, SetPrev(m, n, p), n, p)
<1> DEFINE r == [m[n] EXCEPT !.prev = p]
<1>1. r \in ListNode /\ r.prev = p /\ r.next = m[n].next
  BY DEF Typed, ListNode
<1>2. SetPrev(m, n, p) = [m EXCEPT ![n] = r]
  BY DEF SetPrev
<1> HIDE DEF r
<1> QED BY <1>1, <1>2 DEF Typed, StoredPrev

LEMMA StoreNext ==
  ASSUME NEW m, Typed(m), NEW n \in Cells, NEW p \in Cells \cup {NULL}
  PROVE  StoredNext(m, SetNext(m, n, p), n, p)
<1> DEFINE r == [m[n] EXCEPT !.next = p]
<1>1. r \in ListNode /\ r.next = p /\ r.prev = m[n].prev
  BY DEF Typed, ListNode
<1>2. SetNext(m, n, p) = [m EXCEPT ![n] = r]
  BY DEF SetNext
<1> HIDE DEF r
<1> QED BY <1>1, <1>2 DEF Typed, StoredNext

\* The memory r is m with n linked in between a and z.
LinksIn(m, r, n, a, z) ==
  \A x \in Cells :
    /\ r[x].next = (IF x = n THEN z ELSE IF x = a THEN n ELSE m[x].next)
    /\ r[x].prev = (IF x = n THEN a ELSE IF x = z THEN n ELSE m[x].prev)

\* The memory r is m without n between a and z.
LinksOut(m, r, n, a, z) ==
  /\ r[n].next = NULL /\ r[n].prev = NULL
  /\ \A x \in Cells \ {n} :
       /\ r[x].next = (IF x = a THEN z ELSE m[x].next)
       /\ r[x].prev = (IF x = z THEN a ELSE m[x].prev)

LEMMA AddHeadLinks ==
  ASSUME NEW m, Typed(m), NEW l \in Cells, NEW n \in Cells, n # l,
         NEW z \in Cells, z = m[l].next, z # n
  PROVE  Typed(list_add_head(m, l, n)) /\ LinksIn(m, list_add_head(m, l, n), n, l, z)
<1>1. PICK m0 : m0 = SetNext(m, n, z) /\ StoredNext(m, m0, n, z)
  BY StoreNext
<1>2. Typed(m0)
  BY <1>1 DEF StoredNext
<1>3. PICK m1 : m1 = SetPrev(m0, n, l) /\ StoredPrev(m0, m1, n, l)
  BY <1>2, StorePrev
<1>4. Typed(m1) /\ m1[l].next = z
  BY <1>1, <1>3 DEF StoredNext, StoredPrev
<1>5. PICK m2 : m2 = SetPrev(m1, z, n) /\ StoredPrev(m1, m2, z, n)
  BY <1>4, StorePrev
<1>6. Typed(m2)
  BY <1>5 DEF StoredPrev
<1>7. PICK m3 : m3 = SetNext(m2, l, n) /\ StoredNext(m2, m3, l, n)
  BY <1>6, StoreNext
<1>8. list_add_head(m, l, n) = m3
  BY <1>1, <1>3, <1>4, <1>5, <1>7 DEF list_add_head
<1>9. Typed(m3) /\ LinksIn(m, m3, n, l, z)
  BY <1>1, <1>3, <1>5, <1>7 DEF StoredNext, StoredPrev, LinksIn
<1> QED BY <1>8, <1>9

LEMMA AddTailLinks ==
  ASSUME NEW m, Typed(m), NEW l \in Cells, NEW n \in Cells, n # l,
         NEW a \in Cells, a = m[l].prev, a # n
  PROVE  Typed(list_add_tail(m, l, n)) /\ LinksIn(m, list_add_tail(m, l, n), n, a, l)
<1>1. PICK m0 : m0 = SetPrev(m, n, a) /\ StoredPrev(m, m0, n, a)
  BY StorePrev
<1>2. Typed(m0)
  BY <1>1 DEF StoredPrev
<1>3. PICK m1 : m1 = SetNext(m0, n, l) /\ StoredNext(m0, m1, n, l)
  BY <1>2, StoreNext
<1>4. Typed(m1) /\ m1[l].prev = a
  BY <1>1, <1>3 DEF StoredNext, StoredPrev
<1>5. PICK m2 : m2 = SetNext(m1, a, n) /\ StoredNext(m1, m2, a, n)
  BY <1>4, StoreNext
<1>6. Typed(m2)
  BY <1>5 DEF StoredNext
<1>7. PICK m3 : m3 = SetPrev(m2, l, n) /\ StoredPrev(m2, m3, l, n)
  BY <1>6, StorePrev
<1>8. list_add_tail(m, l, n) = m3
  BY <1>1, <1>3, <1>4, <1>5, <1>7 DEF list_add_tail
<1>9. Typed(m3) /\ LinksIn(m, m3, n, a, l)
  BY <1>1, <1>3, <1>5, <1>7 DEF StoredNext, StoredPrev, LinksIn
<1> QED BY <1>8, <1>9

LEMMA DeleteLinks ==
  ASSUME NEW m, Typed(m), NEW n \in Cells,
         NEW a \in Cells \ {n}, a = m[n].prev, NEW z \in Cells \ {n}, z = m[n].next
  PROVE  Typed(list_delete(m, n)) /\ LinksOut(m, list_delete(m, n), n, a, z)
<1>1. PICK m1 : m1 = SetPrev(m, z, a) /\ StoredPrev(m, m1, z, a)
  BY StorePrev
<1>2. Typed(m1) /\ m1[n].prev = a /\ m1[n].next = z
  BY <1>1 DEF StoredPrev
<1>3. PICK m2 : m2 = SetNext(m1, a, z) /\ StoredNext(m1, m2, a, z)
  BY <1>2, StoreNext
<1>4. Typed(m2)
  BY <1>3 DEF StoredNext
<1>5. PICK m3 : m3 = SetNext(m2, n, NULL) /\ StoredNext(m2, m3, n, NULL)
  BY <1>4, StoreNext
<1>6. Typed(m3)
  BY <1>5 DEF StoredNext
<1>7. PICK m4 : m4 = SetPrev(m3, n, NULL) /\ StoredPrev(m3, m4, n, NULL)
  BY <1>6, StorePrev
<1>8. list_delete(m, n) = m4
  BY <1>1, <1>2, <1>3, <1>5, <1>7 DEF list_delete, list_clear_node
<1>9. Typed(m4) /\ LinksOut(m, m4, n, a, z)
  BY <1>1, <1>3, <1>5, <1>7 DEF StoredNext, StoredPrev, LinksOut
<1> QED BY <1>8, <1>9

\* list_initialize and list_clear_node of one node.
LEMMA SetsNode ==
  ASSUME NEW m, Typed(m), NEW n \in Cells, NEW p \in Cells \cup {NULL}
  PROVE  LET r == SetPrev(SetNext(m, n, p), n, p) IN
           Typed(r) /\ r[n] = [prev |-> p, next |-> p] /\ \A x \in Cells \ {n} : r[x] = m[x]
<1> DEFINE m1 == SetNext(m, n, p)
           r == SetPrev(m1, n, p)
<1>1. Typed(m1) /\ m1[n].next = p /\ \A x \in Cells \ {n} : m1[x] = m[x]
  BY StoreNext DEF SetNext, Typed, StoredNext
<1> HIDE DEF m1
<1>2. Typed(r) /\ r[n].next = m1[n].next /\ r[n].prev = p /\ \A x \in Cells \ {n} : r[x] = m1[x]
  BY <1>1, StorePrev DEF SetPrev, Typed, StoredPrev
<1> HIDE DEF r
<1>3. r[n] = [prev |-> p, next |-> p]
  <2>1. r[n] \in ListNode
    BY <1>2 DEF Typed
  <2> QED BY <1>1, <1>2, <2>1 DEF ListNode
<1>4. Typed(r) /\ r[n] = [prev |-> p, next |-> p] /\ \A x \in Cells \ {n} : r[x] = m[x]
  BY <1>1, <1>2, <1>3
<1> QED BY <1>4 DEF r, m1

-----------------------------------------------------------------------------
(* The memory m holds the list s.                                            *)

Nx(m) == [x \in Cells |-> m[x].next]
Pv(m) == [x \in Cells |-> m[x].prev]
PlaceIn(s, k) == RingPlace(s, list, k)
Alone(n) == {[prev |-> NULL, next |-> NULL], [prev |-> n, next |-> n]}

Held(m, s) ==
  /\ Typed(m) /\ s \in Seq(Items) /\ IsInjective(s)
  /\ IsRing(Nx(m), Pv(m), s, list)
  /\ \A n \in Items \ ToSet(s) : m[n] \in Alone(n)

LEMMA HeldPlaces ==
  ASSUME NEW m, NEW s, Held(m, s)
  PROVE  /\ Len(s) \in Nat /\ DOMAIN s = 1..Len(s)
         /\ PlaceIn(s, 0) = list /\ PlaceIn(s, Len(s) + 1) = list
         /\ \A k \in 1..Len(s) : PlaceIn(s, k) = s[k] /\ s[k] \in Items /\ s[k] # list /\ s[k] \in ToSet(s)
         /\ \A k \in 0..(Len(s) + 1) : PlaceIn(s, k) \in Cells
         /\ \A k \in 0..Len(s) : m[PlaceIn(s, k)].next = PlaceIn(s, k + 1) /\ m[PlaceIn(s, k + 1)].prev = PlaceIn(s, k)
<1>0. s \in Seq(Items) /\ list \notin Items /\ IsRing(Nx(m), Pv(m), s, list)
  BY NodeListAssumption DEF Held
<1>1. /\ Len(s) \in Nat /\ DOMAIN s = 1..Len(s)
      /\ PlaceIn(s, 0) = list /\ PlaceIn(s, Len(s) + 1) = list
      /\ \A k \in 1..Len(s) : PlaceIn(s, k) = s[k] /\ s[k] \in Items /\ s[k] # list
      /\ \A k \in 0..(Len(s) + 1) : PlaceIn(s, k) \in Cells
  BY <1>0, RingPlaces DEF PlaceIn, Cells
<1>2. \A k \in 1..Len(s) : s[k] \in ToSet(s)
  BY <1>1 DEF ToSet
<1>3. \A k \in 0..Len(s) : m[PlaceIn(s, k)].next = PlaceIn(s, k + 1) /\ m[PlaceIn(s, k + 1)].prev = PlaceIn(s, k)
  <2> TAKE k \in 0..Len(s)
  <2>1. k \in 0..(Len(s) + 1) /\ k + 1 \in 0..(Len(s) + 1)
    BY <1>1
  <2>2. PlaceIn(s, k) \in Cells /\ PlaceIn(s, k + 1) \in Cells
    BY <1>1, <2>1
  <2>3. Nx(m)[PlaceIn(s, k)] = PlaceIn(s, k + 1) /\ Pv(m)[PlaceIn(s, k + 1)] = PlaceIn(s, k)
    BY <1>0 DEF IsRing, PlaceIn
  <2> QED BY <2>2, <2>3 DEF Nx, Pv
<1> QED BY <1>1, <1>2, <1>3

LEMMA Inserting ==
  ASSUME NEW m, NEW s, Held(m, s), NEW i \in 0..Len(s), NEW n \in Items, n \notin ToSet(s),
         NEW z \in Seq(Items), InsertedAfter(s, i, n, z),
         NEW r, Typed(r), LinksIn(m, r, n, PlaceIn(s, i), PlaceIn(s, i + 1))
  PROVE  Held(r, z)
<1>0. s \in Seq(Items) /\ IsInjective(s) /\ list \notin Items /\ IsRing(Nx(m), Pv(m), s, list)
      /\ n \in Cells /\ Cells = Items \cup {list}
  BY NodeListAssumption DEF Held, Cells
<1>1. i \in 0..(Len(s) + 1) /\ i + 1 \in 0..(Len(s) + 1) /\ Len(s) \in Nat
  BY HeldPlaces
<1>2. PlaceIn(s, i) \in Cells /\ PlaceIn(s, i + 1) \in Cells
  BY <1>1, HeldPlaces
<1>3. PlaceIn(s, i) # n /\ PlaceIn(s, i + 1) # n
  BY <1>0, HeldPlaces DEF PlaceIn, RingPlace
<1>4. LinkedIn(Cells, Nx(m), Pv(m), Nx(r), Pv(r), PlaceIn(s, i), n, PlaceIn(s, i + 1))
  BY <1>0, <1>2, <1>3 DEF LinksIn, Nx, Pv, LinkedIn
<1>5. IsInjective(z) /\ IsRing(Nx(r), Pv(r), z, list) /\ ToSet(z) = ToSet(s) \cup {n}
  BY ONLY <1>0, <1>4, RingInserted, i \in 0..Len(s), n \in Items, n \notin ToSet(s), z \in Seq(Items),
          InsertedAfter(s, i, n, z) DEF PlaceIn
<1>6. \A x \in Items \ ToSet(z) : r[x] \in Alone(x)
  <2> SUFFICES ASSUME NEW x \in Items, x \notin ToSet(z) PROVE r[x] \in Alone(x)
    OBVIOUS
  <2>1. x \notin ToSet(s) /\ x # n /\ x \in Cells
    BY <1>5 DEF Cells
  <2>2. x # PlaceIn(s, i) /\ x # PlaceIn(s, i + 1)
    BY <1>0, <2>1, HeldPlaces DEF PlaceIn, RingPlace
  <2>3. r[x].next = m[x].next /\ r[x].prev = m[x].prev
    BY <2>1, <2>2 DEF LinksIn
  <2>4. r[x] = m[x]
    BY <2>1, <2>3 DEF Held, Typed, ListNode
  <2> QED BY <2>1, <2>4 DEF Held
<1> QED BY <1>5, <1>6 DEF Held

LEMMA PlacesBeside ==
  ASSUME NEW m, NEW s, Held(m, s), NEW i \in 1..Len(s)
  PROVE  PlaceIn(s, i - 1) # s[i] /\ PlaceIn(s, i + 1) # s[i]
<1>0. s \in Seq(Items) /\ IsInjective(s) /\ list \notin Items
  BY NodeListAssumption DEF Held
<1>1. Len(s) \in Nat /\ i - 1 \in 0..Len(s) /\ i \in 0..Len(s) /\ i - 1 # i /\ s[i] # list /\ PlaceIn(s, i) = s[i]
  BY HeldPlaces
<1>2. PlaceIn(s, i - 1) # PlaceIn(s, i)
  BY <1>0, <1>1, RingPlacesApart DEF PlaceIn
<1>3. CASE i < Len(s)
  <2>1. i + 1 \in 0..Len(s) /\ i + 1 # i
    BY <1>1, <1>3
  <2>2. PlaceIn(s, i + 1) # PlaceIn(s, i)
    BY <1>0, <1>1, <2>1, RingPlacesApart DEF PlaceIn
  <2> QED BY <1>1, <1>2, <2>2
<1>4. CASE ~(i < Len(s))
  <2>1. i + 1 = Len(s) + 1
    BY <1>1, <1>4
  <2>2. PlaceIn(s, i + 1) = list
    BY <2>1, HeldPlaces
  <2> QED BY <1>1, <1>2, <2>2
<1> QED BY <1>3, <1>4

LEMMA TakingOut ==
  ASSUME NEW m, NEW s, Held(m, s), NEW i \in 1..Len(s),
         NEW z \in Seq(Items), TakenOutAt(s, i, z),
         NEW r, Typed(r), LinksOut(m, r, s[i], PlaceIn(s, i - 1), PlaceIn(s, i + 1))
  PROVE  Held(r, z) /\ ToSet(z) = ToSet(s) \ {s[i]}
<1>0. s \in Seq(Items) /\ IsInjective(s) /\ list \notin Items /\ IsRing(Nx(m), Pv(m), s, list)
      /\ Cells = Items \cup {list}
  BY NodeListAssumption DEF Held, Cells
<1>1. Len(s) \in Nat /\ i - 1 \in 0..Len(s) /\ i \in 0..Len(s) /\ i - 1 # i /\ i - 1 \in 0..(Len(s) + 1)
      /\ i + 1 \in 0..(Len(s) + 1) /\ s[i] \in Items /\ s[i] \in Cells /\ PlaceIn(s, i) = s[i]
  BY HeldPlaces DEF Cells
<1>2. PlaceIn(s, i - 1) \in Cells /\ PlaceIn(s, i + 1) \in Cells
  BY <1>1, HeldPlaces
<1>3. PlaceIn(s, i - 1) # s[i] /\ PlaceIn(s, i + 1) # s[i]
  BY PlacesBeside
<1>4. LinkedPast(Items \cup {list}, Nx(m), Pv(m), Nx(r), Pv(r), RingPlace(s, list, i - 1), s[i], RingPlace(s, list, i + 1))
  BY <1>0, <1>1, <1>2, <1>3 DEF LinksOut, Nx, Pv, LinkedPast, PlaceIn
<1>5. IsInjective(z) /\ IsRing(Nx(r), Pv(r), z, list) /\ ToSet(z) = ToSet(s) \ {s[i]}
  <2>1. Unlinks(Items, list, s, i, z, Nx(m), Pv(m), Nx(r), Pv(r))
    BY <1>0, <1>4 DEF Unlinks
  <2> QED BY <2>1, RingRemoved
<1>6. \A x \in Items \ ToSet(z) : r[x] \in Alone(x)
  <2> SUFFICES ASSUME NEW x \in Items, x \notin ToSet(z) PROVE r[x] \in Alone(x)
    OBVIOUS
  <2>1. x \in Cells /\ r[x] \in ListNode
    BY DEF Cells, Typed
  <2>2. CASE x = s[i]
    <3>1. r[x].next = NULL /\ r[x].prev = NULL
      BY <2>2 DEF LinksOut
    <3>2. r[x] = [prev |-> NULL, next |-> NULL]
      BY <2>1, <3>1 DEF ListNode
    <3> QED BY <3>2 DEF Alone
  <2>3. CASE x # s[i]
    <3>1. x \notin ToSet(s)
      BY <1>5, <2>3
    <3>2. x # PlaceIn(s, i - 1) /\ x # PlaceIn(s, i + 1)
      BY <1>0, <3>1, HeldPlaces DEF PlaceIn, RingPlace
    <3>3. r[x].next = m[x].next /\ r[x].prev = m[x].prev
      BY <2>1, <2>3, <3>2 DEF LinksOut
    <3>4. r[x] = m[x]
      BY <2>1, <3>3 DEF Held, Typed, ListNode
    <3> QED BY <3>1, <3>4 DEF Held
  <2> QED BY <2>2, <2>3
<1> QED BY <1>5, <1>6 DEF Held

-----------------------------------------------------------------------------
(* The calls on a memory that holds a list.                                  *)

LEMMA Added ==
  ASSUME NEW m, NEW s, Held(m, s), NEW i \in 0..Len(s), NEW n \in Items, n \notin ToSet(s),
         NEW z \in Seq(Items), InsertedAfter(s, i, n, z)
  PROVE  Held(list_add_head(m, PlaceIn(s, i), n), z) /\ Held(list_add_tail(m, PlaceIn(s, i + 1), n), z)
<1> DEFINE a == PlaceIn(s, i)
           b == PlaceIn(s, i + 1)
<1>1. /\ i \in 0..(Len(s) + 1) /\ i + 1 \in 0..(Len(s) + 1) /\ Len(s) \in Nat /\ n \in Cells /\ Typed(m)
      /\ a = PlaceIn(s, i) /\ b = PlaceIn(s, i + 1)
  BY HeldPlaces DEF Cells, Held
<1>2. a \in Cells /\ b \in Cells /\ m[a].next = b /\ m[b].prev = a
  BY <1>1, HeldPlaces
<1>3. a # n /\ b # n
  BY NodeListAssumption, HeldPlaces DEF PlaceIn, RingPlace
<1> HIDE DEF a, b
<1>4. /\ Typed(list_add_head(m, a, n)) /\ LinksIn(m, list_add_head(m, a, n), n, a, b)
      /\ Typed(list_add_tail(m, b, n)) /\ LinksIn(m, list_add_tail(m, b, n), n, a, b)
  BY <1>1, <1>2, <1>3, AddHeadLinks, AddTailLinks
<1> DEFINE r == list_add_head(m, a, n)
           t == list_add_tail(m, b, n)
<1>5. Typed(r) /\ LinksIn(m, r, n, PlaceIn(s, i), PlaceIn(s, i + 1)) /\ Typed(t) /\ LinksIn(m, t, n, PlaceIn(s, i), PlaceIn(s, i + 1))
  BY <1>1, <1>4
<1> HIDE DEF r, t
<1>6. Held(r, z) /\ Held(t, z)
  BY <1>5, Inserting
<1> QED BY <1>1, <1>6 DEF r, t

LEMMA Deleted ==
  ASSUME NEW m, NEW s, Held(m, s), NEW i \in 1..Len(s), NEW z \in Seq(Items), TakenOutAt(s, i, z)
  PROVE  Held(list_delete(m, s[i]), z)
<1> DEFINE a == PlaceIn(s, i - 1)
           b == PlaceIn(s, i + 1)
           n == s[i]
<1>1. /\ Len(s) \in Nat /\ i - 1 \in 0..Len(s) /\ i \in 0..Len(s) /\ i - 1 \in 0..(Len(s) + 1) /\ i + 1 \in 0..(Len(s) + 1)
      /\ (i - 1) + 1 = i /\ n \in Items /\ PlaceIn(s, i) = n /\ n # list /\ n \in Cells /\ Typed(m)
      /\ a = PlaceIn(s, i - 1) /\ b = PlaceIn(s, i + 1) /\ n = s[i]
  BY HeldPlaces DEF Cells, Held
<1>2. a \in Cells /\ b \in Cells /\ m[n].next = b /\ m[n].prev = a
  BY <1>1, HeldPlaces
<1>3. a # n /\ b # n
  BY <1>1, PlacesBeside
<1> HIDE DEF a, b, n
<1>4. Typed(list_delete(m, n)) /\ LinksOut(m, list_delete(m, n), n, a, b)
  BY <1>1, <1>2, <1>3, DeleteLinks
<1> DEFINE r == list_delete(m, n)
<1>5. Typed(r) /\ LinksOut(m, r, s[i], PlaceIn(s, i - 1), PlaceIn(s, i + 1))
  BY <1>1, <1>4
<1> HIDE DEF r
<1>6. Held(r, z)
  BY <1>5, TakingOut
<1> QED BY <1>1, <1>6 DEF r

\* A store of both pointers of a node that is not on the list.
LEMMA SetAside ==
  ASSUME NEW m, NEW s, Held(m, s), NEW n \in Items, n \notin ToSet(s), NEW p \in {n, NULL}
  PROVE  Held(SetPrev(SetNext(m, n, p), n, p), s)
<1> DEFINE r == SetPrev(SetNext(m, n, p), n, p)
<1>1. Typed(r) /\ r[n] = [prev |-> p, next |-> p] /\ \A x \in Cells \ {n} : r[x] = m[x]
  <2>1. n \in Cells /\ p \in Cells \cup {NULL} /\ Typed(m)
    BY DEF Cells, Held
  <2> QED BY <2>1, SetsNode
<1> HIDE DEF r
<1>2. \A k \in 0..(Len(s) + 1) : PlaceIn(s, k) \in Cells \ {n}
  <2> TAKE k \in 0..(Len(s) + 1)
  <2>1. PlaceIn(s, k) \in Cells
    BY HeldPlaces
  <2>2. PlaceIn(s, k) # n
    BY NodeListAssumption, HeldPlaces DEF PlaceIn, RingPlace
  <2> QED BY <2>1, <2>2
<1>3. IsRing(Nx(r), Pv(r), s, list)
  <2> SUFFICES ASSUME NEW k \in 0..Len(s)
               PROVE  Nx(r)[PlaceIn(s, k)] = PlaceIn(s, k + 1) /\ Pv(r)[PlaceIn(s, k + 1)] = PlaceIn(s, k)
    BY DEF IsRing, PlaceIn
  <2>1. k \in 0..(Len(s) + 1) /\ k + 1 \in 0..(Len(s) + 1)
    BY HeldPlaces
  <2>2. PlaceIn(s, k) \in Cells \ {n} /\ PlaceIn(s, k + 1) \in Cells \ {n}
    BY <1>2, <2>1
  <2>3. m[PlaceIn(s, k)].next = PlaceIn(s, k + 1) /\ m[PlaceIn(s, k + 1)].prev = PlaceIn(s, k)
    BY HeldPlaces
  <2> QED BY <1>1, <2>2, <2>3 DEF Nx, Pv
<1>4. \A x \in Items \ ToSet(s) : r[x] \in Alone(x)
  <2> TAKE x \in Items \ ToSet(s)
  <2>1. CASE x = n
    BY <1>1, <2>1 DEF Alone
  <2>2. CASE x # n
    BY <1>1, <2>2 DEF Held, Cells
  <2> QED BY <2>1, <2>2
<1>5. s \in Seq(Items) /\ IsInjective(s)
  BY DEF Held
<1>6. Held(r, s)
  BY <1>1, <1>3, <1>4, <1>5 DEF Held
<1> QED BY <1>6 DEF r

-----------------------------------------------------------------------------
(* The sequences the calls make of the list.                                 *)

LEMMA PutFirst ==
  ASSUME NEW S, NEW s \in Seq(S), NEW n \in S
  PROVE  <<n>> \o s \in Seq(S) /\ InsertedAfter(s, 0, n, <<n>> \o s)
<1>1. Len(s) \in Nat /\ <<n>> \in Seq(S) /\ Len(<<n>>) = 1 /\ <<n>>[1] = n
  BY LenProperties
<1> DEFINE f == <<n>>
<1>f. f = <<n>> /\ f \in Seq(S) /\ Len(f) = 1 /\ f[1] = n
  BY <1>1
<1> HIDE DEF f
<1> DEFINE z == f \o s
<1>2. z \in Seq(S) /\ Len(z) = Len(s) + 1 /\ \A k \in 1..(Len(s) + 1) : z[k] = IF k <= 1 THEN n ELSE s[k - 1]
  BY <1>1, <1>f
<1> HIDE DEF z
<1>3. z[0 + 1] = n
  BY <1>1, <1>2
<1>4. \A k \in (0 + 1)..Len(s) : z[k + 1] = s[k]
  BY <1>1, <1>2
<1>5. z \in Seq(S) /\ InsertedAfter(s, 0, n, z)
  BY <1>1, <1>2, <1>3, <1>4 DEF InsertedAfter
<1> QED BY <1>f, <1>5 DEF z

LEMMA PutLast ==
  ASSUME NEW S, NEW s \in Seq(S), NEW n \in S
  PROVE  Append(s, n) \in Seq(S) /\ InsertedAfter(s, Len(s), n, Append(s, n))
<1> DEFINE z == Append(s, n)
<1>1. Len(s) \in Nat /\ z \in Seq(S) /\ Len(z) = Len(s) + 1 /\ z[Len(s) + 1] = n /\ \A k \in 1..Len(s) : z[k] = s[k]
  BY AppendProperties, LenProperties
<1> HIDE DEF z
<1>2. z \in Seq(S) /\ InsertedAfter(s, Len(s), n, z)
  BY <1>1 DEF InsertedAfter
<1> QED BY <1>2 DEF z

LEMMA PutAt ==
  ASSUME NEW S, NEW s \in Seq(S), NEW n \in S, NEW i \in 0..Len(s)
  PROVE  InsertAt(s, i + 1, n) \in Seq(S) /\ InsertedAfter(s, i, n, InsertAt(s, i + 1, n))
<1> DEFINE a == SubSeq(s, 1, (i + 1) - 1)
           b == SubSeq(s, i + 1, Len(s))
           c == a \o <<n>>
           z == c \o b
<1>1. Len(s) \in Nat /\ i \in Nat /\ i <= Len(s) /\ (i + 1) - 1 = i
  BY LenProperties
<1>2. a \in Seq(S) /\ Len(a) = i /\ \A j \in 1..i : a[j] = s[j]
  BY <1>1
<1>3. b \in Seq(S) /\ Len(b) = Len(s) - i /\ \A j \in 1..(Len(s) - i) : b[j] = s[i + j]
  BY <1>1
<1> HIDE DEF a, b
<1>4. c \in Seq(S) /\ Len(c) = i + 1 /\ c[i + 1] = n /\ \A j \in 1..i : c[j] = s[j]
  BY <1>1, <1>2
<1> HIDE DEF c
<1>5. z \in Seq(S) /\ Len(z) = Len(s) + 1 /\ \A j \in 1..(Len(s) + 1) : z[j] = IF j <= i + 1 THEN c[j] ELSE b[j - (i + 1)]
  BY <1>1, <1>3, <1>4
<1>6. InsertAt(s, i + 1, n) = z
  BY DEF InsertAt, a, b, c
<1> HIDE DEF z
<1>7. z[i + 1] = n /\ \A k \in 1..i : z[k] = s[k]
  BY <1>1, <1>4, <1>5
<1>8. \A k \in (i + 1)..Len(s) : z[k + 1] = s[k]
  <2> TAKE k \in (i + 1)..Len(s)
  <2>1. k + 1 \in 1..(Len(s) + 1) /\ ~(k + 1 <= i + 1) /\ k - i \in 1..(Len(s) - i) /\ i + (k - i) = k /\ (k + 1) - (i + 1) = k - i
    BY <1>1
  <2>2. z[k + 1] = b[k - i]
    BY <1>5, <2>1
  <2> QED BY <1>3, <2>1, <2>2
<1> QED BY <1>5, <1>6, <1>7, <1>8 DEF InsertedAfter

LEMMA TakeFirst ==
  ASSUME NEW S, NEW s \in Seq(S), s # <<>>
  PROVE  Tail(s) \in Seq(S) /\ TakenOutAt(s, 1, Tail(s)) /\ 1 \in 1..Len(s)
<1> DEFINE z == Tail(s)
<1>1. Len(s) \in Nat /\ Len(s) > 0 /\ z \in Seq(S) /\ Len(z) = Len(s) - 1 /\ \A k \in 1..(Len(s) - 1) : z[k] = s[k + 1]
  BY HeadTailProperties, LenProperties, EmptySeq
<1> HIDE DEF z
<1>2. z \in Seq(S) /\ TakenOutAt(s, 1, z)
  BY <1>1 DEF TakenOutAt
<1> QED BY <1>1, <1>2 DEF z

LEMMA TakeLast ==
  ASSUME NEW S, NEW s \in Seq(S), s # <<>>
  PROVE  Front(s) \in Seq(S) /\ TakenOutAt(s, Len(s), Front(s)) /\ Len(s) \in 1..Len(s)
<1> DEFINE i == Len(s)
           z == SubSeq(s, 1, i - 1)
<1>1. i \in Nat /\ 1 <= i /\ i <= Len(s) /\ i = Len(s) /\ Len(s) \in Nat
  BY LenProperties, EmptySeq
<1>2. Front(s) = z
  BY DEF Front
<1> HIDE DEF i
<1>3. z \in Seq(S) /\ Len(z) = i - 1 /\ \A k \in 1..(i - 1) : z[k] = s[k]
  BY <1>1
<1> HIDE DEF z
<1> QED BY <1>1, <1>2, <1>3 DEF TakenOutAt

LEMMA TakeAt ==
  ASSUME NEW S, NEW s \in Seq(S), NEW i \in 1..Len(s)
  PROVE  RemoveAt(s, i) \in Seq(S) /\ TakenOutAt(s, i, RemoveAt(s, i))
<1> DEFINE z == RemoveAt(s, i)
<1>1. Len(s) \in Nat /\ z \in Seq(S) /\ Len(z) = Len(s) - 1 /\ \A j \in 1..(Len(s) - 1) : z[j] = IF j < i THEN s[j] ELSE s[j + 1]
  BY RemoveAtProperties, LenProperties
<1> HIDE DEF z
<1>2. z \in Seq(S) /\ TakenOutAt(s, i, z)
  BY <1>1 DEF TakenOutAt
<1> QED BY <1>2 DEF z

-----------------------------------------------------------------------------
(* The loops: v is the node a loop over the items st is at when it has seen   *)
(* sn, and s is what is on the list.                                         *)

Walked(s, st, sn, v) ==
  LET c == Len(sn)
      r == Len(st) - c
      b == Len(s) - r
  IN  /\ c <= Len(st) /\ r <= Len(s) /\ v = PlaceIn(s, b + 1)
      /\ \A k \in 1..c : sn[k] = st[k]
      /\ \A k \in 1..r : st[c + k] = s[b + k]

LEMMA WalkStarts ==
  ASSUME NEW s \in Seq(Items)
  PROVE  Walked(s, s, <<>>, PlaceIn(s, 1))
<1>1. Len(s) \in Nat /\ Len(<<>>) = 0
  BY LenProperties
<1> QED BY <1>1 DEF Walked

\* The node a loop is at is an item, until it is the head; the next round may find it deleted.
LEMMA WalksOn ==
  ASSUME NEW s \in Seq(Items), NEW st \in Seq(Items), NEW sn \in Seq(Items), NEW v, v # list, Walked(s, st, sn, v)
  PROVE  \E i \in 1..Len(s) :
           /\ v = s[i] /\ Append(sn, v) \in Seq(Items)
           /\ Walked(s, st, Append(sn, v), PlaceIn(s, i + 1))
           /\ \A z \in Seq(Items) : TakenOutAt(s, i, z) => Walked(z, st, Append(sn, v), PlaceIn(s, i + 1))
<1> DEFINE c == Len(sn)
           r == Len(st) - c
           b == Len(s) - r
           i == b + 1
           t == Append(sn, v)
<1>1. /\ c \in Nat /\ Len(st) \in Nat /\ Len(s) \in Nat /\ r \in Nat /\ b \in Nat /\ r = Len(st) - c /\ b = Len(s) - r
      /\ c <= Len(st) /\ r <= Len(s) /\ v = PlaceIn(s, i) /\ DOMAIN s = 1..Len(s) /\ i = b + 1 /\ c = Len(sn)
      /\ \A k \in 1..c : sn[k] = st[k]
      /\ \A k \in 1..r : st[c + k] = s[b + k]
  BY LenProperties DEF Walked
<1>2. i \in 1..Len(s) /\ v = s[i]
  <2>1. i \in DOMAIN s
    BY <1>1 DEF PlaceIn, RingPlace
  <2> QED BY <1>1, <2>1 DEF PlaceIn, RingPlace
<1>3. r >= 1 /\ 1 \in 1..r /\ st[c + 1] = v
  <2>1. r >= 1 /\ 1 \in 1..r
    BY <1>1, <1>2
  <2>2. st[c + 1] = s[b + 1]
    BY <1>1, <2>1
  <2> QED BY <1>1, <1>2, <2>1, <2>2
<1>4. t \in Seq(Items) /\ Len(t) = c + 1 /\ t[c + 1] = v /\ \A k \in 1..c : t[k] = sn[k]
  <2>1. v \in Items
    BY <1>2, ElementOfSeq
  <2> QED BY <2>1, AppendProperties
<1> HIDE DEF c, r, b, i, t
<1>5. \A k \in 1..(c + 1) : t[k] = st[k]
  <2> TAKE k \in 1..(c + 1)
  <2>1. CASE k = c + 1
    BY <2>1, <1>3, <1>4
  <2>2. CASE k # c + 1
    <3>1. k \in 1..c
      BY <2>2, <1>1
    <3> QED BY <3>1, <1>1, <1>4
  <2> QED BY <2>1, <2>2
<1>6. /\ Len(t) <= Len(st) /\ Len(st) - Len(t) = r - 1 /\ r - 1 <= Len(s)
      /\ Len(s) - (r - 1) = b + 1 /\ (b + 1) + 1 = i + 1
  BY <1>1, <1>3, <1>4
<1>7. \A k \in 1..(r - 1) : st[(c + 1) + k] = s[(b + 1) + k]
  <2> TAKE k \in 1..(r - 1)
  <2>1. k + 1 \in 1..r /\ c + (k + 1) = (c + 1) + k /\ b + (k + 1) = (b + 1) + k
    BY <1>1, <1>3
  <2>2. st[c + (k + 1)] = s[b + (k + 1)]
    BY <1>1, <2>1
  <2> QED BY <2>1, <2>2
<1>8. Walked(s, st, t, PlaceIn(s, i + 1))
  <2> DEFINE e == b + 1
  <2>1. /\ Len(t) <= Len(st) /\ Len(st) - Len(t) <= Len(s)
        /\ Len(s) - (Len(st) - Len(t)) = e /\ PlaceIn(s, i + 1) = PlaceIn(s, e + 1)
        /\ \A k \in 1..Len(t) : t[k] = st[k]
        /\ \A k \in 1..(Len(st) - Len(t)) : st[Len(t) + k] = s[e + k]
    BY <1>4, <1>5, <1>6, <1>7
  <2> HIDE DEF e
  <2> QED BY <2>1 DEF Walked
<1>9. ASSUME NEW z \in Seq(Items), TakenOutAt(s, i, z)
      PROVE  Walked(z, st, t, PlaceIn(s, i + 1))
  <2>1. /\ Len(z) = Len(s) - 1 /\ DOMAIN z = 1..(Len(s) - 1)
        /\ \A k \in i..(Len(s) - 1) : z[k] = s[k + 1]
    BY <1>9, LenProperties DEF TakenOutAt
  <2>2. r - 1 <= Len(z) /\ Len(z) - (r - 1) = b
    BY <1>1, <1>2, <1>3, <2>1
  <2>3. PlaceIn(s, i + 1) = PlaceIn(z, b + 1)
    <3>1. CASE i <= Len(s) - 1
      <4>1. i \in i..(Len(s) - 1) /\ i + 1 \in DOMAIN s /\ b + 1 \in DOMAIN z /\ b + 1 = i
        BY <1>1, <1>2, <2>1, <3>1
      <4> QED BY <2>1, <4>1 DEF PlaceIn, RingPlace
    <3>2. CASE ~(i <= Len(s) - 1)
      <4>1. i + 1 \notin DOMAIN s /\ b + 1 \notin DOMAIN z
        BY <1>1, <1>2, <2>1, <3>2
      <4> QED BY <4>1 DEF PlaceIn, RingPlace
    <3> QED BY <3>1, <3>2
  <2>4. \A k \in 1..(r - 1) : st[(c + 1) + k] = z[b + k]
    <3> TAKE k \in 1..(r - 1)
    <3>1. b + k \in i..(Len(s) - 1) /\ (b + k) + 1 = (b + 1) + k
      BY <1>1, <1>3
    <3> QED BY <1>7, <2>1, <3>1
  <2>5. /\ Len(t) <= Len(st) /\ Len(st) - Len(t) <= Len(z)
        /\ Len(z) - (Len(st) - Len(t)) = b
        /\ \A k \in 1..Len(t) : t[k] = st[k]
        /\ \A k \in 1..(Len(st) - Len(t)) : st[Len(t) + k] = z[b + k]
    BY <1>4, <1>5, <1>6, <2>2, <2>4
  <2> QED BY <2>3, <2>5 DEF Walked
<1>10. v = s[i] /\ t \in Seq(Items)
  BY <1>2, <1>4
<1> QED BY <1>2, <1>8, <1>9, <1>10 DEF t

\* A loop at its end has seen every item.
LEMMA WalkEnds ==
  ASSUME NEW s \in Seq(Items), NEW st \in Seq(Items), NEW sn \in Seq(Items), Walked(s, st, sn, list)
  PROVE  sn = st
<1> DEFINE c == Len(sn)
           r == Len(st) - c
           b == Len(s) - r
<1>1. /\ c \in Nat /\ Len(st) \in Nat /\ Len(s) \in Nat /\ r \in Nat /\ b \in Nat
      /\ c <= Len(st) /\ r <= Len(s) /\ list = PlaceIn(s, b + 1) /\ DOMAIN s = 1..Len(s) /\ c = Len(sn) /\ r = Len(st) - c
      /\ \A k \in 1..c : sn[k] = st[k]
  BY LenProperties DEF Walked
<1>2. b + 1 \notin 1..Len(s)
  <2> SUFFICES ASSUME b + 1 \in 1..Len(s) PROVE FALSE
    OBVIOUS
  <2>1. list = s[b + 1] /\ s[b + 1] \in Items
    BY <1>1, ElementOfSeq DEF PlaceIn, RingPlace
  <2> QED BY <2>1, NodeListAssumption
<1>3. r = 0
  BY <1>1, <1>2
<1>4. Len(sn) = Len(st) /\ \A k \in 1..Len(sn) : sn[k] = st[k]
  BY <1>1, <1>3
<1> QED BY <1>4, SeqEqual

-----------------------------------------------------------------------------
(* The invariant, and the steps.                                             *)

HeldNow == Held(node, linked)
WalkedNow ==
  IF walk = "none" THEN visit = list
  ELSE Walked(linked, start, seen, visit) /\ (walk = "safe" => temp_node = node[visit].next)

LEMMA InvParts ==
  NodeListInv <=> NodeTypeOK /\ HeldNow /\ WalkedNow
<1>1. \A k : Spot(k) = PlaceIn(linked, k)
  BY DEF Spot, PlaceIn, RingPlace
<1>2. \A n : OffList(n) <=> n \notin ToSet(linked)
  BY DEF OffList, ToSet
<1>3. ASSUME NodeTypeOK
      PROVE  Ringed <=> IsRing(Nx(node), Pv(node), linked, list)
  <2>1. ASSUME NEW k \in 0..Len(linked)
        PROVE  Nx(node)[PlaceIn(linked, k)] = node[PlaceIn(linked, k)].next /\ Pv(node)[PlaceIn(linked, k + 1)] = node[PlaceIn(linked, k + 1)].prev
    <3>1. linked \in Seq(Items) /\ list \notin Items
      BY <1>3, NodeListAssumption DEF NodeTypeOK
    <3>2. /\ \A j \in 0..(Len(linked) + 1) : RingPlace(linked, list, j) \in Items \cup {list}
          /\ Len(linked) \in Nat
      BY <3>1, RingPlaces
    <3>3. k \in 0..(Len(linked) + 1) /\ k + 1 \in 0..(Len(linked) + 1)
      BY <3>2
    <3>4. PlaceIn(linked, k) \in Cells /\ PlaceIn(linked, k + 1) \in Cells
      BY <3>2, <3>3 DEF PlaceIn, Cells
    <3> QED BY <3>4 DEF Nx, Pv
  <2>2. Ringed <=> \A k \in 0..Len(linked) : node[PlaceIn(linked, k)].next = PlaceIn(linked, k + 1) /\ node[PlaceIn(linked, k + 1)].prev = PlaceIn(linked, k)
    BY <1>1 DEF Ringed
  <2>3. IsRing(Nx(node), Pv(node), linked, list) <=>
          \A k \in 0..Len(linked) : /\ Nx(node)[PlaceIn(linked, k)] = PlaceIn(linked, k + 1)
                                    /\ Pv(node)[PlaceIn(linked, k + 1)] = PlaceIn(linked, k)
    BY DEF IsRing, PlaceIn
  <2> QED BY <2>1, <2>2, <2>3
<1>4. Aside <=> \A n \in Items \ ToSet(linked) : node[n] \in Alone(n)
  BY <1>2 DEF Aside, Alone
<1>5. WalkSound <=> WalkedNow
  BY <1>1 DEF WalkSound, WalkedNow, Walked
<1> QED BY <1>3, <1>4, <1>5 DEF NodeListInv, HeldNow, Held, NodeTypeOK, Typed

\* What a step does to the list keeps it a list; nothing else happens between two calls.
StepsOutside == walk = "none" /\ UNCHANGED walkVars

LEMMA InitializeStep ==
  ASSUME NodeTypeOK, HeldNow, NEW n \in Items, InitializeItem(n)
  PROVE  HeldNow' /\ StepsOutside
<1>1. n \notin ToSet(linked)
  BY DEF InitializeItem, OffList, ToSet
<1>2. Held(list_initialize(node, n), linked) /\ Held(list_clear_node(node, n), linked)
  BY <1>1, SetAside DEF HeldNow, list_initialize, list_clear_node
<1> QED BY <1>2 DEF InitializeItem, HeldNow, StepsOutside

LEMMA AddStep ==
  ASSUME NodeTypeOK, HeldNow, NEW n \in Items, AddHead(n) \/ AddTail(n)
  PROVE  HeldNow' /\ StepsOutside
<1>1. n \notin ToSet(linked) /\ linked \in Seq(Items) /\ Held(node, linked)
  BY DEF AddHead, AddTail, OffList, ToSet, HeldNow, NodeTypeOK
<1>2. /\ Len(linked) \in Nat /\ 0 \in 0..Len(linked) /\ Len(linked) \in 0..Len(linked)
      /\ PlaceIn(linked, 0) = list /\ PlaceIn(linked, Len(linked) + 1) = list
  BY <1>1, HeldPlaces
<1>3. CASE AddHead(n)
  <2>1. Held(list_add_head(node, PlaceIn(linked, 0), n), <<n>> \o linked)
    BY <1>1, <1>2, PutFirst, Added
  <2> QED BY <1>2, <1>3, <2>1 DEF AddHead, HeldNow, StepsOutside
<1>4. CASE AddTail(n)
  <2>1. Held(list_add_tail(node, PlaceIn(linked, Len(linked) + 1), n), Append(linked, n))
    BY <1>1, <1>2, PutLast, Added
  <2> QED BY <1>2, <1>4, <2>1 DEF AddTail, HeldNow, StepsOutside
<1> QED BY <1>3, <1>4

LEMMA AddBesideStep ==
  ASSUME NodeTypeOK, HeldNow, NEW n \in Items, NEW k \in DOMAIN linked, AddBeside(n, k)
  PROVE  HeldNow' /\ StepsOutside
<1>1. n \notin ToSet(linked) /\ linked \in Seq(Items) /\ Held(node, linked)
  BY DEF AddBeside, OffList, ToSet, HeldNow, NodeTypeOK
<1>2. /\ k \in 0..Len(linked) /\ k - 1 \in 0..Len(linked) /\ (k - 1) + 1 = k /\ PlaceIn(linked, k) = linked[k]
  BY <1>1, HeldPlaces
<1>3. Held(list_add_head(node, linked[k], n), InsertAt(linked, k + 1, n))
  BY <1>1, <1>2, PutAt, Added
<1>4. Held(list_add_tail(node, linked[k], n), InsertAt(linked, k, n))
  <2>1. Held(list_add_tail(node, PlaceIn(linked, (k - 1) + 1), n), InsertAt(linked, (k - 1) + 1, n))
    BY <1>1, <1>2, PutAt, Added
  <2> QED BY <1>2, <2>1
<1> QED BY <1>3, <1>4 DEF AddBeside, HeldNow, StepsOutside

LEMMA DeleteStep ==
  ASSUME NodeTypeOK, HeldNow, NEW k \in DOMAIN linked,
         node' = list_delete(node, linked[k]), linked' = RemoveAt(linked, k)
  PROVE  HeldNow'
<1>1. linked \in Seq(Items) /\ Held(node, linked)
  BY DEF HeldNow, NodeTypeOK
<1>2. k \in 1..Len(linked)
  BY <1>1, HeldPlaces
<1>3. Held(list_delete(node, linked[k]), RemoveAt(linked, k))
  BY <1>1, <1>2, TakeAt, Deleted
<1> QED BY <1>3 DEF HeldNow

LEMMA RemoveStep ==
  ASSUME NodeTypeOK, HeldNow, RemoveHead \/ RemoveTail
  PROVE  HeldNow' /\ StepsOutside
<1>1. linked \in Seq(Items) /\ Held(node, linked)
  BY DEF HeldNow, NodeTypeOK
<1>2. /\ Len(linked) \in Nat /\ 0 \in 0..Len(linked) /\ Len(linked) \in 0..Len(linked)
      /\ PlaceIn(linked, 0) = list /\ PlaceIn(linked, Len(linked) + 1) = list
      /\ node[list].next = PlaceIn(linked, 1) /\ node[list].prev = PlaceIn(linked, Len(linked))
  <2>1. /\ Len(linked) \in Nat /\ 0 \in 0..Len(linked) /\ Len(linked) \in 0..Len(linked) /\ 0 + 1 = 1
        /\ PlaceIn(linked, 0) = list /\ PlaceIn(linked, Len(linked) + 1) = list
    BY <1>1, HeldPlaces
  <2>2. node[PlaceIn(linked, 0)].next = PlaceIn(linked, 0 + 1) /\ node[PlaceIn(linked, Len(linked) + 1)].prev = PlaceIn(linked, Len(linked))
    BY <1>1, <2>1, HeldPlaces
  <2> QED BY <2>1, <2>2
<1>3. linked # <<>>
  <2> SUFFICES ASSUME linked = <<>> PROVE FALSE
    OBVIOUS
  <2>1. Len(linked) = 0
    OBVIOUS
  <2>2. node[list].next = list /\ node[list].prev = list
    BY <1>2, <2>1
  <2> QED BY <2>2 DEF RemoveHead, RemoveTail
<1>4. /\ 1 \in 1..Len(linked) /\ Len(linked) \in 1..Len(linked)
      /\ PlaceIn(linked, 1) = linked[1] /\ PlaceIn(linked, Len(linked)) = linked[Len(linked)]
  BY <1>1, <1>3, TakeFirst, TakeLast, HeldPlaces
<1>5. Held(list_delete(node, linked[1]), Tail(linked))
  BY <1>1, <1>3, <1>4, TakeFirst, Deleted
<1>6. Held(list_delete(node, linked[Len(linked)]), Front(linked))
  BY <1>1, <1>3, <1>4, TakeLast, Deleted
<1> QED BY <1>2, <1>4, <1>5, <1>6 DEF RemoveHead, RemoveTail, HeldNow, StepsOutside

\* The loop's body has deleted its node, or nothing.
LEMMA BodyStep ==
  ASSUME NodeTypeOK, HeldNow, visit # list, DeletesVisited \/ UNCHANGED <<node, linked>>
  PROVE  /\ HeldNow'
         /\ \A i \in 1..Len(linked) : visit = linked[i] => linked' = linked \/ TakenOutAt(linked, i, linked')
<1>1. linked \in Seq(Items) /\ Held(node, linked) /\ IsInjective(linked) /\ DOMAIN linked = 1..Len(linked)
  BY LenProperties DEF HeldNow, NodeTypeOK, Held
<1>2. CASE DeletesVisited
  <2>1. PICK k \in DOMAIN linked : linked[k] = visit /\ linked' = RemoveAt(linked, k) /\ node' = list_delete(node, linked[k])
    BY <1>2 DEF DeletesVisited
  <2>2. HeldNow'
    BY <2>1, DeleteStep
  <2>3. TakenOutAt(linked, k, linked')
    BY <1>1, <2>1, TakeAt
  <2>4. \A i \in 1..Len(linked) : visit = linked[i] => i = k
    BY <1>1, <2>1 DEF IsInjective
  <2> QED BY <2>2, <2>3, <2>4
<1>3. CASE UNCHANGED <<node, linked>>
  BY <1>3 DEF HeldNow
<1> QED BY <1>2, <1>3

LEMMA LinkNext ==
  ASSUME NEW m, NEW s, Held(m, s), NEW k \in 0..(Len(s) + 1)
  PROVE  m[PlaceIn(s, k)].next \in Cells
<1>1. Len(s) \in Nat /\ PlaceIn(s, 0) = list /\ PlaceIn(s, Len(s) + 1) = list
  BY HeldPlaces
<1>2. CASE k \in 0..Len(s)
  <2>1. m[PlaceIn(s, k)].next = PlaceIn(s, k + 1) /\ k + 1 \in 0..(Len(s) + 1)
    BY <1>1, <1>2, HeldPlaces
  <2> QED BY <2>1, HeldPlaces
<1>3. CASE k = Len(s) + 1
  <2>1. 0 \in 0..Len(s) /\ 0 + 1 \in 0..(Len(s) + 1) /\ PlaceIn(s, k) = PlaceIn(s, 0)
    BY <1>1, <1>3
  <2>2. m[PlaceIn(s, 0)].next = PlaceIn(s, 0 + 1)
    BY <2>1, HeldPlaces
  <2> QED BY <2>1, <2>2, HeldPlaces
<1> QED BY <1>1, <1>2, <1>3

LEMMA WalkedNext ==
  ASSUME NEW m, NEW s, Held(m, s), NEW st \in Seq(Items), NEW sn \in Seq(Items), NEW v, Walked(s, st, sn, v)
  PROVE  m[v].next \in Cells
<1> DEFINE b == Len(s) - (Len(st) - Len(sn))
<1>1. Len(s) \in Nat /\ Len(st) \in Nat /\ Len(sn) \in Nat /\ v = PlaceIn(s, b + 1) /\ b + 1 \in 0..(Len(s) + 1)
  <2>1. Len(s) \in Nat /\ Len(st) \in Nat /\ Len(sn) \in Nat
    BY LenProperties DEF Held
  <2> QED BY <2>1 DEF Walked
<1> HIDE DEF b
<1> QED BY <1>1, LinkNext

LEMMA StartWalkStep ==
  ASSUME NodeTypeOK, HeldNow, NEW kind \in {"every", "safe"}, StartWalk(kind)
  PROVE  NodeTypeOK' /\ HeldNow' /\ WalkedNow'
<1>1. /\ walk' = kind /\ visit' = node[list].next /\ start' = linked /\ seen' = <<>> /\ node' = node /\ linked' = linked
      /\ temp_node' = IF kind = "safe" THEN node[visit'].next ELSE list
      /\ linked \in Seq(Items) /\ Held(node, linked)
  BY DEF StartWalk, NodeTypeOK, HeldNow
<1>2. visit' = PlaceIn(linked, 1) /\ 1 \in 0..(Len(linked) + 1)
  <2>1. 0 \in 0..Len(linked) /\ 0 + 1 = 1 /\ PlaceIn(linked, 0) = list /\ 1 \in 0..(Len(linked) + 1)
    BY <1>1, HeldPlaces
  <2>2. node[PlaceIn(linked, 0)].next = PlaceIn(linked, 0 + 1)
    BY <1>1, <2>1, HeldPlaces
  <2> QED BY <1>1, <2>1, <2>2
<1>3. visit' \in Cells /\ temp_node' \in Cells
  <2>1. PlaceIn(linked, 1) \in Cells /\ node[PlaceIn(linked, 1)].next \in Cells
    BY <1>1, <1>2, HeldPlaces, LinkNext
  <2> QED BY <1>1, <1>2, <2>1 DEF Cells
<1>4. Walked(linked, linked, <<>>, PlaceIn(linked, 1))
  BY <1>1, WalkStarts
<1>5. Walked(linked, start, seen, visit)'
  BY <1>1, <1>2, <1>4
<1> QED BY <1>1, <1>3, <1>5 DEF NodeTypeOK, HeldNow, WalkedNow

\* The body of a loop: the node is an item of the list, and the next one is behind it.
LEMMA RoundStep ==
  ASSUME NodeTypeOK, HeldNow, WalkedNow, walk # "none", visit # list
  PROVE  \E i \in 1..Len(linked) :
           /\ visit = linked[i] /\ visit \in Items /\ Append(seen, visit) \in Seq(Items)
           /\ node[visit].next = PlaceIn(linked, i + 1) /\ PlaceIn(linked, i + 1) \in Cells
           /\ Walked(linked, start, Append(seen, visit), PlaceIn(linked, i + 1))
           /\ \A z \in Seq(Items) :
                TakenOutAt(linked, i, z) => Walked(z, start, Append(seen, visit), PlaceIn(linked, i + 1))
<1>1. linked \in Seq(Items) /\ start \in Seq(Items) /\ seen \in Seq(Items) /\ Held(node, linked) /\ Walked(linked, start, seen, visit)
  BY DEF NodeTypeOK, HeldNow, WalkedNow
<1>2. PICK i \in 1..Len(linked) :
           /\ visit = linked[i] /\ Append(seen, visit) \in Seq(Items)
           /\ Walked(linked, start, Append(seen, visit), PlaceIn(linked, i + 1))
           /\ \A z \in Seq(Items) :
                TakenOutAt(linked, i, z) => Walked(z, start, Append(seen, visit), PlaceIn(linked, i + 1))
  BY <1>1, WalksOn
<1>3. /\ i \in 0..Len(linked) /\ i + 1 \in 0..(Len(linked) + 1) /\ PlaceIn(linked, i) = linked[i] /\ linked[i] \in Items
  BY <1>1, HeldPlaces
<1>4. node[PlaceIn(linked, i)].next = PlaceIn(linked, i + 1) /\ PlaceIn(linked, i + 1) \in Cells
  BY <1>1, <1>3, HeldPlaces
<1> QED BY <1>2, <1>3, <1>4

LEMMA EveryStep ==
  ASSUME NodeTypeOK, HeldNow, WalkedNow, Every
  PROVE  NodeTypeOK' /\ HeldNow' /\ WalkedNow'
<1>1. /\ walk = "every" /\ visit # list /\ seen' = Append(seen, visit) /\ visit' = node[visit].next
      /\ UNCHANGED <<node, linked, walk, temp_node, start>>
  BY DEF Every
<1>2. PICK i \in 1..Len(linked) :
           /\ Append(seen, visit) \in Seq(Items)
           /\ node[visit].next = PlaceIn(linked, i + 1) /\ PlaceIn(linked, i + 1) \in Cells
           /\ Walked(linked, start, Append(seen, visit), PlaceIn(linked, i + 1))
  BY <1>1, RoundStep
<1>3. Walked(linked, start, seen, visit)'
  BY <1>1, <1>2
<1> QED BY <1>1, <1>2, <1>3 DEF NodeTypeOK, HeldNow, WalkedNow

LEMMA EverySafeStep ==
  ASSUME NodeTypeOK, HeldNow, WalkedNow, EverySafe
  PROVE  NodeTypeOK' /\ HeldNow' /\ WalkedNow'
<1>1. /\ walk = "safe" /\ visit # list /\ seen' = Append(seen, visit)
      /\ (DeletesVisited \/ UNCHANGED <<node, linked>>)
      /\ visit' = temp_node /\ temp_node' = node'[temp_node].next /\ UNCHANGED <<walk, start>>
  BY DEF EverySafe
<1>2. PICK i \in 1..Len(linked) :
           /\ visit = linked[i] /\ Append(seen, visit) \in Seq(Items)
           /\ node[visit].next = PlaceIn(linked, i + 1) /\ PlaceIn(linked, i + 1) \in Cells
           /\ Walked(linked, start, Append(seen, visit), PlaceIn(linked, i + 1))
           /\ \A z \in Seq(Items) :
                TakenOutAt(linked, i, z) => Walked(z, start, Append(seen, visit), PlaceIn(linked, i + 1))
  BY <1>1, RoundStep
<1>3. temp_node = PlaceIn(linked, i + 1)
  BY <1>1, <1>2 DEF WalkedNow
<1>4. HeldNow' /\ (linked' = linked \/ TakenOutAt(linked, i, linked'))
  BY <1>1, <1>2, BodyStep
<1>5. linked' \in Seq(Items) /\ node' \in [Cells -> ListNode] /\ Held(node', linked')
  BY <1>4 DEF HeldNow, Held, Typed
<1>6. Walked(linked, start, seen, visit)'
  BY <1>1, <1>2, <1>3, <1>4, <1>5
<1>7. visit' \in Cells /\ temp_node' = node'[visit'].next
  BY <1>1, <1>2, <1>3
<1>8. temp_node' \in Cells
  <2>1. start' \in Seq(Items) /\ seen' \in Seq(Items)
    BY <1>1, <1>2 DEF NodeTypeOK
  <2>2. Walked(linked', start', seen', visit')
    BY <1>6
  <2> QED BY <1>5, <1>7, <2>1, <2>2, WalkedNext
<1> QED BY <1>1, <1>2, <1>4, <1>5, <1>6, <1>7, <1>8 DEF NodeTypeOK, WalkedNow

LEMMA LeaveStep ==
  ASSUME NodeTypeOK, HeldNow, WalkedNow, Break \/ EndWalk
  PROVE  NodeTypeOK' /\ HeldNow' /\ WalkedNow'
<1>1. walk' = "none" /\ visit' = list /\ temp_node' = list /\ start' = <<>> /\ seen' = <<>>
  BY DEF Break, EndWalk
<1>2. HeldNow'
  <2>1. CASE Break
    BY <2>1, BodyStep DEF Break
  <2>2. CASE EndWalk
    BY <2>2 DEF EndWalk, HeldNow
  <2> QED BY <2>1, <2>2
<1>3. linked' \in Seq(Items) /\ node' \in [Cells -> ListNode]
  BY <1>2 DEF HeldNow, Held, Typed
<1> QED BY <1>1, <1>2, <1>3 DEF NodeTypeOK, WalkedNow, Cells

LEMMA NodeStart ==
  ASSUME NodeInit
  PROVE  NodeListInv
<1> DEFINE m == [n \in Cells |-> [prev |-> NULL, next |-> NULL]]
<1>1. Typed(m) /\ list \in Cells
  BY DEF Typed, ListNode, Cells
<1>2. \A n \in Cells : m[n] = [prev |-> NULL, next |-> NULL]
  OBVIOUS
<1> HIDE DEF m
<1>3. Typed(node) /\ node[list] = [prev |-> list, next |-> list] /\ \A x \in Cells \ {list} : node[x] = m[x]
  <2>1. node = SetPrev(SetNext(m, list, list), list, list)
    BY DEF NodeInit, list_initialize, m
  <2> QED BY <1>1, <2>1, SetsNode
<1>4. linked = <<>> /\ linked \in Seq(Items) /\ Len(linked) = 0 /\ DOMAIN linked = {} /\ ToSet(linked) = {}
  BY DEF NodeInit, ToSet
<1>5. IsRing(Nx(node), Pv(node), linked, list)
  <2>1. \A k : RingPlace(linked, list, k) = list
    BY <1>4 DEF RingPlace
  <2>2. Nx(node)[list] = list /\ Pv(node)[list] = list
    BY <1>1, <1>3 DEF Nx, Pv
  <2> QED BY <2>1, <2>2 DEF IsRing
<1>6. \A n \in Items \ ToSet(linked) : node[n] \in Alone(n)
  BY <1>2, <1>3, NodeListAssumption DEF Alone, Cells
<1>7. HeldNow
  BY <1>3, <1>4, <1>5, <1>6 DEF HeldNow, Held, IsInjective
<1>8. NodeTypeOK /\ WalkedNow
  BY <1>1, <1>3, <1>4 DEF NodeInit, NodeTypeOK, WalkedNow, Typed
<1> QED BY <1>7, <1>8, InvParts

LEMMA NodeStep ==
  ASSUME NodeListInv, [NodeNext]_nodeVars
  PROVE  NodeListInv'
<1>1. NodeTypeOK /\ HeldNow /\ WalkedNow
  BY InvParts
<1>2. ASSUME StepsOutside, HeldNow' PROVE NodeTypeOK' /\ HeldNow' /\ WalkedNow'
  <2>1. linked' \in Seq(Items) /\ node' \in [Cells -> ListNode]
    BY <1>2 DEF HeldNow, Held, Typed
  <2> QED BY <1>1, <1>2, <2>1 DEF StepsOutside, walkVars, NodeTypeOK, WalkedNow
<1>3. NodeTypeOK' /\ HeldNow' /\ WalkedNow'
  <2>1. ASSUME NEW n \in Items, InitializeItem(n) \/ AddHead(n) \/ AddTail(n) PROVE NodeTypeOK' /\ HeldNow' /\ WalkedNow'
    BY <1>1, <1>2, <2>1, InitializeStep, AddStep
  <2>2. ASSUME NEW n \in Items, NEW k \in DOMAIN linked, AddBeside(n, k) PROVE NodeTypeOK' /\ HeldNow' /\ WalkedNow'
    BY <1>1, <1>2, <2>2, AddBesideStep
  <2>3. ASSUME NEW k \in DOMAIN linked, Delete(k) PROVE NodeTypeOK' /\ HeldNow' /\ WalkedNow'
    <3>1. HeldNow'
      BY <1>1, <2>3, DeleteStep DEF Delete
    <3> QED BY <1>2, <2>3, <3>1 DEF Delete, StepsOutside
  <2>4. CASE RemoveHead \/ RemoveTail
    BY <1>1, <1>2, <2>4, RemoveStep
  <2>5. ASSUME NEW kind \in {"every", "safe"}, StartWalk(kind) PROVE NodeTypeOK' /\ HeldNow' /\ WalkedNow'
    BY <1>1, <2>5, StartWalkStep
  <2>6. CASE Every \/ EverySafe \/ Break \/ EndWalk
    BY <1>1, <2>6, EveryStep, EverySafeStep, LeaveStep
  <2>7. CASE UNCHANGED nodeVars
    BY <1>1, <2>7 DEF nodeVars, walkVars, NodeTypeOK, HeldNow, WalkedNow
  <2> QED BY <2>1, <2>2, <2>3, <2>4, <2>5, <2>6, <2>7 DEF NodeNext
<1> QED BY <1>3, InvParts, PTL

LEMMA ReadsFollow ==
  ASSUME NodeListInv
  PROVE  ReadsFollowTheList
<1>1. NodeTypeOK /\ HeldNow /\ WalkedNow
  BY InvParts
<1>2. linked \in Seq(Items) /\ Held(node, linked) /\ list \notin Items /\ NULL \notin Items \cup {list}
  BY <1>1, NodeListAssumption DEF NodeTypeOK, HeldNow
<1> DEFINE L == Len(linked)
<1>3. /\ L \in Nat /\ DOMAIN linked = 1..L /\ L = Len(linked)
      /\ PlaceIn(linked, 0) = list /\ PlaceIn(linked, L + 1) = list
      /\ \A k \in 1..L : PlaceIn(linked, k) = linked[k] /\ linked[k] \in Items /\ linked[k] # list /\ linked[k] # NULL
  BY <1>2, HeldPlaces
<1>4. \A k \in 0..L : node[PlaceIn(linked, k)].next = PlaceIn(linked, k + 1) /\ node[PlaceIn(linked, k + 1)].prev = PlaceIn(linked, k)
  BY <1>2, HeldPlaces
<1>5. /\ node[list].next = (IF L = 0 THEN list ELSE linked[1])
      /\ node[list].prev = (IF L = 0 THEN list ELSE linked[L])
  <2>1. 0 \in 0..L /\ L \in 0..L /\ 0 + 1 = 1
    BY <1>3
  <2>2. node[list].next = PlaceIn(linked, 1) /\ node[list].prev = PlaceIn(linked, L)
    BY <1>3, <1>4, <2>1
  <2>3. CASE L = 0
    BY <1>3, <2>2, <2>3
  <2>4. CASE L # 0
    <3>1. 1 \in 1..L /\ L \in 1..L
      BY <1>3, <2>4
    <3> QED BY <1>3, <2>2, <2>4, <3>1
  <2> QED BY <2>3, <2>4
<1>6. ASSUME NEW k \in 1..L
      PROVE  /\ node[linked[k]].next = (IF k = L THEN list ELSE linked[k + 1])
             /\ node[linked[k]].prev = (IF k = 1 THEN list ELSE linked[k - 1])
             /\ k # L => k + 1 \in 1..L
             /\ k # 1 => k - 1 \in 1..L
             /\ L # 0 /\ L \in 1..L /\ 1 \in 1..L
  <2>0. k \in 1..L /\ L \in Nat
    BY <1>3
  <2>1. k \in 0..L /\ k - 1 \in 0..L /\ (k - 1) + 1 = k /\ L # 0 /\ L \in 1..L /\ 1 \in 1..L
    BY <1>3
  <2>2. node[linked[k]].next = PlaceIn(linked, k + 1) /\ node[linked[k]].prev = PlaceIn(linked, k - 1)
    <3>1. node[PlaceIn(linked, k)].next = PlaceIn(linked, k + 1) /\ node[PlaceIn(linked, (k - 1) + 1)].prev = PlaceIn(linked, k - 1)
      BY <1>4, <2>1
    <3> QED BY <1>3, <2>1, <3>1
  <2>3. k # L => k + 1 \in 1..L /\ PlaceIn(linked, k + 1) = linked[k + 1]
    <3>1. k # L => k + 1 \in 1..L
      BY ONLY <2>0
    <3> QED BY <1>3, <3>1
  <2>4. k # 1 => k - 1 \in 1..L /\ PlaceIn(linked, k - 1) = linked[k - 1]
    <3>1. k # 1 => k - 1 \in 1..L
      BY ONLY <2>0
    <3> QED BY <1>3, <3>1
  <2>5. k = 1 => PlaceIn(linked, k - 1) = list
    BY <1>3
  <2> QED BY <1>3, <2>1, <2>2, <2>3, <2>4, <2>5
<1>7. linked = <<>> <=> L = 0
  BY <1>2, EmptySeq
<1> HIDE DEF L
<1>8. /\ list_is_empty(node) <=> linked = <<>>
      /\ list_peek_head(node) = (IF L = 0 THEN NULL ELSE linked[1])
      /\ list_peek_tail(node) = (IF L = 0 THEN NULL ELSE linked[L])
  <2>1. L # 0 => 1 \in 1..L /\ L \in 1..L
    BY <1>3
  <2>2. L # 0 => linked[1] # list /\ linked[L] # list
    BY <1>3, <2>1
  <2> QED BY <1>5, <1>7, <2>2 DEF list_is_empty, list_peek_head, list_peek_tail
<1>9. ASSUME NEW k \in 1..L
      PROVE  /\ list_in_list(node, linked[k])
             /\ list_next(node, linked[k]) = (IF k = L THEN NULL ELSE linked[k + 1])
             /\ list_prev(node, linked[k]) = (IF k = 1 THEN NULL ELSE linked[k - 1])
             /\ list_next_wrap(node, linked[k]) = linked[IF k = L THEN 1 ELSE k + 1]
             /\ list_prev_wrap(node, linked[k]) = linked[IF k = 1 THEN L ELSE k - 1]
  <2>1. /\ k # L => linked[k + 1] # list /\ linked[k + 1] # NULL
        /\ k # 1 => linked[k - 1] # list /\ linked[k - 1] # NULL
        /\ linked[1] # list /\ linked[L] # list /\ L # 0
    BY <1>3, <1>6
  <2>2. list_in_list(node, linked[k])
    BY <1>2, <1>6, <2>1 DEF list_in_list
  <2>3. /\ list_next(node, linked[k]) = (IF k = L THEN NULL ELSE linked[k + 1])
        /\ list_prev(node, linked[k]) = (IF k = 1 THEN NULL ELSE linked[k - 1])
    BY <1>6, <2>1 DEF list_next, list_prev
  <2>4. list_next_wrap(node, linked[k]) = linked[IF k = L THEN 1 ELSE k + 1]
    BY <1>5, <1>6, <2>1 DEF list_next_wrap
  <2>5. list_prev_wrap(node, linked[k]) = linked[IF k = 1 THEN L ELSE k - 1]
    BY <1>5, <1>6, <2>1 DEF list_prev_wrap
  <2> QED BY <2>2, <2>3, <2>4, <2>5
<1>10. ASSUME NEW n \in Items, OffList(n), list_in_list(node, n)
       PROVE  node[n] = [prev |-> n, next |-> n]
  <2>1. n \notin ToSet(linked)
    BY <1>10 DEF OffList, ToSet
  <2>2. node[n] \in Alone(n)
    BY <1>2, <2>1 DEF Held
  <2> QED BY <1>10, <2>2 DEF Alone, list_in_list
<1>11. walk # "none" /\ visit = list => seen = start
  <2>1. ASSUME walk # "none", visit = list PROVE seen = start
    <3>1. Walked(linked, start, seen, list) /\ start \in Seq(Items) /\ seen \in Seq(Items)
      BY <1>1, <2>1 DEF WalkedNow, NodeTypeOK
    <3> QED BY <1>2, <3>1, WalkEnds
  <2> QED BY <2>1
<1> QED BY <1>8, <1>9, <1>10, <1>11 DEF ReadsFollowTheList, L

\* What the functions of list.h return is what the calls have left on the list, in every
\* state, for any number of nodes: the property of the list in client/list.h and server/list.h.
THEOREM ReadsAreRight == NodeSpec => []ReadsFollowTheList
<1>1. NodeInit => NodeListInv
  BY NodeStart
<1>2. NodeListInv /\ [NodeNext]_nodeVars => NodeListInv'
  BY NodeStep
<1>3. NodeListInv => ReadsFollowTheList
  BY ReadsFollow
<1> QED BY <1>1, <1>2, <1>3, PTL DEF NodeSpec
=============================================================================
