---------------------------- MODULE RingBufProofs ----------------------------
(***************************************************************************)
(* Proofs about RingBuf for every size, every counter width the size       *)
(* divides, and any number of threads: the invariant, and that the ring    *)
(* buffer is a bounded FIFO.                                               *)
(***************************************************************************)
EXTENDS RingBuf, SequenceTheorems, TLAPS

-----------------------------------------------------------------------------
(* Remainders.                                                              *)

LEMMA Division ==
  ASSUME NEW a \in Int, NEW b \in Nat \ {0}
  PROVE  /\ a = b * (a \div b) + (a % b)
         /\ a % b \in 0..(b - 1) /\ a \div b \in Int
  OBVIOUS

LEMMA OnlyZeroIsSmall ==
  ASSUME NEW b \in Nat \ {0}, NEW k \in Int, b * k < b, b * k > 0 - b
  PROVE  k = 0
  OBVIOUS

LEMMA Distributes ==
  ASSUME NEW b \in Int, NEW p \in Int, NEW q \in Int
  PROVE  b * (p + q) = b * p + b * q /\ b * (p - q) = b * p - b * q
  OBVIOUS

\* There is one remainder.
LEMMA RemainderIs ==
  ASSUME NEW b \in Nat \ {0}, NEW q \in Int, NEW r \in 0..(b - 1), NEW a \in Int,
         a = b * q + r
  PROVE  a % b = r
<1> DEFINE s == a % b
           p == a \div b
<1>1. a = b * p + s /\ s \in 0..(b - 1) /\ p \in Int
  BY Division
<1> SUFFICES s = r
  OBVIOUS
<1> HIDE DEF s, p
<1>2. b * (p - q) = r - s
  <2>1. b * (p - q) = b * p - b * q
    BY <1>1, Distributes
  <2> QED BY <2>1, <1>1
<1>3. p - q = 0
  <2>1. r - s < b /\ r - s > 0 - b /\ p - q \in Int
    BY <1>1
  <2> QED BY <2>1, <1>2, OnlyZeroIsSmall
<1> QED BY <1>1, <1>3

\* Unsigned sums of this module stay below three times the modulus.
LEMMA WrapsAround ==
  ASSUME NEW b \in Nat \ {0}, NEW r \in 0..(b - 1), NEW a \in Int,
         a = r \/ a = r + b \/ a = r + b + b
  PROVE  a % b = r
<1>1. a = b * 0 + r \/ a = b * 1 + r \/ a = b * 2 + r
  OBVIOUS
<1> QED BY <1>1, RemainderIs

\* A multiple of the modulus may be added.
LEMMA AddsNothing ==
  ASSUME NEW b \in Nat \ {0}, NEW w \in Nat, w % b = 0, NEW a \in Int
  PROVE  (a + w) % b = a % b
<1> DEFINE q == w \div b
           p == a \div b
           r == a % b
           c == a + w
           d == p + q
<1>1. w = b * q /\ q \in Int
  BY Division
<1>2. a = b * p + r /\ p \in Int /\ r \in 0..(b - 1)
  BY Division
<1> SUFFICES c % b = r
  OBVIOUS
<1> HIDE DEF q, p, r
<1>3. c = b * d + r /\ c \in Int /\ d \in Int
  <2>1. b * (p + q) = b * p + b * q /\ b * p \in Int /\ b * q \in Int
    BY <1>1, <1>2, Distributes
  <2> QED BY <2>1, <1>1, <1>2
<1> HIDE DEF c, d
<1> QED BY <1>2, <1>3, RemainderIs

LEMMA Sizes == Size \in Nat \ {0} /\ W \in Nat \ {0} /\ Size < W
  BY RingAssumption

\* The index k cells further on: at most one wrap.
LEMMA AtFurther ==
  ASSUME NEW a \in Nat, NEW k \in 0..Size
  PROVE  /\ At(a) \in 0..(Size - 1)
         /\ At(a + k) = IF At(a) + k < Size THEN At(a) + k ELSE At(a) + k - Size
<1> DEFINE p == a \div Size
           r == a % Size
<1>0. Size \in Nat \ {0}
  BY Sizes
<1>1. a = Size * p + r /\ p \in Int /\ r \in 0..(Size - 1)
  BY <1>0, Division
<1> SUFFICES (a + k) % Size = IF r + k < Size THEN r + k ELSE r + k - Size
  BY <1>1 DEF At
<1> HIDE DEF p, r
<1>2. CASE r + k < Size
  <2>1. a + k = Size * p + (r + k) /\ r + k \in 0..(Size - 1) /\ a + k \in Int
    BY <1>0, <1>1, <1>2
  <2> QED BY <2>1, <1>0, <1>1, <1>2, RemainderIs
<1>3. CASE ~(r + k < Size)
  <2> DEFINE c == a + k
             d == p + 1
             e == r + k - Size
  <2>1. Size * (p + 1) = Size * p + Size /\ Size * p \in Int
    BY <1>0, <1>1
  <2>2. c = Size * d + e /\ c \in Int /\ d \in Int /\ e \in 0..(Size - 1)
    BY <2>1, <1>0, <1>1, <1>3
  <2> SUFFICES c % Size = e
    BY <1>3
  <2> HIDE DEF c, d, e
  <2> QED BY <2>2, <1>0, RemainderIs
<1> QED BY <1>2, <1>3

LEMMA AtRange ==
  ASSUME NEW a \in Nat
  PROVE  At(a) \in 0..(Size - 1)
<1>1. 0 \in 0..Size
  BY Sizes
<1> QED BY <1>1, AtFurther

\* Size cells in a row are different cells, and the next one is the first again.
LEMMA CellsApart ==
  ASSUME NEW a \in Nat, NEW j \in 0..(Size - 1), NEW k \in 0..(Size - 1), At(a + j) = At(a + k)
  PROVE  j = k
<1> DEFINE r == At(a)
<1>1. At(a + j) = IF r + j < Size THEN r + j ELSE r + j - Size
  BY AtFurther, Sizes
<1>2. At(a + k) = IF r + k < Size THEN r + k ELSE r + k - Size
  BY AtFurther, Sizes
<1>3. r \in 0..(Size - 1)
  BY AtFurther, Sizes
<1> HIDE DEF r
<1> QED BY <1>1, <1>2, <1>3, Sizes

LEMMA AtRound ==
  ASSUME NEW a \in Nat
  PROVE  At(a + Size) = At(a) /\ At(a + W) = At(a)
<1>1. At(a + Size) = At(a)
  BY AtFurther, Sizes
<1>2. At(a + W) = At(a)
  <2>1. W % Size = 0 /\ W \in Nat /\ Size \in Nat \ {0} /\ a \in Int
    BY RingAssumption
  <2>2. (a + W) % Size = a % Size
    BY <2>1, AddsNothing, Zenon
  <2> QED BY <2>2 DEF At
<1> QED BY <1>1, <1>2
-----------------------------------------------------------------------------
(* The counters.                                                            *)

\* The fill level computed in unsigned arithmetic.
LEMMA FillLevel ==
  ASSUME NEW a \in 0..(W - 1), NEW b \in 0..(W - 1), NEW h \in 0..(W - 1)
  PROVE  Level(a, b) = h <=> (a = b + h \/ a + W = b + h)
<1> DEFINE c == W + a - b
           r == IF c < W THEN c ELSE c - W
<1>1. c \in Int /\ r \in 0..(W - 1) /\ (c = r \/ c = r + W)
  BY Sizes
<1>2. c % W = r
  <2> HIDE DEF c, r
  <2> QED BY <1>1, Sizes, WrapsAround
<1>3. r = h <=> (a = b + h \/ a + W = b + h)
  BY Sizes
<1> QED BY <1>2, <1>3 DEF Level

\* Moving a counter on moves its cells on.
LEMMA Advanced ==
  ASSUME NEW a \in 0..(W - 1), NEW m \in 0..Size
  PROVE  /\ (a + m) % W \in 0..(W - 1)
         /\ (a + m) % W = a + m \/ ((a + m) % W) + W = a + m
         /\ \A k \in Nat : At(((a + m) % W) + k) = At(a + m + k)
<1> DEFINE c == a + m
           r == IF c < W THEN c ELSE c - W
<1>1. c \in Int /\ r \in 0..(W - 1) /\ (c = r \/ c = r + W)
  BY Sizes
<1>2. c % W = r
  <2> HIDE DEF c, r
  <2> QED BY <1>1, Sizes, WrapsAround
<1>3. ASSUME NEW k \in Nat PROVE At(r + k) = At(c + k)
  <2>1. r + k \in Nat /\ (c + k = r + k \/ c + k = (r + k) + W)
    BY <1>1, Sizes
  <2> HIDE DEF c, r
  <2> QED BY <2>1, AtRound
<1> HIDE DEF r
<1> QED BY <1>1, <1>2, <1>3

\* Moving in raises the fill level.
LEMMA LevelRises ==
  \A a, b, c, h \in 0..(W - 1) : \A m \in Nat :
    ((a = b + h \/ a + W = b + h) /\ h + m \in 0..(W - 1) /\ (c = a + m \/ c + W = a + m))
      => Level(c, b) = h + m
<1> TAKE a, b, c, h \in 0..(W - 1)
<1> TAKE m \in Nat
<1> HAVE (a = b + h \/ a + W = b + h) /\ h + m \in 0..(W - 1) /\ (c = a + m \/ c + W = a + m)
<1>1. h + m \in 0..(W - 1) /\ (c = b + (h + m) \/ c + W = b + (h + m))
  BY Sizes
<1> QED BY <1>1, FillLevel

\* Moving out lowers it.
LEMMA LevelFalls ==
  \A a, b, c, h \in 0..(W - 1) : \A m \in Nat :
    ((a = b + h \/ a + W = b + h) /\ m <= h /\ (c = b + m \/ c + W = b + m))
      => Level(a, c) = h - m
<1> TAKE a, b, c, h \in 0..(W - 1)
<1> TAKE m \in Nat
<1> HAVE (a = b + h \/ a + W = b + h) /\ m <= h /\ (c = b + m \/ c + W = b + m)
<1>1. h - m \in 0..(W - 1) /\ (a = c + (h - m) \/ a + W = c + (h - m))
  BY Sizes
<1> QED BY <1>1, FillLevel

\* With the fill level right, the free cells follow the full ones, and there is
\* room for the rest.
LEMMA CountersSay ==
  ASSUME in \in 0..(W - 1), out \in 0..(W - 1), Held \in 0..Size, Used = Held
  PROVE  /\ in = out + Held \/ in + W = out + Held
         /\ Room = Size - Held
         /\ \A k \in Nat : At(in + k) = At(out + Held + k)
<1> DEFINE h == Held
<1>0. h \in 0..(W - 1) /\ h \in 0..Size
  BY Sizes
<1>1. Level(in, out) = h
  BY DEF Used
<1> HIDE DEF h
<1>2. in = out + h \/ in + W = out + h
  BY <1>0, <1>1, FillLevel
<1>3. Room = Size - h
  <2> DEFINE c == W + Size - in + out
             r == Size - h
  <2>1. c \in Int /\ r \in 0..(W - 1) /\ (c = r + W \/ c = r + W + W)
    BY <1>0, <1>2, Sizes
  <2>2. c % W = r
    <3> HIDE DEF c, r
    <3> QED BY <2>1, Sizes, WrapsAround
  <2> QED BY <2>2 DEF Room
<1>4. ASSUME NEW k \in Nat PROVE At(in + k) = At(out + h + k)
  <2> DEFINE x == in + k
             y == out + h + k
  <2>1. x \in Nat /\ (y = x \/ y = x + W)
    BY <1>0, <1>2, Sizes
  <2> SUFFICES At(x) = At(y)
    OBVIOUS
  <2> HIDE DEF x, y
  <2> QED BY <2>1, AtRound
<1> QED BY <1>2, <1>3, <1>4 DEF h

-----------------------------------------------------------------------------
(* The two copies.                                                          *)

\* The first copy ends where the buffer ends at the latest, and the second starts
\* at index 0 with the cell after it.
LEMMA TwoPieces ==
  ASSUME NEW c \in Nat, NEW m \in 0..Size, NEW f, f = Smaller(m, Size - At(c))
  PROVE  /\ f \in 0..m /\ At(c) \in 0..(Size - 1) /\ At(c) + f <= Size
         /\ \A x \in 0..(f - 1) : At(c + x) = At(c) + x
         /\ \A x \in 0..(m - f - 1) : At(c + f + x) = x
<1> DEFINE r == At(c)
<1>1. r \in 0..(Size - 1) /\ f = IF m < Size - r THEN m ELSE Size - r
  BY Sizes, AtFurther DEF Smaller
<1>2. ASSUME NEW k \in 0..Size PROVE At(c + k) = IF r + k < Size THEN r + k ELSE r + k - Size
  BY AtFurther, Sizes
<1> HIDE DEF r
<1>3. f \in 0..m /\ r + f <= Size
  BY <1>1, Sizes
<1>4. ASSUME NEW x \in 0..(f - 1) PROVE At(c + x) = r + x
  <2>1. x \in 0..Size /\ r + x < Size
    BY <1>1, <1>3, Sizes
  <2> QED BY <2>1, <1>2
<1>5. ASSUME NEW x \in 0..(m - f - 1) PROVE At(c + f + x) = x
  <2>1. f + x \in 0..Size /\ r + f = Size /\ ~(r + (f + x) < Size) /\ r + (f + x) - Size = x
    BY <1>1, <1>3, Sizes
  <2>2. c + f + x = c + (f + x)
    BY <1>3
  <2> QED BY <2>1, <2>2, <1>2
<1> QED BY <1>1, <1>3, <1>4, <1>5 DEF r

\* A copy into the cells p.. from in on writes these and no others.
LEMMA CopyInWrites ==
  ASSUME TypeOK, NEW t \in Threads, NEW p \in Nat, NEW a \in Nat, NEW count \in Nat,
         p + count <= Size, a + count <= Size, p + count <= Len(buf[t]),
         \A x \in 0..(count - 1) : At(in + p + x) = a + x,
         CopyIn(t, p, a, count)
  PROVE  /\ buffer' \in [0..(Size - 1) -> Nat] /\ buf' = buf
         /\ \A k \in p..(p + count - 1) : buffer'[At(in + k)] = buf[t][k + 1]
         /\ \A k \in 0..(Size - 1) :
              k \notin p..(p + count - 1) => buffer'[At(in + k)] = buffer[At(in + k)]
<1>1. /\ in \in Nat /\ DOMAIN buffer = 0..(Size - 1) /\ buf[t] \in Seq(Nat)
      /\ buffer \in [0..(Size - 1) -> Nat]
  <2>1. in \in Nat
    BY Sizes DEF TypeOK
  <2>2. DOMAIN buffer = 0..(Size - 1) /\ buffer \in [0..(Size - 1) -> Nat]
    BY DEF TypeOK
  <2>3. buf[t] \in Seq(Nat)
    BY DEF TypeOK
  <2> QED BY <2>1, <2>2, <2>3
<1>2. /\ buf' = buf
      /\ buffer' = [x \in 0..(Size - 1) |->
                      IF x \in a..(a + count - 1) THEN buf[t][p + 1 + x - a] ELSE buffer[x]]
  BY <1>1 DEF CopyIn
<1>3. buffer' \in [0..(Size - 1) -> Nat]
  <2>1. ASSUME NEW x \in a..(a + count - 1) PROVE buf[t][p + 1 + x - a] \in Nat
    <3>1. p + 1 + x - a \in 1..Len(buf[t])
      BY <1>1
    <3>2. buf[t] \in [1..Len(buf[t]) -> Nat]
      BY <1>1, LenProperties
    <3> QED BY <3>1, <3>2
  <2> QED BY <1>1, <1>2, <2>1
<1>4. ASSUME NEW k \in p..(p + count - 1) PROVE buffer'[At(in + k)] = buf[t][k + 1]
  <2>1. k - p \in 0..(count - 1) /\ in + p + (k - p) = in + k
    BY <1>1
  <2>2. At(in + k) = a + (k - p)
    BY <2>1
  <2>3. a + (k - p) \in a..(a + count - 1) /\ a + (k - p) \in 0..(Size - 1)
        /\ p + 1 + (a + (k - p)) - a = k + 1
    BY <2>1, Sizes
  <2> QED BY <1>2, <2>2, <2>3
<1>5. ASSUME NEW k \in 0..(Size - 1), k \notin p..(p + count - 1)
      PROVE  buffer'[At(in + k)] = buffer[At(in + k)]
  <2>1. At(in + k) \in 0..(Size - 1)
    <3>1. in + k \in Nat
      BY <1>1, Sizes
    <3> QED BY <3>1, AtRange
  <2>2. ASSUME At(in + k) \in a..(a + count - 1) PROVE FALSE
    <3> DEFINE x == At(in + k) - a
               y == p + x
    <3>1. x \in 0..(count - 1) /\ y \in 0..(Size - 1) /\ y \in p..(p + count - 1)
      BY <2>1, <2>2, Sizes
    <3>2. in + p + x = in + y /\ a + x = At(in + k)
      BY <2>1, <1>1, Sizes
    <3>3. At(in + y) = At(in + k)
      <4> HIDE DEF x
      <4>1. At(in + p + x) = a + x
        BY <3>1
      <4> HIDE DEF y
      <4> QED BY <3>2, <4>1
    <3> HIDE DEF y
    <3>4. y = k
      BY <3>1, <3>3, <1>1, CellsApart
    <3> QED BY <3>1, <3>4, <1>5
  <2> QED BY <1>2, <2>1, <2>2
<1> QED BY <1>2, <1>3, <1>4, <1>5

\* A copy out appends the cells p.. from out on.
LEMMA CopyOutReads ==
  ASSUME TypeOK, NEW t \in Threads, NEW p \in Nat, NEW a \in Nat, NEW count \in Nat,
         a + count <= Size, Len(buf[t]) = p,
         \A x \in 0..(count - 1) : At(out + p + x) = a + x,
         CopyOut(t, a, count)
  PROVE  /\ buf' \in [Threads -> Seq(Nat)] /\ buffer' = buffer
         /\ \A u \in Threads \ {t} : buf'[u] = buf[u]
         /\ Len(buf'[t]) = p + count
         /\ \A k \in 1..p : buf'[t][k] = buf[t][k]
         /\ \A k \in (p + 1)..(p + count) : buf'[t][k] = buffer[At(out + k - 1)]
<1> DEFINE s == [x \in 1..count |-> buffer[a + x - 1]]
<1>1. /\ out \in Nat /\ buf \in [Threads -> Seq(Nat)] /\ buf[t] \in Seq(Nat)
      /\ buffer \in [0..(Size - 1) -> Nat]
  <2>1. out \in Nat
    BY Sizes DEF TypeOK
  <2>2. buf \in [Threads -> Seq(Nat)] /\ buf[t] \in Seq(Nat)
    BY DEF TypeOK
  <2>3. buffer \in [0..(Size - 1) -> Nat]
    BY DEF TypeOK
  <2> QED BY <2>1, <2>2, <2>3
<1>2. s \in Seq(Nat) /\ Len(s) = count /\ \A x \in 1..count : s[x] = buffer[a + x - 1]
  <2>1. ASSUME NEW x \in 1..count PROVE buffer[a + x - 1] \in Nat
    <3>1. a + x - 1 \in 0..(Size - 1)
      BY Sizes
    <3> QED BY <1>1, <3>1
  <2> QED BY <2>1, IsASeq
<1>3. buf' = [buf EXCEPT ![t] = buf[t] \o s] /\ buffer' = buffer
  BY DEF CopyOut
<1> HIDE DEF s
<1>4. /\ buf[t] \o s \in Seq(Nat) /\ Len(buf[t] \o s) = p + count
      /\ \A k \in 1..(p + count) : (buf[t] \o s)[k] = IF k <= p THEN buf[t][k] ELSE s[k - p]
  <2>1. /\ buf[t] \o s \in Seq(Nat) /\ Len(buf[t] \o s) = Len(buf[t]) + Len(s)
        /\ \A k \in 1..(Len(buf[t]) + Len(s)) :
             (buf[t] \o s)[k] = IF k <= Len(buf[t]) THEN buf[t][k] ELSE s[k - Len(buf[t])]
    BY <1>1, <1>2, ConcatProperties, Zenon
  <2> QED BY <2>1, <1>2
<1>5. ASSUME NEW k \in (p + 1)..(p + count) PROVE s[k - p] = buffer[At(out + k - 1)]
  <2>1. k - p \in 1..count /\ k - p - 1 \in 0..(count - 1)
        /\ out + p + (k - p - 1) = out + k - 1
    BY <1>1
  <2>2. s[k - p] = buffer[a + (k - p) - 1] /\ At(out + k - 1) = a + (k - p - 1)
    BY <1>2, <2>1
  <2> QED BY <2>1, <2>2
<1>6. /\ buf' \in [Threads -> Seq(Nat)] /\ buf'[t] = buf[t] \o s
      /\ \A u \in Threads \ {t} : buf'[u] = buf[u]
  <2> DEFINE z == buf[t] \o s
  <2>1. z \in Seq(Nat)
    BY <1>4
  <2> HIDE DEF z
  <2>2. buf' = [buf EXCEPT ![t] = z]
    BY <1>3 DEF z
  <2>3. buf' \in [Threads -> Seq(Nat)] /\ buf'[t] = z
        /\ \A u \in Threads \ {t} : buf'[u] = buf[u]
    BY <1>1, <2>1, <2>2
  <2> QED BY <2>3 DEF z
<1>7. \A k \in 1..p : buf'[t][k] = buf[t][k]
  BY <1>4, <1>6
<1>8. ASSUME NEW k \in (p + 1)..(p + count) PROVE buf'[t][k] = buffer[At(out + k - 1)]
  <2>1. k \in 1..(p + count) /\ ~(k <= p)
    OBVIOUS
  <2> QED BY <1>4, <1>5, <1>6, <2>1
<1> QED BY <1>3, <1>4, <1>6, <1>7, <1>8

-----------------------------------------------------------------------------
(* Each step keeps the invariant.                                           *)

USE DEF ringVars, localVars, pollVars, fifoVars, Goto

\* Steps that leave the ring alone leave what its cells hold alone.
LEMMA CellsStay ==
  ASSUME CellsHoldTheRest, UNCHANGED <<in, out, buffer, fifoVars>>, Resetting => Resetting'
  PROVE  CellsHoldTheRest'
<1>1. Held' = Held /\ Used' = Used
  BY DEF Held, Used
<1>2. \A k \in 0..(Held - 1) : buffer'[At(out' + k)] = sent'[Len(rcvd') + k + 1]
  BY DEF CellsHoldTheRest
<1> QED BY <1>1, <1>2 DEF CellsHoldTheRest

\* A call, before it asks for the mutex.
LEMMA CallKeeps ==
  ASSUME RingInv, NEW t \in Threads, CallPut(t) \/ CallGet(t)
  PROVE  RingInv'
<1> USE DEF CallPut, CallGet
<1>1. /\ pc[t] = "idle" /\ pc' = [pc EXCEPT ![t] = "lock"]
      /\ UNCHANGED <<ringVars, n, l, pollVars, fifoVars>>
      /\ \E k \in 0..MaxLen : len' = [len EXCEPT ![t] = k]
  OBVIOUS
<1>2. PICK b \in Seq(Nat) : buf' = [buf EXCEPT ![t] = b] /\ (t \in Writers => Len(b) = len'[t])
                              /\ (t \in Readers => b = <<>>)
  <2>1. CASE CallPut(t)
    <3>1. PICK k \in 0..MaxLen : len' = [len EXCEPT ![t] = k]
                                  /\ buf' = [buf EXCEPT ![t] = [x \in 1..k |-> Len(sent) + x]]
      BY <2>1
    <3> DEFINE b == [x \in 1..k |-> Len(sent) + x]
    <3>2. b \in Seq(Nat) /\ Len(b) = k
      <4>1. Len(sent) \in Nat
        BY DEF RingInv, TypeOK
      <4> QED BY <4>1, IsASeq
    <3>3. len'[t] = k /\ t \notin Readers
      BY <3>1, <2>1, RingAssumption DEF RingInv, TypeOK
    <3> QED BY <3>1, <3>2, <3>3
  <2>2. CASE CallGet(t)
    <3>1. t \notin Writers
      BY <2>2, RingAssumption
    <3>2. buf' = [buf EXCEPT ![t] = <<>>] /\ <<>> \in Seq(Nat)
      BY <2>2
    <3> QED BY <3>1, <3>2
  <2> QED BY <2>1, <2>2
<1>3. TypeOK /\ Exclusive /\ CellsHoldTheRest /\ MovesAllItCan
  BY DEF RingInv
<1>4. TypeOK'
  <2>1. len' \in [Threads -> 0..MaxLen]
    BY <1>1, <1>3 DEF TypeOK
  <2>3. buf' \in [Threads -> Seq(Nat)]
    <3>1. buf \in [Threads -> Seq(Nat)]
      BY <1>3 DEF TypeOK
    <3> QED BY <1>2, <3>1
  <2>2. pc' \in [Threads -> {"idle", "lock", "first", "second", "advance", "test", "reset",
                              "unlock", "poll"}]
    BY <1>1, <1>3 DEF TypeOK
  <2> QED BY <1>1, <1>3, <2>1, <2>2, <2>3 DEF TypeOK
<1>5. \A u \in Threads : pc'[u] = IF u = t THEN "lock" ELSE pc[u]
  BY <1>1, <1>3 DEF TypeOK
<1>6. \A u \in Threads : u # t => len'[u] = len[u] /\ buf'[u] = buf[u]
  BY <1>1, <1>2, <1>3 DEF TypeOK
<1>7. Resetting' <=> Resetting
  BY <1>1, <1>5 DEF Resetting, Threads
<1>8. Held' = Held
  BY <1>1 DEF Held
<1>9. Exclusive'
  BY <1>1, <1>3, <1>5, <1>8 DEF Exclusive, Holding
<1>10. CellsHoldTheRest'
  BY <1>1, <1>3, <1>7, CellsStay
<1>11. MovesAllItCan'
  BY <1>1, <1>3, <1>5, <1>6, <1>8 DEF MovesAllItCan
<1>12. ASSUME NEW u \in Writers PROVE WriterSound(u)'
  <2>1. WriterSound(u) /\ u \in Threads
    BY DEF RingInv, Threads
  <2> QED BY <1>1, <1>2, <1>4, <1>5, <1>6, <2>1 DEF WriterSound, Moving, Copied, TypeOK
<1>13. ASSUME NEW u \in Writers PROVE PollSound(u)'
  <2>1. PollSound(u) /\ u \in Threads
    BY DEF RingInv, Threads
  <2> QED BY <1>1, <1>5, <1>7, <1>8, <2>1 DEF PollSound
<1>14. ASSUME NEW u \in Readers PROVE ReaderSound(u)'
  <2>1. ReaderSound(u) /\ u \in Threads
    BY DEF RingInv, Threads
  <2> QED BY <1>1, <1>2, <1>4, <1>5, <1>6, <2>1 DEF ReaderSound, Moving, Copied, TypeOK
<1>15. (\A k \in 1..Len(rcvd) : rcvd[k] = sent[k])'
  BY <1>1 DEF RingInv
<1> QED BY <1>4, <1>9, <1>10, <1>11, <1>12, <1>13, <1>14, <1>15 DEF RingInv

\* ringbuf_available.  What it has read of out can only have been passed by gets.
LEMMA PollKeeps ==
  ASSUME RingInv, NEW t \in Threads, Poll(t) \/ Read(t) \/ Polled(t)
  PROVE  RingInv'
<1>1. TypeOK /\ Exclusive /\ CellsHoldTheRest /\ MovesAllItCan
  BY DEF RingInv
<1>2. UNCHANGED <<ringVars, localVars, fifoVars>>
  BY DEF Poll, Read, Polled
<1>3. TypeOK'
  <2>1. in \in 0..W /\ out \in 0..W /\ W \in 0..W /\ Resetting \in BOOLEAN
    BY <1>1, Sizes DEF TypeOK, Resetting
  <2>2. CASE Poll(t)
    BY <1>1, <1>2, <2>1, <2>2 DEF TypeOK, Poll
  <2>3. CASE Read(t)
    BY <1>1, <1>2, <2>1, <2>3 DEF TypeOK, Read
  <2>4. CASE Polled(t)
    BY <1>1, <1>2, <2>1, <2>4 DEF TypeOK, Polled
  <2> QED BY <2>2, <2>3, <2>4
<1>4. /\ pc[t] \in {"idle", "poll"} /\ pc'[t] \in {"idle", "poll"}
      /\ \A u \in Threads : u # t => pc'[u] = pc[u]
  BY <1>1 DEF Poll, Read, Polled, TypeOK
<1>5. Resetting' <=> Resetting
  BY <1>4 DEF Resetting, Threads
<1>6. Held' = Held /\ Used' = Used
  BY <1>2 DEF Held, Used
<1>7. Exclusive'
  BY <1>1, <1>2, <1>4, <1>6 DEF Exclusive, Holding
<1>8. CellsHoldTheRest'
  BY <1>1, <1>2, <1>5, CellsStay
<1>9. MovesAllItCan'
  BY <1>1, <1>2, <1>4, <1>6 DEF MovesAllItCan
<1>10. ASSUME NEW u \in Writers PROVE WriterSound(u)'
  <2>1. WriterSound(u) /\ u \in Threads
    BY DEF RingInv, Threads
  <2> QED BY <1>2, <1>4, <2>1 DEF WriterSound, Moving, Copied
<1>11. ASSUME NEW u \in Writers PROVE PollSound(u)'
  <2>1. PollSound(u) /\ u \in Threads
    BY DEF RingInv, Threads
  <2>2. CASE u # t
    <3>1. i'[u] = i[u] /\ o'[u] = o[u] /\ torn'[u] = torn[u] /\ pc'[u] = pc[u]
      BY <1>1, <1>4, <2>1, <2>2 DEF Poll, Read, Polled, TypeOK
    <3> QED BY <1>2, <1>5, <1>6, <2>1, <3>1 DEF PollSound
  <2>3. CASE u = t /\ Poll(t)
    <3>1. pc[u] = "idle" /\ i'[u] = i[u] /\ o'[u] = o[u] /\ torn'[u] = Resetting /\ pc'[u] = "poll"
      BY <1>1, <2>1, <2>3 DEF Poll, TypeOK
    <3> QED BY <1>5, <2>1, <3>1 DEF PollSound
  <2>4. CASE u = t /\ Read(t)
    <3>1. pc'[u] = "poll" /\ pc[u] = "poll" /\ torn'[u] = torn[u]
      BY <2>1, <2>4 DEF Read
    <3>2. \/ i'[u] = in /\ o'[u] = o[u]
          \/ i'[u] = i[u] /\ o'[u] = out
      BY <1>1, <2>1, <2>4 DEF Read, TypeOK
    <3>3. ~Resetting => Level(in, out) \in Held..Size
      <4>1. Held \in 0..Size /\ (~Resetting => Used = Held)
        BY <1>1 DEF CellsHoldTheRest
      <4> QED BY <4>1, Sizes DEF Used
    <3> QED BY <1>2, <1>5, <1>6, <2>1, <3>1, <3>2, <3>3 DEF PollSound
  <2>5. CASE u = t /\ Polled(t)
    <3>1. pc'[u] = "idle" /\ i'[u] = W /\ o'[u] = W
      BY <1>1, <2>1, <2>5 DEF Polled, TypeOK
    <3> QED BY <3>1 DEF PollSound
  <2> QED BY <2>2, <2>3, <2>4, <2>5
<1>12. ASSUME NEW u \in Readers PROVE ReaderSound(u)'
  <2>1. ReaderSound(u) /\ u \in Threads
    BY DEF RingInv, Threads
  <2> QED BY <1>2, <1>4, <2>1 DEF ReaderSound, Moving, Copied
<1>13. (\A k \in 1..Len(rcvd) : rcvd[k] = sent[k])'
  BY <1>2 DEF RingInv
<1> QED BY <1>3, <1>7, <1>8, <1>9, <1>10, <1>11, <1>12, <1>13 DEF RingInv

\* Only the holder of the mutex works on the ring.
LEMMA OthersAway ==
  ASSUME Exclusive, NEW t \in Threads, Holding(t) \/ mutex = NoThread
  PROVE  \A u \in Threads : u # t => ~Holding(u) /\ ~Moving(u)
  BY RingAssumption DEF Exclusive, Holding, Moving, Threads

\* The amounts, computed under the mutex.
LEMMA LockKeeps ==
  ASSUME RingInv, NEW t \in Threads, Lock(t)
  PROVE  RingInv'
<1> DEFINE limit == IF t \in Writers THEN Size - Held ELSE Held
           from == IF t \in Writers THEN in ELSE out
           amount == Smaller(len[t], limit)
           first == Smaller(amount, Size - At(from))
<1>1. TypeOK /\ Exclusive /\ CellsHoldTheRest /\ MovesAllItCan
  BY DEF RingInv
<1>2. /\ pc[t] = "lock" /\ mutex = NoThread /\ mutex' = t
      /\ pc' = [pc EXCEPT ![t] = "first"]
      /\ UNCHANGED <<in, out, buffer, buf, len, pollVars, fifoVars>>
  BY DEF Lock
<1>3. \A u \in Threads : ~Holding(u)
  BY <1>1, <1>2, RingAssumption DEF Exclusive, Threads
<1>4. ~Resetting
  BY <1>3 DEF Resetting, Holding, Threads
<1>5. Held \in 0..Size /\ Used = Held /\ Room = Size - Held
  <2>1. Held \in 0..Size /\ Used = Held
    BY <1>1, <1>4 DEF CellsHoldTheRest
  <2> QED BY <1>1, <2>1, CountersSay DEF TypeOK
<1>6. n' = [n EXCEPT ![t] = amount] /\ l' = [l EXCEPT ![t] = first]
  BY <1>5 DEF Lock
<1>7. amount \in 0..len[t] /\ amount \in 0..Size /\ first \in 0..amount /\ len[t] \in 0..MaxLen
  <2>1. limit \in 0..Size /\ len[t] \in 0..MaxLen
    BY <1>1, <1>5, Sizes DEF TypeOK
  <2>2. amount \in 0..len[t] /\ amount \in 0..Size
    BY <2>1, Sizes, RingAssumption DEF Smaller
  <2>3. from \in Nat
    BY <1>1, Sizes DEF TypeOK
  <2> HIDE DEF amount, from
  <2> QED BY <2>1, <2>2, <2>3, TwoPieces
<1>8. amount \in 0..MaxLen /\ first \in 0..MaxLen
  <2> HIDE DEF amount, first
  <2> QED BY <1>7, RingAssumption
<1> HIDE DEF limit, from, amount, first
<1>9. TypeOK'
  BY <1>1, <1>2, <1>6, <1>8 DEF TypeOK
<1>10. /\ \A u \in Threads : pc'[u] = IF u = t THEN "first" ELSE pc[u]
       /\ \A u \in Threads : u # t => ~Moving(u) /\ ~Holding(u)
       /\ n'[t] = amount /\ l'[t] = first
  BY <1>1, <1>2, <1>3, <1>6, <1>9, OthersAway DEF TypeOK
<1>11. ~Resetting'
  BY <1>4, <1>10 DEF Resetting, Threads
<1>12. Held' = Held /\ Used' = Used
  BY <1>2 DEF Held, Used
<1>13. Exclusive'
  BY <1>1, <1>2, <1>10, <1>12 DEF Exclusive, Holding
<1>14. CellsHoldTheRest'
  BY <1>1, <1>2, <1>4, CellsStay
<1>15. MovesAllItCan'
  BY <1>2, <1>10, <1>12 DEF MovesAllItCan, Moving, amount, limit
<1>16. ASSUME NEW u \in Writers PROVE WriterSound(u)'
  <2>1. WriterSound(u) /\ u \in Threads
    BY DEF RingInv, Threads
  <2>2. CASE u = t
    BY <1>2, <1>10, <2>1, <2>2 DEF WriterSound, Moving, first, from
  <2>3. CASE u # t
    BY <1>2, <1>10, <2>1, <2>3 DEF WriterSound, Moving
  <2> QED BY <2>2, <2>3
<1>17. ASSUME NEW u \in Writers PROVE PollSound(u)'
  <2>1. PollSound(u) /\ u \in Threads
    BY DEF RingInv, Threads
  <2> QED BY <1>2, <1>10, <1>11, <1>12, <2>1 DEF PollSound
<1>18. ASSUME NEW u \in Readers PROVE ReaderSound(u)'
  <2>1. ReaderSound(u) /\ u \in Threads /\ u \notin Writers
    BY RingAssumption DEF RingInv, Threads
  <2>2. CASE u = t
    BY <1>2, <1>10, <2>1, <2>2 DEF ReaderSound, Moving, first, from
  <2>3. CASE u # t
    BY <1>2, <1>10, <2>1, <2>3 DEF ReaderSound, Moving
  <2> QED BY <2>2, <2>3
<1>19. (\A k \in 1..Len(rcvd) : rcvd[k] = sent[k])'
  BY <1>2 DEF RingInv
<1> QED BY <1>9, <1>13, <1>14, <1>15, <1>16, <1>17, <1>18, <1>19 DEF RingInv

\* A put's copy fills free cells only.
LEMMA CopyInKeeps ==
  ASSUME RingInv, NEW t \in Writers, CopyFirst(t) \/ CopySecond(t)
  PROVE  RingInv'
<1> DEFINE p == IF pc[t] = "first" THEN 0 ELSE l[t]
           a == IF pc[t] = "first" THEN At(in) ELSE 0
           count == IF pc[t] = "first" THEN l[t] ELSE n[t] - l[t]
           next == IF pc[t] = "first" THEN "second" ELSE "advance"
<1>1. TypeOK /\ Exclusive /\ CellsHoldTheRest /\ MovesAllItCan /\ WriterSound(t)
      /\ t \in Threads /\ t \notin Readers
  BY RingAssumption DEF RingInv, Threads
<1>2. /\ pc[t] \in {"first", "second"} /\ pc' = [pc EXCEPT ![t] = next] /\ CopyIn(t, p, a, count)
      /\ UNCHANGED <<in, out, mutex, len, n, l, pollVars, fifoVars>>
  BY DEF CopyFirst, CopySecond
<1>3. /\ \A u \in Threads : u # t => ~Holding(u) /\ ~Moving(u)
      /\ mutex = t /\ Moving(t) /\ Holding(t)
  BY <1>1, <1>2, OthersAway DEF Exclusive, Holding, Moving
<1>4. \A u \in Threads : pc'[u] = IF u = t THEN next ELSE pc[u]
  BY <1>1, <1>2 DEF TypeOK
<1>5. ~Resetting /\ ~Resetting'
  BY <1>1, <1>3, <1>4 DEF Resetting, Holding, Threads
<1>6. /\ Held \in 0..Size /\ Used = Held
      /\ \A k \in Nat : At(in + k) = At(out + Held + k)
      /\ in \in Nat /\ out \in Nat
  <2>1. Held \in 0..Size /\ Used = Held
    BY <1>1, <1>5 DEF CellsHoldTheRest
  <2>2. in \in 0..(W - 1) /\ out \in 0..(W - 1)
    BY <1>1 DEF TypeOK
  <2> QED BY <2>1, <2>2, CountersSay, Sizes
<1>7. /\ n[t] \in 0..(Size - Held) /\ n[t] <= Len(buf[t]) /\ Len(buf[t]) \in Nat
      /\ l[t] = Smaller(n[t], Size - At(in))
  <2>1. n[t] = Smaller(len[t], Size - Held) /\ len[t] \in Nat /\ Len(buf[t]) = len[t]
    BY <1>1, <1>2, <1>3, RingAssumption DEF MovesAllItCan, WriterSound, TypeOK
  <2>2. l[t] = Smaller(n[t], Size - At(in))
    BY <1>1, <1>3 DEF WriterSound
  <2> QED BY <2>1, <2>2, <1>6, Sizes DEF Smaller
<1>8. /\ l[t] \in 0..n[t] /\ At(in) \in 0..(Size - 1) /\ At(in) + l[t] <= Size
      /\ \A x \in 0..(l[t] - 1) : At(in + x) = At(in) + x
      /\ \A x \in 0..(n[t] - l[t] - 1) : At(in + l[t] + x) = x
  <2>1. Held \in 0..Size /\ n[t] \in 0..(Size - Held)
    BY <1>6, <1>7
  <2>2. n[t] \in 0..Size
    BY <2>1, Sizes
  <2> QED BY <2>2, <1>6, <1>7, TwoPieces
<1>9. /\ p \in Nat /\ a \in Nat /\ count \in Nat /\ p + count <= Size - Held
      /\ a + count <= Size /\ p + count <= Len(buf[t])
  <2>1. /\ n[t] \in 0..(Size - Held) /\ n[t] <= Len(buf[t]) /\ Len(buf[t]) \in Nat
        /\ l[t] \in 0..n[t] /\ At(in) \in 0..(Size - 1) /\ At(in) + l[t] <= Size
        /\ Held \in 0..Size
    BY <1>6, <1>7, <1>8
  <2>2. CASE pc[t] = "first"
    BY <2>1, <2>2, Sizes
  <2>3. CASE pc[t] = "second"
    BY <2>1, <2>3, Sizes
  <2> QED BY <1>2, <2>2, <2>3
<1>10. \A x \in 0..(count - 1) : At(in + p + x) = a + x
  <2>1. CASE pc[t] = "first"
    BY <2>1, <1>6, <1>8
  <2>2. CASE pc[t] = "second"
    BY <2>2, <1>8
  <2> QED BY <2>1, <2>2, <1>2
<1>11. /\ buffer' \in [0..(Size - 1) -> Nat] /\ buf' = buf
       /\ \A k \in p..(p + count - 1) : buffer'[At(in + k)] = buf[t][k + 1]
       /\ \A k \in 0..(Size - 1) :
            k \notin p..(p + count - 1) => buffer'[At(in + k)] = buffer[At(in + k)]
  <2>1. p + count <= Size
    BY <1>6, <1>9, Sizes
  <2>2. CopyIn(t, p, a, count)
    BY <1>2
  <2> HIDE DEF p, a, count
  <2> QED BY <2>1, <2>2, <1>1, <1>9, <1>10, CopyInWrites, ZenonT(60)
<1>12. TypeOK'
  BY <1>1, <1>2, <1>11 DEF TypeOK
<1>13. Held' = Held /\ Used' = Used
  BY <1>2 DEF Held, Used
<1>14. Exclusive'
  BY <1>1, <1>2, <1>3, <1>4, <1>13 DEF Exclusive, Holding
<1>15. CellsHoldTheRest'
  <2>1. ASSUME NEW j \in 0..(Held - 1) PROVE buffer'[At(out + j)] = sent[Len(rcvd) + j + 1]
    <3> DEFINE k == Size - Held + j
    <3>1. k \in 0..(Size - 1) /\ k \notin p..(p + count - 1) /\ out + Held + k = (out + j) + Size
          /\ out + j \in Nat
      BY <1>6, <1>9, Sizes
    <3>2. At(in + k) = At(out + j)
      <4> HIDE DEF k
      <4>1. At(in + k) = At(out + Held + k)
        BY <3>1, <1>6
      <4> QED BY <4>1, <3>1, AtRound
    <3> HIDE DEF k
    <3>3. buffer'[At(out + j)] = buffer[At(out + j)]
      BY <3>1, <3>2, <1>11
    <3> QED BY <3>3, <1>1 DEF CellsHoldTheRest
  <2> QED BY <2>1, <1>2, <1>5, <1>6, <1>13 DEF CellsHoldTheRest
<1>16. MovesAllItCan'
  BY <1>1, <1>2, <1>3, <1>4, <1>13 DEF MovesAllItCan, Moving
<1>17. ASSUME NEW u \in Writers PROVE WriterSound(u)'
  <2>1. WriterSound(u) /\ u \in Threads
    BY DEF RingInv, Threads
  <2>2. CASE u # t
    BY <1>2, <1>3, <1>4, <1>11, <2>1, <2>2 DEF WriterSound, Moving
  <2>3. CASE u = t
    <3>1. Moving(t)' => l[t] = Smaller(n[t], Size - At(in))
      BY <1>7
    <3>2. Len(buf[t]) = len[t]
      BY <1>1, <1>3 DEF WriterSound
    <3>3. Copied(t)' = p + count
      <4>1. l[t] \in Int /\ n[t] \in Int
        BY <1>1, RingAssumption DEF TypeOK
      <4>2. CASE pc[t] = "first"
        BY <4>1, <4>2, <1>1, <1>2, <1>4 DEF Copied
      <4>3. CASE pc[t] = "second"
        BY <4>1, <4>3, <1>1, <1>2, <1>4 DEF Copied
      <4> QED BY <4>2, <4>3, <1>2
    <3>4. ASSUME NEW k \in 0..(p + count - 1) PROVE buffer'[At(in + k)] = buf[t][k + 1]
      <4>1. CASE k \in p..(p + count - 1)
        BY <4>1, <1>11
      <4>2. CASE k < p
        <5>1. pc[t] = "second" /\ k \in 0..(Copied(t) - 1) /\ k \in 0..(Size - 1) /\ k \notin p..(p + count - 1)
          <6>1. pc[t] = "second" /\ p = l[t]
            BY <4>2, <1>2
          <6>2. l[t] \in 0..n[t] /\ n[t] \in 0..(Size - Held) /\ Held \in 0..Size
            BY <1>6, <1>7, <1>8
          <6> QED BY <4>2, <6>1, <6>2, Sizes DEF Copied
        <5>2. buffer[At(in + k)] = buf[t][k + 1]
          BY <5>1, <1>1 DEF WriterSound
        <5> QED BY <5>1, <5>2, <1>11
      <4> QED BY <4>1, <4>2, <1>9
    <3>5. len' = len /\ l' = l /\ n' = n /\ in' = in /\ buf' = buf
      BY <1>2, <1>11
    <3> HIDE DEF p, count
    <3>6. \A k \in 0..(Copied(t)' - 1) : buffer'[At(in + k)] = buf[t][k + 1]
      <4> DEFINE m == Copied(t)'
      <4>1. m = p + count
        BY <3>3
      <4> HIDE DEF m
      <4>2. \A k \in 0..(m - 1) : buffer'[At(in + k)] = buf[t][k + 1]
        BY <3>4, <4>1, <1>9
      <4> QED BY <4>2 DEF m
    <3> QED BY <2>3, <3>1, <3>2, <3>5, <3>6 DEF WriterSound
  <2> QED BY <2>2, <2>3
<1>18. ASSUME NEW u \in Writers PROVE PollSound(u)'
  <2>1. PollSound(u) /\ u \in Threads
    BY DEF RingInv, Threads
  <2> QED BY <1>2, <1>4, <1>5, <1>13, <2>1 DEF PollSound
<1>19. ASSUME NEW u \in Readers PROVE ReaderSound(u)'
  <2>1. ReaderSound(u) /\ u \in Threads /\ u # t
    BY <1>1 DEF RingInv, Threads
  <2> QED BY <1>2, <1>3, <1>4, <1>11, <2>1 DEF ReaderSound, Moving
<1>20. (\A k \in 1..Len(rcvd) : rcvd[k] = sent[k])'
  BY <1>2 DEF RingInv
<1> QED BY <1>12, <1>14, <1>15, <1>16, <1>17, <1>18, <1>19, <1>20 DEF RingInv

\* A get's copy reads the oldest bytes in order.
LEMMA CopyOutKeeps ==
  ASSUME RingInv, NEW t \in Readers, CopyFirst(t) \/ CopySecond(t)
  PROVE  RingInv'
<1> DEFINE p == IF pc[t] = "first" THEN 0 ELSE l[t]
           a == IF pc[t] = "first" THEN At(out) ELSE 0
           count == IF pc[t] = "first" THEN l[t] ELSE n[t] - l[t]
           next == IF pc[t] = "first" THEN "second" ELSE "advance"
<1>1. TypeOK /\ Exclusive /\ CellsHoldTheRest /\ MovesAllItCan /\ ReaderSound(t)
      /\ t \in Threads /\ t \notin Writers
  BY RingAssumption DEF RingInv, Threads
<1>2. /\ pc[t] \in {"first", "second"} /\ pc' = [pc EXCEPT ![t] = next] /\ CopyOut(t, a, count)
      /\ UNCHANGED <<in, out, mutex, len, n, l, pollVars, fifoVars>>
  BY <1>1 DEF CopyFirst, CopySecond
<1>3. /\ \A u \in Threads : u # t => ~Holding(u) /\ ~Moving(u)
      /\ mutex = t /\ Moving(t) /\ Holding(t)
  BY <1>1, <1>2, OthersAway DEF Exclusive, Holding, Moving
<1>4. \A u \in Threads : pc'[u] = IF u = t THEN next ELSE pc[u]
  BY <1>1, <1>2 DEF TypeOK
<1>5. ~Resetting /\ ~Resetting'
  BY <1>1, <1>2, <1>3, <1>4 DEF Resetting, Holding, Threads
<1>6. Held \in 0..Size /\ out \in Nat
  BY <1>1, Sizes DEF CellsHoldTheRest, TypeOK
<1>7. n[t] \in 0..Held /\ n[t] \in 0..Size /\ l[t] = Smaller(n[t], Size - At(out))
  <2>1. n[t] = Smaller(len[t], Held) /\ len[t] \in Nat
    BY <1>1, <1>2, <1>3, RingAssumption DEF MovesAllItCan, TypeOK
  <2>2. l[t] = Smaller(n[t], Size - At(out))
    BY <1>1, <1>3 DEF ReaderSound
  <2> QED BY <2>1, <2>2, <1>6, Sizes DEF Smaller
<1>8. /\ l[t] \in 0..n[t] /\ At(out) \in 0..(Size - 1) /\ At(out) + l[t] <= Size
      /\ \A x \in 0..(l[t] - 1) : At(out + x) = At(out) + x
      /\ \A x \in 0..(n[t] - l[t] - 1) : At(out + l[t] + x) = x
  BY <1>6, <1>7, TwoPieces
<1>9. /\ p \in Nat /\ a \in Nat /\ count \in Nat /\ p + count <= Held /\ a + count <= Size
  <2>1. Held \in 0..Size /\ n[t] \in 0..Held /\ l[t] \in 0..n[t]
        /\ At(out) \in 0..(Size - 1) /\ At(out) + l[t] <= Size
    BY <1>6, <1>7, <1>8
  <2> QED BY <2>1, <1>2, Sizes
<1>10. \A x \in 0..(count - 1) : At(out + p + x) = a + x
  <2>1. CASE pc[t] = "first"
    BY <2>1, <1>6, <1>8
  <2>2. CASE pc[t] = "second"
    BY <2>2, <1>8
  <2> QED BY <2>1, <2>2, <1>2
<1>11. Len(buf[t]) = p /\ \A k \in 1..p : buf[t][k] = sent[Len(rcvd) + k]
  <2>1. CASE pc[t] = "first"
    BY <2>1, <1>1 DEF ReaderSound
  <2>2. CASE pc[t] = "second"
    BY <2>2, <1>1 DEF ReaderSound, Copied
  <2> QED BY <2>1, <2>2, <1>2
<1>12. /\ buf' \in [Threads -> Seq(Nat)] /\ buffer' = buffer
       /\ \A u \in Threads \ {t} : buf'[u] = buf[u]
       /\ Len(buf'[t]) = p + count
       /\ \A k \in 1..p : buf'[t][k] = buf[t][k]
       /\ \A k \in (p + 1)..(p + count) : buf'[t][k] = buffer[At(out + k - 1)]
  <2>1. CopyOut(t, a, count)
    BY <1>2
  <2>2. TypeOK /\ t \in Threads /\ Len(buf[t]) = p
    BY <1>1, <1>11
  <2>3. p \in Nat /\ a \in Nat /\ count \in Nat /\ a + count <= Size
    BY <1>9
  <2> HIDE DEF p, a, count
  <2> QED BY <2>1, <2>2, <2>3, <1>10, CopyOutReads, ZenonT(60)
<1>13. TypeOK'
  BY <1>1, <1>2, <1>12 DEF TypeOK
<1>14. Held' = Held /\ Used' = Used
  BY <1>2 DEF Held, Used
<1>15. Exclusive'
  BY <1>1, <1>2, <1>3, <1>4, <1>14 DEF Exclusive, Holding
<1>16. CellsHoldTheRest'
  BY <1>1, <1>2, <1>5, <1>12, CellsStay
<1>17. MovesAllItCan'
  BY <1>1, <1>2, <1>3, <1>4, <1>14 DEF MovesAllItCan, Moving
<1>18. ASSUME NEW u \in Readers PROVE ReaderSound(u)'
  <2>1. ReaderSound(u) /\ u \in Threads
    BY DEF RingInv, Threads
  <2>2. CASE u # t
    BY <1>2, <1>3, <1>4, <1>12, <2>1, <2>2 DEF ReaderSound, Moving
  <2>3. CASE u = t
    <3>1. Copied(t)' = p + count
      <4>1. l[t] \in Int /\ n[t] \in Int
        BY <1>1, RingAssumption DEF TypeOK
      <4>2. CASE pc[t] = "first"
        BY <4>1, <4>2, <1>1, <1>2, <1>4 DEF Copied
      <4>3. CASE pc[t] = "second"
        BY <4>1, <4>3, <1>1, <1>2, <1>4 DEF Copied
      <4> QED BY <4>2, <4>3, <1>2
    <3>2. ASSUME NEW k \in 1..(p + count) PROVE buf'[t][k] = sent[Len(rcvd) + k]
      <4>1. CASE k \in 1..p
        BY <4>1, <1>11, <1>12
      <4>2. CASE k > p
        <5>1. k - 1 \in 0..(Held - 1) /\ k \in (p + 1)..(p + count) /\ out + k - 1 = out + (k - 1)
          BY <4>2, <1>6, <1>9
        <5>2. buffer[At(out + (k - 1))] = sent[Len(rcvd) + (k - 1) + 1]
          BY <5>1, <1>1 DEF CellsHoldTheRest
        <5>3. Len(rcvd) + (k - 1) + 1 = Len(rcvd) + k
          BY <1>1 DEF TypeOK
        <5> QED BY <5>1, <5>2, <5>3, <1>12
      <4> QED BY <4>1, <4>2, <1>9
    <3>3. UNCHANGED <<len, l, n, out, sent, rcvd>> /\ pc'[t] \in {"second", "advance"}
      BY <1>1, <1>2, <1>4
    <3> HIDE DEF p, count
    <3>4. \A k \in 1..(Copied(t)') : buf'[t][k] = sent[Len(rcvd) + k]
      <4> DEFINE m == Copied(t)'
      <4>1. m = p + count
        BY <3>1
      <4> HIDE DEF m
      <4>2. \A k \in 1..m : buf'[t][k] = sent[Len(rcvd) + k]
        BY <3>2, <4>1, <1>9
      <4> QED BY <4>2 DEF m
    <3> QED BY <2>3, <3>1, <3>3, <3>4, <1>7, <1>12 DEF ReaderSound
  <2> QED BY <2>2, <2>3
<1>19. ASSUME NEW u \in Writers PROVE PollSound(u)'
  <2>1. PollSound(u) /\ u \in Threads
    BY DEF RingInv, Threads
  <2> QED BY <1>2, <1>4, <1>5, <1>14, <2>1 DEF PollSound
<1>20. ASSUME NEW u \in Writers PROVE WriterSound(u)'
  <2>1. WriterSound(u) /\ u \in Threads /\ u # t
    BY <1>1 DEF RingInv, Threads
  <2> QED BY <1>2, <1>3, <1>4, <1>12, <2>1 DEF WriterSound, Moving
<1>21. (\A k \in 1..Len(rcvd) : rcvd[k] = sent[k])'
  BY <1>2 DEF RingInv
<1> QED BY <1>13, <1>15, <1>16, <1>17, <1>18, <1>19, <1>20, <1>21 DEF RingInv

\* The bytes a put has copied become part of what the buffer holds.
LEMMA AdvanceInKeeps ==
  ASSUME RingInv, NEW t \in Threads, AdvanceIn(t)
  PROVE  RingInv'
<1> DEFINE m == n[t]
           h == Held
           b == SubSeq(buf[t], 1, m)
<1>1. TypeOK /\ Exclusive /\ CellsHoldTheRest /\ MovesAllItCan /\ WriterSound(t)
      /\ t \in Writers /\ t \notin Readers
  BY RingAssumption DEF RingInv, AdvanceIn
<1>2. /\ pc[t] = "advance" /\ pc' = [pc EXCEPT ![t] = "unlock"]
      /\ in' = (in + m) % W /\ sent' = sent \o b
      /\ UNCHANGED <<out, buffer, mutex, buf, len, n, l, pollVars, rcvd>>
  BY DEF AdvanceIn
<1>3. /\ \A u \in Threads : u # t => ~Holding(u) /\ ~Moving(u)
      /\ mutex = t /\ Moving(t) /\ Holding(t)
  BY <1>1, <1>2, OthersAway DEF Exclusive, Holding, Moving
<1>4. \A u \in Threads : pc'[u] = IF u = t THEN "unlock" ELSE pc[u]
  BY <1>1, <1>2 DEF TypeOK
<1>5. ~Resetting /\ ~Resetting' /\ \A u \in Threads : ~Moving(u)'
  BY <1>1, <1>3, <1>4 DEF Resetting, Holding, Moving, Threads
<1>6. h \in 0..Size /\ Used = h /\ in \in 0..(W - 1) /\ out \in 0..(W - 1)
  BY <1>1, <1>5 DEF CellsHoldTheRest, TypeOK
<1>7. (in = out + h \/ in + W = out + h) /\ \A k \in Nat : At(in + k) = At(out + h + k)
  BY <1>6, CountersSay
<1>8. m \in 0..(Size - h) /\ m <= Len(buf[t]) /\ buf[t] \in Seq(Nat)
  <2>1. m = Smaller(len[t], Size - h) /\ len[t] \in Nat /\ Len(buf[t]) = len[t]
        /\ buf[t] \in Seq(Nat)
    BY <1>1, <1>2, <1>3, RingAssumption DEF MovesAllItCan, WriterSound, TypeOK
  <2> QED BY <2>1, <1>6, Sizes DEF Smaller
<1>9. b \in Seq(Nat) /\ Len(b) = m /\ \A x \in 1..m : b[x] = buf[t][x]
  BY <1>8
<1>10. \A k \in 0..(m - 1) : buffer[At(in + k)] = buf[t][k + 1]
  BY <1>1, <1>2 DEF WriterSound, Copied
<1>11. sent \in Seq(Nat) /\ rcvd \in Seq(Nat) /\ Len(sent) \in Nat /\ Len(rcvd) \in Nat
       /\ h = Len(sent) - Len(rcvd)
  BY <1>1 DEF TypeOK, Held
<1> HIDE DEF b
<1>12. /\ sent' \in Seq(Nat) /\ Len(sent') = Len(sent) + m
       /\ \A k \in 1..(Len(sent) + m) : sent'[k] = IF k <= Len(sent) THEN sent[k] ELSE b[k - Len(sent)]
  <2>1. /\ sent \o b \in Seq(Nat) /\ Len(sent \o b) = Len(sent) + Len(b)
        /\ \A k \in 1..(Len(sent) + Len(b)) :
             (sent \o b)[k] = IF k <= Len(sent) THEN sent[k] ELSE b[k - Len(sent)]
    BY <1>9, <1>11, ConcatProperties, Zenon
  <2>2. sent' = sent \o b /\ Len(b) = m
    BY <1>2, <1>9
  <2> HIDE DEF m
  <2> QED BY <2>1, <2>2
<1> HIDE DEF m
<1>13. m \in 0..Size /\ h + m \in 0..Size
  BY <1>6, <1>8, Sizes
<1>14. in' \in 0..(W - 1) /\ (in' = in + m \/ in' + W = in + m)
  BY <1>2, <1>6, <1>13, Advanced
<1>15. Held' = h + m
  BY <1>2, <1>8, <1>11, <1>12 DEF Held
<1> HIDE DEF h
<1>16. Used' = h + m
  <2>1. /\ h \in 0..(W - 1) /\ h + m \in 0..(W - 1) /\ m \in Nat
        /\ in = out + h \/ in + W = out + h
    BY <1>6, <1>7, <1>13, Sizes
  <2>2. /\ in \in 0..(W - 1) /\ out \in 0..(W - 1) /\ in' \in 0..(W - 1)
        /\ in' = in + m \/ in' + W = in + m
    BY <1>6, <1>14
  <2>3. Level(in', out) = h + m
    BY <2>1, <2>2, LevelRises
  <2> QED BY <1>2, <2>3 DEF Used
<1>17. TypeOK'
  BY <1>1, <1>2, <1>12, <1>14 DEF TypeOK
<1>18. Exclusive'
  <2>1. \A u \in Threads : u # t => ~Holding(u)'
    BY <1>3, <1>4 DEF Holding
  <2> QED BY <1>1, <1>2, <1>3, <1>4, <2>1 DEF Exclusive, Holding
<1>19. CellsHoldTheRest'
  <2>1. ASSUME NEW j \in 0..(h + m - 1) PROVE buffer[At(out + j)] = sent'[Len(rcvd) + j + 1]
    <3>1. CASE j < h
      <4>1. j \in 0..(h - 1) /\ Len(rcvd) + j + 1 \in 1..(Len(sent) + m) /\ Len(rcvd) + j + 1 <= Len(sent)
        BY <3>1, <1>6, <1>8, <1>11
      <4>2. buffer[At(out + j)] = sent[Len(rcvd) + j + 1]
        BY <4>1, <1>1 DEF CellsHoldTheRest, h
      <4> QED BY <4>1, <4>2, <1>12
    <3>2. CASE j >= h
      <4> DEFINE k == j - h
                 e == Len(rcvd) + j + 1
      <4>1. k \in 0..(m - 1) /\ k \in Nat /\ out + h + k = out + j /\ k + 1 \in 1..m
            /\ e \in 1..(Len(sent) + m) /\ ~(e <= Len(sent)) /\ e - Len(sent) = k + 1
        BY <3>2, <1>6, <1>8, <1>11
      <4> HIDE DEF k, e
      <4>2. At(in + k) = At(out + j)
        BY <4>1, <1>7
      <4>3. buffer[At(out + j)] = buf[t][k + 1]
        BY <4>1, <4>2, <1>10
      <4>4. sent'[e] = b[k + 1]
        BY <4>1, <1>12
      <4> QED BY <4>1, <4>3, <4>4, <1>9 DEF e
    <3> QED BY <3>1, <3>2, <1>6
  <2>2. Held' \in 0..Size /\ Used' = Held'
    BY <1>13, <1>15, <1>16
  <2>3. \A j \in 0..(Held' - 1) : buffer[At(out + j)] = sent'[Len(rcvd) + j + 1]
    <3> DEFINE q == Held'
    <3>1. q = h + m /\ h \in Nat /\ m \in Nat
      BY <1>6, <1>13, <1>15
    <3> HIDE DEF q
    <3>2. \A j \in 0..(q - 1) : buffer[At(out + j)] = sent'[Len(rcvd) + j + 1]
      BY <2>1, <3>1
    <3> QED BY <3>2 DEF q
  <2> QED BY <2>2, <2>3, <1>2 DEF CellsHoldTheRest
<1>20. MovesAllItCan'
  BY <1>5 DEF MovesAllItCan, Moving
<1>21. ASSUME NEW u \in Writers PROVE WriterSound(u)'
  <2>1. WriterSound(u) /\ u \in Threads
    BY DEF RingInv, Threads
  <2> QED BY <1>2, <1>4, <1>5, <2>1 DEF WriterSound, Moving
<1>22. ASSUME NEW u \in Writers PROVE PollSound(u)'
  <2>1. PollSound(u) /\ u \in Threads
    BY DEF RingInv, Threads
  <2> QED BY <1>1, <1>2, <1>4, <2>1 DEF PollSound
<1>23. ASSUME NEW u \in Readers PROVE ReaderSound(u)'
  <2>1. ReaderSound(u) /\ u \in Threads
    BY DEF RingInv, Threads
  <2> QED BY <1>1, <1>2, <1>4, <1>5, <2>1 DEF ReaderSound, Moving
<1>24. (\A k \in 1..Len(rcvd) : rcvd[k] = sent[k])'
  <2>1. ASSUME NEW k \in 1..Len(rcvd) PROVE rcvd[k] = sent'[k]
    <3>1. k \in 1..(Len(sent) + m) /\ k <= Len(sent)
      BY <1>6, <1>8, <1>11
    <3> QED BY <3>1, <1>12 DEF RingInv
  <2> QED BY <2>1, <1>2
<1> QED BY <1>17, <1>18, <1>19, <1>20, <1>21, <1>22, <1>23, <1>24 DEF RingInv

\* The bytes a get has copied are the oldest ones, and only they are given up.
LEMMA AdvanceOutKeeps ==
  ASSUME RingInv, NEW t \in Threads, AdvanceOut(t)
  PROVE  RingInv'
<1> DEFINE m == n[t]
           h == Held
<1>1. TypeOK /\ Exclusive /\ CellsHoldTheRest /\ MovesAllItCan /\ ReaderSound(t)
      /\ t \in Readers /\ t \notin Writers
  BY RingAssumption DEF RingInv, AdvanceOut
<1>2. /\ pc[t] = "advance" /\ pc' = [pc EXCEPT ![t] = "test"]
      /\ out' = (out + m) % W /\ rcvd' = rcvd \o buf[t]
      /\ UNCHANGED <<in, buffer, mutex, buf, len, n, l, pollVars, sent>>
  BY DEF AdvanceOut
<1>3. /\ \A u \in Threads : u # t => ~Holding(u) /\ ~Moving(u)
      /\ mutex = t /\ Moving(t) /\ Holding(t)
  BY <1>1, <1>2, OthersAway DEF Exclusive, Holding, Moving
<1>4. \A u \in Threads : pc'[u] = IF u = t THEN "test" ELSE pc[u]
  BY <1>1, <1>2 DEF TypeOK
<1>5. ~Resetting /\ ~Resetting' /\ \A u \in Threads : ~Moving(u)'
  BY <1>1, <1>2, <1>3, <1>4 DEF Resetting, Holding, Moving, Threads
<1>6. h \in 0..Size /\ Used = h /\ in \in 0..(W - 1) /\ out \in 0..(W - 1)
  BY <1>1, <1>5 DEF CellsHoldTheRest, TypeOK
<1>7. in = out + h \/ in + W = out + h
  BY <1>6, CountersSay
<1>8. m \in 0..h
  <2>1. m = Smaller(len[t], h) /\ len[t] \in Nat
    BY <1>1, <1>2, <1>3, RingAssumption DEF MovesAllItCan, TypeOK
  <2> QED BY <2>1, <1>6, Sizes DEF Smaller
<1>9. buf[t] \in Seq(Nat) /\ Len(buf[t]) = m /\ \A k \in 1..m : buf[t][k] = sent[Len(rcvd) + k]
  BY <1>1, <1>2 DEF ReaderSound, Copied, TypeOK
<1>10. sent \in Seq(Nat) /\ rcvd \in Seq(Nat) /\ Len(sent) \in Nat /\ Len(rcvd) \in Nat
       /\ h = Len(sent) - Len(rcvd)
  BY <1>1 DEF TypeOK, Held
<1>11. /\ rcvd' \in Seq(Nat) /\ Len(rcvd') = Len(rcvd) + m
       /\ \A k \in 1..(Len(rcvd) + m) : rcvd'[k] = IF k <= Len(rcvd) THEN rcvd[k] ELSE buf[t][k - Len(rcvd)]
  <2> DEFINE b == buf[t]
  <2>1. b \in Seq(Nat) /\ Len(b) = m /\ rcvd' = rcvd \o b
    BY <1>2, <1>9
  <2> HIDE DEF b, m
  <2>2. /\ rcvd \o b \in Seq(Nat) /\ Len(rcvd \o b) = Len(rcvd) + Len(b)
        /\ \A k \in 1..(Len(rcvd) + Len(b)) :
             (rcvd \o b)[k] = IF k <= Len(rcvd) THEN rcvd[k] ELSE b[k - Len(rcvd)]
    BY <2>1, <1>10, ConcatProperties, Zenon
  <2> QED BY <2>1, <2>2 DEF b
<1> HIDE DEF m
<1>12. m \in 0..Size /\ h - m \in 0..Size
  BY <1>6, <1>8, Sizes
<1>13. /\ out' \in 0..(W - 1) /\ (out' = out + m \/ out' + W = out + m)
       /\ \A k \in Nat : At(out' + k) = At(out + m + k)
  BY <1>2, <1>6, <1>12, Advanced
<1>14. Held' = h - m
  BY <1>2, <1>8, <1>10, <1>11 DEF Held
<1> HIDE DEF h
<1>15. Used' = h - m
  <2>1. h \in 0..(W - 1) /\ m <= h /\ m \in Nat /\ (in = out + h \/ in + W = out + h)
    BY <1>6, <1>7, <1>8, Sizes
  <2>2. /\ in \in 0..(W - 1) /\ out \in 0..(W - 1) /\ out' \in 0..(W - 1)
        /\ out' = out + m \/ out' + W = out + m
    BY <1>6, <1>13
  <2>3. Level(in, out') = h - m
    BY <2>1, <2>2, LevelFalls
  <2> QED BY <1>2, <2>3 DEF Used
<1>16. TypeOK'
  BY <1>1, <1>2, <1>11, <1>13 DEF TypeOK
<1>17. Exclusive'
  <2>1. \A u \in Threads : u # t => ~Holding(u)'
    BY <1>3, <1>4 DEF Holding
  <2> QED BY <1>1, <1>2, <1>3, <1>4, <2>1 DEF Exclusive, Holding
<1>18. CellsHoldTheRest'
  <2>1. ASSUME NEW j \in 0..(h - m - 1) PROVE buffer[At(out' + j)] = sent[Len(rcvd') + j + 1]
    <3>1. j \in Nat /\ m + j \in 0..(h - 1) /\ out + m + j = out + (m + j)
          /\ Len(rcvd') + j + 1 = Len(rcvd) + (m + j) + 1
      BY <1>6, <1>8, <1>10, <1>11
    <3>2. At(out' + j) = At(out + (m + j))
      BY <3>1, <1>13
    <3>3. buffer[At(out + (m + j))] = sent[Len(rcvd) + (m + j) + 1]
      BY <3>1, <1>1 DEF CellsHoldTheRest, h
    <3> QED BY <3>1, <3>2, <3>3
  <2>2. Held' \in 0..Size /\ Used' = Held'
    BY <1>12, <1>14, <1>15
  <2>3. \A j \in 0..(Held' - 1) : buffer[At(out' + j)] = sent[Len(rcvd') + j + 1]
    <3> DEFINE q == Held'
    <3>1. q = h - m /\ h \in Nat /\ m \in Nat
      BY <1>6, <1>12, <1>14
    <3> HIDE DEF q
    <3>2. \A j \in 0..(q - 1) : buffer[At(out' + j)] = sent[Len(rcvd') + j + 1]
      BY <2>1, <3>1
    <3> QED BY <3>2 DEF q
  <2> QED BY <2>2, <2>3, <1>2 DEF CellsHoldTheRest
<1>19. MovesAllItCan'
  BY <1>5 DEF MovesAllItCan, Moving
<1>20. ASSUME NEW u \in Writers PROVE WriterSound(u)'
  <2>1. WriterSound(u) /\ u \in Threads /\ u # t
    BY <1>1 DEF RingInv, Threads
  <2> QED BY <1>2, <1>4, <1>5, <2>1 DEF WriterSound, Moving
<1>21. ASSUME NEW u \in Writers PROVE PollSound(u)'
  <2>1. PollSound(u) /\ u \in Threads /\ u # t
    BY <1>1 DEF RingInv, Threads
  <2>2. pc'[u] = pc[u] /\ i' = i /\ o' = o /\ torn' = torn /\ in' = in
    BY <1>2, <1>4, <2>1
  <2>3. \A x : x \in h..Size => x \in Held'..Size
    BY <1>6, <1>8, <1>14, Sizes
  <2> QED BY <1>5, <2>1, <2>2, <2>3 DEF PollSound, h
<1>22. ASSUME NEW u \in Readers PROVE ReaderSound(u)'
  <2>1. ReaderSound(u) /\ u \in Threads
    BY DEF RingInv, Threads
  <2> QED BY <1>2, <1>4, <1>5, <2>1 DEF ReaderSound, Moving
<1>23. (\A k \in 1..Len(rcvd) : rcvd[k] = sent[k])'
  <2>1. ASSUME NEW k \in 1..(Len(rcvd) + m) PROVE rcvd'[k] = sent[k]
    <3>1. CASE k <= Len(rcvd)
      <4>1. k \in 1..Len(rcvd)
        BY <3>1, <1>10
      <4> QED BY <3>1, <4>1, <1>11 DEF RingInv
    <3>2. CASE ~(k <= Len(rcvd))
      <4>1. k - Len(rcvd) \in 1..m /\ Len(rcvd) + (k - Len(rcvd)) = k
        BY <3>2, <1>8, <1>6, <1>10
      <4> QED BY <3>2, <4>1, <1>9, <1>11
    <3> QED BY <3>1, <3>2
  <2> QED BY <2>1, <1>2, <1>11
<1> QED BY <1>16, <1>17, <1>18, <1>19, <1>20, <1>21, <1>22, <1>23 DEF RingInv

\* if (in == out): only when nothing is left.
LEMMA TestKeeps ==
  ASSUME RingInv, NEW t \in Threads, Test(t)
  PROVE  RingInv'
<1> DEFINE next == IF in = out THEN "reset" ELSE "unlock"
<1>1. TypeOK /\ Exclusive /\ CellsHoldTheRest /\ MovesAllItCan
  BY DEF RingInv
<1>2. /\ pc[t] = "test" /\ pc' = [pc EXCEPT ![t] = next] /\ torn' = Polling(in = out)
      /\ UNCHANGED <<ringVars, localVars, i, o, fifoVars>>
  BY DEF Test
<1>3. /\ \A u \in Threads : u # t => ~Holding(u) /\ ~Moving(u)
      /\ mutex = t /\ Holding(t) /\ t \in Readers /\ t \notin Writers
  BY <1>1, <1>2, OthersAway, RingAssumption DEF Exclusive, Holding
<1>4. /\ \A u \in Threads : pc'[u] = IF u = t THEN next ELSE pc[u]
      /\ \A u \in Threads : torn'[u] = (torn[u] \/ (in = out /\ pc[u] = "poll"))
      /\ \A u \in Threads : ~Moving(u) /\ ~Moving(u)'
  BY <1>1, <1>2, <1>3 DEF TypeOK, Polling, Moving
<1>5. ~Resetting /\ (Resetting' => in = out)
  BY <1>1, <1>2, <1>3, <1>4 DEF Resetting, Holding, Threads
<1>6. Held' = Held /\ Used' = Used /\ (in = out => Held = 0)
  <2>1. Held \in 0..Size /\ Used = Held /\ in \in 0..(W - 1) /\ out \in 0..(W - 1)
    BY <1>1, <1>5 DEF CellsHoldTheRest, TypeOK
  <2>2. in = out + Held \/ in + W = out + Held
    BY <2>1, CountersSay
  <2>3. in = out => Held = 0
    BY <2>1, <2>2, Sizes
  <2> QED BY <1>2, <2>3 DEF Held, Used
<1>7. TypeOK'
  BY <1>1, <1>2 DEF TypeOK, Polling
<1>8. Exclusive'
  <2>1. \A u \in Threads : u # t => ~Holding(u)'
    BY <1>3, <1>4 DEF Holding
  <2> QED BY <1>1, <1>2, <1>3, <1>4, <1>6, <2>1 DEF Exclusive, Holding
<1>9. CellsHoldTheRest'
  BY <1>1, <1>2, <1>5, CellsStay
<1>10. MovesAllItCan'
  BY <1>4 DEF MovesAllItCan, Moving
<1>11. ASSUME NEW u \in Writers PROVE WriterSound(u)'
  <2>1. WriterSound(u) /\ u \in Threads /\ u # t
    BY <1>3 DEF RingInv, Threads
  <2> QED BY <1>2, <1>4, <2>1 DEF WriterSound, Moving
<1>12. ASSUME NEW u \in Writers PROVE PollSound(u)'
  <2>1. PollSound(u) /\ u \in Threads /\ u # t
    BY <1>3 DEF RingInv, Threads
  <2> QED BY <1>2, <1>4, <1>5, <1>6, <2>1 DEF PollSound
<1>13. ASSUME NEW u \in Readers PROVE ReaderSound(u)'
  <2>1. ReaderSound(u) /\ u \in Threads
    BY DEF RingInv, Threads
  <2> QED BY <1>2, <1>4, <2>1 DEF ReaderSound, Moving
<1>14. (\A k \in 1..Len(rcvd) : rcvd[k] = sent[k])'
  BY <1>2 DEF RingInv
<1> QED BY <1>7, <1>8, <1>9, <1>10, <1>11, <1>12, <1>13, <1>14 DEF RingInv

\* in = out = 0, in two stores, while nothing is left in the buffer.
LEMMA ResetKeeps ==
  ASSUME RingInv, NEW t \in Threads, Reset(t)
  PROVE  RingInv'
<1> DEFINE next == IF in' = 0 /\ out' = 0 THEN "unlock" ELSE "reset"
<1>1. TypeOK /\ Exclusive /\ CellsHoldTheRest /\ MovesAllItCan
  BY DEF RingInv
<1>2. /\ pc[t] = "reset" /\ pc' = [pc EXCEPT ![t] = next]
      /\ (in' = 0 /\ out' = out) \/ (out' = 0 /\ in' = in)
      /\ UNCHANGED <<buffer, mutex, localVars, pollVars, fifoVars>>
  BY DEF Reset
<1>3. /\ \A u \in Threads : u # t => ~Holding(u) /\ ~Moving(u)
      /\ mutex = t /\ Holding(t) /\ t \in Readers /\ t \notin Writers
      /\ Held = 0
  BY <1>1, <1>2, OthersAway, RingAssumption DEF Exclusive, Holding
<1>4. TypeOK'
  <2>1. 0 \in 0..(W - 1)
    BY Sizes
  <2> QED BY <1>1, <1>2, <2>1 DEF TypeOK
<1>5. /\ \A u \in Threads : pc'[u] = IF u = t THEN next ELSE pc[u]
      /\ \A u \in Threads : ~Moving(u) /\ ~Moving(u)'
  BY <1>1, <1>2, <1>3 DEF TypeOK, Moving
<1>6. Resetting /\ (~Resetting' => in' = 0 /\ out' = 0)
  BY <1>2, <1>3, <1>5 DEF Resetting
<1>7. Held' = 0
  BY <1>2, <1>3 DEF Held
<1>8. Exclusive'
  <2>1. \A u \in Threads : u # t => ~Holding(u)'
    BY <1>3, <1>5 DEF Holding
  <2> QED BY <1>1, <1>2, <1>3, <1>5, <1>7, <2>1 DEF Exclusive, Holding
<1>9. CellsHoldTheRest'
  <2>1. ~Resetting' => Used' = 0
    <3>1. Level(0, 0) = 0
      BY FillLevel, Sizes
    <3> QED BY <1>6, <3>1 DEF Used
  <2>2. 0 \in 0..Size /\ 0..(0 - 1) = {}
    BY Sizes
  <2> QED BY <1>7, <2>1, <2>2 DEF CellsHoldTheRest
<1>10. MovesAllItCan'
  BY <1>5 DEF MovesAllItCan, Moving
<1>11. ASSUME NEW u \in Writers PROVE WriterSound(u)'
  <2>1. WriterSound(u) /\ u \in Threads /\ u # t
    BY <1>3 DEF RingInv, Threads
  <2> QED BY <1>2, <1>5, <2>1 DEF WriterSound, Moving
<1>12. ASSUME NEW u \in Writers PROVE PollSound(u)'
  <2>1. PollSound(u) /\ u \in Threads /\ u # t
    BY <1>3 DEF RingInv, Threads
  <2> QED BY <1>2, <1>5, <1>6, <2>1 DEF PollSound
<1>13. ASSUME NEW u \in Readers PROVE ReaderSound(u)'
  <2>1. ReaderSound(u) /\ u \in Threads
    BY DEF RingInv, Threads
  <2> QED BY <1>2, <1>5, <2>1 DEF ReaderSound, Moving
<1>14. (\A k \in 1..Len(rcvd) : rcvd[k] = sent[k])'
  BY <1>2 DEF RingInv
<1> QED BY <1>4, <1>8, <1>9, <1>10, <1>11, <1>12, <1>13, <1>14 DEF RingInv

LEMMA UnlockKeeps ==
  ASSUME RingInv, NEW t \in Threads, Unlock(t)
  PROVE  RingInv'
<1>1. TypeOK /\ Exclusive /\ CellsHoldTheRest /\ MovesAllItCan
  BY DEF RingInv
<1>2. /\ pc[t] = "unlock" /\ mutex' = NoThread /\ pc' = [pc EXCEPT ![t] = "idle"]
      /\ buf' = [buf EXCEPT ![t] = <<>>]
      /\ len' = [len EXCEPT ![t] = 0] /\ n' = [n EXCEPT ![t] = 0] /\ l' = [l EXCEPT ![t] = 0]
      /\ UNCHANGED <<in, out, buffer, pollVars, fifoVars>>
  BY DEF Unlock
<1>3. \A u \in Threads : u # t => ~Holding(u) /\ ~Moving(u)
  BY <1>1, <1>2, OthersAway DEF Holding
<1>4. TypeOK'
  <2>1. 0 \in 0..MaxLen /\ <<>> \in Seq(Nat)
    BY RingAssumption
  <2> QED BY <1>1, <1>2, <2>1 DEF TypeOK
<1>5. /\ \A u \in Threads : pc'[u] = IF u = t THEN "idle" ELSE pc[u]
      /\ \A u \in Threads : u # t => buf'[u] = buf[u] /\ len'[u] = len[u]
  BY <1>1, <1>2 DEF TypeOK
<1>6. /\ \A u \in Threads : ~Moving(u)' /\ ~Holding(u)'
      /\ ~Resetting /\ ~Resetting'
  BY <1>2, <1>3, <1>5 DEF Moving, Holding, Resetting, Threads
<1>7. Held' = Held
  BY <1>2 DEF Held
<1>8. Exclusive'
  BY <1>5, <1>6 DEF Exclusive, Holding
<1>9. CellsHoldTheRest'
  BY <1>1, <1>2, <1>6, CellsStay
<1>10. MovesAllItCan'
  BY <1>6 DEF MovesAllItCan, Moving
<1>11. ASSUME NEW u \in Writers PROVE WriterSound(u)'
  <2>1. WriterSound(u) /\ u \in Threads
    BY DEF RingInv, Threads
  <2> QED BY <1>5, <1>6, <2>1 DEF WriterSound, Moving
<1>12. ASSUME NEW u \in Writers PROVE PollSound(u)'
  <2>1. PollSound(u) /\ u \in Threads
    BY DEF RingInv, Threads
  <2> QED BY <1>2, <1>5, <1>6, <1>7, <2>1 DEF PollSound
<1>13. ASSUME NEW u \in Readers PROVE ReaderSound(u)'
  <2>1. ReaderSound(u) /\ u \in Threads
    BY DEF RingInv, Threads
  <2> QED BY <1>5, <1>6, <2>1 DEF ReaderSound, Moving
<1>14. (\A k \in 1..Len(rcvd) : rcvd[k] = sent[k])'
  BY <1>2 DEF RingInv
<1> QED BY <1>4, <1>8, <1>9, <1>10, <1>11, <1>12, <1>13, <1>14 DEF RingInv

LEMMA InitEstablishes == Init => RingInv
<1> SUFFICES ASSUME Init PROVE RingInv
  OBVIOUS
<1>1. TypeOK
  BY Sizes, RingAssumption DEF Init, TypeOK
<1>2. \A t \in Threads : pc[t] = "idle"
  BY DEF Init
<1>3. Held = 0 /\ Used = 0
  <2>1. Level(0, 0) = 0
    BY FillLevel, Sizes
  <2> QED BY <2>1 DEF Init, Held, Used
<1>4. Exclusive
  BY <1>2 DEF Exclusive, Holding
<1>5. CellsHoldTheRest
  <2>1. 0 \in 0..Size /\ 0..(0 - 1) = {}
    BY Sizes
  <2> QED BY <1>3, <2>1 DEF CellsHoldTheRest
<1>6. MovesAllItCan
  BY <1>2 DEF MovesAllItCan
<1>7. ASSUME NEW t \in Writers PROVE WriterSound(t) /\ PollSound(t)
  <2>1. t \in Threads
    BY DEF Threads
  <2>2. i[t] = W /\ o[t] = W
    BY <2>1 DEF Init
  <2> QED BY <1>2, <2>1, <2>2 DEF WriterSound, PollSound, Moving
<1>8. ASSUME NEW t \in Readers PROVE ReaderSound(t)
  <2>1. t \in Threads
    BY DEF Threads
  <2> QED BY <1>2, <2>1 DEF ReaderSound, Moving
<1>9. \A k \in 1..Len(rcvd) : rcvd[k] = sent[k]
  BY DEF Init
<1> QED BY <1>1, <1>4, <1>5, <1>6, <1>7, <1>8, <1>9 DEF RingInv

LEMMA StepKeeps == RingInv /\ [Next]_vars => RingInv'
<1> SUFFICES ASSUME RingInv, [Next]_vars PROVE RingInv'
  OBVIOUS
<1>1. CASE Next
  <2>1. PICK t \in Threads : Step(t)
    BY <1>1 DEF Next
  <2>2. CASE CallPut(t) \/ CallGet(t)
    BY <2>2, CallKeeps
  <2>3. CASE Lock(t)
    BY <2>3, LockKeeps
  <2>4. CASE CopyFirst(t) \/ CopySecond(t)
    BY <2>4, CopyInKeeps, CopyOutKeeps DEF Threads
  <2>5. CASE AdvanceIn(t)
    BY <2>5, AdvanceInKeeps
  <2>6. CASE AdvanceOut(t)
    BY <2>6, AdvanceOutKeeps
  <2>7. CASE Test(t)
    BY <2>7, TestKeeps
  <2>8. CASE Reset(t)
    BY <2>8, ResetKeeps
  <2>9. CASE Unlock(t)
    BY <2>9, UnlockKeeps
  <2>10. CASE Poll(t) \/ Read(t) \/ Polled(t)
    BY <2>10, PollKeeps
  <2> QED BY <2>1, <2>2, <2>3, <2>4, <2>5, <2>6, <2>7, <2>8, <2>9, <2>10 DEF Step
<1>2. CASE UNCHANGED vars
  <2>1. UNCHANGED <<ringVars, pc, localVars, pollVars, fifoVars>>
    BY <1>2 DEF vars
  <2>2. Held' = Held /\ (Resetting' <=> Resetting)
    BY <2>1 DEF Held, Resetting
  <2>3. TypeOK'
    BY <2>1 DEF RingInv, TypeOK
  <2>4. Exclusive' /\ MovesAllItCan'
    BY <2>1, <2>2 DEF RingInv, Exclusive, MovesAllItCan, Holding
  <2>5. CellsHoldTheRest'
    BY <2>1, <2>2, CellsStay DEF RingInv
  <2>6. ASSUME NEW u \in Writers PROVE WriterSound(u)' /\ PollSound(u)'
    BY <2>1, <2>2 DEF RingInv, WriterSound, PollSound, Moving, Copied
  <2>7. ASSUME NEW u \in Readers PROVE ReaderSound(u)'
    BY <2>1, <2>2 DEF RingInv, ReaderSound, Moving, Copied
  <2>8. (\A k \in 1..Len(rcvd) : rcvd[k] = sent[k])'
    BY <2>1 DEF RingInv
  <2> QED BY <2>3, <2>4, <2>5, <2>6, <2>7, <2>8 DEF RingInv
<1> QED BY <1>1, <1>2

-----------------------------------------------------------------------------
(* The theorems.                                                            *)

\* Whatever put, get and ringbuf_available do at the same time, the invariant holds:
\* types, mutual exclusion, the cells, the amounts, the pollers.
THEOREM Invariance == Spec => []RingInv
  BY InitEstablishes, StepKeeps, PTL DEF Spec

\* The buffer's cells hold the bytes put and not yet got, in order, across the wrap
\* of the counters, the wrap of the buffer and the reset to zero.
THEOREM CellsAreRight == Spec => []CellsHoldTheRest
<1>1. RingInv => CellsHoldTheRest
  BY DEF RingInv
<1> QED BY <1>1, Invariance, PTL

\* put and get move what is asked for and possible.
THEOREM AmountsAreRight == Spec => []MovesAllItCan
<1>1. RingInv => MovesAllItCan
  BY DEF RingInv
<1> QED BY <1>1, Invariance, PTL

\* A single writer can put what ringbuf_available has told it.
THEOREM AvailableStays == Spec => []AvailableIsThere
<1>1. ASSUME RingInv, NEW t \in Writers, Writers = {t}, pc[t] = "poll", i[t] # W, o[t] # W, ~torn[t]
      PROVE  Available(t) <= Size - Held
  <2>1. PollSound(t) /\ TypeOK /\ CellsHoldTheRest /\ t \in Threads
    BY <1>1 DEF RingInv, Threads
  <2>2. i[t] = in /\ Level(in, o[t]) \in Held..Size /\ Held \in 0..Size
    BY <1>1, <2>1 DEF PollSound, CellsHoldTheRest
  <2>3. in \in 0..(W - 1) /\ o[t] \in 0..(W - 1)
    BY <1>1, <2>1, Sizes DEF TypeOK
  <2> DEFINE d == Level(in, o[t])
             h == Held
             b == o[t]
  <2>4. d \in h..Size /\ h \in 0..Size /\ d \in 0..(W - 1) /\ b \in 0..(W - 1) /\ Level(in, b) = d
    BY <2>2, <2>3, Sizes
  <2>5. Available(t) = (W + Size - in + b) % W
    BY <2>2 DEF Available
  <2> HIDE DEF d, h, b
  <2>6. in = b + d \/ in + W = b + d
    BY <2>3, <2>4, FillLevel
  <2>7. (W + Size - in + b) % W = Size - d
    <3> DEFINE c == W + Size - in + b
               r == Size - d
    <3>1. c \in Int /\ r \in 0..(W - 1) /\ (c = r + W \/ c = r + W + W)
      BY <2>3, <2>4, <2>6, Sizes
    <3> HIDE DEF c, r
    <3>2. c % W = r
      BY <3>1, Sizes, WrapsAround
    <3> QED BY <3>2 DEF c, r
  <2>8. Size - d <= Size - h
    BY <2>4, Sizes
  <2> QED BY <2>5, <2>7, <2>8 DEF h
<1>2. RingInv => AvailableIsThere
  BY <1>1 DEF AvailableIsThere
<1> QED BY <1>2, Invariance, PTL

\* A sequence that another one starts with.
LEMMA PrefixIs ==
  ASSUME NEW x \in Seq(Nat), NEW y \in Seq(Nat), Len(x) <= Len(y),
         \A k \in 1..Len(x) : x[k] = y[k]
  PROVE  IsPrefix(x, y)
<1>1. SubSeq(x, 1, Len(x)) \in Seq(Nat) /\ SubSeq(y, 1, Len(x)) \in Seq(Nat)
      /\ Len(SubSeq(x, 1, Len(x))) = Len(x) /\ Len(SubSeq(y, 1, Len(x))) = Len(x)
      /\ \A k \in 1..Len(x) : SubSeq(x, 1, Len(x))[k] = x[k] /\ SubSeq(y, 1, Len(x))[k] = y[k]
  OBVIOUS
<1>2. SubSeq(x, 1, Len(x)) = SubSeq(y, 1, Len(x))
  BY <1>1, SeqEqual
<1> QED BY <1>2 DEF IsPrefix

\* Every step of the ring buffer is a step of the bounded FIFO or leaves it alone.
LEMMA StepRefines ==
  ASSUME RingInv, RingInv', [Next]_vars
  PROVE  [Fifo!PutSome \/ Fifo!GetSome]_Fifo!fifoVars
<1> USE DEF Fifo!fifoVars
<1>1. TypeOK /\ TypeOK' /\ CellsHoldTheRest'
  BY DEF RingInv
<1>2. CASE \E t \in Threads : AdvanceIn(t)
  <2>1. PICK t \in Threads : AdvanceIn(t)
    BY <1>2
  <2> DEFINE b == SubSeq(buf[t], 1, n[t])
  <2>2. sent' = sent \o b /\ rcvd' = rcvd
    BY <2>1 DEF AdvanceIn
  <2>3. sent \in Seq(Nat) /\ sent' \in Seq(Nat) /\ b \in Seq(Nat)
    <3>1. Len(buf[t]) = len[t] /\ n[t] <= len[t] /\ n[t] \in Nat /\ buf[t] \in Seq(Nat)
      <4>1. /\ Len(buf[t]) = len[t] /\ n[t] = Smaller(len[t], Size - Held)
            /\ len[t] \in Nat /\ n[t] \in Nat /\ buf[t] \in Seq(Nat) /\ Held \in 0..Size
        BY <2>1, RingAssumption DEF RingInv, AdvanceIn, WriterSound, MovesAllItCan, Moving, TypeOK,
           CellsHoldTheRest
      <4> QED BY <4>1, Sizes DEF Smaller
    <3>2. sent \in Seq(Nat) /\ sent' \in Seq(Nat)
      BY <1>1 DEF TypeOK
    <3>3. b \in Seq(Nat)
      BY <3>1
    <3> QED BY <3>2, <3>3
  <2> HIDE DEF b
  <2>4. Len(sent) <= Len(sent') /\ \A k \in 1..Len(sent) : sent[k] = sent'[k]
    <3>1. /\ Len(sent \o b) = Len(sent) + Len(b) /\ Len(sent) \in Nat /\ Len(b) \in Nat
          /\ \A k \in 1..(Len(sent) + Len(b)) :
               (sent \o b)[k] = IF k <= Len(sent) THEN sent[k] ELSE b[k - Len(sent)]
      BY <2>3, ConcatProperties, LenProperties
    <3> QED BY <2>2, <3>1
  <2>5. IsPrefix(sent, sent')
    BY <2>3, <2>4, PrefixIs
  <2>6. Len(sent') - Len(rcvd) <= Size
    BY <1>1, <2>2, Sizes DEF CellsHoldTheRest, Held
  <2> QED BY <2>2, <2>5, <2>6 DEF Fifo!PutSome, Fifo!IsPrefix, IsPrefix
<1>3. CASE \E t \in Threads : AdvanceOut(t)
  <2>1. PICK t \in Threads : AdvanceOut(t)
    BY <1>3
  <2> DEFINE b == buf[t]
  <2>2. rcvd' = rcvd \o b /\ sent' = sent
    BY <2>1 DEF AdvanceOut
  <2>3. rcvd \in Seq(Nat) /\ rcvd' \in Seq(Nat) /\ b \in Seq(Nat) /\ sent \in Seq(Nat)
    BY <1>1 DEF TypeOK
  <2> HIDE DEF b
  <2>4. Len(rcvd) <= Len(rcvd') /\ \A k \in 1..Len(rcvd) : rcvd[k] = rcvd'[k]
    <3>1. /\ Len(rcvd \o b) = Len(rcvd) + Len(b) /\ Len(rcvd) \in Nat /\ Len(b) \in Nat
          /\ \A k \in 1..(Len(rcvd) + Len(b)) :
               (rcvd \o b)[k] = IF k <= Len(rcvd) THEN rcvd[k] ELSE b[k - Len(rcvd)]
      BY <2>3, ConcatProperties, LenProperties
    <3> QED BY <2>2, <3>1
  <2>5. IsPrefix(rcvd, rcvd')
    BY <2>3, <2>4, PrefixIs
  <2>6. Len(rcvd') <= Len(sent) /\ \A k \in 1..Len(rcvd') : rcvd'[k] = sent[k]
    <3>1. Len(sent') - Len(rcvd') \in 0..Size
      BY <1>1 DEF CellsHoldTheRest, Held
    <3>2. Len(rcvd') \in Nat /\ Len(sent) \in Nat
      BY <2>3
    <3> QED BY <2>2, <3>1, <3>2, Sizes DEF RingInv
  <2>7. IsPrefix(rcvd', sent)
    BY <2>3, <2>6, PrefixIs
  <2> QED BY <2>2, <2>5, <2>7 DEF Fifo!GetSome, Fifo!IsPrefix, IsPrefix
<1>4. CASE UNCHANGED fifoVars
  BY <1>4
<1> QED BY <1>2, <1>3, <1>4 DEF Next, Step, CallPut, CallGet, Lock, CopyFirst, CopySecond, Test,
        Reset, Unlock, Poll, Read, Polled, vars

\* The ring buffer is a bounded FIFO for every size and counter width: what get hands
\* out is what put took, once each and in order, never more than size apart.
THEOREM ImplementsFifo == Spec => FifoSpec
<1>1. Init => Fifo!FifoInit
  BY DEF Init, Fifo!FifoInit
<1>2. RingInv /\ RingInv' /\ [Next]_vars => [Fifo!PutSome \/ Fifo!GetSome]_Fifo!fifoVars
  BY StepRefines
<1> QED BY <1>1, <1>2, Invariance, PTL DEF Spec, FifoSpec, Fifo!FifoSpec
=============================================================================
