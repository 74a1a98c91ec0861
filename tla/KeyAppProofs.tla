----------------------------- MODULE KeyAppProofs -----------------------------
(***************************************************************************)
(* Proofs about KeyApp for any keys and any size of the table: the slots   *)
(* follow the keys, the wake lock covers them, a chord ends with its last  *)
(* key, a click that waits for its gap is in the first slot, and the       *)
(* reports name keys that were down and clicks that were made.             *)
(***************************************************************************)
EXTENDS KeyApp, ProofLemmas, FiniteSetTheorems

USE KeyAssumption

Count == 0..MaxClicks
KeyRec == [code : Codes \cup {NoCode}, status : {RELEASE, PRESS, REPEAT}, cnt : Count]
SaidRec == [what : {"nothing", "single", "chord", "long", "long release"},
            codes : SUBSET (Codes \cup {NoCode}), cnt : 0..Max({MaxClicks, MAX_KEYS})]

\* TypeOK, with its records named.
KeyTypes ==
  /\ key \in [Slots -> KeyRec]
  /\ press_cnt \in 0..MAX_KEYS /\ long \in BOOLEAN
  /\ lock_cnt \in (-MaxLock)..MaxLock
  /\ elapsed \in 0..Long /\ init \in 0..InitDone
  /\ held \subseteq Codes
  /\ said \in SaidRec
  /\ clicks \in [Codes -> 0..MaxClicks]
  /\ hz \subseteq {"early", "drop", "full"}

OneSlotPerKey ==
  \A i, j \in Slots : key[i].code = key[j].code /\ key[i].code # NoCode => i = j

DownAreHeld == \A i \in Down : key[i].code \in held
HeldAreDown == hz = {} => \A c \in held : \E i \in Down : key[i].code = c

\* Before keys_init is over nothing is in the table unless an event came early.
CleanUntilInit ==
  "early" \notin hz /\ init < InitDone => (\A i \in Slots : key[i] = Empty) /\ press_cnt = 0

LockInv ==
  /\ lock_cnt \in Int
  /\ lock_cnt >= Cardinality(held) - Cardinality(Codes)
  /\ "drop" \notin hz => lock_cnt >= Cardinality(held)
  /\ hz = {} => lock_cnt = Cardinality(held)

ChordHasKeys == "early" \notin hz /\ press_cnt # 0 => Down # {}

\* While no chord is being let go the keys that are down are in the first slots, and
\* only the first slot may keep a code or clicks of a key that is up.
Packed ==
  "early" \notin hz /\ press_cnt = 0 =>
    \A i \in Slots :
      /\ i \in Down => \A j \in Slots : j <= i => j \in Down
      /\ i \notin Down /\ i > 1 => key[i].code = NoCode /\ key[i].cnt = 0

TableInv == OneSlotPerKey /\ DownAreHeld /\ HeldAreDown /\ CleanUntilInit /\ ChordHasKeys /\ Packed
KeyInv == KeyTypes /\ TableInv /\ LockInv

-----------------------------------------------------------------------------
LEMMA SameTypes == TypeOK <=> KeyTypes
BY Zenon DEF TypeOK, KeyTypes, KeyRec, SaidRec, Count

\* A slot is a record of its three fields.
LEMMA KeyFields ==
  ASSUME KeyTypes, NEW i \in Slots
  PROVE  /\ key[i] \in KeyRec
         /\ key[i].code \in Codes \cup {NoCode} /\ key[i].status \in {RELEASE, PRESS, REPEAT}
         /\ key[i].cnt \in 0..MaxClicks
         /\ key[i] = [code |-> key[i].code, status |-> key[i].status, cnt |-> key[i].cnt]
<1>1. key[i] \in KeyRec
  BY DEF KeyTypes
<1> QED BY <1>1 DEF KeyRec, Count

-----------------------------------------------------------------------------
(* Sets of slots and of keys.                                               *)

\* Slots are counted by a number up to MAX_KEYS.
LEMMA SlotCount ==
  ASSUME NEW S, S \subseteq Slots
  PROVE  /\ IsFiniteSet(S) /\ Cardinality(S) \in 0..MAX_KEYS
         /\ Cardinality(S) = 0 <=> S = {}
         /\ \A i \in S : /\ Cardinality(S) = 1 => S = {i}
                         /\ Cardinality(S) > 1 => S \ {i} # {}
<1>1. IsFiniteSet(Slots) /\ Cardinality(Slots) = MAX_KEYS
  BY FS_Interval DEF Slots
<1>2. IsFiniteSet(S) /\ Cardinality(S) <= MAX_KEYS /\ Cardinality(S) \in Nat
  BY <1>1, FS_Subset, FS_CardinalityType
<1>3. Cardinality(S) = 0 <=> S = {}
  BY <1>2, FS_EmptySet
<1>4. ASSUME NEW i \in S
      PROVE  /\ Cardinality(S) = 1 => S = {i}
             /\ Cardinality(S) > 1 => S \ {i} # {}
  <2>1. Cardinality(S) = 1 => S = {i}
    BY <1>2, FS_Singleton
  <2>2. IsFiniteSet(S \ {i}) /\ Cardinality(S \ {i}) = Cardinality(S) - 1
    BY <1>2, FS_RemoveElement
  <2>3. Cardinality(S) > 1 => S \ {i} # {}
    BY <1>2, <2>2, FS_EmptySet
  <2> QED BY <2>1, <2>3
<1> QED BY <1>2, <1>3, <1>4

LEMMA HeldCount ==
  ASSUME NEW S, S \subseteq Codes, NEW c \in Codes
  PROVE  /\ IsFiniteSet(S) /\ Cardinality(S) \in Nat /\ Cardinality(Codes) \in Nat
         /\ Cardinality(S) <= Cardinality(Codes)
         /\ Cardinality(S \cup {c}) = IF c \in S THEN Cardinality(S) ELSE Cardinality(S) + 1
         /\ Cardinality(S \ {c}) = IF c \in S THEN Cardinality(S) - 1 ELSE Cardinality(S)
<1>1. IsFiniteSet(S) /\ Cardinality(S) <= Cardinality(Codes)
  BY FS_Subset
<1>2. Cardinality(S) \in Nat /\ Cardinality(Codes) \in Nat
  BY <1>1, FS_CardinalityType
<1> QED BY <1>1, <1>2, FS_AddElement, FS_RemoveElement

\* Max of the two bounds is one of them and at least both.
LEMMA Bounds ==
  /\ Max({MaxClicks, MAX_KEYS}) \in Nat
  /\ MaxClicks <= Max({MaxClicks, MAX_KEYS}) /\ MAX_KEYS <= Max({MaxClicks, MAX_KEYS})
<1>1. \E x \in {MaxClicks, MAX_KEYS} : \A y \in {MaxClicks, MAX_KEYS} : x >= y
  <2>1. MaxClicks \in Int /\ MAX_KEYS \in Int
    OBVIOUS
  <2> QED BY <2>1
<1>2. /\ Max({MaxClicks, MAX_KEYS}) \in {MaxClicks, MAX_KEYS}
      /\ \A y \in {MaxClicks, MAX_KEYS} : Max({MaxClicks, MAX_KEYS}) >= y
  BY <1>1 DEF Max
<1> QED BY <1>2

LEMMA SlotMin ==
  ASSUME NEW S, S \subseteq Slots, S # {}
  PROVE  Min(S) \in S /\ \A j \in S : Min(S) <= j
<1>1. S \subseteq Nat
  BY DEF Slots
<1> QED BY <1>1, MinIsElement

\* What is printed has its type.
LEMMA ReportTypes ==
  ASSUME KeyTypes
  PROVE  /\ Nothing \in SaidRec
         /\ \A i \in Slots : Single(i) \in SaidRec
         /\ \A n \in 0..MAX_KEYS : \A what \in {"chord", "long"} : Names(what, n) \in SaidRec
         /\ \A c \in Codes : Flushed(c) \in SaidRec
         /\ \A c \in Codes : [what |-> "long release", codes |-> {c}, cnt |-> 1] \in SaidRec
<1>0. /\ 0 \in 0..Max({MaxClicks, MAX_KEYS}) /\ 1 \in 0..Max({MaxClicks, MAX_KEYS})
      /\ 0..MaxClicks \subseteq 0..Max({MaxClicks, MAX_KEYS})
      /\ 0..MAX_KEYS \subseteq 0..Max({MaxClicks, MAX_KEYS})
  BY Bounds
<1>1. Nothing \in SaidRec
  BY <1>0 DEF Nothing, SaidRec
<1>2. ASSUME NEW i \in Slots PROVE Single(i) \in SaidRec
  <2>1. key[i].code \in Codes \cup {NoCode} /\ key[i].cnt \in 0..MaxClicks
    BY KeyFields
  <2> QED BY <2>1, <1>0, <1>1 DEF Single, SaidRec
<1>3. ASSUME NEW n \in 0..MAX_KEYS, NEW what \in {"chord", "long"} PROVE Names(what, n) \in SaidRec
  <2>1. {key[i].code : i \in KeyInfo(n)} \subseteq Codes \cup {NoCode}
    BY KeyFields DEF KeyInfo, Counted
  <2> QED BY <2>1, <1>0 DEF Names, SaidRec
<1>4. ASSUME NEW c \in Codes PROVE Flushed(c) \in SaidRec
  <2>1. Counted # {} => Min(Counted) \in Slots
    BY SlotMin DEF Counted
  <2> QED BY <2>1, <1>1, <1>2 DEF Flushed
<1>5. ASSUME NEW c \in Codes PROVE [what |-> "long release", codes |-> {c}, cnt |-> 1] \in SaidRec
  BY <1>0 DEF SaidRec
<1> QED BY <1>1, <1>2, <1>3, <1>4, <1>5

-----------------------------------------------------------------------------
\* The table is empty at the start, and no key is down.
LEMMA KeyInit == Init => KeyInv
<1> SUFFICES ASSUME Init PROVE KeyInv
  OBVIOUS
<1>1. KeyTypes
  <2>1. Empty \in KeyRec
    BY DEF Empty, KeyRec, Count
  <2>2. key \in [Slots -> KeyRec] /\ clicks \in [Codes -> 0..MaxClicks]
    BY <2>1 DEF Init
  <2>3. said \in SaidRec
    BY Bounds DEF Init, Nothing, SaidRec
  <2>4. 0 \in 0..MAX_KEYS /\ 0 \in (-MaxLock)..MaxLock /\ Long \in 0..Long /\ 0 \in 0..InitDone
    BY DEF InitDone
  <2> QED BY <2>2, <2>3, <2>4, Zenon DEF Init, KeyTypes
<1>2. Down = {}
  BY DEF Init, Down, Empty
<1>3. TableInv
  BY <1>2 DEF Init, TableInv, OneSlotPerKey, DownAreHeld, HeldAreDown, CleanUntilInit, ChordHasKeys, Packed, Empty
<1>4. Cardinality({}) = 0 /\ Cardinality(Codes) \in Nat
  BY FS_EmptySet, FS_CardinalityType
<1>5. LockInv
  BY <1>4 DEF Init, LockInv
<1> QED BY <1>1, <1>3, <1>5 DEF KeyInv

\* main clears one slot more: of a table that is empty unless an event came early.
LEMMA MainInitKeeps == ASSUME KeyInv, MainInit PROVE KeyInv'
<1> USE DEF KeyInv
<1>0. UNCHANGED <<long, lock_cnt, elapsed, held, clicks, hz>> /\ said' = Nothing /\ init < InitDone /\ init' = init + 1
  BY DEF MainInit, Say
<1>1. LockInv'
  BY <1>0 DEF LockInv
<1>2. Empty \in KeyRec /\ Empty.code = NoCode /\ Empty.status = RELEASE /\ Empty.cnt = 0
  BY DEF Empty, KeyRec, Count
<1>3. init \in Int /\ InitDone \in Int /\ init' \in 0..InitDone
  BY <1>0 DEF KeyTypes, InitDone
<1>4. CASE init' \in Slots /\ key' = [key EXCEPT ![init'] = Empty] /\ UNCHANGED press_cnt
  <2>1. key' \in [Slots -> KeyRec]
    BY <1>2, <1>4 DEF KeyTypes, KeyRec, Count
  <2>2. KeyTypes'
    BY <1>0, <1>3, <1>4, <2>1, ReportTypes DEF KeyTypes
  <2>3. \A i \in Slots : key'[i] = key[i] \/ key'[i] = Empty
    BY <1>4 DEF KeyTypes
  <2>4. "early" \notin hz => key' = key
    BY <1>0, <1>4 DEF KeyTypes, CleanUntilInit, TableInv
  <2>5. Down' \subseteq Down /\ \A i \in Down' : key'[i] = key[i]
    BY <1>2, <2>3 DEF Down
  <2>6. OneSlotPerKey' /\ DownAreHeld'
    BY <1>0, <1>2, <2>3, <2>5 DEF TableInv, OneSlotPerKey, DownAreHeld
  <2>7. HeldAreDown' /\ ChordHasKeys' /\ Packed' /\ CleanUntilInit'
    BY <1>0, <1>4, <1>3, <2>4 DEF TableInv, HeldAreDown, ChordHasKeys, Packed, CleanUntilInit, Down
  <2> QED BY <1>1, <2>2, <2>6, <2>7 DEF TableInv
<1>5. CASE init' = InitDone /\ press_cnt' = 0 /\ UNCHANGED key
  <2>1. KeyTypes'
    <3>1. 0 \in 0..MAX_KEYS
      OBVIOUS
    <3> QED BY <1>0, <1>3, <1>5, <3>1, ReportTypes, Zenon DEF KeyTypes
  <2>2. OneSlotPerKey' /\ DownAreHeld' /\ HeldAreDown'
    BY <1>0, <1>5 DEF TableInv, OneSlotPerKey, DownAreHeld, HeldAreDown, Down
  <2>3. "early" \notin hz => press_cnt = 0
    BY <1>0 DEF TableInv, CleanUntilInit
  <2>4. CleanUntilInit' /\ ChordHasKeys' /\ Packed'
    BY <1>0, <1>3, <1>5, <2>3 DEF TableInv, CleanUntilInit, ChordHasKeys, Packed, Down
  <2> QED BY <1>1, <2>1, <2>2, <2>4 DEF TableInv
<1> QED BY <1>4, <1>5 DEF MainInit

\* Time passes.
LEMMA TickKeeps == ASSUME KeyInv, Tick PROVE KeyInv'
<1> USE DEF KeyInv
<1>1. UNCHANGED <<keyVars, lock_cnt, init, held, clicks, hz>> /\ said' = Nothing /\ elapsed' = Min({elapsed + 1, Long})
  BY DEF Tick, Say
<1>2. elapsed' \in 0..Long
  <2>1. {elapsed + 1, Long} \subseteq Nat
    BY DEF KeyTypes
  <2>2. elapsed' \in {elapsed + 1, Long} /\ elapsed' <= Long
    BY <1>1, <2>1, MinIsElement
  <2> QED BY <2>1, <2>2
<1>3. KeyTypes'
  BY <1>1, <1>2, ReportTypes DEF KeyTypes, keyVars
<1>4. TableInv' /\ LockInv'
  BY <1>1 DEF TableInv, OneSlotPerKey, DownAreHeld, HeldAreDown, CleanUntilInit, ChordHasKeys, Packed, LockInv, Down, keyVars
<1> QED BY <1>3, <1>4

LEMMA EarlyEvents == ASSUME KeyTypes PROVE /\ init = InitDone \/ Early = {"early"}
                                         /\ Early \subseteq {"early"}
BY DEF KeyTypes, Early, InitDone

\* A dropped event empties the table.
LEMMA OverflowKeeps == ASSUME KeyInv, BufferOverflow PROVE KeyInv'
<1> USE DEF KeyInv
<1>0. /\ key' = [i \in Slots |-> Empty] /\ press_cnt' = 0 /\ lock_cnt' = 0 /\ held' \in SUBSET Codes
      /\ said' = Nothing /\ hz' = hz \cup Early \cup {"drop"} /\ clicks' = [c \in Codes |-> 0]
      /\ UNCHANGED <<long, elapsed, init>>
  BY DEF BufferOverflow, KeysInit, Say
<1>1. Empty \in KeyRec /\ Empty.code = NoCode /\ Empty.status = RELEASE /\ Empty.cnt = 0
  BY DEF Empty, KeyRec, Count
<1>2. key' \in [Slots -> KeyRec] /\ clicks' \in [Codes -> 0..MaxClicks]
  BY <1>0, <1>1
<1>3. hz' \subseteq {"early", "drop", "full"}
  BY <1>0, EarlyEvents DEF KeyTypes
<1>4. KeyTypes'
  <2>1. 0 \in (-MaxLock)..MaxLock /\ 0 \in 0..MAX_KEYS
    OBVIOUS
  <2> QED BY <1>0, <1>2, <1>3, <2>1, ReportTypes DEF KeyTypes
<1>5. Down' = {}
  BY <1>0, <1>1 DEF Down
<1>6. TableInv'
  BY <1>0, <1>1, <1>5 DEF TableInv, OneSlotPerKey, DownAreHeld, HeldAreDown, CleanUntilInit, ChordHasKeys, Packed
<1>7. Cardinality(held') \in Nat /\ Cardinality(Codes) \in Nat /\ Cardinality(held') <= Cardinality(Codes)
  BY <1>0, FS_Subset, FS_CardinalityType
<1>8. LockInv'
  BY <1>0, <1>7 DEF LockInv
<1> QED BY <1>4, <1>6, <1>8

\* A time-out clears clicks and, in a slot of a key that is up, the code.
LEMMA TimeoutKeeps == ASSUME KeyInv, PollTimeout PROVE KeyInv'
<1> USE DEF KeyInv
<1>0. /\ Counted # {}
      /\ LongPress \/ ClickGap
      /\ hz' = hz \cup Early
      /\ clicks' = [c \in Codes |-> IF c \in Reported \/ hz' # {} THEN 0 ELSE clicks[c]]
      /\ UNCHANGED <<press_cnt, lock_cnt, elapsed, init, held>>
  BY DEF PollTimeout
<1>1. Counted \subseteq Slots /\ Min(Counted) \in Slots
  <2>1. Counted \subseteq Slots
    BY DEF Counted
  <2>2. Counted # {}
    BY <1>0
  <2> QED BY <2>1, <2>2, SlotMin, Zenon
<1>2. /\ said' \in SaidRec /\ long' \in BOOLEAN
      /\ key' \in [Slots -> KeyRec]
      /\ \A i \in Slots : /\ key'[i].status = key[i].status /\ key'[i].cnt \in {0, key[i].cnt}
                          /\ \/ key'[i].code = key[i].code
                             \/ key'[i].code = NoCode /\ i \notin Down
  <2>1. CASE LongPress
    <3>1. Cardinality(Counted \cap Down) \in 0..MAX_KEYS
      BY <1>1, SlotCount
    <3>2. said' \in SaidRec
      BY <1>1, <2>1, <3>1, ReportTypes DEF LongPress, Say
    <3>3. \A i \in Slots : key'[i] = [code |-> key[i].code, status |-> key[i].status, cnt |-> 0]
      <4> SUFFICES ASSUME NEW i \in Slots
                   PROVE  key'[i] = [code |-> key[i].code, status |-> key[i].status, cnt |-> 0]
        OBVIOUS
      <4>1. key[i] \in KeyRec
        BY KeyFields
      <4>2. [key[i] EXCEPT !.cnt = 0] = [code |-> key[i].code, status |-> key[i].status, cnt |-> 0]
        BY <4>1 DEF KeyRec
      <4>3. key'[i] = [key[i] EXCEPT !.cnt = 0]
        BY <2>1 DEF LongPress
      <4> QED BY <4>2, <4>3
    <3>4. key' = [i \in Slots |-> key'[i]]
      BY <2>1 DEF LongPress
    <3>5. key' \in [Slots -> KeyRec]
      BY <3>3, <3>4 DEF KeyTypes, KeyRec, Count
    <3> QED BY <2>1, <3>2, <3>3, <3>5 DEF LongPress
  <2>2. CASE ClickGap
    <3>1. PICK i \in Slots : /\ key[i].status = RELEASE /\ said' = Single(i)
                             /\ key' = [key EXCEPT ![i] = [code |-> NoCode, status |-> @.status, cnt |-> 0]]
                             /\ UNCHANGED long
      BY <2>2 DEF ClickGap, Say
    <3>2. key' = [key EXCEPT ![i] = [code |-> NoCode, status |-> key[i].status, cnt |-> 0]]
      BY <3>1 DEF KeyTypes
    <3>3. key' \in [Slots -> KeyRec]
      BY <3>2 DEF KeyTypes, KeyRec, Count
    <3>4. said' \in SaidRec /\ long' \in BOOLEAN
      BY <3>1, ReportTypes DEF KeyTypes
    <3>5. key'[i] = [code |-> NoCode, status |-> key[i].status, cnt |-> 0] /\ \A j \in Slots \ {i} : key'[j] = key[j]
      BY <3>2 DEF KeyTypes
    <3> QED BY <3>1, <3>3, <3>4, <3>5 DEF Down
  <2> QED BY <1>0, <2>1, <2>2
<1>3. KeyTypes'
  <2>1. hz' \subseteq {"early", "drop", "full"}
    BY <1>0, EarlyEvents DEF KeyTypes
  <2>2. clicks' \in [Codes -> 0..MaxClicks]
    BY <1>0 DEF KeyTypes
  <2> QED BY <1>0, <1>2, <2>1, <2>2 DEF KeyTypes
<1>4. Down' = Down /\ \A i \in Down : key'[i].code = key[i].code
  BY <1>2 DEF Down
<1>5. OneSlotPerKey' /\ DownAreHeld' /\ HeldAreDown'
  BY <1>0, <1>2, <1>4 DEF TableInv, OneSlotPerKey, DownAreHeld, HeldAreDown, Down
<1>6. CleanUntilInit' /\ ChordHasKeys'
  BY <1>0, <1>4, EarlyEvents DEF TableInv, CleanUntilInit, ChordHasKeys, KeyTypes, InitDone
<1>7. Packed'
  BY <1>0, <1>2, <1>4 DEF TableInv, Packed
<1>8. LockInv'
  BY <1>0 DEF LockInv
<1> QED BY <1>3, <1>5, <1>6, <1>7, <1>8 DEF TableInv

-----------------------------------------------------------------------------
(* The events.                                                              *)

\* What every event does, whatever becomes of it in the table.
LEMMA EventFrame ==
  ASSUME KeyInv, NEW c \in Codes, NEW v \in {RELEASE, PRESS, REPEAT}, Event(c, v)
  PROVE  /\ hz \subseteq hz' /\ hz' \subseteq {"early", "drop", "full"} /\ ("drop" \in hz' => "drop" \in hz)
         /\ init' = init /\ (init = InitDone \/ "early" \in hz')
         /\ (v = PRESS) <=> (c \notin held)
         /\ held' = IF v = RELEASE THEN held \ {c} ELSE held \cup {c}
         /\ held' \subseteq Codes
         /\ clicks' \in [Codes -> 0..MaxClicks]
         /\ v = PRESS => lock_cnt < MaxLock /\ \A i \in Known(c) : key[i].cnt < MaxClicks
<1> USE DEF KeyInv
<1>1. hz' = hz \cup Early \/ hz' = hz \cup Early \cup {"full"}
  BY DEF Event, CheckKeyStatus
<1>2. /\ hz \subseteq hz' /\ hz' \subseteq {"early", "drop", "full"} /\ ("drop" \in hz' => "drop" \in hz)
      /\ init = InitDone \/ "early" \in hz'
  BY <1>1, EarlyEvents DEF KeyTypes
<1>3. /\ init' = init
      /\ (v = PRESS) <=> (c \notin held)
      /\ held' = IF v = RELEASE THEN held \ {c} ELSE held \cup {c}
      /\ v = PRESS => /\ clicks[c] < MaxClicks /\ lock_cnt < MaxLock
                      /\ \A i \in Known(c) : key[i].cnt < MaxClicks
      /\ clicks' = [d \in Codes |->
           IF hz' # {} THEN 0
           ELSE IF v = PRESS /\ d = c THEN clicks[c] + 1
           ELSE IF d \in Reported \/ (v = PRESS /\ d \notin held) THEN 0
           ELSE clicks[d]]
  BY Zenon DEF Event
<1>4. held' \subseteq Codes
  BY <1>3 DEF KeyTypes
<1>5. clicks' \in [Codes -> 0..MaxClicks]
  <2>1. \A d \in Codes : clicks[d] \in 0..MaxClicks
    BY DEF KeyTypes
  <2>2. ASSUME NEW d \in Codes PROVE clicks'[d] \in 0..MaxClicks
    <3>1. v = PRESS => clicks[c] + 1 \in 0..MaxClicks
      BY <1>3, <2>1
    <3>2. clicks'[d] \in {0, clicks[d]} \/ (v = PRESS /\ clicks'[d] = clicks[c] + 1)
      BY <1>3
    <3> QED BY <2>1, <3>1, <3>2
  <2>3. clicks' = [d \in Codes |-> clicks'[d]]
    BY <1>3
  <2> QED BY <2>2, <2>3
<1> QED BY <1>2, <1>3, <1>4, <1>5, Zenon

\* A key whose event is discarded was not pressed, and was not let go either when the
\* table had followed every event.
LEMMA DiscardedEvent ==
  ASSUME KeyInv, NEW c \in Codes, NEW v \in {RELEASE, PRESS, REPEAT}, Discarded(c, v),
         (v = PRESS) <=> (c \notin held)
  PROVE  v # PRESS /\ (v = RELEASE => hz # {})
<1> USE DEF KeyInv, TableInv
<1>1. v # PRESS
  BY DEF Discarded, Known, DownAreHeld, Down, RELEASE, PRESS
<1>2. ASSUME v = RELEASE, hz = {} PROVE FALSE
  <2>1. c \in held
    BY <1>2 DEF RELEASE, PRESS
  <2>2. PICK i \in Down : key[i].code = c
    BY <1>2, <2>1 DEF HeldAreDown
  <2>3. PICK j \in Known(c) : key[j].status = RELEASE
    BY <1>2, <2>2 DEF Discarded, Known, Down
  <2>4. i = j
    BY <2>2, <2>3 DEF OneSlotPerKey, Known, Down
  <2> QED BY <2>2, <2>3, <2>4 DEF Down
<1> QED BY <1>1, <1>2

\* The lock is counted with the keys that are down, and stays above them when an event
\* is discarded.
LEMMA EventLock ==
  ASSUME KeyInv, NEW c \in Codes, NEW v \in {RELEASE, PRESS, REPEAT}, Event(c, v)
  PROVE  LockInv' /\ lock_cnt' \in (-MaxLock)..MaxLock
<1> USE DEF KeyInv
<1>1. /\ held \subseteq Codes /\ held' \subseteq Codes /\ lock_cnt \in Int /\ MaxLock \in Int
      /\ lock_cnt <= MaxLock /\ Cardinality(Codes) <= MaxLock
  BY EventFrame DEF KeyTypes
<1>2. /\ Cardinality(held) \in Nat /\ Cardinality(held') \in Nat /\ Cardinality(Codes) \in Nat
      /\ v = PRESS => Cardinality(held') = Cardinality(held) + 1
      /\ v = RELEASE => Cardinality(held') = Cardinality(held) - 1
      /\ v = REPEAT => Cardinality(held') = Cardinality(held)
  <2>1. RELEASE # PRESS /\ REPEAT # PRESS /\ REPEAT # RELEASE
    BY DEF RELEASE, PRESS, REPEAT
  <2>2. (v = PRESS <=> c \notin held) /\ held' = IF v = RELEASE THEN held \ {c} ELSE held \cup {c}
    BY EventFrame
  <2>3. Cardinality(held) \in Nat /\ Cardinality(held') \in Nat /\ Cardinality(Codes) \in Nat
    BY <1>1, HeldCount
  <2>4. v = PRESS => Cardinality(held') = Cardinality(held) + 1
    BY <1>1, <2>1, <2>2, HeldCount
  <2>5. v = RELEASE => Cardinality(held') = Cardinality(held) - 1
    BY <1>1, <2>1, <2>2, HeldCount
  <2>6. v = REPEAT => Cardinality(held') = Cardinality(held)
    BY <1>1, <2>1, <2>2, HeldCount
  <2> QED BY <2>3, <2>4, <2>5, <2>6
<1>3. LockInv' /\ lock_cnt' <= MaxLock
  <2>1. CASE Discarded(c, v) /\ UNCHANGED tableVars
    <3>1. lock_cnt' = lock_cnt
      BY <2>1 DEF tableVars
    <3>2. v # PRESS /\ (v = RELEASE => hz # {})
      BY <2>1, EventFrame, DiscardedEvent
    <3> QED BY <1>1, <1>2, <3>1, <3>2, EventFrame DEF LockInv
  <2>2. CASE CountLock(v)
    <3>1. /\ v = PRESS => lock_cnt' = lock_cnt + 1
          /\ v = RELEASE => lock_cnt' = lock_cnt - 1
          /\ v = REPEAT => lock_cnt' = lock_cnt
      BY <2>2 DEF CountLock, RELEASE, PRESS, REPEAT
    <3> QED BY <1>1, <1>2, <3>1, EventFrame DEF LockInv
  <2> QED BY <2>1, <2>2 DEF Event, CheckKeyStatus
<1>4. lock_cnt' >= -MaxLock
  BY <1>1, <1>2, <1>3 DEF LockInv
<1> QED BY <1>1, <1>3, <1>4 DEF LockInv

\* An event that is discarded, or finds the table full, leaves the table alone.
LEMMA EventIgnored ==
  ASSUME KeyInv, NEW c \in Codes, NEW v \in {RELEASE, PRESS, REPEAT}, Event(c, v),
         said' = Nothing, UNCHANGED <<keyVars, elapsed>>,
         Discarded(c, v) \/ (Known(c) = {} /\ ~Discarded(c, v) /\ hz' # {})
  PROVE  KeyInv'
<1> USE DEF KeyInv, TableInv
<1>1. LockInv' /\ lock_cnt' \in (-MaxLock)..MaxLock
  BY EventLock
<1>2. KeyTypes'
  BY <1>1, EventFrame, ReportTypes DEF KeyTypes, keyVars
<1>3. Down' = Down /\ key' = key /\ press_cnt' = press_cnt
  BY DEF keyVars, Down
<1>4. OneSlotPerKey' /\ ChordHasKeys' /\ Packed'
  BY <1>3, EventFrame DEF OneSlotPerKey, ChordHasKeys, Packed
<1>5. CleanUntilInit'
  BY EventFrame DEF CleanUntilInit, InitDone
<1>6. DownAreHeld'
  <2> SUFFICES ASSUME NEW i \in Down PROVE key[i].code \in held'
    BY <1>3 DEF DownAreHeld
  <2>1. key[i].code \in held
    BY DEF DownAreHeld
  <2>2. CASE v = RELEASE /\ key[i].code = c
    <3>1. i \in Known(c) /\ key[i].status # RELEASE
      BY <2>2 DEF Known, Down
    <3>2. PICK j \in Known(c) : key[j].status = RELEASE
      BY <2>2, <3>1 DEF Discarded
    <3>3. i = j
      BY <3>1, <3>2 DEF OneSlotPerKey, Known
    <3> QED BY <3>1, <3>2, <3>3
  <2> QED BY <2>1, <2>2, EventFrame
<1>7. HeldAreDown'
  <2> SUFFICES ASSUME hz' = {}, NEW d \in held' PROVE \E i \in Down : key[i].code = d
    BY <1>3 DEF HeldAreDown
  <2>1. Discarded(c, v) /\ hz = {}
    BY EventFrame
  <2>2. v # PRESS
    BY <2>1, EventFrame, DiscardedEvent
  <2>3. d \in held
    BY <2>2, EventFrame
  <2> QED BY <2>1, <2>3 DEF HeldAreDown
<1> QED BY <1>1, <1>2, <1>4, <1>5, <1>6, <1>7

\* Writing a slot: the one that has the key, or any when none has it.
LEMMA PutSlot ==
  ASSUME KeyInv, NEW c \in Codes, NEW v \in {RELEASE, PRESS, REPEAT}, NEW i \in Slots, NEW n \in Count,
         key[i].code = c \/ Known(c) = {}, Put(i, c, v, n)
  PROVE  /\ key' \in [Slots -> KeyRec] /\ OneSlotPerKey'
         /\ key'[i] = [code |-> c, status |-> v, cnt |-> n]
         /\ \A j \in Slots \ {i} : key'[j] = key[j]
         /\ Down' = IF v = RELEASE THEN Down \ {i} ELSE Down \cup {i}
<1> USE DEF KeyInv, TableInv
<1>1. [code |-> c, status |-> v, cnt |-> n] \in KeyRec
  BY DEF KeyRec
<1>2. key' = [key EXCEPT ![i] = [code |-> c, status |-> v, cnt |-> n]]
  BY DEF Put
<1>3. key' \in [Slots -> KeyRec]
  BY <1>1, <1>2 DEF KeyTypes
<1>4. key'[i] = [code |-> c, status |-> v, cnt |-> n] /\ \A j \in Slots \ {i} : key'[j] = key[j]
  BY <1>2 DEF KeyTypes
<1>5. OneSlotPerKey'
  <2>1. \A j \in Slots \ {i} : key[j].code # c
    BY DEF OneSlotPerKey, Known
  <2> QED BY <1>4, <2>1 DEF OneSlotPerKey
<1>6. Down' = IF v = RELEASE THEN Down \ {i} ELSE Down \cup {i}
  BY <1>4 DEF Down
<1> QED BY <1>3, <1>4, <1>5, <1>6

\* A press or a repeat takes the key's slot, or the first one that is free.
LEMMA PressKeeps ==
  ASSUME KeyInv, NEW c \in Codes, NEW v \in {PRESS, REPEAT}, Event(c, v), NEW i \in Slots,
         IF Known(c) # {} THEN key[i].code = c ELSE i \in Free /\ \A j \in Free : i <= j,
         Press(c, i) \/ Repeat(c, i), Press(c, i) <=> v = PRESS
  PROVE  KeyInv'
<1> USE DEF KeyInv, TableInv
<1>0. v # RELEASE /\ v \in {RELEASE, PRESS, REPEAT} /\ RELEASE # PRESS /\ REPEAT # PRESS /\ RELEASE # REPEAT
  BY DEF RELEASE, PRESS, REPEAT
<1>1. PICK n \in Count : Put(i, c, v, n)
  <2>0. 0 \in Count /\ 1 \in Count /\ key[i].cnt \in Count /\ MaxClicks \in Nat
    <3>1. key[i].cnt \in 0..MaxClicks
      BY KeyFields
    <3> QED BY <3>1 DEF Count
  <2>1. CASE Press(c, i)
    <3>1. v = PRESS /\ Put(i, c, v, StartsAt(c, i) + (IF key[i].status = RELEASE THEN 1 ELSE 0))
      BY <2>1 DEF Press
    <3>2. CASE Known(c) = {}
      <4>1. StartsAt(c, i) = 0
        BY <3>2 DEF StartsAt
      <4> QED BY <3>1, <4>1, <2>0
    <3>3. CASE Known(c) # {}
      <4>1. StartsAt(c, i) = key[i].cnt /\ i \in Known(c)
        BY <3>3 DEF StartsAt, Known
      <4>2. key[i].cnt < MaxClicks
        BY <3>1, <4>1, <1>0, EventFrame
      <4>3. key[i].cnt + 1 \in Count /\ key[i].cnt + 0 \in Count
        BY <2>0, <4>2 DEF Count
      <4> QED BY <3>1, <4>1, <4>3
    <3> QED BY <3>2, <3>3
  <2>2. CASE Repeat(c, i) /\ v = REPEAT
    <3>1. Put(i, c, v, StartsAt(c, i)) /\ StartsAt(c, i) \in Count
      BY <2>0, <2>2 DEF Repeat, StartsAt
    <3> QED BY <3>1
  <2> QED BY <2>1, <2>2, <1>0
<1>2. said' = Flushed(c) /\ elapsed' \in {0, elapsed} /\ UNCHANGED <<press_cnt, long>>
  BY DEF Press, Repeat, Say
<1>3. /\ key' \in [Slots -> KeyRec] /\ OneSlotPerKey'
      /\ key'[i].code = c
      /\ \A j \in Slots \ {i} : key'[j] = key[j]
      /\ Down' = Down \cup {i}
  <2>1. key[i].code = c \/ Known(c) = {}
    OBVIOUS
  <2>2. /\ key' \in [Slots -> KeyRec] /\ OneSlotPerKey'
        /\ key'[i] = [code |-> c, status |-> v, cnt |-> n]
        /\ \A j \in Slots \ {i} : key'[j] = key[j]
        /\ Down' = IF v = RELEASE THEN Down \ {i} ELSE Down \cup {i}
    <3> HIDE DEF KeyInv, TableInv
    <3>1. KeyInv /\ v \in {RELEASE, PRESS, REPEAT} /\ n \in Count /\ Put(i, c, v, n)
      BY <1>0, <1>1
    <3> QED BY <2>1, <3>1, PutSlot
  <2> QED BY <1>0, <2>2
<1>4. held' = held \cup {c} /\ init' = init /\ (init = InitDone \/ "early" \in hz') /\ hz \subseteq hz'
  BY <1>0, EventFrame
<1>5. LockInv' /\ lock_cnt' \in (-MaxLock)..MaxLock
  BY <1>0, EventLock
<1>6. KeyTypes'
  <2>1. elapsed' \in 0..Long
    BY <1>2 DEF KeyTypes
  <2> QED BY <1>0, <1>2, <1>3, <1>5, <2>1, EventFrame, ReportTypes DEF KeyTypes
<1>7. DownAreHeld'
  BY <1>3, <1>4 DEF DownAreHeld, Down
<1>8. HeldAreDown'
  <2> SUFFICES ASSUME hz' = {}, NEW d \in held' PROVE \E j \in Down' : key'[j].code = d
    BY DEF HeldAreDown
  <2>1. CASE d = c
    BY <2>1, <1>3
  <2>2. CASE d # c
    <3>1. d \in held /\ hz = {} /\ d # NoCode
      BY <2>2, <1>4 DEF KeyTypes
    <3>2. PICK j \in Down : key[j].code = d
      BY <3>1 DEF HeldAreDown
    <3>3. j # i
      BY <3>1, <3>2, <2>2 DEF Free, Down
    <3> QED BY <3>2, <3>3, <1>3 DEF Down
  <2> QED BY <2>1, <2>2
<1>9. CleanUntilInit' /\ ChordHasKeys'
  BY <1>3, <1>4 DEF CleanUntilInit, ChordHasKeys, InitDone
<1>10. Packed'
  <2> SUFFICES ASSUME "early" \notin hz, press_cnt = 0, NEW j \in Slots
               PROVE  /\ j \in Down' => \A k \in Slots : k <= j => k \in Down'
                      /\ j \notin Down' /\ j > 1 => key'[j].code = NoCode /\ key'[j].cnt = 0
    BY <1>2, <1>4 DEF Packed
  <2>1. CASE j \notin Down'
    <3>1. j \notin Down /\ key'[j] = key[j]
      BY <2>1, <1>3
    <3> QED BY <2>1, <3>1 DEF Packed
  <2>2. CASE j \in Down
    BY <2>2, <1>3 DEF Packed
  <2>3. CASE j = i /\ j \notin Down
    <3> SUFFICES ASSUME NEW k \in Slots, k <= i PROVE k \in Down \cup {i}
      BY <2>3, <1>3
    <3>1. CASE Known(c) # {}
      <4>1. key[i].code # NoCode
        BY <3>1
      <4>2. ~(i > 1)
        BY <2>3, <4>1 DEF Packed
      <4> QED BY <4>2 DEF Slots
    <3>2. CASE Known(c) = {}
      <4>1. k # i => k \notin Free
        BY <3>2 DEF Free, Slots
      <4> QED BY <4>1 DEF Free, Down
    <3> QED BY <3>1, <3>2
  <2> QED BY <2>1, <2>2, <2>3, <1>3
<1> QED BY <1>3, <1>5, <1>6, <1>7, <1>8, <1>9, <1>10

\* A release frees the key's slot, and the whole table with the last key of a chord.
LEMMA ReleaseKeeps ==
  ASSUME KeyInv, NEW c \in Codes, Event(c, RELEASE), NEW i \in Down, key[i].code = c, Release(c, i)
  PROVE  KeyInv'
<1> USE DEF KeyInv, TableInv
<1> DEFINE n == Cardinality(Down)
<1>0. /\ i \in Slots /\ Down \subseteq Slots /\ n \in 1..MAX_KEYS
      /\ n = 1 => Down = {i}
      /\ n > 1 => Down \ {i} # {}
  <2>1. i \in Slots /\ Down \subseteq Slots
    BY DEF Down
  <2>2. n \in 0..MAX_KEYS /\ n # 0
    BY <2>1, SlotCount
  <2> QED BY <2>1, <2>2, SlotCount
<1>1. /\ held' = held \ {c} /\ init' = init /\ (init = InitDone \/ "early" \in hz') /\ hz \subseteq hz'
      /\ hz' \subseteq {"early", "drop", "full"} /\ held' \subseteq Codes /\ clicks' \in [Codes -> 0..MaxClicks]
  BY EventFrame
<1>2. LockInv' /\ lock_cnt' \in (-MaxLock)..MaxLock
  BY EventLock
<1>3. CleanUntilInit'
  BY <1>1 DEF CleanUntilInit, InitDone
<1>4. \A j \in Down \ {i} : key[j].code \in held \ {c}
  <2> TAKE j \in Down \ {i}
  <2>1. key[j].code \in held /\ j \in Slots
    BY DEF DownAreHeld, Down
  <2>2. key[j].code # c
    BY <1>0, <2>1 DEF OneSlotPerKey
  <2> QED BY <2>1, <2>2
<1>5. ASSUME hz' = {}, NEW d \in held' PROVE \E j \in Down \ {i} : key[j].code = d
  <2>1. d \in held /\ d # c /\ hz = {}
    BY <1>1, <1>5
  <2> QED BY <2>1 DEF HeldAreDown
<1>6. CASE /\ n > 1 /\ press_cnt' \in 1..MAX_KEYS /\ said' \in SaidRec /\ elapsed' \in 0..Long
           /\ Put(i, c, RELEASE, 0) /\ UNCHANGED long
  <2>1. 0 \in Count
    BY DEF Count
  <2>2. /\ key' \in [Slots -> KeyRec] /\ OneSlotPerKey'
        /\ \A j \in Slots \ {i} : key'[j] = key[j]
        /\ Down' = IF RELEASE = RELEASE THEN Down \ {i} ELSE Down \cup {i}
    <3> HIDE DEF KeyInv, TableInv
    <3>1. KeyInv /\ i \in Slots /\ RELEASE \in {RELEASE, PRESS, REPEAT} /\ Put(i, c, RELEASE, 0)
      BY <1>0, <1>6
    <3> QED BY <2>1, <3>1, PutSlot
  <2>3. KeyTypes'
    BY <1>1, <1>2, <1>6, <2>2 DEF KeyTypes
  <2>4. DownAreHeld'
    BY <1>0, <1>1, <1>4, <2>2 DEF DownAreHeld
  <2>5. HeldAreDown'
    BY <1>0, <1>5, <2>2 DEF HeldAreDown
  <2>6. ChordHasKeys' /\ Packed'
    BY <1>0, <1>6, <2>2 DEF ChordHasKeys, Packed
  <2> QED BY <1>2, <1>3, <2>2, <2>3, <2>4, <2>5, <2>6
<1>7. CASE n = 1 /\ KeysInit /\ said' = Nothing /\ UNCHANGED <<long, elapsed>>
  <2>1. /\ key' = [j \in Slots |-> Empty] /\ press_cnt' = 0
        /\ Empty \in KeyRec /\ Empty.code = NoCode /\ Empty.status = RELEASE /\ Empty.cnt = 0
    BY <1>7 DEF KeysInit, Empty, KeyRec, Count
  <2>2. Down' = {} /\ key' \in [Slots -> KeyRec]
    BY <2>1 DEF Down
  <2>3. KeyTypes'
    <3>1. 0 \in 0..MAX_KEYS
      OBVIOUS
    <3> QED BY <1>1, <1>2, <1>7, <2>1, <2>2, <3>1, ReportTypes DEF KeyTypes
  <2>4. HeldAreDown'
    BY <1>0, <1>5, <1>7 DEF HeldAreDown
  <2>5. OneSlotPerKey' /\ DownAreHeld' /\ ChordHasKeys' /\ Packed'
    BY <2>1, <2>2 DEF OneSlotPerKey, DownAreHeld, ChordHasKeys, Packed
  <2> QED BY <1>2, <1>3, <2>3, <2>4, <2>5
<1>8. CASE /\ n = 1 /\ press_cnt = 0 /\ said' \in SaidRec /\ long' = FALSE
           /\ key' = [key EXCEPT ![i].status = RELEASE] /\ UNCHANGED <<press_cnt, elapsed>>
  <2>1. /\ key' = [key EXCEPT ![i] = [code |-> key[i].code, status |-> RELEASE, cnt |-> key[i].cnt]]
    <3>1. key[i] \in KeyRec
      BY <1>0, KeyFields
    <3>2. [key[i] EXCEPT !.status = RELEASE] = [code |-> key[i].code, status |-> RELEASE, cnt |-> key[i].cnt]
      BY <3>1 DEF KeyRec
    <3> QED BY <1>8, <3>2
  <2>2. [code |-> key[i].code, status |-> RELEASE, cnt |-> key[i].cnt] \in KeyRec
    BY <1>0, KeyFields DEF KeyRec, Count
  <2>3. /\ key' \in [Slots -> KeyRec]
        /\ key'[i].code = key[i].code /\ key'[i].status = RELEASE
        /\ \A j \in Slots \ {i} : key'[j] = key[j]
    BY <1>0, <2>1, <2>2 DEF KeyTypes
  <2>4. Down' = {}
    BY <1>0, <1>8, <2>3 DEF Down
  <2>5. KeyTypes'
    BY <1>1, <1>2, <1>8, <2>3 DEF KeyTypes
  <2>6. OneSlotPerKey'
    <3>1. \A j \in Slots : key'[j].code = key[j].code
      BY <2>3
    <3> QED BY <3>1 DEF OneSlotPerKey
  <2>7. DownAreHeld' /\ ChordHasKeys'
    BY <1>8, <2>4 DEF DownAreHeld, ChordHasKeys
  <2>8. HeldAreDown'
    BY <1>0, <1>5, <1>8 DEF HeldAreDown
  <2>9. Packed'
    <3> SUFFICES ASSUME "early" \notin hz, NEW j \in Slots, j > 1
                 PROVE  key'[j].code = NoCode /\ key'[j].cnt = 0
      BY <1>1, <2>4 DEF Packed
    <3>1. 1 \in Slots /\ 1 <= i
      BY <1>0 DEF Slots
    <3>2. 1 \in Down
      BY <1>8, <3>1, <1>0 DEF Packed
    <3>3. i = 1
      BY <1>0, <1>8, <3>2
    <3>4. j # i /\ j \notin Down
      BY <1>0, <1>8, <3>3
    <3> QED BY <1>8, <2>3, <3>4 DEF Packed
  <2> QED BY <1>2, <1>3, <2>5, <2>6, <2>7, <2>8, <2>9
<1>9. CASE ChordEnds(c, i, n)
  <2>1. elapsed' \in 0..Long /\ said' \in SaidRec
    <3>1. 0 \in 0..Long /\ n \in 0..MAX_KEYS
      BY <1>0
    <3> QED BY <1>9, <3>1, ReportTypes DEF ChordEnds, Say
  <2> QED BY <1>0, <1>6, <1>9, <2>1 DEF ChordEnds
<1>10. CASE ChordGoes(c, i, n)
  <2>1. CASE n = 1
    BY <1>7, <1>10, <2>1 DEF ChordGoes, Say
  <2>2. CASE n # 1
    <3>1. n > 1 /\ n - 1 \in 1..MAX_KEYS
      BY <1>0, <2>2
    <3>2. said' \in SaidRec /\ elapsed' \in 0..Long
      BY <1>10, ReportTypes DEF ChordGoes, Say, KeyTypes
    <3> QED BY <1>6, <1>10, <2>2, <3>1, <3>2 DEF ChordGoes
  <2> QED BY <2>1, <2>2
<1>11. CASE SingleGoes(c, i, n)
  <2>1. said' \in SaidRec
    BY <1>11, ReportTypes DEF SingleGoes, Say
  <2> QED BY <1>8, <1>11, <2>1 DEF SingleGoes
<1> QED BY <1>9, <1>10, <1>11 DEF Release

LEMMA EventKeeps ==
  ASSUME KeyInv, NEW c \in Codes, NEW v \in {RELEASE, PRESS, REPEAT}, Event(c, v)
  PROVE  KeyInv'
<1>0. KeyInv /\ CheckKeyStatus(c, v)
  BY DEF Event
<1>1. CASE Discarded(c, v) /\ Say(Nothing) /\ UNCHANGED tableVars
  BY <1>1, EventIgnored DEF Say, tableVars
<1>2. CASE /\ ~Discarded(c, v) /\ Known(c) \cup Free = {} /\ Say(Nothing)
           /\ hz' = hz \cup Early \cup {"full"} /\ UNCHANGED <<keyVars, elapsed>>
  BY <1>2, EventIgnored DEF Say
<1>3. ASSUME ~Discarded(c, v), NEW i \in Known(c) \cup Free,
             i = Min(IF Known(c) # {} THEN Known(c) ELSE Free),
             \/ v = PRESS /\ Press(c, i)
             \/ v = RELEASE /\ Release(c, i)
             \/ v = REPEAT /\ Repeat(c, i)
      PROVE  KeyInv'
  <2>0. Known(c) \subseteq Slots /\ Free \subseteq Slots /\ i \in Slots
    BY <1>3 DEF Known, Free
  <2>1. IF Known(c) # {} THEN key[i].code = c ELSE i \in Free /\ \A j \in Free : i <= j
    <3>1. CASE Known(c) # {}
      <4>1. i \in Known(c)
        BY <1>3, <2>0, <3>1, SlotMin
      <4> QED BY <3>1, <4>1 DEF Known
    <3>2. CASE Known(c) = {}
      BY <1>3, <2>0, <3>2, SlotMin
    <3> QED BY <3>1, <3>2
  <2>2. CASE v = PRESS /\ Press(c, i)
    BY <2>0, <2>1, <2>2, PressKeeps
  <2>3. CASE v = REPEAT /\ Repeat(c, i)
    <3>1. ~Press(c, i) \/ v # PRESS
      BY <2>3 DEF PRESS, REPEAT
    <3>2. ~Press(c, i)
      <4>1. key[i] \in KeyRec /\ key \in [Slots -> KeyRec] /\ i \in Slots
        BY <1>0, <2>0, KeyFields DEF KeyInv, KeyTypes
      <4>2. key'[i].status = REPEAT
        BY <2>3, <4>1 DEF Repeat, Put
      <4>3. Press(c, i) => key'[i].status = PRESS
        BY <4>1 DEF Press, Put
      <4> QED BY <4>2, <4>3 DEF PRESS, REPEAT
    <3> QED BY <2>0, <2>1, <2>3, <3>2, PressKeeps DEF PRESS, REPEAT
  <2>4. CASE v = RELEASE /\ Release(c, i)
    <3>1. Known(c) # {}
      BY <1>3, <2>4 DEF Discarded
    <3>2. key[i].code = c /\ i \in Known(c)
      BY <2>0, <2>1, <3>1 DEF Known
    <3>3. i \in Down
      BY <1>3, <2>0, <2>4, <3>2 DEF Discarded, Down
    <3> QED BY <2>4, <3>2, <3>3, ReleaseKeeps
  <2> QED BY <1>3, <2>2, <2>3, <2>4
<1> QED BY <1>0, <1>1, <1>2, <1>3 DEF CheckKeyStatus

-----------------------------------------------------------------------------
LEMMA KeyInductive == Spec => []KeyInv
<1>1. KeyInv /\ [Next]_vars => KeyInv'
  <2> SUFFICES ASSUME KeyInv, [Next]_vars PROVE KeyInv'
    OBVIOUS
  <2>1. CASE UNCHANGED vars
    BY <2>1 DEF vars, tableVars, keyVars, KeyInv, KeyTypes, TableInv, OneSlotPerKey, DownAreHeld, HeldAreDown,
                CleanUntilInit, ChordHasKeys, Packed, LockInv, Down
  <2>2. CASE Next
    BY <2>2, MainInitKeeps, TimeoutKeeps, OverflowKeeps, EventKeeps, TickKeeps DEF Next
  <2> QED BY <2>1, <2>2
<1> QED BY <1>1, KeyInit, PTL DEF Spec

\* A key that is down has a slot of its own: as many slots as keys.
LEMMA InvFollows == KeyInv => SlotsFollowKeys
<1> SUFFICES ASSUME KeyInv PROVE SlotsFollowKeys
  OBVIOUS
<1> DEFINE down == {key[i].code : i \in Down}
<1> USE DEF KeyInv, TableInv
<1>1. TypeOK /\ held \subseteq Codes
  BY SameTypes DEF KeyTypes
<1>2. down \subseteq held
  BY DEF DownAreHeld
<1>3. Cardinality(Down) = Cardinality(down)
  <2> DEFINE f == [i \in Down |-> key[i].code]
  <2>1. f \in Bijection(Down, down)
    <3>1. f \in [Down -> down] /\ \A x \in down : \E i \in Down : f[i] = x
      OBVIOUS
    <3>2. \A i, j \in Down : f[i] = f[j] => i = j
      BY <1>1, <1>2 DEF OneSlotPerKey, Down
    <3> HIDE DEF f, down
    <3> QED BY <3>1, <3>2 DEF Bijection, Injection, Surjection, IsInjective
  <2>2. IsFiniteSet(Down)
    BY SlotCount DEF Down
  <2> HIDE DEF f, down
  <2> QED BY <2>1, <2>2, FS_Bijection DEF ExistsBijection
<1>4. hz = {} => down = held
  BY <1>2 DEF HeldAreDown
<1> QED BY <1>1, <1>2, <1>3, <1>4 DEF SlotsFollowKeys

\* No slot is stuck, in every behaviour with any keys and any size of the table: the
\* slots that are not released hold keys that are down, one slot per key.
\* (check_key_status, key_release_modify)
THEOREM NoSlotStuck == Spec => []SlotsFollowKeys
BY KeyInductive, InvFollows, PTL

\* The wake lock is never released under a key that is down, unless events were dropped,
\* and is counted once for each when none was lost or refused.  (lock_cnt)
THEOREM LockIsHeld == Spec => []LockCoversKeys
<1>1. KeyInv => LockCoversKeys
  BY DEF KeyInv, LockInv, LockCoversKeys
<1> QED BY <1>1, KeyInductive, PTL

\* A chord is over when its last key is let go: press_cnt is 0 again.
THEOREM ChordsEnd == Spec => []ChordOver
<1>1. KeyInv => ChordOver
  BY DEF KeyInv, TableInv, ChordHasKeys, ChordOver
<1> QED BY <1>1, KeyInductive, PTL

\* A click that waits for its gap is alone in the table, in the slot the next key takes.
THEOREM WaitingClickFirst == Spec => []WaitingClickIsFirst
<1>1. KeyInv => WaitingClickIsFirst
  BY DEF KeyInv, TableInv, ChordHasKeys, Packed, WaitingClickIsFirst, Counted, Down, Slots
<1> QED BY <1>1, KeyInductive, PTL

-----------------------------------------------------------------------------
(* What is reported.                                                        *)

\* While keys are down the slots with clicks are theirs, ...
CountedDown == hz = {} /\ Down # {} => Counted \subseteq Down

\* ... and a slot has no more clicks than its key has been pressed.
ClicksCounted ==
  hz = {} => \A i \in Counted : key[i].code \in Codes /\ key[i].cnt <= clicks[key[i].code]

ReportInv == CountedDown /\ ClicksCounted

\* At most as many keys are named as there are slots to name.
LEMMA NamedFew ==
  ASSUME NEW S, S \subseteq Slots, NEW T, T \subseteq S
  PROVE  Cardinality({key[i].code : i \in T}) <= Cardinality(S)
<1> DEFINE C == {key[i].code : i \in T}
           f == [i \in T |-> key[i].code]
<1>1. IsFiniteSet(S) /\ IsFiniteSet(T) /\ Cardinality(S) \in Nat
  BY SlotCount
<1>2. Cardinality(T) <= Cardinality(S) /\ Cardinality(T) \in Nat
  BY <1>1, FS_Subset, FS_CardinalityType
<1>3. f \in Surjection(T, C)
  BY DEF Surjection
<1> HIDE DEF f, C
<1>4. IsFiniteSet(C) /\ Cardinality(C) <= Cardinality(T)
  BY <1>1, <1>3, FS_Surjection
<1>5. Cardinality(C) \in Nat
  BY <1>4, FS_CardinalityType
<1> QED BY <1>1, <1>2, <1>4, <1>5 DEF C

\* What becomes of an event when nothing has gone wrong.
LEMMA EventTakes ==
  ASSUME KeyInv, NEW c \in Codes, NEW v \in {RELEASE, PRESS, REPEAT}, Event(c, v), hz' = {}
  PROVE  \/ v # PRESS /\ said' = Nothing /\ key' = key
         \/ \E i \in Slots :
              /\ IF Known(c) # {} THEN key[i].code = c ELSE i \in Free /\ \A j \in Free : i <= j
              /\ \/ v = PRESS /\ Press(c, i)
                 \/ v = RELEASE /\ i \in Down /\ key[i].code = c /\ Release(c, i)
                 \/ v = REPEAT /\ i \in Down /\ key[i].code = c /\ Repeat(c, i)
<1>0. KeyInv /\ CheckKeyStatus(c, v) /\ hz = {} /\ ((v = PRESS) <=> (c \notin held))
  BY EventFrame DEF Event
<1>1. CASE Discarded(c, v) /\ Say(Nothing) /\ UNCHANGED tableVars
  BY <1>0, <1>1, DiscardedEvent DEF Say, tableVars, keyVars
<1>2. CASE ~Discarded(c, v) /\ hz' = hz \cup Early \cup {"full"}
  BY <1>2
<1>3. ASSUME ~Discarded(c, v), NEW i \in Known(c) \cup Free,
             i = Min(IF Known(c) # {} THEN Known(c) ELSE Free),
             \/ v = PRESS /\ Press(c, i)
             \/ v = RELEASE /\ Release(c, i)
             \/ v = REPEAT /\ Repeat(c, i)
      PROVE  /\ i \in Slots
             /\ IF Known(c) # {} THEN key[i].code = c ELSE i \in Free /\ \A j \in Free : i <= j
             /\ v # PRESS => i \in Down /\ key[i].code = c
  <2>0. Known(c) \subseteq Slots /\ Free \subseteq Slots /\ i \in Slots
    BY <1>3 DEF Known, Free
  <2>1. IF Known(c) # {} THEN i \in Known(c) ELSE i \in Free /\ \A j \in Free : i <= j
    <3>1. CASE Known(c) # {}
      BY <1>3, <2>0, <3>1, SlotMin
    <3>2. CASE Known(c) = {}
      BY <1>3, <2>0, <3>2, SlotMin
    <3> QED BY <3>1, <3>2
  <2>2. ASSUME v # PRESS PROVE i \in Down /\ key[i].code = c
    <3>1. PICK j \in Down : key[j].code = c
      BY <1>0, <2>2 DEF KeyInv, TableInv, HeldAreDown
    <3>2. j \in Known(c)
      BY <3>1 DEF Known, Down
    <3>3. i \in Known(c) /\ c # NoCode
      BY <2>1, <3>2
    <3>4. i = j
      BY <1>0, <3>2, <3>3 DEF KeyInv, TableInv, OneSlotPerKey, Known
    <3> QED BY <3>1, <3>4
  <2> QED BY <2>0, <2>1, <2>2 DEF Known
<1>4. CASE ~Discarded(c, v) /\ \E i \in Known(c) \cup Free :
              /\ i = Min(IF Known(c) # {} THEN Known(c) ELSE Free)
              /\ \/ v = PRESS /\ Press(c, i)
                 \/ v = RELEASE /\ Release(c, i)
                 \/ v = REPEAT /\ Repeat(c, i)
  <2>1. PICK i \in Known(c) \cup Free :
              /\ i = Min(IF Known(c) # {} THEN Known(c) ELSE Free)
              /\ \/ v = PRESS /\ Press(c, i)
                 \/ v = RELEASE /\ Release(c, i)
                 \/ v = REPEAT /\ Repeat(c, i)
    BY <1>4
  <2>2. /\ i \in Slots
        /\ IF Known(c) # {} THEN key[i].code = c ELSE i \in Free /\ \A j \in Free : i <= j
        /\ v # PRESS => i \in Down /\ key[i].code = c
    BY <1>3, <1>4, <2>1
  <2>3. RELEASE # PRESS /\ REPEAT # PRESS
    BY DEF RELEASE, PRESS, REPEAT
  <2> QED BY <2>1, <2>2, <2>3
<1> QED BY <1>0, <1>1, <1>2, <1>4 DEF CheckKeyStatus

LEMMA EventClicks ==
  ASSUME KeyInv, NEW c \in Codes, NEW v \in {RELEASE, PRESS, REPEAT}, Event(c, v), hz' = {}
  PROVE  \A d \in Codes :
           /\ v = PRESS /\ d = c => clicks'[d] = clicks[d] + 1
           /\ (v = PRESS => d \in held) /\ d \notin Reported => clicks'[d] = clicks[d]
<1>1. (v = PRESS) <=> (c \notin held)
  BY EventFrame
<1>2. clicks' = [d \in Codes |->
         IF hz' # {} THEN 0
           ELSE IF v = PRESS /\ d = c THEN clicks[c] + 1
           ELSE IF d \in Reported \/ (v = PRESS /\ d \notin held) THEN 0
           ELSE clicks[d]]
  BY Zenon DEF Event
<1> SUFFICES ASSUME NEW d \in Codes
             PROVE  /\ v = PRESS /\ d = c => clicks'[d] = clicks[d] + 1
                    /\ (v = PRESS => d \in held) /\ d \notin Reported => clicks'[d] = clicks[d]
  OBVIOUS
<1>3. clicks'[d] = IF hz' # {} THEN 0
           ELSE IF v = PRESS /\ d = c THEN clicks[c] + 1
           ELSE IF d \in Reported \/ (v = PRESS /\ d \notin held) THEN 0
           ELSE clicks[d]
  BY <1>2
<1>4. ASSUME v = PRESS, d = c PROVE clicks'[d] = clicks[d] + 1
  BY <1>3, <1>4
<1>5. ASSUME v = PRESS => d \in held, d \notin Reported PROVE clicks'[d] = clicks[d]
  BY <1>1, <1>3, <1>5
<1> QED BY <1>4, <1>5

LEMMA PressCounts ==
  ASSUME KeyInv, ReportInv, NEW c \in Codes, Event(c, PRESS), hz' = {}, NEW i \in Slots,
         IF Known(c) # {} THEN key[i].code = c ELSE i \in Free /\ \A j \in Free : i <= j, Press(c, i)
  PROVE  ReportInv'
<1> USE DEF KeyInv, TableInv
<1>0. /\ c \notin held /\ hz = {} /\ PRESS \in {RELEASE, PRESS, REPEAT} /\ press_cnt \in 0..MAX_KEYS
      /\ held' = held \cup {c}
  BY EventFrame DEF PRESS, RELEASE, KeyTypes
<1>1. key[i].status = RELEASE
  <2>1. CASE Known(c) # {}
    BY <1>0, <2>1 DEF DownAreHeld, Down
  <2>2. CASE Known(c) = {}
    <3>1. key[i].code # c
      BY <2>2 DEF Known
    <3>2. i \in Down => key[i].code \in Codes
      BY DEF DownAreHeld, KeyTypes
    <3>3. key[i].code = NoCode \/ key[i].status = RELEASE
      BY <2>2 DEF Free
    <3> QED BY <3>2, <3>3 DEF Down
  <2> QED BY <2>1, <2>2
<1>2. Put(i, c, PRESS, StartsAt(c, i) + 1) /\ said' = Flushed(c)
  BY <1>1 DEF Press, Say
<1>3. /\ key'[i] = [code |-> c, status |-> PRESS, cnt |-> StartsAt(c, i) + 1]
      /\ \A j \in Slots \ {i} : key'[j] = key[j]
  BY <1>2 DEF Put, KeyTypes
<1>4. Down' = Down \cup {i} /\ i \in Down'
  BY <1>3 DEF Down, PRESS, RELEASE
<1>5. Counted' \subseteq Counted \cup {i} /\ Counted \subseteq Slots
  BY <1>3 DEF Counted
<1>6. ASSUME Down = {} PROVE Counted' \subseteq {i}
  <2>1. press_cnt = 0
    BY <1>0, <1>6 DEF ChordHasKeys
  <2>2. Counted \subseteq {1}
    BY <1>0, <1>6, <2>1 DEF Packed, Counted, Slots
  <2>3. i = 1
    <3>1. CASE Known(c) # {}
      BY <1>0, <1>6, <2>1, <3>1 DEF Packed, Slots
    <3>2. CASE Known(c) = {}
      <4>1. 1 \in Free
        BY <1>6 DEF Free, Down, Slots
      <4> QED BY <3>2, <4>1 DEF Slots
    <3> QED BY <3>1, <3>2
  <2>4. Counted' \subseteq {i}
    BY <1>5, <2>2, <2>3
  <2> QED BY <2>4
<1>7. ASSUME Down # {} PROVE Counted' \subseteq Down'
  BY <1>0, <1>4, <1>5, <1>7 DEF ReportInv, CountedDown
<1>8. CountedDown'
  BY <1>4, <1>6, <1>7 DEF CountedDown
<1>9. ClicksCounted'
  <2> SUFFICES ASSUME NEW j \in Counted' PROVE key'[j].code \in Codes /\ key'[j].cnt <= clicks'[key'[j].code]
    BY DEF ClicksCounted
  <2>0. \A d \in Codes :
           /\ d = c => clicks'[d] = clicks[d] + 1
           /\ d \in held /\ d \notin Reported => clicks'[d] = clicks[d]
    BY <1>0, EventClicks
  <2>1. CASE j = i
    <3>1. key'[j].code = c /\ key'[j].cnt = StartsAt(c, i) + 1 /\ clicks'[c] = clicks[c] + 1
      BY <1>3, <2>0, <2>1
    <3>2. clicks[c] \in Nat /\ StartsAt(c, i) \in Nat
      BY KeyFields DEF KeyTypes, StartsAt
    <3>3. StartsAt(c, i) <= clicks[c]
      <4>1. CASE Known(c) = {}
        BY <3>2, <4>1 DEF StartsAt
      <4>2. CASE Known(c) # {} /\ key[i].cnt = 0
        BY <3>2, <4>2 DEF StartsAt
      <4>3. CASE Known(c) # {} /\ key[i].cnt # 0
        BY <1>0, <4>3 DEF StartsAt, ReportInv, ClicksCounted, Counted
      <4> QED BY <4>1, <4>2, <4>3
    <3> QED BY <3>1, <3>2, <3>3
  <2>2. CASE j # i
    <3>1. j \in Slots /\ j \in Counted /\ key'[j] = key[j]
      BY <1>3, <1>5, <2>2
    <3>2. Down # {}
      BY <1>6, <2>2
    <3>3. j \in Down /\ key[j].code \in held /\ key[j].code \in Codes /\ key[j].cnt <= clicks[key[j].code]
      BY <1>0, <3>1, <3>2 DEF ReportInv, CountedDown, ClicksCounted, DownAreHeld
    <3>4. Reported = {}
      BY <1>2, <3>2 DEF Flushed, Nothing, Reported
    <3> QED BY <2>0, <3>1, <3>3, <3>4
  <2> QED BY <2>1, <2>2
<1> QED BY <1>8, <1>9 DEF ReportInv

\* The table keeps its counts, at most, and no report or press touches a counted key.
LEMMA FewerCounts ==
  ASSUME KeyTypes, ReportInv, hz = {}, hz' = {}, Counted' \subseteq Counted,
         \A i \in Counted' : /\ key'[i].code = key[i].code /\ key'[i].cnt = key[i].cnt
                             /\ key[i].code \in Codes => clicks'[key[i].code] = clicks[key[i].code],
         Down' # {} => Down # {} /\ Counted' \cap Down \subseteq Down'
  PROVE  ReportInv'
BY DEF ReportInv, CountedDown, ClicksCounted

LEMMA RepeatCounts ==
  ASSUME KeyInv, ReportInv, NEW c \in Codes, Event(c, REPEAT), hz' = {}, NEW i \in Down,
         key[i].code = c, Repeat(c, i)
  PROVE  ReportInv'
<1> USE DEF KeyInv, TableInv
<1>0. i \in Slots /\ hz = {} /\ REPEAT # PRESS /\ REPEAT \in {RELEASE, PRESS, REPEAT} /\ i \in Known(c)
  BY EventFrame DEF PRESS, REPEAT, Down, Known
<1>1. Put(i, c, REPEAT, key[i].cnt) /\ said' = Nothing
  BY <1>0 DEF Repeat, Say, StartsAt, Flushed
<1>2. /\ key'[i].code = key[i].code /\ key'[i].cnt = key[i].cnt /\ key'[i].status = REPEAT
      /\ \A j \in Slots \ {i} : key'[j] = key[j]
  BY <1>0, <1>1 DEF Put, KeyTypes
<1>3. Counted' = Counted /\ Counted \subseteq Slots /\ Down \subseteq Down'
  BY <1>0, <1>2 DEF Counted, Down, REPEAT, RELEASE
<1>4. \A d \in Codes : clicks'[d] = clicks[d]
  <2>1. Reported = {}
    BY <1>1 DEF Reported, Nothing
  <2> QED BY <1>0, <2>1, EventClicks
<1> QED BY <1>0, <1>2, <1>3, <1>4, FewerCounts

LEMMA ReleaseCounts ==
  ASSUME KeyInv, ReportInv, NEW c \in Codes, Event(c, RELEASE), hz' = {}, NEW i \in Down,
         key[i].code = c, Release(c, i)
  PROVE  ReportInv'
<1> USE DEF KeyInv, TableInv
<1> DEFINE n == Cardinality(Down)
<1>0. /\ i \in Slots /\ hz = {} /\ RELEASE # PRESS /\ RELEASE \in {RELEASE, PRESS, REPEAT}
      /\ Down \subseteq Slots /\ (n = 1 => Down = {i})
  <2>1. Down \subseteq Slots
    BY DEF Down
  <2> QED BY <2>1, SlotCount, EventFrame DEF PRESS, RELEASE
<1>1. \A d \in Codes : clicks'[d] = clicks[d]
  <2>1. said'.what # "single"
    <3>1. CASE ChordEnds(c, i, n)
      BY <3>1 DEF ChordEnds, Say, Names
    <3>2. CASE ChordGoes(c, i, n)
      BY <3>2 DEF ChordGoes, Say, Nothing
    <3>3. CASE SingleGoes(c, i, n)
      BY <3>3 DEF SingleGoes, Say, Nothing
    <3> QED BY <3>1, <3>2, <3>3 DEF Release
  <2>2. Reported = {}
    BY <2>1 DEF Reported
  <2> QED BY <1>0, <2>2, EventClicks
<1>2. CASE Put(i, c, RELEASE, 0)
  <2>1. key'[i].cnt = 0 /\ key'[i].status = RELEASE /\ \A j \in Slots \ {i} : key'[j] = key[j]
    BY <1>0, <1>2 DEF Put, KeyTypes
  <2>2. Counted' = Counted \ {i} /\ Down' = Down \ {i}
    BY <1>0, <2>1 DEF Counted, Down
  <2>3. \A j \in Counted' : key'[j] = key[j]
    BY <2>1, <2>2 DEF Counted
  <2> QED BY <1>0, <1>1, <2>2, <2>3, FewerCounts
<1>3. CASE KeysInit
  <2>1. Counted' = {}
    BY <1>3 DEF KeysInit, Counted, Empty
  <2> QED BY <2>1 DEF ReportInv, CountedDown, ClicksCounted
<1>4. CASE n = 1 /\ key' = [key EXCEPT ![i].status = RELEASE]
  <2>1. key'[i] = [key[i] EXCEPT !.status = RELEASE] /\ \A j \in Slots \ {i} : key'[j] = key[j]
    BY <1>0, <1>4 DEF KeyTypes
  <2>2. key[i] \in KeyRec
    BY <1>0, KeyFields
  <2>3. key'[i].status = RELEASE /\ key'[i].code = key[i].code /\ key'[i].cnt = key[i].cnt
    BY <2>1, <2>2 DEF KeyRec
  <2>4. Down' = {} /\ Counted' = Counted /\ Counted \subseteq Slots
    BY <1>0, <1>4, <2>1, <2>3 DEF Down, Counted
  <2>5. \A j \in Counted' : key'[j].code = key[j].code /\ key'[j].cnt = key[j].cnt
    BY <2>1, <2>3, <2>4
  <2> QED BY <1>0, <1>1, <2>4, <2>5, FewerCounts
<1> QED BY <1>2, <1>3, <1>4 DEF Release, ChordEnds, ChordGoes, SingleGoes

LEMMA TimeoutCounts ==
  ASSUME KeyInv, ReportInv, PollTimeout, hz' = {}
  PROVE  ReportInv'
<1> USE DEF KeyInv, TableInv
<1>0. /\ LongPress \/ ClickGap
      /\ clicks' = [c \in Codes |-> IF c \in Reported \/ hz' # {} THEN 0 ELSE clicks[c]]
      /\ hz = {}
  BY DEF PollTimeout
<1>1. CASE LongPress
  <2>1. \A i \in Slots : key[i] \in KeyRec /\ key'[i] = [key[i] EXCEPT !.cnt = 0]
    BY <1>1, KeyFields DEF LongPress
  <2>2. Counted' = {}
    BY <2>1 DEF KeyRec, Counted
  <2> QED BY <2>2 DEF ReportInv, CountedDown, ClicksCounted
<1>2. CASE ClickGap
  <2>1. PICK i \in Slots : /\ Counted = {i}
                           /\ key' = [key EXCEPT ![i] = [code |-> NoCode, status |-> @.status, cnt |-> 0]]
    BY <1>2 DEF ClickGap
  <2>2. key'[i].cnt = 0 /\ \A j \in Slots \ {i} : key'[j] = key[j]
    BY <2>1 DEF KeyTypes
  <2>3. Counted' = {}
    BY <2>1, <2>2 DEF Counted
  <2> QED BY <2>3 DEF ReportInv, CountedDown, ClicksCounted
<1> QED BY <1>0, <1>1, <1>2

LEMMA EventCounts ==
  ASSUME KeyInv, ReportInv, NEW c \in Codes, NEW v \in {RELEASE, PRESS, REPEAT}, Event(c, v), hz' = {}
  PROVE  ReportInv'
<1>1. CASE v # PRESS /\ said' = Nothing /\ key' = key
  <2>0. KeyTypes /\ hz = {}
    BY EventFrame DEF KeyInv
  <2>1. Reported = {} /\ Counted' = Counted /\ Down' = Down /\ key' = key
    BY <1>1 DEF Reported, Nothing, Counted, Down
  <2>2. \A d \in Codes : clicks'[d] = clicks[d]
    BY <1>1, <2>1, EventClicks
  <2> QED BY <2>0, <2>1, <2>2, FewerCounts
<1>2. ASSUME NEW i \in Slots,
             IF Known(c) # {} THEN key[i].code = c ELSE i \in Free /\ \A j \in Free : i <= j,
             \/ v = PRESS /\ Press(c, i)
             \/ v = RELEASE /\ i \in Down /\ key[i].code = c /\ Release(c, i)
             \/ v = REPEAT /\ i \in Down /\ key[i].code = c /\ Repeat(c, i)
      PROVE  ReportInv'
  BY <1>2, PressCounts, ReleaseCounts, RepeatCounts
<1> QED BY <1>1, <1>2, EventTakes

LEMMA ReportStart == Init => ReportInv
BY DEF Init, ReportInv, CountedDown, ClicksCounted, Counted, Empty, Slots

\* Main's keys_init has nothing to wipe when no event came before it was over.
LEMMA ReportNext == KeyInv /\ ReportInv /\ [Next]_vars => ReportInv'
<1> SUFFICES ASSUME KeyInv, ReportInv, [Next]_vars PROVE ReportInv'
  OBVIOUS
<1>0. KeyTypes
  BY DEF KeyInv
<1>1. CASE hz' # {}
  BY <1>1 DEF ReportInv, CountedDown, ClicksCounted
<1>2. CASE UNCHANGED <<key, clicks, hz>>
  BY <1>2 DEF ReportInv, CountedDown, ClicksCounted, Counted, Down
<1>3. CASE MainInit /\ hz' = {}
  <2>1. hz = {} /\ init < InitDone
    BY <1>3 DEF MainInit
  <2>2. \A j \in Slots : key[j] = Empty
    BY <2>1 DEF KeyInv, TableInv, CleanUntilInit
  <2>3. \A j \in Slots : key'[j] = Empty
    BY <1>0, <1>3, <2>2 DEF MainInit, KeyTypes
  <2>4. Counted' = {}
    BY <2>3 DEF Counted, Empty
  <2> QED BY <2>4 DEF ReportInv, CountedDown, ClicksCounted
<1>4. CASE BufferOverflow
  BY <1>1, <1>4 DEF BufferOverflow
<1>5. CASE UNCHANGED vars
  BY <1>2, <1>5 DEF vars, tableVars, keyVars
<1>6. CASE Tick
  BY <1>2, <1>6 DEF Tick, keyVars
<1> QED BY <1>1, <1>3, <1>4, <1>5, <1>6, TimeoutCounts, EventCounts DEF Next

LEMMA ReportsInductive == Spec => [](KeyInv /\ ReportInv)
<1>1. KeyInv /\ ReportInv /\ [Next]_vars => ReportInv'
  BY ReportNext
<1> QED BY <1>1, ReportStart, KeyInductive, PTL DEF Spec

\* The names of a report are those of the counted slots, which are down.
LEMMA NamesAreDown ==
  ASSUME KeyInv, ReportInv, hz = {}, NEW what, NEW n \in Nat, NEW S, S \subseteq Down,
         Counted \subseteq S, S # {}, n = Cardinality(S)
  PROVE  Names(what, n).codes \subseteq held /\ Cardinality(Names(what, n).codes) <= Names(what, n).cnt
<1>1. KeyInfo(n) \subseteq S /\ S \subseteq Slots /\ KeyInfo(n) \subseteq Down
  BY DEF KeyInfo, Down
<1>2. Cardinality({key[i].code : i \in KeyInfo(n)}) <= n
  BY <1>1, NamedFew
<1>3. {key[i].code : i \in KeyInfo(n)} \subseteq held
  BY <1>1 DEF KeyInv, TableInv, DownAreHeld
<1> QED BY <1>2, <1>3 DEF Names

\* What a step reports: nothing, the clicks of a counted slot, the release of a long
\* press, or the keys that are down.
LEMMA StepReports ==
  ASSUME KeyInv, ReportInv, Next, hz' = {}
  PROVE  \/ said'.what \in {"nothing", "long release"}
         \/ \E i \in Counted : said' = Single(i)
         \/ /\ said'.what \in {"chord", "long"}
            /\ said'.codes \subseteq held /\ Cardinality(said'.codes) <= said'.cnt
<1>0. Counted \subseteq Slots /\ Down \subseteq Slots
  BY DEF Counted, Down
<1>1. CASE said' = Nothing
  BY <1>1 DEF Nothing
<1>2. CASE MainInit \/ BufferOverflow \/ Tick
  BY <1>1, <1>2 DEF MainInit, BufferOverflow, Tick, Say
<1>3. CASE PollTimeout
  <2>0. hz = {} /\ Counted # {}
    BY <1>3 DEF PollTimeout
  <2>1. CASE LongPress
    <3> DEFINE n == Cardinality(Counted \cap Down)
    <3>1. n \in 0..MAX_KEYS /\ (n = 0 <=> Counted \cap Down = {}) /\ Min(Counted) \in Counted
      BY <1>0, <2>0, SlotCount, SlotMin
    <3>2. said' = IF n = 0 THEN Nothing
                  ELSE IF n = 1 /\ key[Min(Counted)].cnt # 1 THEN Single(Min(Counted))
                  ELSE Names("long", n)
      BY <2>1 DEF LongPress, Say
    <3>3. CASE n # 0 /\ said' = Names("long", n)
      <4>1. Counted \cap Down # {} /\ Counted \subseteq Down
        BY <2>0, <3>1, <3>3 DEF ReportInv, CountedDown
      <4>2. Names("long", n).codes \subseteq held /\ Cardinality(Names("long", n).codes) <= Names("long", n).cnt
        BY <2>0, <3>1, <4>1, NamesAreDown
      <4> QED BY <3>3, <4>2 DEF Names
    <3> QED BY <1>1, <3>1, <3>2, <3>3
  <2>2. CASE ClickGap
    BY <2>2 DEF ClickGap, Say
  <2> QED BY <1>3, <2>1, <2>2 DEF PollTimeout
<1>4. ASSUME NEW c \in Codes, said' = Flushed(c)
      PROVE  said' = Nothing \/ \E i \in Counted : said' = Single(i)
  <2>1. Counted # {} => Min(Counted) \in Counted
    BY <1>0, SlotMin
  <2> QED BY <1>4, <2>1 DEF Flushed
<1>5. ASSUME NEW c \in Codes, NEW i \in Down, Release(c, i), hz = {}
      PROVE  \/ said'.what \in {"nothing", "long release"}
             \/ /\ said'.what \in {"chord", "long"}
                /\ said'.codes \subseteq held /\ Cardinality(said'.codes) <= said'.cnt
  <2> DEFINE n == Cardinality(Down)
  <2>1. CASE ChordEnds(c, i, n)
    <3>1. n \in Nat /\ Counted \subseteq Down /\ Down # {}
      BY <1>0, <1>5, SlotCount DEF ReportInv, CountedDown
    <3>2. Names("chord", n).codes \subseteq held /\ Cardinality(Names("chord", n).codes) <= Names("chord", n).cnt
      BY <1>5, <3>1, NamesAreDown
    <3> QED BY <2>1, <3>2 DEF ChordEnds, Say, Names
  <2>2. CASE ChordGoes(c, i, n)
    BY <2>2 DEF ChordGoes, Say, Nothing
  <2>3. CASE SingleGoes(c, i, n)
    BY <2>3 DEF SingleGoes, Say, Nothing
  <2> QED BY <1>5, <2>1, <2>2, <2>3 DEF Release
<1>6. ASSUME NEW c \in Codes, NEW v \in {RELEASE, PRESS, REPEAT}, Event(c, v)
      PROVE  \/ said'.what \in {"nothing", "long release"}
             \/ \E i \in Counted : said' = Single(i)
             \/ /\ said'.what \in {"chord", "long"}
                /\ said'.codes \subseteq held /\ Cardinality(said'.codes) <= said'.cnt
  <2>0. hz = {}
    BY <1>6, EventFrame
  <2>1. CASE said' = Nothing
    BY <1>1, <2>1 DEF Nothing
  <2>2. ASSUME NEW i \in Slots, Press(c, i) \/ Repeat(c, i) PROVE said' = Flushed(c)
    BY <2>2 DEF Press, Repeat, Say
  <2> QED BY <1>4, <1>5, <1>6, <2>0, <2>1, <2>2, EventTakes
<1> QED BY <1>2, <1>3, <1>6 DEF Next

\* A chord or a long press names only keys that were down, and no more than it says, for
\* any keys and any size of the table.  (multiple_key_handler, long_key_handle)
THEOREM NamesAreOfKeysDown == Spec => NamesKeysDown
<1>1. KeyInv /\ ReportInv /\ [Next]_vars =>
        [hz' = {} /\ said'.what \in {"chord", "long"} =>
           said'.codes \subseteq held /\ Cardinality(said'.codes) <= said'.cnt]_vars
  <2> SUFFICES ASSUME KeyInv, ReportInv, Next, hz' = {}, said'.what \in {"chord", "long"}
               PROVE  said'.codes \subseteq held /\ Cardinality(said'.codes) <= said'.cnt
    OBVIOUS
  <2>1. ASSUME NEW i \in Slots, said' = Single(i) PROVE FALSE
    BY <2>1 DEF Single, Nothing
  <2> QED BY <2>1, StepReports DEF Counted
<1> QED BY <1>1, ReportsInductive, PTL DEF Spec, NamesKeysDown

\* A click is of the key that was pressed, as often at least as it says.
\* (single_key_handle, check_key_status)
THEOREM ClicksAreOfPresses == Spec => ClicksArePresses
<1>1. KeyInv /\ ReportInv /\ [Next]_vars =>
        [hz' = {} /\ said'.what = "single" =>
           \A c \in said'.codes : c \in Codes /\ said'.cnt <= clicks[c]]_vars
  <2> SUFFICES ASSUME KeyInv, ReportInv, Next, hz' = {}, said'.what = "single", NEW c \in said'.codes
               PROVE  c \in Codes /\ said'.cnt <= clicks[c]
    OBVIOUS
  <2>0. hz = {}
    BY EventFrame DEF Next, MainInit, PollTimeout, BufferOverflow, Tick
  <2>1. PICK i \in Counted : said' = Single(i)
    BY StepReports
  <2>2. said'.codes = {key[i].code} /\ said'.cnt = key[i].cnt
    BY <2>1 DEF Single, Nothing
  <2> QED BY <2>0, <2>1, <2>2 DEF ReportInv, ClicksCounted
<1> QED BY <1>1, ReportsInductive, PTL DEF Spec, ClicksArePresses

===============================================================================
