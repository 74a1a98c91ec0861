-------------------------------- MODULE KeyApp --------------------------------
(***************************************************************************)
(* The key gesture recogniser of linux/src/key_app.c: the input thread     *)
(* turns key events and poll time-outs into clicks, chords and long        *)
(* presses, in a table of MAX_KEYS slots, while main initialises the table *)
(* after it has started the thread.                                        *)
(***************************************************************************)
EXTENDS Integers, FiniteSets, FiniteSetsExt

CONSTANTS
  Codes,     \* key codes
  NoCode,    \* the code 0 of an empty slot
  MAX_KEYS,
  Gap,       \* KEY_CLICK_GAP, in ticks of the clock
  Long,      \* KEY_LONG_PRESS_TIME
  MaxClicks, \* bound on the presses of one key in a row
  MaxLock    \* bound on lock_cnt

ASSUME KeyAssumption ==
  /\ NoCode \notin Codes /\ IsFiniteSet(Codes) /\ Cardinality(Codes) <= MaxLock
  /\ MAX_KEYS \in Nat \ {0}
  /\ Gap \in Nat /\ Long \in Nat /\ 0 < Gap /\ Gap < Long
  /\ MaxClicks \in Nat \ {0} /\ MaxLock \in Nat

RELEASE == 0
PRESS == 1
REPEAT == 2

Slots == 1..MAX_KEYS
Empty == [code |-> NoCode, status |-> RELEASE, cnt |-> 0]
Nothing == [what |-> "nothing", codes |-> {}, cnt |-> 0]

VARIABLES
  key,       \* keys.key
  press_cnt, \* keys.press_cnt: a chord is being let go
  long,      \* keys.keys_status = LONG_KEY_PRESS
  lock_cnt,
  elapsed,   \* now - keys.start_time, up to Long
  init,      \* what main's keys_init has cleared so far, in slots and press_cnt
  held,      \* the keys that are down, as far as the events read tell
  said,      \* what the last step has printed
  clicks,    \* history: the presses of a key since it was reported, or since another
             \* key was pressed while it was up; forgotten once hz is not empty
  hz         \* history: "early" event, "drop"ped events, "full" table

keyVars == <<key, press_cnt, long>>
tableVars == <<keyVars, lock_cnt, elapsed>>
vars == <<tableVars, init, held, said, clicks, hz>>

InitDone == MAX_KEYS + 1

TypeOK ==
  /\ key \in [Slots -> [code : Codes \cup {NoCode}, status : {RELEASE, PRESS, REPEAT}, cnt : 0..MaxClicks]]
  /\ press_cnt \in 0..MAX_KEYS /\ long \in BOOLEAN
  /\ lock_cnt \in (-MaxLock)..MaxLock
  /\ elapsed \in 0..Long /\ init \in 0..InitDone
  /\ held \subseteq Codes
  /\ said \in [what : {"nothing", "single", "chord", "long", "long release"},
               codes : SUBSET (Codes \cup {NoCode}), cnt : 0..Max({MaxClicks, MAX_KEYS})]
  /\ clicks \in [Codes -> 0..MaxClicks]
  /\ hz \subseteq {"early", "drop", "full"}

\* start_time is zero, long ago
Init ==
  /\ key = [i \in Slots |-> Empty] /\ press_cnt = 0 /\ long = FALSE /\ lock_cnt = 0
  /\ elapsed = Long /\ init = 0
  /\ held = {} /\ said = Nothing /\ clicks = [c \in Codes |-> 0] /\ hz = {}

-----------------------------------------------------------------------------
Known(c) == {i \in Slots : key[i].code = c}
Down == {i \in Slots : key[i].status # RELEASE}
Counted == {i \in Slots : key[i].cnt # 0}

\* the slots get_key_info finds for the indexes 0..n-1
KeyInfo(n) == {i \in Counted : Cardinality({j \in Counted : j <= i}) <= n}

\* single_key_handle: only one to three clicks have a name
Single(i) ==
  IF key[i].cnt \in 1..3 THEN [what |-> "single", codes |-> {key[i].code}, cnt |-> key[i].cnt]
                         ELSE Nothing

Names(what, n) == [what |-> what, codes |-> {key[i].code : i \in KeyInfo(n)}, cnt |-> n]

Say(report) == said' = report

Reported == IF said'.what = "single" THEN said'.codes ELSE {}

\* mutant: press_cnt is left as it is
KeysInitKeepsCount ==
  /\ key' = [i \in Slots |-> Empty]
  /\ UNCHANGED press_cnt

KeysInit ==
  /\ key' = [i \in Slots |-> Empty]
  /\ press_cnt' = 0

-----------------------------------------------------------------------------
(* main, after pthread_create: keys_init slot by slot.                      *)

MainInit ==
  /\ init < InitDone
  /\ init' = init + 1
  /\ \/ init' \in Slots /\ key' = [key EXCEPT ![init'] = Empty] /\ UNCHANGED press_cnt
     \/ init' = InitDone /\ press_cnt' = 0 /\ UNCHANGED key
  /\ Say(Nothing)
  /\ UNCHANGED <<long, lock_cnt, elapsed, held, clicks, hz>>

-----------------------------------------------------------------------------
(* The input thread.  A handler runs as one step.                           *)

Early == IF init < InitDone THEN {"early"} ELSE {}

\* three seconds: the first ones with clicks are named, as many as are still down
LongPress ==
  LET n == Cardinality(Counted \cap Down)
      first == Min(Counted) IN
    /\ elapsed = Long
    /\ long' = TRUE
    /\ Say(CASE n = 0 -> Nothing
             [] n = 1 /\ key[first].cnt # 1 -> Single(first)
             [] OTHER -> Names("long", n))
    /\ key' = [i \in Slots |-> [key[i] EXCEPT !.cnt = 0]]

\* mutant: the clicks reported are not cleared
ClickGapKeeps ==
  \E i \in Slots :
    /\ Counted = {i} /\ elapsed \in Gap..(Long - 1) /\ key[i].status = RELEASE
    /\ Say(Single(i))
    /\ UNCHANGED <<key, long>>

\* the gap: a single key that was let go has been clicked
ClickGap ==
  \E i \in Slots :
    /\ Counted = {i} /\ elapsed \in Gap..(Long - 1) /\ key[i].status = RELEASE
    /\ Say(Single(i))
    /\ key' = [key EXCEPT ![i] = [code |-> NoCode, status |-> @.status, cnt |-> 0]]
    /\ UNCHANGED long

\* check_poll_timeout
PollTimeout ==
  /\ Counted # {}
  /\ LongPress \/ ClickGap
  /\ hz' = hz \cup Early
  /\ clicks' = [c \in Codes |-> IF c \in Reported \/ hz' # {} THEN 0 ELSE clicks[c]]
  /\ UNCHANGED <<press_cnt, lock_cnt, elapsed, init, held>>

\* SYN_DROPPED: events were lost, among them presses and releases.  Bounded to one
BufferOverflow ==
  /\ "drop" \notin hz
  /\ KeysInit
  /\ lock_cnt' = 0
  /\ held' \in SUBSET Codes
  /\ Say(Nothing)
  /\ hz' = hz \cup Early \cup {"drop"}
  /\ clicks' = [c \in Codes |-> 0]
  /\ UNCHANGED <<long, elapsed, init>>

\* check_key_status for an event of key c with value v.  First the events that
\* shouldn't happen
Discarded(c, v) == (\E i \in Known(c) : key[i].status = v) \/ (Known(c) = {} /\ v = RELEASE)

\* mutant: a repeat takes the lock again
CountLockRepeats(v) == lock_cnt' = IF v = RELEASE THEN lock_cnt - 1 ELSE lock_cnt + 1

CountLock(v) ==
  lock_cnt' = CASE v = PRESS -> lock_cnt + 1 [] v = RELEASE -> lock_cnt - 1 [] OTHER -> lock_cnt

\* mutant: only a slot without a code is free
FreeEmptyOnly == {i \in Slots : key[i].code = NoCode}

Free == {i \in Slots : key[i].code = NoCode \/ key[i].status = RELEASE}

\* a slot is taken for another key: the clicks waiting in the table are reported
\* when no key is down
Flushed(c) ==
  IF Known(c) = {} /\ Down = {} /\ Counted # {} THEN Single(Min(Counted)) ELSE Nothing

StartsAt(c, i) == IF Known(c) = {} THEN 0 ELSE key[i].cnt

Put(i, c, v, cnt) == key' = [key EXCEPT ![i] = [code |-> c, status |-> v, cnt |-> cnt]]

\* a press counts as one more click, unless the key was down already
Press(c, i) ==
  /\ Say(Flushed(c))
  /\ Put(i, c, PRESS, StartsAt(c, i) + (IF key[i].status = RELEASE THEN 1 ELSE 0))
  /\ elapsed' = 0
  /\ UNCHANGED <<press_cnt, long>>

Repeat(c, i) ==
  /\ Say(Flushed(c))
  /\ Put(i, c, REPEAT, StartsAt(c, i))
  /\ UNCHANGED <<press_cnt, long, elapsed>>

\* the first key of a chord that is let go names the chord
ChordEnds(c, i, n) ==
  /\ press_cnt = 0 /\ n > 1
  /\ press_cnt' = n
  /\ Say(Names("chord", n))
  /\ Put(i, c, RELEASE, 0)
  /\ elapsed' = 0
  /\ UNCHANGED long

\* mutant: the table is cleared with one key still down
ChordGoesEarly(c, i, n) ==
  /\ press_cnt # 0
  /\ IF n <= 2 THEN KeysInit ELSE press_cnt' = n - 1 /\ Put(i, c, RELEASE, 0)
  /\ Say(Nothing)
  /\ UNCHANGED <<long, elapsed>>

\* the next ones are let go silently, and the last one clears the table
ChordGoes(c, i, n) ==
  /\ press_cnt # 0
  /\ IF n = 1 THEN KeysInit ELSE press_cnt' = n - 1 /\ Put(i, c, RELEASE, 0)
  /\ Say(Nothing)
  /\ UNCHANGED <<long, elapsed>>

\* a single key is let go: its click is reported after the gap
SingleGoes(c, i, n) ==
  /\ press_cnt = 0 /\ n = 1
  /\ Say(IF long THEN [what |-> "long release", codes |-> {c}, cnt |-> 1] ELSE Nothing)
  /\ long' = FALSE
  /\ key' = [key EXCEPT ![i].status = RELEASE]
  /\ UNCHANGED <<press_cnt, elapsed>>

Release(c, i) ==
  LET n == Cardinality(Down) IN
    ChordEnds(c, i, n) \/ ChordGoes(c, i, n) \/ SingleGoes(c, i, n)

CheckKeyStatus(c, v) ==
  \/ /\ Discarded(c, v)
     /\ Say(Nothing)
     /\ hz' = hz \cup Early
     /\ UNCHANGED tableVars
  \/ /\ ~Discarded(c, v) /\ Known(c) \cup Free = {}    \* too many keys
     /\ CountLock(v)
     /\ Say(Nothing)
     /\ hz' = hz \cup Early \cup {"full"}
     /\ UNCHANGED <<keyVars, elapsed>>
  \/ /\ ~Discarded(c, v)
     /\ \E i \in Known(c) \cup Free :
          /\ i = Min(IF Known(c) # {} THEN Known(c) ELSE Free)
          /\ \/ v = PRESS /\ Press(c, i)
             \/ v = RELEASE /\ Release(c, i)
             \/ v = REPEAT /\ Repeat(c, i)
     /\ CountLock(v)
     /\ hz' = hz \cup Early

\* the driver's events: a key that is up is pressed, one that is down repeats or is
\* let go; at most MaxClicks presses are counted, and MaxLock locks
Event(c, v) ==
  /\ (v = PRESS) <=> (c \notin held)
  /\ v = PRESS => /\ clicks[c] < MaxClicks /\ lock_cnt < MaxLock
                  /\ \A i \in Known(c) : key[i].cnt < MaxClicks
  /\ CheckKeyStatus(c, v)
  /\ held' = IF v = RELEASE THEN held \ {c} ELSE held \cup {c}
  /\ clicks' = [d \in Codes |->
       IF hz' # {} THEN 0
       ELSE IF v = PRESS /\ d = c THEN clicks[c] + 1
       ELSE IF d \in Reported \/ (v = PRESS /\ d \notin held) THEN 0
       ELSE clicks[d]]
  /\ UNCHANGED init

\* the time that passes before the next poll or event
Tick ==
  /\ elapsed' = Min({elapsed + 1, Long})
  /\ Say(Nothing)
  /\ UNCHANGED <<keyVars, lock_cnt, init, held, clicks, hz>>

Next ==
  \/ MainInit
  \/ PollTimeout
  \/ BufferOverflow
  \/ \E c \in Codes, v \in {RELEASE, PRESS, REPEAT} : Event(c, v)
  \/ Tick

Spec == Init /\ [][Next]_vars

-----------------------------------------------------------------------------
(* The properties.  Handling an event before main's keys_init is over, and a *)
(* dropped or a supernumerary event, leave the table behind the keyboard:    *)
(* each property names which of these it survives.                           *)

\* No slot is stuck: once keys_init is over the slots that are not released hold keys
\* that are down, one slot per key, whatever the order of presses, chords and repeats
\* and even when events were lost or refused; and with none lost they hold them all
\* (check_key_status, key_release_modify).
SlotsFollowKeys ==
  LET down == {key[i].code : i \in Down} IN
    /\ TypeOK
    /\ init = InitDone => down \subseteq held /\ Cardinality(Down) = Cardinality(down)
    /\ hz = {} => down = held

\* The wake lock is counted once for every key that is down, and is never released
\* under a key that is down even when the table was full: only a SYN_DROPPED, which
\* resets it, may leave fewer (the lock_cnt lines of check_key_status).
LockCoversKeys ==
  /\ "drop" \notin hz => lock_cnt >= Cardinality(held)
  /\ hz = {} => lock_cnt = Cardinality(held)

\* A chord is over with its last key: press_cnt never survives into a moment when no
\* key is down, where the next single click would be swallowed as part of it.
ChordOver == "early" \notin hz /\ Down = {} => press_cnt = 0

\* A click waiting for its gap is alone in the table and in its first slot, the one
\* the next key takes: so the report that key causes is the click it overwrites.
WaitingClickIsFirst == "early" \notin hz /\ Down = {} => Counted \subseteq {1}

\* A chord or a long press names only keys that were down when it was printed, and
\* never more of them than it says (multiple_key_handler, long_key_handle).
NamesKeysDown ==
  [][hz' = {} /\ said'.what \in {"chord", "long"} =>
       said'.codes \subseteq held /\ Cardinality(said'.codes) <= said'.cnt]_vars

\* A single, double or triple click is of the key that was pressed: it counts no
\* press twice, none from before another key's press and none of another key that
\* had the slot.
ClicksArePresses ==
  [][hz' = {} /\ said'.what = "single" =>
       \A c \in said'.codes : c \in Codes /\ said'.cnt <= clicks[c]]_vars
=============================================================================
