------------------------------- MODULE RingBuf -------------------------------
(***************************************************************************)
(* The ring buffer of c/src/base/ringbuf.c: in and out are unsigned ints   *)
(* that run on past the size and wrap at 2^32, the buffer index is their   *)
(* low bits, put and get hold the mutex, and ringbuf_available does not.   *)
(***************************************************************************)
EXTENDS Integers, Sequences, SequencesExt

CONSTANTS
  Writers,  \* threads that call ringbuf_put and ringbuf_available
  Readers,  \* threads that call ringbuf_get
  NoThread, \* the mutex is free
  Size,     \* the size given to ringbuf_create, a power of two
  W,        \* 2^32: the number of values of an unsigned int
  MaxLen,   \* bound on the len of a call
  MaxBytes  \* bound on the bytes ever put

\* ringbuf_create refuses a size that is not a power of two; one that is divides W
ASSUME RingAssumption ==
  /\ Size \in Nat \ {0} /\ W \in Nat /\ MaxLen \in Nat /\ MaxBytes \in Nat
  /\ Size < W /\ W % Size = 0
  /\ Writers \cap Readers = {} /\ NoThread \notin Writers \cup Readers

Threads == Writers \cup Readers

VARIABLES
  in, out, buffer, mutex,  \* rb
  pc,    \* where each thread stands
  buf,   \* its argument: the bytes to put, or the bytes copied out so far
  len,   \* its argument
  n,     \* its put_data_l or get_data_l
  l,     \* its after_l
  i, o,  \* the in and out ringbuf_available has read
  torn,  \* history: in or out was being reset between or under these reads
  sent,  \* history: the bytes put has taken
  rcvd   \* history: the bytes get has handed out

ringVars == <<in, out, buffer, mutex>>
localVars == <<buf, len, n, l>>
pollVars == <<i, o, torn>>
fifoVars == <<sent, rcvd>>
vars == <<ringVars, pc, localVars, pollVars, fifoVars>>

Resetting == \E r \in Readers : pc[r] = "reset"

Goto(t, step) == pc' = [pc EXCEPT ![t] = step]
Smaller(a, b) == IF a < b THEN a ELSE b
At(x) == x % Size  \* x & (size - 1)

TypeOK ==
  /\ in \in 0..(W - 1) /\ out \in 0..(W - 1)
  /\ buffer \in [0..(Size - 1) -> Nat]
  /\ mutex \in Threads \cup {NoThread}
  /\ pc \in [Threads -> {"idle", "lock", "first", "second", "advance", "test", "reset", "unlock", "poll"}]
  /\ buf \in [Threads -> Seq(Nat)]
  /\ len \in [Threads -> 0..MaxLen] /\ n \in [Threads -> 0..MaxLen] /\ l \in [Threads -> 0..MaxLen]
  /\ i \in [Threads -> 0..W] /\ o \in [Threads -> 0..W] /\ torn \in [Threads -> BOOLEAN]
  /\ sent \in Seq(Nat) /\ rcvd \in Seq(Nat)

\* ringbuf_create
Init ==
  /\ in = 0 /\ out = 0 /\ buffer = [x \in 0..(Size - 1) |-> 0] /\ mutex = NoThread
  /\ pc = [t \in Threads |-> "idle"]
  /\ buf = [t \in Threads |-> <<>>]
  /\ len = [t \in Threads |-> 0] /\ n = len /\ l = len
  /\ i = [t \in Threads |-> W] /\ o = i /\ torn = [t \in Threads |-> FALSE]
  /\ sent = <<>> /\ rcvd = <<>>

-----------------------------------------------------------------------------
\* a writer puts the next bytes of its stream, those refused before first
CallPut(t) ==
  /\ t \in Writers /\ pc[t] = "idle"
  /\ \E k \in 0..MaxLen :
       /\ Len(sent) + k <= MaxBytes
       /\ len' = [len EXCEPT ![t] = k]
       /\ buf' = [buf EXCEPT ![t] = [x \in 1..k |-> Len(sent) + x]]
  /\ Goto(t, "lock")
  /\ UNCHANGED <<ringVars, n, l, pollVars, fifoVars>>

CallGet(t) ==
  /\ t \in Readers /\ pc[t] = "idle"
  /\ \E k \in 0..MaxLen : len' = [len EXCEPT ![t] = k]
  /\ buf' = [buf EXCEPT ![t] = <<>>]
  /\ Goto(t, "lock")
  /\ UNCHANGED <<ringVars, n, l, pollVars, fifoVars>>

\* how much of a call can be done, in unsigned arithmetic, and how much of that
\* lies before the end of the buffer
Room == (W + Size - in + out) % W
Level(x, y) == (W + x - y) % W
Used == Level(in, out)

\* mutant: no pthread_mutex_lock
LockNothing(t) ==
  /\ pc[t] = "lock"
  /\ mutex' = t
  /\ LET limit == IF t \in Writers THEN Room ELSE Used
         from == IF t \in Writers THEN in ELSE out
         amount == Smaller(len[t], limit) IN
       /\ n' = [n EXCEPT ![t] = amount]
       /\ l' = [l EXCEPT ![t] = Smaller(amount, Size - At(from))]
  /\ Goto(t, "first")
  /\ UNCHANGED <<in, out, buffer, buf, len, pollVars, fifoVars>>

Lock(t) ==
  /\ pc[t] = "lock" /\ mutex = NoThread
  /\ mutex' = t
  /\ LET limit == IF t \in Writers THEN Room ELSE Used
         from == IF t \in Writers THEN in ELSE out
         amount == Smaller(len[t], limit) IN
       /\ n' = [n EXCEPT ![t] = amount]
       /\ l' = [l EXCEPT ![t] = Smaller(amount, Size - At(from))]
  /\ Goto(t, "first")
  /\ UNCHANGED <<in, out, buffer, buf, len, pollVars, fifoVars>>

\* memcpy between the caller's bytes from position p + 1 on and the buffer from
\* index a on
CopyIn(t, p, a, count) ==
  /\ buffer' = [x \in DOMAIN buffer |->
                  IF x \in a..(a + count - 1) THEN buf[t][p + 1 + x - a] ELSE buffer[x]]
  /\ UNCHANGED buf

CopyOut(t, a, count) ==
  /\ buf' = [buf EXCEPT ![t] = @ \o [x \in 1..count |-> buffer[a + x - 1]]]
  /\ UNCHANGED buffer

CopyFirst(t) ==
  /\ pc[t] = "first"
  /\ IF t \in Writers THEN CopyIn(t, 0, At(in), l[t]) ELSE CopyOut(t, At(out), l[t])
  /\ Goto(t, "second")
  /\ UNCHANGED <<in, out, mutex, len, n, l, pollVars, fifoVars>>

\* mutant: the second copy takes the caller's bytes from the start again
CopySecondAgain(t) ==
  /\ pc[t] = "second"
  /\ IF t \in Writers THEN CopyIn(t, 0, 0, n[t] - l[t]) ELSE CopyOut(t, 0, n[t] - l[t])
  /\ Goto(t, "advance")
  /\ UNCHANGED <<in, out, mutex, len, n, l, pollVars, fifoVars>>

CopySecond(t) ==
  /\ pc[t] = "second"
  /\ IF t \in Writers THEN CopyIn(t, l[t], 0, n[t] - l[t]) ELSE CopyOut(t, 0, n[t] - l[t])
  /\ Goto(t, "advance")
  /\ UNCHANGED <<in, out, mutex, len, n, l, pollVars, fifoVars>>

AdvanceIn(t) ==
  /\ pc[t] = "advance" /\ t \in Writers
  /\ in' = (in + n[t]) % W
  /\ sent' = sent \o SubSeq(buf[t], 1, n[t])
  /\ Goto(t, "unlock")
  /\ UNCHANGED <<out, buffer, mutex, buf, len, n, l, pollVars, rcvd>>

AdvanceOut(t) ==
  /\ pc[t] = "advance" /\ t \in Readers
  /\ out' = (out + n[t]) % W
  /\ rcvd' = rcvd \o buf[t]
  /\ Goto(t, "test")
  /\ UNCHANGED <<in, buffer, mutex, buf, len, n, l, pollVars, sent>>

\* if (in == out) in = out = 0: two stores, in either order
Polling(x) == [p \in Threads |-> torn[p] \/ (x /\ pc[p] = "poll")]

Test(t) ==
  /\ pc[t] = "test"
  /\ Goto(t, IF in = out THEN "reset" ELSE "unlock")
  /\ torn' = Polling(in = out)
  /\ UNCHANGED <<ringVars, localVars, i, o, fifoVars>>

Reset(t) ==
  /\ pc[t] = "reset"
  /\ \/ in' = 0 /\ out' = out
     \/ out' = 0 /\ in' = in
  /\ Goto(t, IF in' = 0 /\ out' = 0 THEN "unlock" ELSE "reset")
  /\ UNCHANGED <<buffer, mutex, localVars, pollVars, fifoVars>>

\* put returns put_data_l, get returns after_l; the locals are gone then
Returned(t) == IF t \in Writers THEN n[t] ELSE l[t]

Unlock(t) ==
  /\ pc[t] = "unlock"
  /\ mutex' = NoThread
  /\ Goto(t, "idle")
  /\ buf' = [buf EXCEPT ![t] = <<>>]
  /\ len' = [len EXCEPT ![t] = 0] /\ n' = [n EXCEPT ![t] = 0] /\ l' = [l EXCEPT ![t] = 0]
  /\ UNCHANGED <<in, out, buffer, pollVars, fifoVars>>

-----------------------------------------------------------------------------
(* ringbuf_available reads in and out without the mutex, in either order.   *)

Poll(t) ==
  /\ t \in Writers /\ pc[t] = "idle"
  /\ torn' = [torn EXCEPT ![t] = Resetting]
  /\ Goto(t, "poll")
  /\ UNCHANGED <<ringVars, localVars, i, o, fifoVars>>

Read(t) ==
  /\ pc[t] = "poll"
  /\ \/ i[t] = W /\ i' = [i EXCEPT ![t] = in] /\ UNCHANGED o
     \/ o[t] = W /\ o' = [o EXCEPT ![t] = out] /\ UNCHANGED i
  /\ UNCHANGED <<ringVars, pc, localVars, torn, fifoVars>>

\* mutant: computed from the masked indexes
AvailableMasked(t) == (W + Size - At(i[t]) + At(o[t])) % W

Available(t) == (W + Size - i[t] + o[t]) % W

Polled(t) ==
  /\ pc[t] = "poll" /\ i[t] # W /\ o[t] # W
  /\ i' = [i EXCEPT ![t] = W] /\ o' = [o EXCEPT ![t] = W]
  /\ torn' = [torn EXCEPT ![t] = FALSE]
  /\ Goto(t, "idle")
  /\ UNCHANGED <<ringVars, localVars, fifoVars>>

Step(t) ==
  \/ CallPut(t) \/ CallGet(t) \/ Lock(t) \/ CopyFirst(t) \/ CopySecond(t)
  \/ AdvanceIn(t) \/ AdvanceOut(t) \/ Test(t) \/ Reset(t) \/ Unlock(t)
  \/ Poll(t) \/ Read(t) \/ Polled(t)

Next == \E t \in Threads : Step(t)

Spec == Init /\ [][Next]_vars

-----------------------------------------------------------------------------
Holding(t) == pc[t] \in {"first", "second", "advance", "test", "reset", "unlock"}
Held == Len(sent) - Len(rcvd)

\* in and out say how much the buffer holds, and its cells from out on are the
\* bytes put and not yet got, across the wrap of the counters, the wrap of the
\* buffer and the reset to zero.  No copy overwrites a byte before it is got.
CellsHoldTheRest ==
  /\ Held \in 0..Size
  /\ ~Resetting => Used = Held
  /\ \A k \in 0..(Held - 1) : buffer[At(out + k)] = sent[Len(rcvd) + k + 1]

\* A call moves exactly as many bytes as are asked for and possible, whichever way
\* the unsigned counters stand.
MovesAllItCan ==
  \A t \in Threads : pc[t] \in {"first", "second", "advance"} =>
    n[t] = Smaller(len[t], IF t \in Writers THEN Size - Held ELSE Held)

\* With a single writer, what ringbuf_available told it can be put, unless a reader
\* was zeroing in and out meanwhile: gets only make room.
AvailableIsThere ==
  \A t \in Writers : (Writers = {t} /\ pc[t] = "poll" /\ i[t] # W /\ o[t] # W /\ ~torn[t])
    => Available(t) <= Size - Held

\* What the three properties above rest on, in one inductive invariant: the mutex
\* excludes, a thread at work knows how far its two copies go and what they have
\* moved, a reset finds the buffer empty, and what a poll has read is in and an
\* out of since.
Moving(t) == pc[t] \in {"first", "second", "advance"}

Exclusive ==
  \A t \in Threads :
    /\ Holding(t) => mutex = t
    /\ pc[t] \in {"test", "reset"} => t \in Readers /\ (pc[t] = "reset" => Held = 0)

Copied(t) == IF pc[t] = "second" THEN l[t] ELSE n[t]

WriterSound(t) ==
  /\ Moving(t) => l[t] = Smaller(n[t], Size - At(in))
  /\ (Moving(t) \/ pc[t] = "lock") => Len(buf[t]) = len[t]
  /\ pc[t] \in {"second", "advance"}
       => \A k \in 0..(Copied(t) - 1) : buffer[At(in + k)] = buf[t][k + 1]

ReaderSound(t) ==
  /\ Moving(t) => l[t] = Smaller(n[t], Size - At(out))
  /\ pc[t] \in {"lock", "first"} => buf[t] = <<>>
  /\ pc[t] \in {"second", "advance"}
       => /\ Len(buf[t]) = Copied(t)
          /\ \A k \in 1..Copied(t) : buf[t][k] = sent[Len(rcvd) + k]

PollSound(t) ==
  /\ pc[t] # "poll" => i[t] = W /\ o[t] = W
  /\ (Writers = {t} /\ pc[t] = "poll" /\ ~torn[t]) =>
       /\ ~Resetting /\ i[t] \in {W, in}
       /\ o[t] # W => Level(in, o[t]) \in Held..Size

RingInv ==
  /\ TypeOK /\ Exclusive /\ CellsHoldTheRest /\ MovesAllItCan
  /\ \A t \in Writers : WriterSound(t) /\ PollSound(t)
  /\ \A t \in Readers : ReaderSound(t)
  /\ \A k \in 1..Len(rcvd) : rcvd[k] = sent[k]

\* The ring buffer is a bounded FIFO: put and get take effect when the counter moves.
Fifo == INSTANCE BoundedFifo WITH Size <- Size, sent <- sent, rcvd <- rcvd
FifoSpec == Fifo!FifoSpec

\* ringbuf_get returns the number of bytes it copied ("the data length that can
\* actually be got").
GetReturnsItsLength ==
  \A t \in Readers : pc[t] = "unlock" => Returned(t) = Len(buf[t])
=============================================================================
