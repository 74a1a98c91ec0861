-------------------------------- MODULE Balance --------------------------------
(***************************************************************************)
(* The bracket checker (c/src/grammar/balance_symbol.c) and its stack of   *)
(* characters (array_stack.c): brackets that open are pushed, those that   *)
(* close pop whatever is there.  stack_create allocates the size of a      *)
(* stack_t, not of the 128 characters; the stack is full at one element    *)
(* more than that.                                                         *)
(***************************************************************************)
EXTENDS Lines, FiniteSets

CONSTANTS
  Opening, Closing,  \* the characters with bs_flag 1 and 2
  Others,            \* other characters
  MIN_STACK_SIZE,
  Allocated,         \* the characters that malloc(sizeof(stack_t)) gives room for
  MaxCode            \* bound on the length of the file

\* the stack is never full before it has written behind its allocation
ASSUME BalanceAssumption ==
  /\ Opening \cap Closing = {}
  /\ MIN_STACK_SIZE \in Nat /\ Allocated \in Nat /\ Allocated <= MIN_STACK_SIZE
  /\ MaxCode \in Nat

Symbols == Opening \cup Closing \cup Others \cup {NL}

VARIABLES
  code,    \* the file's contents
  unread,  \* what fgets has not read yet
  todo,    \* the part of the line behind temp
  stack,   \* the characters up to top, array[0] first
  over,    \* a push has written behind the allocation
  refused, \* a push has found the stack full
  verdict, \* "none", "ok", "fail", or "crash"
  seen     \* history: the characters looked at

balanceVars == <<code, unread, todo, stack, over, refused, verdict, seen>>

BalanceInit ==
  /\ code \in SeqOf(Symbols, MaxCode) \cup SeqOf(Symbols \cup {NUL}, MaxCode - 3)
  /\ unread = code /\ todo = <<>> /\ stack = <<>> /\ over = FALSE /\ refused = FALSE
  /\ verdict = "none" /\ seen = <<>>

top == Len(stack) - 1
stack_is_full == top = MIN_STACK_SIZE

\* mutant: the element at top 0 is forgotten
EmptyAtZero == top <= 0

stack_is_empty == top = -1

-----------------------------------------------------------------------------
ReadLine ==
  /\ verdict = "none" /\ todo = <<>> /\ unread # <<>>
  /\ todo' = LineOf(unread) /\ unread' = RestOf(unread)
  /\ UNCHANGED <<code, stack, over, refused, verdict, seen>>

stack_push(c) ==
  \/ /\ stack_is_full /\ refused' = TRUE
     /\ UNCHANGED <<stack, over>>
  \/ /\ ~stack_is_full
     /\ stack' = Append(stack, c)
     /\ over' = (over \/ top + 1 >= Allocated)
     /\ UNCHANGED refused

stack_pop == stack' = Front(stack) /\ UNCHANGED <<over, refused>>
stack_destory == stack' = <<>> /\ UNCHANGED <<over, refused>>

bs_flag(c) == IF c \in Opening THEN 1 ELSE IF c \in Closing THEN 2 ELSE 0

\* one round of while (*temp)
Look(c) ==
  /\ \/ bs_flag(c) = 1 /\ stack_push(c) /\ UNCHANGED verdict
     \/ bs_flag(c) = 2 /\ stack_is_empty /\ verdict' = "fail" /\ stack_destory
     \/ bs_flag(c) = 2 /\ ~stack_is_empty /\ stack_pop /\ UNCHANGED verdict
     \/ bs_flag(c) = 0 /\ UNCHANGED <<stack, over, refused, verdict>>
  /\ seen' = Append(seen, c)

Scan ==
  /\ verdict = "none" /\ todo # <<>>
  /\ Look(Head(todo)) /\ todo' = Tail(todo)
  /\ UNCHANGED <<code, unread>>

Conclude ==
  /\ verdict = "none" /\ todo = <<>> /\ unread = <<>>
  /\ verdict' = IF stack_is_empty THEN "ok" ELSE "fail"
  /\ stack_destory
  /\ UNCHANGED <<code, unread, todo, seen>>

\* what lies behind the allocation belongs to stdio, or to malloc itself
Corrupted ==
  /\ over /\ verdict = "none" /\ verdict' = "crash"
  /\ UNCHANGED <<code, unread, todo, stack, over, refused, seen>>

BalanceNext == ReadLine \/ Scan \/ Conclude \/ Corrupted

BalanceSpec == BalanceInit /\ [][BalanceNext]_balanceVars

-----------------------------------------------------------------------------
Count(str, n, S) == Cardinality({i \in 1..n : str[i] \in S})
Depth(str, n) == Count(str, n, Opening) - Count(str, n, Closing)

\* Every level of the stack is the bracket that has opened it, and nothing has closed it.
HoldsUnclosed ==
  /\ Len(stack) = Depth(seen, Len(seen))
  /\ \A d \in 1..Len(stack) : \E i \in 1..Len(seen) :
       /\ seen[i] = stack[d] /\ seen[i] \in Opening /\ Depth(seen, i) = d
       /\ \A n \in i..Len(seen) : Depth(seen, n) >= d

\* Without a NUL in the file the verdict is "ok" just when every prefix of the file has
\* at least as many brackets that open as close and the file has as many; until then
\* the stack holds the brackets still open.  Kinds of brackets are not compared.  It
\* need not be so once a push was refused, and nothing is certain once one has written
\* behind the allocation.  (main, stack_push, stack_pop, stack_is_full)
BalanceVerdict ==
  /\ refused => over
  /\ ~over =>
       /\ verdict = "none" => HoldsUnclosed
       /\ verdict # "none" /\ ~Contains(code, NUL) =>
            LET good == (\A n \in 0..Len(code) : Depth(code, n) >= 0) /\ Depth(code, Len(code)) = 0
            IN verdict = IF good THEN "ok" ELSE "fail"
================================================================================
