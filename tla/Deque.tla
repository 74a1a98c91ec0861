------------------------------- MODULE Deque -------------------------------
(***************************************************************************)
(* What the list, the queue and the stack of c/src/base promise: a sequence *)
(* of commands to add to at both ends, to take from at the front, and to    *)
(* delete the first occurrence of a command from.                           *)
(***************************************************************************)
EXTENDS Naturals, Sequences, SequencesExt

CONSTANT Data

VARIABLE items

DequeInit == items = <<>>

AddFirst(d) == items' = <<d>> \o items
AddLast(d) == items' = Append(items, d)
TakeFirst == items # <<>> /\ items' = Tail(items)

DeleteFirst(d) ==
  \E i \in DOMAIN items :
    /\ items[i] = d /\ \A j \in 1..(i - 1) : items[j] # d
    /\ items' = RemoveAt(items, i)

Clear == items' = <<>>

DequeNext == (\E d \in Data : AddFirst(d) \/ AddLast(d) \/ DeleteFirst(d)) \/ TakeFirst \/ Clear

DequeSpec == DequeInit /\ [][DequeNext]_items
=============================================================================
