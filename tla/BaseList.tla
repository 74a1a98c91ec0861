------------------------------ MODULE BaseList ------------------------------
(***************************************************************************)
(* The circular doubly linked list of c/src/base/list.c, with the programs *)
(* that make a queue (queue.c), a stack (stack.c) and a searched list      *)
(* (list_test.c) of it: the pointers, and a step for every node a loop     *)
(* visits.                                                                 *)
(***************************************************************************)
EXTENDS Naturals, Sequences, SequencesExt

CONSTANTS
  Nodes,  \* what malloc can return
  head,   \* the list head, which is not on the heap
  Data    \* values of cmd

ASSUME ListAssumption == head \notin Nodes /\ Data # {}

VARIABLES
  next, prev, cmd,
  heap,   \* the nodes that are allocated
  at,     \* "idle", or inside "node_del", "walk" or "destroy"
  tmp,    \* the node the loop is at
  want,   \* the data node_find looks for
  order   \* history: the nodes, in the order the calls so far should have left them

ptrVars == <<next, prev, cmd, heap>>
loopVars == <<at, tmp, want>>
vars == <<ptrVars, loopVars, order>>

Places == Nodes \cup {head}

TypeOK ==
  /\ next \in [Places -> Places] /\ prev \in [Places -> Places]
  /\ cmd \in [Nodes -> Data] /\ heap \subseteq Nodes
  /\ at \in {"idle", "node_del", "walk", "destroy"} /\ tmp \in Places /\ want \in Data
  /\ order \in Seq(Nodes)

\* list_head_init; what a node holds before it is allocated does not matter
Init ==
  /\ next = [n \in Places |-> head] /\ prev = [n \in Places |-> head]
  /\ cmd = [n \in Nodes |-> CHOOSE d \in Data : TRUE]
  /\ heap = {}
  /\ at = "idle" /\ tmp = head /\ want = (CHOOSE d \in Data : TRUE)
  /\ order = <<>>

-----------------------------------------------------------------------------
(* list.c: the four stores of list_add and the two of list_del, in order.   *)

ListAdd(new, p, n) ==
  /\ prev' = [prev EXCEPT ![n] = new, ![new] = p]
  /\ next' = [next EXCEPT ![new] = n, ![p] = new]

ListAddHead(new) == ListAdd(new, head, next[head])
ListAddTail(new) == ListAdd(new, prev[head], head)

\* mutant: next->prev is left alone
ListDelHalf(p, n) ==
  /\ next' = [next EXCEPT ![p] = n]
  /\ UNCHANGED prev

ListDel(p, n) ==
  /\ next' = [next EXCEPT ![p] = n]
  /\ prev' = [prev EXCEPT ![n] = p]

ListEmpty == next[head] = head

-----------------------------------------------------------------------------
Idle == at = "idle"

\* node_create or its copies, then list_add_tail or list_add_head
Create(n, d) ==
  /\ Idle /\ n \notin heap
  /\ heap' = heap \cup {n}
  /\ cmd' = [cmd EXCEPT ![n] = d]
  /\ UNCHANGED loopVars

QueueIn(n, d) ==
  /\ Create(n, d)
  /\ ListAddTail(n)
  /\ order' = Append(order, n)

StackPush(n, d) ==
  /\ Create(n, d)
  /\ ListAddHead(n)
  /\ order' = <<n>> \o order

\* queue_out and stack_pop; the caller frees what it gets
TakeOut ==
  /\ Idle /\ ~ListEmpty
  /\ ListDel(head, next[next[head]])
  /\ heap' = heap \ {next[head]}
  /\ order' = Tail(order)
  /\ UNCHANGED <<cmd, loopVars>>

\* mutant: the search starts at the other end
NodeDelLast(d) ==
  /\ Idle
  /\ at' = "node_del" /\ tmp' = prev[head] /\ want' = d
  /\ UNCHANGED <<ptrVars, order>>

\* node_del, and the loop of node_find
NodeDel(d) ==
  /\ Idle
  /\ at' = "node_del" /\ tmp' = next[head] /\ want' = d
  /\ UNCHANGED <<ptrVars, order>>

\* mutant: the loop looks at a node and does not go on
FindStays ==
  /\ at = "node_del" /\ tmp # head /\ cmd[tmp] # want
  /\ UNCHANGED vars

FindNext ==
  /\ at = "node_del" /\ tmp # head /\ cmd[tmp] # want
  /\ tmp' = next[tmp]
  /\ UNCHANGED <<ptrVars, at, want, order>>

Found ==
  /\ at = "node_del" /\ tmp # head /\ cmd[tmp] = want
  /\ ListDel(prev[tmp], next[tmp])
  /\ heap' = heap \ {tmp}
  /\ at' = "idle" /\ tmp' = head
  /\ \E i \in DOMAIN order : order[i] = tmp /\ order' = RemoveAt(order, i)
  /\ UNCHANGED <<cmd, want>>

NotFound ==
  /\ at = "node_del" /\ tmp = head
  /\ at' = "idle"
  /\ UNCHANGED <<ptrVars, tmp, want, order>>

\* the printing loop of main
Walk ==
  /\ Idle
  /\ at' = "walk" /\ tmp' = next[head]
  /\ UNCHANGED <<ptrVars, want, order>>

WalkNext ==
  /\ at = "walk"
  /\ IF tmp # head THEN tmp' = next[tmp] /\ UNCHANGED at ELSE at' = "idle" /\ UNCHANGED tmp
  /\ UNCHANGED <<ptrVars, want, order>>

\* destory_list and queue_destory walk backwards and free what they leave behind
Destroy ==
  /\ Idle
  /\ at' = "destroy" /\ tmp' = prev[head]
  /\ UNCHANGED <<ptrVars, want, order>>

DestroyNext ==
  /\ at = "destroy" /\ tmp # head
  /\ heap' = heap \ {tmp}
  /\ tmp' = prev[tmp]
  /\ UNCHANGED <<next, prev, cmd, at, want, order>>

ListHeadInit ==
  /\ at = "destroy" /\ tmp = head
  /\ next' = [next EXCEPT ![head] = head] /\ prev' = [prev EXCEPT ![head] = head]
  /\ at' = "idle"
  /\ order' = <<>>
  /\ UNCHANGED <<cmd, heap, tmp, want>>

Loop == FindNext \/ Found \/ NotFound \/ WalkNext \/ DestroyNext \/ ListHeadInit

Next ==
  \/ \E n \in Nodes, d \in Data : QueueIn(n, d) \/ StackPush(n, d)
  \/ TakeOut
  \/ \E d \in Data : NodeDel(d)
  \/ Walk
  \/ Destroy
  \/ Loop

Spec == Init /\ [][Next]_vars

\* the program is one thread, and goes on inside a loop
FairSpec == Spec /\ WF_vars(Loop)

-----------------------------------------------------------------------------
(* list_swap, store by store; it is not part of Spec.                       *)

SwapStores(a, b) ==
  LET next1 == [next EXCEPT ![prev[a]] = b]                  \* a->prev->next = b
      prev1 == [prev EXCEPT ![a] = prev[b]]                  \* a->prev = b->prev
      next2 == [next1 EXCEPT ![prev1[b]] = a]                \* b->prev->next = a
      prev2 == [prev1 EXCEPT ![b] = prev[a]]                 \* b->prev = tmp
      prev3 == [prev2 EXCEPT ![next2[a]] = b]                \* a->next->prev = b
      next3 == [next2 EXCEPT ![a] = next2[b]]                \* a->next = b->next
      next4 == [next3 EXCEPT ![b] = next2[a]]                \* b->next = tmp
      prev4 == [prev3 EXCEPT ![next4[b]] = a] IN             \* b->next->prev = a
    next' = next4 /\ prev' = prev4

ListSwap(i, j) ==
  /\ Idle /\ i < j
  /\ SwapStores(order[i], order[j])
  /\ order' = [order EXCEPT ![i] = order[j], ![j] = order[i]]
  /\ UNCHANGED <<cmd, heap, loopVars>>

SwapSpec == Init /\ [][Next \/ \E i, j \in DOMAIN order : ListSwap(i, j)]_vars

-----------------------------------------------------------------------------
(* The properties.                                                          *)

\* the ring through the head: its k-th place, counted from the head
Place(k) == IF k \in DOMAIN order THEN order[k] ELSE head

Linked ==
  \A k \in 0..Len(order) : next[Place(k)] = Place(k + 1) /\ prev[Place(k + 1)] = Place(k)

LoopSound ==
  CASE at = "idle" -> tmp = head
    [] at = "walk" -> \E k \in 1..(Len(order) + 1) : tmp = Place(k)
    [] at = "node_del" -> \E k \in 1..(Len(order) + 1) :
         tmp = Place(k) /\ \A j \in 1..(k - 1) : cmd[order[j]] # want
    [] at = "destroy" -> \E k \in 0..Len(order) :
         tmp = Place(k) /\ heap = {order[j] : j \in 1..k}

\* The pointers are one ring through the head and the nodes the calls have left on the
\* list, in their order, in both directions; exactly its nodes are allocated, and while
\* destory_list walks those it has not come past (none is leaked, none freed twice); and
\* a search has come past no node it should have stopped at (list.c, list_test.c).
RingInv ==
  /\ TypeOK
  /\ IsInjective(order)
  /\ Linked
  /\ at # "destroy" => heap = ToSet(order)
  /\ LoopSound

\* The list, the queue and the stack implement the sequence of Deque: in particular the
\* node that node_del frees is the first one with the data it was given.
items == [k \in DOMAIN order |-> cmd[order[k]]]
D == INSTANCE Deque WITH Data <- Data, items <- items
DequeSpec == D!DequeSpec

\* Every loop over the list comes to its end.
LoopsEnd == at # "idle" ~> at = "idle"

\* "swap elements" (list.h:57): after a swap of a and b, b is where a was, a is where b
\* was, and the list is still one ring in both directions.
SwapExchanges == Idle => Linked
=============================================================================
