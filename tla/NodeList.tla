------------------------------ MODULE NodeList ------------------------------
(***************************************************************************)
(* android/linux/ipc/client/list.h (server/list.h is a copy of it): the    *)
(* circular doubly linked list of struct list_node that the IPC libraries  *)
(* keep their callbacks on.  The mutex of the list is held for a whole     *)
(* function or loop, so that one caller at a time is here.                 *)
(***************************************************************************)
EXTENDS Naturals, Sequences, Functions, SequencesExt

CONSTANTS
  Items,  \* the nodes, each a member of an ipc_callback_node_t
  list,   \* the head
  NULL

ASSUME NodeListAssumption == list \notin Items /\ NULL \notin Items \cup {list}

VARIABLES
  node,       \* the struct list_node of every item and of the head
  walk,       \* "none", or the loop the caller is in: "every", "safe"
  visit,      \* the loop's node
  temp_node,
  linked,     \* history: the items on the list, in the order the calls should have left them
  start,      \* history: the same, when the loop began
  seen        \* history: the nodes the body of the loop has been run for

walkVars == <<walk, visit, temp_node, start, seen>>
nodeVars == <<node, walkVars, linked>>

Cells == Items \cup {list}
ListNode == [prev : Cells \cup {NULL}, next : Cells \cup {NULL}]

-----------------------------------------------------------------------------
(* The functions on a memory m of nodes: one store after another.           *)

SetPrev(m, n, p) == [m EXCEPT ![n].prev = p]
SetNext(m, n, p) == [m EXCEPT ![n].next = p]

list_initialize(m, n) == SetPrev(SetNext(m, n, n), n, n)
list_clear_node(m, n) == SetPrev(SetNext(m, n, NULL), n, NULL)

list_in_list(m, n) == ~(m[n].prev = NULL /\ m[n].next = NULL)

\* l is the head, or for list_add_after and list_add_before an item on the list
list_add_head(m, l, item) ==
  LET m1 == SetPrev(SetNext(m, item, m[l].next), item, l)
      m2 == SetPrev(m1, m1[l].next, item)
  IN  SetNext(m2, l, item)

list_add_tail(m, l, item) ==
  LET m1 == SetNext(SetPrev(m, item, m[l].prev), item, l)
      m2 == SetNext(m1, m1[l].prev, item)
  IN  SetPrev(m2, l, item)

\* mutant: the node keeps its pointers into the list
DeleteKeeps(m, item) ==
  LET m1 == SetPrev(m, m[item].next, m[item].prev)
  IN  SetNext(m1, m1[item].prev, m1[item].next)

list_delete(m, item) ==
  LET m1 == SetPrev(m, m[item].next, m[item].prev)
      m2 == SetNext(m1, m1[item].prev, m1[item].next)
  IN  list_clear_node(m2, item)

list_is_empty(m) == m[list].next = list

list_peek_head(m) == IF m[list].next # list THEN m[list].next ELSE NULL
list_peek_tail(m) == IF m[list].prev # list THEN m[list].prev ELSE NULL

list_prev(m, item) == IF m[item].prev # list THEN m[item].prev ELSE NULL
list_next(m, item) == IF m[item].next # list THEN m[item].next ELSE NULL

list_prev_wrap(m, item) ==
  LET before == m[item].prev IN
    IF before # list THEN before ELSE IF m[before].prev # list THEN m[before].prev ELSE NULL

list_next_wrap(m, item) ==
  LET after == m[item].next IN
    IF after # list THEN after ELSE IF m[after].next # list THEN m[after].next ELSE NULL

-----------------------------------------------------------------------------
(* The calls.                                                               *)

NodeInit ==
  /\ node = list_initialize([n \in Cells |-> [prev |-> NULL, next |-> NULL]], list)
  /\ linked = <<>>
  /\ walk = "none" /\ visit = list /\ temp_node = list /\ start = <<>> /\ seen = <<>>

OffList(n) == \A k \in DOMAIN linked : linked[k] # n

\* before it is put on the list ipc_client.c and ipc_server.c initialize a node; an item
\* that is on the list keeps its pointers
InitializeItem(n) ==
  /\ walk = "none" /\ OffList(n)
  /\ \/ node' = list_initialize(node, n)
     \/ node' = list_clear_node(node, n)
  /\ UNCHANGED <<linked, walkVars>>

AddHead(n) ==
  /\ walk = "none" /\ OffList(n)
  /\ node' = list_add_head(node, list, n) /\ linked' = <<n>> \o linked
  /\ UNCHANGED walkVars

AddTail(n) ==
  /\ walk = "none" /\ OffList(n)
  /\ node' = list_add_tail(node, list, n) /\ linked' = Append(linked, n)
  /\ UNCHANGED walkVars

AddBeside(n, k) ==
  /\ walk = "none" /\ OffList(n)
  /\ \/ node' = list_add_head(node, linked[k], n) /\ linked' = InsertAt(linked, k + 1, n)
     \/ node' = list_add_tail(node, linked[k], n) /\ linked' = InsertAt(linked, k, n)
  /\ UNCHANGED walkVars

Delete(k) ==
  /\ walk = "none"
  /\ node' = list_delete(node, linked[k]) /\ linked' = RemoveAt(linked, k)
  /\ UNCHANGED walkVars

RemoveHead ==
  /\ walk = "none" /\ node[list].next # list
  /\ node' = list_delete(node, node[list].next) /\ linked' = Tail(linked)
  /\ UNCHANGED walkVars

RemoveTail ==
  /\ walk = "none" /\ node[list].prev # list
  /\ node' = list_delete(node, node[list].prev) /\ linked' = Front(linked)
  /\ UNCHANGED walkVars

\* list_for_every, also that of list_length, and list_for_every_safe
StartWalk(kind) ==
  /\ walk = "none"
  /\ walk' = kind /\ visit' = node[list].next
  /\ temp_node' = IF kind = "safe" THEN node[node[list].next].next ELSE list
  /\ start' = linked /\ seen' = <<>>
  /\ UNCHANGED <<node, linked>>

Every ==
  /\ walk = "every" /\ visit # list
  /\ seen' = Append(seen, visit) /\ visit' = node[visit].next
  /\ UNCHANGED <<node, linked, walk, temp_node, start>>

\* the body may delete the node it is run for
DeletesVisited ==
  /\ node' = list_delete(node, visit)
  /\ \E k \in DOMAIN linked : linked[k] = visit /\ linked' = RemoveAt(linked, k)

EverySafe ==
  /\ walk = "safe" /\ visit # list
  /\ seen' = Append(seen, visit)
  /\ DeletesVisited \/ UNCHANGED <<node, linked>>
  /\ visit' = temp_node /\ temp_node' = node'[temp_node].next
  /\ UNCHANGED <<walk, start>>

\* the searches of ipc_client.c and ipc_server.c delete what they have found and break
Break ==
  /\ walk # "none" /\ visit # list
  /\ DeletesVisited \/ UNCHANGED <<node, linked>>
  /\ walk' = "none" /\ visit' = list /\ temp_node' = list /\ start' = <<>> /\ seen' = <<>>

EndWalk ==
  /\ walk # "none" /\ visit = list
  /\ walk' = "none" /\ temp_node' = list /\ start' = <<>> /\ seen' = <<>>
  /\ UNCHANGED <<node, linked, visit>>

NodeNext ==
  \/ \E n \in Items : InitializeItem(n) \/ AddHead(n) \/ AddTail(n)
  \/ \E n \in Items, k \in DOMAIN linked : AddBeside(n, k)
  \/ \E k \in DOMAIN linked : Delete(k)
  \/ RemoveHead \/ RemoveTail
  \/ \E kind \in {"every", "safe"} : StartWalk(kind)
  \/ Every \/ EverySafe \/ Break \/ EndWalk

NodeSpec == NodeInit /\ [][NodeNext]_nodeVars

-----------------------------------------------------------------------------
(* The properties.                                                          *)

\* the ring through the head: its k-th place, counted from the head
Spot(k) == IF k \in DOMAIN linked THEN linked[k] ELSE list

\* What every function that reads says, by the items the calls have left on the list, in
\* their order: the first and the last; the neighbours of each item, around the head for
\* the wrapping ones; that it is on the list, and that a deleted or cleared one is not;
\* and a loop that comes to its end has visited every node there was, once and in their
\* order, and list_length has counted them, whatever list_for_every_safe has deleted.
\* (list.h of ipc/client and ipc/server)
ReadsFollowTheList ==
  LET L == Len(linked) IN
  /\ list_is_empty(node) <=> linked = <<>>
  /\ list_peek_head(node) = (IF L = 0 THEN NULL ELSE linked[1])
  /\ list_peek_tail(node) = (IF L = 0 THEN NULL ELSE linked[L])
  /\ \A k \in 1..L :
       /\ list_in_list(node, linked[k])
       /\ list_next(node, linked[k]) = (IF k = L THEN NULL ELSE linked[k + 1])
       /\ list_prev(node, linked[k]) = (IF k = 1 THEN NULL ELSE linked[k - 1])
       /\ list_next_wrap(node, linked[k]) = linked[IF k = L THEN 1 ELSE k + 1]
       /\ list_prev_wrap(node, linked[k]) = linked[IF k = 1 THEN L ELSE k - 1]
  /\ \A n \in Items : OffList(n) /\ list_in_list(node, n) => node[n] = [prev |-> n, next |-> n]
  /\ walk # "none" /\ visit = list => seen = start

-----------------------------------------------------------------------------
(* What the proofs need of the pointers and of the loops.                   *)

NodeTypeOK ==
  /\ node \in [Cells -> ListNode] /\ linked \in Seq(Items)
  /\ walk \in {"none", "every", "safe"} /\ visit \in Cells /\ temp_node \in Cells
  /\ start \in Seq(Items) /\ seen \in Seq(Items)

Ringed ==
  \A k \in 0..Len(linked) : node[Spot(k)].next = Spot(k + 1) /\ node[Spot(k + 1)].prev = Spot(k)

\* what is not on the list is cleared, or is a list of its own
Aside ==
  \A n \in Items : OffList(n) =>
    node[n] \in {[prev |-> NULL, next |-> NULL], [prev |-> n, next |-> n]}

\* What is left of start when the loop is at its node: the items from there on.
WalkSound ==
  IF walk = "none" THEN visit = list
  ELSE LET c == Len(seen)
           r == Len(start) - c
           b == Len(linked) - r
       IN  /\ c <= Len(start) /\ r <= Len(linked) /\ visit = Spot(b + 1)
           /\ \A k \in 1..c : seen[k] = start[k]
           /\ \A k \in 1..r : start[c + k] = linked[b + k]
           /\ walk = "safe" => temp_node = node[visit].next

NodeListInv == NodeTypeOK /\ IsInjective(linked) /\ Ringed /\ Aside /\ WalkSound
=============================================================================
