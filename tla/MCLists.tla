-------------------------------- MODULE MCLists --------------------------------
(***************************************************************************)
(* The two lists of nodes, one at a time: used says which of them it is    *)
(* that a program uses, the variables of the other rest.                   *)
(***************************************************************************)
EXTENDS BaseList, NodeList

VARIABLE used

listsVars == <<used, vars, nodeVars>>

ListsInit == used \in {"base", "node"} /\ Init /\ NodeInit

ListsNext ==
  /\ UNCHANGED used
  /\ \/ used = "base" /\ Next /\ UNCHANGED nodeVars
     \/ used = "node" /\ NodeNext /\ UNCHANGED vars

\* the program is one thread, and goes on inside a loop
ListsSpec == ListsInit /\ [][ListsNext]_listsVars /\ WF_vars(used = "base" /\ Loop)
=============================================================================
