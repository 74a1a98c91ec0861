----------------------------- MODULE PopenProofs -----------------------------
(***************************************************************************)
(* Proofs about Popen for any children and any descriptors: the table      *)
(* names the right child, and no child is forgotten.                       *)
(***************************************************************************)
EXTENDS Popen, TLAPS

USE PopenAssumption DEF parentVars, childVars

\* The children there are to wait for.
Unwaited == {p \in Pids : state[p] \in Alive \cup {"zombie"}}

\* What makes the two properties inductive: a stream has a descriptor that is in use,
\* and the child m_pclose waits for is not given up at the same time.
StreamsInUse == \A fd \in streams : tab[fd] # Free
WaitingNotLost == waiting \notin lost

\* childpid names no child twice, and none that is waited for or given up.
NamedOnce ==
  /\ \A f, g \in Remembered : childpid[f] = childpid[g] => f = g
  /\ \A fd \in Remembered : childpid[fd] \notin lost \cup {waiting}
AllNamed == Unwaited = {childpid[fd] : fd \in Remembered} \cup ({waiting} \ {None}) \cup lost

PopenInv ==
  /\ TypeOK /\ TableMatchesStreams /\ StreamsInUse /\ WaitingNotLost /\ NamedOnce /\ AllNamed

-----------------------------------------------------------------------------
\* The invariant says that the restriction of childpid is injective, element by element.
LEMMA InvRemembers == PopenInv => ChildrenAreRemembered
<1> SUFFICES ASSUME PopenInv PROVE ChildrenAreRemembered
  OBVIOUS
<1>1. IsInjective(Restrict(childpid, Remembered))
  BY DEF PopenInv, NamedOnce, IsInjective, Restrict
<1> QED BY <1>1 DEF PopenInv, NamedOnce, AllNamed, Unwaited, ChildrenAreRemembered

\* Nothing is open at first.
LEMMA PopenInit == Init => PopenInv
<1> SUFFICES ASSUME Init PROVE PopenInv
  OBVIOUS
<1>1. TypeOK
  BY DEF Init, TypeOK, Alive, Types, Free
<1>2. Remembered = {} /\ Unwaited = {}
  BY DEF Init, Remembered, Unwaited, Alive
<1>3. TableMatchesStreams /\ StreamsInUse /\ WaitingNotLost
  BY DEF Init, TableMatchesStreams, StreamsInUse, WaitingNotLost
<1>4. NamedOnce /\ AllNamed
  BY <1>2 DEF Init, NamedOnce, AllNamed
<1> QED BY <1>1, <1>3, <1>4 DEF PopenInv

\* A descriptor that is free, or a file of the caller's, is of no child.
LEMMA NotRemembered ==
  ASSUME PopenInv, NEW fd \in Fds, tab[fd] \in {Free, File, Leak}
  PROVE  childpid[fd] = None /\ (tab[fd] = Free => fd \notin streams)
BY DEF PopenInv, TypeOK, TableMatchesStreams, StreamsInUse, Types, Free, File, Leak

\* A new child is in nobody's table.
LEMMA UnusedIsNew ==
  ASSUME PopenInv, NEW p \in Pids, state[p] = "unused"
  PROVE  p \notin lost /\ p # waiting /\ \A fd \in Fds : childpid[fd] # p
BY DEF PopenInv, TableMatchesStreams, AllNamed, Unwaited, Alive

LEMMA ForkKeeps ==
  ASSUME PopenInv, NEW p \in Pids, NEW t \in Types, Fork(p, t)
  PROVE  /\ state' \in [Pids -> Alive \cup {"unused", "zombie", "reaped"}]
         /\ type' \in [Pids -> Types]
         /\ held' \in [Pids -> SUBSET Ends] /\ kept' \in [Pids -> SUBSET Ends]
         /\ Unwaited' = Unwaited \cup {p}
         /\ \A q \in Pids \ {p} : type'[q] = type[q] /\ state'[q] = state[q]
         /\ type'[p] = t /\ state'[p] = "forked" /\ state[p] = "unused"
<1> USE DEF PopenInv, TypeOK, Fork
<1>1. <<p, "r">> \in Ends /\ <<p, "w">> \in Ends /\ <<p, Other(t)>> \in Ends
  BY DEF Ends, Types, Other
<1>2. Open(Fds) \subseteq Ends /\ Keeps(p, t) \subseteq Ends
  BY <1>1 DEF Open, Keeps
<1>3. state' \in [Pids -> Alive \cup {"unused", "zombie", "reaped"}] /\ type' \in [Pids -> Types]
  BY DEF Alive
<1>4. held' \in [Pids -> SUBSET Ends] /\ kept' \in [Pids -> SUBSET Ends]
  BY <1>1, <1>2
<1>5. \A q \in Pids \ {p} : type'[q] = type[q] /\ state'[q] = state[q]
  OBVIOUS
<1>6. type'[p] = t /\ state'[p] = "forked" /\ state[p] = "unused"
  OBVIOUS
<1>7. Unwaited' = Unwaited \cup {p}
  BY <1>5, <1>6 DEF Unwaited, Alive
<1> QED BY <1>3, <1>4, <1>5, <1>6, <1>7

\* m_popen: whatever fails in it, the child is named once.
LEMMA PopenKeeps ==
  ASSUME PopenInv, NEW p \in Pids, NEW t \in Types, Popen(p, t)
  PROVE  PopenInv'
<1> USE DEF PopenInv, TypeOK
<1>0. PICK mine, other \in Fds :
        /\ mine # other /\ tab[mine] = Free /\ tab[other] = Free
        /\ \/ /\ Fork(p, t)
              /\ tab' = [tab EXCEPT ![mine] = <<p, t>>]
              /\ childpid' = [childpid EXCEPT ![mine] = p]
              /\ streams' = streams \cup {mine}
              /\ UNCHANGED lost
           \/ /\ Fork(p, t)
              /\ tab' = [tab EXCEPT ![mine] = <<p, t>>]
              /\ lost' = lost \cup {p}
              /\ UNCHANGED <<childpid, streams>>
           \/ /\ tab' = [tab EXCEPT ![mine] = Leak, ![other] = Leak]
              /\ UNCHANGED <<childpid, streams, lost, childVars>>
  BY Zenon DEF Popen
<1>1. UNCHANGED <<waiting, hit>> /\ waiting = None
  BY DEF Popen, Calls
<1>2. childpid[mine] = None /\ mine \notin streams /\ other \notin streams /\ childpid[other] = None
  BY <1>0, NotRemembered
<1>3. <<p, t>> \in Ends /\ <<p, t>> # Free /\ Leak # Free /\ Leak \notin Ends
  BY DEF Ends, Types, Free, Leak
<1>4. CASE /\ Fork(p, t)
           /\ tab' = [tab EXCEPT ![mine] = <<p, t>>]
           /\ childpid' = [childpid EXCEPT ![mine] = p]
           /\ streams' = streams \cup {mine}
           /\ UNCHANGED lost
  <2>1. p \notin lost /\ \A fd \in Fds : childpid[fd] # p
    BY <1>4, UnusedIsNew, ForkKeeps
  <2>2. TypeOK'
    BY <1>1, <1>3, <1>4, ForkKeeps
  <2>3. TableMatchesStreams'
    BY <1>2, <1>3, <1>4, <2>1, ForkKeeps DEF TableMatchesStreams
  <2>4. StreamsInUse' /\ WaitingNotLost'
    BY <1>1, <1>3, <1>4 DEF StreamsInUse, WaitingNotLost
  <2>5. /\ Remembered' = Remembered \cup {mine}
        /\ \A fd \in Remembered : childpid'[fd] = childpid[fd] /\ fd # mine
        /\ childpid'[mine] = p
    BY <1>2, <1>4 DEF Remembered
  <2>6. NamedOnce'
    BY <1>1, <1>4, <2>1, <2>5 DEF NamedOnce, Remembered
  <2>7. {childpid'[fd] : fd \in Remembered'} = {childpid[fd] : fd \in Remembered} \cup {p}
    BY <2>5
  <2>8. AllNamed'
    BY <1>1, <1>4, <2>7, ForkKeeps DEF AllNamed
  <2> QED BY <2>2, <2>3, <2>4, <2>6, <2>8
<1>5. CASE /\ Fork(p, t)
           /\ tab' = [tab EXCEPT ![mine] = <<p, t>>]
           /\ lost' = lost \cup {p}
           /\ UNCHANGED <<childpid, streams>>
  <2>1. p \notin lost /\ \A fd \in Fds : childpid[fd] # p
    BY <1>5, UnusedIsNew, ForkKeeps
  <2>2. TypeOK'
    BY <1>1, <1>3, <1>5, ForkKeeps
  <2>3. TableMatchesStreams'
    BY <1>2, <1>3, <1>5, <2>1, ForkKeeps DEF TableMatchesStreams
  <2>4. StreamsInUse' /\ WaitingNotLost'
    BY <1>1, <1>2, <1>5 DEF StreamsInUse, WaitingNotLost
  <2>5. Remembered' = Remembered
    BY <1>5 DEF Remembered
  <2>6. NamedOnce'
    BY <1>1, <1>5, <2>1, <2>5 DEF NamedOnce, Remembered
  <2>7. AllNamed'
    BY <1>1, <1>5, <2>5, ForkKeeps DEF AllNamed
  <2> QED BY <2>2, <2>3, <2>4, <2>6, <2>7
<1>6. CASE /\ tab' = [tab EXCEPT ![mine] = Leak, ![other] = Leak]
           /\ UNCHANGED <<childpid, streams, lost, childVars>>
  <2>1. TypeOK'
    BY <1>1, <1>6
  <2>2. \A fd \in Fds : tab'[fd] = tab[fd] \/ (tab'[fd] = Leak /\ fd \in {mine, other})
    BY <1>6
  <2>3. TableMatchesStreams'
    BY <1>2, <1>3, <1>6, <2>2 DEF TableMatchesStreams
  <2>4. StreamsInUse' /\ WaitingNotLost'
    BY <1>1, <1>3, <1>6, <2>2 DEF StreamsInUse, WaitingNotLost
  <2>5. NamedOnce' /\ AllNamed'
    BY <1>1, <1>6 DEF NamedOnce, AllNamed, Remembered, Unwaited
  <2> QED BY <2>1, <2>3, <2>4, <2>5
<1> QED BY <1>0, <1>4, <1>5, <1>6

\* m_pclose takes the child out of the table and waits for it, or gives it up.
LEMMA PcloseKeeps ==
  ASSUME PopenInv, NEW fd \in Fds, Pclose(fd)
  PROVE  PopenInv'
<1> USE DEF PopenInv, TypeOK
<1>0. waiting = None /\ fd \in streams /\ UNCHANGED <<childVars, hit>>
  BY DEF Pclose, Calls
<1>1. CASE UNCHANGED parentVars
  BY <1>0, <1>1 DEF TableMatchesStreams, StreamsInUse, WaitingNotLost, NamedOnce, AllNamed, Remembered, Unwaited
<1>2. CASE PcloseChild(fd)
  <2> DEFINE p == childpid[fd]
  <2>1. /\ p \in Pids /\ p # None /\ p \notin lost /\ fd \in Remembered
        /\ childpid' = [childpid EXCEPT ![fd] = None] /\ tab' = [tab EXCEPT ![fd] = Free]
        /\ streams' = streams \ {fd}
        /\ \/ waiting' = p /\ UNCHANGED lost
           \/ lost' = lost \cup {p} /\ UNCHANGED waiting
    BY <1>2 DEF PcloseChild, NamedOnce, Remembered
  <2>2. Remembered' = Remembered \ {fd} /\ \A g \in Remembered' : childpid'[g] = childpid[g] /\ childpid[g] # p
    BY <2>1 DEF Remembered, NamedOnce
  <2> HIDE DEF p
  <2>3. TypeOK'
    BY <1>0, <2>1
  <2>4. TableMatchesStreams'
    BY <1>0, <2>1 DEF TableMatchesStreams, Free, Ends, Types
  <2>5. StreamsInUse' /\ WaitingNotLost'
    BY <1>0, <2>1 DEF StreamsInUse, WaitingNotLost
  <2>6. NamedOnce'
    BY <1>0, <2>1, <2>2 DEF NamedOnce
  <2>7. {childpid[g] : g \in Remembered} = {childpid'[g] : g \in Remembered'} \cup {p}
    BY <2>1, <2>2 DEF p
  <2>8. AllNamed'
    BY <1>0, <2>1, <2>7 DEF AllNamed, Unwaited
  <2> QED BY <2>3, <2>4, <2>5, <2>6, <2>8
<1> QED BY <1>1, <1>2 DEF Pclose

\* waitpid: the child it has waited for was named nowhere else.
LEMMA WaitedKeeps == ASSUME PopenInv, Waited PROVE PopenInv'
<1> USE DEF PopenInv, TypeOK, Waited
<1>1. /\ waiting \in Pids /\ waiting \notin lost /\ \A fd \in Fds : childpid[fd] # waiting
  BY DEF WaitingNotLost, NamedOnce, Remembered
<1>2. /\ state'[waiting] = "reaped" /\ waiting' = None
      /\ \A q \in Pids \ {waiting} : state'[q] = state[q]
  BY <1>1
<1>3. TypeOK'
  BY <1>1 DEF Alive
<1>4. TableMatchesStreams'
  BY <1>1, <1>2 DEF TableMatchesStreams
<1>5. StreamsInUse' /\ WaitingNotLost'
  BY <1>1 DEF StreamsInUse, WaitingNotLost
<1>6. Remembered' = Remembered
  BY DEF Remembered
<1>7. NamedOnce'
  BY <1>6, <1>2 DEF NamedOnce, Remembered
<1>8. Unwaited' = Unwaited \ {waiting}
  BY <1>1, <1>2 DEF Unwaited, Alive
<1>9. AllNamed'
  BY <1>1, <1>2, <1>6, <1>8 DEF AllNamed, Remembered
<1> QED BY <1>3, <1>4, <1>5, <1>7, <1>9

\* The caller's own files use descriptors that are nobody else's.
LEMMA FilesKeep ==
  ASSUME PopenInv, NEW fd \in Fds, Fopen(fd) \/ Fclose(fd) \/ StopCmd(fd)
  PROVE  PopenInv'
<1> USE DEF PopenInv, TypeOK
<1>0. UNCHANGED <<childpid, waiting, lost, childVars>>
  BY DEF Fopen, Fclose, StopCmd
<1>1. NamedOnce' /\ AllNamed' /\ WaitingNotLost'
  BY <1>0 DEF NamedOnce, AllNamed, WaitingNotLost, Remembered, Unwaited
<1>2. Free # File /\ Free \notin Ends /\ File \notin Ends
  BY DEF Free, File, Ends, Types
<1>3. CASE StopCmd(fd)
  BY <1>0, <1>1, <1>3 DEF StopCmd, TableMatchesStreams, StreamsInUse
<1>4. CASE Fopen(fd) \/ Fclose(fd)
  <2>1. childpid[fd] = None /\ UNCHANGED hit
    BY <1>4, NotRemembered DEF Fopen, Fclose
  <2>2. TypeOK'
    BY <1>0, <1>4, <2>1 DEF Fopen, Fclose
  <2>3. TableMatchesStreams'
    BY <1>0, <1>2, <1>4, <2>1 DEF Fopen, Fclose, TableMatchesStreams
  <2>4. StreamsInUse'
    BY <1>2, <1>4 DEF Fopen, Fclose, StreamsInUse
  <2> QED BY <1>1, <2>2, <2>3, <2>4
<1> QED BY <1>3, <1>4

\* A child stays one to wait for until it has been waited for.
LEMMA ChildKeeps ==
  ASSUME PopenInv, NEW p \in Pids, Child(p)
  PROVE  PopenInv'
<1> USE DEF PopenInv, TypeOK
<1>1. /\ UNCHANGED <<tab, childpid, streams, waiting, lost, type, kept, hit>>
      /\ state[p] \in Alive
      /\ \E s \in {"grouped", "running", "zombie"} : state' = [state EXCEPT ![p] = s]
      /\ \/ held' = held \/ held' = [held EXCEPT ![p] = kept[p]] \/ held' = [held EXCEPT ![p] = {}]
  BY DEF Child, Setpgrp, Exec, Exit, Alive
<1>2. /\ state'[p] \in Alive \cup {"zombie"}
      /\ \A q \in Pids \ {p} : state'[q] = state[q]
  BY <1>1 DEF Alive
<1>3. TypeOK'
  BY <1>1 DEF Alive
<1>4. Unwaited' = Unwaited
  BY <1>1, <1>2 DEF Unwaited
<1>5. NamedOnce' /\ AllNamed' /\ WaitingNotLost' /\ StreamsInUse'
  BY <1>1, <1>4 DEF NamedOnce, AllNamed, WaitingNotLost, StreamsInUse, Remembered
<1>6. TableMatchesStreams'
  BY <1>1, <1>2 DEF TableMatchesStreams, Alive
<1> QED BY <1>3, <1>5, <1>6

LEMMA PopenInductive == Spec => []PopenInv
<1>1. PopenInv /\ [Next]_vars => PopenInv'
  <2> SUFFICES ASSUME PopenInv, [Next]_vars PROVE PopenInv'
    OBVIOUS
  <2>1. CASE UNCHANGED vars
    BY <2>1 DEF vars, PopenInv, TypeOK, TableMatchesStreams, StreamsInUse, WaitingNotLost, NamedOnce, AllNamed,
                Remembered, Unwaited
  <2>2. CASE Next
    BY <2>2, PopenKeeps, PcloseKeeps, WaitedKeeps, FilesKeep, ChildKeeps DEF Next
  <2> QED BY <2>1, <2>2
<1> QED BY <1>1, PopenInit, PTL DEF Spec

-----------------------------------------------------------------------------
\* In every behaviour, with any children and descriptors, the table childpid names the
\* child at the other end of an open stream's pipe, and never one that was waited for.
\* (m_popen, m_pclose, m_stop_cmd)
THEOREM TableIsRight == Spec => []TableMatchesStreams
<1>1. PopenInv => TableMatchesStreams
  BY DEF PopenInv
<1> QED BY <1>1, PopenInductive, PTL

\* In every behaviour each child not waited for is in the table, once, or waited for, or
\* given up by a failing fdopen or fclose; and every variable has its type.
THEOREM NoChildForgotten == Spec => []ChildrenAreRemembered
BY InvRemembers, PopenInductive, PTL
=============================================================================
