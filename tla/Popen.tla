-------------------------------- MODULE Popen --------------------------------
(***************************************************************************)
(* popen with process groups (linux/src/popen/mpopen.c): the table from    *)
(* descriptors to children, the pipe ends every process holds, and a       *)
(* caller that also opens ordinary files.  The processes of the shell      *)
(* commands and the descriptors are the system's.                          *)
(***************************************************************************)
EXTENDS Functions

CONSTANTS
  Pids,    \* the children there may be; a pid is used once
  Fds,     \* the parent's descriptors above the standard ones
  None

ASSUME PopenAssumption == None \notin Pids

Types == {"r", "w"}
Ends == Pids \X Types       \* the parent's end of a child's pipe is of its type

Free == <<None, "free">>
File == <<None, "file">>     \* of the caller's own fopen
Leak == <<None, "leak">>     \* of a pipe no child was forked for

Other(t) == IF t = "r" THEN "w" ELSE "r"

VARIABLES
  tab,       \* the parent's descriptors: a pipe end, or one of Free, File, Leak
  childpid,
  streams,   \* the descriptors the caller has a FILE of
  waiting,   \* the child m_pclose waits for
  state, type,
  held,      \* the pipe ends a child holds
  kept,      \* those it will still hold when it has become the shell
  hit,       \* children a SIGTERM has reached
  lost       \* history: children whose fdopen or fclose failed

parentVars == <<tab, childpid, streams, waiting, lost>>
childVars == <<state, type, held, kept>>
vars == <<parentVars, childVars, hit>>

Alive == {"forked", "grouped", "running"}

TypeOK ==
  /\ tab \in [Fds -> Ends \cup {Free, File, Leak}]
  /\ childpid \in [Fds -> Pids \cup {None}]
  /\ streams \subseteq Fds /\ waiting \in Pids \cup {None}
  /\ state \in [Pids -> Alive \cup {"unused", "zombie", "reaped"}]
  /\ type \in [Pids -> Types]
  /\ held \in [Pids -> SUBSET Ends] /\ kept \in [Pids -> SUBSET Ends]
  /\ hit \subseteq Pids /\ lost \subseteq Pids

Init ==
  /\ tab = [fd \in Fds |-> Free] /\ childpid = [fd \in Fds |-> None]
  /\ streams = {} /\ waiting = None /\ lost = {} /\ hit = {}
  /\ state = [p \in Pids |-> "unused"] /\ type = [p \in Pids |-> "r"]
  /\ held = [p \in Pids |-> {}] /\ kept = [p \in Pids |-> {}]

-----------------------------------------------------------------------------
(* The caller's process.                                                    *)

Calls == waiting = None

Open(fds) == {tab[fd] : fd \in fds} \cap Ends
Remembered == {fd \in Fds : childpid[fd] # None}

\* mutant: the child keeps what it has inherited
KeepsAll(p, t) == Open(Fds) \cup {<<p, Other(t)>>}

\* what the child's close loop leaves: its own end, and inherited ones that childpid
\* does not know
Keeps(p, t) == (Open(Fds) \ Open(Remembered)) \cup {<<p, Other(t)>>}

\* the child is a copy of the parent, with both ends of its own pipe
Fork(p, t) ==
  /\ state[p] = "unused"
  /\ state' = [state EXCEPT ![p] = "forked"]
  /\ type' = [type EXCEPT ![p] = t]
  /\ held' = [held EXCEPT ![p] = Open(Fds) \cup {<<p, "r">>, <<p, "w">>}]
  /\ kept' = [kept EXCEPT ![p] = Keeps(p, t)]

\* m_popen, with the other end of the pipe closed in the parent; pipe needs two free
\* descriptors
Popen(p, t) ==
  /\ Calls
  /\ \E mine, other \in Fds :
       /\ mine # other /\ tab[mine] = Free /\ tab[other] = Free
       /\ \/ Fork(p, t)
             /\ tab' = [tab EXCEPT ![mine] = <<p, t>>]
             /\ childpid' = [childpid EXCEPT ![mine] = p]
             /\ streams' = streams \cup {mine}
             /\ UNCHANGED lost
          \/ Fork(p, t)                                     \* fdopen fails
             /\ tab' = [tab EXCEPT ![mine] = <<p, t>>]
             /\ lost' = lost \cup {p}
             /\ UNCHANGED <<childpid, streams>>
          \/ tab' = [tab EXCEPT ![mine] = Leak, ![other] = Leak]   \* fork fails
             /\ UNCHANGED <<childpid, streams, lost, childVars>>
  /\ UNCHANGED <<waiting, hit>>

\* mutant: the table keeps the pid
PcloseKeepsPid(fd) ==
  /\ childpid[fd] # None
  /\ tab' = [tab EXCEPT ![fd] = Free]
  /\ streams' = streams \ {fd}
  /\ \/ waiting' = childpid[fd] /\ UNCHANGED lost
     \/ lost' = lost \cup {childpid[fd]} /\ UNCHANGED waiting
  /\ UNCHANGED childpid

\* m_pclose of a stream of m_popen; a failing fclose has closed the descriptor
PcloseChild(fd) ==
  /\ childpid[fd] # None
  /\ childpid' = [childpid EXCEPT ![fd] = None]
  /\ tab' = [tab EXCEPT ![fd] = Free]
  /\ streams' = streams \ {fd}
  /\ \/ waiting' = childpid[fd] /\ UNCHANGED lost
     \/ lost' = lost \cup {childpid[fd]} /\ UNCHANGED waiting

Pclose(fd) ==
  /\ Calls /\ fd \in streams
  /\ \/ PcloseChild(fd)
     \/ childpid[fd] = None /\ UNCHANGED parentVars         \* fp wasn't opened by popen()
  /\ UNCHANGED <<childVars, hit>>

\* waitpid
Waited ==
  /\ waiting # None /\ state[waiting] = "zombie"
  /\ state' = [state EXCEPT ![waiting] = "reaped"]
  /\ waiting' = None
  /\ UNCHANGED <<tab, childpid, streams, lost, type, held, kept, hit>>

\* m_stop_cmd: kill(-pid) reaches nobody until the child has made its group
StopCmd(fd) ==
  /\ Calls /\ fd \in streams
  /\ hit' = hit \cup {p \in Pids : p = childpid[fd] /\ state[p] \in {"grouped", "running"}}
  /\ UNCHANGED <<parentVars, childVars>>

\* the caller's own files
Fopen(fd) ==
  /\ Calls /\ tab[fd] = Free
  /\ tab' = [tab EXCEPT ![fd] = File] /\ streams' = streams \cup {fd}
  /\ UNCHANGED <<childpid, waiting, lost, childVars, hit>>

Fclose(fd) ==
  /\ Calls /\ tab[fd] = File
  /\ tab' = [tab EXCEPT ![fd] = Free] /\ streams' = streams \ {fd}
  /\ UNCHANGED <<childpid, waiting, lost, childVars, hit>>

-----------------------------------------------------------------------------
(* A child.                                                                 *)

Setpgrp(p) ==
  /\ state[p] = "forked"
  /\ state' = [state EXCEPT ![p] = "grouped"]
  /\ UNCHANGED <<parentVars, type, held, kept, hit>>

\* the dup2s, the close loop and execl
Exec(p) ==
  /\ state[p] = "grouped"
  /\ state' = [state EXCEPT ![p] = "running"]
  /\ held' = [held EXCEPT ![p] = kept[p]]
  /\ UNCHANGED <<parentVars, type, kept, hit>>

Exit(p) ==
  /\ state[p] = "running" \/ (state[p] \in Alive /\ p \in hit)
  /\ state' = [state EXCEPT ![p] = "zombie"]
  /\ held' = [held EXCEPT ![p] = {}]
  /\ UNCHANGED <<parentVars, type, kept, hit>>

\* the shell reads the end of the file, or writes to a pipe that nobody reads
HungUp(p) ==
  /\ state[p] = "running"
  /\ <<p, type[p]>> \notin Open(Fds)
  /\ \A q \in Pids : <<p, type[p]>> \notin held[q]

Child(p) == Setpgrp(p) \/ Exec(p) \/ Exit(p)

Next ==
  \/ \E p \in Pids, t \in Types : Popen(p, t)
  \/ \E fd \in Fds : Pclose(fd) \/ StopCmd(fd) \/ Fopen(fd) \/ Fclose(fd)
  \/ Waited
  \/ \E p \in Pids : Child(p)

Spec == Init /\ [][Next]_vars

\* every process is scheduled again and again, and a command ends once it is hung up
Fairness ==
  /\ WF_vars(Waited)
  /\ \A p \in Pids : WF_vars(Setpgrp(p) \/ Exec(p)) /\ WF_vars(HungUp(p) /\ Exit(p))

FairSpec == Spec /\ Fairness

-----------------------------------------------------------------------------
(* The properties.                                                          *)

\* childpid names, for an open stream of m_popen and for nothing else, the child at the
\* other end of its pipe: m_pclose and m_stop_cmd refuse every other stream ("fp wasn't
\* opened by popen()", lines 117 and 140) although descriptors are used again, and
\* never wait for, or signal, a child that was waited for already.
TableMatchesStreams ==
  \A fd \in Fds :
    LET p == childpid[fd] IN
      IF p = None THEN tab[fd] \in Ends => fd \notin streams
      ELSE /\ fd \in streams /\ tab[fd] = <<p, type[p]>>
           /\ state[p] \notin {"unused", "reaped"}

\* No child is forgotten: every child that was not waited for is in childpid, once, or is
\* the one m_pclose waits for, unless its own fdopen or fclose failed; those stay zombies.
ChildrenAreRemembered ==
  /\ TypeOK
  /\ {p \in Pids : state[p] \in Alive \cup {"zombie"}} =
       {childpid[fd] : fd \in Remembered} \cup ({waiting} \ {None}) \cup lost
  /\ IsInjective(Restrict(childpid, Remembered))
  /\ \A fd \in Remembered : childpid[fd] \notin lost \cup {waiting}

\* m_pclose returns: whatever the other commands do, closing the stream hangs up the
\* command, which then ends and is waited for.
PcloseReturns == waiting # None ~> waiting = None
=============================================================================
