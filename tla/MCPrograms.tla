------------------------------ MODULE MCPrograms ------------------------------
(***************************************************************************)
(* The small programs that run threads or processes, one at a time: prog   *)
(* says which of them it is that runs, the variables of the others rest.   *)
(***************************************************************************)
EXTENDS Threads, CallHome, Player, SharedDb

VARIABLE prog

progVars == <<prog, threadsVars, callVars, playerVars, dbVars>>

Init ==
  /\ prog \in {"threads", "callhome", "player", "shared"}
  /\ ThreadsInit /\ CallInit /\ PlayerInit
  \* the table test has several initial states: one of them will do while it does not run
  /\ DbInit /\ (prog # "shared" => ~sysv /\ name = "none")

Next ==
  /\ UNCHANGED prog
  /\ \/ prog = "threads" /\ ThreadsNext /\ UNCHANGED <<callVars, playerVars, dbVars>>
     \/ prog = "callhome" /\ CallNext /\ UNCHANGED <<threadsVars, playerVars, dbVars>>
     \/ prog = "player" /\ PlayerNext /\ UNCHANGED <<threadsVars, callVars, dbVars>>
     \/ prog = "shared" /\ DbNext /\ UNCHANGED <<threadsVars, callVars, playerVars>>

\* Every process and every thread is scheduled again and again.  Nobody need choose
\* from a menu, no client need say "quit", nobody need send SIGTERM, and no wait need
\* return without a signal.  A client that has connected sends its message or goes away.
ThreadsFairness ==
  /\ WF_threadsVars(prog = "threads" /\ Main)
  /\ \A t \in Tids : WF_threadsVars(prog = "threads" /\ Thread(t))

CallFairness ==
  /\ WF_callVars(prog = "callhome" /\ AcceptCall) /\ WF_callVars(prog = "callhome" /\ CreateServer)
  /\ \A c \in Conns : WF_callVars(prog = "callhome" /\ Session(c) /\ UNCHANGED <<coming, home, cid>>)

PlayerFairness ==
  /\ WF_playerVars(prog = "player" /\ (OpenFile \/ Start \/ Playing))
  /\ WF_playerVars(prog = "player" /\ Notify)

DbFairness ==
  /\ WF_dbVars(prog = "shared" /\ Parent)
  /\ \A k \in Suns : WF_dbVars(prog = "shared" /\ Child(k))

Fairness == ThreadsFairness /\ CallFairness /\ PlayerFairness /\ DbFairness

FairSpec == Init /\ [][Next]_progVars /\ Fairness
=============================================================================
