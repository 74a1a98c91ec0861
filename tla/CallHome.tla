------------------------------- MODULE CallHome -------------------------------
(***************************************************************************)
(* The call-home server (network/callhome.c): an accept loop that gives    *)
(* each connection to a detached thread, by the address of its own         *)
(* variable cid, and threads that run a TLS session on the descriptor,     *)
(* close it, and go on reading from it.  The sleep of 1000 s between two   *)
(* accepts orders nothing.                                                 *)
(***************************************************************************)
EXTENDS Integers, FiniteSets, FiniteSetsExt

CONSTANTS
  Conns,   \* the clients that connect; the thread made for one has its name
  Descrs,  \* the descriptors there are for connections
  NoConn   \* a descriptor that is not open

ASSUME CallAssumption == NoConn \notin Conns /\ Descrs \subseteq Nat

VARIABLES
  file,     \* the connection each descriptor stands for
  coming,   \* the clients that have not been accepted
  home,     \* main: at accept, or about to create the thread for a client
  cid,      \* main's variable, which the threads get the address of
  server,   \* each thread: where it is and its own copy of cid
  touched,  \* history: which thread has read from, or ended, which connection
  late      \* history: a thread found in cid a descriptor that is not its client's

callVars == <<file, coming, home, cid, server, touched, late>>

CallInit ==
  /\ file = [f \in Descrs |-> NoConn] /\ coming = Conns /\ home = NoConn /\ cid = -1
  /\ server = [c \in Conns |-> [at |-> "none", fd |-> -1]]
  /\ touched = {} /\ late = FALSE

OpenAs(c) == {f \in Descrs : file[f] = c}
Closed == OpenAs(NoConn)

-----------------------------------------------------------------------------
(* main.                                                                    *)

\* the system gives out the least descriptor that is free; without one accept fails,
\* and cid has been overwritten all the same
AcceptCall ==
  /\ home = NoConn /\ coming # {}
  /\ \/ /\ Closed # {}
        /\ \E c \in coming : home' = c /\ coming' = coming \ {c} /\ file' = [file EXCEPT ![Min(Closed)] = c]
        /\ cid' = Min(Closed)
     \/ /\ Closed = {}
        /\ cid' = -1
        /\ UNCHANGED <<file, coming, home>>
  /\ UNCHANGED <<server, touched, late>>

CreateServer ==
  /\ home # NoConn
  /\ server' = [server EXCEPT ![home].at = "created"]
  /\ home' = NoConn
  /\ UNCHANGED <<file, coming, cid, touched, late>>

-----------------------------------------------------------------------------
(* pthread_fun of the thread made for client c.                             *)

At(c, l) == server[c].at = l
MovesTo(c, l) == server' = [server EXCEPT ![c].at = l]
\* mutant: cid is not copied, the thread follows the pointer whenever it needs it
ItsThroughPointer(c) == IF cid \in Descrs THEN file[cid] ELSE NoConn

Its(c) == IF server[c].fd \in Descrs THEN file[server[c].fd] ELSE NoConn

ReadCid(c) ==
  /\ At(c, "created")
  /\ server' = [server EXCEPT ![c] = [at |-> "tls", fd |-> cid]]
  /\ late' = (late \/ cid \notin OpenAs(c))
  /\ UNCHANGED <<file, touched>>

Touch(c) == touched' = IF Its(c) = NoConn THEN touched ELSE touched \cup {<<c, Its(c)>>}
CloseIts(c) == file' = [f \in Descrs |-> IF f = server[c].fd THEN NoConn ELSE file[f]]

\* the handshake, the message and the answer, or the error on the way
Talk(c) ==
  /\ At(c, "tls") /\ MovesTo(c, "finish")
  /\ Touch(c)
  /\ UNCHANGED <<file, late>>

\* mutant: the descriptor is left to pthread_fun
FinishKeepsOpen(c) ==
  /\ At(c, "finish") /\ MovesTo(c, "loop")
  /\ UNCHANGED <<file, touched, late>>

\* the end of callhome_ssl_connect closes the descriptor
Finish(c) ==
  /\ At(c, "finish") /\ MovesTo(c, "loop")
  /\ Touch(c) /\ CloseIts(c)
  /\ UNCHANGED late

\* the loop reads from the descriptor: nothing, as long as nobody has it; otherwise what
\* the client it now stands for has sent, which may be "quit"
ReadLoop(c) ==
  /\ At(c, "loop") /\ Its(c) # NoConn
  /\ UNCHANGED server \/ MovesTo(c, "close")
  /\ Touch(c)
  /\ UNCHANGED <<file, late>>

CloseAgain(c) ==
  /\ At(c, "close") /\ MovesTo(c, "done")
  /\ Touch(c) /\ CloseIts(c)
  /\ UNCHANGED late

Session(c) == ReadCid(c) \/ Talk(c) \/ Finish(c)
PthreadFun(c) == (Session(c) \/ ReadLoop(c) \/ CloseAgain(c)) /\ UNCHANGED <<coming, home, cid>>

CallNext == AcceptCall \/ CreateServer \/ \E c \in Conns : PthreadFun(c)

CallSpec == CallInit /\ [][CallNext]_callVars

-----------------------------------------------------------------------------
\* Trouble starts only with a thread whose own session is over: a thread reads from, or
\* closes, somebody else's connection only when it has itself closed the descriptor at
\* the end of callhome_ssl_connect, or another thread has ended its connection under it,
\* or a thread was so late that cid had changed.  (the descriptor closed at lines 99 and
\* 127, the pointer of line 195)
OnlyLeftoversIntrude ==
  \A c, d \in Conns :
    c # d /\ <<c, d>> \in touched =>
      \/ late \/ server[c].at \in {"loop", "close", "done"}
      \/ \E e \in Conns \ {c} : <<e, c>> \in touched

\* Every connection that was accepted is closed, unless a thread was late: then the
\* descriptor that was overwritten in cid is never closed.
EveryCallEnds ==
  \A c \in Conns : OpenAs(c) # {} ~> (OpenAs(c) = {} \/ late)
=============================================================================
