------------------------------- MODULE SharedDb -------------------------------
(***************************************************************************)
(* The message queue and shared table test, linux/test/main.c (POSIX       *)
(* queue) and main_for_msg.c (System V queue): a parent counts what it     *)
(* sends in a table of its own, its children count what they receive in a  *)
(* shared one, and SIGTERM makes the parent compare the two and abort the  *)
(* children.  Entries are taken to be places of their own (db[index] is    *)
(* beyond the array; the shared ones still lie in the mapped page).        *)
(***************************************************************************)
EXTENDS Integers, Sequences, FiniteSets

CONSTANTS
  Suns,     \* the children, sun[i] by i: 1..n
  Indexes,  \* the entries of the tables
  Nobody,
  QueueLen, \* mq_maxmsg, or msg_qbytes in messages
  MaxSends  \* bound on the messages sent

ASSUME DbAssumption ==
  /\ IsFiniteSet(Suns) /\ Suns # {} /\ Suns = 1..Cardinality(Suns)
  /\ Nobody \notin Suns
  /\ QueueLen \in Nat \ {0} /\ MaxSends \in Nat

Ops == {1, -1}
Msgs == Indexes \X Ops

VARIABLES
  sysv,    \* it is main_for_msg.c that runs
  name,    \* the queue that MQ_PATH, or the key, names: "none", "old" or "new"
  queue,   \* the messages in the two queues
  parent,  \* where main is
  i,       \* its loop variable
  sun,     \* sun[i]: is it a child, or is it -1
  exit_flag,
  msg,     \* the message main has counted and not sent yet, or <<>>
  sends,
  child,   \* each child: where it is, its queue, the message in its hands, the count read
  mutex,   \* the owner of *dptr
  db_map, local_db,
  odd      \* history, by entry: messages of an earlier run less those that came to nothing

dbVars == <<sysv, name, queue, parent, i, sun, exit_flag, msg, sends, child, mutex, db_map, local_db, odd>>

Gone == {"none", "dead", "exited"}
Zero == [n \in Indexes |-> 0]
Plus(t, m, sign) == [t EXCEPT ![m[1]] = @ + sign * m[2]]
NoChild == [at |-> "none", q |-> "none", msg |-> <<>>, read |-> 0]

\* what messages add to entry n: one or none, those of a sequence, those in children's hands
AddsTo(m, n) == IF m # <<>> /\ m[1] = n THEN m[2] ELSE 0
Queued(ms, m) == Cardinality({j \in 1..Len(ms) : ms[j] = m})
Holding(ks, m) == Cardinality({k \in ks : child[k].msg = m})
Net(ms, n) == Queued(ms, <<n, 1>>) - Queued(ms, <<n, -1>>)
NetHeld(ks, n) == Holding(ks, <<n, 1>>) - Holding(ks, <<n, -1>>)

\* an earlier run may have left a queue, and a message in it
DbInit ==
  /\ sysv \in BOOLEAN /\ name \in {"none", "old"}
  /\ queue \in [old : {<<>>} \cup (IF name = "old" THEN {<<m>> : m \in Msgs} ELSE {}), new : {<<>>}]
  /\ parent = "fork" /\ i = 1 /\ sun = [k \in Suns |-> -1]
  /\ exit_flag = 1 /\ msg = <<>> /\ sends = 0
  /\ child = [k \in Suns |-> NoChild] /\ mutex = Nobody
  /\ db_map = Zero /\ local_db = Zero
  /\ odd = [n \in Indexes |-> Net(queue.old, n)]

-----------------------------------------------------------------------------
(* The parent.                                                              *)

Goto(l) == parent' = l
childVars == <<child, mutex, db_map>>
tableVars == <<local_db, msg, sends, odd>>

Fork ==
  /\ parent = "fork"
  /\ \/ /\ child' = [child EXCEPT ![i].at = "born"] /\ sun' = [sun EXCEPT ![i] = 1]
     \/ UNCHANGED <<child, sun>>                                   \* fork sun error
  /\ IF i = Cardinality(Suns) THEN Goto("signal") /\ i' = 1 ELSE i' = i + 1 /\ UNCHANGED parent
  /\ UNCHANGED <<sysv, name, queue, exit_flag, mutex, db_map, tableVars>>

\* signal(SIGTERM, signal_user)
CatchTerm ==
  /\ parent = "signal" /\ Goto("queue")
  /\ UNCHANGED <<sysv, name, queue, i, sun, exit_flag, childVars, tableVars>>

\* mq_unlink: who has the old queue keeps it
Unlink ==
  /\ ~sysv /\ parent = "queue" /\ Goto("create")
  /\ name' = "none"
  /\ UNCHANGED <<sysv, queue, i, sun, exit_flag, childVars, tableVars>>

MqOpen ==
  /\ parent = "create"
  /\ \/ Goto("loop") /\ name' = "new"
     \/ Goto("wait") /\ UNCHANGED name                             \* goto EXIT
  /\ UNCHANGED <<sysv, queue, i, sun, exit_flag, childVars, tableVars>>

\* msgget takes a queue that is there, with what an earlier run has left in it
MsgGet ==
  /\ sysv /\ parent = "queue"
  /\ \/ Goto("loop") /\ name' = IF name = "none" THEN "new" ELSE name
     \/ Goto("wait") /\ UNCHANGED name                             \* goto EXIT
  /\ UNCHANGED <<sysv, queue, i, sun, exit_flag, childVars, tableVars>>

\* the local table counts the message before it is sent
CountLocal ==
  /\ parent = "loop" /\ exit_flag = 1 /\ sends < MaxSends
  /\ \E m \in Msgs : msg' = m /\ local_db' = Plus(local_db, m, 1)
  /\ sends' = sends + 1 /\ Goto("send")
  /\ UNCHANGED <<sysv, name, queue, i, sun, exit_flag, odd, childVars>>

\* a full queue makes the parent wait
MqSend ==
  /\ parent = "send" /\ Goto("loop")
  /\ Len(queue[name]) < QueueLen
  /\ queue' = [queue EXCEPT ![name] = Append(@, msg)]
  /\ msg' = <<>>
  /\ UNCHANGED <<sysv, name, i, sun, exit_flag, local_db, sends, odd, childVars>>

\* mq_send goes on after the handler of SIGTERM, msgsnd fails with EINTR
MsgSndError ==
  /\ sysv /\ parent = "send" /\ Goto("loop")
  /\ Len(queue[name]) = QueueLen /\ exit_flag = 0
  /\ odd' = Plus(odd, msg, -1)
  /\ msg' = <<>>
  /\ UNCHANGED <<sysv, name, queue, i, sun, exit_flag, local_db, sends, childVars>>

\* the two db_printf, and wait_sun
LeaveLoop ==
  /\ parent = "loop" /\ exit_flag = 0 /\ Goto("wait")
  /\ UNCHANGED <<sysv, name, queue, i, sun, exit_flag, childVars, tableVars>>

\* what an aborted child has in its hands is lost, and its mutex stays taken
Aborts(ks) ==
  /\ child' = [k \in Suns |-> IF k \in ks /\ child[k].at \notin Gone THEN [child[k] EXCEPT !.at = "dead", !.msg = <<>>]
                              ELSE child[k]]
  /\ odd' = [n \in Indexes |-> odd[n] - NetHeld(ks, n)]

\* mutant: the children are told nothing
KillsNobody ==
  /\ parent = "wait" /\ Goto("waitpid")
  /\ UNCHANGED <<sysv, name, queue, i, sun, exit_flag, childVars, tableVars>>

\* kill(sun[i], SIGABRT): with the -1 of a fork that failed it reaches everybody
KillSun ==
  /\ parent = "wait" /\ Goto("waitpid")
  /\ Aborts(IF sun[i] = -1 THEN Suns ELSE {i})
  /\ UNCHANGED <<sysv, name, queue, i, sun, exit_flag, msg, sends, local_db, mutex, db_map>>

\* by then the child is dead or was waited for by an earlier waitpid(-1)
WaitSun ==
  /\ parent = "waitpid"
  /\ sun[i] = 1 => child[i].at \in Gone
  /\ IF i = Cardinality(Suns) THEN Goto("ended") /\ UNCHANGED i ELSE Goto("wait") /\ i' = i + 1
  /\ UNCHANGED <<sysv, name, queue, sun, exit_flag, childVars, tableVars>>

\* SIGTERM: before signal() it ends the parent alone; later it is the handler's
Term ==
  /\ parent # "ended" /\ exit_flag = 1
  /\ exit_flag' = 0
  /\ IF parent \in {"fork", "signal"} THEN Goto("killed") ELSE UNCHANGED parent
  /\ UNCHANGED <<sysv, name, queue, i, sun, childVars, tableVars>>

Parent ==
  \/ Fork \/ CatchTerm \/ Unlink \/ MqOpen \/ MsgGet
  \/ CountLocal \/ MqSend \/ MsgSndError \/ LeaveLoop \/ KillSun \/ WaitSun

-----------------------------------------------------------------------------
(* A child, sun_run.                                                        *)

Becomes(k, l) == child' = [child EXCEPT ![k].at = l]
parentVars == <<sysv, name, parent, i, sun, exit_flag, tableVars>>

OpenQueue(k) ==
  /\ child[k].at = "born"
  /\ IF name = "none" THEN Becomes(k, "exited")                    \* mq_open failed
     ELSE child' = [child EXCEPT ![k] = [@ EXCEPT !.at = "receive", !.q = name]]
  /\ UNCHANGED <<queue, mutex, db_map>>

Receive(k) ==
  /\ child[k].at = "receive" /\ queue[child[k].q] # <<>>
  /\ child' = [child EXCEPT ![k] = [@ EXCEPT !.at = "lock", !.msg = Head(queue[child[k].q])]]
  /\ queue' = [queue EXCEPT ![child[k].q] = Tail(@)]
  /\ UNCHANGED <<mutex, db_map>>

\* mutant: the mutex is one of each process's own
LockOwn(k) ==
  /\ child[k].at = "lock"
  /\ child' = [child EXCEPT ![k] = [@ EXCEPT !.at = "update", !.read = db_map[child[k].msg[1]]]]
  /\ UNCHANGED <<mutex, queue, db_map>>

\* pthread_mutex_lock, and the load of count
Lock(k) ==
  /\ child[k].at = "lock" /\ mutex = Nobody
  /\ mutex' = k
  /\ child' = [child EXCEPT ![k] = [@ EXCEPT !.at = "update", !.read = db_map[child[k].msg[1]]]]
  /\ UNCHANGED <<queue, db_map>>

\* the store
Update(k) ==
  /\ child[k].at = "update"
  /\ db_map' = [db_map EXCEPT ![child[k].msg[1]] = child[k].read + child[k].msg[2]]
  /\ child' = [child EXCEPT ![k] = [@ EXCEPT !.at = "unlock", !.msg = <<>>, !.read = 0]]
  /\ UNCHANGED <<queue, mutex>>

Unlock(k) ==
  /\ child[k].at = "unlock" /\ Becomes(k, "receive")
  /\ mutex' = Nobody
  /\ UNCHANGED <<queue, db_map>>

Child(k) == (OpenQueue(k) \/ Receive(k) \/ Lock(k) \/ Update(k) \/ Unlock(k)) /\ UNCHANGED parentVars

DbNext == Parent \/ Term \/ \E k \in Suns : Child(k)

DbSpec == DbInit /\ [][DbNext]_dbVars

-----------------------------------------------------------------------------
\* No message is lost or counted twice between the two tables, whatever the children do
\* and whenever they are aborted: entry by entry the local table is the shared one plus
\* what is queued, about to be sent or in a child's hands; the exceptions are those of
\* odd.  (db_update on both sides, the process-shared mutex of sun_run)
Underway(n) == Net(queue.old, n) + Net(queue.new, n) + AddsTo(msg, n) + NetHeld(Suns, n)

TablesAgree ==
  \A n \in Indexes : local_db[n] + odd[n] = db_map[n] + Underway(n)

\* After SIGTERM the parent ends, unless it is stuck in mq_send on a queue that no child
\* reads; and where it ends by itself no child is left, not even one that waits for the
\* mutex of an aborted one.  (wait_sun; the children that open the queue too early)
Readers == {k \in Suns : child[k].at \notin Gone /\ (child[k].at = "born" \/ child[k].q = name)}

TermEnds ==
  exit_flag = 0 ~> \/ parent = "ended" /\ \A k \in Suns : child[k].at \in Gone
                   \/ parent = "killed" \/ Readers = {}
=============================================================================
