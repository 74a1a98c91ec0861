------------------------------- MODULE Threads -------------------------------
(***************************************************************************)
(* The thread examples c/src/pthread.c and c/src/semaphore.c: a menu whose *)
(* functions create threads that outlive them, share a counter under a     *)
(* mutex, wait on a condition variable or on a semaphore.  The two menus   *)
(* share no state and are one here.  Sleeping orders nothing.              *)
(***************************************************************************)
EXTENDS Naturals, Sequences, FiniteSets

CONSTANTS
  Tids,    \* the threads the system lets the process have beside main
  NoTid,   \* a pthread_t that pthread_create did not write
  MaxRuns  \* bound on the calls of m_create_thread_mutex

ASSUME ThreadsAssumption == NoTid \notin Tids /\ MaxRuns \in Nat

VARIABLES
  todo,    \* what main still has to do in the function it is in; empty in the menu
  pids,    \* the function's pthread_t variables
  thread,  \* each thread: its function, where it is, its counter i, is it detached
  g_count,
  holder,  \* the owner of g_mutex_lock
  sem,     \* the value of g_sem
  sval,    \* what sem_getvalue returned, 5 before it is first called
  cancelled,
  missed,  \* history: the signals of this call of m_create_thread_cond nobody waited for
  runs,    \* history: the calls of m_create_thread_mutex
  failed,  \* history: a pthread_create of this call has failed
  undef    \* main has used a pthread_t nobody wrote

threadsVars == <<todo, pids, thread, g_count, holder, sem, sval, cancelled, missed, runs, failed, undef>>

NoThread == [fn |-> "none", at |-> "free", i |-> 0, det |-> FALSE]

ThreadsInit ==
  /\ todo = <<>> /\ pids = <<>>
  /\ thread = [t \in Tids |-> NoThread]
  /\ g_count = 0 /\ holder = NoTid /\ sem = 0 /\ sval = 5
  /\ cancelled = {} /\ missed = 0 /\ runs = 0 /\ failed = FALSE /\ undef = FALSE

-----------------------------------------------------------------------------
(* The menu's functions, as what main does in them.                         *)

Create(f) == [do |-> "create", fn |-> f, i |-> 1, det |-> FALSE]
CreateLoop(f, n) == [Create(f) EXCEPT !.i = n]
CreateDetached(f) == [Create(f) EXCEPT !.det = TRUE]
Join(n) == [do |-> "join", n |-> n]
Cancel(n) == [do |-> "cancel", n |-> n]
InitSync == [do |-> "init"]
GetValue == [do |-> "getvalue"]

m_create_thread_joinable == <<Create("run_1"), Join(1)>>
m_create_thread_detached == <<Create("run_2"), Cancel(1), Join(1)>>
m_create_thread_attr == <<CreateDetached("run_3")>>
m_create_thread_unjoinable == <<Create("run_4")>>

m_create_thread_mutex == <<InitSync, Create("mutex"), Create("mutex"), Join(1), Join(2)>>

\* mutant: one signal too few
CondSendsSeven == <<InitSync, CreateLoop("cond_1", 3), CreateLoop("cond_11", 7), Join(1), Join(2)>>

m_create_thread_cond == <<InitSync, CreateLoop("cond_1", 3), CreateLoop("cond_11", 8), Join(1), Join(2)>>

m_create_thread_sem == <<InitSync, CreateLoop("sem_1", 3), CreateLoop("sem_11", 8), Join(1), Join(2), GetValue>>

Menu ==
  /\ todo = <<>> /\ ~undef
  /\ \/ /\ todo' \in {m_create_thread_joinable, m_create_thread_detached, m_create_thread_attr,
                      m_create_thread_unjoinable, m_create_thread_cond, m_create_thread_sem}
        /\ UNCHANGED runs
     \/ todo' = m_create_thread_mutex /\ runs < MaxRuns /\ runs' = runs + 1
  /\ pids' = <<>> /\ missed' = 0 /\ failed' = FALSE
  /\ UNCHANGED <<thread, g_count, holder, sem, sval, cancelled, undef>>

FreeTids == {t \in Tids : thread[t].at = "free"}

\* pthread_create returns an error number, never the -1 the code tests for
DoCreate(s) ==
  /\ \/ \E t \in FreeTids :
          /\ thread' = [thread EXCEPT ![t] = [fn |-> s.fn, at |-> "start", i |-> s.i, det |-> s.det]]
          /\ pids' = Append(pids, t)
          /\ UNCHANGED failed
     \/ /\ FreeTids = {} /\ failed' = TRUE
        /\ pids' = Append(pids, NoTid)
        /\ UNCHANGED thread
  /\ UNCHANGED <<g_count, holder, sem, sval, cancelled, undef>>

DoJoin(t) ==
  /\ \/ t = NoTid /\ undef' = TRUE /\ UNCHANGED <<thread, cancelled>>
     \/ /\ t # NoTid /\ thread[t].at = "ended"
        /\ thread' = [thread EXCEPT ![t] = NoThread]
        /\ cancelled' = cancelled \ {t}
        /\ UNCHANGED undef
  /\ UNCHANGED <<pids, g_count, holder, sem, sval, failed>>

DoCancel(t) ==
  /\ IF t = NoTid THEN undef' = TRUE /\ UNCHANGED cancelled
                  ELSE cancelled' = cancelled \cup {t} /\ UNCHANGED undef
  /\ UNCHANGED <<pids, thread, g_count, holder, sem, sval, failed>>

\* the mutex and the semaphore of the function
DoInit ==
  /\ holder' = NoTid /\ sem' = 0
  /\ UNCHANGED <<pids, thread, g_count, sval, cancelled, failed, undef>>

DoGetValue == sval' = sem /\ UNCHANGED <<pids, thread, g_count, holder, sem, cancelled, failed, undef>>

Main ==
  /\ todo # <<>> /\ ~undef
  /\ todo' = Tail(todo)
  /\ LET s == Head(todo) IN
       \/ s.do = "create" /\ DoCreate(s)
       \/ s.do = "join" /\ DoJoin(pids[s.n])
       \/ s.do = "cancel" /\ DoCancel(pids[s.n])
       \/ s.do = "init" /\ DoInit
       \/ s.do = "getvalue" /\ DoGetValue
  /\ UNCHANGED <<missed, runs>>

-----------------------------------------------------------------------------
(* The threads.                                                             *)

Goes(t, l) == thread' = [thread EXCEPT ![t].at = l]
Ends(t) == thread' = [thread EXCEPT ![t] = IF @.det THEN NoThread ELSE [@ EXCEPT !.at = "ended"]]
Loops(t) == IF thread[t].i = 1 THEN Ends(t)
            ELSE thread' = [thread EXCEPT ![t] = [@ EXCEPT !.at = "start", !.i = thread[t].i - 1]]

\* printing and sleeping only; run_2 goes on until it is cancelled
Plain(t) ==
  /\ thread[t].at = "start"
  /\ thread[t].fn \in {"run_1", "run_3"} \/ (thread[t].fn = "run_2" /\ t \in cancelled)
  /\ Ends(t)
  /\ UNCHANGED <<g_count, holder, sem, missed>>

\* mutant: the thread does not detach itself
StaysJoinable(t) ==
  /\ thread[t].fn = "run_4" /\ thread[t].at = "start"
  /\ Ends(t)
  /\ UNCHANGED <<g_count, holder, sem, missed>>

SelfDetaching(t) ==
  /\ thread[t].fn = "run_4"
  /\ \/ thread[t].at = "start" /\ thread' = [thread EXCEPT ![t] = [@ EXCEPT !.at = "detached", !.det = TRUE]]
     \/ thread[t].at = "detached" /\ Ends(t)
  /\ UNCHANGED <<g_count, holder, sem, missed>>

\* the two threads of the mutex; i keeps the value g_count was read with
Counting(t) ==
  /\ thread[t].fn = "mutex"
  /\ \/ /\ thread[t].at = "start" /\ holder = NoTid
        /\ holder' = t /\ thread' = [thread EXCEPT ![t] = [@ EXCEPT !.at = "locked", !.i = g_count]]
        /\ UNCHANGED g_count
     \/ /\ thread[t].at = "locked"
        /\ g_count' = thread[t].i + 1 /\ Goes(t, "counted")
        /\ UNCHANGED holder
     \/ /\ thread[t].at = "counted"
        /\ holder' = NoTid /\ Ends(t)
        /\ UNCHANGED g_count
  /\ UNCHANGED <<sem, missed>>

\* three waits without a predicate and without the mutex, which nobody else takes;
\* a wait may return without a signal
CondWaiter(t) ==
  /\ thread[t].fn = "cond_1"
  /\ \/ thread[t].at = "start" /\ Goes(t, "asleep")
     \/ thread[t].at = "awake" /\ Loops(t)
  /\ UNCHANGED <<g_count, holder, sem, missed>>

SpuriousWakeup(t) ==
  /\ thread[t].fn = "cond_1" /\ thread[t].at = "asleep"
  /\ Goes(t, "awake")
  /\ UNCHANGED <<g_count, holder, sem, missed>>

Asleep == {t \in Tids : thread[t].at = "asleep"}

\* eight signals; one that finds nobody waiting is lost
CondSignaller(t) ==
  /\ thread[t].fn = "cond_11"
  /\ \/ /\ thread[t].at = "start"
        /\ IF Asleep = {}
           THEN Goes(t, "signalled") /\ missed' = missed + 1
           ELSE /\ \E w \in Asleep : thread' = [thread EXCEPT ![w].at = "awake", ![t].at = "signalled"]
                /\ UNCHANGED missed
     \/ thread[t].at = "signalled" /\ Loops(t) /\ UNCHANGED missed
  /\ UNCHANGED <<g_count, holder, sem>>

SemWaiter(t) ==
  /\ thread[t].fn = "sem_1" /\ thread[t].at = "start" /\ sem > 0
  /\ sem' = sem - 1 /\ Loops(t)
  /\ UNCHANGED <<g_count, holder, missed>>

SemPoster(t) ==
  /\ thread[t].fn = "sem_11" /\ thread[t].at = "start"
  /\ sem' = sem + 1 /\ Loops(t)
  /\ UNCHANGED <<g_count, holder, missed>>

Thread(t) ==
  /\ \/ Plain(t) \/ SelfDetaching(t) \/ Counting(t) \/ CondWaiter(t) \/ CondSignaller(t)
     \/ SemWaiter(t) \/ SemPoster(t)
  /\ UNCHANGED <<todo, pids, sval, cancelled, runs, failed, undef>>

ThreadsNext ==
  \/ Menu \/ Main
  \/ \E t \in Tids : Thread(t) \/ (SpuriousWakeup(t) /\ UNCHANGED <<todo, pids, sval, cancelled, runs, failed, undef>>)

ThreadsSpec == ThreadsInit /\ [][ThreadsNext]_threadsVars

-----------------------------------------------------------------------------
\* Back in the menu no thread has ended without being given back to the system, whoever
\* had to join or detach it, both threads of every call have been counted, and the posts
\* that nobody waited for are still in the semaphore.  (the joins of pthread.c and
\* semaphore.c, the three ways of detaching, the mutex around g_count)
NothingIsLeft ==
  todo = <<>> /\ ~undef =>
    /\ \A t \in Tids : thread[t].at # "ended"
    /\ holder = NoTid /\ g_count = 2 * runs /\ sval = 5

\* Every function of the menu returns, unless more than five of the eight signals came
\* while nobody waited, or a thread could not be created.  (cond: three waits of
\* thread_run_cond_1 against eight signals of thread_run_cond_11)
FunctionsReturn == todo # <<>> ~> (todo = <<>> \/ missed > 5 \/ failed)
=============================================================================
