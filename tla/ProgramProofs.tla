----------------------------- MODULE ProgramProofs -----------------------------
(***************************************************************************)
(* Proofs about three of the small programs, each by an inductive          *)
(* invariant of its own: the call-home server for any set of clients and   *)
(* of descriptors, the table test for any number of children, and the      *)
(* thread examples for any number of threads the system has.               *)
(***************************************************************************)
EXTENDS Threads, CallHome, SharedDb, ProofLemmas

-----------------------------------------------------------------------------
(* The call-home server.                                                    *)

Places == {"none", "created", "tls", "finish", "loop", "close", "done"}

CallTypeOK ==
  /\ file \in [Descrs -> Conns \cup {NoConn}]
  /\ coming \subseteq Conns /\ home \in Conns \cup {NoConn} /\ cid \in Int
  /\ server \in [Conns -> [at : Places, fd : Int]]
  /\ touched \subseteq Conns \X Conns /\ late \in BOOLEAN

\* A client main has not made a thread for has no thread, and is waited for only once.
NotServedYet ==
  /\ home \notin coming
  /\ \A c \in Conns : c \in coming \/ c = home => At(c, "none")

\* Until the end of its session a thread holds its client's descriptor, unless it was
\* late or another thread has been there.
HoldsItsOwn ==
  \A c \in Conns :
    At(c, "tls") \/ At(c, "finish") =>
      \/ late \/ Its(c) = c
      \/ \E e \in Conns \ {c} : <<e, c>> \in touched

CallInv == CallTypeOK /\ NotServedYet /\ HoldsItsOwn /\ OnlyLeftoversIntrude

-----------------------------------------------------------------------------
\* No thread is there when the server starts.
LEMMA CallInitInv == ASSUME CallAssumption, CallInit PROVE CallInv
<1>1. CallTypeOK
  <2>1. -1 \in Int
    OBVIOUS
  <2>2. [at |-> "none", fd |-> -1] \in [at : Places, fd : Int]
    BY <2>1 DEF Places
  <2> QED BY <2>1, <2>2, Zenon DEF CallInit, CallTypeOK
<1>2. NotServedYet
  BY DEF CallAssumption, CallInit, NotServedYet, At
<1>3. HoldsItsOwn
  BY DEF CallInit, HoldsItsOwn, At
<1>4. OnlyLeftoversIntrude
  BY DEF CallInit, OnlyLeftoversIntrude
<1> QED BY <1>1, <1>2, <1>3, <1>4 DEF CallInv

\* accept changes a descriptor that stood for nobody; the client it takes has no thread.
LEMMA AcceptKeeps == ASSUME CallAssumption, CallInv, AcceptCall PROVE CallInv'
<1> USE DEF CallInv, CallTypeOK
<1>1. CASE home = NoConn /\ Closed = {} /\ cid' = -1 /\ UNCHANGED <<file, coming, home, server, touched, late>>
  <2>1. CallTypeOK'
    BY <1>1
  <2>2. NotServedYet' /\ HoldsItsOwn' /\ OnlyLeftoversIntrude'
    BY <1>1 DEF NotServedYet, HoldsItsOwn, OnlyLeftoversIntrude, At, Its
  <2> QED BY <2>1, <2>2
<1>2. ASSUME NEW c \in coming, home = NoConn, Closed # {}, home' = c, coming' = coming \ {c},
             file' = [file EXCEPT ![Min(Closed)] = c], cid' = Min(Closed),
             UNCHANGED <<server, touched, late>>
      PROVE  CallInv'
  <2> DEFINE m == Min(Closed)
  <2>1. m \in Descrs /\ file[m] = NoConn /\ m \in Int
    <3>1. Closed \subseteq Nat
      BY DEF Closed, OpenAs, CallAssumption
    <3>2. m \in Closed
      BY <3>1, <1>2, MinIsElement
    <3> QED BY <3>1, <3>2 DEF Closed, OpenAs
  <2> HIDE DEF m
  <2>2. CallTypeOK'
    BY <1>2, <2>1 DEF m
  <2>3. NotServedYet'
    BY <1>2 DEF NotServedYet, At
  <2>4. ASSUME NEW d \in Conns, Its(d) = d PROVE Its(d)' = d
    <3>1. server[d].fd \in Descrs /\ file[server[d].fd] = d /\ d # NoConn
      BY <2>4 DEF Its, CallAssumption
    <3>2. server[d].fd # m
      BY <3>1, <2>1
    <3> QED BY <3>1, <3>2, <1>2 DEF Its, m
  <2>5. HoldsItsOwn'
    BY <1>2, <2>4 DEF HoldsItsOwn, At
  <2>6. OnlyLeftoversIntrude'
    BY <1>2 DEF OnlyLeftoversIntrude
  <2> QED BY <2>2, <2>3, <2>5, <2>6
<1> QED BY <1>1, <1>2 DEF AcceptCall

\* The thread main makes has not touched anything; the others stay where they are.
LEMMA CreateKeeps == ASSUME CallAssumption, CallInv, CreateServer PROVE CallInv'
<1> USE DEF CallInv, CallTypeOK
<1>1. home \in Conns /\ At(home, "none") /\ home \notin coming
  BY DEF CreateServer, NotServedYet
<1>2. /\ server' = [server EXCEPT ![home].at = "created"] /\ home' = NoConn
      /\ UNCHANGED <<file, coming, cid, touched, late>>
  BY DEF CreateServer
<1>3. \A c \in Conns : /\ server'[c].fd = server[c].fd
                       /\ c # home => server'[c] = server[c]
                       /\ c = home => server'[c].at = "created"
  BY <1>1, <1>2
<1>4. CallTypeOK'
  BY <1>1, <1>2 DEF Places
<1>5. NotServedYet'
  BY <1>1, <1>2, <1>3 DEF NotServedYet, At, CallAssumption
<1>6. HoldsItsOwn'
  BY <1>2, <1>3 DEF HoldsItsOwn, At, Its
<1>7. OnlyLeftoversIntrude'
  BY <1>1, <1>2, <1>3 DEF OnlyLeftoversIntrude, At
<1> QED BY <1>4, <1>5, <1>6, <1>7

\* ReadCid: a thread that is not late finds its client's descriptor.
LEMMA ReadCidKeeps ==
  ASSUME CallAssumption, CallInv, NEW c \in Conns, ReadCid(c), UNCHANGED <<coming, home, cid>>
  PROVE  CallInv'
<1> USE DEF CallInv, CallTypeOK
<1>1. /\ At(c, "created") /\ server' = [server EXCEPT ![c] = [at |-> "tls", fd |-> cid]]
      /\ late' = (late \/ cid \notin OpenAs(c)) /\ UNCHANGED <<file, touched, coming, home, cid>>
  BY DEF ReadCid
<1>2. /\ server'[c].at = "tls" /\ server'[c].fd = cid
      /\ \A d \in Conns \ {c} : server'[d] = server[d]
  BY <1>1
<1>3. CallTypeOK'
  BY <1>1 DEF Places
<1>4. NotServedYet'
  BY <1>1, <1>2 DEF NotServedYet, At
<1>5. late' \/ Its(c)' = c
  BY <1>1, <1>2 DEF OpenAs, Its
<1>6. HoldsItsOwn'
  BY <1>1, <1>2, <1>5 DEF HoldsItsOwn, At, Its
<1>7. OnlyLeftoversIntrude'
  BY <1>1, <1>2 DEF OnlyLeftoversIntrude, At
<1> QED BY <1>3, <1>4, <1>6, <1>7

\* A thread that reads from, or ends, a connection and stays beyond its session, or is
\* still in it: what it touches is its own, or the exceptions hold.
LEMMA TouchingKeeps ==
  ASSUME CallAssumption, CallInv, NEW c \in Conns, NEW l \in Places \ {"none"},
         server[c].at \notin {"none", "created"},
         server' = [server EXCEPT ![c].at = l],
         server[c].at \in {"loop", "close", "done"} => l \in {"loop", "close", "done"},
         l = "tls" => server[c].at = "tls",
         l = "finish" => server[c].at \in {"tls", "finish"},
         Touch(c), UNCHANGED <<coming, home, cid, late>>,
         file' = file \/ (CloseIts(c) /\ l \notin {"tls", "finish"})
  PROVE  CallInv'
<1> USE DEF CallInv, CallTypeOK
<1>1. /\ server'[c].at = l /\ server'[c].fd = server[c].fd
      /\ \A d \in Conns \ {c} : server'[d] = server[d]
  OBVIOUS
<1>2. touched \subseteq touched' /\ \A x \in touched' \ touched : x = <<c, Its(c)>> /\ Its(c) # NoConn
  BY DEF Touch
<1>3. Its(c) \in Conns \cup {NoConn}
  BY DEF Its
<1>4. CallTypeOK'
  <2>1. file' \in [Descrs -> Conns \cup {NoConn}]
    BY DEF CloseIts
  <2>2. touched' \subseteq Conns \X Conns
    BY <1>2, <1>3
  <2> QED BY <2>1, <2>2
<1>5. NotServedYet'
  BY <1>1 DEF NotServedYet, At
<1>6. HoldsItsOwn'
  <2> SUFFICES ASSUME NEW d \in Conns, At(d, "tls")' \/ At(d, "finish")', ~late,
                      ~ \E e \in Conns \ {d} : <<e, d>> \in touched'
               PROVE  Its(d)' = d
    BY DEF HoldsItsOwn
  <2>1. At(d, "tls") \/ At(d, "finish")
    BY <1>1 DEF At
  <2>2. Its(d) = d
    BY <2>1, <1>2 DEF HoldsItsOwn
  <2>3. server[d].fd \in Descrs /\ file[server[d].fd] = d /\ d # NoConn
    BY <2>2 DEF Its, CallAssumption
  <2>4. file'[server[d].fd] = d
    <3>1. CASE file' = file
      BY <3>1, <2>3
    <3>2. CASE CloseIts(c) /\ l \notin {"tls", "finish"}
      <4>1. d # c
        BY <3>2, <1>1 DEF At
      <4>2. server[d].fd # server[c].fd
        <5> SUFFICES ASSUME server[d].fd = server[c].fd PROVE FALSE
          OBVIOUS
        <5>1. Its(c) = d
          BY <2>3 DEF Its
        <5>2. <<c, d>> \in touched'
          BY <5>1, <2>3 DEF Touch
        <5> QED BY <5>2, <4>1
      <4> QED BY <3>2, <4>2, <2>3 DEF CloseIts
    <3> QED BY <3>1, <3>2
  <2> QED BY <2>3, <2>4, <1>1 DEF Its
<1>7. OnlyLeftoversIntrude'
  <2> SUFFICES ASSUME NEW a \in Conns, NEW d \in Conns, a # d, <<a, d>> \in touched', ~late,
                      server'[a].at \notin {"loop", "close", "done"}
               PROVE  \E e \in Conns \ {a} : <<e, a>> \in touched'
    BY DEF OnlyLeftoversIntrude
  <2>1. server[a].at \notin {"loop", "close", "done"}
    BY <1>1
  <2>2. CASE <<a, d>> \in touched
    BY <2>1, <2>2, <1>2 DEF OnlyLeftoversIntrude
  <2>3. CASE <<a, d>> \notin touched
    <3>1. a = c /\ Its(a) = d
      BY <2>3, <1>2
    <3>2. At(a, "tls") \/ At(a, "finish")
      BY <3>1, <2>1 DEF At, Places
    <3> QED BY <3>1, <3>2, <1>2 DEF HoldsItsOwn
  <2> QED BY <2>2, <2>3
<1> QED BY <1>4, <1>5, <1>6, <1>7

\* What a thread does after it has read cid is of that kind.
LEMMA ThreadKeeps ==
  ASSUME CallAssumption, CallInv, NEW c \in Conns, PthreadFun(c)
  PROVE  CallInv'
<1> USE DEF CallInv, CallTypeOK, At, MovesTo, Places
<1>1. CASE ReadCid(c)
  BY <1>1, ReadCidKeeps DEF PthreadFun
<1>2. CASE Talk(c)
  BY <1>2, TouchingKeeps DEF PthreadFun, Talk
<1>3. CASE Finish(c)
  BY <1>3, TouchingKeeps DEF PthreadFun, Finish
<1>4. CASE ReadLoop(c)
  <2>1. CASE UNCHANGED server
    <3>1. server' = [server EXCEPT ![c].at = "loop"]
      BY <2>1, <1>4 DEF ReadLoop
    <3> QED BY <3>1, <1>4, TouchingKeeps DEF PthreadFun, ReadLoop
  <2>2. CASE MovesTo(c, "close")
    BY <2>2, <1>4, TouchingKeeps DEF PthreadFun, ReadLoop
  <2> QED BY <2>1, <2>2, <1>4 DEF ReadLoop
<1>5. CASE CloseAgain(c)
  BY <1>5, TouchingKeeps DEF PthreadFun, CloseAgain
<1> QED BY <1>1, <1>2, <1>3, <1>4, <1>5 DEF PthreadFun, Session

-----------------------------------------------------------------------------
\* In every behaviour of the call-home server, with any number of clients and of
\* descriptors, a thread gets into a connection that is not its own only after its own
\* session, when it was late, or when another one has ended its connection under it.
\* (callhome.c: the pointer to cid of line 195, the closes of lines 99 and 127)
THEOREM LeftoversOnly == CallSpec => []OnlyLeftoversIntrude
<1>1. CallInit => CallInv
  BY CallInitInv, CallAssumption
<1>2. CallInv /\ [CallNext]_callVars => CallInv'
  <2> SUFFICES ASSUME CallInv, [CallNext]_callVars PROVE CallInv'
    OBVIOUS
  <2>1. CASE UNCHANGED callVars
    BY <2>1 DEF callVars, CallInv, CallTypeOK, NotServedYet, HoldsItsOwn, OnlyLeftoversIntrude, At, Its
  <2>2. CASE CallNext
    BY <2>2, CallAssumption, AcceptKeeps, CreateKeeps, ThreadKeeps DEF CallNext
  <2> QED BY <2>1, <2>2
<1>3. CallInv => OnlyLeftoversIntrude
  BY DEF CallInv
<1> QED BY <1>1, <1>2, <1>3, PTL DEF CallSpec

-----------------------------------------------------------------------------
(* The message queue and the shared table.                                  *)

Parents == {"fork", "signal", "queue", "create", "loop", "send", "wait", "waitpid", "ended", "killed"}
Spots == {"none", "born", "receive", "lock", "update", "unlock", "dead", "exited"}
Hand == Msgs \cup {<<>>}
Sun == [at : Spots, q : {"none", "old", "new"}, msg : Hand, read : Int]

DbTypeOK ==
  /\ sysv \in BOOLEAN /\ name \in {"none", "old", "new"}
  /\ queue \in [{"old", "new"} -> Seq(Msgs)]
  /\ parent \in Parents /\ i \in Suns
  /\ sun \in [Suns -> {1, -1}] /\ exit_flag \in {0, 1} /\ msg \in Hand /\ sends \in 0..MaxSends
  /\ child \in [Suns -> Sun] /\ mutex \in Suns \cup {Nobody}
  /\ db_map \in [Indexes -> Int] /\ local_db \in [Indexes -> Int] /\ odd \in [Indexes -> Int]

\* Main holds a message from the count in its table to the sending, and has a queue then.
ParentInv ==
  /\ msg # <<>> <=> parent = "send"
  /\ parent \in {"loop", "send"} => name # "none"

\* A child holds a message from the receiving to the count in the shared table; between
\* the load and the store of the count it has the mutex, and the count is what it loaded.
ChildInv ==
  /\ parent = "fork" => \A k \in Suns : k >= i => child[k].at = "none"
  /\ \A k \in Suns :
       /\ child[k].msg # <<>> <=> child[k].at \in {"lock", "update"}
       /\ child[k].at \in {"receive", "lock", "update", "unlock"} => child[k].q # "none"
       /\ child[k].at \in {"update", "unlock"} => mutex = k
       /\ child[k].at = "update" => child[k].read = db_map[child[k].msg[1]]

DbInv == DbTypeOK /\ ParentInv /\ ChildInv /\ TablesAgree

-----------------------------------------------------------------------------
(* Counting the messages underway.                                          *)

LEMMA MessageIsNotNone == ASSUME NEW m \in Msgs PROVE m # <<>>
<1>1. PICK e \in Indexes, o \in Ops : m = <<e, o>>
  BY DEF Msgs
<1> QED BY <1>1

LEMMA AddsToOf ==
  ASSUME NEW m \in Msgs, NEW n \in Indexes
  PROVE  /\ AddsTo(m, n) = (IF m = <<n, 1>> THEN 1 ELSE 0) - (IF m = <<n, -1>> THEN 1 ELSE 0)
         /\ AddsTo(m, n) \in {0, 1, -1} /\ m # <<>>
<1>1. PICK e \in Indexes, o \in Ops : m = <<e, o>>
  BY DEF Msgs
<1>2. m # <<>> /\ m[1] = e /\ m[2] = o
  BY <1>1
<1>3. (m = <<n, 1>> <=> e = n /\ o = 1) /\ (m = <<n, -1>> <=> e = n /\ o = -1)
  BY <1>1
<1> QED BY <1>2, <1>3 DEF AddsTo, Ops

LEMMA AddsToType ==
  ASSUME NEW m \in Hand, NEW n \in Indexes
  PROVE  AddsTo(m, n) \in Int
<1>1. CASE m = <<>>
  BY <1>1 DEF AddsTo
<1>2. CASE m \in Msgs
  BY <1>2, AddsToOf
<1> QED BY <1>1, <1>2 DEF Hand

LEMMA QueuedPlaces == ASSUME NEW s, NEW m PROVE Queued(s, m) = Cardinality(PlacesOf(s, {m}))
BY DEF Queued, PlacesOf

LEMMA NetType == ASSUME NEW s \in Seq(Msgs), NEW n PROVE Net(s, n) \in Int
<1>1. Queued(s, <<n, 1>>) \in Nat /\ Queued(s, <<n, -1>>) \in Nat
  BY QueuedPlaces, PlacesFinite
<1> QED BY <1>1 DEF Net

LEMMA NetAppended ==
  ASSUME NEW s \in Seq(Msgs), NEW m \in Msgs, NEW n \in Indexes
  PROVE  Net(Append(s, m), n) = Net(s, n) + AddsTo(m, n)
<1>1. ASSUME NEW x
      PROVE  Queued(Append(s, m), x) = Queued(s, x) + (IF m = x THEN 1 ELSE 0) /\ Queued(s, x) \in Nat
  <2>1. Cardinality(PlacesOf(Append(s, m), {x})) = Cardinality(PlacesOf(s, {x})) + (IF m \in {x} THEN 1 ELSE 0)
    BY CountAppended
  <2>2. Cardinality(PlacesOf(s, {x})) \in Nat
    BY PlacesFinite
  <2> QED BY <2>1, <2>2, QueuedPlaces
<1>2. /\ Queued(Append(s, m), <<n, 1>>) = Queued(s, <<n, 1>>) + (IF m = <<n, 1>> THEN 1 ELSE 0)
      /\ Queued(Append(s, m), <<n, -1>>) = Queued(s, <<n, -1>>) + (IF m = <<n, -1>> THEN 1 ELSE 0)
      /\ Queued(s, <<n, 1>>) \in Nat /\ Queued(s, <<n, -1>>) \in Nat
  BY <1>1
<1> QED BY <1>2, AddsToOf DEF Net

LEMMA NetTaken ==
  ASSUME NEW s \in Seq(Msgs), s # <<>>, NEW n \in Indexes
  PROVE  /\ Head(s) \in Msgs /\ Tail(s) \in Seq(Msgs)
         /\ Net(Tail(s), n) = Net(s, n) - AddsTo(Head(s), n)
<1>1. /\ Head(s) \in Msgs /\ Tail(s) \in Seq(Msgs) /\ Len(s) \in Nat /\ Len(s) > 0 /\ Head(s) = s[1]
      /\ Len(Tail(s)) = Len(s) - 1 /\ \A j \in 1..Len(Tail(s)) : Tail(s)[j] = s[j + 1]
  BY HeadTailProperties, EmptySeq, LenProperties
<1>2. Tail(s) = RemoveAt(s, 1)
  <2>1. /\ RemoveAt(s, 1) \in Seq(Msgs) /\ Len(RemoveAt(s, 1)) = Len(s) - 1
        /\ \A j \in 1..(Len(s) - 1) : RemoveAt(s, 1)[j] = IF j < 1 THEN s[j] ELSE s[j + 1]
    <3>1. 1 \in 1..Len(s)
      BY <1>1
    <3> QED BY ONLY s \in Seq(Msgs), <3>1, RemoveAtProperties
  <2>2. \A j \in 1..Len(Tail(s)) : Tail(s)[j] = RemoveAt(s, 1)[j]
    BY <1>1, <2>1
  <2> QED BY <1>1, <2>1, <2>2, SeqEqual
<1>3. ASSUME NEW x
      PROVE  Queued(Tail(s), x) = Queued(s, x) - (IF s[1] = x THEN 1 ELSE 0) /\ Queued(s, x) \in Nat
  <2>1. 1 \in 1..Len(s)
    BY <1>1
  <2>2. Cardinality(PlacesOf(RemoveAt(s, 1), {x})) = Cardinality(PlacesOf(s, {x})) - (IF s[1] \in {x} THEN 1 ELSE 0)
    BY <2>1, CountRemoved
  <2>3. Cardinality(PlacesOf(s, {x})) \in Nat
    BY PlacesFinite
  <2> QED BY <1>2, <2>2, <2>3, QueuedPlaces
<1>4. /\ Queued(Tail(s), <<n, 1>>) = Queued(s, <<n, 1>>) - (IF s[1] = <<n, 1>> THEN 1 ELSE 0)
      /\ Queued(Tail(s), <<n, -1>>) = Queued(s, <<n, -1>>) - (IF s[1] = <<n, -1>> THEN 1 ELSE 0)
      /\ Queued(s, <<n, 1>>) \in Nat /\ Queued(s, <<n, -1>>) \in Nat
  BY <1>3
<1>5. AddsTo(Head(s), n) = (IF s[1] = <<n, 1>> THEN 1 ELSE 0) - (IF s[1] = <<n, -1>> THEN 1 ELSE 0)
  BY <1>1, AddsToOf
<1> QED BY <1>1, <1>4, <1>5 DEF Net

LEMMA HoldingType ==
  ASSUME NEW ks \in SUBSET Suns, NEW m
  PROVE  IsFiniteSet({k \in ks : child[k].msg = m}) /\ Holding(ks, m) \in Nat
<1>1. IsFiniteSet({k \in ks : child[k].msg = m})
  BY DbAssumption, FS_Subset
<1> QED BY <1>1, FS_CardinalityType DEF Holding

LEMMA NetHeldType == ASSUME NEW ks \in SUBSET Suns, NEW n PROVE NetHeld(ks, n) \in Int
<1>1. Holding(ks, <<n, 1>>) \in Nat /\ Holding(ks, <<n, -1>>) \in Nat
  BY HoldingType
<1> QED BY <1>1 DEF NetHeld

\* One child's hand changes.
LEMMA HandChanges ==
  ASSUME NEW k \in Suns, \A j \in Suns \ {k} : child'[j].msg = child[j].msg,
         child[k].msg \in Hand, child'[k].msg \in Hand, NEW n \in Indexes
  PROVE  NetHeld(Suns, n)' = NetHeld(Suns, n) - AddsTo(child[k].msg, n) + AddsTo(child'[k].msg, n)
<1> DEFINE One(m, x) == IF m = x THEN 1 ELSE 0
<1>1. ASSUME NEW x
      PROVE  /\ Holding(Suns, x)' = Holding(Suns, x) - One(child[k].msg, x) + One(child'[k].msg, x)
             /\ Holding(Suns, x) \in Nat
  <2> DEFINE H == {j \in Suns : child[j].msg = x}
             G == {j \in Suns : child'[j].msg = x}
             R == {j \in Suns \ {k} : child[j].msg = x}
  <2>1. IsFiniteSet(R) /\ k \notin R /\ Cardinality(R) \in Nat
    BY DbAssumption, FS_Subset, FS_CardinalityType
  <2>2. Cardinality(R \cup {k}) = Cardinality(R) + 1
    BY <2>1, FS_AddElement
  <2>3. H = (IF child[k].msg = x THEN R \cup {k} ELSE R) /\ G = (IF child'[k].msg = x THEN R \cup {k} ELSE R)
    OBVIOUS
  <2> HIDE DEF H, G, R
  <2>4. Cardinality(H) = Cardinality(R) + One(child[k].msg, x) /\ Cardinality(G) = Cardinality(R) + One(child'[k].msg, x)
    BY <2>1, <2>2, <2>3
  <2>5. Holding(Suns, x) = Cardinality(H) /\ Holding(Suns, x)' = Cardinality(G)
    BY DEF Holding, H, G
  <2> QED BY <2>1, <2>4, <2>5
<1>2. ASSUME NEW m \in Hand
      PROVE  AddsTo(m, n) = One(m, <<n, 1>>) - One(m, <<n, -1>>)
  <2>1. CASE m = <<>>
    <3>1. <<>> # <<n, 1>> /\ <<>> # <<n, -1>>
      OBVIOUS
    <3> QED BY <2>1, <3>1 DEF AddsTo
  <2>2. CASE m \in Msgs
    BY <2>2, AddsToOf
  <2> QED BY <2>1, <2>2 DEF Hand
<1>3. /\ AddsTo(child[k].msg, n) = One(child[k].msg, <<n, 1>>) - One(child[k].msg, <<n, -1>>)
      /\ AddsTo(child'[k].msg, n) = One(child'[k].msg, <<n, 1>>) - One(child'[k].msg, <<n, -1>>)
  BY <1>2
<1>4. /\ Holding(Suns, <<n, 1>>)' = Holding(Suns, <<n, 1>>) - One(child[k].msg, <<n, 1>>) + One(child'[k].msg, <<n, 1>>)
      /\ Holding(Suns, <<n, -1>>)' = Holding(Suns, <<n, -1>>) - One(child[k].msg, <<n, -1>>) + One(child'[k].msg, <<n, -1>>)
      /\ Holding(Suns, <<n, 1>>) \in Nat /\ Holding(Suns, <<n, -1>>) \in Nat
  BY <1>1
<1>5. NetHeld(Suns, n)' = Holding(Suns, <<n, 1>>)' - Holding(Suns, <<n, -1>>)'
  BY DEF NetHeld
<1>6. \A m, x : One(m, x) \in Nat
  OBVIOUS
<1> HIDE DEF One
<1> QED BY <1>3, <1>4, <1>5, <1>6 DEF NetHeld

\* The hands of some are emptied.
LEMMA HandsEmptied ==
  ASSUME NEW ks \in SUBSET Suns,
         \A k \in Suns : child'[k].msg = IF k \in ks THEN <<>> ELSE child[k].msg,
         NEW n \in Indexes
  PROVE  NetHeld(Suns, n)' = NetHeld(Suns, n) - NetHeld(ks, n)
<1>1. ASSUME NEW x, x # <<>>
      PROVE  Holding(Suns, x)' = Holding(Suns, x) - Holding(ks, x) /\ Holding(Suns, x) \in Nat /\ Holding(ks, x) \in Nat
  <2> DEFINE H == {j \in Suns : child[j].msg = x}
             K == {j \in ks : child[j].msg = x}
             G == {j \in Suns : child'[j].msg = x}
  <2>1. IsFiniteSet(H) /\ IsFiniteSet(K) /\ Cardinality(H) \in Nat /\ Cardinality(K) \in Nat
    BY HoldingType DEF Holding
  <2>2. G = H \ K /\ H \cap K = K
    BY <1>1
  <2> HIDE DEF H, K, G
  <2>3. Cardinality(G) = Cardinality(H) - Cardinality(K)
    BY <2>1, <2>2, FS_Difference
  <2>4. Holding(Suns, x) = Cardinality(H) /\ Holding(Suns, x)' = Cardinality(G) /\ Holding(ks, x) = Cardinality(K)
    BY DEF Holding, H, G, K
  <2> QED BY <2>1, <2>3, <2>4
<1>2. <<n, 1>> # <<>> /\ <<n, -1>> # <<>>
  OBVIOUS
<1>3. /\ Holding(Suns, <<n, 1>>)' = Holding(Suns, <<n, 1>>) - Holding(ks, <<n, 1>>)
      /\ Holding(Suns, <<n, -1>>)' = Holding(Suns, <<n, -1>>) - Holding(ks, <<n, -1>>)
      /\ Holding(Suns, <<n, 1>>) \in Nat /\ Holding(Suns, <<n, -1>>) \in Nat
      /\ Holding(ks, <<n, 1>>) \in Nat /\ Holding(ks, <<n, -1>>) \in Nat
  BY <1>1, <1>2
<1>4. NetHeld(Suns, n)' = Holding(Suns, <<n, 1>>)' - Holding(Suns, <<n, -1>>)'
  BY DEF NetHeld
<1> QED BY <1>3, <1>4 DEF NetHeld

LEMMA SameHands ==
  ASSUME \A k \in Suns : child'[k].msg = child[k].msg, NEW n
  PROVE  NetHeld(Suns, n)' = NetHeld(Suns, n)
<1>1. \A m : {k \in Suns : child'[k].msg = m} = {k \in Suns : child[k].msg = m}
  OBVIOUS
<1> QED BY <1>1 DEF NetHeld, Holding

LEMMA UnderwayTypes ==
  ASSUME DbTypeOK, NEW n \in Indexes
  PROVE  /\ Net(queue.old, n) \in Int /\ Net(queue.new, n) \in Int
         /\ AddsTo(msg, n) \in Int /\ NetHeld(Suns, n) \in Int
         /\ local_db[n] \in Int /\ db_map[n] \in Int /\ odd[n] \in Int
<1>1. queue.old \in Seq(Msgs) /\ queue.new \in Seq(Msgs) /\ msg \in Hand
  BY DEF DbTypeOK
<1> QED BY <1>1, NetType, AddsToType, NetHeldType DEF DbTypeOK

\* What is underway, before and after a step.
LEMMA UnderwayTerms ==
  ASSUME DbTypeOK, NEW n \in Indexes
  PROVE  /\ Underway(n) = Net(queue.old, n) + Net(queue.new, n) + AddsTo(msg, n) + NetHeld(Suns, n)
         /\ Underway(n)' = Net(queue'.old, n) + Net(queue'.new, n) + AddsTo(msg', n) + NetHeld(Suns, n)'
         /\ Underway(n) \in Int
BY UnderwayTypes DEF Underway

LEMMA PlusOf ==
  ASSUME NEW t \in [Indexes -> Int], NEW m \in Msgs, NEW sign \in {1, -1}
  PROVE  /\ Plus(t, m, sign) \in [Indexes -> Int]
         /\ \A n \in Indexes : Plus(t, m, sign)[n] = t[n] + sign * AddsTo(m, n)
<1>1. PICK e \in Indexes, o \in Ops : m = <<e, o>>
  BY DEF Msgs
<1>2. m # <<>> /\ m[1] = e /\ m[2] = o /\ o \in Int
  BY <1>1 DEF Ops
<1> QED BY <1>2 DEF Plus, AddsTo

-----------------------------------------------------------------------------
(* The steps.                                                               *)

LEMMA DbInitInv == DbInit => DbInv
<1> SUFFICES ASSUME DbInit PROVE DbInv
  OBVIOUS
<1> USE DEF DbInit
<1>1. queue.new = <<>> /\ queue.old \in Seq(Msgs) /\ queue \in [{"old", "new"} -> Seq(Msgs)]
  <2>1. PICK q \in [old : {<<>>} \cup (IF name = "old" THEN {<<m>> : m \in Msgs} ELSE {}), new : {<<>>}] : queue = q
    OBVIOUS
  <2>2. q.new = <<>> /\ q.old \in {<<>>} \cup (IF name = "old" THEN {<<m>> : m \in Msgs} ELSE {})
    OBVIOUS
  <2>3. q.old \in Seq(Msgs) /\ q.new \in Seq(Msgs)
    <3>1. q.old = <<>> \/ \E m \in Msgs : q.old = <<m>>
      BY <2>2
    <3>2. <<>> \in Seq(Msgs)
      OBVIOUS
    <3>3. \A m \in Msgs : <<m>> \in Seq(Msgs)
      OBVIOUS
    <3> QED BY <2>2, <3>1, <3>2, <3>3, Zenon
  <2> QED BY <2>1, <2>2, <2>3
<1>2. NoChild \in Sun
  BY DEF NoChild, Sun, Spots, Hand
<1>3. \A n \in Indexes : odd[n] = Net(queue.old, n) /\ Net(queue.old, n) \in Int
  BY <1>1, NetType
<1>4. DbTypeOK
  <2>1. child \in [Suns -> Sun]
    BY <1>2
  <2>2. 1 \in Suns
    BY DbAssumption, FS_EmptySet, FS_CardinalityType
  <2>3. odd \in [Indexes -> Int]
    BY <1>3
  <2>4. 0 \in 0..MaxSends
    BY DbAssumption
  <2> QED BY <1>1, <2>1, <2>2, <2>3, <2>4 DEF DbTypeOK, Parents, Hand, Zero
<1>5. ParentInv
  BY DEF ParentInv
<1>6. ChildInv
  BY DEF ChildInv, NoChild
<1>7. TablesAgree
  <2> SUFFICES ASSUME NEW n \in Indexes PROVE local_db[n] + odd[n] = db_map[n] + Underway(n)
    BY DEF TablesAgree
  <2>1. Net(queue.new, n) = 0
    <3>1. \A m : {j \in 1..Len(<<>>) : <<>>[j] = m} = {}
      OBVIOUS
    <3> QED BY <1>1, <3>1, FS_EmptySet DEF Net, Queued
  <2>2. NetHeld(Suns, n) = 0
    <3>1. \A m : m # <<>> => {k \in Suns : child[k].msg = m} = {}
      BY DEF NoChild
    <3>2. <<n, 1>> # <<>> /\ <<n, -1>> # <<>>
      OBVIOUS
    <3>3. Holding(Suns, <<n, 1>>) = 0 /\ Holding(Suns, <<n, -1>>) = 0
      BY <3>1, <3>2, FS_EmptySet DEF Holding
    <3> QED BY <3>3 DEF NetHeld
  <2>3. AddsTo(msg, n) = 0
    BY DEF AddsTo
  <2> QED BY <1>3, <2>1, <2>2, <2>3 DEF Underway, Zero
<1> QED BY <1>4, <1>5, <1>6, <1>7 DEF DbInv

\* A step that moves no message and changes no table.
LEMMA QuietKeeps ==
  ASSUME DbInv, UNCHANGED <<queue, msg, local_db, db_map, odd>>,
         \A k \in Suns : child'[k].msg = child[k].msg
  PROVE  TablesAgree'
<1> SUFFICES ASSUME NEW n \in Indexes PROVE (local_db[n] + odd[n] = db_map[n] + Underway(n))'
  BY DEF TablesAgree
<1>1. local_db[n] + odd[n] = db_map[n] + Underway(n)
  BY DEF DbInv, TablesAgree
<1>2. NetHeld(Suns, n)' = NetHeld(Suns, n)
  BY SameHands
<1> QED BY <1>1, <1>2 DEF Underway

\* main but for the counting and the sending, and SIGTERM: no message moves.
LEMMA ParentKeeps ==
  ASSUME DbInv, Fork \/ CatchTerm \/ Unlink \/ MqOpen \/ MsgGet \/ LeaveLoop \/ WaitSun \/ Term
  PROVE  DbInv'
<1> USE DEF DbInv, DbTypeOK
<1>0. i \in Nat /\ Suns \subseteq Nat /\ (i + 1 \in Suns \/ i = Cardinality(Suns))
  BY DbAssumption, FS_CardinalityType
<1>1. CASE Fork
  <2>1. PICK born \in BOOLEAN :
          /\ child' = IF born THEN [child EXCEPT ![i].at = "born"] ELSE child
          /\ sun' = IF born THEN [sun EXCEPT ![i] = 1] ELSE sun
    BY <1>1, Zenon DEF Fork
  <2>2. /\ parent = "fork" /\ UNCHANGED <<sysv, name, queue, exit_flag, mutex, db_map, local_db, msg, sends, odd>>
        /\ \/ i = Cardinality(Suns) /\ parent' = "signal" /\ i' = 1
           \/ i # Cardinality(Suns) /\ i' = i + 1 /\ parent' = parent
    BY <1>1 DEF Fork, Goto, tableVars
  <2>3. 1 \in Suns
    BY DbAssumption
  <2>4. \A k \in Suns : /\ child'[k].msg = child[k].msg /\ child'[k].read = child[k].read /\ child'[k].q = child[k].q
                        /\ child'[k].at = IF born /\ k = i THEN "born" ELSE child[k].at
    BY <2>1
  <2>5. DbTypeOK'
    <3>1. child' \in [Suns -> Sun]
      <4>1. child[i] \in Sun /\ [child[i] EXCEPT !.at = "born"] \in Sun
        BY DEF Sun, Spots
      <4> QED BY <2>1, <4>1
    <3>2. sun' \in [Suns -> {1, -1}]
      BY <2>1
    <3>3. i' \in Suns /\ parent' \in Parents
      BY <1>0, <2>2, <2>3 DEF Parents
    <3> QED BY <2>2, <3>1, <3>2, <3>3
  <2>6. ParentInv'
    BY <2>2 DEF ParentInv
  <2>7. child[i].at = "none"
    BY <1>0, <2>2 DEF ChildInv
  <2>8. ChildInv'
    <3>1. \A k \in Suns : k >= i' /\ parent' = "fork" => k > i /\ parent = "fork"
      BY <1>0, <2>2
    <3>2. parent' = "fork" => \A k \in Suns : k >= i' => child'[k].at = "none"
      <4> SUFFICES ASSUME NEW k \in Suns, k >= i', parent' = "fork" PROVE child'[k].at = "none"
        OBVIOUS
      <4>1. k > i /\ parent = "fork" /\ k # i
        BY <1>0, <3>1
      <4>2. k >= i
        BY ONLY <1>0, <4>1, k \in Suns
      <4>3. child[k].at = "none"
        BY <4>1, <4>2 DEF ChildInv
      <4> QED BY <2>4, <4>1, <4>3
    <3>3. ASSUME NEW k \in Suns
          PROVE  /\ child'[k].msg # <<>> <=> child'[k].at \in {"lock", "update"}
                 /\ child'[k].at \in {"receive", "lock", "update", "unlock"} => child'[k].q # "none"
                 /\ child'[k].at \in {"update", "unlock"} => mutex' = k
                 /\ child'[k].at = "update" => child'[k].read = db_map'[child'[k].msg[1]]
      <4>1. CASE child'[k].at = child[k].at
        BY <2>2, <2>4, <4>1 DEF ChildInv
      <4>2. CASE k = i /\ child'[k].at = "born"
        BY <2>4, <2>7, <4>2 DEF ChildInv
      <4> QED BY <2>4, <4>1, <4>2
    <3> QED BY <3>2, <3>3 DEF ChildInv
  <2>9. TablesAgree'
    BY <2>2, <2>4, QuietKeeps
  <2> QED BY <2>5, <2>6, <2>8, <2>9
<1>2. CASE CatchTerm \/ Unlink \/ MqOpen \/ MsgGet \/ LeaveLoop \/ WaitSun \/ Term
  <2> USE DEF childVars, tableVars, Goto
  <2>1. UNCHANGED <<queue, sun, child, mutex, db_map, local_db, msg, sends, odd>>
    BY <1>2 DEF CatchTerm, Unlink, MqOpen, MsgGet, LeaveLoop, WaitSun, Term
  <2>2. DbTypeOK'
    BY <1>0, <1>2, <2>1 DEF CatchTerm, Unlink, MqOpen, MsgGet, LeaveLoop, WaitSun, Term, Parents
  <2>3. ParentInv'
    BY <1>2, <2>1 DEF ParentInv, CatchTerm, Unlink, MqOpen, MsgGet, LeaveLoop, WaitSun, Term
  <2>4. ChildInv'
    <3>1. parent' # "fork"
      BY <1>2 DEF CatchTerm, Unlink, MqOpen, MsgGet, LeaveLoop, WaitSun, Term
    <3> QED BY <2>1, <3>1 DEF ChildInv
  <2>5. TablesAgree'
    BY <2>1, QuietKeeps
  <2> QED BY <2>2, <2>3, <2>4, <2>5
<1> QED BY <1>1, <1>2

\* main counts a message, or sends it, or gives it up.
LEMMA MessageKeeps ==
  ASSUME DbInv, CountLocal \/ MqSend \/ MsgSndError
  PROVE  DbInv'
<1> USE DEF DbInv, DbTypeOK, childVars, Goto
<1>1. /\ UNCHANGED <<sysv, name, i, sun, exit_flag, child, mutex, db_map>>
      /\ parent # "fork" /\ parent' # "fork"
  BY DEF CountLocal, MqSend, MsgSndError
<1>2. ChildInv'
  BY <1>1 DEF ChildInv
<1>3. ASSUME NEW n \in Indexes
      PROVE  /\ NetHeld(Suns, n)' = NetHeld(Suns, n)
             /\ local_db[n] + odd[n] = db_map[n] + Underway(n)
  BY <1>1, SameHands DEF TablesAgree
<1>4. CASE CountLocal
  <2>1. PICK m \in Msgs : msg' = m /\ local_db' = Plus(local_db, m, 1)
    BY <1>4 DEF CountLocal
  <2>2. parent = "loop" /\ msg = <<>> /\ UNCHANGED <<queue, odd>> /\ parent' = "send" /\ sends' \in 0..MaxSends
    BY <1>4, DbAssumption DEF CountLocal, ParentInv
  <2>3. m # <<>>
    <3>1. PICK e \in Indexes, o \in Ops : m = <<e, o>>
      BY DEF Msgs
    <3> QED BY <3>1
  <2>4. local_db' \in [Indexes -> Int] /\ \A n \in Indexes : local_db'[n] = local_db[n] + 1 * AddsTo(m, n)
    BY <2>1, PlusOf
  <2>5. DbTypeOK' /\ ParentInv'
    BY <1>1, <2>1, <2>2, <2>3, <2>4 DEF ParentInv, Parents, Hand
  <2>6. TablesAgree'
    <3> SUFFICES ASSUME NEW n \in Indexes PROVE (local_db[n] + odd[n] = db_map[n] + Underway(n))'
      BY DEF TablesAgree
    <3>1. AddsTo(msg, n) = 0
      BY <2>2 DEF AddsTo
    <3>2. AddsTo(m, n) \in Int
      BY AddsToType DEF Hand
    <3>3. local_db'[n] = local_db[n] + AddsTo(m, n) /\ odd'[n] = odd[n] /\ db_map'[n] = db_map[n]
      BY <1>1, <2>2, <2>4, <3>2, UnderwayTypes
    <3>8. /\ Net(queue.old, n) \in Int /\ Net(queue.new, n) \in Int /\ AddsTo(msg, n) \in Int
          /\ NetHeld(Suns, n) \in Int
          /\ Underway(n) = Net(queue.old, n) + Net(queue.new, n) + AddsTo(msg, n) + NetHeld(Suns, n)
          /\ Underway(n)' = Net(queue'.old, n) + Net(queue'.new, n) + AddsTo(msg', n) + NetHeld(Suns, n)'
      BY UnderwayTypes, UnderwayTerms
    <3>4. Underway(n)' = Underway(n) + AddsTo(m, n)
      BY <1>3, <2>1, <2>2, <3>1, <3>2, <3>8
    <3>9. /\ local_db[n] \in Int /\ odd[n] \in Int /\ db_map[n] \in Int /\ Underway(n) \in Int
          /\ local_db[n] + odd[n] = db_map[n] + Underway(n) /\ AddsTo(m, n) \in Int
      BY <1>3, <3>2, UnderwayTypes, UnderwayTerms
    <3> QED BY ONLY <3>3, <3>4, <3>9
  <2> QED BY <1>2, <2>5, <2>6
<1>5. CASE MqSend
  <2>1. /\ parent = "send" /\ parent' = "loop" /\ name \in {"old", "new"} /\ msg \in Msgs /\ msg' = <<>>
        /\ queue' = [queue EXCEPT ![name] = Append(@, msg)] /\ UNCHANGED <<local_db, sends, odd>>
    BY <1>5 DEF MqSend, ParentInv, Hand
  <2>2. /\ queue[name] \in Seq(Msgs) /\ Append(queue[name], msg) \in Seq(Msgs)
        /\ \A q \in {"old", "new"} : queue'[q] = IF q = name THEN Append(queue[name], msg) ELSE queue[q]
    BY <2>1
  <2>3. DbTypeOK' /\ ParentInv'
    BY <1>1, <2>1, <2>2 DEF ParentInv, Parents, Hand
  <2>4. TablesAgree'
    <3> SUFFICES ASSUME NEW n \in Indexes PROVE (local_db[n] + odd[n] = db_map[n] + Underway(n))'
      BY DEF TablesAgree
    <3>1. Net(Append(queue[name], msg), n) = Net(queue[name], n) + AddsTo(msg, n)
      BY <2>1, <2>2, NetAppended
    <3>2. AddsTo(msg', n) = 0
      BY <2>1 DEF AddsTo
    <3>3. Net(queue'.old, n) + Net(queue'.new, n) = Net(queue.old, n) + Net(queue.new, n) + AddsTo(msg, n)
      BY <2>1, <2>2, <3>1, UnderwayTypes
    <3>4. local_db'[n] = local_db[n] /\ odd'[n] = odd[n] /\ db_map'[n] = db_map[n]
      BY <1>1, <2>1
    <3>8. /\ Net(queue.old, n) \in Int /\ Net(queue.new, n) \in Int /\ AddsTo(msg, n) \in Int
          /\ NetHeld(Suns, n) \in Int
          /\ Underway(n) = Net(queue.old, n) + Net(queue.new, n) + AddsTo(msg, n) + NetHeld(Suns, n)
          /\ Underway(n)' = Net(queue'.old, n) + Net(queue'.new, n) + AddsTo(msg', n) + NetHeld(Suns, n)'
      BY UnderwayTypes, UnderwayTerms
    <3>5. Underway(n)' = Underway(n)
      BY <1>3, <3>2, <3>3, <3>8
    <3> QED BY <1>3, <3>4, <3>5
  <2> QED BY <1>2, <2>3, <2>4
<1>6. CASE MsgSndError
  <2>1. /\ parent = "send" /\ parent' = "loop" /\ name # "none" /\ msg \in Msgs /\ msg' = <<>>
        /\ odd' = Plus(odd, msg, -1) /\ UNCHANGED <<queue, local_db, sends>>
    BY <1>6 DEF MsgSndError, ParentInv, Hand
  <2>2. odd' \in [Indexes -> Int] /\ \A n \in Indexes : odd'[n] = odd[n] + (-1) * AddsTo(msg, n)
    BY <2>1, PlusOf
  <2>3. DbTypeOK' /\ ParentInv'
    BY <1>1, <2>1, <2>2 DEF ParentInv, Parents, Hand
  <2>4. TablesAgree'
    <3> SUFFICES ASSUME NEW n \in Indexes PROVE (local_db[n] + odd[n] = db_map[n] + Underway(n))'
      BY DEF TablesAgree
    <3>1. AddsTo(msg', n) = 0
      BY <2>1 DEF AddsTo
    <3>2. local_db'[n] = local_db[n] /\ odd'[n] = odd[n] - AddsTo(msg, n) /\ db_map'[n] = db_map[n]
      BY <1>1, <2>1, <2>2, UnderwayTypes
    <3>8. /\ Net(queue.old, n) \in Int /\ Net(queue.new, n) \in Int /\ AddsTo(msg, n) \in Int
          /\ NetHeld(Suns, n) \in Int
          /\ Underway(n) = Net(queue.old, n) + Net(queue.new, n) + AddsTo(msg, n) + NetHeld(Suns, n)
          /\ Underway(n)' = Net(queue'.old, n) + Net(queue'.new, n) + AddsTo(msg', n) + NetHeld(Suns, n)'
      BY UnderwayTypes, UnderwayTerms
    <3>3. Underway(n)' = Underway(n) - AddsTo(msg, n)
      BY <1>3, <2>1, <3>1, <3>8
    <3>9. /\ local_db[n] \in Int /\ odd[n] \in Int /\ db_map[n] \in Int /\ Underway(n) \in Int
          /\ local_db[n] + odd[n] = db_map[n] + Underway(n) /\ AddsTo(msg, n) \in Int
      BY <1>3, UnderwayTypes, UnderwayTerms
    <3> QED BY ONLY <3>2, <3>3, <3>9
  <2> QED BY <1>2, <2>3, <2>4
<1> QED BY <1>4, <1>5, <1>6

\* wait_sun aborts children: what they had in their hands is lost, and odd has it.
LEMMA KillKeeps ==
  ASSUME DbInv, KillSun
  PROVE  DbInv'
<1> USE DEF DbInv, DbTypeOK, Goto
<1> DEFINE ks == IF sun[i] = -1 THEN Suns ELSE {i}
<1>1. /\ parent = "wait" /\ parent' = "waitpid" /\ Aborts(ks)
      /\ UNCHANGED <<sysv, name, queue, i, sun, exit_flag, msg, sends, local_db, mutex, db_map>>
  BY DEF KillSun
<1>2. ks \in SUBSET Suns
  OBVIOUS
<1> HIDE DEF ks
<1>3. \A k \in Suns : child'[k] = IF k \in ks /\ child[k].at \notin Gone
                                 THEN [child[k] EXCEPT !.at = "dead", !.msg = <<>>] ELSE child[k]
  BY <1>1 DEF Aborts
<1>4. \A k \in Suns : child'[k].msg = IF k \in ks THEN <<>> ELSE child[k].msg
  <2> SUFFICES ASSUME NEW k \in Suns PROVE child'[k].msg = IF k \in ks THEN <<>> ELSE child[k].msg
    OBVIOUS
  <2>1. child[k] \in Sun /\ (child[k].at \in Gone => child[k].msg = <<>>)
    BY DEF ChildInv, Gone
  <2>2. CASE k \in ks /\ child[k].at \notin Gone
    BY <1>3, <2>1, <2>2 DEF Sun
  <2>3. CASE ~(k \in ks /\ child[k].at \notin Gone)
    BY <1>3, <2>1, <2>3
  <2> QED BY <2>2, <2>3
<1>5. \A n \in Indexes : odd'[n] = odd[n] - NetHeld(ks, n) /\ NetHeld(ks, n) \in Int
  BY <1>1, <1>2, NetHeldType DEF Aborts
<1>6. DbTypeOK'
  <2>1. child' \in [Suns -> Sun]
    <3>1. \A k \in Suns : child'[k] \in Sun
      BY <1>3 DEF Sun, Spots, Hand
    <3> QED BY <1>1, <3>1 DEF Aborts
  <2>2. odd' \in [Indexes -> Int]
    <3>1. \A n \in Indexes : odd[n] - NetHeld(ks, n) \in Int
      BY <1>5
    <3>2. odd' = [n \in Indexes |-> odd[n] - NetHeld(ks, n)]
      BY <1>1 DEF Aborts
    <3> QED BY <3>1, <3>2
  <2> QED BY <1>1, <2>1, <2>2 DEF Parents
<1>7. ParentInv'
  BY <1>1 DEF ParentInv
<1>8. ChildInv'
  <2> SUFFICES ASSUME NEW k \in Suns
               PROVE  /\ child'[k].msg # <<>> <=> child'[k].at \in {"lock", "update"}
                      /\ child'[k].at \in {"receive", "lock", "update", "unlock"} => child'[k].q # "none"
                      /\ child'[k].at \in {"update", "unlock"} => mutex' = k
                      /\ child'[k].at = "update" => child'[k].read = db_map'[child'[k].msg[1]]
    BY <1>1 DEF ChildInv
  <2>1. CASE k \in ks /\ child[k].at \notin Gone
    <3>1. child'[k].at = "dead" /\ child'[k].msg = <<>>
      BY <1>3, <2>1 DEF Sun
    <3> QED BY <3>1
  <2>2. CASE ~(k \in ks /\ child[k].at \notin Gone)
    BY <1>1, <1>3, <2>2 DEF ChildInv
  <2> QED BY <2>1, <2>2
<1>9. TablesAgree'
  <2> SUFFICES ASSUME NEW n \in Indexes PROVE (local_db[n] + odd[n] = db_map[n] + Underway(n))'
    BY DEF TablesAgree
  <2>1. NetHeld(Suns, n)' = NetHeld(Suns, n) - NetHeld(ks, n)
    BY <1>2, <1>4, HandsEmptied
  <2>2. local_db[n] + odd[n] = db_map[n] + Underway(n)
    BY DEF TablesAgree
  <2>3. local_db'[n] = local_db[n] /\ odd'[n] = odd[n] - NetHeld(ks, n) /\ db_map'[n] = db_map[n]
    BY <1>1, <1>5
  <2>8. /\ Net(queue.old, n) \in Int /\ Net(queue.new, n) \in Int /\ AddsTo(msg, n) \in Int
        /\ NetHeld(Suns, n) \in Int
        /\ Underway(n) = Net(queue.old, n) + Net(queue.new, n) + AddsTo(msg, n) + NetHeld(Suns, n)
        /\ Underway(n)' = Net(queue'.old, n) + Net(queue'.new, n) + AddsTo(msg', n) + NetHeld(Suns, n)'
    BY UnderwayTypes, UnderwayTerms
  <2>4. Underway(n)' = Underway(n) - NetHeld(ks, n)
    BY <1>1, <1>5, <2>1, <2>8
  <2>9. /\ local_db[n] \in Int /\ odd[n] \in Int /\ db_map[n] \in Int /\ Underway(n) \in Int
        /\ local_db[n] + odd[n] = db_map[n] + Underway(n) /\ NetHeld(ks, n) \in Int
    BY <1>5, <2>2, UnderwayTypes, UnderwayTerms
  <2> QED BY ONLY <2>3, <2>4, <2>9
<1> QED BY <1>6, <1>7, <1>8, <1>9

LEMMA SunFields ==
  ASSUME NEW c \in Sun, NEW a, NEW q
  PROVE  /\ [c EXCEPT !.at = a].at = a /\ [c EXCEPT !.at = a].msg = c.msg
         /\ [c EXCEPT !.at = a, !.q = q].at = a /\ [c EXCEPT !.at = a, !.q = q].q = q
         /\ [c EXCEPT !.at = a, !.q = q].msg = c.msg
BY DEF Sun

\* What a step of a child k may do without disturbing the others.
LEMMA ChildKeeps ==
  ASSUME DbInv, NEW k \in Suns, Child(k)
  PROVE  DbInv'
<1> USE DEF DbInv, DbTypeOK, Becomes
<1>1. UNCHANGED <<sysv, name, parent, i, sun, exit_flag, local_db, msg, sends, odd>>
  BY DEF Child, parentVars, tableVars
<1>2. PICK c \in Sun : child' = [child EXCEPT ![k] = c]
  <2>1. child[k] \in Sun
    OBVIOUS
  <2>2. CASE OpenQueue(k)
    <3> DEFINE a == [child[k] EXCEPT !.at = "exited"]
               b == [child[k] EXCEPT !.at = "receive", !.q = name]
    <3>1. a \in Sun /\ b \in Sun
      BY <2>1 DEF Sun, Spots
    <3>2. child' = [child EXCEPT ![k] = a] \/ child' = [child EXCEPT ![k] = b]
      BY <2>2 DEF OpenQueue
    <3> QED BY <3>1, <3>2
  <2>3. CASE Receive(k)
    <3>1. child[k].q \in {"old", "new"} /\ queue[child[k].q] \in Seq(Msgs) /\ queue[child[k].q] # <<>>
      BY <2>1, <2>3 DEF Receive, ChildInv, Sun
    <3>2. Head(queue[child[k].q]) \in Msgs
      BY <3>1, HeadTailProperties
    <3> DEFINE a == [child[k] EXCEPT !.at = "lock", !.msg = Head(queue[child[k].q])]
    <3>3. a \in Sun
      BY <2>1, <3>2 DEF Sun, Spots, Hand
    <3> QED BY <2>3, <3>3 DEF Receive
  <2>4. CASE Lock(k)
    <3>1. child[k].msg \in Msgs
      BY <2>1, <2>4 DEF Lock, ChildInv, Sun, Hand
    <3>2. db_map[child[k].msg[1]] \in Int
      BY <3>1 DEF Msgs
    <3> DEFINE a == [child[k] EXCEPT !.at = "update", !.read = db_map[child[k].msg[1]]]
    <3>3. a \in Sun
      BY <2>1, <3>2 DEF Sun, Spots
    <3> QED BY <2>4, <3>3 DEF Lock
  <2>5. CASE Update(k)
    <3> DEFINE a == [child[k] EXCEPT !.at = "unlock", !.msg = <<>>, !.read = 0]
    <3>1. <<>> \in Hand /\ 0 \in Int
      BY DEF Hand
    <3>2. a \in Sun
      BY <2>1, <3>1 DEF Sun, Spots
    <3> QED BY <2>5, <3>2 DEF Update
  <2>6. CASE Unlock(k)
    <3> DEFINE a == [child[k] EXCEPT !.at = "receive"]
    <3>1. a \in Sun
      BY <2>1 DEF Sun, Spots
    <3> QED BY <2>6, <3>1 DEF Unlock
  <2> QED BY <2>2, <2>3, <2>4, <2>5, <2>6 DEF Child
<1>3. child' \in [Suns -> Sun] /\ child'[k] = c /\ \A j \in Suns \ {k} : child'[j] = child[j]
  BY <1>2
<1>4. child[k].at # "none" /\ child[k] \in Sun
  BY DEF Child, OpenQueue, Receive, Lock, Update, Unlock
<1>5. ParentInv'
  BY <1>1 DEF ParentInv
<1>6. ASSUME NEW n \in Indexes
      PROVE  /\ NetHeld(Suns, n)' = NetHeld(Suns, n) - AddsTo(child[k].msg, n) + AddsTo(c.msg, n)
             /\ AddsTo(child[k].msg, n) \in Int /\ AddsTo(c.msg, n) \in Int
             /\ local_db[n] + odd[n] = db_map[n] + Underway(n)
  <2>1. child[k].msg \in Hand /\ c.msg \in Hand
    BY <1>4 DEF Sun
  <2>2. \A j \in Suns \ {k} : child'[j].msg = child[j].msg
    BY <1>3
  <2>3. NetHeld(Suns, n)' = NetHeld(Suns, n) - AddsTo(child[k].msg, n) + AddsTo(child'[k].msg, n)
    BY <1>3, <2>1, <2>2, HandChanges
  <2> QED BY <1>3, <2>1, <2>3, AddsToType DEF TablesAgree
<1>7. CASE OpenQueue(k) \/ Unlock(k)
  <2>1. UNCHANGED <<queue, db_map>> /\ c.msg = <<>> /\ child[k].msg = <<>>
    <3>1. child[k].at \in {"born", "unlock"} /\ UNCHANGED <<queue, db_map>>
      BY <1>7 DEF OpenQueue, Unlock
    <3>2. child[k].msg = <<>>
      BY <3>1 DEF ChildInv
    <3>3. child'[k].msg = child[k].msg
      <4>1. \/ child'[k] = [child[k] EXCEPT !.at = "exited"]
            \/ child'[k] = [child[k] EXCEPT !.at = "receive", !.q = name]
            \/ child'[k] = [child[k] EXCEPT !.at = "receive"]
        BY <1>7 DEF OpenQueue, Unlock
      <4>2. child[k] \in Sun
        BY <1>4
      <4>3. /\ [child[k] EXCEPT !.at = "exited"].msg = child[k].msg
            /\ [child[k] EXCEPT !.at = "receive", !.q = name].msg = child[k].msg
            /\ [child[k] EXCEPT !.at = "receive"].msg = child[k].msg
        BY ONLY <4>2, SunFields
      <4> QED BY ONLY <4>1, <4>3
    <3> QED BY <1>3, <3>1, <3>2, <3>3
  <2>2. mutex' \in {mutex, Nobody}
    BY <1>7 DEF OpenQueue, Unlock
  <2>3. mutex' # mutex => mutex = k /\ c.at = "receive"
    BY <1>3, <1>4, <1>7 DEF OpenQueue, Unlock, ChildInv, Sun
  <2>4. c.at = "exited" \/ (c.at = "receive" /\ c.q # "none")
    <3>1. CASE OpenQueue(k)
      <4>1. CASE name = "none"
        <5>1. child'[k].at = "exited"
          BY <1>4, <3>1, <4>1 DEF OpenQueue, Sun
        <5> QED BY <1>3, <5>1
      <4>2. CASE name # "none"
        <5>1. child'[k].at = "receive" /\ child'[k].q = name
          <6>1. child'[k] = [child[k] EXCEPT !.at = "receive", !.q = name]
            BY <3>1, <4>2 DEF OpenQueue
          <6> QED BY <1>4, <6>1, SunFields
        <5> QED BY <1>3, <4>2, <5>1
      <4> QED BY <4>1, <4>2
    <3>2. CASE Unlock(k)
      BY <1>3, <1>4, <3>2 DEF Unlock, ChildInv, Sun
    <3> QED BY <1>7, <3>1, <3>2
  <2>5. ChildInv'
    BY <1>1, <1>3, <1>4, <2>1, <2>2, <2>3, <2>4 DEF ChildInv
  <2>6. TablesAgree'
    BY <1>1, <1>3, <2>1, QuietKeeps
  <2>7. DbTypeOK'
    BY <1>1, <1>3, <2>1, <2>2
  <2> QED BY <1>5, <2>5, <2>6, <2>7
<1>8. CASE Receive(k)
  <2> DEFINE q == child[k].q
             m == Head(queue[q])
  <2>1. /\ child[k].at = "receive" /\ child[k].msg = <<>> /\ q \in {"old", "new"}
        /\ queue[q] \in Seq(Msgs) /\ queue[q] # <<>>
        /\ queue' = [queue EXCEPT ![q] = Tail(@)] /\ UNCHANGED <<mutex, db_map>>
    BY <1>4, <1>8 DEF Receive, ChildInv, Sun
  <2>2. m \in Msgs /\ Tail(queue[q]) \in Seq(Msgs)
    BY <2>1, NetTaken
  <2>3. c.at = "lock" /\ c.msg = m /\ c.q = q
    BY <1>3, <1>4, <1>8 DEF Receive, Sun
  <2> HIDE DEF m, q
  <2>4. m # <<>>
    BY <2>2, MessageIsNotNone
  <2>5. ChildInv'
    BY <1>1, <1>3, <1>4, <2>1, <2>3, <2>4 DEF ChildInv
  <2>6. DbTypeOK'
    BY <1>1, <1>3, <2>1, <2>2
  <2>7. TablesAgree'
    <3> SUFFICES ASSUME NEW n \in Indexes PROVE (local_db[n] + odd[n] = db_map[n] + Underway(n))'
      BY DEF TablesAgree
    <3>1. Net(Tail(queue[q]), n) = Net(queue[q], n) - AddsTo(m, n)
      BY <2>1, NetTaken DEF m
    <3>2. /\ Net(queue.old, n) \in Int /\ Net(queue.new, n) \in Int /\ AddsTo(msg, n) \in Int
          /\ NetHeld(Suns, n) \in Int /\ AddsTo(m, n) \in Int
      BY <1>6, <2>3, UnderwayTypes
    <3>3. Net(queue'.old, n) + Net(queue'.new, n) = Net(queue.old, n) + Net(queue.new, n) - AddsTo(m, n)
      BY <2>1, <3>1, <3>2
    <3>4. AddsTo(child[k].msg, n) = 0
      BY <2>1 DEF AddsTo
    <3>5. NetHeld(Suns, n)' = NetHeld(Suns, n) + AddsTo(m, n)
      BY <1>6, <2>3, <3>2, <3>4
    <3>8. /\ Net(queue.old, n) \in Int /\ Net(queue.new, n) \in Int /\ AddsTo(msg, n) \in Int
          /\ NetHeld(Suns, n) \in Int
          /\ Underway(n) = Net(queue.old, n) + Net(queue.new, n) + AddsTo(msg, n) + NetHeld(Suns, n)
          /\ Underway(n)' = Net(queue'.old, n) + Net(queue'.new, n) + AddsTo(msg', n) + NetHeld(Suns, n)'
      BY UnderwayTypes, UnderwayTerms
    <3>6. Underway(n)' = Underway(n)
      BY <1>1, <3>2, <3>3, <3>5, <3>8
    <3> QED BY <1>1, <1>6, <2>1, <3>6
  <2> QED BY <1>5, <2>5, <2>6, <2>7
<1>9. CASE Lock(k)
  <2>1. /\ child[k].at = "lock" /\ child[k].msg \in Msgs /\ mutex = Nobody /\ mutex' = k
        /\ UNCHANGED <<queue, db_map>>
    BY <1>4, <1>9 DEF Lock, ChildInv, Sun, Hand
  <2>2. c.at = "update" /\ c.msg = child[k].msg /\ c.q = child[k].q /\ c.read = db_map[child[k].msg[1]]
    BY <1>3, <1>4, <1>9 DEF Lock, Sun
  <2>3. ChildInv'
    <3>1. \A j \in Suns : child[j].at \notin {"update", "unlock"}
      BY <2>1, DbAssumption DEF ChildInv
    <3>2. ASSUME NEW j \in Suns
          PROVE  /\ child'[j].msg # <<>> <=> child'[j].at \in {"lock", "update"}
                 /\ child'[j].at \in {"receive", "lock", "update", "unlock"} => child'[j].q # "none"
                 /\ child'[j].at \in {"update", "unlock"} => mutex' = j
                 /\ child'[j].at = "update" => child'[j].read = db_map'[child'[j].msg[1]]
      <4>1. CASE j = k
        BY <1>3, <2>1, <2>2, <4>1, MessageIsNotNone DEF ChildInv
      <4>2. CASE j # k
        BY <1>3, <2>1, <3>1, <4>2 DEF ChildInv
      <4> QED BY <4>1, <4>2
    <3>3. parent' = "fork" => \A j \in Suns : j >= i' => child'[j].at = "none"
      BY <1>1, <1>3, <1>4 DEF ChildInv
    <3> QED BY <3>2, <3>3 DEF ChildInv
  <2>4. DbTypeOK'
    BY <1>1, <1>3, <2>1
  <2>5. TablesAgree'
    BY <1>1, <1>3, <2>1, <2>2, QuietKeeps
  <2> QED BY <1>5, <2>3, <2>4, <2>5
<1>10. CASE Update(k)
  <2> DEFINE m == child[k].msg
  <2>1. /\ child[k].at = "update" /\ m \in Msgs /\ mutex = k /\ child[k].read = db_map[m[1]]
        /\ db_map' = [db_map EXCEPT ![m[1]] = child[k].read + m[2]]
        /\ UNCHANGED <<queue, mutex>>
    BY <1>4, <1>10 DEF Update, ChildInv, Sun, Hand
  <2>2. c.at = "unlock" /\ c.msg = <<>> /\ c.q = child[k].q
    BY <1>3, <1>4, <1>10 DEF Update, Sun
  <2>3. \A j \in Suns \ {k} : child[j].at # "update"
    BY <2>1 DEF ChildInv
  <2> HIDE DEF m
  <2>4. ChildInv'
    BY <1>1, <1>3, <1>4, <2>1, <2>2, <2>3 DEF ChildInv, m
  <2>5. db_map' = Plus(db_map, m, 1)
    <3>1. PICK e \in Indexes, o \in Ops : m = <<e, o>>
      BY <2>1 DEF Msgs
    <3>2. m[1] = e /\ m[2] = o /\ o \in Int
      BY <3>1 DEF Ops
    <3>3. db_map[e] + 1 * o = child[k].read + o /\ e \in Indexes
      BY <2>1, <3>2
    <3> QED BY <2>1, <3>2, <3>3 DEF Plus
  <2>6. db_map' \in [Indexes -> Int] /\ \A n \in Indexes : db_map'[n] = db_map[n] + 1 * AddsTo(m, n)
    <3>1. db_map \in [Indexes -> Int] /\ m \in Msgs /\ 1 \in {1, -1}
      BY <2>1
    <3> QED BY ONLY <2>5, <3>1, PlusOf
  <2>7. DbTypeOK'
    BY <1>1, <1>3, <2>1, <2>6
  <2>8. TablesAgree'
    <3> SUFFICES ASSUME NEW n \in Indexes PROVE (local_db[n] + odd[n] = db_map[n] + Underway(n))'
      BY DEF TablesAgree
    <3>1. /\ Underway(n) \in Int /\ AddsTo(m, n) \in Int /\ local_db[n] \in Int /\ db_map[n] \in Int /\ odd[n] \in Int
          /\ local_db[n] + odd[n] = db_map[n] + Underway(n) /\ NetHeld(Suns, n) \in Int
      BY <1>6, UnderwayTypes, UnderwayTerms DEF m
    <3>2. AddsTo(c.msg, n) = 0
      BY <2>2 DEF AddsTo
    <3>3. NetHeld(Suns, n)' = NetHeld(Suns, n) - AddsTo(m, n)
      BY <1>6, <3>1, <3>2 DEF m
    <3>8. /\ Net(queue.old, n) \in Int /\ Net(queue.new, n) \in Int /\ AddsTo(msg, n) \in Int
          /\ NetHeld(Suns, n) \in Int
          /\ Underway(n) = Net(queue.old, n) + Net(queue.new, n) + AddsTo(msg, n) + NetHeld(Suns, n)
          /\ Underway(n)' = Net(queue'.old, n) + Net(queue'.new, n) + AddsTo(msg', n) + NetHeld(Suns, n)'
      BY UnderwayTypes, UnderwayTerms
    <3>4. Underway(n)' = Underway(n) - AddsTo(m, n)
      BY <1>1, <2>1, <3>1, <3>3, <3>8
    <3>5. local_db'[n] = local_db[n] /\ odd'[n] = odd[n] /\ db_map'[n] = db_map[n] + AddsTo(m, n)
      BY <1>1, <2>6, <3>1
    <3> QED BY ONLY <3>1, <3>4, <3>5
  <2> QED BY <1>5, <2>4, <2>7, <2>8
<1> QED BY <1>7, <1>8, <1>9, <1>10 DEF Child

\* In every behaviour, with any number of children, entries and messages, either kind of
\* queue, an abort of the children at any moment and a queue left by an earlier run, the
\* two tables differ, entry by entry, by exactly the messages underway and those of odd.
\* (db_update on both sides, the process-shared mutex of sun_run)
THEOREM NoMessageLost == DbSpec => []TablesAgree
<1>1. DbInv /\ [DbNext]_dbVars => DbInv'
  <2> SUFFICES ASSUME DbInv, [DbNext]_dbVars PROVE DbInv'
    OBVIOUS
  <2>1. CASE DbNext
    BY <2>1, ParentKeeps, MessageKeeps, KillKeeps, ChildKeeps DEF DbNext, Parent
  <2>2. CASE UNCHANGED dbVars
    BY <2>2, QuietKeeps DEF dbVars, DbInv, DbTypeOK, ParentInv, ChildInv
  <2> QED BY <2>1, <2>2
<1>2. DbInv => TablesAgree
  BY DEF DbInv
<1> QED BY <1>1, <1>2, DbInitInv, PTL DEF DbSpec

-----------------------------------------------------------------------------
(* The threads of pthread.c and semaphore.c.                                *)

Fore == {"run_1", "run_2", "mutex", "cond_1", "cond_11", "sem_1", "sem_11"}
Fns == Fore \cup {"none", "run_3", "run_4"}
ThreadSpots == {"free", "start", "ended", "detached", "locked", "counted", "asleep", "awake", "signalled"}
ThreadRec == [fn : Fns, at : ThreadSpots, i : Nat, det : BOOLEAN]

\* Where the threads of a function can be.  Only what main has to join can have ended.
ThreadOK(r) ==
  /\ r.fn = "none" <=> r.at = "free"
  /\ r.fn \in Fore => ~r.det
  /\ r.fn = "run_3" => r.at = "start" /\ r.det
  /\ r.fn = "run_4" => r.at \in {"start", "detached"} /\ (r.at = "detached" => r.det)
  /\ r.fn = "mutex" => r.at \in {"start", "locked", "counted", "ended"}
  /\ r.fn = "sem_1" => r.at \in {"start", "ended"} /\ r.i \in 1..3
  /\ r.fn = "sem_11" => r.at \in {"start", "ended"} /\ r.i \in 1..8
  /\ r.fn = "cond_1" => r.at \in {"start", "asleep", "awake", "ended"} /\ r.i \in 1..3
  /\ r.fn = "cond_11" => r.at \in {"start", "signalled", "ended"} /\ r.i \in 1..8
  /\ r.fn \in {"run_1", "run_2"} => r.at \in {"start", "ended"}

ThreadsTypeOK ==
  /\ pids \in Seq(Tids \cup {NoTid})
  /\ thread \in [Tids -> ThreadRec] /\ \A t \in Tids : ThreadOK(thread[t])
  /\ g_count \in Nat /\ holder \in Tids \cup {NoTid} /\ sem \in Nat /\ runs \in Nat /\ undef \in BOOLEAN

HolderInv ==
  \A t \in Tids :
    /\ thread[t].at \in {"locked", "counted"} <=> holder = t
    /\ thread[t].at = "locked" => thread[t].i = g_count

Foreground == {t \in Tids : thread[t].fn \in Fore}

Uncounted(k, fns, n) ==
  IF k > n /\ k <= Len(fns) /\ fns[k] = "mutex" /\ (pids[k] = NoTid \/ thread[pids[k]].at \in {"start", "locked"})
  THEN 1 ELSE 0

Done(t, m) == IF thread[t].at = "ended" THEN m ELSE m - thread[t].i
Waits(n) == IF n >= 1 THEN 3 ELSE IF Len(pids) < 1 \/ pids[1] = NoTid THEN 0 ELSE Done(pids[1], 3)
Posts(n) == IF n >= 2 THEN 8 ELSE IF Len(pids) < 2 \/ pids[2] = NoTid THEN 0 ELSE Done(pids[2], 8)

Shape(left, fns, n) ==
  /\ todo = left
  /\ Len(pids) = Len(fns)
  /\ \A k \in 1..Len(fns) : k > n /\ pids[k] # NoTid => thread[pids[k]].fn = fns[k]
  /\ \A t \in Foreground : \E k \in 1..Len(fns) : k > n /\ pids[k] = t
  /\ \A j, k \in 1..Len(fns) : j > n /\ k > n /\ pids[j] = pids[k] /\ pids[k] # NoTid => j = k

Balance(fns, n, due) == g_count + due + Uncounted(1, fns, n) + Uncounted(2, fns, n) = 2 * runs

SemBalance(n) == sem + Waits(n) = Posts(n)

Runs(left, fns, n, due, on) ==
  Shape(left, fns, n) /\ Balance(fns, n, due) /\ (on => SemBalance(n))

AtMenu == todo = <<>> /\ Foreground = {} /\ g_count = 2 * runs

\* The stages of main in a function: what is left of it, what it has created, how many
\* of these it has joined, the threads of the mutex still to be created, and whether
\* the posts and waits of the semaphore are counted.
Stage(left, fns, n, due, on) == [left |-> left, fns |-> fns, joined |-> n, due |-> due, on |-> on]

PlainStages == {
  Stage(m_create_thread_joinable, <<>>, 0, 0, FALSE),
  Stage(<<Join(1)>>, <<"run_1">>, 0, 0, FALSE),
  Stage(m_create_thread_detached, <<>>, 0, 0, FALSE),
  Stage(<<Cancel(1), Join(1)>>, <<"run_2">>, 0, 0, FALSE),
  Stage(<<Join(1)>>, <<"run_2">>, 0, 0, FALSE),
  Stage(m_create_thread_attr, <<>>, 0, 0, FALSE),
  Stage(m_create_thread_unjoinable, <<>>, 0, 0, FALSE)}

MutexStages == {
  Stage(m_create_thread_mutex, <<>>, 0, 2, FALSE),
  Stage(<<Create("mutex"), Create("mutex"), Join(1), Join(2)>>, <<>>, 0, 2, FALSE),
  Stage(<<Create("mutex"), Join(1), Join(2)>>, <<"mutex">>, 0, 1, FALSE),
  Stage(<<Join(1), Join(2)>>, <<"mutex", "mutex">>, 0, 0, FALSE),
  Stage(<<Join(2)>>, <<"mutex", "mutex">>, 1, 0, FALSE)}

CondStages == {
  Stage(m_create_thread_cond, <<>>, 0, 0, FALSE),
  Stage(<<CreateLoop("cond_1", 3), CreateLoop("cond_11", 8), Join(1), Join(2)>>, <<>>, 0, 0, FALSE),
  Stage(<<CreateLoop("cond_11", 8), Join(1), Join(2)>>, <<"cond_1">>, 0, 0, FALSE),
  Stage(<<Join(1), Join(2)>>, <<"cond_1", "cond_11">>, 0, 0, FALSE),
  Stage(<<Join(2)>>, <<"cond_1", "cond_11">>, 1, 0, FALSE)}

SemStages == {
  Stage(m_create_thread_sem, <<>>, 0, 0, FALSE),
  Stage(<<CreateLoop("sem_1", 3), CreateLoop("sem_11", 8), Join(1), Join(2), GetValue>>, <<>>, 0, 0, TRUE),
  Stage(<<CreateLoop("sem_11", 8), Join(1), Join(2), GetValue>>, <<"sem_1">>, 0, 0, TRUE),
  Stage(<<Join(1), Join(2), GetValue>>, <<"sem_1", "sem_11">>, 0, 0, TRUE),
  Stage(<<Join(2), GetValue>>, <<"sem_1", "sem_11">>, 1, 0, TRUE),
  Stage(<<GetValue>>, <<"sem_1", "sem_11">>, 2, 0, TRUE)}

Stages == PlainStages \cup MutexStages \cup CondStages \cup SemStages

AtStage(s) == Runs(s.left, s.fns, s.joined, s.due, s.on)

MainInv == AtMenu \/ \E s \in Stages : AtStage(s)

ThreadsInv == ThreadsTypeOK /\ HolderInv /\ (~undef => sval = 5 /\ MainInv)

-----------------------------------------------------------------------------
(* The steps of the threads.                                                *)

\* What a step of thread t does to the threads: it changes t alone, unless it wakes one
\* that is asleep, and every thread keeps its function, but for a detached one that ends.
KeepsFn(a, b) == b.fn = a.fn \/ (a.fn \notin Fore /\ b.fn \notin Fore)
TakesRecord(t, r) == r \in ThreadRec /\ ThreadOK(r) /\ thread' = [thread EXCEPT ![t] = r] /\ KeepsFn(thread[t], r)

LEMMA NoThreadOK == NoThread \in ThreadRec /\ ThreadOK(NoThread) /\ NoThread.fn = "none" /\ NoThread.at = "free"
BY DEF NoThread, ThreadRec, Fns, Fore, ThreadSpots, ThreadOK

LEMMA GoesBecomes ==
  ASSUME NEW t \in Tids, thread[t] \in ThreadRec, ThreadOK(thread[t]), NEW l \in ThreadSpots, Goes(t, l),
         \/ thread[t].fn = "mutex" /\ l \in {"locked", "counted"}
         \/ thread[t].fn = "cond_1" /\ l \in {"asleep", "awake"}
         \/ thread[t].fn = "cond_11" /\ l = "signalled"
  PROVE  TakesRecord(t, [thread[t] EXCEPT !.at = l])
<1> DEFINE r == [thread[t] EXCEPT !.at = l]
<1>1. /\ r \in ThreadRec /\ r.fn = thread[t].fn /\ r.at = l /\ r.i = thread[t].i /\ r.det = thread[t].det
  BY DEF ThreadRec, ThreadSpots
<1>2. thread' = [thread EXCEPT ![t] = r]
  BY DEF Goes
<1> HIDE DEF r
<1>3. ThreadOK(r)
  BY <1>1 DEF ThreadOK
<1> QED BY <1>1, <1>2, <1>3 DEF TakesRecord, KeepsFn, r

LEMMA EndsBecomes ==
  ASSUME NEW t \in Tids, thread[t] \in ThreadRec, ThreadOK(thread[t]), Ends(t), thread[t].det \/ thread[t].fn \in Fore
  PROVE  \E r \in ThreadRec :
           /\ TakesRecord(t, r)
           /\ thread[t].fn \in Fore => r.at = "ended" /\ r.fn = thread[t].fn /\ r.i = thread[t].i
           /\ thread[t].fn \notin Fore => r = NoThread
<1>1. CASE thread[t].det
  <2>1. thread[t].fn \notin Fore /\ NoThread.fn \notin Fore
    BY <1>1, NoThreadOK DEF ThreadOK, Fore
  <2>2. thread' = [thread EXCEPT ![t] = NoThread]
    BY <1>1 DEF Ends
  <2> QED BY <2>1, <2>2, NoThreadOK DEF TakesRecord, KeepsFn
<1>2. CASE ~thread[t].det /\ thread[t].fn \in Fore
  <2> DEFINE r == [thread[t] EXCEPT !.at = "ended"]
  <2>1. /\ r \in ThreadRec /\ r.fn = thread[t].fn /\ r.at = "ended" /\ r.i = thread[t].i /\ r.det = thread[t].det
    BY DEF ThreadRec, ThreadSpots
  <2>2. thread' = [thread EXCEPT ![t] = r]
    BY <1>2 DEF Ends
  <2> HIDE DEF r
  <2>3. ThreadOK(r)
    BY <1>2, <2>1 DEF ThreadOK, Fore
  <2> QED BY <1>2, <2>1, <2>2, <2>3 DEF TakesRecord, KeepsFn
<1> QED BY <1>1, <1>2

LEMMA LoopsBecomes ==
  ASSUME NEW t \in Tids, thread[t] \in ThreadRec, ThreadOK(thread[t]), Loops(t),
         thread[t].fn \in {"cond_1", "cond_11", "sem_1", "sem_11"}
  PROVE  \E r \in ThreadRec :
           /\ TakesRecord(t, r) /\ r.fn = thread[t].fn
           /\ thread[t].i = 1 => r.at = "ended" /\ r.i = 1
           /\ thread[t].i # 1 => r.at = "start" /\ r.i = thread[t].i - 1
<1>1. CASE thread[t].i = 1
  BY <1>1, EndsBecomes DEF Loops, Fore
<1>2. CASE thread[t].i # 1
  <2> DEFINE r == [thread[t] EXCEPT !.at = "start", !.i = thread[t].i - 1]
  <2>1. thread[t].i \in 1..8 /\ thread[t].i - 1 \in Nat
    BY <1>2 DEF ThreadOK
  <2>2. r \in ThreadRec /\ r.fn = thread[t].fn /\ r.at = "start" /\ r.i = thread[t].i - 1 /\ r.det = thread[t].det
    BY <2>1 DEF ThreadRec, ThreadSpots
  <2>3. thread' = [thread EXCEPT ![t] = r]
    BY <1>2 DEF Loops, ThreadRec
  <2> HIDE DEF r
  <2>4. ThreadOK(r)
    BY <1>2, <2>1, <2>2 DEF ThreadOK, Fore
  <2> QED BY <1>2, <2>2, <2>3, <2>4 DEF TakesRecord, KeepsFn
<1> QED BY <1>1, <1>2

\* What the threads' steps do, by what the counts of main depend on: the mutex, the
\* counter and the semaphore.
LEMMA PlainStep ==
  ASSUME ThreadsTypeOK, NEW t \in Tids, Plain(t) \/ SelfDetaching(t)
  PROVE  /\ UNCHANGED <<g_count, holder, sem>>
         /\ \E r \in ThreadRec : TakesRecord(t, r) /\ r.at \notin {"locked", "counted"}
         /\ thread[t].fn \notin {"mutex", "sem_1", "sem_11"}
<1> USE DEF ThreadsTypeOK
<1>1. thread[t] \in ThreadRec /\ ThreadOK(thread[t])
  OBVIOUS
<1>2. CASE Plain(t)
  <2>1. thread[t].fn \in {"run_1", "run_2", "run_3"} /\ (thread[t].det \/ thread[t].fn \in Fore)
    BY <1>1, <1>2 DEF Plain, ThreadOK, Fore
  <2>2. PICK r \in ThreadRec : /\ TakesRecord(t, r) /\ (thread[t].fn \in Fore => r.at = "ended")
                               /\ (thread[t].fn \notin Fore => r = NoThread)
    BY <1>1, <1>2, <2>1, EndsBecomes DEF Plain
  <2> QED BY <1>2, <2>1, <2>2, NoThreadOK DEF Plain
<1>3. CASE SelfDetaching(t)
  <2>1. CASE thread[t].at = "detached" /\ Ends(t)
    <3>1. thread[t].fn = "run_4" /\ thread[t].det
      BY <1>1, <1>3, <2>1 DEF SelfDetaching, ThreadOK
    <3>2. PICK r \in ThreadRec : /\ TakesRecord(t, r) /\ (thread[t].fn \notin Fore => r = NoThread)
      BY <1>1, <2>1, <3>1, EndsBecomes
    <3> QED BY <1>3, <3>1, <3>2, NoThreadOK DEF SelfDetaching, Fore
  <2>2. CASE thread[t].at = "start"
    <3> DEFINE r == [thread[t] EXCEPT !.at = "detached", !.det = TRUE]
    <3>1. thread[t].fn = "run_4" /\ thread' = [thread EXCEPT ![t] = r]
      BY <1>3, <2>2 DEF SelfDetaching
    <3>2. r \in ThreadRec /\ r.fn = "run_4" /\ r.at = "detached" /\ r.det
      BY <1>1, <3>1 DEF ThreadRec, ThreadSpots
    <3> HIDE DEF r
    <3>3. ThreadOK(r)
      BY <3>2 DEF ThreadOK, Fore
    <3> QED BY <1>3, <3>1, <3>2, <3>3 DEF SelfDetaching, TakesRecord, KeepsFn
  <2> QED BY <1>3, <2>1, <2>2 DEF SelfDetaching
<1> QED BY <1>2, <1>3

LEMMA CondStep ==
  ASSUME ThreadsTypeOK, NEW t \in Tids, CondWaiter(t) \/ SpuriousWakeup(t) \/ CondSignaller(t)
  PROVE  /\ UNCHANGED <<g_count, holder, sem>>
         /\ thread' \in [Tids -> ThreadRec]
         /\ \A u \in Tids :
              /\ ThreadOK(thread'[u])
              /\ thread'[u] = thread[u] \/ (thread[u].fn \in {"cond_1", "cond_11"} /\ thread'[u].fn = thread[u].fn)
<1> USE DEF ThreadsTypeOK
<1>1. thread[t] \in ThreadRec /\ ThreadOK(thread[t])
  OBVIOUS
<1>2. UNCHANGED <<g_count, holder, sem>> /\ thread[t].fn \in {"cond_1", "cond_11"}
  BY DEF CondWaiter, SpuriousWakeup, CondSignaller
<1>3. ASSUME NEW r \in ThreadRec, TakesRecord(t, r), r.fn = thread[t].fn
      PROVE  /\ thread' \in [Tids -> ThreadRec]
             /\ \A u \in Tids :
                  /\ ThreadOK(thread'[u])
                  /\ thread'[u] = thread[u] \/ (thread[u].fn \in {"cond_1", "cond_11"} /\ thread'[u].fn = thread[u].fn)
  BY <1>2, <1>3 DEF TakesRecord
<1>4. \A l \in ThreadSpots : [thread[t] EXCEPT !.at = l] \in ThreadRec /\ [thread[t] EXCEPT !.at = l].fn = thread[t].fn
  BY <1>1 DEF ThreadRec
<1>5. CASE CondWaiter(t) \/ SpuriousWakeup(t)
  <2>1. CASE Loops(t)
    BY <1>1, <1>2, <1>3, <2>1, LoopsBecomes
  <2>2. CASE Goes(t, "asleep") \/ Goes(t, "awake")
    <3>1. thread[t].fn = "cond_1" /\ "asleep" \in ThreadSpots /\ "awake" \in ThreadSpots
      BY <1>5 DEF CondWaiter, SpuriousWakeup, ThreadSpots
    <3>2. PICK l \in {"asleep", "awake"} : Goes(t, l)
      BY <2>2
    <3> DEFINE r == [thread[t] EXCEPT !.at = l]
    <3>3. TakesRecord(t, r)
      BY <1>1, <3>1, <3>2, GoesBecomes
    <3>4. r \in ThreadRec /\ r.fn = thread[t].fn
      BY <1>4, <3>1, <3>2
    <3> HIDE DEF r
    <3>5. \E q \in ThreadRec : TakesRecord(t, q) /\ q.fn = thread[t].fn
      BY <3>3, <3>4
    <3> QED BY <1>2, <1>3, <3>5
  <2> QED BY <1>5, <2>1, <2>2 DEF CondWaiter, SpuriousWakeup
<1>6. CASE CondSignaller(t)
  <2>1. CASE Loops(t)
    BY <1>1, <1>2, <1>3, <2>1, LoopsBecomes
  <2>2. CASE Goes(t, "signalled")
    <3>1. thread[t].fn = "cond_11" /\ "signalled" \in ThreadSpots
      BY <1>6 DEF CondSignaller, ThreadSpots
    <3> DEFINE r == [thread[t] EXCEPT !.at = "signalled"]
    <3>2. TakesRecord(t, r)
      BY <1>1, <2>2, <3>1, GoesBecomes
    <3>3. r \in ThreadRec /\ r.fn = thread[t].fn
      BY <1>4, <3>1
    <3> HIDE DEF r
    <3>4. \E q \in ThreadRec : TakesRecord(t, q) /\ q.fn = thread[t].fn
      BY <3>2, <3>3
    <3> QED BY <1>2, <1>3, <3>4
  <2>3. ASSUME NEW w \in Asleep, thread[t].at = "start",
               thread' = [thread EXCEPT ![w].at = "awake", ![t].at = "signalled"]
        PROVE  /\ thread' \in [Tids -> ThreadRec]
               /\ \A u \in Tids :
                    /\ ThreadOK(thread'[u])
                    /\ thread'[u] = thread[u] \/ (thread[u].fn \in {"cond_1", "cond_11"} /\ thread'[u].fn = thread[u].fn)
    <3>1. w \in Tids /\ thread[w].at = "asleep" /\ w # t /\ thread[w] \in ThreadRec /\ ThreadOK(thread[w])
      BY <2>3 DEF Asleep
    <3>2. thread[w].fn = "cond_1" /\ thread[t].fn = "cond_11"
      <4>1. thread[w].fn \in Fns
        BY <3>1 DEF ThreadRec
      <4> QED BY <1>6, <3>1, <4>1 DEF CondSignaller, ThreadOK, Fns, Fore
    <3> DEFINE p == [thread[w] EXCEPT !.at = "awake"]
               r == [thread[t] EXCEPT !.at = "signalled"]
    <3>3. /\ p \in ThreadRec /\ p.fn = "cond_1" /\ p.at = "awake" /\ p.i = thread[w].i /\ p.det = thread[w].det
          /\ r \in ThreadRec /\ r.fn = "cond_11" /\ r.at = "signalled" /\ r.i = thread[t].i /\ r.det = thread[t].det
      BY <1>1, <3>1, <3>2 DEF ThreadRec, ThreadSpots
    <3>4. thread' = [[thread EXCEPT ![w] = p] EXCEPT ![t] = r]
      BY <2>3, <3>1
    <3> HIDE DEF p, r
    <3>5. ThreadOK(p) /\ ThreadOK(r)
      BY <1>1, <3>1, <3>2, <3>3 DEF ThreadOK, Fore
    <3> QED BY <3>1, <3>2, <3>3, <3>4, <3>5
  <2> QED BY <1>6, <2>1, <2>2, <2>3 DEF CondSignaller
<1> QED BY <1>2, <1>5, <1>6

-----------------------------------------------------------------------------
(* What the steps of the threads leave of the counts of main.               *)

Counts(u) == thread[u].at \in {"start", "locked"}
SemFns(fns) == \A k \in 1..Len(fns) : fns[k] = IF k = 1 THEN "sem_1" ELSE "sem_11"

LEMMA ShapeKept ==
  ASSUME ThreadsTypeOK, NEW left, NEW fns \in Seq(Fore), NEW n \in 0..2, Shape(left, fns, n),
         UNCHANGED <<todo, pids>>, \A u \in Tids : KeepsFn(thread[u], thread'[u])
  PROVE  Shape(left, fns, n)'
<1>1. \A k \in 1..Len(fns) : pids[k] \in Tids \cup {NoTid} /\ fns[k] \in Fore
  <2>1. Len(pids) = Len(fns) /\ pids \in Seq(Tids \cup {NoTid})
    BY DEF Shape, ThreadsTypeOK
  <2> QED BY <2>1, ElementOfSeq
<1>2. \A k \in 1..Len(fns) : k > n /\ pids[k] # NoTid => thread'[pids[k]].fn = fns[k]
  BY <1>1 DEF Shape, KeepsFn
<1>3. Foreground' \subseteq Foreground
  BY DEF Foreground, KeepsFn
<1> QED BY <1>2, <1>3 DEF Shape

LEMMA BalanceKept ==
  ASSUME ThreadsTypeOK, NEW left, NEW fns \in Seq(Fore), NEW n \in 0..2, NEW due, Shape(left, fns, n),
         Balance(fns, n, due), UNCHANGED <<pids, g_count, runs>>,
         \A u \in Tids : thread[u].fn = "mutex" => (Counts(u)' <=> Counts(u))
  PROVE  Balance(fns, n, due)'
<1>1. ASSUME NEW k \in {1, 2} PROVE Uncounted(k, fns, n)' = Uncounted(k, fns, n)
  <2>1. CASE k > n /\ k <= Len(fns) /\ fns[k] = "mutex" /\ pids[k] # NoTid
    <3>1. k \in 1..Len(fns) /\ Len(pids) = Len(fns)
      BY <2>1, LenProperties DEF Shape
    <3>2. pids[k] \in Tids
      BY <2>1, <3>1, ElementOfSeq DEF ThreadsTypeOK
    <3>3. thread[pids[k]].fn = "mutex"
      BY <2>1, <3>1 DEF Shape
    <3> QED BY <2>1, <3>2, <3>3 DEF Uncounted, Counts
  <2>2. CASE ~(k > n /\ k <= Len(fns) /\ fns[k] = "mutex" /\ pids[k] # NoTid)
    BY <2>2 DEF Uncounted
  <2> QED BY <2>1, <2>2
<1> QED BY <1>1 DEF Balance

LEMMA BalanceCounts ==
  ASSUME ThreadsTypeOK, NEW left, NEW fns \in Seq(Fore), NEW n \in 0..2, NEW due \in Nat, Shape(left, fns, n),
         Len(fns) <= 2, Balance(fns, n, due), UNCHANGED <<pids, runs>>, g_count' = g_count + 1,
         NEW t \in Tids, thread[t].fn = "mutex", Counts(t), ~Counts(t)',
         \A u \in Tids \ {t} : thread'[u] = thread[u]
  PROVE  Balance(fns, n, due)'
<1>1. PICK k \in 1..Len(fns) : k > n /\ pids[k] = t
  BY DEF Shape, Foreground, Fore
<1>2. k \in {1, 2} /\ t # NoTid /\ fns[k] = "mutex" /\ Len(fns) \in Nat /\ Len(pids) = Len(fns)
  BY <1>1, ThreadsAssumption, LenProperties DEF Shape
<1>3. Uncounted(k, fns, n) = 1 /\ Uncounted(k, fns, n)' = 0
  BY <1>1, <1>2 DEF Uncounted, Counts
<1>4. ASSUME NEW j \in {1, 2}, j # k PROVE Uncounted(j, fns, n)' = Uncounted(j, fns, n)
  <2>1. CASE j > n /\ j <= Len(fns) /\ fns[j] = "mutex" /\ pids[j] # NoTid
    <3>1. j \in 1..Len(fns)
      BY <2>1, <1>2
    <3>2. pids[j] \in Tids /\ pids[j] # t
      BY <1>1, <1>2, <1>4, <2>1, <3>1, ElementOfSeq DEF ThreadsTypeOK, Shape
    <3> QED BY <2>1, <3>2 DEF Uncounted
  <2>2. CASE ~(j > n /\ j <= Len(fns) /\ fns[j] = "mutex" /\ pids[j] # NoTid)
    BY <2>2 DEF Uncounted
  <2> QED BY <2>1, <2>2
<1>5. \A j \in {1, 2} : Uncounted(j, fns, n) \in {0, 1}
  BY DEF Uncounted
<1>6. Uncounted(1, fns, n)' + Uncounted(2, fns, n)' = Uncounted(1, fns, n) + Uncounted(2, fns, n) - 1
  BY <1>2, <1>3, <1>4, <1>5
<1>7. g_count \in Nat /\ runs \in Nat /\ Uncounted(1, fns, n) \in Int /\ Uncounted(2, fns, n) \in Int
  BY <1>5 DEF ThreadsTypeOK
<1>8. /\ g_count + due + Uncounted(1, fns, n) + Uncounted(2, fns, n) = 2 * runs
      /\ Uncounted(1, fns, n)' \in Int /\ Uncounted(2, fns, n)' \in Int
  BY <1>2, <1>3, <1>4, <1>7 DEF Balance
<1>9. g_count' + due + Uncounted(1, fns, n)' + Uncounted(2, fns, n)' = 2 * runs
  BY <1>6, <1>7, <1>8
<1> QED BY <1>9 DEF Balance

LEMMA SemKept ==
  ASSUME ThreadsTypeOK, NEW left, NEW fns \in Seq(Fore), NEW n \in 0..2, Shape(left, fns, n),
         SemFns(fns), SemBalance(n), UNCHANGED <<pids, sem>>,
         \A u \in Tids : thread[u].fn \in {"sem_1", "sem_11"} => thread'[u] = thread[u]
  PROVE  SemBalance(n)'
<1>1. ASSUME NEW k \in {1, 2}, k > n, Len(pids) >= k, pids[k] # NoTid PROVE thread'[pids[k]] = thread[pids[k]]
  <2>1. k \in 1..Len(fns) /\ Len(pids) = Len(fns)
    BY <1>1, LenProperties DEF Shape
  <2>2. pids[k] \in Tids
    BY <1>1, <2>1, ElementOfSeq DEF ThreadsTypeOK
  <2>3. thread[pids[k]].fn \in {"sem_1", "sem_11"}
    BY <1>1, <2>1 DEF Shape, SemFns
  <2> QED BY <2>2, <2>3
<1>2. Len(pids) \in Nat
  BY LenProperties DEF ThreadsTypeOK
<1>3. Waits(n)' = Waits(n)
  BY <1>1, <1>2 DEF Waits, Done
<1>4. Posts(n)' = Posts(n)
  BY <1>1, <1>2 DEF Posts, Done
<1> QED BY <1>3, <1>4 DEF SemBalance

\* A wait takes one from the semaphore, a post adds one; and the thread has one less to do.
LEMMA SemMoves ==
  ASSUME ThreadsTypeOK, NEW left, NEW fns \in Seq(Fore), NEW n \in 0..2, Shape(left, fns, n), Len(fns) <= 2,
         SemFns(fns), SemBalance(n), UNCHANGED pids,
         NEW t \in Tids, thread[t].fn \in {"sem_1", "sem_11"}, thread[t].at = "start",
         sem' = IF thread[t].fn = "sem_1" THEN sem - 1 ELSE sem + 1,
         thread[t].i = 1 => thread'[t].at = "ended",
         thread[t].i # 1 => thread'[t].at = "start" /\ thread'[t].i = thread[t].i - 1,
         \A u \in Tids \ {t} : thread'[u] = thread[u]
  PROVE  SemBalance(n)'
<1>0. thread[t].i \in 1..8 /\ sem \in Nat
  BY DEF ThreadsTypeOK, ThreadOK
<1>1. PICK k \in 1..Len(fns) : k > n /\ pids[k] = t
  BY DEF Shape, Foreground, Fore
<1>2. k \in {1, 2} /\ t # NoTid /\ fns[k] = thread[t].fn /\ Len(fns) \in Nat /\ Len(pids) = Len(fns)
  BY <1>1, ThreadsAssumption, LenProperties DEF Shape
<1>3. k = 1 <=> thread[t].fn = "sem_1"
  BY <1>2 DEF SemFns
<1>4. \A m \in Nat : Done(t, m)' = Done(t, m) + 1 /\ Done(t, m) \in Int
  <2> SUFFICES ASSUME NEW m \in Nat PROVE Done(t, m)' = Done(t, m) + 1 /\ Done(t, m) \in Int
    OBVIOUS
  <2>1. Done(t, m) = m - thread[t].i
    BY DEF Done
  <2>2. CASE thread[t].i = 1
    <3>1. Done(t, m)' = m
      BY <2>2 DEF Done
    <3> QED BY <2>1, <2>2, <3>1
  <2>3. CASE thread[t].i # 1
    <3>1. Done(t, m)' = m - (thread[t].i - 1)
      BY <2>3 DEF Done
    <3>2. thread[t].i \in Int /\ m \in Int
      BY <1>0
    <3> HIDE DEF Done
    <3> QED BY ONLY <2>1, <3>1, <3>2
  <2> QED BY <2>2, <2>3
<1>5. ASSUME NEW j \in {1, 2}, j # k, j > n, j <= Len(pids), pids[j] # NoTid
      PROVE  \A m \in Nat : Done(pids[j], m)' = Done(pids[j], m) /\ Done(pids[j], m) \in Int
  <2>1. j \in 1..Len(fns)
    BY <1>2, <1>5
  <2>2. pids[j] \in Tids /\ pids[j] # t
    BY <1>1, <1>2, <1>5, <2>1, ElementOfSeq DEF ThreadsTypeOK, Shape
  <2>3. thread[pids[j]].i \in Nat
    BY <2>2 DEF ThreadsTypeOK, ThreadRec
  <2> QED BY <2>2, <2>3 DEF Done
<1>6. CASE k = 1
  <2>1. n = 0 /\ thread[t].fn = "sem_1" /\ pids[1] = t /\ Len(pids) >= 1
    BY <1>1, <1>2, <1>3, <1>6
  <2>2. Waits(0)' = Waits(0) + 1 /\ Waits(0) \in Int
    <3>1. Waits(0) = Done(t, 3) /\ Waits(0)' = Done(t, 3)'
      BY <1>2, <2>1 DEF Waits
    <3>2. Done(t, 3)' = Done(t, 3) + 1 /\ Done(t, 3) \in Int
      BY <1>4
    <3> QED BY <3>1, <3>2
  <2>3. Posts(0)' = Posts(0) /\ Posts(0) \in Int
    BY <1>2, <1>5, <1>6, <2>1 DEF Posts
  <2> QED BY <1>0, <2>1, <2>2, <2>3 DEF SemBalance
<1>7. CASE k = 2
  <2>1. n \in {0, 1} /\ thread[t].fn = "sem_11" /\ pids[2] = t /\ Len(pids) = 2
    BY <1>1, <1>2, <1>3, <1>7
  <2>2. Posts(n)' = Posts(n) + 1 /\ Posts(n) \in Int
    BY <1>2, <1>4, <2>1 DEF Posts
  <2>3. Waits(n)' = Waits(n) /\ Waits(n) \in Int
    BY <1>2, <1>5, <1>7, <2>1 DEF Waits
  <2> QED BY <1>0, <2>1, <2>2, <2>3 DEF SemBalance
<1> QED BY <1>2, <1>6, <1>7

-----------------------------------------------------------------------------
(* A step of a thread keeps the invariant.                                  *)

LEMMA StageTypes ==
  ASSUME NEW s \in Stages
  PROVE  /\ s.fns \in Seq(Fore) /\ Len(s.fns) <= 2 /\ s.joined \in 0..2 /\ s.due \in Nat
         /\ s.on => SemFns(s.fns)
<1>1. CASE s \in PlainStages
  <2>1. s.fns \in {<<>>, <<"run_1">>, <<"run_2">>} /\ s.joined = 0 /\ s.due = 0 /\ ~s.on
    BY <1>1 DEF PlainStages, Stage
  <2>2. /\ <<>> \in Seq(Fore) /\ <<"run_1">> \in Seq(Fore) /\ <<"run_2">> \in Seq(Fore)
        /\ Len(<<>>) = 0 /\ Len(<<"run_1">>) = 1 /\ Len(<<"run_2">>) = 1
    BY DEF Fore
  <2>3. s.fns \in Seq(Fore) /\ Len(s.fns) <= 2
    <3>1. s.fns \in Seq(Fore)
      BY <2>1, <2>2, Zenon
    <3>2. Len(s.fns) = 0 \/ Len(s.fns) = 1 \/ Len(s.fns) = 2
      BY <2>1, <2>2, Zenon
    <3>3. ASSUME NEW l, l = 0 \/ l = 1 \/ l = 2 PROVE l <= 2
      BY <3>3
    <3>4. Len(s.fns) <= 2
      BY <3>2, <3>3, Zenon
    <3> QED BY <3>1, <3>4, Zenon
  <2> QED BY <2>1, <2>3
<1>2. CASE s \in MutexStages
  <2>1. s.fns \in {<<>>, <<"mutex">>, <<"mutex", "mutex">>} /\ s.joined \in {0, 1} /\ s.due \in {0, 1, 2} /\ ~s.on
    BY <1>2 DEF MutexStages, Stage
  <2>2. /\ <<>> \in Seq(Fore) /\ <<"mutex">> \in Seq(Fore) /\ <<"mutex", "mutex">> \in Seq(Fore)
        /\ Len(<<>>) = 0 /\ Len(<<"mutex">>) = 1 /\ Len(<<"mutex", "mutex">>) = 2
    BY DEF Fore
  <2>3. s.fns \in Seq(Fore) /\ Len(s.fns) <= 2
    <3>1. s.fns \in Seq(Fore)
      BY <2>1, <2>2, Zenon
    <3>2. Len(s.fns) = 0 \/ Len(s.fns) = 1 \/ Len(s.fns) = 2
      BY <2>1, <2>2, Zenon
    <3>3. ASSUME NEW l, l = 0 \/ l = 1 \/ l = 2 PROVE l <= 2
      BY <3>3
    <3>4. Len(s.fns) <= 2
      BY <3>2, <3>3, Zenon
    <3> QED BY <3>1, <3>4, Zenon
  <2> QED BY <2>1, <2>3
<1>3. CASE s \in CondStages
  <2>1. s.fns \in {<<>>, <<"cond_1">>, <<"cond_1", "cond_11">>} /\ s.joined \in {0, 1} /\ s.due = 0 /\ ~s.on
    BY <1>3 DEF CondStages, Stage
  <2>2. /\ <<>> \in Seq(Fore) /\ <<"cond_1">> \in Seq(Fore) /\ <<"cond_1", "cond_11">> \in Seq(Fore)
        /\ Len(<<>>) = 0 /\ Len(<<"cond_1">>) = 1 /\ Len(<<"cond_1", "cond_11">>) = 2
    BY DEF Fore
  <2>3. s.fns \in Seq(Fore) /\ Len(s.fns) <= 2
    <3>1. s.fns \in Seq(Fore)
      BY <2>1, <2>2, Zenon
    <3>2. Len(s.fns) = 0 \/ Len(s.fns) = 1 \/ Len(s.fns) = 2
      BY <2>1, <2>2, Zenon
    <3>3. ASSUME NEW l, l = 0 \/ l = 1 \/ l = 2 PROVE l <= 2
      BY <3>3
    <3>4. Len(s.fns) <= 2
      BY <3>2, <3>3, Zenon
    <3> QED BY <3>1, <3>4, Zenon
  <2> QED BY <2>1, <2>3
<1>4. CASE s \in SemStages
  <2>1. s.fns \in {<<>>, <<"sem_1">>, <<"sem_1", "sem_11">>} /\ s.joined \in {0, 1, 2} /\ s.due = 0
    BY <1>4 DEF SemStages, Stage
  <2>2. /\ <<>> \in Seq(Fore) /\ <<"sem_1">> \in Seq(Fore) /\ <<"sem_1", "sem_11">> \in Seq(Fore)
        /\ Len(<<>>) = 0 /\ Len(<<"sem_1">>) = 1 /\ Len(<<"sem_1", "sem_11">>) = 2
    BY DEF Fore
  <2>3. SemFns(<<>>) /\ SemFns(<<"sem_1">>) /\ SemFns(<<"sem_1", "sem_11">>)
    BY DEF SemFns
  <2>4. s.fns \in Seq(Fore) /\ Len(s.fns) <= 2
    <3>1. s.fns \in Seq(Fore)
      BY <2>1, <2>2, Zenon
    <3>2. Len(s.fns) = 0 \/ Len(s.fns) = 1 \/ Len(s.fns) = 2
      BY <2>1, <2>2, Zenon
    <3>3. ASSUME NEW l, l = 0 \/ l = 1 \/ l = 2 PROVE l <= 2
      BY <3>3
    <3>4. Len(s.fns) <= 2
      BY <3>2, <3>3, Zenon
    <3> QED BY <3>1, <3>4, Zenon
  <2>5. SemFns(s.fns)
    BY <2>1, <2>3, Zenon
  <2> QED BY <2>1, <2>4, <2>5
<1> QED BY <1>1, <1>2, <1>3, <1>4 DEF Stages

\* A step that leaves the counter, the semaphore and their threads alone, a step that
\* counts, and one that waits for or posts the semaphore.
LEMMA MainQuiet ==
  ASSUME ThreadsTypeOK, MainInv, UNCHANGED <<todo, pids, runs, g_count, sem>>,
         \A u \in Tids : KeepsFn(thread[u], thread'[u]),
         \A u \in Tids : thread[u].fn = "mutex" => (Counts(u)' <=> Counts(u)),
         \A u \in Tids : thread[u].fn \in {"sem_1", "sem_11"} => thread'[u] = thread[u]
  PROVE  MainInv'
<1>1. CASE AtMenu
  BY <1>1 DEF MainInv, AtMenu, Foreground, KeepsFn
<1>2. ASSUME NEW s \in Stages, AtStage(s) PROVE AtStage(s)'
  <2> DEFINE left == s.left
             fns == s.fns
             n == s.joined
             due == s.due
             on == s.on
  <2>1. fns \in Seq(Fore) /\ n \in 0..2 /\ (on => SemFns(fns))
    BY StageTypes
  <2>2. Shape(left, fns, n) /\ Balance(fns, n, due) /\ (on => SemBalance(n))
    BY <1>2 DEF AtStage, Runs
  <2> HIDE DEF left, fns, n, due, on
  <2>3. Shape(left, fns, n)'
    BY <2>1, <2>2, ShapeKept
  <2>4. Balance(fns, n, due)'
    BY <2>1, <2>2, BalanceKept
  <2>5. on => SemBalance(n)'
    BY <2>1, <2>2, SemKept
  <2> QED BY <2>3, <2>4, <2>5 DEF AtStage, Runs, left, fns, n, due, on
<1> QED BY <1>1, <1>2 DEF MainInv

LEMMA MainCounts ==
  ASSUME ThreadsTypeOK, MainInv, UNCHANGED <<todo, pids, runs, sem>>, g_count' = g_count + 1,
         NEW t \in Tids, thread[t].fn = "mutex", Counts(t), ~Counts(t)', thread'[t].fn = "mutex",
         \A u \in Tids \ {t} : thread'[u] = thread[u]
  PROVE  MainInv'
<1>1. ~AtMenu
  BY DEF AtMenu, Foreground, Fore
<1>2. ASSUME NEW s \in Stages, AtStage(s) PROVE AtStage(s)'
  <2> DEFINE left == s.left
             fns == s.fns
             n == s.joined
             due == s.due
             on == s.on
  <2>1. fns \in Seq(Fore) /\ n \in 0..2 /\ due \in Nat /\ Len(fns) <= 2 /\ (on => SemFns(fns))
    BY StageTypes
  <2>2. Shape(left, fns, n) /\ Balance(fns, n, due) /\ (on => SemBalance(n))
    BY <1>2 DEF AtStage, Runs
  <2> HIDE DEF left, fns, n, due, on
  <2>3. \A u \in Tids : KeepsFn(thread[u], thread'[u])
    BY DEF KeepsFn
  <2>4. Shape(left, fns, n)'
    BY <2>1, <2>2, <2>3, ShapeKept
  <2>5. Balance(fns, n, due)'
    BY <2>1, <2>2, BalanceCounts
  <2>6. on => SemBalance(n)'
    BY <2>1, <2>2, SemKept
  <2> QED BY <2>4, <2>5, <2>6 DEF AtStage, Runs, left, fns, n, due, on
<1> QED BY <1>1, <1>2 DEF MainInv

LEMMA MainSem ==
  ASSUME ThreadsTypeOK, MainInv, UNCHANGED <<todo, pids, runs, g_count>>,
         NEW t \in Tids, thread[t].fn \in {"sem_1", "sem_11"}, thread[t].at = "start",
         sem' = IF thread[t].fn = "sem_1" THEN sem - 1 ELSE sem + 1,
         thread'[t].fn = thread[t].fn,
         thread[t].i = 1 => thread'[t].at = "ended",
         thread[t].i # 1 => thread'[t].at = "start" /\ thread'[t].i = thread[t].i - 1,
         \A u \in Tids \ {t} : thread'[u] = thread[u]
  PROVE  MainInv'
<1>1. ~AtMenu
  BY DEF AtMenu, Foreground, Fore
<1>2. ASSUME NEW s \in Stages, AtStage(s) PROVE AtStage(s)'
  <2> DEFINE left == s.left
             fns == s.fns
             n == s.joined
             due == s.due
             on == s.on
  <2>1. fns \in Seq(Fore) /\ n \in 0..2 /\ due \in Nat /\ Len(fns) <= 2 /\ (on => SemFns(fns))
    BY StageTypes
  <2>2. Shape(left, fns, n) /\ Balance(fns, n, due) /\ (on => SemBalance(n))
    BY <1>2 DEF AtStage, Runs
  <2> HIDE DEF left, fns, n, due, on
  <2>3. \A u \in Tids : KeepsFn(thread[u], thread'[u])
    BY DEF KeepsFn
  <2>4. \A u \in Tids : thread[u].fn = "mutex" => (Counts(u)' <=> Counts(u))
    BY DEF Counts
  <2>5. Shape(left, fns, n)'
    BY <2>1, <2>2, <2>3, ShapeKept
  <2>6. Balance(fns, n, due)'
    BY <2>1, <2>2, <2>4, BalanceKept
  <2>7. on => SemBalance(n)'
    BY <2>1, <2>2, SemMoves
  <2> QED BY <2>5, <2>6, <2>7 DEF AtStage, Runs, left, fns, n, due, on
<1> QED BY <1>1, <1>2 DEF MainInv

\* The mutex: who has it is in its section, and i keeps what the counter was.
LEMMA CountingStep ==
  ASSUME ThreadsTypeOK, HolderInv, NEW t \in Tids, Counting(t)
  PROVE  /\ thread' \in [Tids -> ThreadRec] /\ \A u \in Tids : ThreadOK(thread'[u])
         /\ thread[t].fn = "mutex" /\ thread'[t].fn = "mutex" /\ UNCHANGED sem
         /\ holder' \in Tids \cup {NoTid} /\ g_count' \in Nat /\ HolderInv'
         /\ \A u \in Tids \ {t} : thread'[u] = thread[u]
         /\ \/ UNCHANGED g_count /\ (Counts(t)' <=> Counts(t))
            \/ g_count' = g_count + 1 /\ Counts(t) /\ ~Counts(t)'
<1> USE DEF ThreadsTypeOK
<1>1. thread[t] \in ThreadRec /\ ThreadOK(thread[t]) /\ thread[t].fn = "mutex" /\ UNCHANGED sem
  BY DEF Counting
<1>2. CASE thread[t].at = "start" /\ holder = NoTid
  <2> DEFINE r == [thread[t] EXCEPT !.at = "locked", !.i = g_count]
  <2>1. thread' = [thread EXCEPT ![t] = r] /\ holder' = t /\ g_count' = g_count
    BY <1>2 DEF Counting
  <2>2. r \in ThreadRec /\ r.fn = "mutex" /\ r.at = "locked" /\ r.i = g_count /\ r.det = thread[t].det
    BY <1>1 DEF ThreadRec, ThreadSpots
  <2> HIDE DEF r
  <2>3. ThreadOK(r)
    BY <1>1, <2>2 DEF ThreadOK, Fore
  <2>4. HolderInv'
    <3>1. \A u \in Tids : thread[u].at \notin {"locked", "counted"}
      BY <1>2, ThreadsAssumption DEF HolderInv
    <3> QED BY <2>1, <2>2, <3>1 DEF HolderInv
  <2> QED BY <1>1, <1>2, <2>1, <2>2, <2>3, <2>4 DEF Counts
<1>3. CASE thread[t].at = "locked"
  <2> DEFINE r == [thread[t] EXCEPT !.at = "counted"]
  <2>1. /\ thread' = [thread EXCEPT ![t] = r] /\ UNCHANGED holder /\ g_count' = thread[t].i + 1
        /\ holder = t /\ thread[t].i = g_count
    BY <1>3 DEF Counting, Goes, HolderInv
  <2>2. r \in ThreadRec /\ r.fn = "mutex" /\ r.at = "counted" /\ r.i = thread[t].i /\ r.det = thread[t].det
    BY <1>1 DEF ThreadRec, ThreadSpots
  <2> HIDE DEF r
  <2>3. ThreadOK(r)
    BY <1>1, <2>2 DEF ThreadOK, Fore
  <2>4. HolderInv'
    <3>1. \A u \in Tids \ {t} : thread[u].at \notin {"locked", "counted"}
      BY <2>1 DEF HolderInv
    <3> QED BY <2>1, <2>2, <3>1 DEF HolderInv
  <2> QED BY <1>1, <1>3, <2>1, <2>2, <2>3, <2>4 DEF Counts
<1>4. CASE thread[t].at = "counted"
  <2>1. Ends(t) /\ holder' = NoTid /\ g_count' = g_count /\ holder = t
    BY <1>4 DEF Counting, HolderInv
  <2>2. PICK r \in ThreadRec : TakesRecord(t, r) /\ r.at = "ended" /\ r.fn = "mutex"
    BY <1>1, <2>1, EndsBecomes DEF Fore
  <2>3. HolderInv'
    <3>1. \A u \in Tids \ {t} : thread[u].at \notin {"locked", "counted"}
      BY <2>1 DEF HolderInv
    <3> QED BY <2>1, <2>2, <3>1, ThreadsAssumption DEF HolderInv, TakesRecord
  <2> QED BY <1>1, <1>4, <2>1, <2>2, <2>3 DEF Counts, TakesRecord
<1> QED BY <1>2, <1>3, <1>4 DEF Counting

LEMMA ThreadKeepsMain ==
  ASSUME ThreadsInv, NEW t \in Tids, Thread(t) \/ SpuriousWakeup(t),
         UNCHANGED <<todo, pids, sval, cancelled, runs, failed, undef>>
  PROVE  ThreadsInv'
<1> USE DEF ThreadsInv
<1>1. thread[t] \in ThreadRec /\ ThreadOK(thread[t]) /\ thread \in [Tids -> ThreadRec]
  BY DEF ThreadsTypeOK
<1>2. CASE Plain(t) \/ SelfDetaching(t)
  <2>1. UNCHANGED <<g_count, holder, sem>> /\ thread[t].fn \notin {"mutex", "sem_1", "sem_11"}
    BY <1>2, PlainStep
  <2>2. PICK r \in ThreadRec : TakesRecord(t, r) /\ r.at \notin {"locked", "counted"}
    BY <1>2, PlainStep
  <2>3. ThreadsTypeOK'
    BY <2>1, <2>2 DEF TakesRecord, ThreadsTypeOK
  <2>4. \A u \in Tids : KeepsFn(thread[u], thread'[u]) /\ (u # t => thread'[u] = thread[u])
    BY <1>1, <2>2 DEF TakesRecord, KeepsFn
  <2>5. thread[t].at \notin {"locked", "counted"}
    BY <1>2 DEF Plain, SelfDetaching
  <2>6. HolderInv'
    BY <1>1, <2>1, <2>2, <2>5 DEF HolderInv, TakesRecord
  <2>7. ~undef => MainInv'
    <3>1. \A u \in Tids : thread[u].fn = "mutex" => (Counts(u)' <=> Counts(u))
      BY <2>1, <2>4 DEF Counts
    <3>2. \A u \in Tids : thread[u].fn \in {"sem_1", "sem_11"} => thread'[u] = thread[u]
      BY <2>1, <2>4
    <3> QED BY <2>1, <2>4, <3>1, <3>2, MainQuiet
  <2> QED BY <2>3, <2>6, <2>7
<1>3. CASE CondWaiter(t) \/ SpuriousWakeup(t) \/ CondSignaller(t)
  <2>1. /\ UNCHANGED <<g_count, holder, sem>> /\ thread' \in [Tids -> ThreadRec]
        /\ \A u \in Tids :
             /\ ThreadOK(thread'[u])
             /\ thread'[u] = thread[u] \/ (thread[u].fn \in {"cond_1", "cond_11"} /\ thread'[u].fn = thread[u].fn)
    BY <1>3, CondStep
  <2>2. ThreadsTypeOK'
    BY <2>1 DEF ThreadsTypeOK
  <2>3. \A u \in Tids : KeepsFn(thread[u], thread'[u])
    BY <2>1 DEF KeepsFn
  <2>4. \A u \in Tids : thread'[u] # thread[u] =>
          thread[u].at \notin {"locked", "counted"} /\ thread'[u].at \notin {"locked", "counted"}
    BY <2>1 DEF ThreadOK, ThreadsTypeOK
  <2>5. HolderInv'
    BY <2>1, <2>4 DEF HolderInv
  <2>6. ~undef => MainInv'
    BY <2>1, <2>3, MainQuiet DEF Counts
  <2> QED BY <2>2, <2>5, <2>6
<1>4. CASE Counting(t)
  <2>1. /\ thread' \in [Tids -> ThreadRec] /\ \A u \in Tids : ThreadOK(thread'[u])
        /\ thread[t].fn = "mutex" /\ thread'[t].fn = "mutex" /\ UNCHANGED sem
        /\ holder' \in Tids \cup {NoTid} /\ g_count' \in Nat /\ HolderInv'
        /\ \A u \in Tids \ {t} : thread'[u] = thread[u]
        /\ \/ UNCHANGED g_count /\ (Counts(t)' <=> Counts(t))
           \/ g_count' = g_count + 1 /\ Counts(t) /\ ~Counts(t)'
    BY <1>4, CountingStep
  <2>2. ThreadsTypeOK'
    BY <2>1 DEF ThreadsTypeOK
  <2>3. ~undef => MainInv'
    <3>1. CASE UNCHANGED g_count /\ (Counts(t)' <=> Counts(t))
      BY <1>4, <2>1, <3>1, MainQuiet DEF Counts, KeepsFn
    <3>2. CASE g_count' = g_count + 1 /\ Counts(t) /\ ~Counts(t)'
      BY <1>4, <2>1, <3>2, MainCounts
    <3> QED BY <2>1, <3>1, <3>2
  <2> QED BY <1>4, <2>1, <2>2, <2>3
<1>5. CASE SemWaiter(t) \/ SemPoster(t)
  <2>1. /\ thread[t].fn \in {"sem_1", "sem_11"} /\ thread[t].at = "start" /\ Loops(t)
        /\ sem' = (IF thread[t].fn = "sem_1" THEN sem - 1 ELSE sem + 1) /\ sem' \in Nat
        /\ UNCHANGED <<g_count, holder>>
    BY <1>5 DEF SemWaiter, SemPoster, ThreadsTypeOK
  <2>2. PICK r \in ThreadRec :
          /\ TakesRecord(t, r) /\ r.fn = thread[t].fn
          /\ thread[t].i = 1 => r.at = "ended" /\ r.i = 1
          /\ thread[t].i # 1 => r.at = "start" /\ r.i = thread[t].i - 1
    BY <1>1, <2>1, LoopsBecomes
  <2>3. thread'[t] = r /\ ThreadOK(r) /\ thread' \in [Tids -> ThreadRec] /\ \A u \in Tids \ {t} : thread'[u] = thread[u]
    BY <1>1, <2>2 DEF TakesRecord
  <2>4. ThreadsTypeOK'
    BY <2>1, <2>3 DEF ThreadsTypeOK
  <2>5. HolderInv'
    BY <2>1, <2>2, <2>3 DEF HolderInv
  <2>6. ~undef => MainInv'
    BY <2>1, <2>2, <2>3, MainSem
  <2> QED BY <2>4, <2>5, <2>6
<1> QED BY <1>2, <1>3, <1>4, <1>5 DEF Thread

-----------------------------------------------------------------------------
(* The steps of main.                                                       *)

\* pthread_create of a thread that main will join.
CreateFrom(left, fns, due, on) ==
  /\ fns \in Seq(Fore) /\ due \in Nat /\ on \in BOOLEAN
  /\ Runs(left, fns, 0, due, on) /\ Len(fns) \in {0, 1}

CreateTo(c, fns, due, on, gns, d) ==
  /\ c.fn \in Fore /\ ThreadOK([fn |-> c.fn, at |-> "start", i |-> c.i, det |-> c.det])
  /\ [fn |-> c.fn, at |-> "start", i |-> c.i, det |-> c.det] \in ThreadRec
  /\ gns \in Seq(Fore) /\ Len(gns) = Len(fns) + 1
  /\ \A k \in 1..Len(fns) : gns[k] = fns[k]
  /\ gns[Len(gns)] = c.fn
  /\ d \in Nat /\ due = d + (IF c.fn = "mutex" THEN 1 ELSE 0)
  /\ on => c.i = IF Len(fns) = 0 THEN 3 ELSE 8

LEMMA CreateStep ==
  ASSUME ThreadsTypeOK, HolderInv, NEW left, NEW fns, NEW due, NEW on, CreateFrom(left, fns, due, on),
         NEW c, c = Head(left), todo' = Tail(todo), DoCreate(c), UNCHANGED runs,
         NEW gns, NEW d, CreateTo(c, fns, due, on, gns, d)
  PROVE  /\ ThreadsTypeOK' /\ HolderInv' /\ UNCHANGED <<sval, undef>>
         /\ Runs(Tail(left), gns, 0, d, on)'
<1> USE DEF CreateFrom, CreateTo
<1> DEFINE r == [fn |-> c.fn, at |-> "start", i |-> c.i, det |-> c.det]
           z == Len(fns) + 1
<1>1. r \in ThreadRec /\ ThreadOK(r) /\ r.fn = c.fn /\ r.at = "start" /\ r.i = c.i
  OBVIOUS
<1>2. UNCHANGED <<g_count, holder, sem, sval, cancelled, undef>>
  BY DEF DoCreate
<1>3. /\ Shape(left, fns, 0) /\ Balance(fns, 0, due) /\ (on => SemBalance(0))
      /\ Len(fns) \in Nat /\ Len(pids) = Len(fns) /\ pids \in Seq(Tids \cup {NoTid}) /\ todo = left
  BY LenProperties DEF Runs, Shape, ThreadsTypeOK
<1>4. PICK t \in Tids \cup {NoTid} :
        /\ pids' = Append(pids, t)
        /\ t = NoTid => thread' = thread
        /\ t # NoTid => t \in FreeTids /\ thread' = [thread EXCEPT ![t] = r]
  BY ThreadsAssumption DEF DoCreate, FreeTids
<1> HIDE DEF r
<1>5. /\ pids' \in Seq(Tids \cup {NoTid}) /\ Len(pids') = z /\ pids'[z] = t
      /\ \A k \in 1..Len(fns) : pids'[k] = pids[k]
  BY <1>3, <1>4, AppendProperties
<1>6. t # NoTid => /\ t \in Tids /\ thread[t].at = "free" /\ thread[t].fn = "none" /\ thread'[t] = r
                   /\ \A u \in Tids \ {t} : thread'[u] = thread[u]
  BY <1>4 DEF FreeTids, ThreadsTypeOK, ThreadOK
<1>7. ThreadsTypeOK'
  BY <1>1, <1>2, <1>4, <1>5 DEF ThreadsTypeOK
<1>8. HolderInv'
  BY <1>1, <1>2, <1>4, <1>6 DEF HolderInv
<1>9. \A k \in 1..Len(fns) : pids[k] \in Tids \cup {NoTid} /\ (pids[k] # NoTid => thread[pids[k]].fn = fns[k] /\ fns[k] \in Fore)
  BY <1>3, ElementOfSeq DEF Shape
<1>10. \A k \in 1..Len(fns) : pids[k] # NoTid => pids[k] # t /\ thread'[pids[k]] = thread[pids[k]]
  BY <1>4, <1>6, <1>9 DEF Fore
<1>11. 1..Len(gns) = (1..Len(fns)) \cup {z} /\ z \notin 1..Len(fns) /\ Len(gns) = z
  BY <1>3
<1>12. Shape(Tail(left), gns, 0)'
  <2>1. Len(pids') = Len(gns) /\ todo' = Tail(left)
    BY <1>3, <1>5, <1>11
  <2>2. \A k \in 1..Len(gns) : pids'[k] # NoTid => thread'[pids'[k]].fn = gns[k]
    BY <1>1, <1>5, <1>6, <1>9, <1>10, <1>11
  <2>3. \A u \in Foreground' : u = t \/ u \in Foreground
    BY <1>4, <1>6 DEF Foreground
  <2>4. \A u \in Foreground' : \E k \in 1..Len(gns) : k > 0 /\ pids'[k] = u
    <3>1. \A u \in Foreground : \E k \in 1..Len(fns) : k > 0 /\ pids[k] = u
      BY <1>3 DEF Shape
    <3> QED BY <1>3, <1>5, <1>11, <2>3, <3>1
  <2>5. \A j, k \in 1..Len(gns) : pids'[j] = pids'[k] /\ pids'[k] # NoTid => j = k
    <3>1. \A j, k \in 1..Len(fns) : pids[j] = pids[k] /\ pids[k] # NoTid => j = k
      BY <1>3 DEF Shape
    <3>2. ASSUME NEW k \in 1..Len(fns), pids'[k] = pids'[z], pids'[z] # NoTid PROVE FALSE
      BY <1>5, <1>10, <3>2
    <3>3. \A j, k \in 1..Len(fns) : pids'[j] = pids'[k] /\ pids'[k] # NoTid => j = k
      BY <1>5, <3>1
    <3> QED BY <1>11, <3>2, <3>3
  <2> QED BY <2>1, <2>2, <2>4, <2>5 DEF Shape
<1>13. Balance(gns, 0, d)'
  <2>1. ASSUME NEW k \in {1, 2}, k # z PROVE Uncounted(k, gns, 0)' = Uncounted(k, fns, 0)
    <3>1. CASE k \in 1..Len(fns)
      BY <1>5, <1>10, <1>11, <3>1 DEF Uncounted
    <3>2. CASE k \notin 1..Len(fns)
      BY <1>3, <1>11, <2>1, <3>2 DEF Uncounted
    <3> QED BY <3>1, <3>2
  <2>2. Uncounted(z, fns, 0) = 0
    <3>1. ~(z <= Len(fns))
      BY <1>3
    <3> HIDE DEF z
    <3> QED BY <3>1 DEF Uncounted
  <2>3. Uncounted(z, gns, 0)' = IF c.fn = "mutex" THEN 1 ELSE 0
    BY <1>1, <1>3, <1>5, <1>6, <1>11 DEF Uncounted
  <2>4. z \in {1, 2} /\ \A k \in {1, 2} : Uncounted(k, fns, 0) \in {0, 1}
    <3>1. z \in {1, 2}
      <4>1. Len(fns) \in {0, 1}
        BY DEF CreateFrom
      <4>2. PICK l \in {0, 1} : l = Len(fns)
        BY <4>1
      <4>3. l + 1 \in {1, 2}
        BY ONLY l \in {0, 1}
      <4> QED BY <4>2, <4>3
    <3>2. \A k \in {1, 2} : Uncounted(k, fns, 0) \in {0, 1}
      BY ONLY TRUE DEF Uncounted
    <3> QED BY <3>1, <3>2
  <2>5. d + Uncounted(1, gns, 0)' + Uncounted(2, gns, 0)' = due + Uncounted(1, fns, 0) + Uncounted(2, fns, 0)
    BY <2>1, <2>2, <2>3, <2>4
  <2>6. Uncounted(1, gns, 0)' \in Int /\ Uncounted(2, gns, 0)' \in Int /\ g_count \in Int /\ g_count' = g_count /\ runs' = runs
    BY <1>2, <2>1, <2>3, <2>4 DEF ThreadsTypeOK
  <2>7. /\ g_count + due + Uncounted(1, fns, 0) + Uncounted(2, fns, 0) = 2 * runs
        /\ Uncounted(1, fns, 0) \in Int /\ Uncounted(2, fns, 0) \in Int
    BY <1>3, <2>4 DEF Balance
  <2>8. g_count + d + Uncounted(1, gns, 0)' + Uncounted(2, gns, 0)' = 2 * runs
    <3>1. PICK n1 \in Int, n2 \in Int, u1 \in Int, u2 \in Int :
                 /\ n1 = Uncounted(1, gns, 0)' /\ n2 = Uncounted(2, gns, 0)'
                 /\ u1 = Uncounted(1, fns, 0) /\ u2 = Uncounted(2, fns, 0)
      BY <2>6, <2>7
    <3>2. d + n1 + n2 = due + u1 + u2 /\ g_count + due + u1 + u2 = 2 * runs /\ g_count \in Int /\ d \in Int /\ due \in Int
      BY <2>5, <2>6, <2>7, <3>1
    <3>3. g_count + d + n1 + n2 = 2 * runs
      BY ONLY <3>2, n1 \in Int, n2 \in Int, u1 \in Int, u2 \in Int
    <3> QED BY <3>1, <3>3
  <2> QED BY <2>6, <2>8 DEF Balance
<1>14. on => SemBalance(0)'
  <2> SUFFICES ASSUME on PROVE SemBalance(0)'
    OBVIOUS
  <2>1. CASE Len(fns) = 0
    <3>1. Waits(0) = 0 /\ Posts(0) = 0 /\ Posts(0)' = 0
      BY <1>3, <1>5, <2>1 DEF Waits, Posts
    <3>2. Waits(0)' = 0
      BY <1>1, <1>3, <1>5, <1>6, <2>1 DEF Waits, Done
    <3> QED BY <1>2, <1>3, <3>1, <3>2 DEF SemBalance
  <2>2. CASE Len(fns) = 1
    <3>1. Waits(0)' = Waits(0)
      BY <1>3, <1>5, <1>9, <1>10, <2>2 DEF Waits, Done
    <3>2. Posts(0) = 0
      BY <1>3, <2>2 DEF Posts
    <3>3. Posts(0)' = 0
      BY <1>1, <1>3, <1>5, <1>6, <2>2 DEF Posts, Done
    <3> QED BY <1>2, <1>3, <3>1, <3>2, <3>3 DEF SemBalance
  <2> QED BY <2>1, <2>2
<1> QED BY <1>2, <1>7, <1>8, <1>12, <1>13, <1>14 DEF Runs

\* pthread_join: the thread has ended, and is given back.
LEMMA JoinStep ==
  ASSUME ThreadsTypeOK, HolderInv, NEW left, NEW fns \in Seq(Fore), NEW due \in Nat, NEW on \in BOOLEAN,
         NEW n \in {0, 1}, Runs(left, fns, n, due, on), n < Len(fns), Len(fns) <= 2,
         todo' = Tail(left), DoJoin(pids[n + 1]), UNCHANGED runs
  PROVE  /\ ThreadsTypeOK' /\ HolderInv' /\ UNCHANGED sval
         /\ undef' \/ (Runs(Tail(left), fns, n + 1, due, on)' /\ UNCHANGED undef)
<1> DEFINE z == n + 1
           t == pids[z]
<1>1. /\ Shape(left, fns, n) /\ Balance(fns, n, due) /\ (on => SemBalance(n))
      /\ Len(fns) \in Nat /\ Len(pids) = Len(fns) /\ pids \in Seq(Tids \cup {NoTid}) /\ z \in 1..Len(fns)
  BY LenProperties DEF Runs, Shape, ThreadsTypeOK
<1>2. UNCHANGED <<pids, g_count, holder, sem, sval>>
  BY DEF DoJoin
<1>3. CASE t = NoTid
  <2>1. undef' /\ UNCHANGED thread
    BY <1>3 DEF DoJoin
  <2> QED BY <1>2, <2>1 DEF ThreadsTypeOK, HolderInv
<1>4. CASE t # NoTid
  <2>1. t \in Tids /\ thread[t].fn = fns[z]
    BY <1>1, <1>4, ElementOfSeq DEF Shape
  <2>2. thread[t].at = "ended" /\ thread' = [thread EXCEPT ![t] = NoThread] /\ UNCHANGED undef
    BY <1>4 DEF DoJoin
  <2> HIDE DEF t
  <2>3. ThreadsTypeOK' /\ HolderInv'
    BY <1>2, <2>1, <2>2, NoThreadOK DEF ThreadsTypeOK, HolderInv
  <2>4. \A u \in Tids : u # t => thread'[u] = thread[u]
    BY <2>2 DEF ThreadsTypeOK
  <2>5. \A k \in 1..Len(fns) : k > n + 1 => k > n /\ pids[k] \in Tids \cup {NoTid} /\ pids[k] # t
    BY <1>1, <1>4, ElementOfSeq DEF Shape, t
  <2>6. Shape(Tail(left), fns, n + 1)'
    <3>1. \A k \in 1..Len(fns) : k > n + 1 /\ pids[k] # NoTid => thread'[pids[k]].fn = fns[k]
      BY <1>1, <2>4, <2>5 DEF Shape
    <3>2. \A u \in Foreground' : u \in Foreground /\ u # t
      BY <2>1, <2>2, <2>4, NoThreadOK DEF Foreground, ThreadsTypeOK, Fore
    <3>3. \A u \in Foreground' : \E k \in 1..Len(fns) : k > n + 1 /\ pids[k] = u
      <4> SUFFICES ASSUME NEW u \in Foreground' PROVE \E k \in 1..Len(fns) : k > n + 1 /\ pids[k] = u
        OBVIOUS
      <4>1. PICK k \in 1..Len(fns) : k > n /\ pids[k] = u
        BY <1>1, <3>2 DEF Shape
      <4>2. k # z
        BY <3>2, <4>1 DEF t
      <4> QED BY <1>1, <4>1, <4>2
    <3>4. \A j, k \in 1..Len(fns) : j > n + 1 /\ k > n + 1 /\ pids[j] = pids[k] /\ pids[k] # NoTid => j = k
      BY <1>1, <2>5 DEF Shape
    <3> QED BY <1>1, <1>2, <3>1, <3>3, <3>4 DEF Shape
  <2>7. Balance(fns, n + 1, due)'
    <3>1. Uncounted(z, fns, n) = 0 /\ Uncounted(z, fns, n + 1)' = 0
      BY <1>1, <1>4, <2>2 DEF Uncounted, t
    <3>2. ASSUME NEW k \in {1, 2}, k # z PROVE Uncounted(k, fns, n + 1)' = Uncounted(k, fns, n)
      <4>1. CASE k > n /\ k <= Len(fns)
        <5>1. k > n + 1 /\ k \in 1..Len(fns)
          BY <1>1, <3>2, <4>1
        <5>2. pids[k] # t /\ pids[k] \in Tids \cup {NoTid}
          BY <2>5, <5>1
        <5> QED BY <1>2, <2>4, <4>1, <5>1, <5>2 DEF Uncounted
      <4>2. CASE ~(k > n /\ k <= Len(fns))
        BY <1>1, <4>2 DEF Uncounted
      <4> QED BY <4>1, <4>2
    <3>3. Uncounted(1, fns, n + 1)' + Uncounted(2, fns, n + 1)' = Uncounted(1, fns, n) + Uncounted(2, fns, n)
      BY <1>1, <3>1, <3>2
    <3>4. \A k \in {1, 2} : Uncounted(k, fns, n) \in Int /\ Uncounted(k, fns, n + 1)' \in Int
      BY DEF Uncounted
    <3>5. g_count \in Int /\ g_count' = g_count /\ g_count + due + Uncounted(1, fns, n) + Uncounted(2, fns, n) = 2 * runs
      BY <1>1, <1>2 DEF Balance, ThreadsTypeOK
    <3>6. g_count' + due + Uncounted(1, fns, n + 1)' + Uncounted(2, fns, n + 1)' = 2 * runs
      BY ONLY <3>3, <3>4, <3>5, due \in Nat
    <3> QED BY <3>6 DEF Balance
  <2>8. on => SemBalance(n + 1)'
    <3> SUFFICES ASSUME on PROVE SemBalance(n + 1)'
      OBVIOUS
    <3>1. CASE n = 0
      <4>1. Waits(0) = 3 /\ Waits(1)' = 3
        BY <1>1, <1>4, <2>2, <3>1 DEF Waits, Done, t
      <4>2. Posts(1)' = Posts(0)
        <5>1. CASE Len(pids) < 2 \/ pids[2] = NoTid
          BY <1>2, <5>1 DEF Posts
        <5>2. CASE ~(Len(pids) < 2 \/ pids[2] = NoTid)
          <6>1. pids[2] # t /\ pids[2] \in Tids
            BY <1>1, <2>5, <3>1, <5>2
          <6> QED BY <1>2, <2>4, <5>2, <6>1 DEF Posts, Done
        <5> QED BY <5>1, <5>2
      <4> QED BY <1>1, <1>2, <3>1, <4>1, <4>2 DEF SemBalance
    <3>2. CASE n = 1
      <4>1. Posts(1) = 8 /\ Posts(2)' = 8
        BY <1>1, <1>4, <2>2, <3>2 DEF Posts, Done, t
      <4>2. Waits(1) = 3 /\ Waits(2)' = 3
        BY DEF Waits
      <4> QED BY <1>1, <1>2, <3>2, <4>1, <4>2 DEF SemBalance
    <3> QED BY <3>1, <3>2
  <2> QED BY <1>2, <2>2, <2>3, <2>6, <2>7, <2>8 DEF Runs
<1> QED BY <1>3, <1>4

\* What moves no thread: pthread_cancel, sem_getvalue and the making of the mutex and the semaphore.
LEMMA StillStep ==
  ASSUME NEW left, NEW fns, NEW n, NEW due, NEW on, Runs(left, fns, n, due, on),
         todo' = Tail(left), UNCHANGED <<pids, thread, g_count, runs, sem>>
  PROVE  Runs(Tail(left), fns, n, due, on)'
BY DEF Runs, Shape, Balance, SemBalance, Uncounted, Waits, Posts, Done, Foreground

LEMMA InitStep ==
  ASSUME ThreadsTypeOK, HolderInv, NEW left, NEW due, NEW on, Runs(left, <<>>, 0, due, FALSE),
         todo' = Tail(left), DoInit, UNCHANGED runs
  PROVE  ThreadsTypeOK' /\ HolderInv' /\ UNCHANGED <<sval, undef>> /\ Runs(Tail(left), <<>>, 0, due, on)'
<1>1. Shape(left, <<>>, 0) /\ Balance(<<>>, 0, due) /\ Len(pids) = 0 /\ Foreground = {}
  <2>1. Len(<<>>) = 0 /\ 1..0 = {}
    OBVIOUS
  <2> QED BY <2>1 DEF Runs, Shape
<1>2. holder' = NoTid /\ sem' = 0 /\ UNCHANGED <<pids, thread, g_count, sval, undef>>
  BY DEF DoInit
<1>3. \A t \in Tids : thread[t].at \notin {"locked", "counted"}
  <2> SUFFICES ASSUME NEW t \in Tids PROVE thread[t].at \notin {"locked", "counted"}
    OBVIOUS
  <2>1. thread[t].fn \in {"none", "run_3", "run_4"} /\ ThreadOK(thread[t])
    BY <1>1 DEF Foreground, ThreadsTypeOK, ThreadRec, Fns
  <2> QED BY <2>1 DEF ThreadOK
<1>4. ThreadsTypeOK' /\ HolderInv'
  BY <1>2, <1>3, ThreadsAssumption DEF ThreadsTypeOK, HolderInv
<1>5. Shape(Tail(left), <<>>, 0)' /\ Balance(<<>>, 0, due)'
  BY <1>1, <1>2 DEF Shape, Balance, Uncounted, Foreground
<1>6. SemBalance(0)'
  <2>1. Waits(0)' = 0 /\ Posts(0)' = 0
    BY <1>1, <1>2 DEF Waits, Posts
  <2> QED BY <1>2, <2>1 DEF SemBalance
<1> QED BY <1>2, <1>4, <1>5, <1>6 DEF Runs

\* A detached thread, or one that detaches itself: main is back in the menu.
LEMMA BackgroundStep ==
  ASSUME ThreadsTypeOK, HolderInv, NEW left, Runs(left, <<>>, 0, 0, FALSE), Tail(left) = <<>>,
         NEW c, c = Head(left), c.fn \in {"run_3", "run_4"}, c.i \in Nat, c.det \in BOOLEAN, c.fn = "run_3" => c.det,
         todo' = Tail(todo), DoCreate(c), UNCHANGED runs
  PROVE  ThreadsTypeOK' /\ HolderInv' /\ UNCHANGED <<sval, undef>> /\ AtMenu'
<1> DEFINE r == [fn |-> c.fn, at |-> "start", i |-> c.i, det |-> c.det]
<1>1. r \in ThreadRec /\ ThreadOK(r) /\ r.fn \notin Fore /\ r.at = "start"
  BY DEF ThreadRec, ThreadSpots, ThreadOK, Fns, Fore
<1>2. UNCHANGED <<g_count, holder, sem, sval, cancelled, undef>>
  BY DEF DoCreate
<1>3. Balance(<<>>, 0, 0) /\ todo = left /\ Foreground = {}
  <2>1. Len(<<>>) = 0 /\ 1..0 = {}
    OBVIOUS
  <2> QED BY <2>1 DEF Runs, Shape
<1>4. PICK t \in Tids \cup {NoTid} :
        /\ pids' = Append(pids, t)
        /\ thread' = thread \/ (t \in FreeTids /\ thread' = [thread EXCEPT ![t] = r])
  BY DEF DoCreate, FreeTids
<1> HIDE DEF r
<1>5. pids' \in Seq(Tids \cup {NoTid})
  BY <1>4, AppendProperties DEF ThreadsTypeOK
<1>6. ThreadsTypeOK'
  BY <1>1, <1>2, <1>4, <1>5 DEF ThreadsTypeOK, FreeTids
<1>7. HolderInv'
  BY <1>1, <1>2, <1>4 DEF HolderInv, FreeTids, ThreadsTypeOK
<1>8. Foreground' = {}
  BY <1>1, <1>3, <1>4 DEF Foreground, ThreadsTypeOK, FreeTids
<1>9. g_count = 2 * runs
  <2>1. Uncounted(1, <<>>, 0) = 0 /\ Uncounted(2, <<>>, 0) = 0 /\ g_count \in Nat /\ runs \in Nat
    BY DEF Uncounted, ThreadsTypeOK
  <2> QED BY <1>3, <2>1 DEF Balance
<1> QED BY <1>2, <1>3, <1>6, <1>7, <1>8, <1>9 DEF AtMenu

\* A function whose threads have all been joined is at its end.
AllJoinedAtMenu ==
  \A fns \in Seq(Fore), on \in BOOLEAN : Len(fns) <= 2 /\ Runs(<<>>, fns, Len(fns), 0, on) => AtMenu

LEMMA AllJoined ==
  ASSUME ThreadsTypeOK
  PROVE  AllJoinedAtMenu
<1> SUFFICES ASSUME NEW fns \in Seq(Fore), NEW on \in BOOLEAN, Len(fns) <= 2, Runs(<<>>, fns, Len(fns), 0, on)
             PROVE  AtMenu
  BY DEF AllJoinedAtMenu
<1>1. Len(fns) \in Nat /\ Shape(<<>>, fns, Len(fns)) /\ Balance(fns, Len(fns), 0)
  BY LenProperties DEF Runs
<1>2. Foreground = {} /\ todo = <<>>
  BY <1>1 DEF Shape
<1>3. Uncounted(1, fns, Len(fns)) = 0 /\ Uncounted(2, fns, Len(fns)) = 0 /\ g_count \in Nat /\ runs \in Nat
  BY <1>1 DEF Uncounted, ThreadsTypeOK
<1>4. g_count = 2 * runs
  BY <1>1, <1>3 DEF Balance
<1> QED BY <1>2, <1>4 DEF AtMenu

-----------------------------------------------------------------------------
(* Where a stage leads: the data of the functions, as main goes through them. *)

CreatesNext(s, f, m, gns, d) ==
  LET c == Head(s.left) IN
    /\ c.do = "create" /\ c.fn = f /\ c.i = m /\ c.det = FALSE
    /\ s.joined = 0 /\ s.due = d + (IF f = "mutex" THEN 1 ELSE 0)
    /\ s.on => m = IF Len(s.fns) = 0 THEN 3 ELSE 8
    /\ Len(s.fns) \in {0, 1} /\ Len(gns) = Len(s.fns) + 1
    /\ \A k \in 1..Len(s.fns) : gns[k] = s.fns[k]
    /\ gns[Len(gns)] = f
    /\ Stage(Tail(s.left), gns, 0, d, s.on) \in Stages

Creates(s) ==
  \E f \in Fore, m \in 1..8, gns \in Seq(Fore), d \in Nat :
    (f \in {"cond_1", "sem_1"} => m \in 1..3) /\ CreatesNext(s, f, m, gns, d)

CreatesBehind(s) ==
  LET c == Head(s.left) IN
    /\ c.do = "create" /\ c.fn \in {"run_3", "run_4"} /\ c.i \in Nat /\ c.det \in BOOLEAN /\ (c.fn = "run_3" => c.det)
    /\ s.fns = <<>> /\ s.joined = 0 /\ s.due = 0 /\ s.on = FALSE /\ Tail(s.left) = <<>>

Joins(s) ==
  /\ Head(s.left) = Join(s.joined + 1) /\ s.joined \in {0, 1} /\ s.joined < Len(s.fns)
  /\ \/ Stage(Tail(s.left), s.fns, s.joined + 1, s.due, s.on) \in Stages
     \/ Tail(s.left) = <<>> /\ s.joined + 1 = Len(s.fns) /\ s.due = 0

Cancels(s) ==
  /\ Head(s.left) = Cancel(1) /\ s.fns = <<"run_2">>
  /\ Stage(Tail(s.left), s.fns, s.joined, s.due, s.on) \in Stages

Inits(s) ==
  /\ Head(s.left) = InitSync /\ s.fns = <<>> /\ s.joined = 0 /\ s.on = FALSE
  /\ \E on \in BOOLEAN : Stage(Tail(s.left), <<>>, 0, s.due, on) \in Stages

GetsValue(s) ==
  /\ Head(s.left) = GetValue /\ Tail(s.left) = <<>>
  /\ s.fns = <<"sem_1", "sem_11">> /\ s.joined = 2 /\ s.due = 0 /\ s.on = TRUE

LEMMA StageOn ==
  ASSUME NEW s \in Stages
  PROVE  s.on \in BOOLEAN
<1>1. CASE s \in PlainStages
  <2>1. s.on = FALSE
    BY <1>1 DEF PlainStages, Stage
  <2> QED BY <2>1, Zenon
<1>2. CASE s \in MutexStages
  <2>1. s.on = FALSE
    BY <1>2 DEF MutexStages, Stage
  <2> QED BY <2>1, Zenon
<1>3. CASE s \in CondStages
  <2>1. s.on = FALSE
    BY <1>3 DEF CondStages, Stage
  <2> QED BY <2>1, Zenon
<1>4. CASE s \in SemStages
  <2>1. s.on = FALSE \/ s.on = TRUE
    BY <1>4 DEF SemStages, Stage
  <2> QED BY <2>1, Zenon
<1> QED BY <1>1, <1>2, <1>3, <1>4 DEF Stages

LEMMA OneTuple ==
  ASSUME NEW f \in Fore
  PROVE  <<f>> \in Seq(Fore) /\ Len(<<f>>) = 1 /\ <<f>>[1] = f
OBVIOUS

LEMMA TwoTuple ==
  ASSUME NEW f \in Fore, NEW h \in Fore
  PROVE  <<f, h>> \in Seq(Fore) /\ Len(<<f, h>>) = 2 /\ <<f, h>>[1] = f /\ <<f, h>>[2] = h
OBVIOUS

\* The first thread of a function, and the second.
FirstOf(s, f, m, d) ==
  /\ Head(s.left).do = "create" /\ Head(s.left).fn = f /\ Head(s.left).i = m /\ Head(s.left).det = FALSE
  /\ s.joined = 0 /\ s.due = d + (IF f = "mutex" THEN 1 ELSE 0) /\ (s.on => m = 3) /\ s.fns = <<>>
  /\ Stage(Tail(s.left), <<f>>, 0, d, s.on) \in Stages

SecondOf(s, h, f, m, d) ==
  /\ Head(s.left).do = "create" /\ Head(s.left).fn = f /\ Head(s.left).i = m /\ Head(s.left).det = FALSE
  /\ s.joined = 0 /\ s.due = d + (IF f = "mutex" THEN 1 ELSE 0) /\ (s.on => m = 8) /\ s.fns = <<h>>
  /\ Stage(Tail(s.left), <<h, f>>, 0, d, s.on) \in Stages

LEMMA CreatesFirst ==
  ASSUME NEW s, NEW f \in Fore, NEW m \in 1..8, f \in {"cond_1", "sem_1"} => m \in 1..3, NEW d \in Nat,
         FirstOf(s, f, m, d)
  PROVE  Creates(s)
<1>1. <<f>> \in Seq(Fore) /\ Len(<<f>>) = 1 /\ <<f>>[1] = f
  BY OneTuple
<1>2. CreatesNext(s, f, m, <<f>>, d)
  BY <1>1 DEF CreatesNext, FirstOf
<1> QED BY <1>1, <1>2 DEF Creates

LEMMA CreatesSecond ==
  ASSUME NEW s, NEW h \in Fore, NEW f \in Fore, NEW m \in 1..8, f \in {"cond_1", "sem_1"} => m \in 1..3, NEW d \in Nat,
         SecondOf(s, h, f, m, d)
  PROVE  Creates(s)
<1>1. /\ <<h, f>> \in Seq(Fore) /\ Len(<<h, f>>) = 2 /\ <<h, f>>[1] = h /\ <<h, f>>[2] = f
      /\ Len(s.fns) = 1 /\ s.fns[1] = h
  BY OneTuple, TwoTuple DEF SecondOf
<1>2. CreatesNext(s, f, m, <<h, f>>, d)
  BY <1>1 DEF CreatesNext, SecondOf
<1> QED BY <1>1, <1>2 DEF Creates

LEMMA PlainNext ==
  ASSUME NEW s \in PlainStages
  PROVE  s.left # <<>> /\ (Creates(s) \/ CreatesBehind(s) \/ Joins(s) \/ Cancels(s))
<1>1. CASE s = Stage(m_create_thread_joinable, <<>>, 0, 0, FALSE)
  <2>1. s.left = <<Create("run_1"), Join(1)>> /\ s.fns = <<>> /\ s.joined = 0 /\ s.due = 0 /\ s.on = FALSE
    BY <1>1 DEF m_create_thread_joinable, Stage
  <2>2. Head(s.left) = Create("run_1") /\ Tail(s.left) = <<Join(1)>> /\ s.left # <<>>
    BY <2>1
  <2>3. Stage(Tail(s.left), <<"run_1">>, 0, 0, s.on) \in Stages
    BY <2>1, <2>2 DEF Stages, PlainStages
  <2>4. FirstOf(s, "run_1", 1, 0)
    BY <2>1, <2>2, <2>3 DEF FirstOf, Create
  <2>5. "run_1" \in Fore /\ 1 \in 1..8 /\ ("run_1" \in {"cond_1", "sem_1"} => 1 \in 1..3) /\ 0 \in Nat
    BY DEF Fore
  <2> QED BY <2>2, <2>4, <2>5, CreatesFirst
<1>2. CASE s = Stage(<<Join(1)>>, <<"run_1">>, 0, 0, FALSE)
  <2>1. s.left = <<Join(1)>> /\ s.fns = <<"run_1">> /\ s.joined = 0 /\ s.due = 0 /\ s.on = FALSE
    BY <1>2 DEF Stage
  <2>2. Head(s.left) = Join(1) /\ Tail(s.left) = <<>> /\ s.left # <<>> /\ Len(s.fns) = 1
    BY <2>1
  <2> QED BY <2>1, <2>2 DEF Joins
<1>3. CASE s = Stage(m_create_thread_detached, <<>>, 0, 0, FALSE)
  <2>1. s.left = <<Create("run_2"), Cancel(1), Join(1)>> /\ s.fns = <<>> /\ s.joined = 0 /\ s.due = 0 /\ s.on = FALSE
    BY <1>3 DEF m_create_thread_detached, Stage
  <2>2. Head(s.left) = Create("run_2") /\ Tail(s.left) = <<Cancel(1), Join(1)>> /\ s.left # <<>>
    BY <2>1
  <2>3. Stage(Tail(s.left), <<"run_2">>, 0, 0, s.on) \in Stages
    BY <2>1, <2>2 DEF Stages, PlainStages
  <2>4. FirstOf(s, "run_2", 1, 0)
    BY <2>1, <2>2, <2>3 DEF FirstOf, Create
  <2>5. "run_2" \in Fore /\ 1 \in 1..8 /\ ("run_2" \in {"cond_1", "sem_1"} => 1 \in 1..3) /\ 0 \in Nat
    BY DEF Fore
  <2> QED BY <2>2, <2>4, <2>5, CreatesFirst
<1>4. CASE s = Stage(<<Cancel(1), Join(1)>>, <<"run_2">>, 0, 0, FALSE)
  <2>1. s.left = <<Cancel(1), Join(1)>> /\ s.fns = <<"run_2">> /\ s.joined = 0 /\ s.due = 0 /\ s.on = FALSE
    BY <1>4 DEF Stage
  <2>2. Head(s.left) = Cancel(1) /\ Tail(s.left) = <<Join(1)>> /\ s.left # <<>>
    BY <2>1
  <2> QED BY <2>1, <2>2 DEF Cancels, Stages, PlainStages
<1>5. CASE s = Stage(<<Join(1)>>, <<"run_2">>, 0, 0, FALSE)
  <2>1. s.left = <<Join(1)>> /\ s.fns = <<"run_2">> /\ s.joined = 0 /\ s.due = 0 /\ s.on = FALSE
    BY <1>5 DEF Stage
  <2>2. Head(s.left) = Join(1) /\ Tail(s.left) = <<>> /\ s.left # <<>> /\ Len(s.fns) = 1
    BY <2>1
  <2> QED BY <2>1, <2>2 DEF Joins
<1>6. CASE s = Stage(m_create_thread_attr, <<>>, 0, 0, FALSE)
  <2>1. s.left = <<CreateDetached("run_3")>> /\ s.fns = <<>> /\ s.joined = 0 /\ s.due = 0 /\ s.on = FALSE
    BY <1>6 DEF m_create_thread_attr, Stage
  <2>2. Head(s.left) = CreateDetached("run_3") /\ Tail(s.left) = <<>> /\ s.left # <<>>
    BY <2>1
  <2>3. LET c == Head(s.left) IN c.do = "create" /\ c.fn = "run_3" /\ c.i \in Nat /\ c.det = TRUE
    BY <2>2 DEF CreateDetached, Create
  <2> QED BY <2>1, <2>2, <2>3 DEF CreatesBehind
<1>7. CASE s = Stage(m_create_thread_unjoinable, <<>>, 0, 0, FALSE)
  <2>1. s.left = <<Create("run_4")>> /\ s.fns = <<>> /\ s.joined = 0 /\ s.due = 0 /\ s.on = FALSE
    BY <1>7 DEF m_create_thread_unjoinable, Stage
  <2>2. Head(s.left) = Create("run_4") /\ Tail(s.left) = <<>> /\ s.left # <<>>
    BY <2>1
  <2>3. LET c == Head(s.left) IN c.do = "create" /\ c.fn = "run_4" /\ c.i \in Nat /\ c.det = FALSE
    BY <2>2 DEF Create
  <2> QED BY <2>1, <2>2, <2>3 DEF CreatesBehind
<1> QED BY <1>1, <1>2, <1>3, <1>4, <1>5, <1>6, <1>7 DEF PlainStages

LEMMA MutexNext ==
  ASSUME NEW s \in MutexStages
  PROVE  s.left # <<>> /\ (Creates(s) \/ Inits(s) \/ Joins(s))
<1>1. CASE s = Stage(m_create_thread_mutex, <<>>, 0, 2, FALSE)
  <2>1. s.left = <<InitSync, Create("mutex"), Create("mutex"), Join(1), Join(2)>> /\ s.fns = <<>> /\ s.joined = 0 /\ s.due = 2 /\ s.on = FALSE
    BY <1>1 DEF m_create_thread_mutex, Stage
  <2>2. Head(s.left) = InitSync /\ Tail(s.left) = <<Create("mutex"), Create("mutex"), Join(1), Join(2)>> /\ s.left # <<>>
    BY <2>1
  <2>3. Stage(Tail(s.left), <<>>, 0, 2, FALSE) \in Stages
    BY <2>1, <2>2 DEF Stages, MutexStages
  <2> QED BY <2>1, <2>2, <2>3 DEF Inits
<1>2. CASE s = Stage(<<Create("mutex"), Create("mutex"), Join(1), Join(2)>>, <<>>, 0, 2, FALSE)
  <2>1. s.left = <<Create("mutex"), Create("mutex"), Join(1), Join(2)>> /\ s.fns = <<>> /\ s.joined = 0 /\ s.due = 2 /\ s.on = FALSE
    BY <1>2 DEF Stage
  <2>2. Head(s.left) = Create("mutex") /\ Tail(s.left) = <<Create("mutex"), Join(1), Join(2)>> /\ s.left # <<>>
    BY <2>1
  <2>3. Stage(Tail(s.left), <<"mutex">>, 0, 1, s.on) \in Stages
    BY <2>1, <2>2 DEF Stages, MutexStages
  <2>4. FirstOf(s, "mutex", 1, 1)
    BY <2>1, <2>2, <2>3 DEF FirstOf, Create
  <2>5. "mutex" \in Fore /\ 1 \in 1..8 /\ ("mutex" \in {"cond_1", "sem_1"} => 1 \in 1..3) /\ 1 \in Nat
    BY DEF Fore
  <2> QED BY <2>2, <2>4, <2>5, CreatesFirst
<1>3. CASE s = Stage(<<Create("mutex"), Join(1), Join(2)>>, <<"mutex">>, 0, 1, FALSE)
  <2>1. s.left = <<Create("mutex"), Join(1), Join(2)>> /\ s.fns = <<"mutex">> /\ s.joined = 0 /\ s.due = 1 /\ s.on = FALSE
    BY <1>3 DEF Stage
  <2>2. Head(s.left) = Create("mutex") /\ Tail(s.left) = <<Join(1), Join(2)>> /\ s.left # <<>>
    BY <2>1
  <2>3. Stage(Tail(s.left), <<"mutex", "mutex">>, 0, 0, s.on) \in Stages
    BY <2>1, <2>2 DEF Stages, MutexStages
  <2>4. SecondOf(s, "mutex", "mutex", 1, 0)
    BY <2>1, <2>2, <2>3 DEF SecondOf, Create
  <2>5. "mutex" \in Fore /\ 1 \in 1..8 /\ ("mutex" \in {"cond_1", "sem_1"} => 1 \in 1..3) /\ 0 \in Nat
    BY DEF Fore
  <2> QED BY <2>2, <2>4, <2>5, CreatesSecond
<1>4. CASE s = Stage(<<Join(1), Join(2)>>, <<"mutex", "mutex">>, 0, 0, FALSE)
  <2>1. s.left = <<Join(1), Join(2)>> /\ s.fns = <<"mutex", "mutex">> /\ s.joined = 0 /\ s.due = 0 /\ s.on = FALSE
    BY <1>4 DEF Stage
  <2>2. Head(s.left) = Join(1) /\ Tail(s.left) = <<Join(2)>> /\ s.left # <<>> /\ Len(s.fns) = 2
    BY <2>1
  <2>3. Stage(Tail(s.left), <<"mutex", "mutex">>, 1, 0, s.on) \in Stages
    BY <2>1, <2>2 DEF Stages, MutexStages
  <2>4. Stage(Tail(s.left), s.fns, s.joined + 1, s.due, s.on) \in Stages
    BY <2>1, <2>3
  <2> QED BY <2>1, <2>2, <2>4 DEF Joins
<1>5. CASE s = Stage(<<Join(2)>>, <<"mutex", "mutex">>, 1, 0, FALSE)
  <2>1. s.left = <<Join(2)>> /\ s.fns = <<"mutex", "mutex">> /\ s.joined = 1 /\ s.due = 0 /\ s.on = FALSE
    BY <1>5 DEF Stage
  <2>2. Head(s.left) = Join(2) /\ Tail(s.left) = <<>> /\ s.left # <<>> /\ Len(s.fns) = 2
    BY <2>1
  <2> QED BY <2>1, <2>2 DEF Joins
<1> QED BY <1>1, <1>2, <1>3, <1>4, <1>5 DEF MutexStages

LEMMA CondNext ==
  ASSUME NEW s \in CondStages
  PROVE  s.left # <<>> /\ (Creates(s) \/ Inits(s) \/ Joins(s))
<1>1. CASE s = Stage(m_create_thread_cond, <<>>, 0, 0, FALSE)
  <2>1. s.left = <<InitSync, CreateLoop("cond_1", 3), CreateLoop("cond_11", 8), Join(1), Join(2)>> /\ s.fns = <<>> /\ s.joined = 0 /\ s.due = 0 /\ s.on = FALSE
    BY <1>1 DEF m_create_thread_cond, Stage
  <2>2. Head(s.left) = InitSync /\ Tail(s.left) = <<CreateLoop("cond_1", 3), CreateLoop("cond_11", 8), Join(1), Join(2)>> /\ s.left # <<>>
    BY <2>1
  <2>3. Stage(Tail(s.left), <<>>, 0, 0, FALSE) \in Stages
    BY <2>1, <2>2 DEF Stages, CondStages
  <2> QED BY <2>1, <2>2, <2>3 DEF Inits
<1>2. CASE s = Stage(<<CreateLoop("cond_1", 3), CreateLoop("cond_11", 8), Join(1), Join(2)>>, <<>>, 0, 0, FALSE)
  <2>1. s.left = <<CreateLoop("cond_1", 3), CreateLoop("cond_11", 8), Join(1), Join(2)>> /\ s.fns = <<>> /\ s.joined = 0 /\ s.due = 0 /\ s.on = FALSE
    BY <1>2 DEF Stage
  <2>2. Head(s.left) = CreateLoop("cond_1", 3) /\ Tail(s.left) = <<CreateLoop("cond_11", 8), Join(1), Join(2)>> /\ s.left # <<>>
    BY <2>1
  <2>3. Stage(Tail(s.left), <<"cond_1">>, 0, 0, s.on) \in Stages
    BY <2>1, <2>2 DEF Stages, CondStages
  <2>4. FirstOf(s, "cond_1", 3, 0)
    BY <2>1, <2>2, <2>3 DEF FirstOf, CreateLoop, Create
  <2>5. "cond_1" \in Fore /\ 3 \in 1..8 /\ ("cond_1" \in {"cond_1", "sem_1"} => 3 \in 1..3) /\ 0 \in Nat
    BY DEF Fore
  <2> QED BY <2>2, <2>4, <2>5, CreatesFirst
<1>3. CASE s = Stage(<<CreateLoop("cond_11", 8), Join(1), Join(2)>>, <<"cond_1">>, 0, 0, FALSE)
  <2>1. s.left = <<CreateLoop("cond_11", 8), Join(1), Join(2)>> /\ s.fns = <<"cond_1">> /\ s.joined = 0 /\ s.due = 0 /\ s.on = FALSE
    BY <1>3 DEF Stage
  <2>2. Head(s.left) = CreateLoop("cond_11", 8) /\ Tail(s.left) = <<Join(1), Join(2)>> /\ s.left # <<>>
    BY <2>1
  <2>3. Stage(Tail(s.left), <<"cond_1", "cond_11">>, 0, 0, s.on) \in Stages
    BY <2>1, <2>2 DEF Stages, CondStages
  <2>4. SecondOf(s, "cond_1", "cond_11", 8, 0)
    BY <2>1, <2>2, <2>3 DEF SecondOf, CreateLoop, Create
  <2>5. "cond_1" \in Fore /\ "cond_11" \in Fore /\ 8 \in 1..8 /\ ("cond_11" \in {"cond_1", "sem_1"} => 8 \in 1..3) /\ 0 \in Nat
    BY DEF Fore
  <2> QED BY <2>2, <2>4, <2>5, CreatesSecond
<1>4. CASE s = Stage(<<Join(1), Join(2)>>, <<"cond_1", "cond_11">>, 0, 0, FALSE)
  <2>1. s.left = <<Join(1), Join(2)>> /\ s.fns = <<"cond_1", "cond_11">> /\ s.joined = 0 /\ s.due = 0 /\ s.on = FALSE
    BY <1>4 DEF Stage
  <2>2. Head(s.left) = Join(1) /\ Tail(s.left) = <<Join(2)>> /\ s.left # <<>> /\ Len(s.fns) = 2
    BY <2>1
  <2>3. Stage(Tail(s.left), <<"cond_1", "cond_11">>, 1, 0, s.on) \in Stages
    BY <2>1, <2>2 DEF Stages, CondStages
  <2>4. Stage(Tail(s.left), s.fns, s.joined + 1, s.due, s.on) \in Stages
    BY <2>1, <2>3
  <2> QED BY <2>1, <2>2, <2>4 DEF Joins
<1>5. CASE s = Stage(<<Join(2)>>, <<"cond_1", "cond_11">>, 1, 0, FALSE)
  <2>1. s.left = <<Join(2)>> /\ s.fns = <<"cond_1", "cond_11">> /\ s.joined = 1 /\ s.due = 0 /\ s.on = FALSE
    BY <1>5 DEF Stage
  <2>2. Head(s.left) = Join(2) /\ Tail(s.left) = <<>> /\ s.left # <<>> /\ Len(s.fns) = 2
    BY <2>1
  <2> QED BY <2>1, <2>2 DEF Joins
<1> QED BY <1>1, <1>2, <1>3, <1>4, <1>5 DEF CondStages

LEMMA SemNext ==
  ASSUME NEW s \in SemStages
  PROVE  s.left # <<>> /\ (Creates(s) \/ Inits(s) \/ Joins(s) \/ GetsValue(s))
<1>1. CASE s = Stage(m_create_thread_sem, <<>>, 0, 0, FALSE)
  <2>1. s.left = <<InitSync, CreateLoop("sem_1", 3), CreateLoop("sem_11", 8), Join(1), Join(2), GetValue>> /\ s.fns = <<>> /\ s.joined = 0 /\ s.due = 0 /\ s.on = FALSE
    BY <1>1 DEF m_create_thread_sem, Stage
  <2>2. Head(s.left) = InitSync /\ Tail(s.left) = <<CreateLoop("sem_1", 3), CreateLoop("sem_11", 8), Join(1), Join(2), GetValue>> /\ s.left # <<>>
    BY <2>1
  <2>3. Stage(Tail(s.left), <<>>, 0, 0, TRUE) \in Stages
    BY <2>1, <2>2 DEF Stages, SemStages
  <2> QED BY <2>1, <2>2, <2>3 DEF Inits
<1>2. CASE s = Stage(<<CreateLoop("sem_1", 3), CreateLoop("sem_11", 8), Join(1), Join(2), GetValue>>, <<>>, 0, 0, TRUE)
  <2>1. s.left = <<CreateLoop("sem_1", 3), CreateLoop("sem_11", 8), Join(1), Join(2), GetValue>> /\ s.fns = <<>> /\ s.joined = 0 /\ s.due = 0 /\ s.on = TRUE
    BY <1>2 DEF Stage
  <2>2. Head(s.left) = CreateLoop("sem_1", 3) /\ Tail(s.left) = <<CreateLoop("sem_11", 8), Join(1), Join(2), GetValue>> /\ s.left # <<>>
    BY <2>1
  <2>3. Stage(Tail(s.left), <<"sem_1">>, 0, 0, s.on) \in Stages
    BY <2>1, <2>2 DEF Stages, SemStages
  <2>4. FirstOf(s, "sem_1", 3, 0)
    BY <2>1, <2>2, <2>3 DEF FirstOf, CreateLoop, Create
  <2>5. "sem_1" \in Fore /\ 3 \in 1..8 /\ ("sem_1" \in {"cond_1", "sem_1"} => 3 \in 1..3) /\ 0 \in Nat
    BY DEF Fore
  <2> QED BY <2>2, <2>4, <2>5, CreatesFirst
<1>3. CASE s = Stage(<<CreateLoop("sem_11", 8), Join(1), Join(2), GetValue>>, <<"sem_1">>, 0, 0, TRUE)
  <2>1. s.left = <<CreateLoop("sem_11", 8), Join(1), Join(2), GetValue>> /\ s.fns = <<"sem_1">> /\ s.joined = 0 /\ s.due = 0 /\ s.on = TRUE
    BY <1>3 DEF Stage
  <2>2. Head(s.left) = CreateLoop("sem_11", 8) /\ Tail(s.left) = <<Join(1), Join(2), GetValue>> /\ s.left # <<>>
    BY <2>1
  <2>3. Stage(Tail(s.left), <<"sem_1", "sem_11">>, 0, 0, s.on) \in Stages
    BY <2>1, <2>2 DEF Stages, SemStages
  <2>4. SecondOf(s, "sem_1", "sem_11", 8, 0)
    BY <2>1, <2>2, <2>3 DEF SecondOf, CreateLoop, Create
  <2>5. "sem_1" \in Fore /\ "sem_11" \in Fore /\ 8 \in 1..8 /\ ("sem_11" \in {"cond_1", "sem_1"} => 8 \in 1..3) /\ 0 \in Nat
    BY DEF Fore
  <2> QED BY <2>2, <2>4, <2>5, CreatesSecond
<1>4. CASE s = Stage(<<Join(1), Join(2), GetValue>>, <<"sem_1", "sem_11">>, 0, 0, TRUE)
  <2>1. s.left = <<Join(1), Join(2), GetValue>> /\ s.fns = <<"sem_1", "sem_11">> /\ s.joined = 0 /\ s.due = 0 /\ s.on = TRUE
    BY <1>4 DEF Stage
  <2>2. Head(s.left) = Join(1) /\ Tail(s.left) = <<Join(2), GetValue>> /\ s.left # <<>> /\ Len(s.fns) = 2
    BY <2>1
  <2>3. Stage(Tail(s.left), <<"sem_1", "sem_11">>, 1, 0, s.on) \in Stages
    BY <2>1, <2>2 DEF Stages, SemStages
  <2>4. Stage(Tail(s.left), s.fns, s.joined + 1, s.due, s.on) \in Stages
    BY <2>1, <2>3
  <2> QED BY <2>1, <2>2, <2>4 DEF Joins
<1>5. CASE s = Stage(<<Join(2), GetValue>>, <<"sem_1", "sem_11">>, 1, 0, TRUE)
  <2>1. s.left = <<Join(2), GetValue>> /\ s.fns = <<"sem_1", "sem_11">> /\ s.joined = 1 /\ s.due = 0 /\ s.on = TRUE
    BY <1>5 DEF Stage
  <2>2. Head(s.left) = Join(2) /\ Tail(s.left) = <<GetValue>> /\ s.left # <<>> /\ Len(s.fns) = 2
    BY <2>1
  <2>3. Stage(Tail(s.left), <<"sem_1", "sem_11">>, 2, 0, s.on) \in Stages
    BY <2>1, <2>2 DEF Stages, SemStages
  <2>4. Stage(Tail(s.left), s.fns, s.joined + 1, s.due, s.on) \in Stages
    BY <2>1, <2>3
  <2> QED BY <2>1, <2>2, <2>4 DEF Joins
<1>6. CASE s = Stage(<<GetValue>>, <<"sem_1", "sem_11">>, 2, 0, TRUE)
  <2>1. s.left = <<GetValue>> /\ s.fns = <<"sem_1", "sem_11">> /\ s.joined = 2 /\ s.due = 0 /\ s.on = TRUE
    BY <1>6 DEF Stage
  <2>2. Head(s.left) = GetValue /\ Tail(s.left) = <<>> /\ s.left # <<>>
    BY <2>1
  <2> QED BY <2>1, <2>2 DEF GetsValue
<1> QED BY <1>1, <1>2, <1>3, <1>4, <1>5, <1>6 DEF SemStages

LEMMA StageNext ==
  ASSUME NEW s \in Stages
  PROVE  s.left # <<>> /\ (Creates(s) \/ CreatesBehind(s) \/ Joins(s) \/ Cancels(s) \/ Inits(s) \/ GetsValue(s))
BY PlainNext, MutexNext, CondNext, SemNext DEF Stages

-----------------------------------------------------------------------------
(* Main's steps, the menu's, and the theorem.                               *)

LEMMA StageStep ==
  ASSUME ThreadsTypeOK, HolderInv, NEW s \in Stages, AtStage(s), Main, sval = 5
  PROVE  ThreadsTypeOK' /\ HolderInv' /\ (~undef' => sval' = 5 /\ MainInv')
<1> DEFINE c == Head(s.left)
<1>1. /\ s.fns \in Seq(Fore) /\ Len(s.fns) <= 2 /\ s.joined \in 0..2 /\ s.due \in Nat
      /\ Runs(s.left, s.fns, s.joined, s.due, s.on) /\ Shape(s.left, s.fns, s.joined) /\ todo = s.left
  BY StageTypes DEF AtStage, Runs, Shape
<1>2. /\ todo' = Tail(todo) /\ todo' = Tail(s.left) /\ UNCHANGED runs
      /\ \/ c.do = "create" /\ DoCreate(c)
         \/ c.do = "join" /\ DoJoin(pids[c.n])
         \/ c.do = "cancel" /\ DoCancel(pids[c.n])
         \/ c.do = "init" /\ DoInit
         \/ c.do = "getvalue" /\ DoGetValue
  BY <1>1 DEF Main
<1> HIDE DEF c
<1>3. ASSUME NEW fns, NEW n, NEW due, NEW on, Stage(Tail(s.left), fns, n, due, on) \in Stages,
             Runs(Tail(s.left), fns, n, due, on)'
      PROVE  MainInv'
  <2> DEFINE q == Stage(Tail(s.left), fns, n, due, on)
  <2>1. AtStage(q)'
    BY <1>3 DEF AtStage, Stage
  <2> HIDE DEF q
  <2>2. q \in Stages
    BY <1>3 DEF q
  <2> QED BY <2>1, <2>2 DEF MainInv
<1>4. CASE Creates(s)
  <2>1. PICK f \in Fore, m \in 1..8, gns \in Seq(Fore), d \in Nat :
               (f \in {"cond_1", "sem_1"} => m \in 1..3) /\ CreatesNext(s, f, m, gns, d)
    BY <1>4 DEF Creates
  <2>2. /\ c.do = "create" /\ c.fn = f /\ c.i = m /\ c.det = FALSE
        /\ s.joined = 0 /\ s.due = d + (IF f = "mutex" THEN 1 ELSE 0)
        /\ s.on => m = IF Len(s.fns) = 0 THEN 3 ELSE 8
        /\ Len(s.fns) \in {0, 1} /\ Len(gns) = Len(s.fns) + 1
        /\ \A k \in 1..Len(s.fns) : gns[k] = s.fns[k]
        /\ gns[Len(gns)] = f
        /\ Stage(Tail(s.left), gns, 0, d, s.on) \in Stages
    BY <2>1 DEF CreatesNext, c
  <2> DEFINE r == [fn |-> c.fn, at |-> "start", i |-> c.i, det |-> c.det]
  <2>3. r \in ThreadRec /\ ThreadOK(r)
    <3>1. r.fn = f /\ r.at = "start" /\ r.i = m /\ r.det = FALSE
      BY <2>2
    <3>2. r \in ThreadRec
      <4>1. c.fn \in Fns /\ "start" \in ThreadSpots /\ c.i \in Nat
        BY <2>1, <2>2 DEF Fns, ThreadSpots
      <4>2. c.det \in BOOLEAN
        BY <2>2, Zenon
      <4> QED BY <4>1, <4>2 DEF ThreadRec
    <3> HIDE DEF r
    <3> QED BY <2>1, <3>1, <3>2 DEF ThreadOK, Fore
  <2>4. DoCreate(c)
    BY <1>2, <2>2
  <2>5. s.on \in BOOLEAN
    BY StageOn
  <2> DEFINE left == s.left
             fns == s.fns
             due == s.due
             on == s.on
  <2>6. /\ ThreadsTypeOK' /\ HolderInv' /\ UNCHANGED <<sval, undef>>
        /\ Runs(Tail(left), gns, 0, d, on)'
    <3>1. CreateFrom(left, fns, due, on) /\ c = Head(left)
      BY <1>1, <2>2, <2>5 DEF c, CreateFrom
    <3>2. CreateTo(c, fns, due, on, gns, d)
      BY <2>1, <2>2, <2>3 DEF CreateTo
    <3> HIDE DEF left, fns, due, on
    <3> QED BY <1>2, <2>4, <3>1, <3>2, CreateStep
  <2> QED BY <1>3, <2>2, <2>6
<1>5. CASE CreatesBehind(s)
  <2>1. /\ c.do = "create" /\ c.fn \in {"run_3", "run_4"} /\ c.i \in Nat /\ c.det \in BOOLEAN /\ (c.fn = "run_3" => c.det)
        /\ s.fns = <<>> /\ s.joined = 0 /\ s.due = 0 /\ s.on = FALSE /\ Tail(s.left) = <<>>
    BY <1>5 DEF CreatesBehind, c
  <2>2. DoCreate(c) /\ Runs(s.left, <<>>, 0, 0, FALSE)
    BY <1>1, <1>2, <2>1
  <2> DEFINE left == s.left
  <2>3. ThreadsTypeOK' /\ HolderInv' /\ UNCHANGED <<sval, undef>> /\ AtMenu'
    <3>1. Runs(left, <<>>, 0, 0, FALSE) /\ Tail(left) = <<>> /\ c = Head(left)
      BY <2>1, <2>2 DEF c
    <3> HIDE DEF left
    <3> QED BY <1>2, <2>1, <2>2, <3>1, BackgroundStep
  <2> QED BY <2>3 DEF MainInv
<1>6. CASE Joins(s)
  <2>1. /\ c.do = "join" /\ c.n = s.joined + 1 /\ s.joined \in {0, 1} /\ s.joined < Len(s.fns)
        /\ \/ Stage(Tail(s.left), s.fns, s.joined + 1, s.due, s.on) \in Stages
           \/ Tail(s.left) = <<>> /\ s.joined + 1 = Len(s.fns) /\ s.due = 0
    BY <1>6 DEF Joins, Join, c
  <2>2. DoJoin(pids[s.joined + 1])
    BY <1>2, <2>1
  <2>3. s.on \in BOOLEAN
    BY StageOn
  <2> DEFINE left == s.left
             fns == s.fns
             n == s.joined
             due == s.due
             on == s.on
  <2>4. /\ ThreadsTypeOK' /\ HolderInv' /\ UNCHANGED sval
        /\ undef' \/ (Runs(Tail(left), fns, n + 1, due, on)' /\ UNCHANGED undef)
    <3>1. /\ fns \in Seq(Fore) /\ due \in Nat /\ on \in BOOLEAN /\ n \in {0, 1} /\ Runs(left, fns, n, due, on)
          /\ n < Len(fns) /\ Len(fns) <= 2 /\ todo' = Tail(left) /\ DoJoin(pids[n + 1])
      BY <1>1, <1>2, <2>1, <2>2, <2>3
    <3> HIDE DEF left, fns, n, due, on
    <3> QED BY <1>2, <3>1, JoinStep
  <2>5. CASE undef'
    BY <2>4, <2>5
  <2>6. CASE Runs(Tail(left), fns, n + 1, due, on)' /\ Tail(left) = <<>> /\ n + 1 = Len(fns) /\ due = 0
    <3>1. /\ fns \in Seq(Fore) /\ Len(fns) <= 2 /\ Runs(<<>>, fns, Len(fns), 0, on)' /\ ThreadsTypeOK'
      BY <1>1, <2>4, <2>6
    <3>0. on \in BOOLEAN
      BY <2>3
    <3> HIDE DEF left, fns, n, due, on
    <3>2. AllJoinedAtMenu'
      BY <3>1, AllJoined, PTL
    <3>3. AtMenu'
      BY <3>0, <3>1, <3>2 DEF AllJoinedAtMenu
    <3> QED BY <2>4, <3>3 DEF MainInv
  <2>7. CASE Runs(Tail(left), fns, n + 1, due, on)' /\ Stage(Tail(left), fns, n + 1, due, on) \in Stages
    BY <1>3, <2>4, <2>7
  <2> QED BY <2>1, <2>4, <2>5, <2>6, <2>7
<1>7. CASE Cancels(s)
  <2>1. /\ c.do = "cancel" /\ c.n = 1 /\ Stage(Tail(s.left), s.fns, s.joined, s.due, s.on) \in Stages
    BY <1>7 DEF Cancels, Cancel, c
  <2>2. UNCHANGED <<pids, thread, g_count, holder, sem, sval>> /\ undef' \in BOOLEAN
    BY <1>2, <2>1 DEF DoCancel, ThreadsTypeOK
  <2>3. ThreadsTypeOK' /\ HolderInv'
    BY <1>2, <2>2 DEF ThreadsTypeOK, HolderInv
  <2>4. Runs(Tail(s.left), s.fns, s.joined, s.due, s.on)'
    BY <1>1, <1>2, <2>2, StillStep
  <2> QED BY <1>3, <2>1, <2>2, <2>3, <2>4
<1>8. CASE Inits(s)
  <2>1. c.do = "init" /\ s.fns = <<>> /\ s.joined = 0 /\ s.on = FALSE
    BY <1>8 DEF Inits, InitSync, c
  <2>2. PICK on \in BOOLEAN : Stage(Tail(s.left), <<>>, 0, s.due, on) \in Stages
    BY <1>8 DEF Inits
  <2>3. DoInit /\ Runs(s.left, <<>>, 0, s.due, FALSE)
    BY <1>1, <1>2, <2>1
  <2>4. ThreadsTypeOK' /\ HolderInv' /\ UNCHANGED <<sval, undef>> /\ Runs(Tail(s.left), <<>>, 0, s.due, on)'
    BY <1>2, <2>3, InitStep
  <2> QED BY <1>3, <2>2, <2>4
<1>9. CASE GetsValue(s)
  <2>1. /\ c.do = "getvalue" /\ Tail(s.left) = <<>> /\ s.fns = <<"sem_1", "sem_11">> /\ s.joined = 2 /\ s.due = 0
        /\ s.on = TRUE
    BY <1>9 DEF GetsValue, GetValue, c
  <2>2. sval' = sem /\ UNCHANGED <<pids, thread, g_count, holder, sem, undef>>
    BY <1>2, <2>1 DEF DoGetValue
  <2>3. ThreadsTypeOK' /\ HolderInv'
    BY <1>2, <2>2 DEF ThreadsTypeOK, HolderInv
  <2>4. sem = 5
    <3>1. SemBalance(2) /\ Waits(2) = 3 /\ Posts(2) = 8 /\ sem \in Nat
      BY <1>1, <2>1 DEF Runs, Waits, Posts, ThreadsTypeOK
    <3> QED BY <3>1 DEF SemBalance
  <2> DEFINE fns == s.fns
             on == s.on
  <2>5. AtMenu'
    <3>1. Runs(Tail(s.left), s.fns, s.joined, s.due, s.on)'
      BY <1>1, <1>2, <2>2, StillStep
    <3>2. Len(s.fns) = 2
      BY <2>1, TwoTuple DEF Fore
    <3>3. fns \in Seq(Fore) /\ Len(fns) <= 2 /\ Runs(<<>>, fns, Len(fns), 0, on)'
      BY <1>1, <2>1, <3>1, <3>2
    <3>4. AllJoinedAtMenu'
      BY <2>3, AllJoined, PTL
    <3>5. on \in BOOLEAN
      BY <2>1
    <3> HIDE DEF fns, on
    <3> QED BY <3>3, <3>4, <3>5 DEF AllJoinedAtMenu
  <2> QED BY <2>2, <2>3, <2>4, <2>5 DEF MainInv
<1> QED BY <1>4, <1>5, <1>6, <1>7, <1>8, <1>9, StageNext

LEMMA MainStep ==
  ASSUME ThreadsInv, Main
  PROVE  ThreadsInv'
<1>1. ThreadsTypeOK /\ HolderInv /\ ~undef /\ sval = 5 /\ MainInv /\ todo # <<>>
  BY DEF ThreadsInv, Main
<1>2. PICK s \in Stages : AtStage(s)
  BY <1>1 DEF MainInv, AtMenu
<1> QED BY <1>1, <1>2, StageStep DEF ThreadsInv

LEMMA MenuStep ==
  ASSUME ThreadsInv, Menu
  PROVE  ThreadsInv'
<1>1. /\ ThreadsTypeOK /\ HolderInv /\ ~undef /\ sval = 5 /\ MainInv /\ todo = <<>>
      /\ pids' = <<>> /\ UNCHANGED <<thread, g_count, holder, sem, sval, cancelled, undef>>
  BY DEF ThreadsInv, Menu
<1>2. AtMenu
  BY <1>1, StageNext DEF MainInv, AtStage, Runs, Shape
<1>3. g_count = 2 * runs /\ Foreground = {} /\ Len(<<>>) = 0 /\ 1..0 = {}
  BY <1>2 DEF AtMenu
<1>4. g_count \in Nat /\ runs \in Nat
  BY <1>1 DEF ThreadsTypeOK
<1>5. ASSUME NEW left, NEW due \in {0, 2}, todo' = left, Stage(left, <<>>, 0, due, FALSE) \in Stages,
             (due = 0 /\ runs' = runs) \/ (due = 2 /\ runs' = runs + 1)
      PROVE  MainInv' /\ runs' \in Nat
  <2>1. Shape(left, <<>>, 0)'
    BY <1>1, <1>3, <1>5 DEF Shape, Foreground
  <2>2. Balance(<<>>, 0, due)'
    <3>1. Uncounted(1, <<>>, 0)' = 0 /\ Uncounted(2, <<>>, 0)' = 0
      BY <1>3 DEF Uncounted
    <3>2. g_count' + due = 2 * runs'
      BY <1>1, <1>3, <1>4, <1>5
    <3>3. g_count' + due \in Int
      BY <1>1, <1>4
    <3> QED BY <3>1, <3>2, <3>3 DEF Balance
  <2> DEFINE q == Stage(left, <<>>, 0, due, FALSE)
  <2>3. AtStage(q)'
    BY <2>1, <2>2 DEF AtStage, Runs, Stage
  <2> HIDE DEF q
  <2>4. q \in Stages
    BY <1>5 DEF q
  <2> QED BY <1>4, <1>5, <2>3, <2>4 DEF MainInv
<1>6. MainInv' /\ runs' \in Nat
  <2>1. CASE todo' \in {m_create_thread_joinable, m_create_thread_detached, m_create_thread_attr,
                        m_create_thread_unjoinable, m_create_thread_cond, m_create_thread_sem} /\ UNCHANGED runs
    <3>1. Stage(todo', <<>>, 0, 0, FALSE) \in Stages
      BY <2>1 DEF Stages, PlainStages, CondStages, SemStages
    <3>2. PICK left : left = todo'
      OBVIOUS
    <3>3. Stage(left, <<>>, 0, 0, FALSE) \in Stages
      BY <3>1, <3>2
    <3> QED BY <1>5, <2>1, <3>2, <3>3
  <2>2. CASE todo' = m_create_thread_mutex /\ runs' = runs + 1
    <3>1. Stage(m_create_thread_mutex, <<>>, 0, 2, FALSE) \in Stages
      BY DEF Stages, MutexStages
    <3> QED BY <1>5, <2>2, <3>1
  <2> QED BY <2>1, <2>2 DEF Menu
<1>7. ThreadsTypeOK' /\ HolderInv'
  BY <1>1, <1>6 DEF ThreadsTypeOK, HolderInv
<1> QED BY <1>1, <1>6, <1>7 DEF ThreadsInv

LEMMA ThreadsStart ==
  ASSUME ThreadsInit
  PROVE  ThreadsInv
<1>1. \A t \in Tids : thread[t] = NoThread
  BY DEF ThreadsInit
<1>2. ThreadsTypeOK
  <2>1. thread \in [Tids -> ThreadRec] /\ \A t \in Tids : ThreadOK(thread[t])
    BY <1>1, NoThreadOK DEF ThreadsInit
  <2>2. pids \in Seq(Tids \cup {NoTid})
    BY DEF ThreadsInit
  <2> QED BY <2>1, <2>2 DEF ThreadsInit, ThreadsTypeOK
<1>3. HolderInv
  BY <1>1, NoThreadOK, ThreadsAssumption DEF ThreadsInit, HolderInv
<1>4. AtMenu
  BY <1>1, NoThreadOK DEF ThreadsInit, AtMenu, Foreground, Fore
<1> QED BY <1>2, <1>3, <1>4 DEF ThreadsInv, MainInv, ThreadsInit

LEMMA ThreadsStep ==
  ASSUME ThreadsInv, [ThreadsNext]_threadsVars
  PROVE  ThreadsInv'
<1>1. CASE Menu
  BY <1>1, MenuStep
<1>2. CASE Main
  BY <1>2, MainStep
<1>3. CASE \E t \in Tids : Thread(t) \/ (SpuriousWakeup(t) /\ UNCHANGED <<todo, pids, sval, cancelled, runs, failed, undef>>)
  BY <1>3, ThreadKeepsMain DEF Thread
<1>4. CASE UNCHANGED threadsVars
  BY <1>4 DEF threadsVars, ThreadsInv, ThreadsTypeOK, HolderInv, MainInv, AtMenu, AtStage, Runs, Shape, Balance,
              SemBalance, Uncounted, Waits, Posts, Done, Foreground
<1> QED BY <1>1, <1>2, <1>3, <1>4 DEF ThreadsNext

\* In the menu no thread is left.  Main has joined those that only it could give back;
\* both threads of every call of m_create_thread_mutex were counted; the mutex is free; and
\* the semaphore holds the five posts that no wait took.  (the functions of pthread.c and
\* semaphore.c, for every number of threads the system has)
THEOREM MenuLeavesNothing == ThreadsSpec => []NothingIsLeft
<1>1. ThreadsInv => NothingIsLeft
  <2> SUFFICES ASSUME ThreadsInv, todo = <<>>, ~undef
               PROVE  (\A t \in Tids : thread[t].at # "ended") /\ holder = NoTid /\ g_count = 2 * runs /\ sval = 5
    BY DEF NothingIsLeft
  <2>1. ThreadsTypeOK /\ HolderInv /\ sval = 5 /\ MainInv
    BY DEF ThreadsInv
  <2>2. AtMenu
    BY <2>1, StageNext DEF MainInv, AtStage, Runs, Shape
  <2>3. \A t \in Tids : thread[t].at \notin {"ended", "locked", "counted"}
    <3> SUFFICES ASSUME NEW t \in Tids PROVE thread[t].at \notin {"ended", "locked", "counted"}
      OBVIOUS
    <3>1. thread[t].fn \in {"none", "run_3", "run_4"} /\ ThreadOK(thread[t])
      BY <2>1, <2>2 DEF AtMenu, Foreground, ThreadsTypeOK, ThreadRec, Fns
    <3> QED BY <3>1 DEF ThreadOK
  <2>4. holder = NoTid
    BY <2>1, <2>3 DEF HolderInv, ThreadsTypeOK
  <2> QED BY <2>1, <2>2, <2>3, <2>4 DEF AtMenu
<1>2. ThreadsInit => ThreadsInv
  BY ThreadsStart
<1>3. ThreadsInv /\ [ThreadsNext]_threadsVars => ThreadsInv'
  BY ThreadsStep
<1> QED BY <1>1, <1>2, <1>3, PTL DEF ThreadsSpec
================================================================================
