------------------------------ MODULE IpcProofs ------------------------------
(***************************************************************************)
(* Proofs about Ipc for any number of calls and commands.  The types; that *)
(* the client is memory safe as long as the schedule is calm; that on      *)
(* every schedule, the unsafe ones included, a callback runs at most once  *)
(* and no request is replied to twice; and that a synchronous request      *)
(* returns the outputs of a reply to its own command.  Counted command by  *)
(* command, the server's response list is what is still to be answered,    *)
(* and the nodes the client has taken off its list are the replies it has  *)
(* taken.                                                                  *)
(***************************************************************************)
EXTENDS Ipc, ProofLemmas

USE DEF netVars, threadVars, listVars, recvVars, flagVars, clientVars,
        answerVars, serverVars

-----------------------------------------------------------------------------
(* Lists and messages.                                                      *)

\* Appending adds no element but the one appended.
LEMMA AppendElements ==
  ASSUME NEW S, NEW s \in Seq(S), NEW e \in S, NEW i \in 1..Len(Append(s, e))
  PROVE  Append(s, e)[i] = e \/ \E j \in 1..Len(s) : Append(s, e)[i] = s[j]
<1>1. Len(s) \in Nat /\ Len(Append(s, e)) = Len(s) + 1 /\ Append(s, e)[Len(s) + 1] = e
  BY AppendProperties, LenProperties
<1>2. \A j \in 1..Len(s) : Append(s, e)[j] = s[j]
  BY AppendProperties
<1>3. i = Len(s) + 1 \/ i \in 1..Len(s)
  BY <1>1
<1> QED BY <1>1, <1>2, <1>3

\* Popping the head keeps a queue a queue.
LEMMA PopProperties ==
  ASSUME NEW S, NEW s \in Seq(S), s # <<>>
  PROVE  Head(s) \in S /\ Tail(s) \in Seq(S)
BY HeadTailProperties

-----------------------------------------------------------------------------
(* Types.                                                                   *)

LEMMA InitTyped == Init => TypeOK
<1> SUFFICES ASSUME Init PROVE TypeOK
  OBVIOUS
<1>1. ClientTypeOK
  <2> USE DEF Init, ClientInit, Steps, Hazards
  <2>1. kind \in [Calls -> Kinds]
    BY ClientAssumption
  <2>2. resp \in Seq(Calls) /\ regs \in Seq(Calls)
    OBVIOUS
  <2>3. pc \in [Calls -> Steps] /\ heap \in [Calls -> {"none", "alloc", "freed"}]
    OBVIOUS
  <2>4. out \in [Calls -> Calls \cup {None}] /\ result \in [Calls -> Calls \cup {None}]
    OBVIOUS
  <2>5. ret \in [Calls -> {"none", "ok", "error"}] /\ runs \in [Calls -> Nat]
    OBVIOUS
  <2> QED BY <2>1, <2>2, <2>3, <2>4, <2>5 DEF ClientTypeOK
<1>2. ServerTypeOK
  <2> USE DEF Init, ServerInit
  <2>1. sresp \in Seq(Calls) /\ sregs \in Seq(Calls)
    OBVIOUS
  <2>2. scmd \in [Calls -> Cmds \cup {None}]
    OBVIOUS
  <2>3. reports \in 0..MaxReports
    BY ServerAssumption
  <2>4. amsg \in Answer \cup Report \cup {None} /\ apc = "idle"
    OBVIOUS
  <2> QED BY <2>1, <2>2, <2>3, <2>4 DEF ServerTypeOK
<1>3. NetTypeOK
  BY DEF Init, NetInit, NetTypeOK
<1> QED BY <1>1, <1>2, <1>3 DEF TypeOK

\* A step of a calling thread keeps the types of the client and of the sockets.
LEMMA CallerTyped ==
  ASSUME ClientTypeOK, NetTypeOK, NEW c \in Calls, Caller(c)
  PROVE  ClientTypeOK' /\ NetTypeOK'
<1> USE DEF Goto, Return, Free
<1>1. CASE Begin(c)
  <2>1. CASE heap' = [heap EXCEPT ![c] = "alloc"] /\ Goto(c, "send") /\ UNCHANGED ret
    BY <1>1, <2>1 DEF Begin, ClientTypeOK, NetTypeOK, Steps, Hazards
  <2>2. CASE \E r \in {"ok", "error"} :
               (r = "ok" => kind[c] = "register") /\ Return(c, r) /\ UNCHANGED heap
    BY <1>1, <2>2 DEF Begin, ClientTypeOK, NetTypeOK, Steps, Hazards
  <2>3. CASE Free(c) /\ Return(c, "error")
    BY <1>1, <2>3 DEF Begin, ClientTypeOK, NetTypeOK, Steps, Hazards
  <2> QED BY <1>1, <2>1, <2>2, <2>3 DEF Begin
<1>2. CASE Send(c)
  <2> DEFINE m == [cmd |-> cmd[c], respond |-> FALSE,
                   async |-> kind[c] = "async", arg |-> c]
  <2>1. m \in Request
    BY DEF Request, ClientTypeOK
  <2>2. UNCHANGED <<kind, cmd, out, result, runs, listVars, recvVars, flagVars, toClient>>
    BY <1>2 DEF Send
  <2>3. Append(toServer, m) \in Seq(Request)
    BY <2>1, AppendProperties DEF NetTypeOK
  <2>4. toServer' \in Seq(Request)
    BY <1>2, <2>3 DEF Send, NetTypeOK
  <2>5. /\ pc' \in [Calls -> Steps] /\ heap' \in [Calls -> {"none", "alloc", "freed"}]
        /\ ret' \in [Calls -> {"none", "ok", "error"}]
    BY <1>2 DEF Send, ClientTypeOK, Steps
  <2> QED BY <2>2, <2>4, <2>5 DEF ClientTypeOK, NetTypeOK, listVars, recvVars, flagVars
<1>3. CASE Insert(c)
  <2>1. ASSUME NEW list \in Seq(Calls)
        PROVE  Append(list, c) \in Seq(Calls)
    BY AppendProperties
  <2>2. resp' \in Seq(Calls) /\ regs' \in Seq(Calls)
    BY <1>3, <2>1 DEF Insert, InsertTail, ClientTypeOK
  <2>3. fault' \in BOOLEAN
    BY <1>3 DEF Insert, InsertTail, ClientTypeOK
  <2>4. pc' \in [Calls -> Steps]
    <3>1. pc' = pc \/ \E p \in {"lock", "done"} : pc' = [pc EXCEPT ![c] = p]
      BY <1>3 DEF Insert, InsertTail
    <3> QED BY <3>1 DEF ClientTypeOK, Steps
  <2>5. ret' \in [Calls -> {"none", "ok", "error"}]
    BY <1>3 DEF Insert, InsertTail, ClientTypeOK
  <2>6. UNCHANGED <<kind, cmd, heap, out, result, runs, recvVars, hz, seen, netVars>>
    BY <1>3 DEF Insert
  <2> QED BY <2>2, <2>3, <2>4, <2>5, <2>6 DEF ClientTypeOK, NetTypeOK, recvVars, netVars
<1>4. CASE Wait(c)
  BY <1>4 DEF Wait, ClientTypeOK, NetTypeOK, Steps, Hazards
<1>5. CASE CopyBack(c)
  BY <1>5 DEF CopyBack, ClientTypeOK, NetTypeOK, Steps, Hazards
<1>6. CASE SpuriousWakeup(c)
  <2>1. pc' \in [Calls -> Steps] /\ hz' \in SUBSET Hazards
    BY <1>6 DEF SpuriousWakeup, ClientTypeOK, Steps, Hazards
  <2> QED BY <1>6, <2>1 DEF SpuriousWakeup, ClientTypeOK, NetTypeOK
<1>7. CASE TimeoutFires(c)
  BY <1>7 DEF TimeoutFires, ClientTypeOK, NetTypeOK, Steps, Hazards
<1>8. CASE GiveUp(c)
  <2>1. /\ pc' \in [Calls -> Steps] /\ heap' \in [Calls -> {"none", "alloc", "freed"}]
        /\ ret' \in [Calls -> {"none", "ok", "error"}] /\ fault' \in BOOLEAN
    BY <1>8 DEF GiveUp, ClientTypeOK, Steps
  <2> QED BY <1>8, <2>1 DEF GiveUp, ClientTypeOK, NetTypeOK
<1> QED BY <1>1, <1>2, <1>3, <1>4, <1>5, <1>6, <1>7, <1>8 DEF Caller, Runs

\* A lookup that fails leaves the receive thread with a pointer of the right type.
LEMMA LookupMissesTyped ==
  ASSUME ClientTypeOK, NEW list \in Seq(Calls), LookupMisses(list)
  PROVE  /\ rnode' \in Calls \cup {None, Wild} /\ rpc' \in {rpc, "dispatch"}
         /\ fault' \in BOOLEAN /\ hz' \in SUBSET Hazards
         /\ resp' = resp /\ regs' = regs
<1>1. list # <<>> => list[Len(list)] \in Calls
  BY EmptySeq, LenProperties, ElementOfSeq
<1> QED BY <1>1 DEF ClientTypeOK, LookupMisses, Hazards

\* A step of the receive thread keeps the types.
LEMMA ReceiverTyped ==
  ASSUME ClientTypeOK, NetTypeOK, Receiver
  PROVE  ClientTypeOK' /\ NetTypeOK'
<1> USE DEF ClientTypeOK, NetTypeOK
<1>1. CASE Accept
  <2>1. Head(toClient) \in Answer \cup Report /\ Tail(toClient) \in Seq(Answer \cup Report)
    BY <1>1, PopProperties DEF Accept
  <2> QED BY <1>1, <2>1 DEF Accept
<1>2. CASE LookupRespond
  <2>1. rmsg \in Answer /\ seen' \in SUBSET Calls
    BY <1>2 DEF LookupRespond, IsRespond, Answer, Report
  <2>2. CASE RespondMatches
    <3>1. PICK i \in 1..Len(resp) :
            /\ IF \E j \in 1..(i + 1) : Freed(resp, j)
               THEN fault' = TRUE /\ UNCHANGED <<rpc, rnode, resp>>
               ELSE /\ resp' = RemoveAt(resp, i)
                    /\ rnode' = resp[i]
                    /\ rpc' = "dispatch"
                    /\ UNCHANGED fault
      BY <2>2, Zenon DEF RespondMatches
    <3>2. resp' \in Seq(Calls)
      BY <3>1, RemoveAtProperties
    <3>3. resp[i] \in Calls
      BY <3>1, ElementOfSeq
    <3>4. UNCHANGED <<regs, hz>>
      BY <2>2 DEF RespondMatches
    <3> QED BY <1>2, <2>1, <3>1, <3>2, <3>3, <3>4 DEF LookupRespond
  <2>3. CASE LookupMisses(resp)
    BY <1>2, <2>1, <2>3, LookupMissesTyped DEF LookupRespond
  <2> QED BY <1>2, <2>2, <2>3 DEF LookupRespond
<1>3. CASE LookupReport
  <2>1. CASE ReportMatches
    <3>1. PICK i \in 1..Len(regs) :
            IF \E j \in 1..i : Freed(regs, j)
            THEN fault' = TRUE /\ UNCHANGED <<rpc, rnode, hz>>
            ELSE /\ rnode' = regs[i]
                 /\ rpc' = "dispatch"
                 /\ hz' = hz \cup {"report"}
                 /\ UNCHANGED fault
      BY <2>1, Zenon DEF ReportMatches
    <3>2. regs[i] \in Calls /\ UNCHANGED listVars
      BY <2>1, ElementOfSeq DEF ReportMatches
    <3> QED BY <1>3, <3>1, <3>2 DEF LookupReport, Hazards
  <2>2. CASE LookupMisses(regs)
    BY <1>3, <2>2, LookupMissesTyped DEF LookupReport
  <2> QED BY <1>3, <2>1, <2>2 DEF LookupReport
<1>4. CASE Dispatch
  <2>1. rmsg.arg \in Calls \cup {None}
    BY <1>4 DEF Dispatch, Answer, Report
  <2>2. CASE rnode \in Calls /\ heap[rnode] # "freed" /\ ProcessSyncCall(rnode) /\ UNCHANGED fault
    BY <1>4, <2>1, <2>2 DEF Dispatch, ProcessSyncCall
  <2>3. CASE rnode \in Calls /\ heap[rnode] # "freed" /\ ProcessAsyncCall(rnode) /\ UNCHANGED fault
    <3>1. runs' = runs \/ runs' = [runs EXCEPT ![rnode] = @ + 1]
      BY <2>3 DEF ProcessAsyncCall
    <3>2. runs' \in [Calls -> Nat]
      <4>1. rnode \in Calls /\ runs \in [Calls -> Nat]
        BY <2>3
      <4>2. \A n \in Nat : n + 1 \in Nat
        OBVIOUS
      <4> HIDE DEF ClientTypeOK, NetTypeOK
      <4> QED BY <3>1, <4>1, <4>2
    <3>3. /\ out' \in [Calls -> Calls \cup {None}] /\ rpc' = "accept"
          /\ heap' \in [Calls -> {"none", "alloc", "freed"}]
      BY <2>1, <2>3 DEF ProcessAsyncCall, Free
    <3> QED BY <1>4, <2>3, <3>2, <3>3 DEF Dispatch
  <2>4. CASE UNCHANGED <<out, runs, heap>> /\ fault' \in BOOLEAN /\ rpc' \in {"accept", rpc}
    BY <1>4, <2>4 DEF Dispatch
  <2> QED BY <1>4, <2>2, <2>3, <2>4 DEF Dispatch
<1>5. CASE Signal
  BY <1>5 DEF Signal, Goto, Steps
<1> QED BY <1>1, <1>2, <1>3, <1>4, <1>5 DEF Receiver

\* A step of the server keeps the types of the server and of the sockets.
LEMMA ServeTyped ==
  ASSUME ServerTypeOK, NetTypeOK, Serve
  PROVE  ServerTypeOK' /\ NetTypeOK'
<1> USE DEF ServerTypeOK, NetTypeOK
<1> DEFINE m == Head(toServer)
<1>1. m \in Request /\ toServer' \in Seq(Request)
  BY PopProperties DEF Serve
<1>2. m.arg \in Calls /\ m.cmd \in Cmds
  BY <1>1 DEF Request
<1>3. ReplyTo(m.arg, m.cmd) \in Answer /\ ReportOf(m.cmd) \in Report
  BY <1>2 DEF ReplyTo, ReportOf, Answer, Report
<1>4. scmd' \in [Calls -> Cmds \cup {None}] /\ (\A c \in handed' : scmd'[c] \in Cmds)
  <2>1. CASE HandleSync(m)
    BY <2>1 DEF HandleSync
  <2>2. CASE HandleAsync(m)
    BY <2>2, <1>2 DEF HandleAsync
  <2>3. CASE HandleRegister(m)
    BY <2>3, <1>2 DEF HandleRegister
  <2> QED BY <2>1, <2>2, <2>3 DEF Serve
<1> HIDE DEF m
<1>5. HandleSync(m) \/ HandleAsync(m) \/ HandleRegister(m)
  BY DEF Serve, m
<1>6. CASE HandleSync(m)
  <2>1. Append(toClient, ReplyTo(m.arg, m.cmd)) \in Seq(Answer \cup Report)
    BY <1>3, AppendProperties
  <2>2. toClient' \in Seq(Answer \cup Report) /\ lost' \in SUBSET Calls
    BY <1>6, <1>2, <2>1 DEF HandleSync
  <2> QED BY <1>6, <1>1, <2>2 DEF HandleSync
<1>7. CASE HandleAsync(m)
  <2>1. sresp' \in Seq(Calls)
    <3>1. Append(sresp, m.arg) \in Seq(Calls)
      BY <1>2, AppendProperties
    <3> QED BY <1>7, <3>1 DEF HandleAsync
  <2>2. /\ apc' \in {apc, "answer"} /\ amsg' \in {amsg, ReplyTo(m.arg, m.cmd)}
        /\ apc' = apc \/ amsg' = ReplyTo(m.arg, m.cmd)
        /\ amsg' = amsg \/ apc' = "answer"
    BY <1>7 DEF HandleAsync
  <2>3. handed' \in SUBSET Calls /\ answered' \in SUBSET handed' /\ lost' \in SUBSET Calls
    BY <1>7, <1>2 DEF HandleAsync
  <2>4. sfault' \in BOOLEAN
    BY <1>7 DEF HandleAsync
  <2> QED BY <1>7, <1>1, <1>3, <1>4, <2>1, <2>2, <2>3, <2>4 DEF HandleAsync
<1>8. CASE HandleRegister(m)
  <2>1. sregs' \in Seq(Calls)
    <3>1. Append(sregs, m.arg) \in Seq(Calls)
      BY <1>2, AppendProperties
    <3> QED BY <1>8, <3>1 DEF HandleRegister
  <2>2. /\ apc' \in {apc, "report"} /\ amsg' \in {amsg, ReportOf(m.cmd)}
        /\ apc' = apc \/ amsg' = ReportOf(m.cmd)
        /\ amsg' = amsg \/ apc' = "report"
        /\ lost' \in SUBSET Calls
    BY <1>8, <1>2 DEF HandleRegister
  <2> QED BY <1>8, <1>1, <1>3, <1>4, <2>1, <2>2 DEF HandleRegister
<1> QED BY <1>5, <1>6, <1>7, <1>8

\* So does a step of the thread that answers and reports.
LEMMA AnswererTyped ==
  ASSUME ServerTypeOK, NetTypeOK, Answerer
  PROVE  ServerTypeOK' /\ NetTypeOK'
<1> USE DEF ServerTypeOK, NetTypeOK
<1>1. CASE SendAnswer
  <2>1. toClient' \in Seq(Answer \cup Report)
    <3>1. amsg \in Answer \cup Report
      BY <1>1 DEF SendAnswer
    <3>2. Append(toClient, amsg) \in Seq(Answer \cup Report)
      BY <3>1, AppendProperties
    <3> QED BY <1>1, <3>2 DEF SendAnswer
  <2>2. amsg.arg \in Calls
    BY <1>1 DEF SendAnswer, Answer
  <2> QED BY <1>1, <2>1, <2>2 DEF SendAnswer
<1>2. CASE RemoveNode
  <2>1. CASE AnswerMatches
    <3>1. PICK i \in 1..Len(sresp) :
            IF \E j \in 1..(i + 1) : SFreed(j)
            THEN sfault' = TRUE /\ UNCHANGED <<sresp, sfreed>>
            ELSE /\ sresp' = RemoveAt(sresp, i)
                 /\ sfreed' = sfreed \cup {sresp[i]}
                 /\ UNCHANGED sfault
      BY <2>1, Zenon DEF AnswerMatches
    <3>2. sresp[i] \in Calls /\ RemoveAt(sresp, i) \in Seq(Calls)
      BY ElementOfSeq, RemoveAtProperties
    <3> QED BY <1>2, <3>1, <3>2 DEF RemoveNode
  <2>2. CASE AnswerMisses
    <3>1. sresp # <<>> => sresp[Len(sresp)] \in Calls
      BY EmptySeq, LenProperties, ElementOfSeq
    <3>2. sfreed' \in SUBSET Calls /\ sfault' \in BOOLEAN /\ UNCHANGED sresp
      BY <2>2, <3>1 DEF AnswerMisses
    <3> QED BY <1>2, <3>2 DEF RemoveNode
  <2> QED BY <1>2, <2>1, <2>2 DEF RemoveNode
<1>3. CASE SendReport
  <2>1. toClient' \in Seq(Answer \cup Report)
    <3>1. amsg \in Answer \cup Report
      BY <1>3 DEF SendReport
    <3>2. Append(toClient, amsg) \in Seq(Answer \cup Report)
      BY <3>1, AppendProperties
    <3> QED BY <1>3, <3>2 DEF SendReport
  <2> QED BY <1>3, <2>1 DEF SendReport
<1>4. ASSUME NEW c \in Calls, NEW bit \in AnswerBits, StartAnswer(c, bit)
      PROVE  ServerTypeOK' /\ NetTypeOK'
  <2>1. bit \in BOOLEAN
    BY ServerAssumption
  <2>2. [ReplyTo(c, scmd[c]) EXCEPT !.respond = bit] \in Answer
    BY <1>4, <2>1 DEF StartAnswer, ReplyTo, Answer
  <2> QED BY <1>4, <2>2 DEF StartAnswer
<1>5. ASSUME NEW w \in RegCmds, StartReport(w)
      PROVE  ServerTypeOK' /\ NetTypeOK'
  <2>1. ReportOf(w) \in Report
    BY DEF ReportOf, Report, Cmds
  <2>2. reports' \in 0..MaxReports
    BY <1>5, ServerAssumption DEF StartReport
  <2> QED BY <1>5, <2>1, <2>2 DEF StartReport
<1> QED BY <1>1, <1>2, <1>3, <1>4, <1>5 DEF Answerer

\* Client and server leave each other's variables alone.
LEMMA StepTyped == TypeOK /\ [Next]_vars => TypeOK'
<1> SUFFICES ASSUME TypeOK, [Next]_vars PROVE TypeOK'
  OBVIOUS
<1>1. CASE ClientStep
  <2>1. ClientTypeOK' /\ NetTypeOK'
    BY <1>1, CallerTyped, ReceiverTyped DEF ClientStep, ClientNext, TypeOK
  <2>2. ServerTypeOK'
    BY <1>1 DEF ClientStep, TypeOK, ServerTypeOK
  <2> QED BY <2>1, <2>2 DEF TypeOK
<1>2. CASE ServerStep
  <2>1. ServerTypeOK' /\ NetTypeOK'
    BY <1>2, ServeTyped, AnswererTyped DEF ServerStep, ServerNext, TypeOK
  <2>2. ClientTypeOK'
    BY <1>2 DEF ServerStep, TypeOK, ClientTypeOK
  <2> QED BY <2>1, <2>2 DEF TypeOK
<1>3. CASE UNCHANGED vars
  BY <1>3 DEF vars, TypeOK, ClientTypeOK, ServerTypeOK, NetTypeOK
<1> QED BY <1>1, <1>2, <1>3 DEF Next, Idle

\* Every variable of the client, the server and the two sockets stays in its type.
THEOREM TypeCorrect == Spec => []TypeOK
<1>1. Init => TypeOK
  BY InitTyped
<1>2. TypeOK /\ [Next]_vars => TypeOK'
  BY StepTyped
<1> QED BY <1>1, <1>2, PTL DEF Spec

-----------------------------------------------------------------------------
(* Memory safety of the client.                                             *)

LEMMA InitSafe == Init => ClientInv
BY DEF Init, ClientInit, ClientInv, OwnersSound, ListsSound, ListSound, HandSound

\* A call about to insert is on neither list, and in nobody's hand.
LEMMA NotYetListed ==
  ASSUME ClientTypeOK, OwnersSound, ListsSound, HandSound,
         NEW c \in Calls, pc[c] \in {"start", "send", "insert"}
  PROVE  /\ \A i \in 1..Len(resp) : resp[i] # c
         /\ \A i \in 1..Len(regs) : regs[i] # c
         /\ rpc \in {"dispatch", "signal"} => rnode # c
BY DEF ListsSound, ListSound, HandSound

\* What a calling thread does to its own node disturbs nobody else's, as long as
\* it does not time out.
LEMMA CallerSafe ==
  ASSUME ClientTypeOK, ClientInv, NEW c \in Calls, Caller(c)
  PROVE  ClientInv'
<1> SUFFICES ASSUME Calm' PROVE (~fault /\ OwnersSound /\ ListsSound /\ HandSound)'
  BY DEF ClientInv
<1>1. hz \subseteq hz'
  BY DEF Caller, Runs, Begin, Send, Insert, Wait, CopyBack, SpuriousWakeup, TimeoutFires, GiveUp
<1>2. ~fault /\ OwnersSound /\ ListsSound /\ HandSound
  BY <1>1 DEF ClientInv, Calm
<1> USE DEF ClientTypeOK, Goto, Return, Free
<1>3. CASE Begin(c) \/ Send(c)
  <2>1. pc[c] \in {"start", "send"} /\ UNCHANGED <<kind, listVars, recvVars, fault>>
    BY <1>3 DEF Begin, Send
  <2>2. /\ \A d \in Calls \ {c} : pc'[d] = pc[d] /\ heap'[d] = heap[d]
        /\ pc'[c] \in {"send", "insert", "done"}
        /\ pc'[c] \in {"send", "insert"} => heap'[c] = "alloc"
    BY <1>2, <1>3 DEF Begin, Send, OwnersSound
  <2>3. /\ \A i \in 1..Len(resp) : resp[i] \in Calls \ {c}
        /\ \A i \in 1..Len(regs) : regs[i] \in Calls \ {c}
        /\ rpc \in {"dispatch", "signal"} => rnode # c
    BY <1>2, <2>1, NotYetListed, ElementOfSeq
  <2>4. OwnersSound'
    BY <1>2, <2>1, <2>2 DEF OwnersSound
  <2>5. ListSound(resp)' /\ ListSound(regs)'
    <3>1. resp' = resp /\ regs' = regs
      BY <2>1 DEF listVars
    <3>2. \A i \in 1..Len(resp) :
            heap'[resp[i]] = heap[resp[i]] /\ pc'[resp[i]] = pc[resp[i]]
      BY <2>2, <2>3
    <3>3. \A i \in 1..Len(regs) :
            heap'[regs[i]] = heap[regs[i]] /\ pc'[regs[i]] = pc[regs[i]]
      BY <2>2, <2>3
    <3>4. ListSound(resp) /\ ListSound(regs)
      BY <1>2 DEF ListsSound
    <3>5. ListSound(resp)'
      BY <3>1, <3>2, <3>4 DEF ListSound
    <3>6. ListSound(regs)'
      BY <3>1, <3>3, <3>4 DEF ListSound
    <3> QED BY <3>5, <3>6
  <2>6. ListsSound'
    BY <1>2, <2>1, <2>5 DEF ListsSound
  <2>7. HandSound'
    BY <1>2, <2>1, <2>2, <2>3 DEF HandSound
  <2> QED BY <1>2, <2>1, <2>4, <2>6, <2>7
<1>4. CASE Insert(c)
  <2>1. ~Freed(resp, Len(resp)) /\ ~Freed(regs, Len(regs))
    BY <1>2 DEF Freed, ListsSound, ListSound
  <2>2. UNCHANGED <<kind, heap, recvVars, fault>>
    BY <1>4, <2>1 DEF Insert, InsertTail
  <2>3. /\ pc[c] = "insert" /\ heap[c] = "alloc"
        /\ \A d \in Calls \ {c} : pc'[d] = pc[d]
        /\ pc'[c] \in {"lock", "done"} /\ (pc'[c] = "lock" => kind[c] = "sync")
    BY <1>2, <1>4, <2>1 DEF Insert, InsertTail, OwnersSound
  <2>4. /\ \A i \in 1..Len(resp) : resp[i] \in Calls \ {c}
        /\ \A i \in 1..Len(regs) : regs[i] \in Calls \ {c}
        /\ rpc \in {"dispatch", "signal"} => rnode # c
    BY <1>2, <2>3, NotYetListed, ElementOfSeq
  <2>5. OwnersSound'
    BY <1>2, <2>2, <2>3 DEF OwnersSound
  <2>6. CASE kind[c] = "register" /\ regs' = Append(regs, c) /\ UNCHANGED resp
    <3>1. /\ Len(regs') = Len(regs) + 1 /\ Len(regs) \in Nat /\ regs'[Len(regs) + 1] = c
          /\ \A i \in 1..Len(regs) : regs'[i] = regs[i]
      BY <2>6, AppendProperties, LenProperties
    <3>2. ListsSound'
      <4>1. \A i \in 1..Len(regs') :
              \/ i \in 1..Len(regs) /\ regs'[i] = regs[i] /\ regs'[i] \in Calls \ {c}
              \/ i = Len(regs) + 1 /\ regs'[i] = c
        BY <2>4, <3>1
      <4>2. \A i \in 1..Len(regs') :
              /\ heap'[regs'[i]] = "alloc" /\ pc'[regs'[i]] \in {"lock", "wait", "copy", "done"}
              /\ kind'[regs'[i]] = "register"
        BY <1>2, <2>2, <2>3, <2>6, <4>1 DEF ListsSound, ListSound
      <4>3. \A i, j \in 1..Len(regs') : regs'[i] = regs'[j] => i = j
        <5>1. \A i, j \in 1..Len(regs) : regs[i] = regs[j] => i = j
          BY <1>2 DEF ListsSound, ListSound
        <5> QED BY <4>1, <5>1
      <4>4. ListSound(resp)' /\ (\A i \in 1..Len(resp) : kind[resp[i]] # "register")'
        BY <1>2, <2>2, <2>3, <2>4, <2>6 DEF ListsSound, ListSound
      <4>5. ListSound(regs)' /\ (\A i \in 1..Len(regs) : kind[regs[i]] = "register")'
        BY <4>2, <4>3 DEF ListSound
      <4> QED BY <4>4, <4>5 DEF ListsSound
    <3>3. HandSound'
      BY <1>2, <2>2, <2>3, <2>4, <2>6 DEF HandSound
    <3> QED BY <1>2, <2>2, <2>5, <3>2, <3>3
  <2>7. CASE kind[c] # "register" /\ resp' = Append(resp, c) /\ UNCHANGED regs
    <3>1. /\ Len(resp') = Len(resp) + 1 /\ Len(resp) \in Nat /\ resp'[Len(resp) + 1] = c
          /\ \A i \in 1..Len(resp) : resp'[i] = resp[i]
      BY <2>7, AppendProperties, LenProperties
    <3>2. ListsSound'
      <4>1. \A i \in 1..Len(resp') :
              \/ i \in 1..Len(resp) /\ resp'[i] = resp[i] /\ resp'[i] \in Calls \ {c}
              \/ i = Len(resp) + 1 /\ resp'[i] = c
        BY <2>4, <3>1
      <4>2. \A i \in 1..Len(resp') :
              /\ heap'[resp'[i]] = "alloc" /\ pc'[resp'[i]] \in {"lock", "wait", "copy", "done"}
              /\ kind'[resp'[i]] # "register"
        BY <1>2, <2>2, <2>3, <2>7, <4>1 DEF ListsSound, ListSound
      <4>3. \A i, j \in 1..Len(resp') : resp'[i] = resp'[j] => i = j
        <5>1. \A i, j \in 1..Len(resp) : resp[i] = resp[j] => i = j
          BY <1>2 DEF ListsSound, ListSound
        <5> QED BY <4>1, <5>1
      <4>4. ListSound(regs)' /\ (\A i \in 1..Len(regs) : kind[regs[i]] = "register")'
        BY <1>2, <2>2, <2>3, <2>4, <2>7 DEF ListsSound, ListSound
      <4>5. ListSound(resp)' /\ (\A i \in 1..Len(resp) : kind[resp[i]] # "register")'
        BY <4>2, <4>3 DEF ListSound
      <4> QED BY <4>4, <4>5 DEF ListsSound
    <3>3. \A i \in 1..Len(resp') : resp'[i] = c \/ \E j \in 1..Len(resp) : resp'[i] = resp[j]
      BY <2>7, AppendElements
    <3>4. HandSound'
      <4> SUFFICES ASSUME rpc \in {"dispatch", "signal"} PROVE HandSound'
        BY <2>2 DEF HandSound
      <4>1. \A i \in 1..Len(resp') : resp'[i] # rnode
        BY <1>2, <2>4, <3>3 DEF HandSound
      <4>2. rnode \in Calls \ {c}
        BY <1>2, <2>4 DEF HandSound
      <4> QED BY <1>2, <2>2, <2>3, <4>1, <4>2 DEF HandSound
    <3> QED BY <1>2, <2>2, <2>5, <3>2, <3>4
  <2> QED BY <1>4, <2>1, <2>6, <2>7 DEF Insert, InsertTail
<1>5. CASE Wait(c) \/ SpuriousWakeup(c) \/ CopyBack(c)
  <2>1. /\ pc[c] \in {"lock", "wait", "copy"} /\ heap[c] = "alloc"
        /\ UNCHANGED <<kind, heap, listVars, recvVars>>
        /\ \A d \in Calls \ {c} : pc'[d] = pc[d]
        /\ pc'[c] \in {"wait", "copy", "done"}
    BY <1>2, <1>5 DEF Wait, SpuriousWakeup, CopyBack, OwnersSound
  <2>2. fault' = fault
    BY <1>5, <2>1 DEF Wait, SpuriousWakeup, CopyBack
  <2>3. OwnersSound'
    BY <1>2, <2>1 DEF OwnersSound
  <2>4. ASSUME NEW list \in Seq(Calls), ListSound(list)
        PROVE  ListSound(list)'
    <3>1. \A i \in 1..Len(list) : list[i] \in Calls
      BY ElementOfSeq
    <3>2. \A i \in 1..Len(list) : pc'[list[i]] \in {"lock", "wait", "copy", "done"}
      BY <2>1, <2>4, <3>1 DEF ListSound
    <3> QED BY <2>1, <2>4, <3>2 DEF ListSound
  <2>5. ListsSound'
    BY <1>2, <2>1, <2>4 DEF ListsSound
  <2>6. HandSound'
    BY <1>2, <2>1 DEF HandSound
  <2> QED BY <1>2, <2>2, <2>3, <2>5, <2>6
<1>6. CASE TimeoutFires(c)
  BY <1>6 DEF TimeoutFires, Calm
<1>7. CASE GiveUp(c)
  BY <1>2, <1>7 DEF GiveUp, OwnersSound
<1> QED BY <1>3, <1>4, <1>5, <1>6, <1>7 DEF Caller, Runs

\* Without an unmatched message and without a report, the receive thread unlinks
\* the node it works on, and frees it only when its owner has returned.
LEMMA ReceiverSafe ==
  ASSUME ClientTypeOK, ClientInv, Receiver
  PROVE  ClientInv'
<1> SUFFICES ASSUME Calm' PROVE (~fault /\ OwnersSound /\ ListsSound /\ HandSound)'
  BY DEF ClientInv
<1>1. hz \subseteq hz'
  BY DEF Receiver, Accept, LookupRespond, RespondMatches, LookupReport, ReportMatches,
         LookupMisses, Dispatch, Signal
<1>2. ~fault /\ OwnersSound /\ ListsSound /\ HandSound
  BY <1>1 DEF ClientInv, Calm
<1>3. /\ \A i : ~Freed(resp, i) /\ ~Freed(regs, i)
      /\ \A i \in 1..Len(resp) : resp[i] \in Calls
      /\ \A i \in 1..Len(regs) : regs[i] \in Calls
  BY <1>2, ElementOfSeq DEF Freed, ListsSound, ListSound, ClientTypeOK
<1>4. ~LookupMisses(resp) /\ ~LookupMisses(regs)
  BY <1>3 DEF LookupMisses, Calm
<1>5. CASE Accept
  <2>1. UNCHANGED <<threadVars, listVars, fault>> /\ rpc' \in {"accept", "lookup"}
    BY <1>5 DEF Accept
  <2> QED BY <1>2, <2>1 DEF OwnersSound, ListsSound, ListSound, HandSound
<1>6. CASE LookupRespond
  <2>1. UNCHANGED <<threadVars, rmsg>> /\ IsRespond(rmsg)
    BY <1>6 DEF LookupRespond
  <2>2. PICK i \in 1..Len(resp) :
          /\ resp' = RemoveAt(resp, i) /\ rnode' = resp[i] /\ rpc' = "dispatch"
          /\ UNCHANGED <<fault, regs>>
    BY <1>3, <1>4, <1>6 DEF LookupRespond, RespondMatches
  <2>3. /\ Len(resp) \in Nat /\ i \in Nat /\ Len(resp') = Len(resp) - 1
        /\ \A j \in 1..(Len(resp) - 1) : resp'[j] = IF j < i THEN resp[j] ELSE resp[j + 1]
    <3>1. /\ Len(RemoveAt(resp, i)) = Len(resp) - 1
          /\ \A j \in 1..(Len(resp) - 1) :
               RemoveAt(resp, i)[j] = IF j < i THEN resp[j] ELSE resp[j + 1]
      BY RemoveAtProperties DEF ClientTypeOK
    <3>2. Len(resp) \in Nat /\ i \in Nat
      BY LenProperties DEF ClientTypeOK
    <3> QED BY <2>2, <3>1, <3>2
  <2>4. /\ \A j \in 1..Len(resp') : \E k \in 1..Len(resp) : k # i /\ resp'[j] = resp[k]
        /\ \A j, l \in 1..Len(resp') : resp'[j] = resp'[l] => j = l
    <3>1. /\ \A j \in 1..(Len(resp) - 1) :
               (j < i => j \in 1..Len(resp)) /\ j + 1 \in 1..Len(resp)
      BY <2>3
    <3>2. \A j, l \in 1..Len(resp) : resp[j] = resp[l] => j = l
      BY <1>2 DEF ListsSound, ListSound
    <3>3. \A j \in 1..Len(resp') : \E k \in 1..Len(resp) : k # i /\ resp'[j] = resp[k]
      <4> TAKE j \in 1..Len(resp')
      <4>1. CASE j < i
        BY <2>3, <3>1, <4>1
      <4>2. CASE ~(j < i)
        BY <2>3, <3>1, <4>2
      <4> QED BY <4>1, <4>2
    <3>4. ASSUME NEW j \in 1..Len(resp'), NEW l \in 1..Len(resp'), resp'[j] = resp'[l]
          PROVE  j = l
      <4> DEFINE at(k) == IF k < i THEN k ELSE k + 1
      <4>1. at(j) \in 1..Len(resp) /\ at(l) \in 1..Len(resp)
        BY <2>3, <3>1
      <4>2. resp'[j] = resp[at(j)] /\ resp'[l] = resp[at(l)]
        BY <2>3
      <4>3. at(j) = at(l)
        BY <3>2, <3>4, <4>1, <4>2
      <4> QED BY <2>3, <4>3
    <3> QED BY <3>3, <3>4
  <2>5. OwnersSound'
    BY <1>2, <2>1 DEF OwnersSound
  <2>6. ListsSound'
    <3>1. ListSound(resp)'
      <4>1. \A j \in 1..Len(resp') :
              heap'[resp'[j]] = "alloc" /\ pc'[resp'[j]] \in {"lock", "wait", "copy", "done"}
        BY <1>2, <2>1, <2>4 DEF ListsSound, ListSound
      <4> QED BY <2>4, <4>1 DEF ListSound
    <3>2. (\A j \in 1..Len(resp) : kind[resp[j]] # "register")'
      BY <1>2, <2>1, <2>4 DEF ListsSound
    <3>3. (ListSound(regs) /\ \A j \in 1..Len(regs) : kind[regs[j]] = "register")'
      BY <1>2, <2>1, <2>2 DEF ListsSound, ListSound
    <3> QED BY <3>1, <3>2, <3>3 DEF ListsSound
  <2>7. HandSound'
    <3>1. \A j \in 1..Len(resp') : resp'[j] # rnode'
      BY <1>2, <2>2, <2>4 DEF ListsSound, ListSound
    <3>2. /\ rnode' \in Calls /\ heap[rnode'] = "alloc"
          /\ pc[rnode'] \in {"lock", "wait", "copy", "done"} /\ kind[rnode'] # "register"
      BY <1>2, <1>3, <2>2 DEF ListsSound, ListSound
    <3>3. kind[rnode'] = "sync" \/ (kind[rnode'] = "async" /\ pc[rnode'] = "done")
      BY <1>2, <3>2 DEF ClientTypeOK, Kinds, OwnersSound
    <3> QED BY <2>1, <2>2, <3>1, <3>2, <3>3 DEF HandSound, IsRespond
  <2> QED BY <1>2, <2>2, <2>5, <2>6, <2>7
<1>7. CASE LookupReport
  BY <1>3, <1>4, <1>7 DEF LookupReport, ReportMatches, Calm
<1>8. CASE Dispatch
  <2>1. /\ rnode \in Calls /\ heap[rnode] = "alloc" /\ IsRespond(rmsg)
        /\ \A i \in 1..Len(resp) : resp[i] # rnode
        /\ kind[rnode] = "sync" \/ (kind[rnode] = "async" /\ pc[rnode] = "done")
        /\ pc[rnode] \in {"lock", "wait", "copy", "done"}
    BY <1>2, <1>8 DEF HandSound, Dispatch
  <2>2. UNCHANGED <<kind, pc, listVars, rmsg, rnode, fault>>
    BY <1>8, <2>1, CommonAssumption DEF Dispatch
  <2>3. CASE kind[rnode] = "sync"
    <3>1. UNCHANGED heap /\ rpc' = "signal"
      BY <1>8, <2>1, <2>3, CommonAssumption DEF Dispatch, ProcessSyncCall
    <3> QED BY <1>2, <2>1, <2>2, <2>3, <3>1 DEF OwnersSound, ListsSound, ListSound, HandSound
  <2>4. CASE kind[rnode] = "async" /\ pc[rnode] = "done"
    <3>1. heap' = [heap EXCEPT ![rnode] = "freed"] /\ rpc' = "accept"
      BY <1>8, <2>1, <2>4, CommonAssumption DEF Dispatch, ProcessAsyncCall, Free
    <3>2. \A c \in Calls \ {rnode} : heap'[c] = heap[c]
      BY <3>1 DEF ClientTypeOK
    <3>3. \A i \in 1..Len(regs) : regs[i] # rnode
      BY <1>2, <2>4 DEF ListsSound
    <3>4. OwnersSound'
      BY <1>2, <2>2, <2>4, <3>2 DEF OwnersSound
    <3>5. ListsSound'
      BY <1>2, <1>3, <2>1, <2>2, <3>2, <3>3 DEF ListsSound, ListSound
    <3>6. HandSound'
      BY <3>1 DEF HandSound
    <3> QED BY <1>2, <2>2, <3>4, <3>5, <3>6
  <2> QED BY <2>1, <2>3, <2>4
<1>9. CASE Signal
  <2>1. rnode \in Calls /\ heap[rnode] = "alloc" /\ kind[rnode] = "sync"
    BY <1>2, <1>9 DEF HandSound, Signal
  <2>2. /\ UNCHANGED <<kind, heap, listVars, rnode, fault>> /\ rpc' = "accept"
        /\ \A c \in Calls : pc'[c] = pc[c] \/ (pc[c] = "wait" /\ pc'[c] = "copy")
    BY <1>9, <2>1 DEF Signal, Goto, ClientTypeOK
  <2>3. OwnersSound'
    BY <1>2, <2>2 DEF OwnersSound
  <2>4. ListsSound'
    BY <1>2, <1>3, <2>2 DEF ListsSound, ListSound
  <2>5. HandSound'
    BY <2>2 DEF HandSound
  <2> QED BY <1>2, <2>2, <2>3, <2>4, <2>5
<1> QED BY <1>5, <1>6, <1>7, <1>8, <1>9 DEF Receiver

LEMMA StepSafe == TypeOK /\ ClientInv /\ [Next]_vars => ClientInv'
<1> SUFFICES ASSUME TypeOK, ClientInv, [Next]_vars PROVE ClientInv'
  OBVIOUS
<1>1. CASE ClientStep
  BY <1>1, CallerSafe, ReceiverSafe DEF ClientStep, ClientNext, TypeOK
<1>2. CASE UNCHANGED clientVars
  BY <1>2 DEF ClientInv, Calm, OwnersSound, ListsSound, ListSound, HandSound
<1> QED BY <1>1, <1>2 DEF Next, Idle, ServerStep, vars

\* The invariant ClientInv: on a calm schedule the lists hold live nodes, once each,
\* and neither kind of thread holds a pointer to a freed one.
THEOREM ClientInvariant == Spec => []ClientInv
<1>1. Init => ClientInv
  BY InitSafe
<1>2. TypeOK /\ ClientInv /\ [Next]_vars => ClientInv'
  BY StepSafe
<1> QED BY <1>1, <1>2, TypeCorrect, PTL DEF Spec

\* Undefined behaviour in the client presupposes an unmatched message, a timeout or
\* a report: with any number of concurrent calls, any server and spurious wakeups.
THEOREM MemorySafety == Spec => []MemorySafe
<1>1. TypeOK /\ ClientInv => MemorySafe
  BY DEF TypeOK, ClientTypeOK, ClientInv, Calm, MemorySafe
<1> QED BY <1>1, TypeCorrect, ClientInvariant, PTL

-----------------------------------------------------------------------------
(* A callback runs at most once.                                            *)

\* An asynchronous call whose node the receive thread can reach has returned 0, and
\* its node is freed when its callback has run.
Reachable(c) == (\E i \in 1..Len(resp) : resp[i] = c) \/ rnode = c

CallbackInv ==
  /\ \A c \in Calls :
       /\ ret[c] # "none" => pc[c] = "done"
       /\ Reachable(c) /\ kind[c] = "async" => ret[c] = "ok"
       /\ kind[c] # "register" =>
            runs[c] = 0 \/ (runs[c] = 1 /\ kind[c] = "async" /\ ret[c] = "ok" /\ heap[c] = "freed")
  /\ \A i \in 1..Len(regs) : kind[regs[i]] = "register"

LEMMA CallbackInit == Init => CallbackInv
<1> SUFFICES ASSUME Init PROVE CallbackInv
  OBVIOUS
<1>1. \A c \in Calls : ~Reachable(c) /\ ret[c] = "none" /\ runs[c] = 0
  BY CommonAssumption DEF Init, ClientInit, Reachable
<1>2. \A i \in 1..Len(regs) : kind[regs[i]] = "register"
  BY DEF Init, ClientInit
<1> QED BY <1>1, <1>2 DEF CallbackInv

\* A calling thread that has not returned has no callback running.
LEMMA CallerCallbacks ==
  ASSUME ClientTypeOK, CallbackInv, NEW c \in Calls, Caller(c)
  PROVE  CallbackInv'
<1> USE DEF ClientTypeOK, Goto, Return, Free
<1>1. pc[c] # "done" /\ ret[c] = "none" /\ (kind[c] # "register" => runs[c] = 0)
  BY DEF Caller, Runs, Begin, Send, Insert, Wait, CopyBack, SpuriousWakeup, TimeoutFires, GiveUp, CallbackInv
<1>2. UNCHANGED <<kind, cmd, runs, rnode>>
  BY DEF Caller, Runs, Begin, Send, Insert, Wait, CopyBack, SpuriousWakeup, TimeoutFires, GiveUp
<1>3. /\ \A d \in Calls \ {c} : pc'[d] = pc[d] /\ ret'[d] = ret[d] /\ heap'[d] = heap[d]
      /\ ret'[c] # "none" => pc'[c] = "done"
  BY <1>1 DEF Caller, Runs, Begin, Send, Insert, InsertTail, Wait, CopyBack, SpuriousWakeup, TimeoutFires, GiveUp
<1>4. CASE UNCHANGED listVars
  <2>1. \A d \in Calls : Reachable(d)' <=> Reachable(d)
    BY <1>2, <1>4 DEF Reachable
  <2>2. Reachable(c) => kind[c] # "async"
    BY <1>1 DEF CallbackInv
  <2> QED BY <1>1, <1>2, <1>3, <1>4, <2>1, <2>2 DEF CallbackInv
<1>5. CASE Insert(c) /\ kind[c] = "register" /\ ~UNCHANGED listVars
  <2>1. regs' = Append(regs, c) /\ resp' = resp
    BY <1>5 DEF Insert, InsertTail
  <2>2. \A i \in 1..Len(regs') : regs'[i] = c \/ \E j \in 1..Len(regs) : regs'[i] = regs[j]
    BY <2>1, AppendElements
  <2>3. \A d \in Calls : Reachable(d)' <=> Reachable(d)
    BY <1>2, <2>1 DEF Reachable
  <2>4. \A i \in 1..Len(regs') : kind'[regs'[i]] = "register"
    <3> TAKE i \in 1..Len(regs')
    <3>1. kind' = kind /\ kind[c] = "register" /\ \A j \in 1..Len(regs) : kind[regs[j]] = "register"
      BY <1>2, <1>5 DEF CallbackInv
    <3>2. regs'[i] = c \/ \E j \in 1..Len(regs) : regs'[i] = regs[j]
      BY <2>2
    <3> QED BY <3>1, <3>2, Zenon
  <2>5. ASSUME NEW d \in Calls
        PROVE  /\ ret'[d] # "none" => pc'[d] = "done"
               /\ Reachable(d)' /\ kind'[d] = "async" => ret'[d] = "ok"
               /\ kind'[d] # "register" =>
                    runs'[d] = 0 \/ (runs'[d] = 1 /\ kind'[d] = "async" /\ ret'[d] = "ok" /\ heap'[d] = "freed")
    <3>1. CASE d = c
      BY <1>2, <1>3, <1>5, <3>1
    <3>2. CASE d # c
      BY <1>2, <1>3, <2>3, <3>2 DEF CallbackInv
    <3> QED BY <3>1, <3>2
  <2> QED BY <2>4, <2>5 DEF CallbackInv
<1>6. CASE Insert(c) /\ kind[c] # "register" /\ ~UNCHANGED listVars
  <2>1. resp' = Append(resp, c) /\ regs' = regs /\ (kind[c] = "async" => ret'[c] = "ok")
    BY <1>6 DEF Insert, InsertTail, Kinds
  <2>2. \A i \in 1..Len(resp') : resp'[i] = c \/ \E j \in 1..Len(resp) : resp'[i] = resp[j]
    BY <2>1, AppendElements
  <2>3. \A d \in Calls \ {c} : Reachable(d)' => Reachable(d)
    BY <1>2, <2>2 DEF Reachable
  <2> QED BY <1>1, <1>2, <1>3, <2>1, <2>3 DEF CallbackInv
<1>7. UNCHANGED listVars \/ Insert(c)
  BY DEF Caller, Runs, Begin, Send, Wait, CopyBack, SpuriousWakeup, TimeoutFires, GiveUp
<1> QED BY <1>4, <1>5, <1>6, <1>7

\* The receive thread only reaches what was on a list; it runs a callback on a node
\* that is not freed, and frees it.
LEMMA ReceiverCallbacks ==
  ASSUME ClientTypeOK, CallbackInv, Receiver
  PROVE  CallbackInv'
<1> USE DEF ClientTypeOK, Goto, Free
<1>0. \A i \in 1..Len(regs) : regs[i] \in Calls /\ kind[regs[i]] = "register"
  BY ElementOfSeq DEF CallbackInv
<1>1. CASE Accept
  BY <1>1 DEF Accept, CallbackInv, Reachable
<1>2. CASE LookupRespond /\ RespondMatches
  <2>1. PICK i \in 1..Len(resp) :
          \/ UNCHANGED <<resp, rnode>>
          \/ resp' = RemoveAt(resp, i) /\ rnode' = resp[i]
    BY <1>2 DEF RespondMatches
  <2>2. \A d \in Calls : Reachable(d)' => Reachable(d)
    <3>1. CASE UNCHANGED <<resp, rnode>>
      BY <3>1 DEF Reachable
    <3>2. CASE resp' = RemoveAt(resp, i) /\ rnode' = resp[i]
      <4>1. Len(resp) \in Nat /\ Len(resp') = Len(resp) - 1
            /\ \A j \in 1..(Len(resp) - 1) : resp'[j] = IF j < i THEN resp[j] ELSE resp[j + 1]
        BY <3>2, RemoveAtProperties, LenProperties
      <4>2. \A j \in 1..Len(resp') : \E k \in 1..Len(resp) : resp'[j] = resp[k]
        <5> TAKE j \in 1..Len(resp')
        <5>1. j \in 1..Len(resp) /\ j + 1 \in 1..Len(resp)
          BY <4>1
        <5> QED BY <4>1, <5>1
      <4> QED BY <3>2, <4>2 DEF Reachable
    <3> QED BY <2>1, <3>1, <3>2
  <2> QED BY <1>2, <2>2 DEF LookupRespond, RespondMatches, CallbackInv
<1>3. CASE LookupRespond /\ LookupMisses(resp)
  <2>1. rnode' = rnode \/ (resp # <<>> /\ rnode' = resp[Len(resp)])
    BY <1>3 DEF LookupMisses
  <2>2. resp # <<>> => Len(resp) \in 1..Len(resp)
    BY EmptySeq, LenProperties
  <2>3. \A d \in Calls : Reachable(d)' => Reachable(d)
    BY <1>3, <2>1, <2>2 DEF LookupMisses, Reachable
  <2> QED BY <1>3, <2>3 DEF LookupRespond, LookupMisses, CallbackInv
<1>4. CASE LookupReport
  <2>1. \/ rnode' = rnode
        \/ \E i \in 1..Len(regs) : rnode' = regs[i]
    <3>1. regs # <<>> => Len(regs) \in 1..Len(regs)
      BY EmptySeq, LenProperties
    <3> QED BY <1>4, <3>1 DEF LookupReport, ReportMatches, LookupMisses
  <2>2. UNCHANGED <<threadVars, listVars>>
    BY <1>4 DEF LookupReport, ReportMatches, LookupMisses
  <2>3. \A d \in Calls : Reachable(d)' => Reachable(d) \/ kind[d] = "register"
    BY <1>0, <2>1, <2>2 DEF Reachable
  <2> QED BY <2>2, <2>3 DEF CallbackInv
<1>5. CASE Dispatch
  <2>1. UNCHANGED <<kind, cmd, pc, ret, listVars, rnode>>
    BY <1>5 DEF Dispatch
  <2>2. \A d \in Calls : Reachable(d)' <=> Reachable(d)
    BY <2>1 DEF Reachable
  <2>3. CASE UNCHANGED <<runs, heap>>
    BY <2>1, <2>2, <2>3 DEF CallbackInv
  <2>4. CASE rnode \in Calls /\ heap[rnode] # "freed" /\ ProcessAsyncCall(rnode)
    <3>1. kind[rnode] = "async" => ret[rnode] = "ok" /\ runs[rnode] = 0
      BY <2>4 DEF CallbackInv, Reachable
    <3>2. heap'[rnode] = "freed" /\ runs'[rnode] = IF kind[rnode] = "sync" THEN runs[rnode] ELSE runs[rnode] + 1
      BY <2>4 DEF ProcessAsyncCall
    <3>3. \A d \in Calls \ {rnode} : heap'[d] = heap[d] /\ runs'[d] = runs[d]
      BY <2>4 DEF ProcessAsyncCall
    <3>4. kind[rnode] = "sync" => runs[rnode] = 0
      BY <2>4 DEF CallbackInv
    <3>5. kind[rnode] \in {"sync", "async", "register"}
      BY <2>4 DEF Kinds
    <3> QED BY <2>1, <2>2, <2>4, <3>1, <3>2, <3>3, <3>4, <3>5 DEF CallbackInv
  <2> QED BY <1>5, <2>3, <2>4 DEF Dispatch, ProcessSyncCall
<1>6. CASE Signal
  <2>1. UNCHANGED <<kind, heap, ret, runs, listVars, rnode>>
    BY <1>6 DEF Signal
  <2>2. \A d \in Calls : pc[d] = "done" => pc'[d] = "done"
    BY <1>6 DEF Signal
  <2>3. \A d \in Calls : Reachable(d)' <=> Reachable(d)
    BY <2>1 DEF Reachable
  <2> QED BY <2>1, <2>2, <2>3 DEF CallbackInv
<1> QED BY <1>1, <1>2, <1>3, <1>4, <1>5, <1>6 DEF Receiver, LookupRespond

LEMMA CallbackStep == TypeOK /\ CallbackInv /\ [Next]_vars => CallbackInv'
<1> SUFFICES ASSUME TypeOK, CallbackInv, [Next]_vars PROVE CallbackInv'
  OBVIOUS
<1>1. CASE ClientStep
  BY <1>1, CallerCallbacks, ReceiverCallbacks DEF ClientStep, ClientNext, TypeOK
<1>2. CASE UNCHANGED clientVars
  BY <1>2 DEF CallbackInv, Reachable
<1> QED BY <1>1, <1>2 DEF Next, ServerStep, Idle, vars

LEMMA CallbackInvariant == Spec => []CallbackInv
BY CallbackInit, CallbackStep, TypeCorrect, PTL DEF Spec

\* On every schedule, for any number of calls, the callback of a request runs at most
\* once, and only after the request has returned 0.  (process_async_call, start_receive)
THEOREM CallbackOnce == Spec => []CallbackAtMostOnce
<1>1. TypeOK /\ CallbackInv => CallbackAtMostOnce
  BY DEF CallbackInv, CallbackAtMostOnce
<1> QED BY <1>1, CallbackInvariant, TypeCorrect, PTL

-----------------------------------------------------------------------------
(* No request is replied to twice.                                          *)

Asking(c) == \E i \in 1..Len(toServer) : toServer[i].arg = c
Replying(c) == \E i \in 1..Len(toClient) : IsRespond(toClient[i]) /\ toClient[i].arg = c
Taken(c) == rpc = "lookup" /\ IsRespond(rmsg) /\ rmsg.arg = c
Replied(c) == Replying(c) \/ Taken(c) \/ c \in seen

\* A call is in one place at a time: with its caller, on the way to the server, handed
\* to the application, or replied to.  Only a handed request that has been answered, by
\* an answer that is no longer to be sent, is also replied to.
PlaceInv ==
  \A c \in Calls :
    /\ Asking(c) => c \notin handed /\ ~Replied(c)
    /\ Asking(c) \/ c \in handed \/ Replied(c) => pc[c] \notin {"start", "send"}
    /\ c \in handed /\ Replied(c) => c \in answered /\ ~(apc = "answer" /\ amsg.arg = c)
    /\ Replying(c) => c \notin seen /\ ~Taken(c)
    /\ Taken(c) /\ ~fault => c \notin seen

OnceInv ==
  /\ \A i, j \in 1..Len(toServer) : toServer[i].arg = toServer[j].arg => i = j
  /\ \A i, j \in 1..Len(toClient) :
       (IsRespond(toClient[i]) /\ IsRespond(toClient[j]) /\ toClient[i].arg = toClient[j].arg) => i = j
  /\ apc = "answer" => amsg.arg \in answered

ReplyInv == PlaceInv /\ OnceInv

LEMMA ReplyInit == Init => ReplyInv
<1> SUFFICES ASSUME Init PROVE ReplyInv
  OBVIOUS
<1>1. toServer = <<>> /\ toClient = <<>> /\ handed = {} /\ seen = {} /\ rpc = "accept" /\ apc = "idle"
  BY DEF Init, ClientInit, ServerInit, NetInit
<1>2. \A c \in Calls : ~Asking(c) /\ ~Replied(c)
  BY <1>1 DEF Asking, Replied, Replying, Taken
<1>3. Len(toServer) = 0 /\ Len(toClient) = 0
  BY <1>1
<1>4. PlaceInv
  BY <1>1, <1>2 DEF PlaceInv, Replied
<1>5. OnceInv
  BY <1>1, <1>3 DEF OnceInv
<1> QED BY <1>4, <1>5 DEF ReplyInv

\* What a queue holds after a connect ...
LEMMA Queued ==
  ASSUME NEW S, NEW s \in Seq(S), NEW e \in S, NEW t, t = Append(s, e)
  PROVE  /\ Len(s) \in Nat /\ Len(t) = Len(s) + 1 /\ t[Len(s) + 1] = e
         /\ \A j \in 1..Len(s) : t[j] = s[j]
BY AppendProperties, LenProperties

\* ... and after an accept.
LEMMA Unqueued ==
  ASSUME NEW S, NEW s \in Seq(S), s # <<>>, NEW t, t = Tail(s)
  PROVE  /\ Len(s) \in Nat \ {0} /\ Len(t) = Len(s) - 1 /\ Head(s) = s[1] /\ Head(s) \in S
         /\ \A j \in 1..Len(t) : t[j] = s[j + 1]
BY HeadTailProperties, EmptySeq, LenProperties

\* A request put on the server's queue by a call that had none there.
LEMMA QueueingRequest ==
  ASSUME NetTypeOK, OnceInv, NEW m \in Request, toServer' = Append(toServer, m), ~Asking(m.arg)
  PROVE  /\ \A d \in Calls : Asking(d)' => Asking(d) \/ d = m.arg
         /\ \A i, j \in 1..Len(toServer') : toServer'[i].arg = toServer'[j].arg => i = j
<1> USE DEF NetTypeOK
<1>1. /\ Len(toServer) \in Nat /\ Len(toServer') = Len(toServer) + 1 /\ toServer'[Len(toServer) + 1] = m
      /\ \A j \in 1..Len(toServer) : toServer'[j] = toServer[j]
  BY Queued
<1>2. \A d \in Calls : Asking(d)' => Asking(d) \/ d = m.arg
  BY <1>1 DEF Asking
<1>3. \A i, j \in 1..Len(toServer') : toServer'[i].arg = toServer'[j].arg => i = j
  <2> SUFFICES ASSUME NEW i \in 1..Len(toServer'), NEW j \in 1..Len(toServer'), i < j,
                      toServer'[i].arg = toServer'[j].arg
               PROVE  FALSE
    BY <1>1
  <2>1. i \in 1..Len(toServer) /\ toServer'[i] = toServer[i]
    BY <1>1
  <2>2. CASE j = Len(toServer) + 1
    BY <1>1, <2>1, <2>2 DEF Asking
  <2>3. CASE j \in 1..Len(toServer)
    BY <1>1, <2>1, <2>3 DEF OnceInv
  <2> QED BY <1>1, <2>2, <2>3
<1> QED BY <1>2, <1>3

\* A queue without its first message has none twice either.
LEMMA UnqueueingRequest ==
  ASSUME NetTypeOK, OnceInv, toServer # <<>>, toServer' = Tail(toServer)
  PROVE  \A i, j \in 1..Len(toServer') : toServer'[i].arg = toServer'[j].arg => i = j
<1>1. /\ Len(toServer) \in Nat \ {0} /\ Len(toServer') = Len(toServer) - 1
      /\ \A j \in 1..Len(toServer') : toServer'[j] = toServer[j + 1]
  BY Unqueued DEF NetTypeOK
<1>2. \A i, j \in 1..Len(toServer) : toServer[i].arg = toServer[j].arg => i = j
  BY DEF OnceInv
<1> SUFFICES ASSUME NEW i \in 1..Len(toServer'), NEW j \in 1..Len(toServer'), toServer'[i].arg = toServer'[j].arg
             PROVE  i = j
  OBVIOUS
<1>3. i \in Nat /\ j \in Nat /\ i + 1 \in 1..Len(toServer) /\ j + 1 \in 1..Len(toServer)
  BY <1>1
<1>4. toServer[i + 1].arg = toServer[j + 1].arg
  BY <1>1
<1>5. i + 1 = j + 1
  BY <1>2, <1>3, <1>4
<1> QED BY <1>3, <1>5

LEMMA UnqueueingReply ==
  ASSUME NetTypeOK, OnceInv, toClient # <<>>, toClient' = Tail(toClient)
  PROVE  \A i, j \in 1..Len(toClient') :
           (IsRespond(toClient'[i]) /\ IsRespond(toClient'[j]) /\ toClient'[i].arg = toClient'[j].arg) => i = j
<1>1. /\ Len(toClient) \in Nat \ {0} /\ Len(toClient') = Len(toClient) - 1
      /\ \A j \in 1..Len(toClient') : toClient'[j] = toClient[j + 1]
  BY Unqueued DEF NetTypeOK
<1>2. \A i, j \in 1..Len(toClient) :
        (IsRespond(toClient[i]) /\ IsRespond(toClient[j]) /\ toClient[i].arg = toClient[j].arg) => i = j
  BY DEF OnceInv
<1> SUFFICES ASSUME NEW i \in 1..Len(toClient'), NEW j \in 1..Len(toClient'),
                    IsRespond(toClient'[i]), IsRespond(toClient'[j]), toClient'[i].arg = toClient'[j].arg
             PROVE  i = j
  OBVIOUS
<1>3. i \in Nat /\ j \in Nat /\ i + 1 \in 1..Len(toClient) /\ j + 1 \in 1..Len(toClient)
  BY <1>1
<1>4. IsRespond(toClient[i + 1]) /\ IsRespond(toClient[j + 1]) /\ toClient[i + 1].arg = toClient[j + 1].arg
  BY <1>1
<1>5. i + 1 = j + 1
  BY <1>2, <1>3, <1>4
<1> QED BY <1>3, <1>5

\* A caller sends only what was nowhere before.
LEMMA CallerReplies ==
  ASSUME TypeOK, ReplyInv, NEW c \in Calls, Caller(c), UNCHANGED serverVars
  PROVE  ReplyInv'
<1> USE DEF TypeOK, ClientTypeOK, ServerTypeOK, NetTypeOK, Goto, Return, Free
<1>1. UNCHANGED <<toClient, handed, answered, apc, amsg, rpc, rmsg, seen>> /\ (fault => fault')
  BY DEF Caller, Runs, Begin, Send, Insert, InsertTail, Wait, CopyBack, SpuriousWakeup, TimeoutFires, GiveUp, serverVars, answerVars
<1>2. \A d \in Calls : Replied(d)' <=> Replied(d)
  BY <1>1 DEF Replied, Replying, Taken
<1>3. \A d \in Calls : (Replying(d)' <=> Replying(d)) /\ (Taken(d)' <=> Taken(d))
  BY <1>1 DEF Replying, Taken
<1>4. \A d \in Calls : pc[d] \notin {"start", "send"} => pc'[d] \notin {"start", "send"}
  BY DEF Caller, Runs, Begin, Send, Insert, InsertTail, Wait, CopyBack, SpuriousWakeup, TimeoutFires, GiveUp
<1>5. CASE toServer' = toServer
  <2>1. \A d \in Calls : Asking(d)' <=> Asking(d)
    BY <1>5 DEF Asking
  <2> QED BY <1>1, <1>2, <1>3, <1>4, <1>5, <2>1 DEF ReplyInv, PlaceInv, OnceInv
<1>6. CASE toServer' # toServer
  <2> DEFINE r == [cmd |-> cmd[c], respond |-> FALSE, async |-> kind[c] = "async", arg |-> c]
  <2>1. Send(c) /\ toServer' = Append(toServer, r) /\ pc[c] = "send" /\ pc'[c] = "insert"
    BY <1>6 DEF Caller, Runs, Begin, Send, Insert, Wait, CopyBack, SpuriousWakeup, TimeoutFires, GiveUp
  <2>2. r \in Request /\ r.arg = c
    BY DEF Request
  <2>4. ~Asking(c) /\ c \notin handed /\ ~Replied(c)
    BY <2>1 DEF ReplyInv, PlaceInv
  <2>5. \A d \in Calls : Asking(d)' => Asking(d) \/ d = c
    BY <2>1, <2>2, <2>4, QueueingRequest DEF ReplyInv
  <2>6. \A i, j \in 1..Len(toServer') : toServer'[i].arg = toServer'[j].arg => i = j
    BY <2>1, <2>2, <2>4, QueueingRequest DEF ReplyInv
  <2>7. OnceInv'
    BY <1>1, <2>6 DEF ReplyInv, OnceInv
  <2>8. PlaceInv'
    BY <1>1, <1>2, <1>3, <1>4, <2>1, <2>4, <2>5 DEF ReplyInv, PlaceInv
  <2> QED BY <2>7, <2>8 DEF ReplyInv
<1> QED BY <1>5, <1>6

\* The receive thread takes a reply off the queue once.
LEMMA ReceiverReplies ==
  ASSUME TypeOK, ReplyInv, Receiver, ~fault, UNCHANGED serverVars
  PROVE  ReplyInv'
<1> USE DEF TypeOK, ClientTypeOK, ServerTypeOK, NetTypeOK, Goto, Free
<1>1. UNCHANGED <<toServer, handed, answered, apc, amsg>>
  BY DEF Receiver, Accept, LookupRespond, LookupReport, Dispatch, Signal, serverVars, answerVars
<1>2. \A d \in Calls : Asking(d)' <=> Asking(d)
  BY <1>1 DEF Asking
<1>3. \A d \in Calls : pc[d] \notin {"start", "send"} => pc'[d] \notin {"start", "send"}
  BY DEF Receiver, Accept, LookupRespond, LookupReport, Dispatch, Signal, Goto
<1>4. CASE Accept
  <2> DEFINE m == Head(toClient)
  <2>1. /\ Len(toClient) \in Nat \ {0} /\ Len(toClient') = Len(toClient) - 1
        /\ m = toClient[1] /\ m \in Answer \cup Report
        /\ \A j \in 1..Len(toClient') : toClient'[j] = toClient[j + 1]
    BY <1>4, Unqueued DEF Accept
  <2>2. rpc = "accept" /\ seen' = seen /\ (rpc' = "lookup" => rmsg' = m)
    BY <1>4 DEF Accept
  <2>3. \A d \in Calls : Taken(d)' => Replying(d)
    <3>1. 1 \in 1..Len(toClient) /\ (rpc' = "lookup" => rmsg' = toClient[1])
      BY <2>1, <2>2
    <3> QED BY <3>1 DEF Taken, Replying, IsRespond
  <2>4. \A d \in Calls : Replying(d)' => Replying(d) /\ ~Taken(d)'
    <3> SUFFICES ASSUME NEW d \in Calls, NEW i \in 1..Len(toClient'), IsRespond(toClient'[i]), toClient'[i].arg = d
                 PROVE  Replying(d) /\ ~Taken(d)'
      BY DEF Replying
    <3>1. i + 1 \in 1..Len(toClient) /\ toClient'[i] = toClient[i + 1] /\ i + 1 # 1 /\ 1 \in 1..Len(toClient)
      BY <2>1
    <3> QED BY <2>1, <2>2, <3>1 DEF Replying, Taken, IsRespond, ReplyInv, OnceInv
  <2>5. OnceInv'
    <3>1. \A i, j \in 1..Len(toClient') :
            (IsRespond(toClient'[i]) /\ IsRespond(toClient'[j]) /\ toClient'[i].arg = toClient'[j].arg) => i = j
      BY <1>4, UnqueueingReply DEF Accept, ReplyInv
    <3> QED BY <1>1, <3>1 DEF ReplyInv, OnceInv
  <2>6. \A d \in Calls : Replied(d)' => Replied(d)
    BY <2>2, <2>3, <2>4 DEF Replied
  <2>7. PlaceInv'
    BY <1>1, <1>2, <1>3, <2>2, <2>3, <2>4, <2>6 DEF ReplyInv, PlaceInv
  <2> QED BY <2>5, <2>7 DEF ReplyInv
<1>5. CASE LookupRespond
  <2>1. toClient' = toClient /\ seen' = seen \cup {rmsg.arg} /\ rmsg' = rmsg /\ Taken(rmsg.arg)
        /\ (fault' \/ rpc' = "dispatch")
    BY <1>5 DEF LookupRespond, RespondMatches, LookupMisses, Taken
  <2>2. \A d \in Calls : (Replying(d)' <=> Replying(d)) /\ (Taken(d)' => Taken(d) /\ fault')
    BY <2>1 DEF Replying, Taken
  <2>3. \A d \in Calls : d \in seen' <=> d \in seen \/ Taken(d)
    BY <2>1 DEF Taken
  <2>4. OnceInv'
    BY <1>1, <2>1 DEF ReplyInv, OnceInv
  <2>5. PlaceInv'
    BY <1>1, <1>2, <1>3, <2>2, <2>3 DEF ReplyInv, PlaceInv, Replied
  <2> QED BY <2>4, <2>5 DEF ReplyInv
<1>6. CASE LookupReport \/ Dispatch \/ Signal
  <2>1. UNCHANGED <<toClient, seen>>
    BY <1>6 DEF LookupReport, Dispatch, Signal
  <2>2. \A d \in Calls : ~Taken(d) /\ ~Taken(d)'
    BY <1>6 DEF LookupReport, ReportMatches, LookupMisses, Dispatch, ProcessSyncCall, ProcessAsyncCall, Signal, Taken
  <2>3. \A d \in Calls : (Replying(d)' <=> Replying(d)) /\ (Replied(d)' <=> Replied(d))
    BY <2>1, <2>2 DEF Replying, Replied
  <2>4. OnceInv'
    BY <1>1, <2>1 DEF ReplyInv, OnceInv
  <2>5. PlaceInv'
    BY <1>1, <1>2, <1>3, <2>1, <2>2, <2>3 DEF ReplyInv, PlaceInv
  <2> QED BY <2>4, <2>5 DEF ReplyInv
<1> QED BY <1>4, <1>5, <1>6 DEF Receiver

\* A reply put on the client's queue for a call that had none.
LEMMA QueueingReply ==
  ASSUME TypeOK, ReplyInv, NEW m \in Answer \cup Report,
         toClient' = Append(toClient, m), UNCHANGED <<rpc, rmsg, seen>>,
         IsRespond(m) => m.arg \in Calls /\ ~Replied(m.arg)
  PROVE  /\ \A d \in Calls : Replying(d)' <=> Replying(d) \/ (IsRespond(m) /\ d = m.arg)
         /\ \A d \in Calls : Taken(d)' <=> Taken(d)
         /\ \A d \in Calls : Replied(d)' <=> Replied(d) \/ (IsRespond(m) /\ d = m.arg)
         /\ \A i, j \in 1..Len(toClient') :
              (IsRespond(toClient'[i]) /\ IsRespond(toClient'[j]) /\ toClient'[i].arg = toClient'[j].arg) => i = j
<1> USE DEF TypeOK, NetTypeOK
<1>1. /\ Len(toClient) \in Nat /\ Len(toClient') = Len(toClient) + 1 /\ toClient'[Len(toClient) + 1] = m
      /\ \A j \in 1..Len(toClient) : toClient'[j] = toClient[j]
  BY Queued
<1>2. \A d \in Calls : Replying(d)' <=> Replying(d) \/ (IsRespond(m) /\ d = m.arg)
  BY <1>1 DEF Replying
<1>3. \A d \in Calls : Taken(d)' <=> Taken(d)
  BY DEF Taken
<1>4. \A i, j \in 1..Len(toClient') :
        (IsRespond(toClient'[i]) /\ IsRespond(toClient'[j]) /\ toClient'[i].arg = toClient'[j].arg) => i = j
  <2> SUFFICES ASSUME NEW i \in 1..Len(toClient'), NEW j \in 1..Len(toClient'), i < j,
                      IsRespond(toClient'[i]), IsRespond(toClient'[j]), toClient'[i].arg = toClient'[j].arg
               PROVE  FALSE
    BY <1>1
  <2>1. i \in 1..Len(toClient) /\ toClient'[i] = toClient[i]
    BY <1>1
  <2>2. CASE j = Len(toClient) + 1
    BY <1>1, <2>1, <2>2 DEF Replied, Replying
  <2>3. CASE j \in 1..Len(toClient)
    BY <1>1, <2>1, <2>3 DEF ReplyInv, OnceInv
  <2> QED BY <1>1, <2>2, <2>3
<1> QED BY <1>2, <1>3, <1>4 DEF Replied

\* The server's receive thread moves a call from the queue to one place.
LEMMA ServeReplies ==
  ASSUME TypeOK, ReplyInv, Serve, UNCHANGED clientVars
  PROVE  ReplyInv'
<1> USE DEF TypeOK, ClientTypeOK, ServerTypeOK, NetTypeOK
<1> DEFINE m == Head(toServer)
<1>1. /\ Len(toServer) \in Nat \ {0} /\ Len(toServer') = Len(toServer) - 1
      /\ m = toServer[1] /\ m \in Request
      /\ \A j \in 1..Len(toServer') : toServer'[j] = toServer[j + 1]
  BY Unqueued DEF Serve
<1>2. m.arg \in Calls /\ m.cmd \in Cmds /\ Asking(m.arg)
  BY <1>1 DEF Request, Asking
<1>3. m.arg \notin handed /\ ~Replied(m.arg) /\ pc[m.arg] \notin {"start", "send"}
  BY <1>2 DEF ReplyInv, PlaceInv
<1>4. \A i \in 1..Len(toServer') : i \in Nat /\ i + 1 \in 1..Len(toServer) /\ i + 1 # 1 /\ toServer'[i] = toServer[i + 1]
  BY <1>1
<1>5. \A d \in Calls : Asking(d)' => Asking(d) /\ d # m.arg
  <2> SUFFICES ASSUME NEW d \in Calls, NEW i \in 1..Len(toServer'), toServer'[i].arg = d
               PROVE  Asking(d) /\ d # m.arg
    BY DEF Asking
  <2>1. 1 \in 1..Len(toServer)
    BY <1>1
  <2> QED BY <1>1, <1>4, <2>1 DEF Asking, ReplyInv, OnceInv
<1>6. \A i, j \in 1..Len(toServer') : toServer'[i].arg = toServer'[j].arg => i = j
  BY UnqueueingRequest DEF Serve, ReplyInv
<1>7. UNCHANGED <<pc, fault, rpc, rmsg, seen>>
  BY DEF Serve
<1>8. CASE UNCHANGED <<toClient, handed>> /\ (HandleSync(m) \/ HandleAsync(m))
  <2>1. UNCHANGED <<apc, amsg, answered>>
    BY <1>3, <1>8 DEF HandleSync, HandleAsync
  <2>2. \A d \in Calls : (Replying(d)' <=> Replying(d)) /\ (Taken(d)' <=> Taken(d)) /\ (Replied(d)' <=> Replied(d))
    BY <1>7, <1>8 DEF Replying, Taken, Replied
  <2>3. OnceInv'
    BY <1>6, <1>8, <2>1 DEF ReplyInv, OnceInv
  <2>4. PlaceInv'
    BY <1>5, <1>7, <1>8, <2>1, <2>2 DEF ReplyInv, PlaceInv
  <2> QED BY <2>3, <2>4 DEF ReplyInv
<1>9. CASE HandleSync(m) /\ toClient' = Append(toClient, ReplyTo(m.arg, m.cmd))
  <2>1. UNCHANGED <<apc, amsg, answered, handed>>
    BY <1>9 DEF HandleSync
  <2>2. ReplyTo(m.arg, m.cmd) \in Answer \cup Report /\ ReplyTo(m.arg, m.cmd).arg = m.arg
    BY <1>2 DEF ReplyTo, Answer
  <2>3. /\ \A d \in Calls : Replying(d)' => Replying(d) \/ d = m.arg
        /\ \A d \in Calls : Taken(d)' <=> Taken(d)
        /\ \A d \in Calls : Replied(d)' => Replied(d) \/ d = m.arg
        /\ \A i, j \in 1..Len(toClient') :
              (IsRespond(toClient'[i]) /\ IsRespond(toClient'[j]) /\ toClient'[i].arg = toClient'[j].arg) => i = j
    BY <1>2, <1>3, <1>7, <1>9, <2>2, QueueingReply
  <2>4. OnceInv'
    BY <1>6, <2>1, <2>3 DEF ReplyInv, OnceInv
  <2>5. PlaceInv'
    BY <1>3, <1>5, <1>7, <2>1, <2>3 DEF ReplyInv, PlaceInv, Replied
  <2> QED BY <2>4, <2>5 DEF ReplyInv
<1>10. CASE HandleAsync(m) /\ handed' = handed \cup {m.arg}
  <2>1. toClient' = toClient
    BY <1>10 DEF HandleAsync
  <2>2. \/ UNCHANGED <<apc, amsg, answered>>
        \/ apc' = "answer" /\ amsg' = ReplyTo(m.arg, m.cmd) /\ answered' = answered \cup {m.arg}
    BY <1>3, <1>10 DEF HandleAsync
  <2>3. ReplyTo(m.arg, m.cmd).arg = m.arg
    BY DEF ReplyTo
  <2>4. \A d \in Calls : (Replying(d)' <=> Replying(d)) /\ (Taken(d)' <=> Taken(d)) /\ (Replied(d)' <=> Replied(d))
    BY <1>7, <2>1 DEF Replying, Taken, Replied
  <2>5. OnceInv'
    BY <1>6, <2>1, <2>2, <2>3 DEF ReplyInv, OnceInv
  <2>6. \A d \in Calls : d \in handed' /\ Replied(d)' => d \in answered' /\ ~(apc' = "answer" /\ amsg'.arg = d)
    BY <1>3, <1>10, <2>2, <2>3, <2>4 DEF ReplyInv, PlaceInv
  <2>7. PlaceInv'
    BY <1>3, <1>5, <1>7, <1>10, <2>4, <2>6 DEF ReplyInv, PlaceInv
  <2> QED BY <2>5, <2>7 DEF ReplyInv
<1>11. CASE HandleRegister(m)
  <2>1. UNCHANGED <<toClient, handed, answered>> /\ (apc' = "answer" => UNCHANGED <<apc, amsg>>)
    BY <1>11 DEF HandleRegister
  <2>2. \A d \in Calls : (Replying(d)' <=> Replying(d)) /\ (Taken(d)' <=> Taken(d)) /\ (Replied(d)' <=> Replied(d))
    BY <1>7, <2>1 DEF Replying, Taken, Replied
  <2>3. OnceInv'
    BY <1>6, <2>1 DEF ReplyInv, OnceInv
  <2>4. PlaceInv'
    BY <1>5, <1>7, <2>1, <2>2 DEF ReplyInv, PlaceInv
  <2> QED BY <2>3, <2>4 DEF ReplyInv
<1>12. HandleSync(m) \/ HandleAsync(m) \/ HandleRegister(m)
  BY DEF Serve
<1>13. HandleAsync(m) => toClient' = toClient /\ (handed' = handed \/ handed' = handed \cup {m.arg})
  BY DEF HandleAsync
<1>14. HandleSync(m) => handed' = handed
                         /\ (toClient' = toClient \/ toClient' = Append(toClient, ReplyTo(m.arg, m.cmd)))
  BY DEF HandleSync
<1> QED BY <1>8, <1>9, <1>10, <1>11, <1>12, <1>13, <1>14

\* The answering thread sends the answer to a request that was handed over and not
\* yet replied to; when the send fails, the request can be answered again.
LEMMA AnswererReplies ==
  ASSUME TypeOK, ReplyInv, Answerer, UNCHANGED clientVars
  PROVE  ReplyInv'
<1> USE DEF TypeOK, ClientTypeOK, ServerTypeOK, NetTypeOK
<1>1. UNCHANGED <<toServer, handed, pc, fault, rpc, rmsg, seen>>
  BY DEF Answerer, SendAnswer, RemoveNode, SendReport, StartAnswer, StartReport
<1>2. \A d \in Calls : (Asking(d)' <=> Asking(d)) /\ (Taken(d)' <=> Taken(d))
  BY <1>1 DEF Asking, Taken
<1>3. CASE toClient' = toClient
  <2>1. \A d \in Calls : (Replying(d)' <=> Replying(d)) /\ (Replied(d)' <=> Replied(d))
    BY <1>1, <1>2, <1>3 DEF Replying, Replied
  <2>2. CASE \E c \in Calls, bit \in AnswerBits : StartAnswer(c, bit)
    <3>1. PICK c \in Calls, bit \in AnswerBits : StartAnswer(c, bit)
      BY <2>2
    <3>2. c \in handed \ answered /\ answered' = answered \cup {c} /\ amsg'.arg = c
      BY <3>1 DEF StartAnswer, ReplyTo
    <3>3. ~Replied(c)
      BY <3>2 DEF ReplyInv, PlaceInv
    <3>4. \A d \in Calls : d \in handed /\ Replied(d) => d \in answered' /\ ~(apc' = "answer" /\ amsg'.arg = d)
      BY <3>2, <3>3 DEF ReplyInv, PlaceInv
    <3>5. OnceInv'
      BY <1>1, <1>3, <3>2 DEF ReplyInv, OnceInv
    <3>6. PlaceInv'
      BY <1>1, <1>2, <2>1, <3>4 DEF ReplyInv, PlaceInv
    <3> QED BY <3>5, <3>6 DEF ReplyInv
  <2>3. CASE SendAnswer
    <3>1. apc = "answer" /\ apc' # "answer" /\ answered \subseteq answered' \cup {amsg.arg}
      BY <2>3 DEF SendAnswer
    <3>2. \A d \in Calls : d \in handed /\ Replied(d) => d \in answered'
      BY <3>1 DEF ReplyInv, PlaceInv
    <3>3. OnceInv'
      BY <1>1, <1>3, <3>1 DEF ReplyInv, OnceInv
    <3>4. PlaceInv'
      BY <1>1, <1>2, <2>1, <3>1, <3>2 DEF ReplyInv, PlaceInv
    <3> QED BY <3>3, <3>4 DEF ReplyInv
  <2>4. CASE RemoveNode \/ SendReport \/ \E w \in RegCmds : StartReport(w)
    <3>1. answered' = answered /\ (apc' = "answer" => UNCHANGED <<apc, amsg>>)
      BY <2>4 DEF RemoveNode, SendReport, StartReport
    <3>2. OnceInv'
      BY <1>1, <1>3, <3>1 DEF ReplyInv, OnceInv
    <3>3. PlaceInv'
      BY <1>1, <1>2, <2>1, <3>1 DEF ReplyInv, PlaceInv
    <3> QED BY <3>2, <3>3 DEF ReplyInv
  <2> QED BY <2>2, <2>3, <2>4 DEF Answerer
<1>4. CASE SendAnswer /\ toClient' # toClient
  <2>1. apc = "answer" /\ apc' = "remove" /\ UNCHANGED <<amsg, answered>> /\ toClient' = Append(toClient, amsg)
    BY <1>4 DEF SendAnswer
  <2>2. amsg \in Answer \cup Report /\ amsg.arg \in answered /\ amsg.arg \in Calls /\ amsg.arg \in handed
    BY <2>1 DEF ReplyInv, OnceInv
  <2>3. ~Replied(amsg.arg)
    BY <2>1, <2>2 DEF ReplyInv, PlaceInv
  <2>4. /\ \A d \in Calls : Replying(d)' => Replying(d) \/ d = amsg.arg
        /\ \A d \in Calls : Replied(d)' => Replied(d) \/ d = amsg.arg
        /\ \A i, j \in 1..Len(toClient') :
              (IsRespond(toClient'[i]) /\ IsRespond(toClient'[j]) /\ toClient'[i].arg = toClient'[j].arg) => i = j
    BY <1>1, <2>1, <2>2, <2>3, QueueingReply
  <2>5. OnceInv'
    BY <1>1, <2>1, <2>4 DEF ReplyInv, OnceInv
  <2>6. PlaceInv'
    BY <1>1, <1>2, <2>1, <2>2, <2>3, <2>4 DEF ReplyInv, PlaceInv, Replied
  <2> QED BY <2>5, <2>6 DEF ReplyInv
<1>5. CASE SendReport /\ toClient' # toClient
  <2>1. apc = "report" /\ apc' = "idle" /\ UNCHANGED <<amsg, answered>> /\ toClient' = Append(toClient, amsg)
    BY <1>5 DEF SendReport
  <2>2. amsg \in Report /\ ~IsRespond(amsg)
    BY <2>1 DEF Report, IsRespond
  <2>3. /\ \A d \in Calls : Replying(d)' <=> Replying(d)
        /\ \A d \in Calls : Replied(d)' <=> Replied(d)
        /\ \A i, j \in 1..Len(toClient') :
              (IsRespond(toClient'[i]) /\ IsRespond(toClient'[j]) /\ toClient'[i].arg = toClient'[j].arg) => i = j
    BY <1>1, <2>1, <2>2, QueueingReply
  <2>4. OnceInv'
    BY <1>1, <2>1, <2>3 DEF ReplyInv, OnceInv
  <2>5. PlaceInv'
    BY <1>1, <1>2, <2>1, <2>3 DEF ReplyInv, PlaceInv
  <2> QED BY <2>4, <2>5 DEF ReplyInv
<1>6. toClient' # toClient => SendAnswer \/ SendReport
  BY DEF Answerer, RemoveNode, StartAnswer, StartReport
<1> QED BY <1>3, <1>4, <1>5, <1>6

LEMMA ReplyStep == TypeOK /\ ReplyInv /\ [Next]_vars => ReplyInv'
<1> SUFFICES ASSUME TypeOK, ReplyInv, [Next]_vars PROVE ReplyInv'
  OBVIOUS
<1>1. CASE ClientStep
  BY <1>1, CallerReplies, ReceiverReplies DEF ClientStep, ClientNext
<1>2. CASE ServerStep
  BY <1>2, ServeReplies, AnswererReplies DEF ServerStep, ServerNext
<1>3. CASE UNCHANGED vars
  BY <1>3 DEF vars, ReplyInv, PlaceInv, OnceInv, Asking, Replied, Replying, Taken
<1> QED BY <1>1, <1>2, <1>3 DEF Next, Idle

LEMMA ReplyInvariant == Spec => []ReplyInv
BY ReplyInit, ReplyStep, TypeCorrect, PTL DEF Spec

\* A call has at most one reply among those queued and the one taken.
LEMMA OneReply ==
  ASSUME ReplyInv, NEW c \in Calls
  PROVE  Cardinality(RepliesTo(c)) + (IF c \in seen THEN 1 ELSE 0) <= 1
<1>1. CASE RepliesTo(c) = {}
  BY <1>1, FS_EmptySet
<1>2. CASE RepliesTo(c) # {}
  <2>1. PICK i \in RepliesTo(c) : TRUE
    BY <1>2
  <2>2. \A j \in RepliesTo(c) : j = i
    BY <2>1 DEF RepliesTo, ReplyInv, OnceInv
  <2>3. RepliesTo(c) = {i}
    BY <2>1, <2>2
  <2>4. Cardinality(RepliesTo(c)) = 1
    BY <2>3, FS_Singleton
  <2>5. c \notin seen
    BY <2>1 DEF RepliesTo, Replying, ReplyInv, PlaceInv
  <2> QED BY <2>4, <2>5
<1> QED BY <1>1, <1>2

\* On every schedule, for any number of calls, no request is replied to twice, failed
\* and repeated answers included.  (process_command_call, ipc_server_respond_async_call)
THEOREM ReplyOnce == Spec => []RepliedAtMostOnce
<1>1. ReplyInv => RepliedAtMostOnce
  BY OneReply DEF RepliedAtMostOnce
<1> QED BY <1>1, ReplyInvariant, PTL

-----------------------------------------------------------------------------
(* What a synchronous request returns.                                      *)

\* Every reply, wherever it is, carries the command of the call whose outputs it has.
WordsTrue ==
  /\ \A i \in 1..Len(toServer) : toServer[i].cmd = cmd[toServer[i].arg]
  /\ \A i \in 1..Len(toClient) : IsRespond(toClient[i]) => toClient[i].cmd = cmd[toClient[i].arg]
  /\ \A c \in handed : scmd[c] = cmd[c]
  /\ apc = "answer" => amsg.cmd = cmd[amsg.arg]
  /\ rpc # "accept" /\ IsRespond(rmsg) => rmsg.cmd = cmd[rmsg.arg]

\* The queues when a message is added to them or taken from them.
LEMMA RequestAdded ==
  ASSUME NetTypeOK, WordsTrue, NEW m \in Request, toServer' = Append(toServer, m), m.cmd = cmd[m.arg]
  PROVE  \A i \in 1..Len(toServer') : toServer'[i].cmd = cmd[toServer'[i].arg]
<1>1. \A i \in 1..Len(toServer') : toServer'[i] = m \/ \E j \in 1..Len(toServer) : toServer'[i] = toServer[j]
  BY AppendElements DEF NetTypeOK
<1> QED BY <1>1 DEF WordsTrue

LEMMA RequestTaken ==
  ASSUME NetTypeOK, WordsTrue, toServer # <<>>, toServer' = Tail(toServer)
  PROVE  /\ Head(toServer) \in Request /\ Head(toServer).cmd = cmd[Head(toServer).arg]
         /\ \A i \in 1..Len(toServer') : toServer'[i].cmd = cmd[toServer'[i].arg]
<1>1. /\ Len(toServer) \in Nat \ {0} /\ Len(toServer') = Len(toServer) - 1
      /\ Head(toServer) = toServer[1] /\ Head(toServer) \in Request
      /\ \A j \in 1..Len(toServer') : toServer'[j] = toServer[j + 1]
  BY Unqueued DEF NetTypeOK
<1>2. 1 \in 1..Len(toServer) /\ \A j \in 1..Len(toServer') : j + 1 \in 1..Len(toServer)
  BY <1>1
<1> QED BY <1>1, <1>2 DEF WordsTrue

LEMMA ReplyAdded ==
  ASSUME NetTypeOK, WordsTrue, NEW m \in Answer \cup Report, toClient' = Append(toClient, m),
         IsRespond(m) => m.cmd = cmd[m.arg]
  PROVE  \A i \in 1..Len(toClient') : IsRespond(toClient'[i]) => toClient'[i].cmd = cmd[toClient'[i].arg]
<1>1. \A i \in 1..Len(toClient') : toClient'[i] = m \/ \E j \in 1..Len(toClient) : toClient'[i] = toClient[j]
  BY AppendElements DEF NetTypeOK
<1> QED BY <1>1 DEF WordsTrue, IsRespond

LEMMA ReplyTaken ==
  ASSUME NetTypeOK, WordsTrue, toClient # <<>>, toClient' = Tail(toClient)
  PROVE  /\ IsRespond(Head(toClient)) => Head(toClient).cmd = cmd[Head(toClient).arg]
         /\ \A i \in 1..Len(toClient') : IsRespond(toClient'[i]) => toClient'[i].cmd = cmd[toClient'[i].arg]
<1>1. /\ Len(toClient) \in Nat \ {0} /\ Len(toClient') = Len(toClient) - 1
      /\ Head(toClient) = toClient[1]
      /\ \A j \in 1..Len(toClient') : toClient'[j] = toClient[j + 1]
  BY Unqueued DEF NetTypeOK
<1>2. 1 \in 1..Len(toClient) /\ \A j \in 1..Len(toClient') : j + 1 \in 1..Len(toClient)
  BY <1>1
<1> QED BY <1>1, <1>2 DEF WordsTrue, IsRespond

SameCommand(c, o) == o # None /\ cmd[o] = cmd[c]

\* While nothing has gone wrong, the node in the receive thread's hand is of the
\* message's command, and a caller is woken only after its node has been written.
OutputsTrue ==
  hz = {} =>
    /\ rpc \in {"dispatch", "signal"} => IsRespond(rmsg) /\ rnode \in Calls /\ cmd[rnode] = rmsg.cmd
    /\ rpc = "signal" => SameCommand(rnode, out[rnode])
    /\ \A c \in Calls :
         /\ out[c] = None \/ SameCommand(c, out[c])
         /\ pc[c] = "copy" => SameCommand(c, out[c])
         /\ kind[c] = "sync" /\ ret[c] = "ok" => SameCommand(c, result[c])

OutputInv == WordsTrue /\ OutputsTrue

LEMMA OutputInit == Init => OutputInv
<1> SUFFICES ASSUME Init PROVE OutputInv
  OBVIOUS
<1>1. Len(toServer) = 0 /\ Len(toClient) = 0 /\ handed = {} /\ apc = "idle" /\ rpc = "accept"
  BY DEF Init, ClientInit, ServerInit, NetInit
<1>2. \A c \in Calls : out[c] = None /\ pc[c] = "start" /\ ret[c] = "none"
  BY DEF Init, ClientInit
<1>3. WordsTrue
  BY <1>1 DEF WordsTrue
<1>4. OutputsTrue
  BY <1>1, <1>2 DEF OutputsTrue
<1> QED BY <1>3, <1>4 DEF OutputInv

\* A caller asks with its own command, and returns 0 with what its node holds.
LEMMA CallerOutputs ==
  ASSUME TypeOK, OutputInv, NEW c \in Calls, Caller(c), UNCHANGED serverVars
  PROVE  OutputInv'
<1> USE DEF TypeOK, ClientTypeOK, ServerTypeOK, NetTypeOK, Goto, Return, Free
<1>1. UNCHANGED <<toClient, handed, scmd, apc, amsg, rpc, rmsg, rnode, cmd, kind, out>>
  BY DEF Caller, Runs, Begin, Send, Insert, Wait, CopyBack, SpuriousWakeup, TimeoutFires, GiveUp, serverVars, answerVars
<1>2. \A i \in 1..Len(toServer') : toServer'[i].cmd = cmd[toServer'[i].arg]
  <2>1. CASE toServer' = toServer
    BY <2>1 DEF OutputInv, WordsTrue
  <2>2. CASE toServer' # toServer
    <3> DEFINE r == [cmd |-> cmd[c], respond |-> FALSE, async |-> kind[c] = "async", arg |-> c]
    <3>1. toServer' = Append(toServer, r)
      BY <2>2 DEF Caller, Runs, Begin, Send, Insert, Wait, CopyBack, SpuriousWakeup, TimeoutFires, GiveUp
    <3>2. r \in Request /\ r.arg = c /\ r.cmd = cmd[c]
      BY DEF Request
    <3> HIDE DEF r
    <3> QED BY <3>1, <3>2, RequestAdded DEF OutputInv
  <2> QED BY <2>1, <2>2
<1>3. WordsTrue'
  BY <1>1, <1>2 DEF OutputInv, WordsTrue
<1>4. hz' = {} => hz = {}
  BY DEF Caller, Runs, Begin, Send, Insert, Wait, CopyBack, SpuriousWakeup, TimeoutFires, GiveUp
<1>5. ASSUME NEW d \in Calls, hz' = {}, hz = {}
      PROVE  /\ pc'[d] = "copy" => SameCommand(d, out[d])
             /\ kind[d] = "sync" /\ ret'[d] = "ok" => SameCommand(d, result'[d])
  <2>1. CASE d # c
    <3>1. pc'[d] = pc[d] /\ ret'[d] = ret[d] /\ result'[d] = result[d]
      BY <2>1 DEF Caller, Runs, Begin, Send, Insert, InsertTail, Wait, CopyBack, SpuriousWakeup, TimeoutFires, GiveUp
    <3> QED BY <1>5, <3>1 DEF OutputInv, OutputsTrue
  <2>2. CASE d = c /\ CopyBack(c)
    BY <1>5, <2>2 DEF CopyBack, OutputInv, OutputsTrue
  <2>3. CASE d = c /\ ~CopyBack(c)
    <3>1. /\ pc'[c] # "copy"
          /\ result' = result
          /\ kind[c] = "sync" /\ ret'[c] = "ok" => ret[c] = "ok"
      BY <1>5, <2>3 DEF Caller, Runs, Begin, Send, Insert, InsertTail, Wait, SpuriousWakeup, TimeoutFires, GiveUp
    <3> QED BY <1>5, <2>3, <3>1 DEF OutputInv, OutputsTrue
  <2> QED BY <2>1, <2>2, <2>3
<1>6. OutputsTrue'
  BY <1>1, <1>4, <1>5 DEF OutputInv, OutputsTrue, SameCommand
<1> QED BY <1>3, <1>6 DEF OutputInv

\* The receive thread writes a reply into a node of the same command.
LEMMA ReceiverOutputs ==
  ASSUME TypeOK, OutputInv, Receiver, UNCHANGED serverVars
  PROVE  OutputInv'
<1> USE DEF TypeOK, ClientTypeOK, ServerTypeOK, NetTypeOK, Goto, Free
<1>1. UNCHANGED <<toServer, handed, scmd, apc, amsg, cmd, kind, ret, result>>
  BY DEF Receiver, Accept, LookupRespond, LookupReport, Dispatch, Signal, threadVars, serverVars, answerVars
<1>2. CASE Accept
  <2>2. /\ IsRespond(Head(toClient)) => Head(toClient).cmd = cmd[Head(toClient).arg]
        /\ \A i \in 1..Len(toClient') : IsRespond(toClient'[i]) => toClient'[i].cmd = cmd[toClient'[i].arg]
    BY <1>2, ReplyTaken DEF Accept, OutputInv
  <2>3. rpc = "accept" /\ (rpc' = "accept" \/ (rpc' = "lookup" /\ rmsg' = Head(toClient)))
    BY <1>2 DEF Accept
  <2>4. UNCHANGED <<hz, out, pc, rnode>>
    BY <1>2 DEF Accept
  <2>5. WordsTrue'
    BY <1>1, <2>2, <2>3 DEF OutputInv, WordsTrue, IsRespond
  <2>6. OutputsTrue'
    BY <1>1, <2>3, <2>4 DEF OutputInv, OutputsTrue, SameCommand
  <2> QED BY <2>5, <2>6 DEF OutputInv
<1>3. CASE ~Accept
  <2>1. UNCHANGED <<toClient, rmsg>> /\ rpc # "accept"
    BY <1>3 DEF Receiver, LookupRespond, LookupReport, Dispatch, Signal
  <2>2. WordsTrue'
    BY <1>1, <2>1 DEF OutputInv, WordsTrue, IsRespond
  <2>3. CASE LookupRespond
    <3>1. UNCHANGED <<pc, out>> /\ rpc = "lookup" /\ IsRespond(rmsg)
      BY <2>3 DEF LookupRespond
    <3>2. CASE LookupMisses(resp)
      <4>1. hz' = {} => hz = {} /\ rpc' = "lookup"
        BY <3>1, <3>2 DEF LookupMisses
      <4> QED BY <1>1, <2>1, <2>2, <3>1, <4>1 DEF OutputInv, OutputsTrue, SameCommand
    <3>3. CASE RespondMatches
      <4>1. PICK i \in 1..Len(resp) :
              /\ cmd[resp[i]] = rmsg.cmd
              /\ UNCHANGED rpc \/ (rnode' = resp[i] /\ rpc' = "dispatch")
              /\ UNCHANGED hz
        BY <3>3 DEF RespondMatches, FirstMatch
      <4>2. resp[i] \in Calls
        BY ElementOfSeq
      <4> QED BY <1>1, <2>1, <2>2, <3>1, <4>1, <4>2 DEF OutputInv, OutputsTrue, SameCommand, IsRespond
    <3> QED BY <2>3, <3>2, <3>3 DEF LookupRespond
  <2>4. CASE LookupReport
    <3>1. UNCHANGED <<pc, out>> /\ rpc = "lookup" /\ (hz' = {} => hz = {} /\ rpc' = "lookup")
      BY <2>4 DEF LookupReport, ReportMatches, LookupMisses
    <3> QED BY <1>1, <2>1, <2>2, <3>1 DEF OutputInv, OutputsTrue, SameCommand
  <2>5. CASE Dispatch
    <3>1. UNCHANGED <<pc, hz, rnode>> /\ rpc = "dispatch"
      BY <2>5 DEF Dispatch
    <3>2. \/ UNCHANGED out /\ rpc' # "signal"
          \/ rnode \in Calls /\ out' = [out EXCEPT ![rnode] = rmsg.arg]
      BY <2>5 DEF Dispatch, ProcessSyncCall, ProcessAsyncCall
    <3>3. rpc' \in {"dispatch", "signal", "accept"}
      BY <2>5 DEF Dispatch, ProcessSyncCall, ProcessAsyncCall
    <3>4. ASSUME hz = {}
          PROVE  /\ rnode \in Calls /\ IsRespond(rmsg) /\ cmd[rnode] = rmsg.cmd
                 /\ rmsg.arg \in Calls /\ SameCommand(rnode, rmsg.arg)
      <4>1. rnode \in Calls /\ IsRespond(rmsg) /\ cmd[rnode] = rmsg.cmd /\ rmsg.cmd = cmd[rmsg.arg]
        BY <3>1, <3>4 DEF OutputInv, OutputsTrue, WordsTrue
      <4>2. rmsg.arg \in Calls
        BY <3>1, <4>1 DEF IsRespond, Answer, Report
      <4> QED BY <4>1, <4>2, CommonAssumption DEF SameCommand
    <3>5. ASSUME hz = {}, NEW d \in Calls
          PROVE  /\ out'[d] = None \/ SameCommand(d, out'[d])
                 /\ pc[d] = "copy" => SameCommand(d, out'[d])
                 /\ rpc' = "signal" /\ d = rnode => SameCommand(d, out'[d])
      <4>1. CASE out' = out /\ rpc' # "signal"
        BY <3>5, <4>1 DEF OutputInv, OutputsTrue
      <4>2. CASE out' = [out EXCEPT ![rnode] = rmsg.arg]
        <5>1. CASE d = rnode
          BY <3>4, <3>5, <4>2, <5>1
        <5>2. CASE d # rnode
          BY <3>5, <4>2, <5>2 DEF OutputInv, OutputsTrue
        <5> QED BY <5>1, <5>2
      <4> QED BY <3>2, <4>1, <4>2
    <3>6. OutputsTrue'
      BY <1>1, <2>1, <3>1, <3>3, <3>4, <3>5 DEF OutputInv, OutputsTrue, SameCommand, IsRespond
    <3> QED BY <2>2, <3>6 DEF OutputInv
  <2>6. CASE Signal
    <3>1. UNCHANGED <<hz, out, rnode>> /\ rpc = "signal" /\ rpc' \in {"signal", "accept"}
      BY <2>6 DEF Signal
    <3>2. \A d \in Calls : pc'[d] = pc[d] \/ d = rnode
      BY <2>6 DEF Signal
    <3>3. OutputsTrue'
      BY <1>1, <2>1, <3>1, <3>2 DEF OutputInv, OutputsTrue, SameCommand, IsRespond
    <3> QED BY <2>2, <3>3 DEF OutputInv
  <2> QED BY <1>3, <2>3, <2>4, <2>5, <2>6 DEF Receiver
<1> QED BY <1>2, <1>3

\* The server answers with the word it was asked with.
LEMMA ServerOutputs ==
  ASSUME TypeOK, OutputInv, Serve \/ Answerer, UNCHANGED clientVars
  PROVE  OutputInv'
<1> USE DEF TypeOK, ClientTypeOK, ServerTypeOK, NetTypeOK
<1>1. OutputsTrue'
  BY DEF OutputInv, OutputsTrue, SameCommand, IsRespond
<1>2. UNCHANGED <<cmd, rpc, rmsg>>
  OBVIOUS
<1>4. CASE Serve
  <2> DEFINE m == Head(toServer)
  <2>1. /\ m \in Request /\ m.cmd = cmd[m.arg]
        /\ \A i \in 1..Len(toServer') : toServer'[i].cmd = cmd[toServer'[i].arg]
    BY <1>4, RequestTaken DEF Serve, OutputInv
  <2>3. m.arg \in Calls /\ m.cmd \in Cmds /\ m.cmd = cmd[m.arg]
    BY <2>1 DEF Request
  <2>5. ReplyTo(m.arg, m.cmd) \in Answer /\ ReplyTo(m.arg, m.cmd).cmd = m.cmd /\ ReplyTo(m.arg, m.cmd).arg = m.arg
    BY <2>3 DEF ReplyTo, Answer
  <2>6. \A i \in 1..Len(toClient') : IsRespond(toClient'[i]) => toClient'[i].cmd = cmd[toClient'[i].arg]
    <3>1. toClient' = toClient \/ toClient' = Append(toClient, ReplyTo(m.arg, m.cmd))
      BY <1>4 DEF Serve, HandleSync, HandleAsync, HandleRegister
    <3>2. CASE toClient' = toClient
      BY <3>2 DEF OutputInv, WordsTrue
    <3> QED BY <2>3, <2>5, <3>1, <3>2, ReplyAdded DEF OutputInv
  <2>7. /\ handed' \subseteq handed \cup {m.arg}
        /\ \A c \in Calls \ {m.arg} : scmd'[c] = scmd[c]
        /\ (scmd' = scmd /\ handed' = handed) \/ scmd'[m.arg] = m.cmd
    BY <1>4, <2>3 DEF Serve, HandleSync, HandleAsync, HandleRegister
  <2>8. \A c \in handed' : scmd'[c] = cmd[c]
    BY <2>3, <2>7 DEF OutputInv, WordsTrue
  <2>9. apc' = "answer" => UNCHANGED <<apc, amsg>> \/ amsg' = ReplyTo(m.arg, m.cmd)
    BY <1>4 DEF Serve, HandleSync, HandleAsync, HandleRegister
  <2>10. WordsTrue'
    BY <1>2, <2>1, <2>3, <2>5, <2>6, <2>8, <2>9 DEF OutputInv, WordsTrue, IsRespond
  <2> QED BY <1>1, <2>10 DEF OutputInv
<1>5. CASE Answerer
  <2>1. UNCHANGED <<toServer, handed, scmd>>
    BY <1>5 DEF Answerer, SendAnswer, RemoveNode, SendReport, StartAnswer, StartReport
  <2>2. apc' = "answer" => amsg'.cmd = cmd[amsg'.arg]
    <3>1. CASE \E c \in Calls, bit \in AnswerBits : StartAnswer(c, bit)
      <4>1. PICK c \in handed : amsg'.arg = c /\ amsg'.cmd = scmd[c]
        BY <3>1 DEF StartAnswer, ReplyTo
      <4> QED BY <4>1 DEF OutputInv, WordsTrue
    <3>2. CASE SendAnswer \/ RemoveNode \/ SendReport \/ \E w \in RegCmds : StartReport(w)
      BY <3>2 DEF SendAnswer, RemoveNode, SendReport, StartReport, OutputInv, WordsTrue
    <3> QED BY <1>5, <3>1, <3>2 DEF Answerer
  <2>3. \A i \in 1..Len(toClient') : IsRespond(toClient'[i]) => toClient'[i].cmd = cmd[toClient'[i].arg]
    <3>1. CASE toClient' = toClient
      BY <3>1 DEF OutputInv, WordsTrue
    <3>2. CASE SendAnswer /\ toClient' = Append(toClient, amsg)
      BY <3>2, ReplyAdded DEF SendAnswer, OutputInv, WordsTrue
    <3>3. CASE SendReport /\ toClient' = Append(toClient, amsg)
      <4>1. amsg \in Report /\ ~IsRespond(amsg)
        BY <3>3 DEF SendReport, Report, IsRespond
      <4> QED BY <3>3, <4>1, ReplyAdded DEF OutputInv
    <3> QED BY <1>5, <3>1, <3>2, <3>3 DEF Answerer, SendAnswer, RemoveNode, SendReport, StartAnswer, StartReport
  <2>4. WordsTrue'
    BY <1>2, <2>1, <2>2, <2>3 DEF OutputInv, WordsTrue, IsRespond
  <2> QED BY <1>1, <2>4 DEF OutputInv
<1> QED BY <1>4, <1>5

LEMMA OutputStep == TypeOK /\ OutputInv /\ [Next]_vars => OutputInv'
<1> SUFFICES ASSUME TypeOK, OutputInv, [Next]_vars PROVE OutputInv'
  OBVIOUS
<1>1. CASE ClientStep
  BY <1>1, CallerOutputs, ReceiverOutputs DEF ClientStep, ClientNext
<1>2. CASE ServerStep
  BY <1>2, ServerOutputs DEF ServerStep, ServerNext
<1>3. CASE UNCHANGED vars
  BY <1>3 DEF vars, OutputInv, WordsTrue, OutputsTrue, SameCommand, IsRespond
<1> QED BY <1>1, <1>2, <1>3 DEF Next, Idle

LEMMA OutputInvariant == Spec => []OutputInv
BY OutputInit, OutputStep, TypeCorrect, PTL DEF Spec

\* Unless a message found no node, a wait timed out or woke by itself, or a report was
\* dispatched, a synchronous request that returns 0 has the outputs of a reply to the
\* command it sent, for any number of calls of it.  (the search by cmd_id in
\* start_receive, process_sync_call)
THEOREM OutputsOfTheCommand == Spec => []ReplyIsForTheCommand
<1>1. TypeOK /\ OutputInv => ReplyIsForTheCommand
  BY DEF TypeOK, ClientTypeOK, OutputInv, OutputsTrue, SameCommand, ReplyIsForTheCommand
<1> QED BY <1>1, OutputInvariant, TypeCorrect, PTL

-----------------------------------------------------------------------------
(* The server's response list.                                              *)

\* No node that is listed has been freed.
Clean == ToSet(sresp) \cap sfreed = {}

OfCommand(w) == {c \in Calls : scmd[c] = w}

\* The listed nodes are requests that were handed over, the answer on its way is to
\* one of them; and as long as no freed node is listed, there are as many nodes as
\* unanswered requests, and nothing undefined has happened.
PendInv ==
  /\ IsFiniteSet(handed)
  /\ \A i \in 1..Len(sresp) : sresp[i] \in handed
  /\ apc \in {"answer", "remove"} => amsg.arg \in answered /\ scmd[amsg.arg] = amsg.cmd
  /\ Clean =>
       /\ ~sfault
       /\ \A w \in Cmds : Cardinality(PlacesOf(sresp, OfCommand(w)))
                            = HowMany(Unanswered, OfCommand(w))


LEMMA PendInit == Init => PendInv
<1> SUFFICES ASSUME Init PROVE PendInv
  OBVIOUS
<1>1. handed = {} /\ answered = {} /\ sresp = <<>> /\ apc = "idle" /\ ~sfault
  BY DEF Init, ServerInit
<1>2. Len(sresp) = 0 /\ \A W : PlacesOf(sresp, W) = {}
  BY <1>1 DEF PlacesOf
<1>3. Unanswered = {} /\ Cardinality({}) = 0 /\ IsFiniteSet({})
  BY <1>1, FS_EmptySet DEF Unanswered
<1>4. \A w \in Cmds : PlacesOf(sresp, OfCommand(w)) = {} /\ HowMany(Unanswered, OfCommand(w)) = 0
  BY <1>2, <1>3 DEF HowMany
<1>5. \A i \in 1..Len(sresp) : sresp[i] \in handed
  BY <1>2
<1>6. IsFiniteSet(handed) /\ apc \notin {"answer", "remove"}
  BY <1>1, <1>3
<1> QED BY <1>1, <1>3, <1>4, <1>5, <1>6 DEF PendInv

LEMMA CleanMeans ==
  ASSUME ServerTypeOK
  PROVE  Clean <=> \A i \in 1..Len(sresp) : sresp[i] \notin sfreed
<1>1. DOMAIN sresp = 1..Len(sresp)
  BY LenProperties DEF ServerTypeOK
<1> QED BY <1>1 DEF Clean, ToSet

\* The unanswered requests are among those handed over, and finitely many.
LEMMA UnansweredHanded ==
  ASSUME ServerTypeOK, PendInv
  PROVE  Unanswered \subseteq handed /\ IsFiniteSet(Unanswered)
<1>1. Unanswered \subseteq handed
  BY DEF Unanswered, PendInv, ServerTypeOK
<1> QED BY <1>1, FS_Subset DEF PendInv

\* A step that changes neither the list nor what is to be answered, nor the word of a
\* request handed over.
LEMMA PendCarried ==
  ASSUME TypeOK, PendInv, UNCHANGED <<sresp, sfreed, sfault, handed>>, Unanswered' = Unanswered,
         \A c \in handed : scmd'[c] = scmd[c],
         apc' \in {"answer", "remove"} => amsg'.arg \in answered' /\ scmd'[amsg'.arg] = amsg'.cmd
  PROVE  PendInv'
<1> USE DEF TypeOK, ServerTypeOK
<1>1. Unanswered \subseteq handed
  BY UnansweredHanded
<1>2. \A w \in Cmds : HowMany(Unanswered', OfCommand(w)') = HowMany(Unanswered, OfCommand(w))
  BY <1>1 DEF OfCommand, HowMany
<1>3. \A w \in Cmds : PlacesOf(sresp, OfCommand(w))' = PlacesOf(sresp, OfCommand(w))
  BY DEF PlacesOf, OfCommand, PendInv
<1>4. Clean' <=> Clean
  BY DEF Clean
<1> QED BY <1>2, <1>3, <1>4 DEF PendInv

\* A step that follows a freed node leaves it listed.
LEMMA PendDirty ==
  ASSUME TypeOK, TypeOK', PendInv, UNCHANGED <<handed, answered, scmd, amsg>>, ~Clean',
         apc' \in {apc, "idle"}, \A i \in 1..Len(sresp') : sresp'[i] \in handed
  PROVE  PendInv'
BY DEF PendInv

\* The receive thread lists the request it hands over.
LEMMA ServePend ==
  ASSUME TypeOK, TypeOK', ReplyInv, PendInv, ~sfault, Serve
  PROVE  PendInv'
<1> USE DEF TypeOK, ServerTypeOK, NetTypeOK
<1> DEFINE m == Head(toServer)
<1>1. m \in Request /\ m.arg \in Calls /\ m.cmd \in Cmds /\ m.arg \notin handed
  <2>1. Len(toServer) \in Nat \ {0} /\ m = toServer[1] /\ m \in Request
    BY Unqueued DEF Serve
  <2>2. m.arg \in Calls /\ m.cmd \in Cmds
    BY <2>1 DEF Request
  <2>3. Asking(m.arg)
    BY <2>1 DEF Asking
  <2> QED BY <2>1, <2>2, <2>3 DEF ReplyInv, PlaceInv
<1>2. HandleSync(m) \/ HandleAsync(m) \/ HandleRegister(m)
  BY DEF Serve
<1>3. TestBuild => apc = "idle"
  BY DEF Serve
<1> HIDE DEF m
<1>4. CASE HandleSync(m)
  <2>1. UNCHANGED <<sresp, scmd, sfreed, handed, answerVars, sfault>>
    BY <1>4 DEF HandleSync
  <2>2. Unanswered' = Unanswered
    BY <2>1 DEF Unanswered
  <2> QED BY <2>1, <2>2, PendCarried DEF PendInv
<1>5. CASE HandleRegister(m)
  <2>1. /\ UNCHANGED <<sresp, sfreed, handed, answered, sfault>>
        /\ \A c \in Calls \ {m.arg} : scmd'[c] = scmd[c]
        /\ UNCHANGED <<apc, amsg>> \/ (apc = "idle" /\ apc' = "report")
    BY <1>3, <1>5 DEF HandleRegister
  <2>2. Unanswered' = Unanswered
    BY <2>1 DEF Unanswered
  <2>3. \A c \in handed : scmd'[c] = scmd[c]
    BY <1>1, <2>1
  <2>4. apc' \in {"answer", "remove"} => amsg'.arg \in answered' /\ scmd'[amsg'.arg] = amsg'.cmd
    BY <2>1, <2>3 DEF PendInv
  <2> QED BY <2>1, <2>2, <2>3, <2>4, PendCarried
<1>6. CASE HandleAsync(m) /\ sfault'
  <2>1. UNCHANGED <<sresp, sfreed, scmd, handed, apc, amsg, answered>> /\ SFreed(Len(sresp))
    BY <1>6 DEF HandleAsync
  <2>2. ~Clean
    BY <2>1, CleanMeans DEF SFreed
  <2> QED BY <2>1, <2>2, PendDirty DEF PendInv, Clean
<1>7. CASE HandleAsync(m) /\ ~sfault' /\ sresp' = sresp
  <2>1. UNCHANGED <<sresp, sfreed, scmd, handed, apc, amsg, answered, sfault>>
    <3>1. Append(sresp, m.arg) # sresp
      <4>1. Len(Append(sresp, m.arg)) = Len(sresp) + 1 /\ Len(sresp) \in Nat
        BY <1>1, AppendProperties, LenProperties
      <4> QED BY <4>1
    <3> QED BY <1>7, <3>1 DEF HandleAsync
  <2>2. Unanswered' = Unanswered
    BY <2>1 DEF Unanswered
  <2> QED BY <2>1, <2>2, PendCarried DEF PendInv
<1>8. CASE HandleAsync(m) /\ ~sfault' /\ sresp' # sresp
  <2>1. /\ sresp' = Append(sresp, m.arg) /\ scmd' = [scmd EXCEPT ![m.arg] = m.cmd]
        /\ handed' = handed \cup {m.arg} /\ UNCHANGED <<sfreed, sfault>>
        /\ \/ UNCHANGED <<apc, amsg, answered>>
           \/ /\ apc = "idle" /\ apc' = "answer" /\ amsg' = ReplyTo(m.arg, m.cmd)
              /\ answered' = answered \cup {m.arg}
    BY <1>3, <1>8 DEF HandleAsync
  <2>2. /\ Len(sresp) \in Nat /\ Len(sresp') = Len(sresp) + 1 /\ sresp'[Len(sresp) + 1] = m.arg
        /\ \A i \in 1..Len(sresp) : sresp'[i] = sresp[i]
    BY <1>1, <2>1, Queued
  <2>3. Unanswered \subseteq handed /\ IsFiniteSet(Unanswered)
    BY UnansweredHanded
  <2>4. Unanswered' = Unanswered \cup {m.arg} /\ m.arg \notin Unanswered
    BY <1>1, <2>1, <2>3 DEF Unanswered, ReplyTo
  <2>5. scmd'[m.arg] = m.cmd /\ \A c \in handed : scmd'[c] = scmd[c]
    BY <1>1, <2>1
  <2>6. apc' \in {"answer", "remove"} => amsg'.arg \in answered' /\ scmd'[amsg'.arg] = amsg'.cmd
    BY <2>1, <2>5 DEF PendInv, ReplyTo
  <2>7. \A i \in 1..Len(sresp') : sresp'[i] \in handed'
    BY <2>1, <2>2 DEF PendInv
  <2>8. IsFiniteSet(handed')
    BY <2>1, FS_AddElement DEF PendInv
  <2>9. Clean' => Clean
    <3>1. DOMAIN sresp = 1..Len(sresp) /\ DOMAIN sresp' = 1..Len(sresp')
      BY LenProperties
    <3>2. ToSet(sresp) \subseteq ToSet(sresp)'
      BY <2>2, <3>1 DEF ToSet
    <3> QED BY <2>1, <3>2 DEF Clean
  <2>10. ASSUME Clean, NEW w \in Cmds
         PROVE  Cardinality(PlacesOf(sresp, OfCommand(w)))' = HowMany(Unanswered, OfCommand(w))'
    <3> DEFINE W == OfCommand(w)'
               n == IF m.arg \in W THEN 1 ELSE 0
    <3>1. PlacesOf(sresp, W) = PlacesOf(sresp, OfCommand(w)) /\ HowMany(Unanswered, W) = HowMany(Unanswered, OfCommand(w))
      BY <2>3, <2>5 DEF PlacesOf, OfCommand, PendInv, HowMany
    <3> HIDE DEF W
    <3>2. Cardinality(PlacesOf(sresp', W)) = Cardinality(PlacesOf(sresp, W)) + n
      BY <1>1, <2>1, CountAppended
    <3>3. HowMany(Unanswered', W) = HowMany(Unanswered, W) + n
      <4>1. HowMany(Unanswered \cup {m.arg}, W) = HowMany(Unanswered, W) + n
        BY ONLY <2>3, <2>4, CountAdded
      <4> QED BY <2>4, <4>1, Zenon
    <3>4. Cardinality(PlacesOf(sresp, OfCommand(w))) = HowMany(Unanswered, OfCommand(w))
      BY <2>10 DEF PendInv
    <3> QED BY <3>1, <3>2, <3>3, <3>4 DEF W
  <2> QED BY <2>1, <2>6, <2>7, <2>8, <2>9, <2>10 DEF PendInv
<1> QED BY <1>2, <1>4, <1>5, <1>6, <1>7, <1>8
\* Taking the answered request off the list leaves the nodes of the others; a search
\* that finds nothing has a node to free, because the answered request has one.
LEMMA RemovePend ==
  ASSUME TypeOK, TypeOK', PendInv, ~sfault, RemoveNode
  PROVE  PendInv'
<1> USE DEF TypeOK, ServerTypeOK
<1>1. /\ UNCHANGED <<scmd, handed, amsg, answered>> /\ apc = "remove" /\ apc' = "idle"
      /\ amsg.arg \in answered /\ answered \subseteq handed /\ scmd[amsg.arg] = amsg.cmd
      /\ amsg.arg \in Calls /\ amsg.cmd \in Cmds
  BY DEF RemoveNode, PendInv, Answer
<1>2. Unanswered \subseteq handed /\ IsFiniteSet(Unanswered)
  BY UnansweredHanded
<1>3. /\ amsg.arg \in Unanswered /\ Unanswered' = Unanswered \ {amsg.arg}
  BY <1>1 DEF Unanswered
<1>4. CASE AnswerMatches /\ sfault'
  <2>1. UNCHANGED <<sresp, sfreed>> /\ \E i \in 1..Len(sresp) : sresp[i] \in sfreed
    BY <1>4 DEF AnswerMatches, SFreed
  <2>2. ~Clean'
    BY <2>1, CleanMeans DEF Clean
  <2> QED BY <1>1, <2>1, <2>2, PendDirty DEF PendInv
<1>5. CASE AnswerMatches /\ ~sfault'
  <2>1. PICK i \in 1..Len(sresp) :
          /\ scmd[sresp[i]] = amsg.cmd
          /\ \A j \in 1..(i + 1) : ~SFreed(j)
          /\ sresp' = RemoveAt(sresp, i) /\ sfreed' = sfreed \cup {sresp[i]}
    BY <1>5 DEF AnswerMatches, AnswerMatch
  <2>2. /\ \A k \in 1..Len(sresp) : k # i => \E j \in 1..Len(sresp') : sresp'[j] = sresp[k]
        /\ \A j \in 1..Len(sresp') : \E k \in 1..Len(sresp) : k # i /\ sresp'[j] = sresp[k]
    <3>1. sresp \in Seq(Calls) /\ sresp' = RemoveAt(sresp, i)
      BY <2>1
    <3>2. \A k \in 1..Len(sresp) : k # i => \E j \in 1..Len(sresp') : sresp'[j] = sresp[k]
      BY <3>1, RemoveAtKeeps
    <3>3. \A j \in 1..Len(sresp') : \E k \in 1..Len(sresp) : k # i /\ sresp'[j] = sresp[k]
      BY <3>1, RemoveAtLeaves
    <3> QED BY <3>2, <3>3
  <2>3. \A j \in 1..Len(sresp') : sresp'[j] \in handed
    BY <2>2 DEF PendInv
  <2>4. Clean' => Clean
    <3> SUFFICES ASSUME Clean', NEW k \in 1..Len(sresp) PROVE sresp[k] \notin sfreed
      BY CleanMeans
    <3>1. \A j \in 1..Len(sresp') : sresp'[j] \notin sfreed'
      <4>1. DOMAIN sresp' = 1..Len(sresp')
        BY LenProperties
      <4> QED BY <4>1 DEF Clean, ToSet
    <3>2. CASE k # i
      BY <2>1, <2>2, <3>1, <3>2
    <3>3. CASE k = i
      <4>1. i \in 1..(i + 1)
        BY LenProperties
      <4> QED BY <2>1, <3>3, <4>1 DEF SFreed
    <3> QED BY <3>2, <3>3
  <2>5. ASSUME Clean, NEW w \in Cmds
        PROVE  Cardinality(PlacesOf(sresp, OfCommand(w)))' = HowMany(Unanswered, OfCommand(w))'
    <3> DEFINE W == OfCommand(w)
    <3>1. OfCommand(w)' = W
      BY <1>1 DEF OfCommand
    <3>2. sresp[i] \in W <=> amsg.arg \in W
      BY <1>1, <2>1, ElementOfSeq DEF OfCommand
    <3> HIDE DEF W
    <3>3. Cardinality(PlacesOf(sresp', W)) = Cardinality(PlacesOf(sresp, W)) - (IF amsg.arg \in W THEN 1 ELSE 0)
      BY <2>1, <3>2, CountRemoved
    <3>4. HowMany(Unanswered', W) = HowMany(Unanswered, W) - (IF amsg.arg \in W THEN 1 ELSE 0)
      BY ONLY <1>2, <1>3, CountDropped
    <3>5. Cardinality(PlacesOf(sresp, W)) = HowMany(Unanswered, W)
      BY <2>5 DEF PendInv, W
    <3> QED BY <3>1, <3>3, <3>4, <3>5
  <2> QED BY <1>1, <1>5, <2>3, <2>4, <2>5 DEF PendInv
<1>6. CASE AnswerMisses
  <2>1. sresp # <<>>
    <3>1. CASE Clean
      <4> DEFINE W == OfCommand(amsg.cmd)
      <4>1. amsg.arg \in Unanswered \cap W
        BY <1>1, <1>3 DEF OfCommand
      <4>2. IsFiniteSet(Unanswered \cap W)
        BY <1>2, FS_Subset
      <4>3. HowMany(Unanswered, W) # 0
        BY <4>1, <4>2, FS_EmptySet DEF HowMany
      <4>4. Cardinality(PlacesOf(sresp, W)) # 0
        BY <1>1, <3>1, <4>3 DEF PendInv
      <4>5. PlacesOf(sresp, W) # {}
        BY <4>4, FS_EmptySet
      <4> QED BY <4>5 DEF PlacesOf
    <3>2. CASE ~Clean
      BY <3>2, CleanMeans
    <3> QED BY <3>1, <3>2
  <2>2. Len(sresp) \in 1..Len(sresp)
    BY <2>1, EmptySeq, LenProperties
  <2>3. /\ sresp' = sresp /\ sfreed \subseteq sfreed'
        /\ (\E i \in 1..Len(sresp) : SFreed(i)) \/ sresp[Len(sresp)] \in sfreed'
    BY <1>6, <2>1 DEF AnswerMisses
  <2>4. \E i \in 1..Len(sresp') : sresp'[i] \in sfreed'
    BY <2>2, <2>3 DEF SFreed
  <2>5. ~Clean'
    <3>1. DOMAIN sresp' = 1..Len(sresp')
      BY LenProperties
    <3> QED BY <2>4, <3>1 DEF Clean, ToSet
  <2> QED BY <1>1, <2>3, <2>5, PendDirty DEF PendInv
<1> QED BY <1>4, <1>5, <1>6 DEF RemoveNode

\* An answer is begun, sent and given up for one request that was handed over.
LEMMA AnswererPend ==
  ASSUME TypeOK, TypeOK', PendInv, ~sfault, Answerer
  PROVE  PendInv'
<1> USE DEF TypeOK, ServerTypeOK
<1>1. CASE RemoveNode
  BY <1>1, RemovePend
<1>2. CASE SendAnswer
  <2>1. /\ UNCHANGED <<sresp, sfreed, sfault, handed, scmd, amsg>> /\ apc = "answer"
        /\ \/ apc' = "remove" /\ answered' = answered
           \/ apc' = "idle" /\ answered' = answered \ {amsg.arg}
    BY <1>2 DEF SendAnswer
  <2>2. Unanswered' = Unanswered
    BY <2>1 DEF Unanswered, PendInv
  <2>3. apc' \in {"answer", "remove"} => amsg'.arg \in answered' /\ scmd'[amsg'.arg] = amsg'.cmd
    BY <2>1 DEF PendInv
  <2> QED BY <2>1, <2>2, <2>3, PendCarried
<1>3. CASE SendReport
  <2>1. UNCHANGED <<sresp, sfreed, sfault, handed, answered, scmd>> /\ apc = "report" /\ apc' = "idle"
    BY <1>3 DEF SendReport
  <2>2. Unanswered' = Unanswered
    BY <2>1 DEF Unanswered
  <2> QED BY <2>1, <2>2, PendCarried
<1>4. ASSUME NEW c \in Calls, NEW bit \in AnswerBits, StartAnswer(c, bit)
      PROVE  PendInv'
  <2>1. /\ UNCHANGED <<sresp, sfreed, sfault, handed, scmd>> /\ apc = "idle" /\ apc' = "answer"
        /\ c \in handed \ answered /\ answered' = answered \cup {c}
        /\ amsg'.arg = c /\ amsg'.cmd = scmd[c]
    BY <1>4 DEF StartAnswer, ReplyTo
  <2>2. Unanswered' = Unanswered
    BY <2>1 DEF Unanswered
  <2> QED BY <2>1, <2>2, PendCarried
<1>5. ASSUME NEW w \in RegCmds, StartReport(w)
      PROVE  PendInv'
  <2>1. UNCHANGED <<sresp, sfreed, sfault, handed, answered, scmd>> /\ apc = "idle" /\ apc' \in {"idle", "report"}
    BY <1>5 DEF StartReport
  <2>2. Unanswered' = Unanswered
    BY <2>1 DEF Unanswered
  <2> QED BY <2>1, <2>2, PendCarried
<1> QED BY <1>1, <1>2, <1>3, <1>4, <1>5 DEF Answerer

LEMMA PendStep == TypeOK /\ TypeOK' /\ ReplyInv /\ PendInv /\ [Next]_vars => PendInv'
<1> SUFFICES ASSUME TypeOK, TypeOK', ReplyInv, PendInv, [Next]_vars PROVE PendInv'
  OBVIOUS
<1>1. CASE ServerStep
  BY <1>1, ServePend, AnswererPend DEF ServerStep, ServerNext
<1>2. CASE UNCHANGED serverVars
  BY <1>2 DEF PendInv, Clean, Unanswered, OfCommand
<1> QED BY <1>1, <1>2 DEF Next, ClientStep, Idle, vars

\* For any number of requests, the server's response list has one node per request
\* still to be answered, command by command, until a freed node is left on it.
\* (process_async_command against "remove node" in ipc_server_respond_async_call)
THEOREM ListMatchesPending == Spec => []PendingMatchesList
<1>1. TypeOK /\ PendInv => PendingMatchesList
  <2> SUFFICES ASSUME TypeOK, PendInv, ToSet(sresp) \cap sfreed = {}, NEW w \in ReqCmds
               PROVE  Cardinality({i \in 1..Len(sresp) : scmd[sresp[i]] = w})
                        = Cardinality({c \in Unanswered : scmd[c] = w})
    BY DEF PendingMatchesList
  <2>1. Cardinality(PlacesOf(sresp, OfCommand(w))) = HowMany(Unanswered, OfCommand(w))
    BY DEF PendInv, Clean, Cmds
  <2>2. PlacesOf(sresp, OfCommand(w)) = {i \in 1..Len(sresp) : scmd[sresp[i]] = w}
    BY ElementOfSeq DEF PlacesOf, OfCommand, TypeOK, ServerTypeOK
  <2>3. Unanswered \cap OfCommand(w) = {c \in Unanswered : scmd[c] = w}
    BY UnansweredHanded DEF OfCommand, TypeOK, ServerTypeOK
  <2> QED BY <2>1, <2>2, <2>3 DEF HowMany
<1> QED BY <1>1, TypeCorrect, ReplyInvariant, PendInit, PendStep, PTL DEF Spec

\* Nothing undefined happens in the server while no freed node is listed: neither the
\* walk over the list nor the free() after it.  (ipc_server_respond_async_call)
THEOREM ServerSafety == Spec => []ServerMemorySafe
<1>1. PendInv => ServerMemorySafe
  BY DEF PendInv, Clean, ServerMemorySafe
<1> QED BY <1>1, TypeCorrect, ReplyInvariant, PendInit, PendStep, PTL DEF Spec

-----------------------------------------------------------------------------
(* The client's response list.                                              *)

\* A call whose message has left, and a request whose node has been put on the list.
Past(c) == pc[c] \in {"insert", "lock", "wait", "copy"} \/ ret[c] = "ok"
Inserted(c) == kind[c] # "register" /\ pc[c] # "insert" /\ Past(c)

\* The requests whose node has been taken off the list again.
Off == {c \in Calls : Inserted(c) /\ \A i \in 1..Len(resp) : resp[i] # c}

ForCommand(w) == {c \in Calls : cmd[c] = w}

\* Only requests are handed over and replied to.
KindInv ==
  /\ \A c \in Calls : cmd[c] \in RegCmds <=> kind[c] = "register"
  /\ \A c \in Calls : c \in handed \/ Replied(c) => kind[c] # "register"

\* On a calm schedule, for each command as many nodes have been taken off the list as
\* replies have been taken off the socket.
TakenInv ==
  /\ IsFiniteSet(seen)
  /\ Calm /\ ~fault =>
       /\ \A c \in Calls : Asking(c) \/ c \in handed \/ Replied(c) => Past(c)
       /\ \A i \in 1..Len(resp) : Inserted(resp[i])
       /\ IsFiniteSet(Off)
       /\ \A w \in Cmds : HowMany(Off, ForCommand(w)) = HowMany(seen, ForCommand(w))

\* When nothing has gone wrong, the callback of an asynchronous request that was taken
\* off has run, with the outputs of a reply, or is about to.
RanInv ==
  (hz = {} /\ ~fault) =>
    /\ \A c \in Off : kind[c] = "async" => runs[c] = 1 \/ (rpc = "dispatch" /\ rnode = c)
    /\ \A c \in Calls : runs[c] > 0 => out[c] # None

LEMMA TakenInit == Init => KindInv /\ TakenInv /\ RanInv
<1> SUFFICES ASSUME Init PROVE KindInv /\ TakenInv /\ RanInv
  OBVIOUS
<1>1. /\ toServer = <<>> /\ toClient = <<>> /\ handed = {} /\ seen = {} /\ rpc = "accept"
      /\ \A c \in Calls : pc[c] = "start" /\ ret[c] = "none" /\ runs[c] = 0
      /\ Len(resp) = 0
      /\ \A c \in Calls : cmd[c] \in RegCmds <=> kind[c] = "register"
  BY DEF Init, ClientInit, ServerInit, NetInit
<1>2. \A c \in Calls : ~Asking(c) /\ ~Replied(c) /\ ~Past(c)
  BY <1>1 DEF Asking, Replied, Replying, Taken, Past
<1>3. Off = {}
  BY <1>2 DEF Off, Inserted
<1>4. IsFiniteSet({}) /\ \A W : HowMany({}, W) = 0
  BY FS_EmptySet DEF HowMany
<1>5. KindInv
  BY <1>1, <1>2 DEF KindInv
<1>6. TakenInv
  BY <1>1, <1>2, <1>3, <1>4 DEF TakenInv
<1>7. RanInv
  BY <1>1, <1>3 DEF RanInv
<1> QED BY <1>5, <1>6, <1>7

\* Where a call may get to in a step of each kind of thread.
LEMMA CallerMoves ==
  ASSUME TypeOK, NEW c \in Calls, Caller(c), UNCHANGED serverVars
  PROVE  /\ UNCHANGED <<kind, cmd, handed, seen>>
         /\ \A d \in Calls : /\ Replied(d)' <=> Replied(d)
                             /\ Asking(d)' => Asking(d) \/ (d = c /\ pc'[c] = "insert")
<1> USE DEF TypeOK, ClientTypeOK, NetTypeOK, Goto, Return, Free
<1>1. UNCHANGED <<kind, cmd, handed, seen, toClient, rpc, rmsg>>
  BY DEF Caller, Runs, Begin, Send, Insert, Wait, CopyBack, SpuriousWakeup, TimeoutFires, GiveUp
<1>2. \A d \in Calls : Replied(d)' <=> Replied(d)
  BY <1>1 DEF Replied, Replying, Taken
<1>3. CASE toServer' = toServer
  BY <1>1, <1>2, <1>3 DEF Asking
<1>4. CASE toServer' # toServer
  <2> DEFINE r == [cmd |-> cmd[c], respond |-> FALSE, async |-> kind[c] = "async", arg |-> c]
  <2>1. toServer' = Append(toServer, r) /\ pc'[c] = "insert"
    BY <1>4 DEF Caller, Runs, Begin, Send, Insert, Wait, CopyBack, SpuriousWakeup, TimeoutFires, GiveUp
  <2>2. r \in Request /\ r.arg = c
    BY DEF Request
  <2> HIDE DEF r
  <2>3. /\ Len(toServer) \in Nat /\ Len(toServer') = Len(toServer) + 1 /\ toServer'[Len(toServer) + 1] = r
        /\ \A j \in 1..Len(toServer) : toServer'[j] = toServer[j]
    BY <2>1, <2>2, Queued
  <2>4. \A d \in Calls : Asking(d)' => Asking(d) \/ d = c
    <3> SUFFICES ASSUME NEW d \in Calls, NEW i \in 1..Len(toServer'), toServer'[i].arg = d
                 PROVE  Asking(d) \/ d = c
      BY DEF Asking
    <3>1. i \in 1..Len(toServer) \/ i = Len(toServer) + 1
      BY <2>3
    <3> QED BY <2>2, <2>3, <3>1 DEF Asking
  <2> QED BY <1>1, <1>2, <2>1, <2>4
<1> QED BY <1>3, <1>4

LEMMA ReceiverMoves ==
  ASSUME TypeOK, Receiver, UNCHANGED serverVars
  PROVE  /\ UNCHANGED <<kind, cmd, handed>>
         /\ \A d \in Calls : (Replied(d)' => Replied(d)) /\ (Asking(d)' <=> Asking(d))
<1> USE DEF TypeOK, ClientTypeOK, NetTypeOK
<1>1. UNCHANGED <<kind, cmd, handed, toServer>>
  BY DEF Receiver, Accept, LookupRespond, LookupReport, Dispatch, Signal
<1>2. CASE Accept
  <2>1. /\ Len(toClient) \in Nat \ {0} /\ Len(toClient') = Len(toClient) - 1
        /\ Head(toClient) = toClient[1]
        /\ \A j \in 1..Len(toClient') : toClient'[j] = toClient[j + 1]
    BY <1>2, Unqueued DEF Accept
  <2>2. seen' = seen /\ rpc = "accept" /\ (rpc' = "lookup" => rmsg' = toClient[1])
    BY <1>2, <2>1 DEF Accept
  <2>3. 1 \in 1..Len(toClient) /\ \A j \in 1..Len(toClient') : j + 1 \in 1..Len(toClient)
    BY <2>1
  <2>4. \A d \in Calls : (Taken(d)' => Replying(d)) /\ (Replying(d)' => Replying(d))
    BY <2>1, <2>2, <2>3 DEF Taken, Replying, IsRespond
  <2> QED BY <1>1, <2>2, <2>4 DEF Asking, Replied
<1>3. CASE LookupRespond
  <2>1. toClient' = toClient /\ seen' = seen \cup {rmsg.arg} /\ rmsg' = rmsg /\ rpc = "lookup" /\ IsRespond(rmsg)
    BY <1>3 DEF LookupRespond
  <2>2. \A d \in Calls : (Replying(d)' <=> Replying(d)) /\ (Taken(d)' => Taken(d)) /\ (d \in seen' => d \in seen \/ Taken(d))
    BY <2>1 DEF Replying, Taken
  <2> QED BY <1>1, <2>2 DEF Asking, Replied
<1>4. CASE LookupReport \/ Dispatch \/ Signal
  <2>1. UNCHANGED <<toClient, seen>>
    BY <1>4 DEF LookupReport, Dispatch, Signal
  <2>2. \A d \in Calls : ~Taken(d)'
    BY <1>4 DEF LookupReport, ReportMatches, LookupMisses, Dispatch, ProcessSyncCall, ProcessAsyncCall, Signal, Taken
  <2> QED BY <1>1, <2>1, <2>2 DEF Asking, Replied, Replying
<1> QED BY <1>2, <1>3, <1>4 DEF Receiver

LEMMA ServerMoves ==
  ASSUME TypeOK, WordsTrue, OnceInv, Serve \/ Answerer, UNCHANGED clientVars
  PROVE  \A d \in Calls :
           /\ Asking(d)' => Asking(d)
           /\ d \in handed' \/ Replied(d)' =>
                d \in handed \/ Replied(d) \/ (Asking(d) /\ cmd[d] \notin RegCmds)
<1> USE DEF TypeOK, ServerTypeOK, NetTypeOK
<1>1. UNCHANGED <<cmd, rpc, rmsg, seen>>
  OBVIOUS
<1>2. ASSUME NEW m \in Answer \cup Report, toClient' = Append(toClient, m)
      PROVE  \A d \in Calls : Replied(d)' => Replied(d) \/ (IsRespond(m) /\ d = m.arg)
  <2>1. /\ Len(toClient) \in Nat /\ Len(toClient') = Len(toClient) + 1 /\ toClient'[Len(toClient) + 1] = m
        /\ \A j \in 1..Len(toClient) : toClient'[j] = toClient[j]
    BY <1>2, Queued
  <2>2. \A d \in Calls : (Replying(d)' => Replying(d) \/ (IsRespond(m) /\ d = m.arg)) /\ (Taken(d)' <=> Taken(d))
    BY <1>1, <2>1 DEF Replying, Taken
  <2> QED BY <1>1, <2>2 DEF Replied
<1>3. toClient' = toClient => \A d \in Calls : Replied(d)' <=> Replied(d)
  BY <1>1 DEF Replied, Replying, Taken
<1>4. CASE Serve
  <2> DEFINE m == Head(toServer)
  <2>1. /\ Len(toServer) \in Nat \ {0} /\ Len(toServer') = Len(toServer) - 1
        /\ m = toServer[1] /\ m \in Request
        /\ \A j \in 1..Len(toServer') : toServer'[j] = toServer[j + 1]
    BY <1>4, Unqueued DEF Serve
  <2>2. 1 \in 1..Len(toServer) /\ \A j \in 1..Len(toServer') : j + 1 \in 1..Len(toServer)
    BY <2>1
  <2>3. Asking(m.arg) /\ \A d \in Calls : Asking(d)' => Asking(d)
    BY <2>1, <2>2 DEF Asking
  <2>4. m.arg \in Calls /\ m.cmd \in Cmds /\ m.cmd = cmd[m.arg]
    BY <2>1, <2>2 DEF Request, WordsTrue
  <2>5. ReplyTo(m.arg, m.cmd) \in Answer /\ ReplyTo(m.arg, m.cmd).arg = m.arg
    BY <2>4 DEF ReplyTo, Answer
  <2>6. HandleSync(m) \/ HandleAsync(m) \/ HandleRegister(m)
    BY <1>4 DEF Serve
  <2> HIDE DEF m
  <2>7. \/ UNCHANGED <<handed, toClient>>
        \/ /\ cmd[m.arg] \notin RegCmds
           /\ handed' \subseteq handed \cup {m.arg}
           /\ toClient' = toClient \/ toClient' = Append(toClient, ReplyTo(m.arg, m.cmd))
    BY <2>4, <2>6 DEF HandleSync, HandleAsync, HandleRegister, IsUnsolicite
  <2>8. \A d \in Calls : Replied(d)' => Replied(d) \/ (d = m.arg /\ cmd[m.arg] \notin RegCmds)
    BY <1>2, <1>3, <2>5, <2>7
  <2> QED BY <2>3, <2>7, <2>8
<1>5. CASE Answerer
  <2>1. UNCHANGED <<toServer, handed>>
    BY <1>5 DEF Answerer, SendAnswer, RemoveNode, SendReport, StartAnswer, StartReport
  <2>2. \/ toClient' = toClient
        \/ apc = "answer" /\ toClient' = Append(toClient, amsg)
        \/ apc = "report" /\ toClient' = Append(toClient, amsg)
    BY <1>5 DEF Answerer, SendAnswer, RemoveNode, SendReport, StartAnswer, StartReport
  <2>3. apc = "answer" => amsg \in Answer /\ amsg.arg \in handed
    BY DEF OnceInv
  <2>4. apc = "report" => amsg \in Report /\ ~IsRespond(amsg)
    BY DEF Report, IsRespond
  <2>5. \A d \in Calls : Replied(d)' => Replied(d) \/ d \in handed
    BY <1>2, <1>3, <2>2, <2>3, <2>4
  <2> QED BY <2>1, <2>5 DEF Asking
<1> QED BY <1>4, <1>5

LEMMA KindStep == TypeOK /\ ReplyInv /\ OutputInv /\ KindInv /\ [Next]_vars => KindInv'
<1> SUFFICES ASSUME TypeOK, ReplyInv, OutputInv, KindInv, [Next]_vars PROVE KindInv'
  OBVIOUS
<1>1. CASE \E c \in Calls : Caller(c) /\ UNCHANGED serverVars
  BY <1>1, CallerMoves DEF KindInv
<1>2. CASE Receiver /\ UNCHANGED serverVars
  BY <1>2, ReceiverMoves DEF KindInv
<1>3. CASE (Serve \/ Answerer) /\ UNCHANGED clientVars
  BY <1>3, ServerMoves DEF KindInv, ReplyInv, OutputInv
<1>4. CASE UNCHANGED vars
  BY <1>4 DEF vars, KindInv, Replied, Replying, Taken
<1> QED BY <1>1, <1>2, <1>3, <1>4 DEF Next, ClientStep, ClientNext, ServerStep, ServerNext, Idle

\* As long as no wait times out, a call that has come past a step stays past it, and a
\* node is taken off the list by the receive thread alone.
LEMMA CallerTaken ==
  ASSUME TypeOK, ClientInv, CallbackInv, KindInv, TakenInv, RanInv, NEW c \in Calls, Caller(c), ~fault,
         UNCHANGED serverVars
  PROVE  TakenInv' /\ RanInv'
<1> USE DEF TypeOK, ClientTypeOK, Goto, Return, Free
<1>1. /\ UNCHANGED <<kind, cmd, handed, seen, out, runs, rpc, rnode>> /\ hz \subseteq hz'
      /\ \A d \in Calls \ {c} : pc'[d] = pc[d] /\ ret'[d] = ret[d]
  BY DEF Caller, Runs, Begin, Send, Insert, InsertTail, Wait, CopyBack, SpuriousWakeup, TimeoutFires, GiveUp
<1>2. CASE ~(Calm' /\ ~fault')
  BY <1>1, <1>2 DEF TakenInv, RanInv, Calm
<1>3. CASE Calm' /\ ~fault'
  <2>1. Calm /\ OwnersSound
    BY <1>1, <1>3 DEF Calm, ClientInv
  <2>2. pc[c] # "timedout" /\ ret[c] = "none" /\ ~TimeoutFires(c) /\ ~GiveUp(c)
    <3>1. pc[c] # "timedout"
      BY <2>1 DEF OwnersSound
    <3>2. ~TimeoutFires(c) /\ ~GiveUp(c)
      BY <1>3, <3>1 DEF TimeoutFires, GiveUp, Calm
    <3>3. pc[c] # "done"
      BY DEF Caller, Runs, Begin, Send, Insert, Wait, CopyBack, SpuriousWakeup, TimeoutFires, GiveUp
    <3> QED BY <3>1, <3>2, <3>3 DEF CallbackInv
  <2>3. \A d \in Calls : Past(d) => Past(d)'
    <3>1. Past(c) => Past(c)'
      BY <1>3, <2>2 DEF Past, Caller, Runs, Begin, Send, Insert, InsertTail, Wait, CopyBack, SpuriousWakeup, Kinds
    <3> QED BY <1>1, <3>1 DEF Past
  <2>4. Inserted(c)' <=> Inserted(c) \/ (Insert(c) /\ kind[c] # "register")
    BY <1>1, <1>3, <2>2 DEF Inserted, Past, Caller, Runs, Begin, Send, Insert, InsertTail, Wait, CopyBack, SpuriousWakeup, Kinds
  <2>5. \A d \in Calls \ {c} : Inserted(d)' <=> Inserted(d)
    BY <1>1 DEF Inserted, Past
  <2>6. Off' = Off /\ (\A i \in 1..Len(resp) : Inserted(resp[i]))'
    <3>1. CASE Insert(c) /\ kind[c] # "register"
      <4>1. resp' = Append(resp, c) /\ ~Inserted(c)
        BY <1>3, <3>1 DEF Insert, InsertTail, Inserted
      <4>2. /\ Len(resp) \in Nat /\ Len(resp') = Len(resp) + 1 /\ resp'[Len(resp) + 1] = c
            /\ \A i \in 1..Len(resp) : resp'[i] = resp[i] /\ resp[i] \in Calls
        BY <4>1, Queued, ElementOfSeq
      <4>3. \A i \in 1..Len(resp') : i \in 1..Len(resp) \/ i = Len(resp) + 1
        BY <4>2
      <4>4. \A i \in 1..Len(resp) : resp[i] # c /\ Inserted(resp[i])
        BY <1>3, <2>1, <4>1 DEF TakenInv, ClientInv
      <4>5. (\A i \in 1..Len(resp) : Inserted(resp[i]))'
        <5> SUFFICES ASSUME NEW i \in 1..Len(resp') PROVE Inserted(resp[i])'
          OBVIOUS
        <5>1. CASE i \in 1..Len(resp)
          <6>1. resp'[i] = resp[i] /\ resp[i] \in Calls \ {c} /\ Inserted(resp[i])
            BY <4>2, <4>4, <5>1
          <6> QED BY <1>1, <6>1 DEF Inserted, Past
        <5>2. CASE i = Len(resp) + 1
          <6>1. resp'[i] = c /\ Inserted(c)'
            BY <2>4, <3>1, <4>2, <5>2
          <6> QED BY <6>1 DEF Inserted, Past
        <5> QED BY <4>3, <5>1, <5>2
      <4>6. ASSUME NEW d \in Calls
            PROVE  (\A i \in 1..Len(resp') : resp'[i] # d) <=> d # c /\ \A i \in 1..Len(resp) : resp[i] # d
        <5>1. Len(resp) + 1 \in 1..Len(resp') /\ \A i \in 1..Len(resp) : i \in 1..Len(resp')
          BY <4>2
        <5> QED BY <4>2, <4>3, <5>1
      <4>7. Off' = {d \in Calls : Inserted(d)' /\ \A i \in 1..Len(resp') : resp'[i] # d}
        BY DEF Off
      <4>8. \A d \in Calls : (Inserted(d)' /\ \A i \in 1..Len(resp') : resp'[i] # d)
                               <=> (Inserted(d) /\ \A i \in 1..Len(resp) : resp[i] # d)
        BY <2>4, <2>5, <3>1, <4>1, <4>6
      <4> QED BY <4>5, <4>7, <4>8 DEF Off
    <3>2. CASE ~(Insert(c) /\ kind[c] # "register")
      <4>1. resp' = resp
        BY <3>2 DEF Caller, Runs, Begin, Send, Insert, InsertTail, Wait, CopyBack, SpuriousWakeup, TimeoutFires, GiveUp
      <4>2. \A d \in Calls : Inserted(d)' <=> Inserted(d)
        BY <2>4, <2>5, <3>2
      <4>3. \A i \in 1..Len(resp) : resp[i] \in Calls /\ Inserted(resp[i])
        BY <1>3, <2>1, ElementOfSeq DEF TakenInv, ClientInv
      <4>4. Off' = {d \in Calls : Inserted(d)' /\ \A i \in 1..Len(resp') : resp'[i] # d}
        BY DEF Off
      <4>5. Off' = Off
        BY <4>1, <4>2, <4>4 DEF Off
      <4>6. (\A i \in 1..Len(resp) : Inserted(resp[i]))'
        <5> SUFFICES ASSUME NEW i \in 1..Len(resp) PROVE (kind'[resp[i]] # "register" /\ pc'[resp[i]] # "insert"
               /\ (pc'[resp[i]] \in {"insert", "lock", "wait", "copy"} \/ ret'[resp[i]] = "ok"))
          BY <4>1 DEF Inserted, Past
        <5> DEFINE d == resp[i]
        <5>1. d \in Calls /\ Inserted(d)
          BY <4>3
        <5> HIDE DEF d
        <5>2. kind'[d] # "register" /\ pc'[d] # "insert"
               /\ (pc'[d] \in {"insert", "lock", "wait", "copy"} \/ ret'[d] = "ok")
          <6>1. CASE d = c
            BY <4>2, <5>1, <6>1 DEF Inserted, Past
          <6>2. CASE d # c
            BY <1>1, <5>1, <6>2 DEF Inserted, Past
          <6> QED BY <6>1, <6>2
        <5> QED BY <5>2 DEF d
      <4> QED BY <4>5, <4>6
    <3> QED BY <3>1, <3>2
  <2>7. \A d \in Calls : Asking(d)' \/ d \in handed' \/ Replied(d)' => Past(d)'
    <3>1. \A d \in Calls : Asking(d) \/ d \in handed \/ Replied(d) => Past(d)
      BY <2>1 DEF TakenInv, ClientInv
    <3>2. pc'[c] = "insert" => Past(c)'
      BY DEF Past
    <3> QED BY <2>3, <3>1, <3>2, CallerMoves
  <2>8. \A w : ForCommand(w)' = ForCommand(w)
    BY <1>1 DEF ForCommand
  <2>9. TakenInv'
    <3>1. /\ IsFiniteSet(seen) /\ IsFiniteSet(Off)
          /\ \A w \in Cmds : HowMany(Off, ForCommand(w)) = HowMany(seen, ForCommand(w))
      BY <2>1 DEF TakenInv, ClientInv
    <3>2. \A w \in Cmds : HowMany(Off, ForCommand(w))' = HowMany(seen, ForCommand(w))'
      BY <1>1, <2>6, <2>8, <3>1
    <3>3. IsFiniteSet(seen)' /\ IsFiniteSet(Off)'
      BY <1>1, <2>6, <3>1
    <3> QED BY <2>6, <2>7, <3>2, <3>3 DEF TakenInv
  <2>10. RanInv'
    BY <1>1, <1>3, <2>1, <2>6 DEF RanInv, ClientInv
  <2> QED BY <2>9, <2>10
<1> QED BY <1>2, <1>3

\* A lookup that finds a node takes it off the list, and takes a reply to its command.
LEMMA LookupTaken ==
  ASSUME TypeOK, ClientInv, ReplyInv, OutputInv, TakenInv, ~fault, LookupRespond, Calm', ~fault'
  PROVE  /\ Calm /\ IsFiniteSet(Off')
         /\ \A w \in Cmds : HowMany(Off, ForCommand(w))' = HowMany(seen, ForCommand(w))'
         /\ \E i \in 1..Len(resp) :
              /\ resp' = RemoveAt(resp, i) /\ rnode' = resp[i] /\ rpc' = "dispatch" /\ hz' = hz
              /\ Off' = Off \cup {resp[i]}
<1> USE DEF TypeOK, ClientTypeOK
<1>1. ~LookupMisses(resp)
  BY DEF LookupMisses, Calm
<1>2. PICK i \in 1..Len(resp) :
        /\ cmd[resp[i]] = rmsg.cmd
        /\ resp' = RemoveAt(resp, i) /\ rnode' = resp[i] /\ rpc' = "dispatch" /\ hz' = hz
  BY <1>1 DEF LookupRespond, RespondMatches, FirstMatch
<1>3. UNCHANGED <<kind, cmd, pc, ret>> /\ seen' = seen \cup {rmsg.arg} /\ rpc = "lookup" /\ IsRespond(rmsg)
  BY DEF LookupRespond
<1>4. Calm /\ ListsSound
  BY <1>2 DEF Calm, ClientInv
<1>5. /\ \A k \in 1..Len(resp) : Inserted(resp[k])
      /\ IsFiniteSet(Off) /\ IsFiniteSet(seen)
      /\ \A w \in Cmds : HowMany(Off, ForCommand(w)) = HowMany(seen, ForCommand(w))
  BY <1>4 DEF TakenInv
<1>6. rmsg.arg \in Calls /\ rmsg.arg \notin seen /\ cmd[rmsg.arg] = rmsg.cmd
  <2>1. rmsg.arg \in Calls /\ cmd[rmsg.arg] = rmsg.cmd
    BY <1>3 DEF IsRespond, Answer, Report, OutputInv, WordsTrue
  <2>2. Taken(rmsg.arg)
    BY <1>3 DEF Taken
  <2> QED BY <2>1, <2>2 DEF ReplyInv, PlaceInv
<1>7. resp[i] \in Calls /\ resp[i] \notin Off
  BY <1>2, ElementOfSeq DEF Off
<1>8. Off' = Off \cup {resp[i]}
  <2>1. /\ \A k \in 1..Len(resp) : k # i => \E j \in 1..Len(resp') : resp'[j] = resp[k]
        /\ \A j \in 1..Len(resp') : \E k \in 1..Len(resp) : k # i /\ resp'[j] = resp[k]
    <3>1. resp \in Seq(Calls) /\ resp' = RemoveAt(resp, i)
      BY <1>2
    <3>2. \A k \in 1..Len(resp) : k # i => \E j \in 1..Len(resp') : resp'[j] = resp[k]
      BY <3>1, RemoveAtKeeps
    <3>3. \A j \in 1..Len(resp') : \E k \in 1..Len(resp) : k # i /\ resp'[j] = resp[k]
      BY ONLY <3>1, i \in 1..Len(resp), RemoveAtLeaves
    <3> QED BY <3>2, <3>3
  <2>2. \A j, k \in 1..Len(resp) : resp[j] = resp[k] => j = k
    BY <1>4 DEF ListsSound, ListSound
  <2>5. \A d \in Calls : (\A j \in 1..Len(resp') : resp'[j] # d)
                           <=> (\A k \in 1..Len(resp) : resp[k] # d) \/ d = resp[i]
    <3> TAKE d \in Calls
    <3>1. CASE d = resp[i]
      <4>1. \A j \in 1..Len(resp') : resp'[j] # d
        <5> TAKE j \in 1..Len(resp')
        <5>1. PICK k \in 1..Len(resp) : k # i /\ resp'[j] = resp[k]
          BY <2>1
        <5> QED BY <2>2, <3>1, <5>1
      <4> QED BY <3>1, <4>1
    <3>2. CASE d # resp[i]
      BY <2>1, <3>2
    <3> QED BY <3>1, <3>2
  <2>6. Off' = {d \in Calls : Inserted(d) /\ \A j \in 1..Len(resp') : resp'[j] # d}
    BY <1>3 DEF Off, Inserted, Past
  <2>7. Inserted(resp[i])
    BY <1>5
  <2>8. \A d \in Calls : d \in Off' <=> d \in Off \/ d = resp[i]
    BY <2>5, <2>6, <2>7 DEF Off
  <2>9. Off \subseteq Calls /\ Off' \subseteq Calls
    BY <2>6 DEF Off
  <2> HIDE DEF Off
  <2> QED BY <1>7, <2>8, <2>9
<1>9. ASSUME NEW w \in Cmds
      PROVE  HowMany(Off, ForCommand(w))' = HowMany(seen, ForCommand(w))'
  <2> DEFINE W == ForCommand(w)
  <2>1. ForCommand(w)' = W
    BY <1>3 DEF ForCommand
  <2>2. resp[i] \in W <=> rmsg.arg \in W
    BY <1>2, <1>6, <1>7 DEF ForCommand
  <2>3. HowMany(Off, W) = HowMany(seen, W)
    BY <1>5
  <2> HIDE DEF W
  <2>4. HowMany(Off \cup {resp[i]}, W) = HowMany(Off, W) + (IF resp[i] \in W THEN 1 ELSE 0)
    BY ONLY <1>5, <1>7, CountAdded
  <2>5. HowMany(seen \cup {rmsg.arg}, W) = HowMany(seen, W) + (IF rmsg.arg \in W THEN 1 ELSE 0)
    BY ONLY <1>5, <1>6, CountAdded
  <2> QED BY <1>3, <1>8, <2>1, <2>2, <2>3, <2>4, <2>5
<1>10. IsFiniteSet(Off')
  BY <1>5, <1>8, FS_AddElement
<1> QED BY <1>2, <1>4, <1>8, <1>9, <1>10

LEMMA ReceiverTaken ==
  ASSUME TypeOK, ClientInv, CallbackInv, ReplyInv, OutputInv, TakenInv, RanInv, Receiver, ~fault,
         UNCHANGED serverVars
  PROVE  TakenInv' /\ RanInv'
<1> USE DEF TypeOK, ClientTypeOK
<1>1. UNCHANGED <<kind, cmd>> /\ hz \subseteq hz'
  BY DEF Receiver, Accept, LookupRespond, RespondMatches, LookupReport, ReportMatches, LookupMisses, Dispatch, Signal
<1>2. IsFiniteSet(seen')
  <2>1. seen' = seen \/ seen' = seen \cup {rmsg.arg}
    BY DEF Receiver, Accept, LookupRespond, LookupReport, Dispatch, Signal
  <2>2. IsFiniteSet(seen)
    BY DEF TakenInv
  <2>3. IsFiniteSet(seen \cup {rmsg.arg})
    BY ONLY <2>2, FS_AddElement
  <2> QED BY <2>1, <2>2, <2>3
<1>3. CASE ~(Calm' /\ ~fault')
  BY <1>1, <1>2, <1>3 DEF TakenInv, RanInv, Calm
<1>4. CASE Calm' /\ ~fault'
  <2>1. Calm /\ HandSound
    BY <1>1, <1>4 DEF Calm, ClientInv
  <2>2. /\ \A d \in Calls : Asking(d) \/ d \in handed \/ Replied(d) => Past(d)
        /\ \A k \in 1..Len(resp) : Inserted(resp[k])
        /\ IsFiniteSet(Off) /\ IsFiniteSet(seen)
        /\ \A w \in Cmds : HowMany(Off, ForCommand(w)) = HowMany(seen, ForCommand(w))
    BY <2>1 DEF TakenInv, ClientInv
  <2>3. UNCHANGED ret /\ \A d \in Calls : pc'[d] = pc[d] \/ (pc[d] = "wait" /\ pc'[d] = "copy")
    BY DEF Receiver, Accept, LookupRespond, LookupReport, Dispatch, Signal, Goto
  <2>4. \A d \in Calls : (Past(d)' <=> Past(d)) /\ (Inserted(d)' <=> Inserted(d))
    BY <1>1, <2>3 DEF Past, Inserted
  <2>5. \A d \in Calls : Asking(d)' \/ d \in handed' \/ Replied(d)' => Past(d)'
    BY <2>2, <2>4, ReceiverMoves
  <2>6. CASE LookupRespond
    <3>1. PICK i \in 1..Len(resp) :
            /\ resp' = RemoveAt(resp, i) /\ rnode' = resp[i] /\ rpc' = "dispatch" /\ hz' = hz
            /\ Off' = Off \cup {resp[i]}
      BY <1>4, <2>6, LookupTaken
    <3>2. IsFiniteSet(Off') /\ \A w \in Cmds : HowMany(Off, ForCommand(w))' = HowMany(seen, ForCommand(w))'
      BY <1>4, <2>6, LookupTaken
    <3>3. UNCHANGED <<pc, ret, runs, out>> /\ rpc = "lookup"
      BY <2>6 DEF LookupRespond
    <3>4. (\A k \in 1..Len(resp) : Inserted(resp[k]))'
      <4>1. \A j \in 1..Len(resp') : \E k \in 1..Len(resp) : resp'[j] = resp[k]
        <5> SUFFICES ASSUME NEW j \in 1..Len(resp') PROVE \E k \in 1..Len(resp) : resp'[j] = resp[k]
          OBVIOUS
        <5>1. resp \in Seq(Calls)
          BY DEF ClientInv, ClientTypeOK
        <5>2. j \in 1..Len(RemoveAt(resp, i)) /\ resp'[j] = RemoveAt(resp, i)[j]
          BY <3>1
        <5>3. \E k \in 1..Len(resp) : k # i /\ RemoveAt(resp, i)[j] = resp[k]
          BY ONLY i \in 1..Len(resp), <5>1, <5>2, RemoveAtLeaves
        <5> QED BY ONLY <5>2, <5>3
      <4> SUFFICES ASSUME NEW j \in 1..Len(resp') PROVE Inserted(resp[j])'
        OBVIOUS
      <4>2. PICK k \in 1..Len(resp) : resp'[j] = resp[k]
        BY <4>1
      <4>3. kind'[resp[k]] # "register" /\ pc'[resp[k]] # "insert"
             /\ (pc'[resp[k]] \in {"insert", "lock", "wait", "copy"} \/ ret'[resp[k]] = "ok")
        BY <1>1, <2>2, <3>3 DEF Inserted, Past
      <4> QED BY <4>2, <4>3 DEF Inserted, Past
    <3>5. TakenInv'
      BY <1>2, <2>5, <3>2, <3>4 DEF TakenInv
    <3>6. RanInv'
      BY <1>1, <3>1, <3>3 DEF RanInv
    <3> QED BY <3>5, <3>6
  <2>7. CASE ~LookupRespond
    <3>1. UNCHANGED <<resp, seen>>
      BY <2>7 DEF Receiver, Accept, LookupReport, ReportMatches, LookupMisses, Dispatch, Signal
    <3>2. Off' = Off
      <4>1. Off' = {d \in Calls : Inserted(d)' /\ \A j \in 1..Len(resp) : resp[j] # d}
        BY <3>1 DEF Off
      <4> QED BY <2>4, <4>1 DEF Off
    <3>3. (\A k \in 1..Len(resp) : Inserted(resp[k]))'
      <4>1. \A k \in 1..Len(resp) : resp[k] \in Calls
        BY ElementOfSeq
      <4> QED BY <1>1, <2>2, <2>3, <3>1, <4>1 DEF Inserted, Past
    <3>4. \A w \in Cmds : HowMany(Off, ForCommand(w))' = HowMany(seen, ForCommand(w))'
      BY <1>1, <2>2, <3>1, <3>2 DEF ForCommand
    <3>5. IsFiniteSet(Off')
      BY <2>2, <3>2
    <3>6. TakenInv'
      BY <1>2, <2>5, <3>3, <3>4, <3>5 DEF TakenInv
    <3>7. RanInv'
      <4> SUFFICES ASSUME hz' = {} PROVE RanInv'
        BY DEF RanInv
      <4>1. /\ \A d \in Off : kind[d] = "async" => runs[d] = 1 \/ (rpc = "dispatch" /\ rnode = d)
            /\ \A d \in Calls : runs[d] > 0 => out[d] # None
        BY <1>1 DEF RanInv
      <4>2. ~LookupReport
        BY <1>4, <2>7 DEF LookupReport, ReportMatches, LookupMisses
      <4>3. CASE Accept \/ Signal
        <5>1. UNCHANGED <<runs, out>> /\ rpc # "dispatch"
          BY <4>3 DEF Accept, Signal
        <5> QED BY <1>1, <3>2, <4>1, <5>1 DEF RanInv
      <4>4. CASE Dispatch
        <5>1. /\ rpc = "dispatch" /\ rnode \in Calls /\ heap[rnode] = "alloc" /\ IsRespond(rmsg)
              /\ kind[rnode] \in {"sync", "async"}
              /\ rnode # None /\ rnode # Wild
          BY <2>1, <4>4, CommonAssumption DEF HandSound, Dispatch
        <5>2. rmsg.arg \in Calls /\ rmsg.arg # None
          BY <5>1, CommonAssumption DEF IsRespond, Answer, Report
        <5>3. runs[rnode] = 0
          BY <5>1 DEF CallbackInv
        <5>4. /\ out' = [out EXCEPT ![rnode] = rmsg.arg]
              /\ kind[rnode] = "sync" => runs' = runs
              /\ kind[rnode] = "async" => runs' = [runs EXCEPT ![rnode] = @ + 1]
          BY <4>4, <5>1 DEF Dispatch, ProcessSyncCall, ProcessAsyncCall
        <5>5. ASSUME NEW d \in Off, kind[d] = "async" PROVE runs'[d] = 1
          <6>1. CASE d = rnode
            BY <5>1, <5>3, <5>4, <5>5, <6>1
          <6>2. CASE d # rnode
            <7>1. d \in Calls /\ runs[d] = 1
              BY <4>1, <5>5, <6>2 DEF Off
            <7> QED BY <5>1, <5>4, <6>2, <7>1
          <6> QED BY <6>1, <6>2
        <5>6. ASSUME NEW d \in Calls, runs'[d] > 0 PROVE out'[d] # None
          <6>1. CASE d = rnode
            BY <5>2, <5>4, <6>1
          <6>2. CASE d # rnode
            BY <4>1, <5>1, <5>4, <5>6, <6>2
          <6> QED BY <6>1, <6>2
        <5> QED BY <1>1, <3>2, <5>5, <5>6 DEF RanInv
      <4> QED BY <2>7, <4>2, <4>3, <4>4 DEF Receiver
    <3> QED BY <3>6, <3>7
  <2> QED BY <2>6, <2>7
<1> QED BY <1>3, <1>4

LEMMA ServerTaken ==
  ASSUME TypeOK, ReplyInv, OutputInv, TakenInv, RanInv, Serve \/ Answerer, UNCHANGED clientVars
  PROVE  TakenInv' /\ RanInv'
<1>1. UNCHANGED <<fault, hz, pc, ret, kind, cmd, resp, seen, runs, out, rpc, rnode>>
  OBVIOUS
<1>2. /\ Off' = Off /\ (\A d \in Calls : Past(d)' <=> Past(d))
      /\ (\A i \in 1..Len(resp) : Inserted(resp[i]))' <=> (\A i \in 1..Len(resp) : Inserted(resp[i]))
  BY <1>1 DEF Off, Inserted, Past
<1>3. /\ Calm' <=> Calm
      /\ \A w \in Cmds : HowMany(Off, ForCommand(w))' = HowMany(Off, ForCommand(w))
      /\ \A w \in Cmds : HowMany(seen, ForCommand(w))' = HowMany(seen, ForCommand(w))
  BY <1>1, <1>2 DEF Calm, ForCommand
<1>4. IsFiniteSet(Off)' <=> IsFiniteSet(Off)
  BY <1>2
<1>5. Calm /\ ~fault => \A d \in Calls : Asking(d)' \/ d \in handed' \/ Replied(d)' => Past(d)'
  BY <1>2, ServerMoves DEF TakenInv, ReplyInv, OutputInv
<1>6. TakenInv'
  BY <1>1, <1>2, <1>3, <1>4, <1>5 DEF TakenInv
<1>7. RanInv'
  BY <1>1, <1>2 DEF RanInv
<1> QED BY <1>6, <1>7

LEMMA TakenStep ==
  TypeOK /\ ClientInv /\ CallbackInv /\ ReplyInv /\ OutputInv /\ KindInv /\ TakenInv /\ RanInv /\ [Next]_vars
    => TakenInv' /\ RanInv'
<1> SUFFICES ASSUME TypeOK, ClientInv, CallbackInv, ReplyInv, OutputInv, KindInv, TakenInv, RanInv, [Next]_vars
             PROVE  TakenInv' /\ RanInv'
  OBVIOUS
<1>1. CASE ClientStep
  BY <1>1, CallerTaken, ReceiverTaken DEF ClientStep, ClientNext
<1>2. CASE ServerStep
  BY <1>2, ServerTaken DEF ServerStep, ServerNext
<1>3. CASE UNCHANGED vars
  BY <1>3 DEF vars, TakenInv, RanInv, Calm, Off, Inserted, Past, Asking, Replied, Replying, Taken, ForCommand
<1> QED BY <1>1, <1>2, <1>3 DEF Next, Idle

LEMMA TakenInvariant == Spec => [](KindInv /\ TakenInv /\ RanInv)
BY TakenInit, KindStep, TakenStep, TypeCorrect, ClientInvariant, CallbackInvariant, ReplyInvariant, OutputInvariant,
   PTL DEF Spec

\* Two finite sets of the same size, one of which holds the other and one element
\* more: there are none.
LEMMA NoneLarger ==
  ASSUME NEW S, NEW T, IsFiniteSet(S), T \subseteq S, NEW e \in S, e \notin T
  PROVE  Cardinality(T) # Cardinality(S)
<1>1. IsFiniteSet(T) /\ Cardinality(T) \in Nat /\ Cardinality(S) \in Nat
  BY FS_Subset, FS_CardinalityType
<1>2. IsFiniteSet(T \cup {e}) /\ Cardinality(T \cup {e}) = Cardinality(T) + 1
  BY <1>1, FS_AddElement
<1>3. T \cup {e} \subseteq S
  OBVIOUS
<1>4. Cardinality(T \cup {e}) <= Cardinality(S)
  BY <1>3, FS_Subset
<1> QED BY <1>1, <1>2, <1>4

\* For any number of calls: as long as no wait has timed out, a reply that finds no
\* node came before its caller, or another caller of its command, had inserted one.
\* (ipc_client_request sends first and inserts afterwards)
THEOREM EarlyRepliesMiss == Spec => []OnlyEarlyRepliesMiss
<1>1. TypeOK /\ ClientInv /\ ReplyInv /\ OutputInv /\ KindInv /\ TakenInv => OnlyEarlyRepliesMiss
  <2> SUFFICES ASSUME TypeOK, ClientInv, ReplyInv, OutputInv, KindInv, TakenInv,
                      ~fault, rpc = "lookup", IsRespond(rmsg), Calm, NoMatch(resp, rmsg.cmd),
                      \A c \in Calls : cmd[c] = rmsg.cmd => pc[c] # "insert"
               PROVE  FALSE
    BY DEF OnlyEarlyRepliesMiss, Calm
  <2> DEFINE w == rmsg.cmd
             x == rmsg.arg
             W == ForCommand(w)
  <2>1. x \in Calls /\ cmd[x] = w /\ w \in Cmds /\ x \notin seen /\ Replied(x)
    <3>1. x \in Calls /\ cmd[x] = w /\ w \in Cmds
      BY DEF TypeOK, ClientTypeOK, IsRespond, Answer, Report, OutputInv, WordsTrue
    <3>2. Taken(x)
      BY DEF Taken
    <3> QED BY <3>1, <3>2 DEF ReplyInv, PlaceInv, Replied
  <2>2. \A c \in W : Replied(c) => c \in Off
    <3> SUFFICES ASSUME NEW c \in W, Replied(c) PROVE c \in Off
      OBVIOUS
    <3>1. c \in Calls /\ cmd[c] = w
      BY DEF ForCommand
    <3>2. Past(c) /\ kind[c] # "register" /\ pc[c] # "insert"
      BY <3>1 DEF TakenInv, KindInv
    <3>3. \A i \in 1..Len(resp) : resp[i] # c
      BY <3>1 DEF NoMatch
    <3> QED BY <3>1, <3>2, <3>3 DEF Off, Inserted
  <2>3. \A c \in seen : Replied(c)
    BY DEF Replied
  <2>4. IsFiniteSet(Off) /\ HowMany(Off, W) = HowMany(seen, W)
    BY <2>1 DEF TakenInv
  <2>5. x \in Off \cap W /\ x \notin seen \cap W /\ seen \cap W \subseteq Off \cap W
    BY <2>1, <2>2, <2>3 DEF ForCommand
  <2>6. IsFiniteSet(Off \cap W)
    BY <2>4, FS_Subset
  <2> HIDE DEF x, W
  <2>7. Cardinality(seen \cap W) # Cardinality(Off \cap W)
    BY ONLY <2>5, <2>6, NoneLarger
  <2> QED BY <2>4, <2>7 DEF HowMany
<1> QED BY <1>1, TypeCorrect, ClientInvariant, ReplyInvariant, OutputInvariant, TakenInvariant, PTL

\* For any number of calls: when nothing is left to do and every reply found a node, a
\* command that is only called asynchronously has had one callback for each reply
\* taken, with the outputs of a reply to it.  (start_receive, process_async_call)
THEOREM CallbackPerReply == Spec => []EveryReplyRunsOneCallback
<1>1. TypeOK /\ ClientInv /\ CallbackInv /\ OutputInv /\ TakenInv /\ RanInv => EveryReplyRunsOneCallback
  <2> SUFFICES ASSUME TypeOK, ClientInv, CallbackInv, OutputInv, TakenInv, RanInv,
                      Quiet, hz = {}, ~fault, NEW w \in ReqCmds, \A c \in ForCommand(w) : kind[c] = "async"
               PROVE  /\ Cardinality({c \in ForCommand(w) : runs[c] = 1}) = Cardinality(seen \cap ForCommand(w))
                      /\ \A c \in {d \in ForCommand(w) : runs[d] = 1} : cmd[out[c]] = w
    BY DEF EveryReplyRunsOneCallback, ForCommand
  <2> DEFINE W == ForCommand(w)
             Ran == {c \in W : runs[c] = 1}
  <2>1. W \subseteq Calls /\ \A c \in W : cmd[c] = w
    BY DEF ForCommand
  <2>2. Calm /\ ListsSound /\ rpc = "accept"
    BY DEF Calm, ClientInv, Quiet
  <2>3. \A c \in Ran : ret[c] = "ok" /\ heap[c] = "freed" /\ pc[c] = "done" /\ kind[c] = "async"
    BY <2>1 DEF CallbackInv
  <2>4. \A c \in Ran : c \in Off
    <3> TAKE c \in Ran
    <3>1. \A i \in 1..Len(resp) : resp[i] # c
      BY <2>2, <2>3 DEF ListsSound, ListSound
    <3> QED BY <2>1, <2>3, <3>1 DEF Off, Inserted, Past
  <2>5. \A c \in Off \cap W : c \in Ran
    BY <2>2 DEF RanInv
  <2>6. Ran = Off \cap W
    BY <2>4, <2>5
  <2>7. HowMany(Off, W) = HowMany(seen, W)
    BY <2>2 DEF TakenInv, Cmds
  <2>8. ASSUME NEW c \in Ran PROVE cmd[out[c]] = w
    <3>1. c \in Calls /\ runs[c] > 0 /\ cmd[c] = w
      BY <2>1
    <3>2. out[c] # None /\ (out[c] = None \/ SameCommand(c, out[c]))
      BY <3>1 DEF RanInv, OutputInv, OutputsTrue
    <3> QED BY <3>1, <3>2 DEF SameCommand
  <2> HIDE DEF W
  <2>9. Cardinality(Ran) = Cardinality(seen \cap W)
    BY <2>6, <2>7 DEF HowMany
  <2> QED BY <2>8, <2>9 DEF W
<1> QED BY <1>1, TypeCorrect, ClientInvariant, CallbackInvariant, OutputInvariant, TakenInvariant, PTL
=============================================================================
