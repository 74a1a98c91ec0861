------------------------------ MODULE IpcClient ------------------------------
(***************************************************************************)
(* The client library, client/ipc_client.c: any number of application      *)
(* threads inside ipc_client_request or ipc_client_register_callback, and  *)
(* the receive thread.  Both callback lists are only touched with their    *)
(* mutex held and nothing blocks inside, so a critical section is a step.  *)
(*                                                                         *)
(* Reading or writing a node after free(), or through a pointer that was   *)
(* never assigned, is undefined behaviour: it sets fault and the client    *)
(* takes no further step, which stands for whatever the build then does.   *)
(***************************************************************************)
EXTENDS IpcCommon, SequencesExt

Kinds == {"sync", "async", "register"}

CONSTANT MayCall  \* the kinds of call the application makes

ASSUME ClientAssumption == MayCall \subseteq Kinds

VARIABLES
  kind,   \* what each call is: "sync", "async" (callback # NULL), "register"
  cmd,    \* the cmd_id each call passes
  pc,     \* where the thread that makes the call stands
  heap,   \* the call's callback node: "none", "alloc" or "freed"
  out,    \* the output parameters in the node: the payload copied last
  ret,    \* what the call returned: "none", "ok" (0), "error" (1)
  result, \* the outputs a sync caller copied back when it returned 0
  runs,   \* how often the call's callback function has been called
  resp,   \* response_callback_list
  regs,   \* register_callback_list
  rpc,    \* where the receive thread stands
  rmsg,   \* the message it works on (buff, cmd_id, params)
  rnode,  \* its local callback_node, which outlives a message
  fault,  \* the client has done something undefined
  hz,     \* history: what the schedule has done to the client so far
  seen    \* history: the calls whose reply the receive thread has taken

threadVars == <<kind, cmd, pc, heap, out, ret, result, runs>>
listVars == <<resp, regs>>
recvVars == <<rpc, rmsg, rnode>>
flagVars == <<fault, hz, seen>>
clientVars == <<threadVars, listVars, recvVars, flagVars>>

Steps == {"start", "send", "insert", "lock", "wait", "timedout", "copy", "done"}
Hazards == {"unmatched", "timeout", "spurious", "report"}

ClientTypeOK ==
  /\ kind \in [Calls -> Kinds]
  /\ cmd \in [Calls -> Cmds]
  /\ pc \in [Calls -> Steps]
  /\ heap \in [Calls -> {"none", "alloc", "freed"}]
  /\ out \in [Calls -> Calls \cup {None}]
  /\ ret \in [Calls -> {"none", "ok", "error"}]
  /\ result \in [Calls -> Calls \cup {None}]
  /\ runs \in [Calls -> Nat]
  /\ resp \in Seq(Calls)
  /\ regs \in Seq(Calls)
  /\ rpc \in {"accept", "lookup", "dispatch", "signal"}
  /\ rmsg \in Answer \cup Report \cup {None}
  /\ rpc # "accept" => rmsg \in Answer \cup Report
  /\ rnode \in Calls \cup {None, Wild}
  /\ rpc = "signal" => rnode \in Calls
  /\ fault \in BOOLEAN
  /\ hz \in SUBSET Hazards
  /\ seen \in SUBSET Calls

\* ipc_client_init, and the calls the application is going to make
ClientInit ==
  /\ kind \in [Calls -> MayCall]
  /\ cmd \in [Calls -> Cmds]
  /\ \A c \in Calls : cmd[c] \in RegCmds <=> kind[c] = "register"
  /\ pc = [c \in Calls |-> "start"]
  /\ heap = [c \in Calls |-> "none"]
  /\ out = [c \in Calls |-> None]
  /\ ret = [c \in Calls |-> "none"]
  /\ result = [c \in Calls |-> None]
  /\ runs = [c \in Calls |-> 0]
  /\ resp = <<>> /\ regs = <<>>
  /\ rpc = "accept" /\ rmsg = None
  /\ rnode \in {None, Wild}
  /\ fault = FALSE /\ hz = {} /\ seen = {}

Freed(list, i) == i \in 1..Len(list) /\ heap[list[i]] = "freed"

-----------------------------------------------------------------------------
(* The calling threads.                                                     *)

Goto(c, step) == pc' = [pc EXCEPT ![c] = step]
Return(c, r) == Goto(c, "done") /\ ret' = [ret EXCEPT ![c] = r]
Free(c) == heap' = [heap EXCEPT ![c] = "freed"]

\* malloc of the node and ipc_convert_param; each may fail, and a failed
\* malloc in ipc_client_register_callback returns whatever is in the register
Begin(c) ==
  /\ pc[c] = "start"
  /\ \/ /\ heap' = [heap EXCEPT ![c] = "alloc"]
        /\ Goto(c, "send")
        /\ UNCHANGED ret
     \/ /\ \E r \in {"ok", "error"} :
             (r = "ok" => kind[c] = "register") /\ Return(c, r)
        /\ UNCHANGED heap
     \/ Free(c) /\ Return(c, "error")
  /\ UNCHANGED <<kind, cmd, out, result, runs, listVars, recvVars, flagVars, netVars>>

\* ipc_send_data: any of its system calls may fail, the node is then freed
Send(c) ==
  /\ pc[c] = "send"
  /\ \/ /\ CanSend(toServer)
        /\ toServer' = Append(toServer, [cmd |-> cmd[c], respond |-> FALSE,
                                         async |-> kind[c] = "async", arg |-> c])
        /\ Goto(c, "insert")
        /\ UNCHANGED <<heap, ret>>
     \/ /\ Free(c) /\ Return(c, "error")
        /\ UNCHANGED toServer
  /\ UNCHANGED <<kind, cmd, out, result, runs, listVars, recvVars, flagVars, toClient>>

\* mutant: list_initialize once more, at each insertion
InsertAlone(list, c) ==
  /\ list' = <<c>>
  /\ IF kind[c] = "sync" THEN Goto(c, "lock") /\ UNCHANGED ret ELSE Return(c, "ok")
  /\ UNCHANGED fault

\* list_add_tail writes the next pointer of the node that was last.  Only a
\* synchronous request has anything left to do.
InsertTail(list, c) ==
  IF Freed(list, Len(list))
  THEN fault' = TRUE /\ UNCHANGED <<list, pc, ret>>
  ELSE /\ list' = Append(list, c)
       /\ IF kind[c] = "sync" THEN Goto(c, "lock") /\ UNCHANGED ret ELSE Return(c, "ok")
       /\ UNCHANGED fault

Insert(c) ==
  /\ pc[c] = "insert"
  /\ IF kind[c] = "register" THEN InsertTail(regs, c) /\ UNCHANGED resp
                             ELSE InsertTail(resp, c) /\ UNCHANGED regs
  /\ UNCHANGED <<kind, cmd, heap, out, result, runs, recvVars, hz, seen, netVars>>

\* the thread locks the node's mutex and blocks in pthread_cond_timedwait,
\* without a predicate: a signal sent earlier is not noticed
Wait(c) ==
  /\ pc[c] = "lock"
  /\ IF heap[c] = "freed" THEN fault' = TRUE /\ UNCHANGED pc
                          ELSE Goto(c, "wait") /\ UNCHANGED fault
  /\ UNCHANGED <<kind, cmd, heap, out, ret, result, runs, listVars, recvVars, hz, seen, netVars>>

\* POSIX lets the wait return 0 without a signal
SpuriousWakeup(c) ==
  /\ pc[c] = "wait"
  /\ Goto(c, "copy")
  /\ hz' = hz \cup {"spurious"}
  /\ UNCHANGED <<kind, cmd, heap, out, ret, result, runs, listVars, recvVars, fault, seen, netVars>>

\* mutant: pthread_cond_wait instead of pthread_cond_timedwait
WaitForever(c) == pc[c] = "wait" /\ FALSE

\* 100 seconds have passed: the thread is no longer a waiter ...
TimeoutFires(c) ==
  /\ pc[c] = "wait"
  /\ Goto(c, "timedout")
  /\ hz' = hz \cup {"timeout"}
  /\ UNCHANGED <<kind, cmd, heap, out, ret, result, runs, listVars, recvVars, fault, seen, netVars>>

\* ... and, having the mutex back, frees the node, which may still be listed
GiveUp(c) ==
  /\ pc[c] = "timedout"
  /\ IF heap[c] = "freed"
     THEN fault' = TRUE /\ UNCHANGED <<heap, pc, ret>>
     ELSE Free(c) /\ Return(c, "error") /\ UNCHANGED fault
  /\ UNCHANGED <<kind, cmd, out, result, runs, listVars, recvVars, hz, seen, netVars>>

\* the outputs go from the node to the caller's params; the node is leaked
CopyBack(c) ==
  /\ pc[c] = "copy"
  /\ IF heap[c] = "freed"
     THEN fault' = TRUE /\ UNCHANGED <<result, pc, ret>>
     ELSE /\ result' = [result EXCEPT ![c] = out[c]]
          /\ Return(c, "ok")
          /\ UNCHANGED fault
  /\ UNCHANGED <<kind, cmd, heap, out, runs, listVars, recvVars, hz, seen, netVars>>

\* what the thread does by itself, the clock of its wait included
Runs(c) ==
  \/ Begin(c) \/ Send(c) \/ Insert(c) \/ Wait(c) \/ CopyBack(c)
  \/ TimeoutFires(c) \/ GiveUp(c)

Caller(c) == Runs(c) \/ SpuriousWakeup(c)

-----------------------------------------------------------------------------
(* The receive thread, start_receive.                                       *)

\* a word with neither the respond bit nor a low byte is dropped
Accept ==
  /\ rpc = "accept"
  /\ toClient # <<>>
  /\ LET m == Head(toClient) IN
       IF IsRespond(m) \/ IsUnsolicite(m)
       THEN rpc' = "lookup" /\ rmsg' = m
       ELSE UNCHANGED <<rpc, rmsg>>
  /\ toClient' = Tail(toClient)
  /\ UNCHANGED <<threadVars, listVars, rnode, flagVars, toServer>>

\* mutant: take the first node without looking at its cmd_id
FirstInLine(list, w, i) == i = 1

\* the position at which list_for_every stops for word w: the first match
FirstMatch(list, w, i) ==
  /\ cmd[list[i]] = w
  /\ \A j \in 1..(i - 1) : cmd[list[j]] # w

NoMatch(list, w) == \A i \in 1..Len(list) : cmd[list[i]] # w

\* the loop ran to the end, leaving callback_node at the last node it visited,
\* or as it was before when the list is empty
LookupMisses(list) ==
  /\ NoMatch(list, rmsg.cmd)
  /\ IF \E i \in 1..Len(list) : Freed(list, i)
     THEN fault' = TRUE /\ UNCHANGED <<rpc, rnode, hz>>
     ELSE /\ rnode' = IF list = <<>> THEN rnode ELSE list[Len(list)]
          /\ rpc' = "dispatch"
          /\ hz' = hz \cup {"unmatched"}
          /\ UNCHANGED fault
  /\ UNCHANGED listVars

\* mutant: no list_delete
RespondMatchesKeepsNode ==
  \E i \in 1..Len(resp) :
    /\ FirstMatch(resp, rmsg.cmd, i)
    /\ IF \E j \in 1..i : Freed(resp, j)
       THEN fault' = TRUE /\ UNCHANGED <<rpc, rnode>>
       ELSE rnode' = resp[i] /\ rpc' = "dispatch" /\ UNCHANGED fault
    /\ UNCHANGED <<listVars, hz>>

\* list_delete also writes the neighbour behind the node it takes out
RespondMatches ==
  \E i \in 1..Len(resp) :
    /\ FirstMatch(resp, rmsg.cmd, i)
    /\ IF \E j \in 1..(i + 1) : Freed(resp, j)
       THEN fault' = TRUE /\ UNCHANGED <<rpc, rnode, resp>>
       ELSE /\ resp' = RemoveAt(resp, i)
            /\ rnode' = resp[i]
            /\ rpc' = "dispatch"
            /\ UNCHANGED fault
    /\ UNCHANGED <<regs, hz>>

LookupRespond ==
  /\ rpc = "lookup" /\ IsRespond(rmsg)
  /\ seen' = seen \cup {rmsg.arg}
  /\ RespondMatches \/ LookupMisses(resp)
  /\ UNCHANGED <<threadVars, rmsg, netVars>>

\* a registration is looked up and stays on its list
ReportMatches ==
  \E i \in 1..Len(regs) :
    /\ FirstMatch(regs, rmsg.cmd, i)
    /\ IF \E j \in 1..i : Freed(regs, j)
       THEN fault' = TRUE /\ UNCHANGED <<rpc, rnode, hz>>
       ELSE /\ rnode' = regs[i]
            /\ rpc' = "dispatch"
            /\ hz' = hz \cup {"report"}
            /\ UNCHANGED fault
    /\ UNCHANGED listVars

LookupReport ==
  /\ rpc = "lookup" /\ ~IsRespond(rmsg)
  /\ ReportMatches \/ LookupMisses(regs)
  /\ UNCHANGED <<threadVars, rmsg, seen, netVars>>

\* mutant: the node of an asynchronous request is not freed
ProcessAsyncCallLeaks(n) ==
  /\ out' = [out EXCEPT ![n] = rmsg.arg]
  /\ runs' = IF kind[n] = "sync" THEN runs ELSE [runs EXCEPT ![n] = @ + 1]
  /\ rpc' = "accept"
  /\ UNCHANGED heap

\* process_async_call: copy the outputs, call the callback if there is one, free
ProcessAsyncCall(n) ==
  /\ out' = [out EXCEPT ![n] = rmsg.arg]
  /\ runs' = IF kind[n] = "sync" THEN runs ELSE [runs EXCEPT ![n] = @ + 1]
  /\ Free(n)
  /\ rpc' = "accept"

\* the first half of process_sync_call: copy the outputs without a lock
ProcessSyncCall(n) ==
  /\ out' = [out EXCEPT ![n] = rmsg.arg]
  /\ rpc' = "signal"
  /\ UNCHANGED <<runs, heap>>

Dispatch ==
  /\ rpc = "dispatch"
  /\ \/ /\ rnode = None
        /\ rpc' = "accept"
        /\ UNCHANGED <<out, runs, heap, fault>>
     \/ /\ rnode = Wild \/ (rnode \in Calls /\ heap[rnode] = "freed")
        /\ fault' = TRUE
        /\ UNCHANGED <<out, runs, heap, rpc>>
     \/ /\ rnode \in Calls /\ heap[rnode] # "freed"
        /\ IF IsRespond(rmsg) /\ kind[rnode] = "sync"
           THEN ProcessSyncCall(rnode)
           ELSE ProcessAsyncCall(rnode)
        /\ UNCHANGED fault
  /\ UNCHANGED <<kind, cmd, pc, ret, result, listVars, rmsg, rnode, hz, seen, netVars>>

\* pthread_cond_signal under the node's mutex: lost unless its owner waits
Signal ==
  /\ rpc = "signal"
  /\ IF heap[rnode] = "freed"
     THEN fault' = TRUE /\ UNCHANGED <<pc, rpc>>
     ELSE /\ IF pc[rnode] = "wait" THEN Goto(rnode, "copy") ELSE UNCHANGED pc
          /\ rpc' = "accept"
          /\ UNCHANGED fault
  /\ UNCHANGED <<kind, cmd, heap, out, ret, result, runs, listVars, rmsg, rnode, hz, seen, netVars>>

Receiver == Accept \/ LookupRespond \/ LookupReport \/ Dispatch \/ Signal

ClientNext == ~fault /\ (Receiver \/ \E c \in Calls : Caller(c))

-----------------------------------------------------------------------------
(* Why the client is memory safe on a calm schedule.                        *)

Calm == hz \subseteq {"spurious"}

\* a thread that will touch its node again still owns it
OwnersSound ==
  \A c \in Calls :
    /\ pc[c] # "timedout"
    /\ pc[c] \in {"send", "insert", "lock", "wait", "copy"} => heap[c] = "alloc"
    /\ pc[c] \in {"lock", "wait", "copy"} => kind[c] = "sync"

\* the lists hold live nodes of calls that are past their insertion, once each
ListSound(list) ==
  /\ \A i \in 1..Len(list) :
       heap[list[i]] = "alloc" /\ pc[list[i]] \in {"lock", "wait", "copy", "done"}
  /\ \A i, j \in 1..Len(list) : list[i] = list[j] => i = j

ListsSound ==
  /\ ListSound(resp) /\ \A i \in 1..Len(resp) : kind[resp[i]] # "register"
  /\ ListSound(regs) /\ \A i \in 1..Len(regs) : kind[regs[i]] = "register"

\* the receive thread works on a live node of a request it has unlinked; it will
\* free it only if no calling thread can touch it any more
HandSound ==
  rpc \in {"dispatch", "signal"} =>
    /\ rnode \in Calls /\ heap[rnode] = "alloc"
    /\ \A i \in 1..Len(resp) : resp[i] # rnode
    /\ kind[rnode] = "sync" \/ (kind[rnode] = "async" /\ pc[rnode] = "done" /\ rpc = "dispatch")
    /\ pc[rnode] \in {"lock", "wait", "copy", "done"}
    /\ IsRespond(rmsg)

\* The invariant behind MemorySafe: as long as the schedule is calm, every pointer
\* the two kinds of thread hold is to a node nobody has freed.
ClientInv == Calm => ~fault /\ OwnersSound /\ ListsSound /\ HandSound
=============================================================================
