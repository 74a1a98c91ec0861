--------------------------------- MODULE Ipc ---------------------------------
(***************************************************************************)
(* A client process and a server process of android/linux/ipc, connected   *)
(* by their two listening sockets, and the properties of the pair.         *)
(***************************************************************************)
EXTENDS IpcClient, IpcServer

vars == <<clientVars, serverVars, netVars>>

Init == ClientInit /\ ServerInit /\ NetInit

ClientStep == ClientNext /\ UNCHANGED serverVars
ServerStep == ServerNext /\ UNCHANGED clientVars

\* every call has returned, every message has been taken, both sides sit in
\* accept(); or one of the processes is beyond what its code defines
Quiet ==
  /\ \A c \in Calls : pc[c] = "done"
  /\ rpc = "accept" /\ apc = "idle"
  /\ toServer = <<>> /\ toClient = <<>>

Idle == (Quiet \/ fault \/ sfault) /\ UNCHANGED vars

Next == ClientStep \/ ServerStep \/ Idle

Spec == Init /\ [][Next]_vars

\* Each thread keeps running; the clock of a timed wait keeps running too.
\* Nothing is assumed of spurious wakeups, nor of the application's calls.
Fairness ==
  /\ WF_vars(ClientNext /\ Receiver /\ UNCHANGED serverVars)
  /\ \A c \in Calls : WF_vars(~fault /\ Runs(c) /\ UNCHANGED serverVars)
  /\ WF_vars(~sfault /\ Serve /\ UNCHANGED clientVars)
  /\ WF_vars(~sfault /\ (SendAnswer \/ RemoveNode \/ SendReport) /\ UNCHANGED clientVars)

FairSpec == Spec /\ Fairness

-----------------------------------------------------------------------------
TypeOK == ClientTypeOK /\ ServerTypeOK /\ NetTypeOK

\* The client touches no freed node and no unassigned pointer unless the
\* schedule did one of three things to it: a message found no node, a wait
\* timed out, or a report was dispatched.  (ipc_client.c: the free() calls of
\* ipc_client_request and process_async_call against both lookups)
MemorySafe == fault => hz \ {"spurious"} # {}

\* A reply finds no node only because its caller, or another caller of the same
\* command, has sent and not yet inserted: the send comes first in
\* ipc_client_request.  Nothing else loses a reply as long as no wait times out.
OnlyEarlyRepliesMiss ==
  (~fault /\ rpc = "lookup" /\ IsRespond(rmsg) /\ hz \subseteq {"spurious"} /\ NoMatch(resp, rmsg.cmd))
     => \E c \in Calls : cmd[c] = rmsg.cmd /\ pc[c] = "insert"

\* A synchronous call that was signalled and returned 0 has the outputs of a
\* reply to the command it sent, and of its own request when it is the only
\* call of that command.  (the search by cmd_id in start_receive)
ReplyIsForTheCommand ==
  \A c \in Calls :
    (hz = {} /\ kind[c] = "sync" /\ ret[c] = "ok") =>
      /\ result[c] \in Calls /\ cmd[result[c]] = cmd[c]
      /\ (\A d \in Calls : cmd[d] = cmd[c] => d = c) => result[c] = c

\* The callback of a request runs at most once, and only after the request's own
\* thread has returned 0; a synchronous node never reaches a callback.  Not even a
\* stale callback_node in start_receive makes it run again.
CallbackAtMostOnce ==
  \A c \in Calls : kind[c] # "register" =>
    runs[c] <= 1 /\ (runs[c] = 1 => kind[c] = "async" /\ ret[c] = "ok")

\* Every request is replied to at most once, whatever fails in between: counting
\* the replies still queued and the one start_receive took.  (process_command_call
\* replies to a synchronous request, the answering thread to an asynchronous one)
RepliesTo(c) == {i \in 1..Len(toClient) : IsRespond(toClient[i]) /\ toClient[i].arg = c}

RepliedAtMostOnce ==
  \A c \in Calls : Cardinality(RepliesTo(c)) + (IF c \in seen THEN 1 ELSE 0) <= 1

\* When nothing is left to do and every reply found a node, as many callbacks have
\* run as replies were taken, each with the outputs of a reply to its command, for
\* every command that is only called asynchronously.  (A reply is matched by its
\* command alone: a synchronous call whose own reply was lost takes the answer to an
\* asynchronous one.)
EveryReplyRunsOneCallback ==
  (Quiet /\ hz = {} /\ ~fault /\ ~sfault) => \A w \in ReqCmds :
    LET Callers == {c \in Calls : cmd[c] = w}
        Ran == {c \in Callers : runs[c] = 1} IN
      (\A c \in Callers : kind[c] = "async") =>
        /\ Cardinality(Ran) = Cardinality(seen \cap Callers)
        /\ \A c \in Ran : cmd[out[c]] = w

\* For each command the server's response list has one node per request the
\* application still has to answer, as long as no answer was given with the word that
\* has IPC_CMD_RESPOND: such an answer frees a node that stays listed.  (insertion in
\* process_async_command against "remove node" in ipc_server_respond_async_call)
Unanswered == (handed \ answered) \cup (IF apc \in {"answer", "remove"} THEN {amsg.arg} ELSE {})

PendingMatchesList ==
  (~sfault /\ ToSet(sresp) \cap sfreed = {}) => \A w \in ReqCmds :
    Cardinality({i \in 1..Len(sresp) : scmd[sresp[i]] = w})
      = Cardinality({c \in Unanswered : scmd[c] = w})

\* The server frees no node twice, reads no freed node and follows no unassigned
\* pointer, unless an earlier answer has left a freed node on the list.  (the free() of
\* ipc_server_respond_async_call, whether the search matched or not)
ServerMemorySafe == sfault => ToSet(sresp) \cap sfreed # {}

\* Every call the application makes returns, unless the client went undefined.
CallsReturn == \A c \in Calls : (pc[c] = "send") ~> (pc[c] = "done" \/ fault)

\* A synchronous request that was sent is replied to and the reply taken, unless
\* the server failed to send it or one of the two processes went undefined.
RequestsAreSettled ==
  \A c \in Calls : (pc[c] = "insert" /\ kind[c] = "sync")
                     ~> (c \in seen \cup lost \/ fault \/ sfault)

-----------------------------------------------------------------------------
(* What the comments and the readme say, and the code does not do.          *)

\* A registration is there for the next report too (readme.txt, 1.3: the server
\* reports registered messages).
RegistrationsStay == \A i \in 1..Len(regs) : ~Freed(regs, i)

\* An answered asynchronous request is taken off the list ("remove node" in
\* ipc_server_respond_async_call).
AnswerRemovesNode == apc = "idle" => ToSet(sresp) \cap answered = {}
=============================================================================
