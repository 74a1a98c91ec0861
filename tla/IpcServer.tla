------------------------------ MODULE IpcServer ------------------------------
(***************************************************************************)
(* The server library, server/ipc_server.c and ipc_server_command.c: one   *)
(* receive thread, and the thread that answers asynchronous requests and   *)
(* sends reports.  TestBuild is the readme's test build, in which the two   *)
(* "#if 0" of ipc_server_command.c read "#if 1" and the receive thread      *)
(* itself answers at once; otherwise an application thread does, calling    *)
(* ipc_server_respond_async_call with one of the words of AnswerBits.       *)
(* A server node has the name of the call whose message it was made from.   *)
(***************************************************************************)
EXTENDS IpcCommon, SequencesExt

CONSTANTS
  TestBuild,  \* the code between #if 0 and #endif is compiled in
  AnswerBits, \* does the application pass cmd_id with IPC_CMD_RESPOND, or without?
  MaxReports  \* bound on the reports sent by the application

ASSUME ServerAssumption ==
  /\ TestBuild \in BOOLEAN
  /\ AnswerBits \in SUBSET BOOLEAN
  /\ MaxReports \in Nat

VARIABLES
  sresp,    \* response_callback_list: asynchronous requests to be answered
  sregs,    \* register_callback_list
  scmd,     \* the cmd_id of each node on the two lists
  sfreed,   \* the nodes free() has been called on
  apc,      \* the answering call in progress: its next step, or "idle"
  amsg,     \* the message it sends
  handed,   \* the asynchronous requests process_sync_command was called for
  answered, \* those an answer is being or was sent for
  reports,  \* how many reports the application has asked for
  lost,     \* history: the calls whose reply the server failed to send or queue
  sfault    \* the server has done something undefined

answerVars == <<apc, amsg, answered, reports>>
serverVars == <<sresp, sregs, scmd, sfreed, handed, answerVars, lost, sfault>>

ServerTypeOK ==
  /\ sresp \in Seq(Calls)
  /\ sregs \in Seq(Calls)
  /\ scmd \in [Calls -> Cmds \cup {None}]
  /\ sfreed \in SUBSET Calls
  /\ apc \in {"idle", "answer", "remove", "report"}
  /\ amsg \in Answer \cup Report \cup {None}
  /\ apc = "report" => amsg \in Report
  /\ apc \in {"answer", "remove"} => amsg \in Answer
  /\ handed \in SUBSET Calls
  /\ \A c \in handed : scmd[c] \in Cmds
  /\ answered \in SUBSET handed
  /\ reports \in 0..MaxReports
  /\ lost \in SUBSET Calls
  /\ sfault \in BOOLEAN

ServerInit ==
  /\ sresp = <<>> /\ sregs = <<>>
  /\ scmd = [c \in Calls |-> None]
  /\ sfreed = {} /\ handed = {} /\ answered = {} /\ lost = {}
  /\ apc = "idle" /\ amsg = None
  /\ reports = 0
  /\ sfault = FALSE

SFreed(i) == i \in 1..Len(sresp) /\ sresp[i] \in sfreed

ReplyTo(c, w) == [cmd |-> w, respond |-> TRUE, async |-> FALSE, arg |-> c]
ReportOf(w) == [cmd |-> w, respond |-> FALSE, async |-> FALSE, arg |-> None]

-----------------------------------------------------------------------------
(* The receive thread: accept, recv, and the handler the message asks for.   *)

\* mutant: ipc_server_respond_call is not called
HandleSyncSilent(m) ==
  /\ ~IsUnsolicite(m) /\ ~m.async
  /\ UNCHANGED <<sresp, sregs, scmd, sfreed, handed, answerVars, lost, sfault, toClient>>

\* process_sync_command and ipc_server_respond_call, whose failure nobody sees
HandleSync(m) ==
  /\ ~IsUnsolicite(m) /\ ~m.async
  /\ \/ /\ CanSend(toClient)
        /\ toClient' = Append(toClient, ReplyTo(m.arg, m.cmd))
        /\ UNCHANGED lost
     \/ lost' = lost \cup {m.arg} /\ UNCHANGED toClient
  /\ UNCHANGED <<sresp, sregs, scmd, sfreed, handed, answerVars, sfault>>

\* process_async_command: remember the request; the test build then answers it
\* with cmd_id | IPC_CMD_RESPOND
HandleAsync(m) ==
  /\ ~IsUnsolicite(m) /\ m.async
  /\ \/ /\ lost' = lost \cup {m.arg}  \* malloc callback failed
        /\ UNCHANGED <<sresp, scmd, handed, apc, amsg, answered, sfault>>
     \/ /\ SFreed(Len(sresp))
        /\ sfault' = TRUE
        /\ UNCHANGED <<sresp, scmd, handed, apc, amsg, answered, lost>>
     \/ /\ ~SFreed(Len(sresp))
        /\ sresp' = Append(sresp, m.arg)
        /\ scmd' = [scmd EXCEPT ![m.arg] = m.cmd]
        /\ handed' = handed \cup {m.arg}
        /\ IF TestBuild
           THEN apc' = "answer" /\ amsg' = ReplyTo(m.arg, m.cmd) /\ answered' = answered \cup {m.arg}
           ELSE UNCHANGED <<apc, amsg, answered>>
        /\ UNCHANGED <<lost, sfault>>
  /\ UNCHANGED <<sregs, sfreed, reports, toClient>>

\* process_register; in the test build process_register_call reports at once
HandleRegister(m) ==
  /\ IsUnsolicite(m)
  /\ \/ /\ lost' = lost \cup {m.arg}  \* malloc callback failed
        /\ UNCHANGED <<sregs, scmd, apc, amsg>>
     \/ /\ sregs' = Append(sregs, m.arg)
        /\ scmd' = [scmd EXCEPT ![m.arg] = m.cmd]
        /\ IF TestBuild THEN apc' = "report" /\ amsg' = ReportOf(m.cmd)
                        ELSE UNCHANGED <<apc, amsg>>
        /\ UNCHANGED lost
  /\ UNCHANGED <<sresp, sfreed, handed, answered, reports, toClient, sfault>>

Serve ==
  /\ toServer # <<>>
  /\ TestBuild => apc = "idle"
  /\ toServer' = Tail(toServer)
  /\ LET m == Head(toServer) IN HandleSync(m) \/ HandleAsync(m) \/ HandleRegister(m)

-----------------------------------------------------------------------------
(* ipc_server_respond_async_call and ipc_server_respond_register.            *)

\* mutant: a request nobody handed over is answered
StartAnswerUnasked(c, bit) ==
  /\ ~TestBuild /\ apc = "idle"
  /\ c \in Calls \ answered
  /\ apc' = "answer"
  /\ amsg' = [ReplyTo(c, scmd[c]) EXCEPT !.respond = bit]
  /\ answered' = answered \cup {c}
  /\ UNCHANGED <<sresp, sregs, scmd, sfreed, handed, reports, lost, sfault, netVars>>

\* the application has finished a request it was handed and answers it
StartAnswer(c, bit) ==
  /\ ~TestBuild /\ apc = "idle"
  /\ c \in handed \ answered
  /\ apc' = "answer"
  /\ amsg' = [ReplyTo(c, scmd[c]) EXCEPT !.respond = bit]
  /\ answered' = answered \cup {c}
  /\ UNCHANGED <<sresp, sregs, scmd, sfreed, handed, reports, lost, sfault, netVars>>

\* mutant: ipc_send_data fails after the message has left
SendAnswerFailsLate ==
  /\ apc = "answer"
  /\ CanSend(toClient)
  /\ toClient' = Append(toClient, amsg)
  /\ \/ apc' = "remove" /\ UNCHANGED answered
     \/ apc' = "idle" /\ answered' = answered \ {amsg.arg}
  /\ UNCHANGED <<sresp, sregs, scmd, sfreed, handed, amsg, reports, lost, sfault, toServer>>

\* mutant: the node is removed although the send failed
SendAnswerRemovesAnyway ==
  /\ apc = "answer"
  /\ apc' = "remove"
  /\ \/ /\ CanSend(toClient)
        /\ toClient' = Append(toClient, amsg)
        /\ UNCHANGED <<answered, lost>>
     \/ /\ answered' = answered \ {amsg.arg}
        /\ lost' = lost \cup {amsg.arg}
        /\ UNCHANGED toClient
  /\ UNCHANGED <<sresp, sregs, scmd, sfreed, handed, amsg, reports, sfault, toServer>>

\* on failure it returns 1 and leaves the node; the test build ignores that
SendAnswer ==
  /\ apc = "answer"
  /\ \/ /\ CanSend(toClient)
        /\ toClient' = Append(toClient, amsg)
        /\ apc' = "remove"
        /\ UNCHANGED <<answered, lost>>
     \/ /\ apc' = "idle"
        /\ answered' = answered \ {amsg.arg}
        /\ lost' = lost \cup {amsg.arg}
        /\ UNCHANGED toClient
  /\ UNCHANGED <<sresp, sregs, scmd, sfreed, handed, amsg, reports, sfault, toServer>>

\* mutant: the first node is taken for the one that matches
AnswerMatchesFirst(i) == ~amsg.respond /\ i = 1

\* the word a node is compared with includes the bit, the stored one does not
AnswerMatch(i) ==
  /\ ~amsg.respond /\ scmd[sresp[i]] = amsg.cmd
  /\ \A j \in 1..(i - 1) : scmd[sresp[j]] # amsg.cmd

AnswerMatches ==
  \E i \in 1..Len(sresp) :
    /\ AnswerMatch(i)
    /\ IF \E j \in 1..(i + 1) : SFreed(j)
       THEN sfault' = TRUE /\ UNCHANGED <<sresp, sfreed>>
       ELSE /\ sresp' = RemoveAt(sresp, i)
            /\ sfreed' = sfreed \cup {sresp[i]}
            /\ UNCHANGED sfault

\* no match: the last node visited is freed where it stands, and with an empty
\* list whatever the uninitialised pointer holds, of which only NULL is harmless
AnswerMisses ==
  /\ ~\E i \in 1..Len(sresp) : AnswerMatch(i)
  /\ \/ /\ sresp = <<>> \/ \E i \in 1..Len(sresp) : SFreed(i)
        /\ sfault' = TRUE
        /\ UNCHANGED sfreed
     \/ /\ sresp = <<>>
        /\ UNCHANGED <<sfreed, sfault>>
     \/ /\ sresp # <<>> /\ \A i \in 1..Len(sresp) : ~SFreed(i)
        /\ sfreed' = sfreed \cup {sresp[Len(sresp)]}
        /\ UNCHANGED sfault
  /\ UNCHANGED sresp

RemoveNode ==
  /\ apc = "remove"
  /\ AnswerMatches \/ AnswerMisses
  /\ apc' = "idle"
  /\ UNCHANGED <<sregs, scmd, handed, amsg, answered, reports, lost, netVars>>

\* the search before a report never says "not found": after the loop the pointer
\* is the last node visited, or, when the list is empty, was never written
StartReport(w) ==
  /\ ~TestBuild /\ apc = "idle" /\ reports < MaxReports
  /\ reports' = reports + 1
  /\ \/ apc' = "report" /\ amsg' = ReportOf(w)
     \/ sregs = <<>> /\ UNCHANGED <<apc, amsg>>
  /\ UNCHANGED <<sresp, sregs, scmd, sfreed, handed, answered, lost, sfault, netVars>>

SendReport ==
  /\ apc = "report"
  /\ apc' = "idle"
  /\ \/ CanSend(toClient) /\ toClient' = Append(toClient, amsg)
     \/ UNCHANGED toClient
  /\ UNCHANGED <<sresp, sregs, scmd, sfreed, handed, amsg, answered, reports, lost, sfault, toServer>>

Answerer ==
  \/ SendAnswer \/ RemoveNode \/ SendReport
  \/ \E c \in Calls, bit \in AnswerBits : StartAnswer(c, bit)
  \/ \E w \in RegCmds : StartReport(w)

ServerNext == ~sfault /\ (Serve \/ Answerer)
=============================================================================
