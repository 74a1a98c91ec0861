------------------------------ MODULE IpcCommon ------------------------------
(***************************************************************************)
(* What the client and the server of android/linux/ipc share: the command  *)
(* words, the message a connection carries, and the two listening sockets. *)
(*                                                                         *)
(* Every message travels on a TCP connection of its own: the sender        *)
(* connects, sends one buffer and closes; the receiver accepts, calls recv *)
(* once and closes.  A listening socket is therefore a bounded FIFO of     *)
(* messages, in the order of the connects.                                 *)
(***************************************************************************)
EXTENDS Naturals, Sequences, FiniteSets

CONSTANTS
  Calls,    \* the calls ever made of ipc_client_request / _register_callback;
            \* a call is also the name of the callback node it allocates
  ReqCmds,  \* command words with a zero low byte (IPC_CMD_REQUEST_...)
  RegCmds,  \* command words with a low byte in 2..0xFE (IPC_CMD_..._UNSOLICITE)
  None,     \* a NULL pointer, or no payload
  Wild,     \* the value of a pointer variable nobody has written yet
  Backlog   \* the second argument of listen()

ASSUME CommonAssumption ==
  /\ None \notin Calls /\ Wild \notin Calls /\ None # Wild
  /\ ReqCmds \cap RegCmds = {}
  /\ Backlog \in Nat \ {0}

Cmds == ReqCmds \cup RegCmds

(***************************************************************************)
(* cmd is the word without bit 0, respond is bit 0 (IPC_CMD_RESPOND), async *)
(* is the mark IPC_PARAM_TYPE_CALLBABK of param_types, and arg stands for   *)
(* the parameters: the call whose parameters they are, which a reply sends  *)
(* back, or None.                                                          *)
(***************************************************************************)
Request == [cmd : Cmds, respond : {FALSE}, async : BOOLEAN, arg : Calls]
Answer == [cmd : Cmds, respond : BOOLEAN, async : {FALSE}, arg : Calls]
Report == [cmd : Cmds, respond : {FALSE}, async : {FALSE}, arg : {None}]

IsRespond(m) == m.respond
IsUnsolicite(m) == m.cmd \in RegCmds

VARIABLES
  toServer, \* connections waiting in accept() of the server, port 6667
  toClient  \* connections waiting in accept() of the client, port 6668

netVars == <<toServer, toClient>>

NetTypeOK ==
  /\ toServer \in Seq(Request)
  /\ toClient \in Seq(Answer \cup Report)

NetInit == toServer = <<>> /\ toClient = <<>>

\* connect + send: waits while the backlog of the peer is full
CanSend(queue) == Len(queue) < Backlog
=============================================================================
