-------------------------------- MODULE IpcParams --------------------------------
(***************************************************************************)
(* The parameters of one request of the IPC library, from the caller's     *)
(* array to the server's and back: IPC_PARAM_TYPES, ipc_convert_param and  *)
(* ipc_convert_data on both sides, process_sync_command, process_sync_call *)
(* or process_async_call, and the copies of ipc_client_request.  Who waits *)
(* for whom is the matter of Ipc.                                          *)
(*                                                                         *)
(* A parameter is a union: the two words of a value are the two halves of  *)
(* a memref's pointer, whose size lies behind them.  A block of memory     *)
(* holds two words as well.                                                *)
(***************************************************************************)
EXTENDS Integers, Sequences, FiniteSets

CONSTANTS
  Signatures,  \* the types callers name, six each
  Sizes        \* sizes of a memref in words, 1 or 2

NONE == 0
VALUE == 1..3     \* VALUE_INPUT, _OUTPUT, _INOUT
MEMREF == 5..7    \* MEMREF_INPUT, _OUTPUT, _INOUT
Params == 1..6    \* IPC_NUM_PARAMS
Words == {"lo", "hi"}

\* the macros name NONE behind the last parameter only
ASSUME ParamsAssumption ==
  /\ Signatures \subseteq [Params -> {NONE} \cup VALUE \cup MEMREF]
  /\ \A y \in Signatures, i \in 1..5 : y[i] = NONE => y[i + 1] = NONE
  /\ Sizes \subseteq 1..2

VARIABLES
  t, size,      \* the types named, the size of every memref
  async,        \* there is a callback
  step,         \* the step the exchange has reached
  mem,          \* the blocks the pointers point to
  caller, node, \* the caller's params, the callback node's
  server, back, \* those of the server's and of the client's receive thread
  msg           \* the message on its way

paramVars == <<t, size, async, step, mem, caller, node, server, back, msg>>

\* the caller's block for parameter i, and the places in the receive buffers
Block(owner, i) == <<owner, i>>
Blocks == {"user", "server", "client"} \X Params
Pointer(b) == [w \in Words |-> <<"to", b, w>>]
Content(b) == [w \in Words |-> <<"of", b, w>>]

-----------------------------------------------------------------------------
\* t3, t4 and t5 are all shifted by 12 bits and or'ed; types have three bits
BitOfLast(w) == IF \E i \in 4..6 : (t[i] \div w) % 2 = 1 THEN w ELSE 0
IPC_PARAM_TYPES == <<t[1], t[2], t[3], BitOfLast(1) + BitOfLast(2) + BitOfLast(4), NONE, NONE>>
IPC_PARAM_TYPE_GET(i) == IPC_PARAM_TYPES[i]

get_param_count ==
  CHOOSE n \in 0..4 : (\A i \in 1..n : IPC_PARAM_TYPE_GET(i) # NONE) /\ IPC_PARAM_TYPE_GET(n + 1) = NONE

Of(types) == {i \in 1..get_param_count : IPC_PARAM_TYPE_GET(i) \in types}

\* mutant: INOUT parameters are not returned
PlainOutputs == {2, 6}

Outputs == {2, 3, 6, 7}

\* memcpy of size words into the words of a block or of a parameter
memcpy(to, from, n) == [w \in Words |-> IF w = "lo" \/ n = 2 THEN from[w] ELSE to[w]]

Target(p) == CHOOSE b \in Blocks : Pointer(b) = p.w
Wild(p) == \A b \in Blocks : Pointer(b) # p.w

ParamInit ==
  /\ t \in Signatures /\ size \in Sizes /\ async \in BOOLEAN
  /\ step = "request"
  /\ mem = [b \in Blocks |-> Content(b)]
  /\ caller = [i \in Params |-> [w |-> IF i \in Of(MEMREF) THEN Pointer(Block("user", i)) ELSE Content(Block("value", i)),
                                 size |-> size]]
  /\ node = caller /\ server = caller /\ back = caller  \* by then nobody has read them
  /\ msg = <<>>

-----------------------------------------------------------------------------
\* ipc_convert_param: a value goes as it is, a memref as its size and its block
Converted(params) ==
  [i \in 1..get_param_count |->
     IF i \in Of(VALUE) THEN params[i] ELSE [w |-> mem[Target(params[i])], size |-> params[i].size]]

\* ipc_convert_data: memrefs point into the receive buffer
Received(params, who) ==
  [i \in Params |-> IF i \in Of(VALUE) THEN msg[i]
                    ELSE IF i \in Of(MEMREF) THEN [w |-> Pointer(Block(who, i)), size |-> msg[i].size]
                    ELSE params[i]]
Filled(who) ==
  [b \in Blocks |-> IF b[1] = who /\ b[2] \in Of(MEMREF) THEN memcpy(mem[b], msg[b[2]].w, msg[b[2]].size) ELSE mem[b]]

Request ==
  /\ step = "request" /\ step' = "requested"
  /\ msg' = Converted(caller) /\ node' = caller
  /\ UNCHANGED <<t, size, async, mem, caller, server, back>>

ServerReceives ==
  /\ step = "requested" /\ step' = "command"
  /\ server' = Received(server, "server") /\ mem' = Filled("server")
  /\ UNCHANGED <<t, size, async, caller, node, back, msg>>

\* process_sync_command writes the value of params[1], whatever it is
Answer == [w \in Words |-> <<"answer", w>>]

ProcessCommand ==
  /\ step = "command" /\ step' = "respond"
  /\ server' = [server EXCEPT ![2].w = Answer]
  /\ UNCHANGED <<t, size, async, mem, caller, node, back, msg>>

Respond ==
  /\ step = "respond"
  /\ \/ /\ \E i \in Of(MEMREF) : Wild(server[i])
        /\ step' = "crashed" /\ UNCHANGED msg
     \/ /\ \A i \in Of(MEMREF) : ~Wild(server[i])
        /\ step' = "responded" /\ msg' = Converted(server)
  /\ UNCHANGED <<t, size, async, mem, caller, node, server, back>>

ClientReceives ==
  /\ step = "responded" /\ step' = "process"
  /\ back' = Received(back, "client") /\ mem' = Filled("client")
  /\ UNCHANGED <<t, size, async, caller, node, server, msg>>

\* what the copies of values and sizes leave of a parameter
Copied(to, from) ==
  [i \in Params |-> IF i \in Of(VALUE \cap Outputs) THEN from[i]
                    ELSE IF i \in Of(MEMREF \cap Outputs) THEN [to[i] EXCEPT !.size = from[i].size]
                    ELSE to[i]]

\* into the block, from the address of the pointer
process_sync_call ==
  /\ step = "process" /\ ~async /\ step' = "copy"
  /\ node' = Copied(node, back)
  /\ mem' = [b \in Blocks |-> IF \E i \in Of(MEMREF \cap Outputs) : b = Target(node[i])
                              THEN memcpy(mem[b], back[b[2]].w, back[b[2]].size) ELSE mem[b]]
  /\ UNCHANGED <<t, size, async, caller, server, back, msg>>

\* into the pointer, from the address of the pointer; the callback then runs on the node
process_async_call ==
  /\ step = "process" /\ async /\ step' = "called"
  /\ node' = [i \in Params |-> IF i \in Of(MEMREF \cap Outputs)
                               THEN [w |-> memcpy(node[i].w, back[i].w, back[i].size), size |-> back[i].size]
                               ELSE Copied(node, back)[i]]
  /\ UNCHANGED <<t, size, async, mem, caller, server, back, msg>>

\* into the pointer, from the block
CopyBack ==
  /\ step = "copy" /\ step' = "returned"
  /\ caller' = [i \in Params |-> IF i \in Of(MEMREF \cap Outputs)
                                 THEN [w |-> memcpy(caller[i].w, mem[Target(node[i])], node[i].size), size |-> node[i].size]
                                 ELSE Copied(caller, node)[i]]
  /\ UNCHANGED <<t, size, async, mem, node, server, back, msg>>

ParamNext ==
  \/ Request \/ ServerReceives \/ ProcessCommand \/ Respond \/ ClientReceives
  \/ process_sync_call \/ process_async_call \/ CopyBack

ParamSpec == ParamInit /\ [][ParamNext]_paramVars

-----------------------------------------------------------------------------
\* What somebody who holds parameter i of params finds there.
Finds(params, i) ==
  IF i \in Of(VALUE) THEN params[i].w
  ELSE IF Wild(params[i]) THEN [w \in Words |-> <<"wild">>] ELSE mem[Target(params[i])]

Returned == {2, 3, 6, 7}  \* by their names, OUTPUT and INOUT
Named == CHOOSE n \in 0..6 : (\A i \in 1..n : t[i] # NONE) /\ (n < 6 => t[n + 1] = NONE)
Arrived == step \notin {"request", "requested"}
Result == IF async THEN node ELSE caller
Over == step \in {"called", "returned"}

\* Up to four parameters all reach the server, and of more the first three and the
\* fourth under a type that is not its own.  The server answers, unless params[1] is a
\* memref, whose pointer it overwrites.  The caller, or its callback, then finds every
\* output as the server has answered it, a memref by a pointer into the library's
\* buffer when it is as long as a pointer and wild when it is shorter; only the
\* caller's own block no longer holds what it did.  Inputs stay what they were.
\* (IPC_PARAM_TYPES; lines 47, 72 and 309 of ipc_client.c, which take the address of
\* a pointer)
ParamsArrive ==
  /\ get_param_count = IF Named > 4 THEN 4 ELSE Named
  /\ step = "command" => \A i \in 1..get_param_count :
       Finds(server, i) = IF i \in Of(VALUE) THEN Finds(caller, i) ELSE memcpy(Finds(server, i), Finds(caller, i), size)
  /\ step = "crashed" => 2 \in Of(MEMREF)
  /\ Over =>
       /\ \A i \in Of(Returned \cap VALUE) : Finds(Result, i) = Finds(server, i)
       /\ \A i \in Of(Returned \cap MEMREF) :
            IF size = 2 THEN Target(Result[i]) = Block("client", i) /\ Finds(Result, i) = Finds(server, i)
                        ELSE Wild(Result[i])
       /\ ~async => \A i \in Of(Returned \cap MEMREF) : mem[Block("user", i)] # Content(Block("user", i))
       /\ \A i \in Of((VALUE \cup MEMREF) \ Returned) : Finds(Result, i) = Content(Block(IF i \in Of(VALUE) THEN "value" ELSE "user", i))
==================================================================================
