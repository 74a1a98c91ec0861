-------------------------------- MODULE MCTexts --------------------------------
(***************************************************************************)
(* The sequential programs that work on texts and messages, one at a time: *)
(* prog says which of them it is that runs, the others rest in an initial  *)
(* state of their own.                                                     *)
(***************************************************************************)
EXTENDS Kmp, Wgrep, Balance, Text, IpcParams

VARIABLE prog

textsVars == <<prog, kmpVars, wgrepVars, balanceVars, textVars, paramVars>>

TypesNamed == {0, 1, 2, 3, 5, 6, 7}
SignaturesNamed ==
  {y \in {<<t0, t1, t2, t3, t4, t5>> : t0 \in TypesNamed, t1 \in TypesNamed, t2 \in {0, 2, 6}, t3 \in {0, 1, 7}, t4 \in {0, 2}, t5 \in {0, 5}} :
     \A i \in 1..5 : y[i] = 0 => y[i + 1] = 0}

\* One initial state will do for each that does not run.
KmpRests == s = <<>> /\ p = <<>>
WgrepRests == data = <<>> /\ word = <<>>
BalanceRests == code = <<>>
TextRests == phase = "decode" /\ utf8 = <<>>
ParamsRest == t = <<0, 0, 0, 0, 0, 0>> /\ size = 1 /\ async = FALSE

Init ==
  /\ prog \in {"kmp", "wgrep", "balance", "character", "ipc"}
  /\ (prog # "ipc" => ParamsRest) /\ ParamInit
  /\ (prog # "kmp" => KmpRests) /\ KmpInit
  /\ (prog # "wgrep" => WgrepRests) /\ WgrepInit
  /\ (prog # "balance" => BalanceRests) /\ BalanceInit
  /\ (prog # "character" => TextRests) /\ TextInit

Next ==
  /\ UNCHANGED prog
  /\ \/ prog = "kmp" /\ KmpNext /\ UNCHANGED <<wgrepVars, balanceVars, textVars, paramVars>>
     \/ prog = "wgrep" /\ WgrepNext /\ UNCHANGED <<kmpVars, balanceVars, textVars, paramVars>>
     \/ prog = "balance" /\ BalanceNext /\ UNCHANGED <<kmpVars, wgrepVars, textVars, paramVars>>
     \/ prog = "character" /\ TextNext /\ UNCHANGED <<kmpVars, wgrepVars, balanceVars, paramVars>>
     \/ prog = "ipc" /\ ParamNext /\ UNCHANGED <<kmpVars, wgrepVars, balanceVars, textVars>>

Spec == Init /\ [][Next]_textsVars
================================================================================
