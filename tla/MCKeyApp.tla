------------------------------- MODULE MCKeyApp -------------------------------
(* KeyApp with a table smaller than the number of keys. *)
EXTENDS KeyApp, TLC

Sym == Permutations(Codes)
=============================================================================
