--------------------------------- MODULE Lines ---------------------------------
(***************************************************************************)
(* Strings, and reading a file line by line as wgrep.c and                 *)
(* balance_symbol.c do: memset of the buffer, fgets, and the string that   *)
(* is then in the buffer.                                                  *)
(***************************************************************************)
EXTENDS Integers, Sequences, SequencesExt

CONSTANTS
  Letters,
  NL,
  Buf  \* sizeof(line): 1024 in the code

NUL == "nul"

\* NUL ends a string and NL a line: no letter does.
ASSUME LinesAssumption ==
  /\ NUL \notin Letters /\ NL \notin Letters /\ NL # NUL
  /\ Buf \in Nat /\ Buf > 1

\* the element i, counted from 0; behind a string is its NUL, behind a line memset's zeros
Char(str, i) == IF i < Len(str) THEN str[i + 1] ELSE NUL

\* w stands in str at place i
Stands(w, str, i) == i + Len(w) <= Len(str) /\ SubSeq(str, i + 1, i + Len(w)) = w

UpTo(str, c) == IF Contains(str, c) THEN SelectInSeq(str, LAMBDA d : d = c) ELSE Len(str)

\* fgets takes at most Buf - 1 characters, up to the end of the line
Taken(rest) == IF UpTo(rest, NL) < Buf THEN UpTo(rest, NL) ELSE Buf - 1

\* the string ends with its first NUL, be it one of the file
LineOf(rest) ==
  LET l == SubSeq(rest, 1, Taken(rest)) IN
    IF Contains(l, NUL) THEN SubSeq(l, 1, UpTo(l, NUL) - 1) ELSE l

RestOf(rest) == SubSeq(rest, Taken(rest) + 1, Len(rest))
================================================================================
