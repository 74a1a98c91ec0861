--------------------------------- MODULE Wgrep ---------------------------------
(***************************************************************************)
(* wgrep (c/src/wgrep): main reads a file with fgets and prints the lines  *)
(* that contain a word, each of which sunday_search looks through.  A      *)
(* step for every round of a loop.  Letters are ASCII: step[] is indexed   *)
(* by a char, which is signed.                                             *)
(***************************************************************************)
EXTENDS Lines, FiniteSets

CONSTANTS MaxFile, MaxWord  \* bounds on the lengths of the file and the word

ASSUME WgrepAssumption == MaxFile \in Nat /\ MaxWord \in Nat

VARIABLES
  data, word,  \* the file's contents and argv[1]
  at,          \* where main is: "fgets", "search" or "end"
  rest,        \* what fgets has not read yet
  line,
  no,          \* the line number, i of main
  x, j,        \* i and j of sunday_search
  out          \* the numbers of the lines printed

temp == x - j  \* the place the round has begun at

wgrepVars == <<data, word, at, rest, line, no, x, j, out>>

WgrepInit ==
  /\ data \in SeqOf(Letters \cup {NL}, MaxFile) \cup SeqOf(Letters \cup {NL, NUL}, MaxFile - 2)
  /\ word \in SeqOf(Letters, MaxWord)
  /\ at = "fgets" /\ rest = data /\ line = <<>> /\ no = 1
  /\ x = 0 /\ j = 0 /\ out = <<>>

-----------------------------------------------------------------------------
Fgets ==
  /\ at = "fgets"
  /\ \/ rest = <<>> /\ at' = "end" /\ UNCHANGED <<rest, line, x, j>>
     \/ /\ rest # <<>> /\ at' = "search"
        /\ line' = LineOf(rest) /\ rest' = RestOf(rest)
        /\ x' = 0 /\ j' = 0
  /\ UNCHANGED <<data, word, no, out>>

\* mutant: the first place of a letter in the word decides
StepFirst(c) == Len(word) + 1 - (IF Contains(word, c) THEN UpTo(word, c) ELSE 0)

\* step[c], after get_step: by the last place of c in the word, if it has one
Step(c) == Len(word) + 1 - SelectLastInSeq(word, LAMBDA d : d = c)

\* back in main with the value that sunday_search returns
Returns(ret) ==
  /\ at' = "fgets" /\ no' = no + 1
  /\ out' = IF ret = -1 THEN out ELSE Append(out, no)
  /\ UNCHANGED <<data, word, rest, line, x, j>>

InRound == at = "search" /\ (x < Len(line) \/ j > 0)
Same == Char(line, x) = Char(word, j)

Compare ==
  /\ InRound /\ j < Len(word) /\ Same
  /\ x' = x + 1 /\ j' = j + 1
  /\ UNCHANGED <<data, word, at, rest, line, no, out>>

\* the letter behind the place compared says how far the word can be moved
Skip ==
  /\ InRound /\ j < Len(word) /\ ~Same
  /\ LET i == temp + Step(Char(line, temp + Len(word))) IN
       \/ i + Len(word) > Len(line) /\ Returns(-1)
       \/ /\ i + Len(word) <= Len(line)
          /\ x' = i /\ j' = 0
          /\ UNCHANGED <<data, word, at, rest, line, no, out>>

Found == InRound /\ j = Len(word) /\ Returns(temp)

\* an empty line: sunday_search ends without a return
FallsOff == at = "search" /\ line = <<>> /\ \E ret \in {-1, 0} : Returns(ret)

WgrepNext == Fgets \/ Compare \/ Skip \/ Found \/ FallsOff

WgrepSpec == WgrepInit /\ [][WgrepNext]_wgrepVars

-----------------------------------------------------------------------------
LineNo(i) == 1 + Cardinality({h \in 1..i : data[h] = NL})
LinesFit == \A i \in 0..(Len(data) - Buf) : \E h \in 1..(Buf - 1) : data[i + h] = NL
WithWord == {LineNo(i) : i \in {h \in 0..(Len(data) - 1) : Stands(word, data, h)}}

\* wgrep prints the numbers of the lines that contain the word, in their order, and no
\* other, provided that every line fits the buffer and none holds a NUL; and the search
\* never compares beyond the NUL of a line.  (main, fgets, sunday_search)
WgrepPrints ==
  /\ x <= Len(line)
  /\ at = "end" /\ ~Contains(data, NUL) /\ LinesFit =>
       /\ ToSet(out) = WithWord
       /\ \A m, n \in 1..Len(out) : m < n => out[m] < out[n]
================================================================================
