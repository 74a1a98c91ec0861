---------------------------------- MODULE Kmp ----------------------------------
(***************************************************************************)
(* The string search of c/src/algorithm/kmp.c, a step for every round of   *)
(* its loops.  Strings end with a NUL, which get_next compares too: it     *)
(* fills next[len].  next is taken to have room for it.                    *)
(***************************************************************************)
EXTENDS Lines

CONSTANTS MaxText, MaxPattern  \* bounds on the lengths of the two strings

ASSUME KmpAssumption == MaxText \in Nat /\ MaxPattern \in Nat

VARIABLES
  s, p,    \* the text and the pattern
  next,    \* by index of p
  k, q,    \* k of both functions; q of get_next, which is i of KMP
  kmp,     \* the function that runs: "get_next", "KMP" or "done"
  found    \* what KMP returns

kmpVars == <<s, p, next, k, q, kmp, found>>

KmpInit ==
  /\ s \in SeqOf(Letters, MaxText) /\ p \in SeqOf(Letters, MaxPattern)
  /\ next = [i \in {0} |-> -1] /\ k = -1 /\ q = 1
  /\ kmp = "get_next" /\ found = -1

-----------------------------------------------------------------------------
\* mutant: k does not follow next but starts anew
NoFallback == -1

\* while: the next element differs, k falls back
Fallback == next[k]

Back(c) ==
  /\ k > -1 /\ Char(p, k + 1) # c
  /\ k' = Fallback
  /\ UNCHANGED <<s, p, next, q, kmp, found>>

\* what k is once it has fallen back far enough
Forward(c) == IF Char(p, k + 1) = c THEN k + 1 ELSE k
Stays(c) == k = -1 \/ Char(p, k + 1) = c

GetNext ==
  /\ kmp = "get_next"
  /\ \/ q <= Len(p) /\ Back(Char(p, q))
     \/ /\ q <= Len(p) /\ Stays(Char(p, q))
        /\ k' = Forward(Char(p, q))
        /\ next' = [i \in DOMAIN next \cup {q} |-> IF i = q THEN k' ELSE next[i]]
        /\ q' = q + 1
        /\ UNCHANGED <<s, p, kmp, found>>
     \/ /\ q > Len(p)
        /\ kmp' = "KMP" /\ k' = -1 /\ q' = 0
        /\ UNCHANGED <<s, p, next, found>>

KMP ==
  /\ kmp = "KMP"
  /\ \/ q < Len(s) /\ Back(Char(s, q))
     \/ /\ q < Len(s) /\ Stays(Char(s, q))
        /\ k' = Forward(Char(s, q))
        /\ IF k' = Len(p) - 1 THEN kmp' = "done" /\ found' = q - Len(p) + 1 /\ UNCHANGED q
                              ELSE q' = q + 1 /\ UNCHANGED <<kmp, found>>
        /\ UNCHANGED <<s, p, next>>
     \/ /\ q = Len(s) /\ kmp' = "done"
        /\ UNCHANGED <<s, p, next, k, q, found>>

KmpNext == GetNext \/ KMP

KmpSpec == KmpInit /\ [][KmpNext]_kmpVars

-----------------------------------------------------------------------------
Starts(i) == Stands(p, s, i)

\* The length of the longest proper prefix of the first n letters that is a suffix too.
Border(n) == CHOOSE b \in 0..(n - 1) :
  /\ IsPrefix(SubSeq(p, 1, b), p) /\ IsSuffix(SubSeq(p, 1, b), SubSeq(p, 1, n))
  /\ \A a \in (b + 1)..(n - 1) : ~IsSuffix(SubSeq(p, 1, a), SubSeq(p, 1, n))

\* next tells for every letter of the pattern the longest proper border that ends there,
\* the letter NUL takes no part in it, no comparison goes past the NUL, and KMP returns
\* the first place where a pattern that is not empty occurs, -1 where it does not; an
\* empty one is found at 1.  (get_next, which also fills next[len], and KMP)
KmpFinds ==
  /\ \A n \in DOMAIN next : n < Len(p) => next[n] = Border(n + 1) - 1
  /\ kmp # "done" => k + 1 \in 0..Len(p)
  /\ kmp = "done" =>
       found = IF p = <<>> THEN (IF s = <<>> THEN -1 ELSE 1)
               ELSE IF \A i \in 0..Len(s) : ~Starts(i) THEN -1
               ELSE CHOOSE i \in 0..Len(s) : Starts(i) /\ \A h \in 0..(i - 1) : ~Starts(h)
================================================================================
