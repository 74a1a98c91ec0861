---------------------------------- MODULE Text ----------------------------------
(***************************************************************************)
(* The conversions between UTF-8 and 16-bit big-endian Unicode of          *)
(* c/src/character.c: unicode_to_utf8 writes into a buffer of zeros what   *)
(* utf8_to_unicode then reads, or the latter reads bytes of another        *)
(* source.  A byte is a number; a 16-bit unit stands for its two bytes.    *)
(***************************************************************************)
EXTENDS Integers, Sequences, SequencesExt, FiniteSets

CONSTANTS
  Units,    \* 16-bit units, none of them 0
  Bytes,    \* bytes of other sources, none of them 0
  MaxUnits, MaxBytes  \* bounds on the lengths

ASSUME TextAssumption ==
  /\ Units \subseteq {c \in Nat : 0 < c /\ c < 65536}
  /\ Bytes \subseteq {b \in Nat : 0 < b /\ b < 256}
  /\ MaxUnits \in Nat /\ MaxBytes \in Nat

VARIABLES
  unic,     \* the text as units; empty when the bytes are of another source
  encoded,  \* how many units unicode_to_utf8 has converted
  utf8,     \* the bytes, up to the NUL
  pos,      \* what utf8_to_unicode has read of them
  pOutput,  \* the units it has written
  phase     \* "encode", "decode" or "done"

textVars == <<unic, encoded, utf8, pos, pOutput, phase>>

TextInit ==
  /\ encoded = 0 /\ pos = 0 /\ pOutput = <<>>
  /\ \/ phase = "encode" /\ unic \in SeqOf(Units, MaxUnits) \ {<<>>} /\ utf8 = <<>>
     \/ phase = "decode" /\ unic = <<>> /\ utf8 \in SeqOf(Bytes, MaxBytes)

-----------------------------------------------------------------------------
(* unicode_to_utf8.                                                         *)

\* the least n whose code of n bytes has room for c
Size(c) == 1 + Cardinality({limit \in {128, 2048, 65536, 2097152, 67108864} : limit <= c})
Lead == <<0, 192, 224, 240, 248, 252>>
Weight == <<1, 64, 4096, 262144, 16777216, 1073741824>>  \* of a byte, counted from the last

enc_unicode_to_utf8_one(c) ==
  LET n == Size(c) IN
    [h \in 1..n |-> IF h = 1 THEN Lead[n] + (c \div Weight[n]) ELSE 128 + ((c \div Weight[n - h + 1]) % 64)]

Encode ==
  /\ phase = "encode" /\ encoded < Len(unic)
  /\ utf8' = utf8 \o enc_unicode_to_utf8_one(unic[encoded + 1])
  /\ encoded' = encoded + 1
  /\ UNCHANGED <<unic, pos, pOutput, phase>>

Encoded ==
  /\ phase = "encode" /\ encoded = Len(unic) /\ phase' = "decode"
  /\ UNCHANGED <<unic, encoded, utf8, pos, pOutput>>

-----------------------------------------------------------------------------
(* utf8_to_unicode.                                                         *)

Byte(i) == IF pos + i < Len(utf8) THEN utf8[pos + i + 1] ELSE 0

\* by the first byte; 0 is the -1 of a byte that cannot be one
enc_get_utf8_size(b) ==
  IF b < 128 THEN 1
  ELSE IF b < 192 THEN 0
  ELSE 2 + Cardinality({first \in {224, 240, 248, 252} : first <= b})

\* mutant: the bytes behind the first one are not looked at
FollowedByAny(n) == TRUE

\* (b2 & 0xE0) != 0x80 in a code of two bytes, (b & 0xC0) != 0x80 in longer ones
Followed(n) == IF n = 2 THEN Byte(1) \div 32 = 4 ELSE \A i \in 1..(n - 1) : Byte(i) \div 64 = 2

\* what enc_utf8_to_unicode_one returns, and the unit it gives for one and three bytes
utfbytes == LET n == enc_get_utf8_size(Byte(0)) IN IF Followed(n) THEN n ELSE 0

enc_utf8_to_unicode_one ==
  IF utfbytes = 1 THEN Byte(0)
  ELSE 256 * ((16 * Byte(0) + ((Byte(1) \div 4) % 16)) % 256) + ((64 * Byte(1) + (Byte(2) % 64)) % 256)

\* codes of two, four and more bytes are passed over; with 0 the loop goes on for ever
Decode ==
  /\ phase = "decode" /\ Byte(0) # 0 /\ utfbytes # 0
  /\ pos' = pos + utfbytes
  /\ pOutput' = IF utfbytes \in {1, 3} THEN Append(pOutput, enc_utf8_to_unicode_one) ELSE pOutput
  /\ UNCHANGED <<unic, encoded, utf8, phase>>

Decoded ==
  /\ phase = "decode" /\ Byte(0) = 0 /\ phase' = "done"
  /\ UNCHANGED <<unic, encoded, utf8, pos, pOutput>>

TextNext == Encode \/ Encoded \/ Decode \/ Decoded

TextSpec == TextInit /\ [][TextNext]_textVars

Endless == phase = "decode" /\ Byte(0) # 0 /\ utfbytes = 0

-----------------------------------------------------------------------------
\* A text that was converted comes back, without its characters of two bytes; such a
\* character makes the way back endless when its last six bits are 32 or more, and
\* nothing else does.  Of bytes of another source one unit is read for every first byte
\* of one or three, and whatever they are the reading never steps over the NUL.
\* (enc_unicode_to_utf8_one against enc_utf8_to_unicode_one and the two loops)
Dropped(c) == Size(c) = 2
Stops(c) == Size(c) = 2 /\ c % 64 >= 32
Kept(n) == Cardinality({i \in 1..n : ~Dropped(unic[i])})

TextConverts ==
  /\ pos <= Len(utf8)
  /\ unic # <<>> => /\ phase = "done" =>
                         /\ Len(pOutput) = Kept(Len(unic))
                         /\ \A i \in 1..Len(unic) : ~Dropped(unic[i]) => pOutput[Kept(i)] = unic[i]
                         /\ \A i \in 1..Len(unic) : ~Stops(unic[i])
                    /\ Endless => \E i \in 1..Len(unic) : Stops(unic[i])
  /\ unic = <<>> /\ phase = "done" =>
       Len(pOutput) = Cardinality({i \in 1..Len(utf8) : utf8[i] < 128 \/ utf8[i] \in 224..239})
================================================================================
