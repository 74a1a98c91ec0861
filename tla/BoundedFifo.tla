---------------------------- MODULE BoundedFifo ----------------------------
(***************************************************************************)
(* What a ring buffer of bytes promises to its callers: the bytes it has   *)
(* taken come out once each, in order, and it never holds more than Size   *)
(* of them.                                                                *)
(***************************************************************************)
EXTENDS Naturals, Sequences, SequencesExt

CONSTANT Size

VARIABLES
  sent,  \* every byte put has taken, in order
  rcvd   \* every byte get has handed out, in order

fifoVars == <<sent, rcvd>>

FifoInit == sent = <<>> /\ rcvd = <<>>

PutSome ==
  /\ IsPrefix(sent, sent')
  /\ Len(sent') - Len(rcvd) <= Size
  /\ UNCHANGED rcvd

GetSome ==
  /\ IsPrefix(rcvd, rcvd') /\ IsPrefix(rcvd', sent)
  /\ UNCHANGED sent

FifoSpec == FifoInit /\ [][PutSome \/ GetSome]_fifoVars
=============================================================================
