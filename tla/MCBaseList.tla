------------------------------ MODULE MCBaseList ------------------------------
(* BaseList on a small heap. *)
EXTENDS BaseList
=============================================================================
