------------------------------- MODULE MCPopen -------------------------------
(* Popen with a few children and descriptors. *)
EXTENDS Popen
=============================================================================
