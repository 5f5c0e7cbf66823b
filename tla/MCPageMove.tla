----------------------------- MODULE MCPageMove -----------------------------
(* Small instances of PageMove.                                              *)
EXTENDS PageMove

=============================================================================
