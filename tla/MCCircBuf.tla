----------------------------- MODULE MCCircBuf ------------------------------
(***************************************************************************)
(* A small instance of CircBuf.  With Size = 4 the buffer holds 3 bytes;    *)
(* lengths below and above that, with what is left of a buffer and callbacks*)
(* that deliver less, make transfers of every size, every branch of the     *)
(* copy functions and every blocking condition occur.                       *)
(***************************************************************************)
EXTENDS CircBuf

MCLens == {2, 4}

=============================================================================
