--------------------------- MODULE MCBufferedHttp ---------------------------
(***************************************************************************)
(* A small instance of BufferedHttp: a resource of several chunks and       *)
(* longer than the buffer, a step larger than the buffer, and offsets       *)
(* inside and past the end.                                                 *)
(***************************************************************************)
EXTENDS BufferedHttp

MCLens == {1, 4}
MCOffs == {1, 6}

=============================================================================
