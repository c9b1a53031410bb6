------------------------------ MODULE MCSlHttp ------------------------------
(***************************************************************************)
(* Small instances of SlHttp: a resource of several chunks, reads below, at *)
(* and above the size of a chunk, offsets at the start, inside and past the *)
(* end.                                                                     *)
(***************************************************************************)
EXTENDS SlHttp

MCLens    == {0, 1, 3, 4}
MCOffs    == {0, 2, 6}
InnerOffs == {0, 2, 4}

=============================================================================
