----------------------------- MODULE MCSlBuffer -----------------------------
(***************************************************************************)
(* Small instances of SlBuffer: a file longer than the buffer, a step that  *)
(* does not divide either, offsets at the start, inside and past the end.   *)
(***************************************************************************)
EXTENDS SlBuffer

MCLens == {1, 2, 4}
MCOffs == {0, 2, 6}

=============================================================================
