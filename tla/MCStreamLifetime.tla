-------------------------- MODULE MCStreamLifetime --------------------------
(***************************************************************************)
(* A small instance of StreamLifetime: two objects of a leaf class, two of  *)
(* a buffer over it, so that each can be moved into the other, and one of a *)
(* buffer over a buffer.                                                    *)
(***************************************************************************)
EXTENDS StreamLifetime, TLC

CONSTANTS f, g, b, c, d, s1, s2, s3, s4

MCObjects == {f, g, b, c, d}
MCLeaf    == [o \in MCObjects |-> "file"]
MCDepth   == f :> 1 @@ g :> 1 @@ b :> 2 @@ c :> 2 @@ d :> 3
MCStreams == {s1, s2, s3, s4}

StreamSymmetry == Permutations(MCStreams)

=============================================================================
