--------------------------- MODULE SeekableStream ---------------------------
(***************************************************************************)
(* What streamlike.h promises the user of a readable, seekable stream over  *)
(* a file of FileLen bytes.  The byte at offset o is o.  A read may return  *)
(* short only if it sets the end-of-file indicator; it may do so although   *)
(* there are bytes left ("end-of-file reached or there is some error"), and *)
(* it may already set it when it stops exactly at the end.                  *)
(***************************************************************************)
EXTENDS Integers, Sequences

CONSTANTS FileLen,  \* length of the file
          Lens,     \* lengths read
          Offs      \* offsets sought

VARIABLES pos,      \* sl_tell
          eof,      \* sl_eof
          out       \* the bytes the last read delivered

vars == <<pos, eof, out>>

Init == pos = 0 /\ eof = FALSE /\ out = <<>>

Call == out' = <<>> /\ UNCHANGED <<pos, eof>>

Read(len) ==
    \E n \in 0 .. len :
        /\ n = 0 \/ pos + n <= FileLen
        /\ out' = [i \in 1 .. n |-> pos + i - 1]
        /\ pos' = pos + n
        /\ eof' \in BOOLEAN
        /\ n < len => eof'
        /\ eof' => eof \/ n < len \/ pos' >= FileLen

Seek(off) == pos' = off /\ eof' = FALSE /\ out' = <<>>

Next == Call \/ (\E len \in Lens : Read(len)) \/ (\E off \in Offs : Seek(off))

Spec == Init /\ [][Next]_vars

=============================================================================
