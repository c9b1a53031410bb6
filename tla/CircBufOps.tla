----------------------------- MODULE CircBufOps -----------------------------
(***************************************************************************)
(* The offset arithmetic of util/circbuf.c: pure functions of the two      *)
(* offsets and a length.  A transfer touches at most two runs of slots, one *)
(* up to the end of the storage and one from its beginning, so it is        *)
(* described by how many bytes it moves and where the offset ends up.       *)
(*                                                                         *)
(* Size is cbuf->size: circbuf_init refuses a zero length and adds the one  *)
(* slot that always stays free.                                             *)
(*                                                                         *)
(* An operator whose name starts with Bug is a mutated form of the          *)
(* definition that follows it; no specification uses it.                    *)
(***************************************************************************)
EXTENDS Integers

CONSTANT Size

ASSUME SizeAssumption == Size \in Nat /\ Size >= 2

Offsets  == 0 .. Size - 1
Capacity == Size - 1

Least(a, b) == IF a <= b THEN a ELSE b

BugWrap(off) == IF off > Size THEN off - Size ELSE off

(* An offset moved past the end of the storage comes back at its beginning: *)
(* the subtraction of circbuf_dispose_some, the "%=" of write_some2_.       *)
Wrap(off) == IF off >= Size THEN off - Size ELSE off

(* How far slot s lies from the offset "off" in writing order, and the n    *)
(* slots that start there.                                                  *)
Dist(off, s)   == IF s >= off THEN s - off ELSE s - off + Size
Region(off, n) == {s \in Offsets : Dist(off, s) < n}

circbuf_get_length(roff, woff) ==
    IF woff >= roff THEN woff - roff ELSE Size - roff + woff

Full(roff, woff) == woff + 1 = roff \/ (woff = Size - 1 /\ roff = 0)

(* Restarting at the slot where the first run began instead of at slot 0.   *)
BugReadSome(roff, woff, len) ==
    LET avail == IF roff <= woff THEN woff - roff ELSE Size - roff
    IN  IF roff <= woff \/ avail >= len
          THEN [n |-> Least(avail, len), off |-> roff + Least(avail, len)]
          ELSE [n |-> avail + Least(woff, len - avail), off |-> woff]

(* The read offset is left at Size, not 0, when exactly the bytes up to the *)
(* end of the storage are taken.                                            *)
read_some_(roff, woff, len) ==
    LET avail == IF roff <= woff THEN woff - roff ELSE Size - roff
        tail  == Least(woff, len - avail)
    IN  IF roff <= woff \/ avail >= len
          THEN [n |-> Least(avail, len), off |-> roff + Least(avail, len)]
          ELSE [n |-> avail + tail, off |-> tail]

input_some_(roff, woff, len) ==
    Least(IF woff < roff THEN Size - roff ELSE woff - roff, len)

dispose_some_(roff, woff, len) ==
    LET n == Least(circbuf_get_length(roff, woff), len)
    IN  [n |-> n, off |-> Wrap(roff + n)]

(* The "- 1" that keeps the write offset from catching up with the read     *)
(* offset is forgotten.                                                     *)
BugWriteSome(roff, woff, len) ==
    LET avail == IF woff < roff THEN roff - woff ELSE Size - woff
        head  == Least(avail, len)
    IN  IF Full(roff, woff) THEN [n |-> 0, off |-> woff]
                            ELSE [n |-> head, off |-> Wrap(woff + head)]

(* Nothing when full; one run when the free slots do not wrap, when they    *)
(* are enough before the end, or when slot 0 is the last byte to be read    *)
(* (the last slot then stays free); two runs otherwise.                     *)
write_some_(roff, woff, len) ==
    LET avail == IF woff < roff THEN roff - woff - 1 ELSE Size - woff
        tail  == Least(roff - 1, len - avail)
        head  == IF woff < roff \/ avail > len THEN Least(avail, len)
                                               ELSE avail - 1
    IN  IF Full(roff, woff) THEN [n |-> 0, off |-> woff]
        ELSE IF woff < roff \/ avail > len \/ roff = 0
          THEN [n |-> head, off |-> woff + head]
          ELSE [n |-> avail + tail, off |-> tail]

=============================================================================
