----------------------------- MODULE ByteQueue ------------------------------
(***************************************************************************)
(* What a circular buffer promises its two clients (util/circbuf.h): a      *)
(* bounded queue that delivers the bytes of the producer in order, once     *)
(* each, and keeps the bytes it is showing to the consumer unchanged until  *)
(* the consumer releases them.                                              *)
(***************************************************************************)
EXTENDS Integers, SequencesExt

CONSTANT Capacity   \* how many bytes it holds

VARIABLES
    queue,    \* the bytes sent and not yet released; the i-th byte ever sent is i-1
    next,     \* the next byte of the producer
    held,     \* the prefix of queue the consumer is looking at
    rclosed,  \* the consumer has closed its end
    wclosed   \* the producer has closed its end

vars == <<queue, next, held, rclosed, wclosed>>

TypeOK ==
    /\ queue \in Seq(Nat) /\ Len(queue) <= Capacity
    /\ next \in Nat
    /\ IsPrefix(held, queue)
    /\ rclosed \in BOOLEAN /\ wclosed \in BOOLEAN

Init ==
    /\ queue = <<>> /\ next = 0 /\ held = <<>>
    /\ rclosed = FALSE /\ wclosed = FALSE

(* The producer adds k bytes; nothing is sent once it has closed.           *)
Send(k) ==
    /\ ~wclosed
    /\ Len(queue) + k <= Capacity
    /\ queue' = queue \o [i \in 1 .. k |-> next + i - 1]
    /\ next' = next + k
    /\ UNCHANGED <<held, rclosed, wclosed>>

(* The consumer is given the first k bytes to copy or to inspect.           *)
Look(k) ==
    /\ held' = SubSeq(queue, 1, k)
    /\ UNCHANGED <<queue, next, rclosed, wclosed>>

(* The bytes it was looking at are gone.                                    *)
Release ==
    /\ queue' = SubSeq(queue, Len(held) + 1, Len(queue))
    /\ held' = <<>>
    /\ UNCHANGED <<next, rclosed, wclosed>>

CloseRead ==
    /\ rclosed' = TRUE
    /\ UNCHANGED <<queue, next, held, wclosed>>

CloseWrite ==
    /\ wclosed' = TRUE
    /\ UNCHANGED <<queue, next, held, rclosed>>

(* Both ends are reopened and what was queued is dropped.                   *)
Reset ==
    /\ queue' = <<>> /\ held' = <<>>
    /\ rclosed' = FALSE /\ wclosed' = FALSE
    /\ UNCHANGED next

Next ==
    \/ \E k \in 0 .. Capacity : Send(k)
    \/ \E k \in 0 .. Len(queue) : Look(k)
    \/ Release \/ CloseRead \/ CloseWrite \/ Reset

Spec == Init /\ [][Next]_vars

=============================================================================
