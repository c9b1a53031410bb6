------------------------------ MODULE CircBuf -------------------------------
(***************************************************************************)
(* util/circbuf.c: one producer thread and one consumer thread over a       *)
(* circular buffer.  Each thread owns one offset and one "done" flag and    *)
(* reads the other's.  wlock/wcond guard woff and wdone for a consumer that *)
(* waits, rlock/rcond guard roff and rdone for a producer that waits.       *)
(*                                                                         *)
(* One action stands for one access to a variable the other thread writes,  *)
(* with the local computation after it.  A critical section that makes a    *)
(* single access is one action, enabled while the other thread does not     *)
(* hold the lock; the section of a wait loop is split, so that a thread     *)
(* holds the lock (pc = "wait") between finding that it has to wait and     *)
(* going to sleep.  pthread_cond_wait may return without a signal.          *)
(*                                                                         *)
(* A byte is named by its position in the stream the producer writes.       *)
(* rtot and wtot count the bytes that left and entered the buffer; no       *)
(* action of the code depends on them, except that the bound MaxBytes stops *)
(* the producer.                                                            *)
(*                                                                         *)
(* An operator whose name starts with Bug is a mutated form of the          *)
(* definition that follows it; no specification uses it.                    *)
(***************************************************************************)
EXTENDS CircBufOps

CONSTANTS Lens,      \* the lengths the clients pass
          MaxBytes   \* the bound on the bytes offered to the buffer

ASSUME ClientAssumption == Lens \subseteq Nat \ {0} /\ MaxBytes \in Nat

Junk == -1           \* what malloc leaves in a slot

VARIABLES
    data, roff, woff, rdone, wdone,   \* struct circbuf_s
    cpc, cop, cleft, coff,            \* consumer: step, call, bytes to go, next roff
    view,                             \* bytes at roff the consumer may be reading
    ppc, pop, pleft, poff,            \* producer: step, call, bytes to go, next woff
    pn,                               \* bytes at woff the producer may be writing
    peof,                             \* its callback delivered less than asked for
    rtot, wtot                        \* bytes released, bytes published

buffer   == <<data, roff, woff, rdone, wdone>>
consumer == <<cpc, cop, cleft, coff, view>>
producer == <<ppc, pop, pleft, pn, poff, peof>>
vars     == <<buffer, consumer, producer, rtot, wtot>>

ReadOps     == {"read", "read_some", "dispose_some"}
WriteOps    == {"write", "write2", "write_some", "write_some2"}
CallbackOps == {"write2", "write_some2"}
BlockingOps == {"read", "write", "write2"}

WLockFree == cpc # "wait"
BugRLockFree == TRUE
RLockFree    == ppc # "wait"

Empty  == roff = woff
IsFull == Full(roff, woff)

Init ==
    /\ data = [s \in Offsets |-> Junk]
    /\ roff = 0 /\ woff = 0 /\ rdone = FALSE /\ wdone = FALSE
    /\ cpc = "idle" /\ cop = "read" /\ cleft = 0 /\ coff = 0
    /\ view = 0
    /\ ppc = "idle" /\ pop = "write" /\ pleft = 0
    /\ pn = 0 /\ poff = 0 /\ peof = FALSE
    /\ rtot = 0 /\ wtot = 0

-----------------------------------------------------------------------------
(* The consumer.                                                            *)

CallRead(len) ==
    /\ cpc = "idle"
    /\ cpc' = "test" /\ cop' = "read" /\ cleft' = len /\ view' = 0
    /\ UNCHANGED <<buffer, coff, producer, rtot, wtot>>

CallReadSome(len) ==
    /\ cpc = "idle"
    /\ cpc' = "load" /\ cop' = "read_some" /\ cleft' = len /\ view' = 0
    /\ UNCHANGED <<buffer, coff, producer, rtot, wtot>>

(* The client may use the bytes it is shown until its next call.            *)
InputSome(len) ==
    /\ cpc = "idle"
    /\ view' = input_some_(roff, woff, len)
    /\ UNCHANGED <<buffer, cpc, cop, cleft, coff, producer, rtot, wtot>>

CallDisposeSome(len) ==
    LET d == dispose_some_(roff, woff, len)
    IN  /\ cpc = "idle"
        /\ cpc' = "publish" /\ cop' = "dispose_some" /\ cleft' = d.n
        /\ view' = d.n /\ coff' = d.off
        /\ UNCHANGED <<buffer, producer, rtot, wtot>>

(* circbuf_read, the loop condition: two loads, without the lock.           *)
ReadTest ==
    /\ cpc = "test"
    /\ cpc' = IF cleft = 0 THEN "idle" ELSE IF Empty THEN "test_done" ELSE "check"
    /\ UNCHANGED <<buffer, cop, cleft, coff, view, producer, rtot, wtot>>

ReadTestDone ==
    /\ cpc = "test_done"
    /\ cpc' = IF wdone THEN "idle" ELSE "check"
    /\ UNCHANGED <<buffer, cop, cleft, coff, view, producer, rtot, wtot>>

(* Under wlock: sleep while there is nothing to read and writing is open.   *)
ReadCheck ==
    /\ cpc = "check"
    /\ cpc' = IF Empty /\ ~wdone THEN "wait" ELSE "load"
    /\ UNCHANGED <<buffer, cop, cleft, coff, view, producer, rtot, wtot>>

ReadWait ==
    /\ cpc = "wait"
    /\ cpc' = "waiting"
    /\ UNCHANGED <<buffer, cop, cleft, coff, view, producer, rtot, wtot>>

ReadSpuriousWake ==
    /\ cpc = "waiting"
    /\ cpc' = "check"
    /\ UNCHANGED <<buffer, cop, cleft, coff, view, producer, rtot, wtot>>

(* circbuf_read_some freezes woff; its memcpy runs from here to "publish".  *)
ReadSomeLoad ==
    LET r == read_some_(roff, woff, cleft)
    IN  /\ cpc = "load"
        /\ cpc' = "publish" /\ view' = r.n /\ coff' = r.off
        /\ UNCHANGED <<buffer, cop, cleft, producer, rtot, wtot>>

(* pthread_cond_signal(&cbuf->rcond): the woken producer tests again.       *)
BugSignalProducer == UNCHANGED ppc
SignalProducer    == ppc' = IF ppc = "waiting" THEN "check" ELSE ppc

PublishRead ==
    /\ cpc = "publish" /\ RLockFree
    /\ roff' = coff /\ rtot' = rtot + view
    /\ view' = 0 /\ cleft' = cleft - view
    /\ SignalProducer
    /\ cpc' = IF cop \in BlockingOps THEN "test" ELSE "idle"
    /\ UNCHANGED <<data, woff, rdone, wdone, cop, coff,
                   pop, pleft, pn, poff, peof, wtot>>

CloseRead ==
    /\ cpc = "idle" /\ ~rdone /\ RLockFree
    /\ rdone' = TRUE
    /\ SignalProducer
    /\ UNCHANGED <<data, roff, woff, wdone, consumer,
                   pop, pleft, pn, poff, peof, rtot, wtot>>

-----------------------------------------------------------------------------
(* The producer.                                                            *)

(* After circbuf_close_write the client writes no more.                     *)
CallWrite(op, len) ==
    /\ ppc = "idle" /\ ~wdone
    /\ wtot + len <= MaxBytes
    /\ ppc' = IF op \in BlockingOps THEN "test" ELSE "load"
    /\ pop' = op /\ pleft' = len /\ peof' = FALSE
    /\ UNCHANGED <<buffer, consumer, pn, poff, rtot, wtot>>

(* The first test of rdone in circbuf_write and the loop condition.         *)
WriteTest ==
    /\ ppc = "test"
    /\ ppc' = IF pleft # 0 /\ ~rdone /\ ~peof THEN "check" ELSE "idle"
    /\ UNCHANGED <<buffer, consumer, pop, pleft, pn, poff, peof, rtot, wtot>>

(* Under rlock: sleep while there is no space and reading is open.          *)
WriteCheck ==
    /\ ppc = "check"
    /\ ppc' = IF IsFull /\ ~rdone THEN "wait" ELSE "retest"
    /\ UNCHANGED <<buffer, consumer, pop, pleft, pn, poff, peof, rtot, wtot>>

WriteWait ==
    /\ ppc = "wait"
    /\ ppc' = "waiting"
    /\ UNCHANGED <<buffer, consumer, pop, pleft, pn, poff, peof, rtot, wtot>>

WriteSpuriousWake ==
    /\ ppc = "waiting"
    /\ ppc' = "check"
    /\ UNCHANGED <<buffer, consumer, pop, pleft, pn, poff, peof, rtot, wtot>>

(* The test of rdone after the lock is released.                            *)
WriteRetest ==
    /\ ppc = "retest"
    /\ ppc' = IF rdone THEN "test" ELSE "load"
    /\ UNCHANGED <<buffer, consumer, pop, pleft, pn, poff, peof, rtot, wtot>>

(* circbuf_write_some freezes roff and computes the runs it will fill.      *)
WriteSomeLoad ==
    LET w == write_some_(roff, woff, pleft)
    IN  /\ ppc = "load"
        /\ ppc' = "fill" /\ pn' = w.n /\ poff' = w.off
        /\ UNCHANGED <<buffer, consumer, pop, pleft, peof, rtot, wtot>>

(* The second run copied from buf instead of buf + avail.                   *)
BugFillData(g) ==
    data' = [s \in Offsets |-> IF s \in Region(woff, g)
                                 THEN wtot + (IF s >= woff THEN s - woff ELSE s)
                                 ELSE data[s]]

(* g bytes of the stream, from the first one not yet published.             *)
FillData(g) ==
    data' = [s \in Offsets |-> IF s \in Region(woff, g)
                                 THEN wtot + Dist(woff, s) ELSE data[s]]

WriteSomeFill ==
    /\ ppc = "fill" /\ pop \notin CallbackOps
    /\ FillData(pn)
    /\ ppc' = "publish"
    /\ UNCHANGED <<roff, woff, rdone, wdone, consumer,
                   pop, pleft, pn, poff, peof, rtot, wtot>>

(* The number of bytes the callback delivered is not looked at.             *)
BugWriteSome2Fill ==
    /\ ppc = "fill" /\ pop \in CallbackOps
    /\ \E g \in 0 .. pn : FillData(g) /\ peof' = (g < pn)
    /\ ppc' = "publish"
    /\ UNCHANGED <<roff, woff, rdone, wdone, consumer, pop, pleft, pn, poff, rtot, wtot>>

(* write_some2_ asks the callback for the runs that write_some_ copies; it  *)
(* stops at the first run the callback does not fill and sets *eof.  g is   *)
(* the number of bytes the callback delivered in all.                       *)
WriteSome2Fill ==
    /\ ppc = "fill" /\ pop \in CallbackOps
    /\ \E g \in 0 .. pn :
         /\ FillData(g)
         /\ pn' = g /\ poff' = Wrap(woff + g) /\ peof' = (g < pn)
    /\ ppc' = "publish"
    /\ UNCHANGED <<roff, woff, rdone, wdone, consumer, pop, pleft, rtot, wtot>>

(* pthread_cond_signal(&cbuf->wcond): the woken consumer tests again.       *)
BugSignalConsumer == UNCHANGED cpc
SignalConsumer    == cpc' = IF cpc = "waiting" THEN "check" ELSE cpc

PublishWrite ==
    /\ ppc = "publish" /\ WLockFree
    /\ woff' = poff /\ wtot' = wtot + pn /\ pleft' = pleft - pn
    /\ pn' = 0
    /\ SignalConsumer
    /\ ppc' = IF pop \in BlockingOps THEN "test" ELSE "idle"
    /\ UNCHANGED <<data, roff, rdone, wdone, cop, cleft, coff, view,
                   pop, poff, peof, rtot>>

CloseWrite ==
    /\ ppc = "idle" /\ ~wdone /\ WLockFree
    /\ wdone' = TRUE
    /\ SignalConsumer
    /\ UNCHANGED <<data, roff, woff, rdone, cop, cleft, coff, view,
                   producer, rtot, wtot>>

BugReset ==
    /\ cpc = "idle" /\ ppc = "idle"
    /\ rdone' = FALSE /\ wdone' = FALSE /\ woff' = 0
    /\ view' = 0 /\ rtot' = wtot
    /\ UNCHANGED <<data, roff, cpc, cop, cleft, coff, producer, wtot>>

(* Legal only while neither client is in a call; the bytes still in the     *)
(* buffer are dropped.                                                      *)
Reset ==
    /\ cpc = "idle" /\ ppc = "idle"
    /\ rdone' = FALSE /\ wdone' = FALSE /\ woff' = 0 /\ roff' = 0
    /\ view' = 0 /\ rtot' = wtot
    /\ UNCHANGED <<data, cpc, cop, cleft, coff, producer, wtot>>

-----------------------------------------------------------------------------
ConsumerStep == ReadTest \/ ReadTestDone \/ ReadCheck \/ ReadWait
                \/ ReadSomeLoad \/ PublishRead

ProducerStep == WriteTest \/ WriteCheck \/ WriteWait \/ WriteRetest
                \/ WriteSomeLoad \/ WriteSomeFill \/ WriteSome2Fill
                \/ PublishWrite

Consume == \E len \in Lens : CallRead(len) \/ CallReadSome(len) \/ CallDisposeSome(len)
Inspect == \E len \in Lens : InputSome(len)
Supply  == \E op \in WriteOps, len \in Lens : CallWrite(op, len)

Next == \/ ConsumerStep \/ ReadSpuriousWake \/ Consume \/ Inspect \/ CloseRead
        \/ ProducerStep \/ WriteSpuriousWake \/ Supply \/ CloseWrite
        \/ Reset

Spec == Init /\ [][Next]_vars

(* A thread inside a call keeps running and does not wake spuriously for    *)
(* ever.  That a blocked call returns also needs its peer: the consumer     *)
(* keeps consuming or closes, the producer closes or, as long as reading is *)
(* open, keeps supplying bytes.                                             *)
Fairness ==
    /\ WF_vars(ConsumerStep) /\ WF_vars(ProducerStep)
    /\ <>[][~ReadSpuriousWake /\ ~WriteSpuriousWake]_vars
    /\ WF_vars(Consume \/ CloseRead)
    /\ SF_vars(\/ ~rdone /\ \E len \in Lens : CallWrite("write", len)
               \/ CloseWrite)

FairSpec == Spec /\ Fairness

-----------------------------------------------------------------------------
(* The struct and the two threads hold what their types and steps allow:    *)
(* the write offset is always wrapped, the read offset may rest at Size.    *)
TypeOK ==
    /\ data \in [Offsets -> Int]
    /\ roff \in 0 .. Size /\ woff \in Offsets
    /\ rdone \in BOOLEAN /\ wdone \in BOOLEAN
    /\ cpc \in {"idle", "test", "test_done", "check", "wait", "waiting", "load", "publish"}
    /\ cop \in ReadOps /\ cleft \in Nat /\ coff \in 0 .. Size /\ view \in 0 .. Capacity
    /\ ppc \in {"idle", "test", "check", "wait", "waiting", "retest", "load", "fill", "publish"}
    /\ pop \in WriteOps /\ pleft \in Nat /\ poff \in Offsets /\ pn \in 0 .. Capacity
    /\ peof \in BOOLEAN
    /\ rtot \in Nat /\ wtot \in Nat

(* The two offsets account for exactly the bytes published and not yet      *)
(* released, never more than the length given to circbuf_init: a full       *)
(* buffer is not mistaken for an empty one.                                 *)
Occupancy == circbuf_get_length(roff, woff) = wtot - rtot

(* The slots from the read offset on hold the next bytes of the stream, in  *)
(* order and once each, across wrap-arounds and whatever call put them      *)
(* there; so does every slot the consumer is copying or inspecting, which   *)
(* it owns.                                                                 *)
Contents ==
    /\ view <= wtot - rtot
    /\ \A s \in Region(roff, wtot - rtot) : data[s] = rtot + Dist(roff, s)

(* The two memcpys, which run without a lock, never touch a common slot.    *)
NoDataRace == Region(roff, view) \cap Region(woff, pn) = {}

(* A thread sleeps only while the other one still owes it a signal: there   *)
(* is no order of the unlocked tests, the locked ones and the signals in    *)
(* which bytes, space or a close arrive unnoticed.                          *)
NoMissedWakeup ==
    /\ cpc \in {"wait", "waiting"} => Empty /\ ~wdone
    /\ ppc \in {"wait", "waiting"} => IsFull /\ ~rdone

(* A call in progress works from an offset that may be out of date by now:  *)
(* it still moves its own offset over slots it owns, the producer's lie in  *)
(* what is free and, once copied, hold the next bytes of the stream.        *)
InFlight ==
    /\ cpc = "publish" => coff \in {roff + view, roff + view - Size} /\ view <= cleft
    /\ ppc \in {"fill", "publish"} =>
         poff \in {woff + pn, woff + pn - Size} /\ pn <= pleft
    /\ ppc \notin {"fill", "publish"} => pn = 0
    /\ pn <= Capacity - (wtot - rtot)
    /\ ppc = "publish" => \A s \in Region(woff, pn) : data[s] = wtot + Dist(woff, s)

(* A blocking call returns, given clients that go on or close.              *)
ReadReturns  == cpc # "idle" ~> cpc = "idle"
WriteReturns == ppc # "idle" ~> ppc = "idle"

(* The inductive invariant: each part relies on the others.                 *)
IInv == TypeOK /\ Occupancy /\ Contents /\ InFlight /\ NoMissedWakeup

(* The buffer is a bounded byte queue: what the consumer sees at roff, now  *)
(* and as long as it is looking, is the front of it.                        *)
Shown(n) == [i \in 1 .. n |-> data[Wrap(roff + i - 1)]]

Queue == INSTANCE ByteQueue WITH
            queue <- Shown(circbuf_get_length(roff, woff)), held <- Shown(view),
            next <- wtot, rclosed <- rdone, wclosed <- wdone
ImplementsQueue == Queue!Spec

=============================================================================
