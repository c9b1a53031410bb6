------------------------------ MODULE SlBuffer ------------------------------
(***************************************************************************)
(* buffer.c: a stream that reads ahead.  A filler thread copies the inner   *)
(* stream into a circular buffer; the user's thread reads from the buffer,  *)
(* seeks by handing the request to the filler, and destroys.                *)
(*                                                                         *)
(* The circular buffer is the byte queue that CircBuf implements, together  *)
(* with the two unlocked flags and the tests of them that circbuf_read and  *)
(* circbuf_write2 make between their accesses to the queue; a wait for      *)
(* bytes or space is a guard, since CircBuf shows that no wakeup is lost.   *)
(* seek_lock is explicit: a section under it is split wherever the other    *)
(* thread can observe an intermediate state without the lock.               *)
(*                                                                         *)
(* The inner stream is external (the code calls it through sl_read and      *)
(* sl_seek): a file of FileLen bytes, the byte at offset o being o, with    *)
(* short reads and failing seeks where the constants allow them.            *)
(*                                                                         *)
(* An operator whose name starts with Bug is a mutated form of the          *)
(* definition that follows it; no specification uses it.                    *)
(***************************************************************************)
EXTENDS Integers, Sequences

CONSTANTS FileLen, Capacity, StepSize, Lens, Offs,
          SeekMayFail,    \* sl_seek of the inner stream may fail
          ReadMayFail,    \* sl_read of the inner stream may stop short
          BlockingFill    \* the filler may run in a thread of the user

ASSUME ParameterAssumption ==
    /\ FileLen \in Nat /\ Capacity \in Nat \ {0} /\ StepSize \in Nat \ {0}
    /\ Lens \subseteq Nat \ {0} /\ Offs \subseteq Nat
    /\ {SeekMayFail, ReadMayFail, BlockingFill} \subseteq BOOLEAN

VARIABLES
    ipos,                               \* position of the inner stream
    ring, woff, rdone, wdone,           \* the circular buffer, where it is filled
    filler, filler_started, pos, eof,   \* struct sl_buffer_s
    seek_requested, seek_off, seek_result,
    fpc, fleft, fn, fgot, feof,         \* the filler and its circbuf_write2
    cpc, cleft, out                     \* the user, its read, the bytes it got

circbuf == <<ring, woff, rdone, wdone>>
stream  == <<filler, filler_started, pos, eof>>
seek    == <<seek_requested, seek_off, seek_result>>
write2  == <<fleft, fn, fgot, feof>>
fill    == <<fpc, write2>>
user    == <<cpc, cleft, out>>
vars    == <<ipos, circbuf, stream, seek, fill, user>>

Reading == {"read_test", "read_done", "read_wait", "read_take"}
Seeking == {"inner_seek", "seek_close", "seek_wait", "seek_woken"}

(* seek_lock is held across steps only here.                                *)
BugSeekLockFree == TRUE
SeekLockFree    == cpc \notin {"inner_seek", "seek_close"} /\ fpc # "eof_check"

SmallerOf(a, b) == IF a <= b THEN a ELSE b

Init ==
    /\ ipos = 0
    /\ ring = <<>> /\ woff = 0 /\ rdone = FALSE /\ wdone = FALSE
    /\ filler = FALSE /\ filler_started = FALSE /\ pos = 0 /\ eof = FALSE
    /\ seek_requested = FALSE /\ seek_off = 0 /\ seek_result = 0
    /\ fpc = "none" /\ fleft = 0 /\ fn = 0 /\ fgot = <<>> /\ feof = FALSE
    /\ cpc = "idle" /\ cleft = 0 /\ out = <<>>

(* sl_seek(inner_stream, seek_off, SL_SEEK_SET)                             *)
SeekInner ==
    \/ seek_result' = 0 /\ ipos' = seek_off
    \/ SeekMayFail /\ seek_result' = -1 /\ UNCHANGED ipos

-----------------------------------------------------------------------------
(* The filler: fill_buffer.                                                 *)

FillerStart ==
    /\ fpc = "start" /\ SeekLockFree
    /\ filler_started' = TRUE /\ fpc' = "loop"
    /\ UNCHANGED <<ipos, circbuf, filler, pos, eof, seek, write2, user>>

(* The loop condition loads rdone, then seek_requested.                     *)
LoopTest ==
    /\ fpc = "loop"
    /\ fpc' = IF rdone THEN "loop_request" ELSE "request"
    /\ UNCHANGED <<ipos, circbuf, stream, seek, write2, user>>

LoopTestRequest ==
    /\ fpc = "loop_request"
    /\ fpc' = IF seek_requested THEN "request" ELSE "exited"
    /\ UNCHANGED <<ipos, circbuf, stream, seek, write2, user>>

CallWrite2 ==
    fpc' = "write_test" /\ fleft' = StepSize /\ feof' = FALSE /\ UNCHANGED <<fn, fgot>>

TestRequest ==
    /\ fpc = "request"
    /\ IF seek_requested THEN fpc' = "inner_seek" /\ UNCHANGED write2
                         ELSE CallWrite2
    /\ UNCHANGED <<ipos, circbuf, stream, seek, user>>

FillerSought ==
    /\ fpc = "inner_seek"
    /\ fpc' = "serve"
    /\ UNCHANGED <<circbuf, stream, seek_requested, seek_off, write2, user>>

FillerSeek == SeekInner /\ FillerSought

(* pthread_cond_signal(seek_cond), by either side                           *)
BugSignalUser == UNCHANGED cpc
SignalUser    == cpc' = IF cpc = "seek_wait" THEN "seek_woken" ELSE cpc

BugSignalFiller == UNCHANGED fpc
SignalFiller    == fpc' = IF fpc = "eof_wait" THEN "eof_woken" ELSE fpc

circbuf_reset == rdone' = FALSE /\ wdone' = FALSE /\ ring' = <<>> /\ woff' = 0

(* The buffered bytes are dropped only if the inner stream has moved.       *)
BugAnswer == circbuf_reset
Answer    == IF seek_result = 0 THEN circbuf_reset ELSE UNCHANGED circbuf

Serve ==
    /\ fpc = "serve" /\ SeekLockFree
    /\ Answer
    /\ seek_requested' = FALSE
    /\ SignalUser
    /\ CallWrite2
    /\ UNCHANGED <<ipos, stream, seek_off, seek_result, cleft, out>>

BugWriteTest ==
    /\ fpc = "write_test"
    /\ fpc' = IF fleft # 0 /\ ~rdone /\ ~feof THEN "write_wait" ELSE "close"
    /\ UNCHANGED <<ipos, circbuf, stream, seek, write2, user>>

(* circbuf_write2: the loop condition, and the length test of its caller.   *)
WriteTest ==
    /\ fpc = "write_test"
    /\ fpc' = IF fleft = 0 THEN "loop"
              ELSE IF rdone \/ feof THEN "close" ELSE "write_wait"
    /\ UNCHANGED <<ipos, circbuf, stream, seek, write2, user>>

WriteWait ==
    /\ fpc = "write_wait"
    /\ Len(ring) < Capacity \/ rdone
    /\ fpc' = "write_retest"
    /\ UNCHANGED <<ipos, circbuf, stream, seek, write2, user>>

WriteRetest ==
    /\ fpc = "write_retest"
    /\ fpc' = IF rdone THEN "write_test" ELSE "write_load"
    /\ UNCHANGED <<ipos, circbuf, stream, seek, write2, user>>

(* write_some2_ has its callback fill the free slots up to the end of the   *)
(* storage, which has Capacity + 1 of them, and then those at its beginning.*)
(* It makes the second call whenever the first one reaches the end and the  *)
(* oldest byte is not in the first slot, even for 0 bytes.  Both lengths are*)
(* fixed here; fn is what the calls still to be made ask for.               *)
FirstRun == Capacity + 1 - woff
TwoRuns  == Len(ring) < woff /\ FirstRun <= fleft

BugWriteLoad ==
    /\ fpc = "write_load"
    /\ fn' = fleft
    /\ fpc' = IF TwoRuns THEN "write_first" ELSE "write_fill"
    /\ UNCHANGED <<ipos, circbuf, stream, seek, fleft, fgot, feof, user>>

WriteLoad ==
    /\ fpc = "write_load"
    /\ fn' = SmallerOf(Capacity - Len(ring), fleft)
    /\ fpc' = IF TwoRuns THEN "write_first" ELSE "write_fill"
    /\ UNCHANGED <<ipos, circbuf, stream, seek, fleft, fgot, feof, user>>

Asked == IF fpc = "write_first" THEN FirstRun ELSE fn

(* filler_cb: sl_read of the inner stream, straight into the free slots.    *)
InnerReads(n) ==
    LET left == IF ipos >= FileLen THEN 0 ELSE FileLen - ipos
        full == SmallerOf(n, left)
    IN  IF ReadMayFail THEN 0 .. full ELSE {full}

(* The first of two calls has filled its run; nobody sees the bytes yet.    *)
KeepFirst(bytes) ==
    /\ fpc = "write_first" /\ Len(bytes) = Asked
    /\ fgot' = bytes /\ fn' = fn - Asked
    /\ fpc' = "write_rest"
    /\ UNCHANGED <<ring, woff, fleft, feof>>

WriteRest ==
    /\ fpc = "write_rest"
    /\ fpc' = "write_fill"
    /\ UNCHANGED <<ipos, circbuf, stream, seek, write2, user>>

Wrap(off) == IF off > Capacity THEN off - (Capacity + 1) ELSE off

(* Of two calls, only what the last one has read.                           *)
BugPublish(bytes) ==
    /\ fpc = "write_fill" \/ (fpc = "write_first" /\ Len(bytes) < Asked)
    /\ ring' = ring \o bytes
    /\ woff' = Wrap(woff + Len(bytes))
    /\ fleft' = fleft - Len(bytes)
    /\ feof' = (Len(bytes) < Asked)
    /\ fgot' = <<>> /\ fn' = 0 /\ fpc' = "write_test"

(* The last call, or the first one stopped short: circbuf_write_some2       *)
(* publishes the new offset, and with it what both calls have read.         *)
Publish(bytes) ==
    /\ fpc = "write_fill" \/ (fpc = "write_first" /\ Len(bytes) < Asked)
    /\ LET all == fgot \o bytes
       IN  /\ ring' = ring \o all
           /\ woff' = Wrap(woff + Len(all))
           /\ fleft' = fleft - Len(all)
    /\ feof' = (Len(bytes) < Asked)
    /\ fgot' = <<>> /\ fn' = 0 /\ fpc' = "write_test"

FillWith(bytes) ==
    /\ KeepFirst(bytes) \/ Publish(bytes)
    /\ UNCHANGED <<rdone, wdone, stream, seek, user>>

WriteFill ==
    \E g \in InnerReads(Asked) :
        FillWith([i \in 1 .. g |-> ipos + i - 1]) /\ ipos' = ipos + g

BugCloseWrite       == UNCHANGED wdone
circbuf_close_write == wdone' = TRUE

(* End of file or error: no more bytes.  seek_lock stays held.              *)
CloseWriting ==
    /\ fpc = "close" /\ SeekLockFree
    /\ circbuf_close_write /\ fpc' = "eof_check"
    /\ UNCHANGED <<ipos, ring, woff, rdone, stream, seek, write2, user>>

(* Sleeping at least once, without a test before.                           *)
BugEofCheck ==
    /\ fpc = "eof_check" \/ (fpc = "eof_woken" /\ SeekLockFree)
    /\ fpc' = IF fpc = "eof_woken" /\ rdone THEN "loop" ELSE "eof_wait"
    /\ UNCHANGED <<ipos, circbuf, stream, seek, write2, user>>

(* Sleep until the user seeks or destroys, both of which close the read end.*)
EofCheck ==
    /\ fpc = "eof_check" \/ (fpc = "eof_woken" /\ SeekLockFree)
    /\ fpc' = IF rdone THEN "loop" ELSE "eof_wait"
    /\ UNCHANGED <<ipos, circbuf, stream, seek, write2, user>>

FillerSpuriousWake ==
    /\ fpc = "eof_wait"
    /\ fpc' = "eof_woken"
    /\ UNCHANGED <<ipos, circbuf, stream, seek, write2, user>>

FillerStep ==
    \/ FillerStart \/ LoopTest \/ LoopTestRequest \/ TestRequest \/ FillerSeek \/ Serve
    \/ WriteTest \/ WriteWait \/ WriteRetest \/ WriteLoad \/ WriteRest \/ WriteFill
    \/ CloseWriting \/ EofCheck

-----------------------------------------------------------------------------
(* The user's thread.                                                       *)

(* sl_buffer_threaded_fill_buffer; it refuses a second filler.              *)
StartFilling ==
    /\ cpc = "idle" /\ ~filler /\ fpc = "none"
    /\ filler' = TRUE /\ fpc' = "start"
    /\ UNCHANGED <<ipos, circbuf, filler_started, pos, eof, seek, write2, user>>

(* sl_buffer_blocking_fill_buffer, called by another thread of the user at  *)
(* any time, also once more after it has returned.                          *)
StartBlockingFill ==
    /\ BlockingFill /\ cpc \notin {"join", "destroyed"} /\ fpc \in {"none", "exited"}
    /\ fpc' = "start"
    /\ UNCHANGED <<ipos, circbuf, stream, seek, write2, user>>

(* A read before filling has begun waits for another thread to begin it;    *)
(* without one the user would wait for itself.                              *)
CallRead(len) ==
    /\ cpc = "idle" /\ (fpc # "none" \/ BlockingFill)
    /\ cpc' = "read_test" /\ cleft' = len /\ out' = <<>>
    /\ UNCHANGED <<ipos, circbuf, stream, seek, fill>>

(* sl_buffer_read_cb after circbuf_read                                     *)
ReadReturn ==
    /\ cpc' = "idle" /\ cleft' = 0
    /\ pos' = pos + Len(out)
    /\ eof' = (eof \/ cleft # 0)
    /\ UNCHANGED <<ipos, circbuf, filler, filler_started, seek, fill, out>>

(* The condition of circbuf_read loads the offsets, then wdone, unlocked.   *)
ReadTest ==
    /\ cpc = "read_test" /\ cleft # 0
    /\ cpc' = IF ring = <<>> THEN "read_done" ELSE "read_wait"
    /\ UNCHANGED <<ipos, circbuf, stream, seek, fill, cleft, out>>

ReadTestDone ==
    /\ cpc = "read_done" /\ ~wdone
    /\ cpc' = "read_wait"
    /\ UNCHANGED <<ipos, circbuf, stream, seek, fill, cleft, out>>

ReadFinish ==
    /\ \/ cpc = "read_test" /\ cleft = 0
       \/ cpc = "read_done" /\ wdone
    /\ ReadReturn

ReadWait ==
    /\ cpc = "read_wait"
    /\ ring # <<>> \/ wdone
    /\ cpc' = "read_take"
    /\ UNCHANGED <<ipos, circbuf, stream, seek, fill, cleft, out>>

(* The buffer is asked for less than it holds, but gives up all of it.      *)
BugTaken(n) == ring' = <<>>
Taken(n)    == ring' = SubSeq(ring, n + 1, Len(ring))

ReadTake ==
    LET n == SmallerOf(Len(ring), cleft)
    IN  /\ cpc = "read_take"
        /\ out' = out \o SubSeq(ring, 1, n)
        /\ Taken(n)
        /\ cleft' = cleft - n /\ cpc' = "read_test"
        /\ UNCHANGED <<ipos, woff, rdone, wdone, stream, seek, fill>>

(* sl_buffer_seek_cb up to circbuf_close_read; seek_lock stays held.        *)
CallSeek(off) ==
    /\ cpc = "idle" /\ SeekLockFree
    /\ seek_off' = off /\ out' = <<>>
    /\ IF filler_started THEN seek_requested' = TRUE /\ cpc' = "seek_close"
                         ELSE cpc' = "inner_seek" /\ UNCHANGED seek_requested
    /\ UNCHANGED <<ipos, circbuf, stream, seek_result, fill, cleft>>

(* Both kinds of seek end by looking at seek_result.                        *)
SeekReturn(result) ==
    /\ cpc' = "idle"
    /\ IF result = 0 THEN pos' = seek_off /\ eof' = FALSE
                     ELSE UNCHANGED <<pos, eof>>
    /\ UNCHANGED <<circbuf, filler, filler_started, seek_requested, seek_off,
                   fill, cleft, out>>

(* The filler has not started: the user seeks, still holding seek_lock.     *)
UserSought == cpc = "inner_seek" /\ SeekReturn(seek_result')

UserSeek == SeekInner /\ UserSought

(* circbuf_close_read, the signal, and the wait that releases seek_lock:    *)
(* seek_requested is still set, since the filler clears it under the lock.  *)
SeekClose ==
    /\ cpc = "seek_close"
    /\ rdone' = TRUE
    /\ SignalFiller
    /\ cpc' = "seek_wait"
    /\ UNCHANGED <<ipos, ring, woff, wdone, stream, seek, write2, cleft, out>>

UserSpuriousWake ==
    /\ cpc = "seek_wait"
    /\ cpc' = "seek_woken"
    /\ UNCHANGED <<ipos, circbuf, stream, seek, fill, cleft, out>>

SeekWaitAgain ==
    /\ cpc = "seek_woken" /\ SeekLockFree /\ seek_requested
    /\ cpc' = "seek_wait"
    /\ UNCHANGED <<ipos, circbuf, stream, seek, fill, cleft, out>>

SeekFinish ==
    /\ cpc = "seek_woken" /\ SeekLockFree /\ ~seek_requested
    /\ SeekReturn(seek_result)
    /\ UNCHANGED <<ipos, seek_result>>

(* sl_buffer_destroy: close the read end and wake the filler, then join it. *)
Destroy ==
    /\ cpc = "idle"
    /\ IF filler THEN SeekLockFree /\ rdone' = TRUE /\ SignalFiller /\ cpc' = "join"
                 ELSE cpc' = "destroyed" /\ UNCHANGED <<rdone, fpc>>
    /\ UNCHANGED <<ipos, ring, woff, wdone, stream, seek, write2, cleft, out>>

BugJoinable == cpc = "join"
Joinable    == cpc = "join" /\ fpc = "exited"

Join ==
    /\ Joinable
    /\ filler' = FALSE /\ cpc' = "destroyed"
    /\ UNCHANGED <<ipos, circbuf, filler_started, pos, eof, seek, fill, cleft, out>>

(* The stream is gone; only a filler nobody joined goes on.                 *)
Gone == cpc = "destroyed" /\ UNCHANGED vars

UserStep ==
    \/ ReadTest \/ ReadTestDone \/ ReadFinish \/ ReadWait \/ ReadTake
    \/ UserSeek \/ SeekClose \/ SeekWaitAgain \/ SeekFinish \/ Join

UserCall ==
    \/ StartFilling \/ StartBlockingFill
    \/ \E len \in Lens : CallRead(len)
    \/ \E off \in Offs : CallSeek(off)
    \/ Destroy

Next == FillerStep \/ FillerSpuriousWake \/ UserStep \/ UserSpuriousWake
        \/ UserCall \/ Gone

Spec == Init /\ [][Next]_vars

(* Both threads keep running inside their calls and are not woken           *)
(* spuriously for ever.                                                     *)
Fairness ==
    /\ WF_vars(FillerStep) /\ WF_vars(UserStep)
    /\ <>[][~FillerSpuriousWake /\ ~UserSpuriousWake]_vars

FairSpec == Spec /\ Fairness

-----------------------------------------------------------------------------
(* The buffer never holds more than it was created for, and every other     *)
(* variable stays in its range.                                             *)
TypeOK ==
    /\ ipos \in Nat
    /\ ring \in Seq(Nat) /\ fgot \in Seq(Nat) /\ woff \in 0 .. Capacity
    /\ Len(ring) + Len(fgot) + fn <= Capacity
    /\ {rdone, wdone, filler, filler_started, eof, seek_requested, feof} \subseteq BOOLEAN
    /\ pos \in Nat /\ seek_off \in Offs \cup {0} /\ seek_result \in {0, -1}
    /\ fpc \in {"none", "start", "loop", "loop_request", "request", "inner_seek",
                "serve", "write_test", "write_wait", "write_retest", "write_load",
                "write_first", "write_rest", "write_fill", "close", "eof_check",
                "eof_wait", "eof_woken", "exited"}
    /\ fleft \in 0 .. StepSize /\ fn \in Nat
    /\ cpc \in Reading \cup Seeking \cup {"idle", "join", "destroyed"}
    /\ cleft \in Nat /\ out \in Seq(Nat)

(* Whenever the user is not in a seek, the buffered bytes, and after them   *)
(* those about to be published, are exactly the ones between its position   *)
(* and the inner stream's, even after seeks that caught the filler anywhere *)
(* in its loop, or failed.                                                  *)
Front == IF cpc \in Reading THEN pos + Len(out) ELSE pos

InOrder ==
    cpc \notin Seeking /\ fpc # "serve" =>
        LET ahead == ring \o fgot
        IN  /\ \A i \in 1 .. Len(ahead) : ahead[i] = Front + i - 1
            /\ ipos = Front + Len(ahead)

(* The two threads never use the inner stream at the same time.             *)
InnerExclusive == ~(cpc = "inner_seek" /\ fpc \in {"inner_seek", "write_first", "write_fill"})

(* circbuf.h:62 forbids circbuf_reset while a client is in a call: the      *)
(* filler resets only while the user sleeps in its seek.                    *)
ResetIsAlone ==
    [][fpc = "serve" /\ fpc' # "serve" => cpc \in {"seek_wait", "seek_woken"}]_vars

(* Neither side sleeps on seek_cond past the event it waits for, and the    *)
(* filler does not leave with a request pending unless a seek failed.       *)
NoMissedRequest ==
    /\ fpc = "eof_wait" => ~rdone
    /\ cpc = "seek_wait" => seek_requested
    /\ fpc = "exited" /\ seek_requested => seek_result = -1

(* End of file is reported only after the inner stream has come to its end. *)
EofIsEarned == eof /\ cpc \notin Seeking => ipos >= FileLen

(* sl_buffer_destroy frees what the filler uses only once it is gone.       *)
NoUseAfterFree == cpc = "destroyed" => fpc \in {"none", "exited"}

(* A seek is answered, a read gets its bytes or the end of file, and        *)
(* destroying ends, wherever the call finds the filler.                     *)
SeekReturns    == cpc \in Seeking ~> cpc = "idle"
ReadReturns    == cpc \in Reading ~> cpc = "idle"
DestroyReturns == cpc = "join" ~> cpc = "destroyed"

(* To its user the buffer is a seekable stream over the same file.          *)
Stream == INSTANCE SeekableStream WITH
             out <- IF cpc \in Reading THEN <<>> ELSE out
ImplementsStream == Stream!Spec

(* check_streamlike_buffer.c:150: a read returns what it was asked for, or  *)
(* has reached the end of the data.                                         *)
ShortReadIsEnd ==
    [][(cpc \in Reading /\ cpc' = "idle") => (cleft = 0 \/ pos' >= FileLen)]_vars

=============================================================================
