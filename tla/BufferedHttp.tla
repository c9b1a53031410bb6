---------------------------- MODULE BufferedHttp ----------------------------
(***************************************************************************)
(* The buffered stream over an HTTP stream, as in the tests and the C++     *)
(* wrapper: SlBuffer with SlHttp as its inner stream.  A call of the inner  *)
(* stream takes as many steps as http.c does, while the user goes on.       *)
(*                                                                         *)
(* The thread at "write_first" or "write_fill" is in sl_http_read_cb, the   *)
(* one at "inner_seek" in sl_http_seek_cb; entering and leaving the inner   *)
(* call is one step with the step of buffer.c before and after it.          *)
(***************************************************************************)
EXTENDS Integers, Sequences

CONSTANTS FileLen, ChunkLen, PageLen, RangeSupport, LengthKnown, Faults,
          Capacity, StepSize, Lens, Offs

ASSUME ParameterAssumption ==
    /\ FileLen \in Nat /\ ChunkLen \in Nat \ {0} /\ PageLen \in Nat
    /\ RangeSupport \subseteq BOOLEAN /\ LengthKnown \in BOOLEAN
    /\ Faults \subseteq {"break", "page", "multi", "line"}
    /\ Capacity \in Nat \ {0} /\ StepSize \in Nat \ {0}
    /\ Lens \subseteq Nat \ {0} /\ Offs \subseteq Nat

VARIABLES
    http_off, http_len, http_status, http_range_allowed, curlbuf_off, state,
    outbuf, outbuf_size, range, ranged, phase, head, xoff, held, pc, target,
    ring, woff, rdone, wdone, filler, filler_started, pos, eof,
    seek_requested, seek_off, seek_result, fpc, fleft, fn, fgot, feof, cpc, cleft, out

(* The filler asks for what is free and in its step, in one call or two, of *)
(* which the second may ask for nothing.                                    *)
Http == INSTANCE SlHttp WITH Lens <- 0 .. Capacity

(* To the buffer an HTTP stream is an inner stream that may read short, and *)
(* whose seeks succeed.                                                     *)
Buffer == INSTANCE SlBuffer WITH
              ipos <- Http!ReadFrom,
              ReadMayFail <- TRUE, SeekMayFail <- FALSE, BlockingFill <- FALSE

bvars == <<ring, woff, rdone, wdone, filler, filler_started, pos, eof,
           seek_requested, seek_off, seek_result, fpc, fleft, fn, fgot, feof,
           cpc, cleft, out>>
hvars == <<http_off, http_len, http_status, http_range_allowed, curlbuf_off, state,
           outbuf, outbuf_size, range, ranged, phase, head, xoff, held, pc, target>>
vars  == <<hvars, bvars>>

Init == Http!Init /\ Buffer!Init

-----------------------------------------------------------------------------
OutsideHttp == UNCHANGED hvars

FillerLocal ==
    /\ OutsideHttp
    /\ \/ Buffer!FillerStart \/ Buffer!LoopTest \/ Buffer!LoopTestRequest
       \/ ~seek_requested /\ Buffer!TestRequest
       \/ Buffer!Serve \/ Buffer!WriteTest \/ Buffer!WriteWait \/ Buffer!WriteRetest
       \/ Buffer!CloseWriting \/ Buffer!EofCheck

FillerEntersSeek ==
    Http!CallSeek(seek_off) /\ seek_requested /\ Buffer!TestRequest

FillerLeavesSeek ==
    Http!Restart /\ seek_result' = 0 /\ Buffer!FillerSought

FillerEntersRead ==
    \E n \in 0 .. Capacity :
        /\ Http!CallRead(n)
        /\ Buffer!WriteLoad \/ Buffer!WriteRest
        /\ (Buffer!Asked)' = n

FillerLeavesRead ==
    (Http!ReadFull \/ Http!ReadShort) /\ Buffer!FillWith(outbuf)

(* Inside the inner call, of whichever thread.                              *)
HttpStep ==
    /\ Http!Perform \/ Http!Unpause \/ Http!MarkWorking
       \/ Http!CancelUnpause \/ Http!Cancelled
    /\ UNCHANGED bvars

(* A call of curl_multi fails, in a read or in the cancelling of a seek.    *)
HttpFault ==
    \/ Http!ReadError /\ Buffer!FillWith(outbuf)
    \/ Http!CancelError /\ UNCHANGED bvars

UserLocal ==
    /\ OutsideHttp
    /\ \/ Buffer!ReadTest \/ Buffer!ReadTestDone \/ Buffer!ReadFinish
       \/ Buffer!ReadWait \/ Buffer!ReadTake
       \/ Buffer!SeekClose \/ Buffer!SeekWaitAgain \/ Buffer!SeekFinish \/ Buffer!Join

UserLeavesSeek ==
    Http!Restart /\ seek_result' = 0 /\ Buffer!UserSought

UserCall ==
    \/ OutsideHttp /\ Buffer!StartFilling
    \/ OutsideHttp /\ (\E len \in Lens : Buffer!CallRead(len))
    \/ OutsideHttp /\ filler_started /\ (\E off \in Offs : Buffer!CallSeek(off))
    \/ ~filler_started /\ (\E off \in Offs : Http!CallSeek(off) /\ Buffer!CallSeek(off))
    \/ OutsideHttp /\ Buffer!Destroy

(* The owner destroys the buffer, then the stream under it.                 *)
CloseInner == cpc = "destroyed" /\ Http!Close /\ UNCHANGED bvars

Gone == pc = "closed" /\ UNCHANGED vars

SpuriousWake == OutsideHttp /\ (Buffer!FillerSpuriousWake \/ Buffer!UserSpuriousWake)

FillerStep == FillerLocal \/ FillerEntersSeek \/ FillerLeavesSeek
              \/ FillerEntersRead \/ FillerLeavesRead
UserStep   == UserLocal \/ UserLeavesSeek

Next == FillerStep \/ HttpStep \/ HttpFault \/ UserStep \/ UserCall \/ CloseInner \/ Gone
        \/ SpuriousWake

(* Both threads run, the server answers or the connection breaks, and       *)
(* nobody is woken spuriously for ever; calls of curl_multi need not fail.  *)
Spec == /\ Init /\ [][Next]_vars
        /\ WF_vars(FillerStep) /\ WF_vars(UserStep) /\ WF_vars(HttpStep)
        /\ <>[][~SpuriousWake]_vars

-----------------------------------------------------------------------------
(* http.c keeps every promise that SlBuffer assumes of an inner stream, so  *)
(* that what holds of SlBuffer holds of the two together: between the two   *)
(* ends of a call the bytes and the position change at once, as seen from   *)
(* the buffer, in spite of pauses, aborts and a user that seeks meanwhile.  *)
ImplementsBuffer == Buffer!Spec

(* A transfer paused for want of space in the buffer does not keep a read,  *)
(* a seek or the destruction from ending.                                   *)
ReadReturns    == Buffer!ReadReturns
SeekReturns    == Buffer!SeekReturns
DestroyReturns == Buffer!DestroyReturns

(* The inner stream is closed only when no thread will use it again.        *)
InnerOutlivesFiller == pc = "closed" => fpc \in {"none", "exited"}

=============================================================================
