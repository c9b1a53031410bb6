------------------------- MODULE BufferedHttpProofs -------------------------
(***************************************************************************)
(* The theorems about a buffer over an HTTP stream: it uses the HTTP stream *)
(* as a single caller would, and its two threads work together whatever the *)
(* server sends.  If the server honours ranges and sends the resource only, *)
(* http.c is an inner stream as SlBuffer assumes it, so that every theorem  *)
(* about SlBuffer with a threaded filler holds of the two together.         *)
(*                                                                         *)
(* The invariant is the protocol between the two: whose turn it is in the   *)
(* inner stream, and with which argument it was called (Turns), and which   *)
(* thread may enter it (Owners).  Nothing of the bytes is proved again:     *)
(* HttpFacts are theorems of SlHttpProofs.                                  *)
(*                                                                         *)
(* HP and BP are the theorems about SlHttp and SlBuffer for the instances   *)
(* Http and Buffer of BufferedHttp.  Each has definitions of its own; they  *)
(* are the same formulas under another name, as SameHttp and SameBuffer say.*)
(***************************************************************************)
EXTENDS BufferedHttp, TLAPS

HP == INSTANCE SlHttpProofs WITH Lens <- 0 .. Capacity

BP == INSTANCE SlBufferProofs WITH
          ipos <- Http!ReadFrom,
          ReadMayFail <- TRUE, SeekMayFail <- FALSE, BlockingFill <- FALSE

(* Http and HP are one specification.                                       *)
LEMMA SameHttp == /\ Http!Init <=> HP!Init
                  /\ [Http!Next]_(Http!vars) <=> [HP!Next]_(HP!vars)
<1>1. Http!Init <=> HP!Init
  BY DEF Http!Init, HP!Init, Http!NoRange, HP!NoRange
<1>2. Http!vars = HP!vars
  BY DEF Http!vars, HP!vars, Http!meta, HP!meta, Http!buffers, HP!buffers, Http!options,
     HP!options, Http!transfer, HP!transfer
<1>3. Http!Next <=> HP!Next
  BY
     DEF Http!Next, HP!Next, Http!Perform, HP!Perform, Http!Performing, HP!Performing,
         Http!StatusLine, HP!StatusLine, Http!HeaderLine, HP!HeaderLine, Http!DeliverChunk,
         HP!DeliverChunk, Http!EndTransfer, HP!EndTransfer, Http!WriteCb, HP!WriteCb,
         Http!Statuses, HP!Statuses, Http!FullHeaders, HP!FullHeaders, Http!Line, HP!Line,
         Http!PartialHeaders, HP!PartialHeaders, Http!AcceptRanges, HP!AcceptRanges,
         Http!TellsLength, HP!TellsLength, Http!RangeAllowed, HP!RangeAllowed, Http!Running,
         HP!Running, Http!BodyLen, HP!BodyLen, Http!BodyAt, HP!BodyAt, Http!OnPage, HP!OnPage,
         Http!Aborting, HP!Aborting, Http!Abort, HP!Abort, Http!TakeRest, HP!TakeRest,
         Http!TakeAndPause, HP!TakeAndPause, Http!Advance, HP!Advance, Http!NoRange, HP!NoRange,
         Http!ReadStep, HP!ReadStep, Http!Unpause, HP!Unpause, Http!MarkWorking, HP!MarkWorking,
         Http!MayBeWorking, HP!MayBeWorking, Http!ReadFull, HP!ReadFull, Http!ReadShort,
         HP!ReadShort, Http!Over, HP!Over, Http!ReadError, HP!ReadError, Http!SeekStep,
         HP!SeekStep, Http!CancelUnpause, HP!CancelUnpause, Http!Cancelled, HP!Cancelled,
         Http!CancelError, HP!CancelError, Http!LeaveCancel, HP!LeaveCancel, Http!Restart,
         HP!Restart, Http!ForgetChunk, HP!ForgetChunk, Http!AddHandle, HP!AddHandle,
         Http!CallRead, HP!CallRead, Http!CallSeek, HP!CallSeek, Http!Idle, HP!Idle, Http!Reads,
         HP!Reads, Http!Seeks, HP!Seeks, Http!SeekRefused, HP!SeekRefused, Http!Close, HP!Close,
         Http!Closed, HP!Closed, Http!NoTotal, HP!NoTotal, Http!Totals, HP!Totals,
         Http!vars, HP!vars, Http!meta, HP!meta, Http!options, HP!options, Http!buffers,
         HP!buffers, Http!transfer, HP!transfer
<1>4. Http!vars' = HP!vars'
  BY DEF Http!vars, HP!vars, Http!meta, HP!meta, Http!buffers, HP!buffers, Http!options,
     HP!options, Http!transfer, HP!transfer
<1> QED BY <1>1, <1>2, <1>3, <1>4

(* Buffer and BP are one specification.                                     *)
LEMMA SameBuffer == /\ Buffer!Init <=> BP!Init
                    /\ [Buffer!Next]_(Buffer!vars) <=> [BP!Next]_(BP!vars)
<1>1. Buffer!Init <=> BP!Init
  BY DEF Buffer!Init, BP!Init
<1>3. Buffer!Next <=> BP!Next
  BY
     DEF Buffer!Next, BP!Next, Buffer!FillerStep, BP!FillerStep, Buffer!FillerStart,
        BP!FillerStart, Buffer!LoopTest, BP!LoopTest, Buffer!LoopTestRequest,
        BP!LoopTestRequest, Buffer!TestRequest, BP!TestRequest, Buffer!CallWrite2,
        BP!CallWrite2, Buffer!FillerSeek, BP!FillerSeek, Buffer!SeekInner, BP!SeekInner,
        Buffer!FillerSought, BP!FillerSought, Buffer!Serve, BP!Serve, Buffer!Answer,
        BP!Answer, Buffer!circbuf_reset, BP!circbuf_reset, Buffer!SignalUser,
        BP!SignalUser, Buffer!WriteTest, BP!WriteTest, Buffer!WriteWait, BP!WriteWait,
        Buffer!WriteRetest, BP!WriteRetest, Buffer!WriteLoad, BP!WriteLoad,
        Buffer!TwoRuns, BP!TwoRuns, Buffer!FirstRun, BP!FirstRun, Buffer!Asked, BP!Asked,
        Buffer!WriteRest, BP!WriteRest, Buffer!KeepFirst, BP!KeepFirst, Buffer!Publish,
        BP!Publish, Buffer!Wrap, BP!Wrap,
        Buffer!SmallerOf, BP!SmallerOf, Buffer!WriteFill, BP!WriteFill, Buffer!InnerReads,
        BP!InnerReads, Buffer!FillWith, BP!FillWith, Buffer!CloseWriting, BP!CloseWriting,
        Buffer!circbuf_close_write, BP!circbuf_close_write, Buffer!EofCheck, BP!EofCheck,
        Buffer!FillerSpuriousWake, BP!FillerSpuriousWake, Buffer!UserStep, BP!UserStep,
        Buffer!ReadTest, BP!ReadTest, Buffer!ReadTestDone, BP!ReadTestDone,
        Buffer!ReadFinish, BP!ReadFinish, Buffer!ReadReturn, BP!ReadReturn,
        Buffer!ReadWait, BP!ReadWait, Buffer!ReadTake, BP!ReadTake, Buffer!Taken, BP!Taken,
        Buffer!UserSeek, BP!UserSeek, Buffer!UserSought, BP!UserSought, Buffer!SeekReturn,
        BP!SeekReturn, Buffer!SeekClose, BP!SeekClose, Buffer!SignalFiller,
        BP!SignalFiller, Buffer!SeekWaitAgain, BP!SeekWaitAgain, Buffer!SeekFinish,
        BP!SeekFinish, Buffer!Join, BP!Join, Buffer!Joinable, BP!Joinable,
        Buffer!UserSpuriousWake, BP!UserSpuriousWake, Buffer!UserCall, BP!UserCall,
        Buffer!StartFilling, BP!StartFilling, Buffer!StartBlockingFill,
        BP!StartBlockingFill, Buffer!CallRead, BP!CallRead, Buffer!CallSeek, BP!CallSeek,
        Buffer!Destroy, BP!Destroy, Buffer!SeekLockFree, BP!SeekLockFree, Buffer!Reading,
        BP!Reading, Buffer!Seeking, BP!Seeking, Buffer!Gone, BP!Gone, Buffer!vars, BP!vars,
        Buffer!circbuf, BP!circbuf, Buffer!stream, BP!stream, Buffer!seek, BP!seek,
        Buffer!fill, BP!fill, Buffer!write2, BP!write2, Buffer!user, BP!user
<1>4. Buffer!vars' = BP!vars' /\ Buffer!vars = BP!vars
  BY DEF Buffer!vars, BP!vars, Buffer!circbuf, BP!circbuf, Buffer!stream, BP!stream,
     Buffer!seek, BP!seek, Buffer!fill, BP!fill, Buffer!write2, BP!write2, Buffer!user, BP!user
<1> QED BY <1>1, <1>3, <1>4

-----------------------------------------------------------------------------
(* Whose turn it is in the inner stream: http.c is in a read exactly while  *)
(* the filler waits for one, with the same length, and in a seek exactly    *)
(* while one of the two waits for one, with the same offset; which of them  *)
(* seeks is decided by filler_started.                                      *)
Turns ==
    /\ fpc \in {"write_first", "write_fill"} <=> Http!InRead
    /\ fpc = "inner_seek" \/ cpc = "inner_seek" <=> Http!InSeek
    /\ Http!InRead => outbuf_size = Buffer!Asked
    /\ Http!InSeek => target = seek_off
    /\ pc = "closed" => cpc = "destroyed"

Owners ==
    /\ fpc \notin {"none", "start"} => filler_started
    /\ cpc = "inner_seek" => ~filler_started
    /\ ~filler => fpc \in {"none", "exited"}
    /\ cpc = "destroyed" => ~filler
    /\ fpc \in {"inner_seek", "serve"} => seek_requested
    /\ seek_requested => cpc \in {"seek_close", "seek_wait", "seek_woken"}
    /\ seek_requested \/ cpc = "inner_seek" => seek_off \in Offs

(* Only the filler enters the inner stream once filling has started, and    *)
(* only for a request of a user that waits.                                 *)
LEMMA OwnersHold == Owners /\ [Next]_vars => Owners'
<1> SUFFICES ASSUME Owners, [Next]_vars PROVE Owners' OBVIOUS
<1> USE DEF Owners, Buffer!circbuf, Buffer!stream, Buffer!seek, Buffer!fill, Buffer!write2, Buffer!user
<1>1. CASE FillerLocal
  BY <1>1 DEF FillerLocal, Buffer!FillerStart, Buffer!LoopTest, Buffer!LoopTestRequest,
     Buffer!TestRequest, Buffer!CallWrite2, Buffer!Serve, Buffer!SignalUser,
     Buffer!WriteTest, Buffer!WriteWait, Buffer!WriteRetest, Buffer!CloseWriting,
     Buffer!EofCheck, Buffer!SeekLockFree
<1>2. CASE FillerEntersSeek
  BY <1>2 DEF FillerEntersSeek, Buffer!TestRequest, Buffer!CallWrite2
<1>3. CASE FillerLeavesSeek
  BY <1>3 DEF FillerLeavesSeek, Buffer!FillerSought
<1>4. CASE FillerEntersRead
  BY <1>4 DEF FillerEntersRead, Buffer!WriteLoad, Buffer!WriteRest
<1>5. CASE FillerLeavesRead
  BY <1>5 DEF FillerLeavesRead, Buffer!FillWith, Buffer!KeepFirst, Buffer!Publish
<1>6. CASE HttpStep
  BY <1>6 DEF HttpStep, bvars
<1>7. CASE HttpFault
  BY <1>7 DEF HttpFault, Buffer!FillWith, Buffer!KeepFirst, Buffer!Publish, bvars
<1>8. CASE UserLocal
  BY <1>8 DEF UserLocal, Buffer!ReadTest, Buffer!ReadTestDone, Buffer!ReadFinish,
     Buffer!ReadReturn, Buffer!ReadWait, Buffer!ReadTake, Buffer!SeekClose,
     Buffer!SignalFiller, Buffer!SeekWaitAgain, Buffer!SeekFinish, Buffer!SeekReturn,
     Buffer!Join, Buffer!Joinable
<1>9. CASE UserLeavesSeek
  BY <1>9 DEF UserLeavesSeek, Buffer!UserSought, Buffer!SeekReturn
<1>10. CASE UserCall
  <2>1. CASE Buffer!StartFilling BY <2>1 DEF Buffer!StartFilling
  <2>2. ASSUME NEW len \in Lens, Buffer!CallRead(len) PROVE Owners'
    BY <2>2 DEF Buffer!CallRead
  <2>3. ASSUME NEW off \in Offs, Buffer!CallSeek(off) PROVE Owners'
    BY <2>3 DEF Buffer!CallSeek
  <2>4. CASE Buffer!Destroy BY <2>4 DEF Buffer!Destroy, Buffer!SignalFiller
  <2> QED BY <1>10, <2>1, <2>2, <2>3, <2>4 DEF UserCall
<1>11. CASE CloseInner
  BY <1>11 DEF CloseInner, bvars
<1>12. CASE Gone \/ UNCHANGED vars
  BY <1>12 DEF Gone, vars, bvars
<1>13. CASE SpuriousWake
  BY <1>13 DEF SpuriousWake, Buffer!FillerSpuriousWake, Buffer!UserSpuriousWake
<1> QED
  BY <1>1, <1>2, <1>3, <1>4, <1>5, <1>6, <1>7, <1>8, <1>9, <1>10, <1>11, <1>12, <1>13
     DEF Next, FillerStep, UserStep

(* A step of http.c inside a call stays in it and keeps its arguments.      *)
InsideStep ==
    \/ Http!Perform \/ Http!Unpause \/ Http!MarkWorking
    \/ Http!CancelUnpause \/ Http!Cancelled \/ Http!CancelError

(* A step inside a call of http.c neither leaves the call nor changes which *)
(* one it is, and keeps its length or its target.                           *)
LEMMA StaysInside ==
    ASSUME InsideStep
    PROVE  /\ Http!InRead' <=> Http!InRead
           /\ Http!InSeek' <=> Http!InSeek
           /\ Http!InRead \/ Http!InSeek
           /\ pc' # "closed" /\ outbuf_size' = outbuf_size /\ target' = target
<1> USE DEF Http!InRead, Http!InSeek, Http!buffers, Http!options, Http!meta, Http!transfer
<1>1. ASSUME NEW chunk, Http!WriteCb(chunk) PROVE outbuf_size' = outbuf_size
  BY <1>1 DEF Http!WriteCb, Http!Abort, Http!TakeRest, Http!TakeAndPause
<1>2. CASE Http!Perform
  <2>1. UNCHANGED <<outbuf_size, pc, target>>
    BY <1>1, <1>2 DEF Http!Perform, Http!StatusLine, Http!HeaderLine, Http!DeliverChunk,
       Http!EndTransfer
  <2>2. pc \in {"read", "cancel"}
    BY <1>2 DEF Http!Perform, Http!Performing
  <2> QED BY <2>1, <2>2
<1>3. CASE Http!Unpause
  BY <1>1, <1>3 DEF Http!Unpause
<1>4. CASE Http!CancelUnpause
  BY <1>1, <1>4 DEF Http!CancelUnpause
<1>5. CASE Http!MarkWorking
  BY <1>5 DEF Http!MarkWorking
<1>6. CASE Http!Cancelled \/ Http!CancelError
  BY <1>6 DEF Http!Cancelled, Http!CancelError, Http!LeaveCancel
<1> QED BY <1>2, <1>3, <1>4, <1>5, <1>6 DEF InsideStep

(* The thread that uses the inner stream is the one that http.c works for.  *)
LEMMA TurnsHold == Owners /\ Turns /\ [Next]_vars => Turns'
<1> SUFFICES ASSUME Owners, Turns, [Next]_vars PROVE Turns' OBVIOUS
<1> USE DEF Owners, Turns, Buffer!Asked, Buffer!FirstRun, Http!InRead, Http!InSeek, hvars, OutsideHttp,
            Buffer!circbuf, Buffer!stream, Buffer!seek, Buffer!fill, Buffer!write2, Buffer!user
<1>1. CASE FillerLocal
  BY <1>1 DEF FillerLocal, Buffer!FillerStart, Buffer!LoopTest, Buffer!LoopTestRequest,
     Buffer!TestRequest, Buffer!CallWrite2, Buffer!Serve, Buffer!SignalUser,
     Buffer!WriteTest, Buffer!WriteWait, Buffer!WriteRetest, Buffer!CloseWriting,
     Buffer!EofCheck, Buffer!SeekLockFree
<1>2. CASE FillerEntersSeek
  BY <1>2 DEF FillerEntersSeek, Buffer!TestRequest, Http!CallSeek, Http!Idle
<1>3. CASE FillerLeavesSeek
  BY <1>3 DEF FillerLeavesSeek, Buffer!FillerSought, Http!Restart
<1>4. CASE FillerEntersRead
  BY <1>4 DEF FillerEntersRead, Buffer!WriteLoad, Buffer!WriteRest, Http!CallRead, Http!Idle
<1>5. CASE FillerLeavesRead
  BY <1>5 DEF FillerLeavesRead, Buffer!FillWith, Buffer!KeepFirst, Buffer!Publish,
     Http!ReadFull, Http!ReadShort
<1>6. CASE InsideStep /\ UNCHANGED bvars
  <2>1. UNCHANGED <<fpc, cpc, fn, woff, seek_off>>
    BY <1>6 DEF bvars
  <2> QED BY <1>6, <2>1, StaysInside
<1>7. CASE Http!ReadError /\ Buffer!FillWith(outbuf)
  BY <1>7 DEF Buffer!FillWith, Buffer!KeepFirst, Buffer!Publish, Http!ReadError
<1>8. CASE UserLocal
  BY <1>8 DEF UserLocal, Buffer!ReadTest, Buffer!ReadTestDone, Buffer!ReadFinish,
     Buffer!ReadReturn, Buffer!ReadWait, Buffer!ReadTake, Buffer!SeekClose,
     Buffer!SignalFiller, Buffer!SeekWaitAgain, Buffer!SeekFinish, Buffer!SeekReturn,
     Buffer!Join, Buffer!Joinable
<1>9. CASE UserLeavesSeek
  BY <1>9 DEF UserLeavesSeek, Buffer!UserSought, Buffer!SeekReturn, Http!Restart
<1>10. CASE UserCall
  <2>1. CASE OutsideHttp /\ Buffer!StartFilling BY <2>1 DEF Buffer!StartFilling
  <2>2. ASSUME NEW len \in Lens, OutsideHttp, Buffer!CallRead(len) PROVE Turns'
    BY <2>2 DEF Buffer!CallRead
  <2>3. ASSUME NEW off \in Offs, OutsideHttp, filler_started, Buffer!CallSeek(off) PROVE Turns'
    BY <2>3 DEF Buffer!CallSeek
  <2>4. ASSUME NEW off \in Offs, ~filler_started, Http!CallSeek(off), Buffer!CallSeek(off)
        PROVE Turns'
    BY <2>4 DEF Buffer!CallSeek, Http!CallSeek, Http!Idle
  <2>5. CASE OutsideHttp /\ Buffer!Destroy BY <2>5 DEF Buffer!Destroy, Buffer!SignalFiller
  <2> QED BY <1>10, <2>1, <2>2, <2>3, <2>4, <2>5 DEF UserCall
<1>11. CASE CloseInner
  BY <1>11 DEF CloseInner, Http!Close, Http!Idle, bvars
<1>12. CASE Gone \/ UNCHANGED vars
  BY <1>12 DEF Gone, vars, bvars
<1>13. CASE SpuriousWake
  BY <1>13 DEF SpuriousWake, Buffer!FillerSpuriousWake, Buffer!UserSpuriousWake
<1> QED
  BY <1>1, <1>2, <1>3, <1>4, <1>5, <1>6, <1>7, <1>8, <1>9, <1>10, <1>11, <1>12, <1>13
     DEF Next, FillerStep, UserStep, HttpStep, HttpFault, InsideStep

(* Every step of the composition is a step of http.c or leaves it alone.    *)
LEMMA UsesHttp == Owners /\ [Next]_vars => [Http!Next]_(Http!vars)
<1> SUFFICES ASSUME Owners, [Next]_vars PROVE [Http!Next]_(Http!vars) OBVIOUS
<1>1. CASE OutsideHttp \/ UNCHANGED vars
  BY <1>1 DEF OutsideHttp, vars, hvars, Http!vars, Http!meta, Http!buffers, Http!options,
     Http!transfer
<1>2. CASE FillerEntersSeek
  <2>1. seek_off \in Offs /\ Http!CallSeek(seek_off)
    BY <1>2 DEF FillerEntersSeek, Owners
  <2> QED BY <2>1 DEF Http!Next, Http!Seeks
<1>3. CASE FillerEntersRead
  BY <1>3 DEF FillerEntersRead, Http!Next, Http!Reads
<1>4. CASE FillerLeavesSeek \/ UserLeavesSeek
  BY <1>4 DEF FillerLeavesSeek, UserLeavesSeek, Http!Next, Http!SeekStep
<1>5. CASE FillerLeavesRead
  BY <1>5 DEF FillerLeavesRead, Http!Next, Http!ReadStep
<1>6. CASE HttpStep \/ HttpFault
  BY <1>6 DEF HttpStep, HttpFault, Http!Next, Http!ReadStep, Http!SeekStep
<1>7. ASSUME NEW off \in Offs, Http!CallSeek(off) PROVE [Http!Next]_(Http!vars)
  BY <1>7 DEF Http!Next, Http!Seeks
<1>8. CASE CloseInner
  BY <1>8 DEF CloseInner, Http!Next
<1> QED
  BY <1>1, <1>2, <1>3, <1>4, <1>5, <1>6, <1>7, <1>8
     DEF Next, FillerStep, FillerLocal, UserStep, UserLocal, UserCall, Gone, SpuriousWake

-----------------------------------------------------------------------------
(* Servers that honour ranges and send the resource only; connections may   *)
(* break and calls of curl_multi fail.  Both are needed: otherwise a read   *)
(* delivers other bytes than the ones at the stream's offset.               *)
HonestServer == RangeSupport \subseteq {TRUE} /\ "page" \notin Faults

(* What SlHttpProofs says of http.c, and that no error page has come.       *)
HttpFacts ==
    /\ HP!TypeOK /\ HP!Chunks /\ HP!Unpaused
    /\ HP!BytesAtOffset /\ HP!NothingPastTheEnd /\ HP!SeekableIsTrue

NoPage == http_status # 500

(* A server that sends no error page never gives its status.                *)
LEMMA NoPageHolds == HonestServer /\ NoPage /\ [Next]_vars => NoPage'
<1> SUFFICES ASSUME HonestServer, NoPage, [Next]_vars PROVE NoPage' OBVIOUS
<1> USE DEF NoPage, Http!meta
<1>1. CASE Http!StatusLine
  BY <1>1 DEF HonestServer, Http!StatusLine, Http!Statuses
<1>2. CASE InsideStep /\ ~Http!StatusLine
  BY <1>2 DEF InsideStep, Http!Perform, Http!HeaderLine, Http!DeliverChunk,
     Http!EndTransfer, Http!Unpause, Http!MarkWorking, Http!CancelUnpause, Http!Cancelled,
     Http!CancelError, Http!LeaveCancel
<1>3. CASE FillerEntersSeek \/ FillerLeavesSeek \/ FillerEntersRead \/ FillerLeavesRead
  BY <1>3 DEF FillerEntersSeek, FillerLeavesSeek, FillerEntersRead, FillerLeavesRead,
     Http!CallSeek, Http!Restart, Http!CallRead, Http!ReadFull, Http!ReadShort
<1>4. CASE Http!ReadError \/ UserLeavesSeek \/ CloseInner
  BY <1>4 DEF Http!ReadError, UserLeavesSeek, Http!Restart, CloseInner, Http!Close
<1>5. ASSUME NEW off \in Offs, Http!CallSeek(off) PROVE NoPage'
  BY <1>5 DEF Http!CallSeek
<1>6. CASE OutsideHttp \/ UNCHANGED vars
  BY <1>6 DEF OutsideHttp, vars, hvars
<1> QED
  BY <1>1, <1>2, <1>3, <1>4, <1>5, <1>6
     DEF Next, FillerStep, FillerLocal, UserStep, UserLocal, UserCall, Gone, SpuriousWake,
         HttpStep, HttpFault, InsideStep

(* A read of http.c returns to the filler what it has copied.               *)
AnswersRead ==
    /\ Http!ReadFull \/ Http!ReadShort \/ Http!ReadError
    /\ Buffer!FillWith(outbuf)

(* From any server the filler gets no more bytes than it asked for.         *)
LEMMA AnswerIsFill ==
    ASSUME HttpFacts, Turns, AnswersRead
    PROVE  BP!FillAny
<1>1. /\ pc = "read" /\ pc' = "returned" /\ http_off' = http_off
      /\ outbuf \in Seq(Nat) /\ Len(outbuf) <= outbuf_size /\ http_off \in Nat
  BY DEF AnswersRead, Http!ReadFull, Http!ReadShort, Http!ReadError, HttpFacts, HP!TypeOK
<1>2. outbuf_size = BP!Asked
  BY <1>1 DEF Turns, Http!InRead, Buffer!Asked, Buffer!FirstRun, BP!Asked, BP!FirstRun
<1>3. Http!ReadFrom' \in Nat
  BY <1>1 DEF Http!ReadFrom, Http!InRead
<1>4. BP!FillWith(outbuf)
  BY DEF AnswersRead, Buffer!FillWith, BP!FillWith, Buffer!KeepFirst, BP!KeepFirst,
     Buffer!Publish, BP!Publish, Buffer!Asked, BP!Asked, Buffer!FirstRun, BP!FirstRun,
     Buffer!Wrap, BP!Wrap, Buffer!stream, BP!stream, Buffer!seek,
     BP!seek, Buffer!user, BP!user
<1> QED BY <1>1, <1>2, <1>3, <1>4 DEF BP!FillAny

(* From an honest one it gets the bytes at the position of the inner stream *)
(* and none past the end.                                                   *)
LEMMA ReadIsFill ==
    ASSUME HonestServer, HttpFacts, NoPage, Turns, AnswersRead
    PROVE  Buffer!WriteFill
<1> DEFINE g == Len(outbuf)
           ipos == http_off - g
           bytes == [i \in 1 .. g |-> ipos + i - 1]
<1> USE ParameterAssumption
<1>1. /\ pc = "read" /\ pc' = "returned" /\ UNCHANGED <<http_off, outbuf>>
  BY DEF AnswersRead, Http!ReadFull, Http!ReadShort, Http!ReadError, Http!buffers
<1>2. /\ outbuf \in Seq(Nat) /\ http_off \in Nat /\ g \in Nat
      /\ g <= Buffer!Asked /\ Buffer!Asked \in Nat
      /\ ipos \in Int /\ ipos + g = http_off
  BY <1>1 DEF HttpFacts, HP!TypeOK, Turns, Http!InRead
<1>3. Http!ReadFrom = ipos /\ Http!ReadFrom' = ipos + g
  BY <1>1, <1>2 DEF Http!ReadFrom, Http!InRead
<1>4. HP!InRead /\ HP!Honoured /\ ~HP!OnPage
  BY <1>1 DEF HonestServer, HttpFacts, NoPage, HP!TypeOK, HP!SeekableIsTrue, HP!InRead,
     HP!Honoured, HP!OnPage
<1>5. outbuf = bytes
  <2>1. \A i \in 1 .. g : outbuf[i] = ipos + i - 1
    BY <1>4 DEF HttpFacts, HP!BytesAtOffset
  <2> QED BY <1>2, <2>1
<1>6. g # 0 => ipos + g <= FileLen
  BY <1>2, <1>4 DEF HttpFacts, HP!NothingPastTheEnd
<1> HIDE DEF g, ipos
<1>7. g \in Buffer!InnerReads(Buffer!Asked)
  BY <1>2, <1>3, <1>6 DEF Buffer!InnerReads, Buffer!SmallerOf
<1>8. Buffer!FillWith(bytes)
  BY <1>5 DEF AnswersRead
<1> QED BY <1>3, <1>7, <1>8 DEF Buffer!WriteFill

(* Inside a call of the inner stream the buffer sees nothing happen.        *)
LEMMA InsideIsHidden ==
    ASSUME Owners, HttpFacts, InsideStep, UNCHANGED bvars, [Next]_vars
    PROVE  UNCHANGED Buffer!vars
<1>1. HP!Steady
  <2>1. [Http!Next]_(Http!vars)
    BY UsesHttp
  <2>2. [HP!Next]_(HP!vars)
    BY <2>1, SameHttp
  <2> QED BY <2>2, ParameterAssumption, HP!SteadyStep DEF HttpFacts
<1>2. HP!Inside /\ HP!Inside'
  BY StaysInside DEF HP!Inside, HP!InRead, HP!InSeek, Http!InRead, Http!InSeek
<1>3. Http!ReadFrom' = Http!ReadFrom
  BY <1>1, <1>2 DEF HP!Steady, HP!ReadFrom, HP!InRead, Http!ReadFrom, Http!InRead
<1> QED
  BY <1>3 DEF bvars, Buffer!vars, Buffer!circbuf, Buffer!stream, Buffer!seek, Buffer!fill,
     Buffer!write2, Buffer!user

(* A seek of http.c takes the inner stream to the offset it was called with.*)
LEMMA RestartIsSeek ==
    ASSUME Turns, Http!Restart, seek_result' = 0
    PROVE  Buffer!SeekInner
<1>1. target = seek_off /\ http_off' = target /\ pc' = "idle"
  BY DEF Turns, Http!Restart, Http!InSeek
<1>2. Http!ReadFrom' = seek_off
  BY <1>1 DEF Http!ReadFrom, Http!InRead
<1> QED BY <1>2 DEF Buffer!SeekInner

(* Every step of the composition is the end of a read, another step of the  *)
(* buffer, or leaves it alone.                                              *)
LEMMA StepIsBufferStep ==
    HttpFacts /\ Owners /\ Turns /\ [Next]_vars
       => AnswersRead \/ [Buffer!Next]_(Buffer!vars)
<1> SUFFICES ASSUME HttpFacts, Owners, Turns, [Next]_vars, ~AnswersRead
             PROVE  [Buffer!Next]_(Buffer!vars)
  OBVIOUS
<1> USE DEF Buffer!Next, Buffer!FillerStep, Buffer!UserStep, Buffer!UserCall
<1>1. CASE FillerLocal
  BY <1>1 DEF FillerLocal
<1>2. CASE FillerEntersSeek \/ FillerEntersRead
  BY <1>2 DEF FillerEntersSeek, FillerEntersRead
<1>3. CASE FillerLeavesSeek
  BY <1>3, RestartIsSeek DEF FillerLeavesSeek, Buffer!FillerSeek
<1>4. ~FillerLeavesRead /\ ~(Http!ReadError /\ Buffer!FillWith(outbuf))
  BY DEF AnswersRead, FillerLeavesRead
<1>5. CASE InsideStep /\ UNCHANGED bvars
  BY <1>5, InsideIsHidden
<1>6. CASE UserLocal
  BY <1>6 DEF UserLocal
<1>7. CASE UserLeavesSeek
  BY <1>7, RestartIsSeek DEF UserLeavesSeek, Buffer!UserSeek
<1>8. CASE UserCall
  BY <1>8 DEF UserCall
<1>9. CASE CloseInner
  <2>1. Http!ReadFrom' = Http!ReadFrom
    BY <1>9 DEF CloseInner, Http!Close, Http!Idle, Http!buffers, Http!ReadFrom, Http!InRead
  <2> QED
    BY <1>9, <2>1 DEF CloseInner, bvars, Buffer!vars, Buffer!circbuf, Buffer!stream,
       Buffer!seek, Buffer!fill, Buffer!write2, Buffer!user
<1>10. CASE Gone \/ UNCHANGED vars
  BY <1>10 DEF Gone, vars, hvars, bvars, Buffer!vars, Buffer!circbuf, Buffer!stream,
     Buffer!seek, Buffer!fill, Buffer!write2, Buffer!user, Http!ReadFrom, Http!InRead
<1>11. CASE SpuriousWake
  BY <1>11 DEF SpuriousWake
<1> QED
  BY <1>1, <1>2, <1>3, <1>4, <1>5, <1>6, <1>7, <1>8, <1>9, <1>10, <1>11
     DEF Next, FillerStep, UserStep, HttpStep, HttpFault, InsideStep

-----------------------------------------------------------------------------
(* What the two specifications assume of their parameters holds of these.   *)
LEMMA HttpAssumption == HP!ParameterAssumption
BY ParameterAssumption DEF HP!ParameterAssumption

(* The capacity and the step are positive, and so are the lengths.          *)
LEMMA BufferAssumption == BP!ParameterAssumption
BY ParameterAssumption DEF BP!ParameterAssumption

(* What the theorems rest on.                                               *)
LEMMA Invariant == Spec => [](Owners /\ Turns)
<1>1. Init => Owners /\ Turns
  BY DEF Init, Buffer!Init, Http!Init, Owners, Turns, Http!InRead, Http!InSeek
<1>2. Owners /\ Turns /\ [Next]_vars => (Owners /\ Turns)'
  BY OwnersHold, TurnsHold
<1> QED BY <1>1, <1>2, PTL DEF Spec

(* The buffer uses the stream under it as its interface asks: one call at a *)
(* time from whichever thread, and none after the stream is closed.         *)
THEOREM UsesHttpStream == Spec => Http!Spec
<1>1. Init => Http!Init
  BY DEF Init
<1>2. Owners /\ [Next]_vars => [Http!Next]_(Http!vars)
  BY UsesHttp
<1> QED BY <1>1, <1>2, Invariant, PTL DEF Spec, Http!Spec

(* The same, in terms of the other instance.                                *)
LEMMA IsHttp == Spec => HP!Spec
<1>1. Init => HP!Init
  BY SameHttp DEF Init
<1>2. Owners /\ [Next]_vars => [HP!Next]_(HP!vars)
  <2> SUFFICES ASSUME Owners, [Next]_vars PROVE [HP!Next]_(HP!vars) OBVIOUS
  <2>1. [Http!Next]_(Http!vars)
    BY UsesHttp
  <2> QED BY <2>1, SameHttp
<1> QED BY <1>1, <1>2, Invariant, PTL DEF Spec, HP!Spec

(* The inner stream is closed only when no thread will use it again.        *)
THEOREM InnerOutlives == Spec => []InnerOutlivesFiller
<1>1. Owners /\ Turns => InnerOutlivesFiller
  BY DEF Owners, Turns, InnerOutlivesFiller
<1> QED BY <1>1, Invariant, PTL

(* What SlHttpProofs proves of the stream holds of it under the buffer.     *)
LEMMA HttpAlways == Spec => []HttpFacts
<1>1. HP!Spec => []HP!IInv
  BY HttpAssumption, HP!Invariant
<1>2. HP!Spec => []HP!Unpaused
  BY HttpAssumption, HP!UnpausedAlways
<1>3. HP!Spec => []HP!NothingPastTheEnd
  BY HttpAssumption, HP!NothingPastEnd
<1>4. HP!IInv /\ HP!Unpaused /\ HP!NothingPastTheEnd => HttpFacts
  BY DEF HP!IInv, HP!Bytes, HP!Headers, HttpFacts
<1> QED BY <1>1, <1>2, <1>3, <1>4, IsHttp, PTL

(* A call of the inner stream never waits: whichever thread is about to make*)
(* one finds the stream in none and open.                                   *)
InnerIsFree ==
    (fpc \in {"request", "write_load", "write_rest"} \/ (cpc = "idle" /\ ~filler_started))
        => Http!Idle

(* The two threads never meet in the inner stream, although no lock of its  *)
(* own keeps them apart.                                                    *)
THEOREM InnerFree == Spec => []InnerIsFree
<1>1. HttpFacts /\ Owners /\ Turns => InnerIsFree
  <2> SUFFICES ASSUME HttpFacts, Owners, Turns,
                      fpc \in {"request", "write_load", "write_rest"}
                         \/ (cpc = "idle" /\ ~filler_started)
               PROVE  Http!Idle
    BY DEF InnerIsFree
  <2>1. fpc \notin {"write_first", "write_fill", "inner_seek"} /\ cpc # "inner_seek"
    BY DEF Owners
  <2>2. ~Http!InRead /\ ~Http!InSeek
    BY <2>1 DEF Turns
  <2>3. pc # "closed"
    BY DEF Owners, Turns
  <2> QED BY <2>2, <2>3 DEF HttpFacts, HP!TypeOK, Http!InRead, Http!InSeek, Http!Idle
<1> QED BY <1>1, HttpAlways, Invariant, PTL

(* The buffer over any server is the buffer over any bytes.                 *)
LEMMA IsAnyBuffer == Spec => BP!AnySpec
<1>1. Init => BP!Init
  BY SameBuffer DEF Init
<1>2. HttpFacts /\ Owners /\ Turns /\ [Next]_vars => [BP!AnyNext]_(BP!vars)
  <2> SUFFICES ASSUME HttpFacts, Owners, Turns, [Next]_vars PROVE [BP!AnyNext]_(BP!vars)
    OBVIOUS
  <2>1. CASE AnswersRead
    BY <2>1, AnswerIsFill DEF BP!AnyNext
  <2>2. CASE [Buffer!Next]_(Buffer!vars)
    <3>1. [BP!Next]_(BP!vars)
      BY <2>2, SameBuffer
    <3> QED BY <3>1 DEF BP!AnyNext
  <2> QED BY <2>1, <2>2, StepIsBufferStep
<1> QED BY <1>1, <1>2, HttpAlways, Invariant, PTL DEF Spec, BP!AnySpec

(* Whatever the server sends and however connections end: the buffer stays  *)
(* in its ranges, one thread at a time is in the HTTP stream, and no side   *)
(* sleeps past the event it waits for.                                      *)
THEOREM AnyServer == Spec => [](BP!TypeOK /\ BP!InnerExclusive /\ BP!NoMissedRequest)
<1>1. BP!AnySpec => [](BP!TypeOK /\ BP!InnerExclusive /\ BP!NoMissedRequest)
  BY BufferAssumption, BP!AnyBytes
<1> QED BY <1>1, IsAnyBuffer, PTL

(* Destruction joins the filler before it frees what the filler uses.       *)
THEOREM FillerIsJoined == Spec => []BP!NoUseAfterFree
<1>1. BP!AnySpec => []BP!NoUseAfterFree
  BY BufferAssumption, BP!JoinedAny
<1> QED BY <1>1, IsAnyBuffer, PTL

(* The circular buffer is reset only while the user sleeps in its seek.     *)
THEOREM ResetAlone == Spec => BP!ResetIsAlone
<1>1. BP!AnySpec => BP!ResetIsAlone
  BY BufferAssumption, BP!ResetAny
<1> QED BY <1>1, IsAnyBuffer, PTL

(* The user in a call and the filler are never both unable to go on: a seek *)
(* of http.c does not fail.                                                 *)
THEOREM NoDeadlock == Spec => []BP!NotBothBlocked
<1>1. BP!AnySpec => []BP!NotBothBlocked
  BY BufferAssumption, BP!NoDeadlockAny
<1> QED BY <1>1, IsAnyBuffer, PTL

(* http.c keeps every promise that SlBuffer assumes of an inner stream, over*)
(* broken connections and failing calls of curl_multi, so that every theorem*)
(* about SlBuffer holds of the two together.                                *)
THEOREM RefinesBuffer == HonestServer => (Spec => ImplementsBuffer)
<1> SUFFICES ASSUME HonestServer PROVE Spec => ImplementsBuffer OBVIOUS
<1>1. Init => Buffer!Init
  BY DEF Init
<1>2. Init => NoPage
  BY DEF Init, Http!Init, NoPage
<1>3. NoPage /\ [Next]_vars => NoPage'
  BY NoPageHolds
<1>4. HttpFacts /\ NoPage /\ Owners /\ Turns /\ [Next]_vars => [Buffer!Next]_(Buffer!vars)
  BY StepIsBufferStep, ReadIsFill DEF Buffer!Next, Buffer!FillerStep
<1> QED
  BY <1>1, <1>2, <1>3, <1>4, HttpAlways, Invariant, PTL DEF Spec, ImplementsBuffer,
     Buffer!Spec

(* The same, in terms of the other instance.                                *)
LEMMA IsBuffer == HonestServer => (Spec => BP!Spec)
<1> SUFFICES ASSUME HonestServer PROVE Spec => BP!Spec OBVIOUS
<1>1. Buffer!Init => BP!Init
  BY SameBuffer
<1>2. [Buffer!Next]_(Buffer!vars) => [BP!Next]_(BP!vars)
  BY SameBuffer
<1>3. Spec => Buffer!Spec
  BY RefinesBuffer DEF ImplementsBuffer
<1> QED BY <1>1, <1>2, <1>3, PTL DEF Buffer!Spec, BP!Spec

(* To its user the buffer over the HTTP stream is a seekable stream over the*)
(* resource: all pauses, aborts and reconnections stay hidden.              *)
THEOREM UserSeesStream == HonestServer => (Spec => Buffer!ImplementsStream)
<1> SUFFICES ASSUME HonestServer PROVE Spec => Buffer!ImplementsStream OBVIOUS
<1>1. BP!Spec => BP!Stream!Init /\ [][BP!Stream!Next]_(BP!Stream!vars)
  BY BufferAssumption, BP!BufferIsStream DEF BP!ImplementsStream, BP!Stream!Spec
<1>2. BP!Stream!Init => Buffer!Stream!Init
  BY DEF BP!Stream!Init, Buffer!Stream!Init, BP!Reading, Buffer!Reading
<1>3. [BP!Stream!Next]_(BP!Stream!vars) => [Buffer!Stream!Next]_(Buffer!Stream!vars)
  BY DEF BP!Stream!Next, BP!Stream!Call, BP!Stream!Read, BP!Stream!Seek, BP!Stream!vars,
         Buffer!Stream!Next, Buffer!Stream!Call, Buffer!Stream!Read, Buffer!Stream!Seek,
         Buffer!Stream!vars, BP!Reading, Buffer!Reading
<1>4. Spec => BP!Spec
  BY IsBuffer
<1> QED BY <1>1, <1>2, <1>3, <1>4, PTL DEF Buffer!ImplementsStream, Buffer!Stream!Spec

=============================================================================
