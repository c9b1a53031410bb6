-------------------------- MODULE SlHttpRefinement --------------------------
(***************************************************************************)
(* The HTTP stream implements the seekable stream, for every length of the  *)
(* resource and of a chunk and every set of lengths and offsets, where the  *)
(* server is Obliging.  Each part of that is needed: a broken connection, a *)
(* failing libcurl, an unknown length or a seek to the end before the length*)
(* is known makes a read short without end of file, an error page and a     *)
(* server without ranges deliver other bytes, and an empty resource sets end*)
(* of file in the middle of its first read.                                 *)
(***************************************************************************)
EXTENDS SlHttpProofs

Obliging ==
    /\ LengthKnown /\ Faults = {} /\ RangeSupport \subseteq {TRUE}
    /\ FileLen > 0 /\ \A off \in Offs : off < FileLen

(* The length is known before the first byte of a body.                     *)
Answer ==
    /\ ranged /\ http_status \in {0, 200, 206}
    /\ http_len \in {-1, FileLen}
    /\ phase = "body" /\ http_len = -1 => \E line \in head : TellsLength(line)
    /\ http_len = -1 => http_off < FileLen
    /\ phase = "added" => http_off < FileLen

(* A transfer ends by itself at the end of the resource only.               *)
Progress ==
    /\ http_off <= FileLen
    /\ phase = "body" => xoff <= FileLen
    /\ phase = "done" /\ ~InSeek => http_off = FileLen /\ http_len = FileLen

(* Between calls a transfer has not begun, is paused or has ended; so an    *)
(* abort always meets a chunk and none is left for the next read.           *)
Settled ==
    \/ state = "READY" /\ phase \in {"added", "done"}
    \/ state = "PAUSED" /\ held # <<>>
    \/ state = "ABORTED" /\ phase = "added"

Calls ==
    /\ Idle => Settled
    /\ InRead => outbuf_size \in Lens
    /\ pc = "unpause" => state = "PAUSED" /\ held # <<>>
    /\ pc = "read" => state # "ABORT_REQUESTED"
    /\ pc = "read" /\ Len(outbuf) = outbuf_size =>
         Settled /\ (outbuf_size = 0 \/ state = "PAUSED")
    /\ pc = "cancel_unpause" => held # <<>>
    /\ pc = "cancel" =>
         \/ state = "ABORT_REQUESTED" /\ phase # "done" /\ (phase = "body" => xoff < FileLen)
         \/ state = "ABORTED" /\ phase = "done"
    /\ pc = "restart" => state \in {"READY", "ABORTED"}

RInv == IInv /\ Answer /\ Progress /\ Calls

USE DEF meta, options, buffers, transfer

-----------------------------------------------------------------------------
(* From an obliging server comes the resource and nothing else.             *)
LEMMA NoSurprise ==
    ASSUME Obliging, IInv, Answer
    PROVE  ~OnPage /\ Honoured /\ BodyLen = FileLen
BY DEF IInv, Answer, OnPage, Honoured, BodyLen, Headers, SeekableIsTrue

(* The write callback, from whichever of its three callers: it refuses the  *)
(* chunk of a stream that aborts, and of any other takes a piece; then      *)
(* either the caller's buffer has room left or the transfer is paused.      *)
Callback ==
    \/ Performing /\ DeliverChunk
    \/ Unpause /\ held # <<>>
    \/ CancelUnpause /\ held # <<>>

Copied ==
    /\ http_off' - Len(outbuf') = http_off - Len(outbuf)
    /\ outbuf_size' = outbuf_size /\ phase' = phase /\ head' = head
    /\ \/ held' = <<>> /\ state' = state /\ Len(outbuf') # outbuf_size
       \/ held' # <<>> /\ state' = "PAUSED"

(* The write callback refuses the chunk of a stream that aborts; of any     *)
(* other it copies, and then either the chunk is done with and the caller   *)
(* has room left, or it is held and the transfer paused.                    *)
LEMMA ChunkFacts ==
    ASSUME TypeOK, NEW chunk \in Seq(Nat), chunk # <<>>, curlbuf_off <= Len(chunk), WriteCb(chunk)
    PROVE  \/ Aborting /\ Abort
           \/ ~Aborting /\ Copied
<1>1. CASE Aborting /\ Abort
  BY <1>1
<1>2. CASE ~Aborting /\ ~(Aborting /\ Abort)
  <2>1. PICK n \in Nat : Takes(chunk, n)
    BY <1>2, WriteFacts
  <2>2. /\ http_off' = http_off + n /\ Len(outbuf') = Len(outbuf) + n
        /\ Len(outbuf) \in Nat /\ http_off \in Nat
        /\ outbuf_size' = outbuf_size /\ phase' = phase /\ head' = head
    BY <2>1 DEF Takes, TypeOK
  <2>3. http_off' - Len(outbuf') = http_off - Len(outbuf)
    BY <2>2
  <2>4. CASE TakeRest(chunk) /\ Len(chunk) - curlbuf_off < outbuf_size - Len(outbuf)
    <3> DEFINE m == Len(chunk) - curlbuf_off
    <3>1. http_off' = http_off + m /\ held' = <<>> /\ state' = state
      BY <2>4 DEF TakeRest, Advance
    <3>2. n = m /\ m < outbuf_size - Len(outbuf) /\ outbuf_size \in Nat
      BY <2>2, <2>4, <3>1 DEF TypeOK
    <3>3. Len(outbuf') # outbuf_size
      BY <2>2, <3>2
    <3> QED BY <1>2, <2>2, <2>3, <3>1, <3>3 DEF Copied
  <2>5. CASE TakeAndPause(chunk)
    BY <1>2, <2>2, <2>3, <2>5 DEF Copied, TakeAndPause
  <2> QED BY <1>2, <2>4, <2>5 DEF WriteCb
<1> QED BY <1>1, <1>2 DEF WriteCb

(* Over an obliging server a callback finds the headers gone and the length *)
(* known, and aborts exactly in a seek.                                     *)
LEMMA CallbackFacts ==
    ASSUME Obliging, RInv, Callback
    PROVE  /\ phase = "body" /\ head = {} /\ http_len = FileLen
           /\ UNCHANGED <<meta, options, target>>
           /\ \/ InSeek /\ Abort /\ state = "ABORT_REQUESTED"
              \/ InRead /\ Copied
           /\ pc = "read" => pc' = "read"
           /\ pc = "unpause" => pc' = "read"
           /\ pc = "cancel" => pc' = "cancel"
           /\ pc = "cancel_unpause" => pc' = "restart"
           /\ xoff' <= FileLen
<1> USE DEF RInv, IInv
<1>1. BodyLen = FileLen /\ FileLen \in Nat
  BY NoSurprise, ParameterAssumption
<1>2. CASE Performing /\ DeliverChunk
  <2>1. PICK n \in 1 .. ChunkLen, chunk \in Seq(Nat) : Len(chunk) = n /\ WriteCb(chunk)
    BY <1>2, DeliverFacts
  <2>2. /\ phase = "body" /\ head = {} /\ curlbuf_off = 0 /\ held = <<>>
        /\ UNCHANGED <<meta, options, pc, target>> /\ xoff' <= FileLen
    BY <1>1, <1>2 DEF DeliverChunk, Running, Chunks, TypeOK
  <2>3. chunk # <<>> /\ curlbuf_off <= Len(chunk)
    BY <2>1, <2>2
  <2>4. (Aborting /\ Abort) \/ (~Aborting /\ Copied)
    BY <2>1, <2>3, ChunkFacts
  <2>5. http_len = FileLen
    BY <1>1, <2>2 DEF Answer
  <2>6. CASE pc = "read"
    BY <2>2, <2>4, <2>5, <2>6 DEF Calls, Aborting, InRead
  <2>7. CASE pc = "cancel"
    <3>1. state = "ABORT_REQUESTED"
      BY <2>2, <2>7 DEF Calls
    <3> QED BY <2>2, <2>4, <2>5, <2>7, <3>1 DEF InSeek, Aborting
  <2> QED BY <1>2, <2>6, <2>7 DEF Performing
<1>3. CASE (Unpause \/ CancelUnpause) /\ held # <<>>
  <2>1. /\ held \in Seq(Nat) /\ phase = "body" /\ head = {} /\ curlbuf_off <= Len(held)
        /\ WriteCb(held) /\ UNCHANGED <<meta, options, xoff, target>>
    BY <1>3 DEF Unpause, CancelUnpause, Chunks, TypeOK
  <2>2. (Aborting /\ Abort) \/ (~Aborting /\ Copied)
    BY <1>3, <2>1, ChunkFacts
  <2>3. http_len = FileLen /\ xoff' <= FileLen
    BY <1>1, <2>1 DEF Answer, Progress
  <2>4. CASE Unpause
    <3>1. ~Aborting /\ pc = "unpause" /\ pc' = "read"
      BY <2>4 DEF Unpause, Calls, Aborting
    <3> QED BY <2>1, <2>2, <2>3, <3>1 DEF InRead
  <2>5. CASE CancelUnpause
    <3>1. Aborting /\ pc = "cancel_unpause"
      BY <2>5 DEF CancelUnpause, Chunks, Aborting
    <3>2. state' = "ABORTED"
      BY <2>2, <3>1 DEF Abort
    <3>3. pc' = "restart"
      BY <2>5, <3>2 DEF CancelUnpause
    <3> QED BY <2>1, <2>2, <2>3, <3>1, <3>3 DEF InSeek, Aborting
  <2> QED BY <1>3, <2>4, <2>5
<1> QED BY <1>2, <1>3 DEF Callback

(* The steps there are with an obliging server.                             *)
Steps ==
    \/ Callback
    \/ Performing /\ (StatusLine \/ HeaderLine \/ EndTransfer)
    \/ MarkWorking \/ ReadFull \/ ReadShort \/ Cancelled \/ Restart
    \/ (\E len \in Lens : CallRead(len)) \/ (\E off \in Offs : CallSeek(off))
    \/ Close \/ UNCHANGED vars

(* Over an obliging server nothing but Steps happens.                       *)
LEMMA StepsAre == Obliging /\ Calls /\ [Next]_vars => Steps
BY DEF Obliging, Calls, Next, Steps, Callback, Perform, ReadStep, SeekStep, ReadError, CancelError,
       Reads, Seeks, SeekRefused, Closed, Unpause, CancelUnpause

(* Every step keeps what is known of the server's answer.                   *)
LEMMA AnswerHolds == Obliging /\ RInv /\ Steps => Answer'
<1> SUFFICES ASSUME Obliging, RInv, Steps PROVE Answer' OBVIOUS
<1> USE ParameterAssumption DEF RInv, IInv
<1>1. CASE Callback
  <2>1. /\ UNCHANGED <<meta, options>> /\ http_len = FileLen /\ phase = "body"
        /\ phase' # "added"
    BY <1>1, CallbackFacts DEF Abort, Copied
  <2> QED BY <2>1 DEF Answer
<1>2. CASE Performing /\ StatusLine
  <2>1. http_status' \in {200, 206}
    BY <1>2 DEF StatusLine, Statuses, Obliging, Answer, TypeOK, NoRange
  <2>2. phase' = "body" /\ UNCHANGED <<http_len, ranged, http_off>>
    BY <1>2, <2>1 DEF StatusLine
  <2>3. \E line \in head' : TellsLength(line)'
    <3>1. CASE http_status' = 200
      <4>1. Line("Content-Length", FileLen) \in head'
        BY <1>2, <3>1 DEF StatusLine, FullHeaders, Obliging
      <4> QED BY <3>1, <4>1 DEF TellsLength, Line
    <3>2. CASE http_status' = 206
      <4>1. Line("Content-Range", FileLen) \in head'
        BY <1>2, <3>2 DEF StatusLine, PartialHeaders, Totals, Obliging
      <4> QED BY <3>2, <4>1, ParameterAssumption DEF TellsLength, Line, NoTotal
    <3> QED BY <2>1, <3>1, <3>2
  <2> QED BY <2>1, <2>2, <2>3 DEF Answer
<1>3. CASE Performing /\ HeaderLine
  <2>1. PICK line \in head :
          /\ head' = head \ {line}
          /\ http_len' = IF http_len < 0 /\ TellsLength(line) THEN line.num ELSE http_len
    BY <1>3 DEF HeaderLine
  <2>2. UNCHANGED <<http_off, http_status, ranged, phase>> /\ phase = "body"
    BY <1>3 DEF HeaderLine
  <2>3. TellsLength(line) => line.num = FileLen
    BY LineFacts DEF TellsLength, Obliging
  <2>4. http_len' \in {-1, FileLen} /\ (http_len' = -1 => http_len = -1 /\ ~TellsLength(line))
    BY <2>1, <2>3 DEF Answer
  <2>5. http_len' = -1 => \E l \in head' : TellsLength(l)'
    BY <2>1, <2>2, <2>4 DEF Answer, TellsLength
  <2> QED BY <2>2, <2>4, <2>5 DEF Answer
<1>4. CASE Performing /\ EndTransfer
  BY <1>4 DEF EndTransfer, Answer
<1>5. CASE Restart
  <2>1. http_off' = target /\ target \in Offs /\ phase' = "added" /\ UNCHANGED <<meta, ranged>>
    BY <1>5 DEF Restart, AddHandle, Chunks, InSeek
  <2> QED BY <2>1 DEF Answer, Obliging
<1>6. CASE MarkWorking \/ ReadFull \/ ReadShort \/ Cancelled \/ Close \/ UNCHANGED vars
  <2>1. UNCHANGED <<http_off, meta, ranged, phase, head>>
    BY <1>6 DEF MarkWorking, ReadFull, ReadShort, Cancelled, LeaveCancel, Close, vars
  <2> QED BY <2>1 DEF Answer, TellsLength
<1>7. CASE (\E len \in Lens : CallRead(len)) \/ (\E off \in Offs : CallSeek(off))
  <2>1. UNCHANGED <<http_off, meta, ranged, phase, head>>
    BY <1>7 DEF CallRead, CallSeek
  <2> QED BY <2>1 DEF Answer, TellsLength
<1> QED BY <1>1, <1>2, <1>3, <1>4, <1>5, <1>6, <1>7 DEF Steps

(* Every step keeps where a transfer may end.                               *)
LEMMA ProgressHolds == Obliging /\ RInv /\ Steps /\ IInv' /\ Answer' => Progress'
<1> SUFFICES ASSUME Obliging, RInv, Steps, IInv', Answer' PROVE Progress' OBVIOUS
<1> USE ParameterAssumption DEF RInv, IInv
<1>1. CASE Callback
  <2>1. CASE InSeek /\ Abort
    <3>1. phase' = "done" /\ http_off' = http_off
      BY <2>1 DEF Abort
    <3>2. InSeek'
      BY <1>1, <2>1, CallbackFacts DEF InSeek, Callback, Unpause, Performing, CancelUnpause, DeliverChunk
    <3> QED BY <3>1, <3>2 DEF Progress
  <2>2. CASE InRead /\ Copied
    <3>1. phase' = "body" /\ head' = {} /\ xoff' <= FileLen
      BY <1>1, <2>2, CallbackFacts DEF Copied
    <3>2. ~OnPage' /\ Honoured'
      BY DEF Answer, OnPage, Honoured, Headers, SeekableIsTrue
    <3>3. InStep'
      BY <3>1, <3>2 DEF Bytes
    <3>4. curlbuf_off' <= Len(held') /\ curlbuf_off' \in Nat /\ Len(held') \in Nat /\ xoff' \in Nat
      BY <3>1 DEF Chunks, TypeOK
    <3>5. http_off' <= FileLen
      BY <3>1, <3>3, <3>4 DEF InStep
    <3> QED BY <3>1, <3>5 DEF Progress
  <2> QED BY <1>1, <2>1, <2>2, CallbackFacts
<1>2. CASE Performing /\ StatusLine
  <2>1. http_status' \in {200, 206}
    BY <1>2 DEF StatusLine, Statuses, Obliging, Answer, TypeOK, NoRange
  <2>2. phase' = "body" /\ http_off' = http_off
    BY <1>2, <2>1 DEF StatusLine
  <2>3. http_status' = 206 => range < FileLen
    BY <1>2 DEF StatusLine, Statuses, Obliging, TypeOK
  <2>4. xoff' <= FileLen
    BY <1>2, <2>1, <2>3 DEF StatusLine, TypeOK, NoRange
  <2> QED BY <2>2, <2>4 DEF Progress
<1>3. CASE Performing /\ HeaderLine
  BY <1>3 DEF HeaderLine, Progress
<1>4. CASE Performing /\ EndTransfer
  <2>1. /\ phase = "body" /\ held = <<>> /\ head = {} /\ xoff = BodyLen
        /\ UNCHANGED <<http_off, http_len, pc>> /\ phase' = "done"
    BY <1>4 DEF EndTransfer, Running, Obliging
  <2>2. ~OnPage /\ Honoured /\ BodyLen = FileLen
    BY NoSurprise
  <2>3. Len(held) = 0 /\ curlbuf_off = 0
    BY <2>1 DEF Chunks, TypeOK
  <2>4. http_off = FileLen
    <3>1. InStep
      BY <2>1, <2>2 DEF Bytes
    <3> QED BY <2>1, <2>2, <2>3, <3>1 DEF InStep
  <2>5. http_len = FileLen
    BY <2>1 DEF Answer
  <2> QED BY <2>1, <2>4, <2>5 DEF Progress
<1>5. CASE Restart
  <2>1. http_off' = target /\ target \in Offs /\ phase' = "added" /\ FileLen \in Nat
    BY <1>5 DEF Restart, AddHandle, Chunks, InSeek
  <2> QED BY <2>1 DEF Progress, Obliging
<1>6. CASE MarkWorking \/ ReadFull \/ ReadShort \/ Close \/ UNCHANGED vars
  <2>1. UNCHANGED <<http_off, http_len, phase, xoff>> /\ (InSeek' <=> InSeek)
    BY <1>6 DEF MarkWorking, ReadFull, ReadShort, Close, vars, InSeek, Idle
  <2> QED BY <2>1 DEF Progress
<1>7. CASE Cancelled
  BY <1>7 DEF Cancelled, LeaveCancel, Progress, InSeek
<1>8. ASSUME NEW len \in Lens, CallRead(len) PROVE Progress'
  BY <1>8 DEF CallRead, Progress, InSeek, Idle
<1>9. ASSUME NEW off \in Offs, CallSeek(off) PROVE Progress'
  BY <1>9 DEF CallSeek, Progress, InSeek
<1> QED BY <1>1, <1>2, <1>3, <1>4, <1>5, <1>6, <1>7, <1>8, <1>9 DEF Steps

(* Every step keeps what a call may find.                                   *)
LEMMA CallsHolds == Obliging /\ RInv /\ Steps => Calls'
<1> SUFFICES ASSUME Obliging, RInv, Steps PROVE Calls' OBVIOUS
<1> USE ParameterAssumption DEF RInv, IInv, InRead, InSeek, Idle, Calls
<1>1. CASE Callback
  <2>1. CASE InSeek /\ Abort
    <3>1. pc' \in {"cancel", "restart"}
      BY <1>1, <2>1, CallbackFacts DEF Callback, Unpause, Performing, CancelUnpause, DeliverChunk
    <3> QED BY <2>1, <3>1 DEF Abort
  <2>2. CASE InRead /\ Copied
    <3>1. pc' = "read" /\ state # "ABORT_REQUESTED" /\ outbuf_size' \in Lens
      BY <1>1, <2>2, CallbackFacts DEF Copied
    <3> QED BY <2>2, <3>1 DEF Copied, Settled
  <2> QED BY <1>1, <2>1, <2>2, CallbackFacts
<1>2. CASE Performing /\ StatusLine
  <2>1. /\ phase = "added" /\ phase' \in {"body", "done"} /\ held = <<>>
        /\ UNCHANGED <<buffers, state, held, pc>>
    BY <1>2 DEF StatusLine, Chunks
  <2>2. http_status' \in {200, 206}
    BY <1>2 DEF StatusLine, Statuses, Obliging, Answer, TypeOK, NoRange
  <2>3. phase' = "body"
    BY <1>2, <2>2 DEF StatusLine
  <2>4. xoff' < FileLen
    BY <1>2, <2>2 DEF StatusLine, Statuses, Obliging, TypeOK, NoRange
  <2>5. CASE pc = "read" /\ Len(outbuf) < outbuf_size
    BY <2>1, <2>5 DEF TypeOK
  <2>6. CASE pc = "cancel"
    BY <2>1, <2>3, <2>4, <2>6
  <2> QED BY <1>2, <2>5, <2>6 DEF Performing
<1>3. CASE Performing /\ HeaderLine
  <2>1. UNCHANGED <<buffers, state, phase, xoff, held, pc>>
    BY <1>3 DEF HeaderLine
  <2> QED BY <2>1 DEF Settled
<1>4. CASE Performing /\ EndTransfer
  <2>1. /\ phase = "body" /\ xoff = BodyLen /\ phase' = "done"
        /\ UNCHANGED <<buffers, state, held, pc>>
    BY <1>4 DEF EndTransfer, Running, Obliging
  <2>2. BodyLen = FileLen
    BY NoSurprise
  <2>3. CASE pc = "read" /\ Len(outbuf) < outbuf_size
    BY <2>1, <2>3 DEF TypeOK
  <2>4. CASE pc = "cancel"
    BY <2>1, <2>2, <2>4
  <2> QED BY <1>4, <2>3, <2>4 DEF Performing
<1>5. CASE MarkWorking
  BY <1>5 DEF MarkWorking, MayBeWorking, TypeOK
<1>6. CASE ReadFull
  BY <1>6 DEF ReadFull, Settled
<1>7. CASE ReadShort
  BY <1>7 DEF ReadShort, Over, Settled
<1>8. CASE Cancelled
  BY <1>8 DEF Cancelled, LeaveCancel
<1>9. CASE Restart
  BY <1>9 DEF Restart, AddHandle, Settled
<1>10. ASSUME NEW len \in Lens, CallRead(len) PROVE Calls'
  <2>1. /\ outbuf' = <<>> /\ Len(outbuf') = 0 /\ outbuf_size' = len
        /\ pc' = IF state = "PAUSED" THEN "unpause" ELSE "read"
        /\ UNCHANGED <<state, phase, held>> /\ Settled
    BY <1>10 DEF CallRead
  <2> QED BY <2>1 DEF Settled
<1>11. ASSUME NEW off \in Offs, CallSeek(off) PROVE Calls'
  <2>1. UNCHANGED <<buffers, phase, xoff, held>> /\ Settled
    BY <1>11 DEF CallSeek
  <2> QED BY <1>11, <2>1 DEF CallSeek, Settled
<1>12. CASE Close
  BY <1>12 DEF Close
<1>13. CASE UNCHANGED vars
  BY <1>13 DEF vars, Settled
<1> QED
  BY <1>1, <1>2, <1>3, <1>4, <1>5, <1>6, <1>7, <1>8, <1>9, <1>10, <1>11, <1>12, <1>13 DEF Steps

(* Inductive with an obliging server.                                       *)
LEMMA ObligingInvariant == Obliging => (Spec => []RInv)
<1> SUFFICES ASSUME Obliging PROVE Spec => []RInv OBVIOUS
<1>1. Init => Answer /\ Progress /\ Calls
  <2> SUFFICES ASSUME Init PROVE Answer /\ Progress /\ Calls OBVIOUS
  <2>1. ranged
    BY DEF Obliging, Init
  <2> QED BY <2>1, ParameterAssumption
     DEF Obliging, Init, Answer, Progress, Calls, Settled, Idle, InRead, InSeek
<1>2. IInv /\ IInv' /\ Answer /\ Progress /\ Calls /\ [Next]_vars => (Answer /\ Progress /\ Calls)'
  BY StepsAre, AnswerHolds, ProgressHolds, CallsHolds DEF RInv
<1> QED BY <1>1, <1>2, Invariant, PTL DEF Spec, RInv

-----------------------------------------------------------------------------
(* What the user sees: where it is, whether at the end, what a read gave.   *)
AtEof == ReadFrom >= http_len /\ http_len >= 0
Given == IF pc = "returned" THEN outbuf ELSE <<>>

(* The initial states are initial states of the stream the caller sees.     *)
LEMMA InitSeen == Init => Stream!Init
BY DEF Init, Stream!Init, ReadFrom, InRead

(* A step between the call and the return of a read or seek shows nothing.  *)
LEMMA HiddenStep ==
    ASSUME UNCHANGED <<ReadFrom, AtEof, Given>>
    PROVE  UNCHANGED Stream!vars
BY DEF Stream!vars, AtEof, Given

(* A call takes back what the last read has given.                          *)
LEMMA CallStep ==
    ASSUME UNCHANGED <<ReadFrom, AtEof>>, Given' = <<>>
    PROVE  Stream!Next
BY DEF Stream!Next, Stream!Call, AtEof, Given

(* A read returns the bytes from where it began, short only at the end.     *)
LEMMA ReturnStep ==
    ASSUME Obliging, RInv, ReadFull \/ ReadShort
    PROVE  Stream!Next
<1> DEFINE n == Len(outbuf)
<1> USE ParameterAssumption DEF RInv, IInv
<1>1. /\ pc = "read" /\ pc' = "returned" /\ n <= outbuf_size
      /\ n < outbuf_size => phase = "done"
      /\ UNCHANGED <<http_off, http_len, outbuf>>
  BY DEF ReadFull, ReadShort, Over, TypeOK
<1>2. /\ outbuf_size \in Lens /\ outbuf_size \in Nat /\ n \in 0 .. outbuf_size
      /\ outbuf \in Seq(Nat) /\ http_off \in Nat /\ http_len \in {-1, FileLen}
      /\ http_off <= FileLen /\ FileLen \in Nat
  BY <1>1 DEF Calls, InRead, TypeOK, Answer, Progress
<1>3. ReadFrom = http_off - n /\ ReadFrom' = http_off /\ Given' = outbuf
  BY <1>1 DEF ReadFrom, InRead, Given
<1>4. AtEof' <=> (http_off >= http_len /\ http_len >= 0)
  BY <1>1, <1>3 DEF AtEof
<1>5. \A i \in 1 .. n : outbuf[i] = ReadFrom + i - 1
  BY <1>1, <1>3, NoSurprise DEF Bytes, BytesAtOffset, InRead
<1>6. outbuf = [i \in 1 .. n |-> ReadFrom + i - 1]
  BY <1>2, <1>5
<1>7. n < outbuf_size => AtEof'
  BY <1>1, <1>2, <1>4 DEF Progress, InSeek
<1>8. AtEof' => ReadFrom' >= FileLen
  BY <1>2, <1>3, <1>4
<1>9. ReadFrom' = ReadFrom + n /\ ReadFrom + n <= FileLen
  BY <1>2, <1>3
<1>10. Stream!Read(outbuf_size)
  <2>1. AtEof' \in BOOLEAN
    BY DEF AtEof
  <2> HIDE DEF n
  <2> QED BY <1>2, <1>3, <1>6, <1>7, <1>8, <1>9, <2>1 DEF Stream!Read, AtEof, Given
<1> QED BY <1>2, <1>10 DEF Stream!Next

(* A seek that returns has moved the stream to its target.                  *)
LEMMA SeekStepSeen ==
    ASSUME Obliging, RInv, Restart
    PROVE  Stream!Next
<1>1. target \in Offs /\ target < FileLen /\ target \in Nat
  BY ParameterAssumption DEF RInv, IInv, Chunks, Restart, InSeek, Obliging
<1>2. ReadFrom' = target /\ Given' = <<>> /\ http_len' = http_len
  BY DEF Restart, ReadFrom, InRead, Given
<1>3. AtEof' = FALSE
  BY <1>1, <1>2, ParameterAssumption DEF RInv, Answer, AtEof
<1>4. Stream!Seek(target)
  BY <1>2, <1>3 DEF Stream!Seek, AtEof, Given
<1> QED BY <1>1, <1>4 DEF Stream!Next

(* Every step is a step of the stream the caller sees or is hidden from it. *)
LEMMA StepSeen == Obliging /\ RInv /\ Steps => [Stream!Next]_(Stream!vars)
<1> SUFFICES ASSUME Obliging, RInv, Steps PROVE [Stream!Next]_(Stream!vars) OBVIOUS
<1> USE DEF RInv, IInv
<1>1. CASE Callback
  <2>1. pc \in {"read", "unpause", "cancel", "cancel_unpause"}
    BY <1>1 DEF Callback, Performing, Unpause, CancelUnpause
  <2>2. pc' \in {"read", "cancel", "restart"} /\ http_len' = http_len
        /\ (pc' = "read" <=> InRead)
    BY <1>1, <2>1, CallbackFacts DEF InRead
  <2>3. ReadFrom' = ReadFrom
    <3>1. CASE InSeek /\ Abort
      BY <2>2, <3>1 DEF ReadFrom, InRead, InSeek, Abort
    <3>2. CASE InRead /\ Copied
      BY <2>2, <3>2 DEF ReadFrom, InRead, Copied
    <3> QED BY <1>1, <3>1, <3>2, CallbackFacts
  <2>4. UNCHANGED AtEof /\ UNCHANGED Given
    BY <2>1, <2>2, <2>3 DEF AtEof, Given
  <2> QED BY <2>3, <2>4, HiddenStep
<1>2. CASE Performing /\ HeaderLine
  <2>1. /\ UNCHANGED <<http_off, outbuf, pc>> /\ pc \in {"read", "cancel"}
        /\ http_len' = http_len \/ http_len < 0
    <3>1. PICK line \in head :
             http_len' = IF http_len < 0 /\ TellsLength(line) THEN line.num ELSE http_len
      BY <1>2 DEF HeaderLine
    <3> QED BY <1>2, <3>1 DEF HeaderLine, Performing
  <2>2. ReadFrom' = ReadFrom
    BY <2>1 DEF ReadFrom, InRead
  <2>3. CASE http_len' = http_len
    <3>1. UNCHANGED <<AtEof, Given>>
      BY <2>1, <2>2, <2>3 DEF AtEof, Given
    <3> QED BY <2>2, <3>1, HiddenStep
  <2>4. CASE http_len < 0
    <3>1. http_len' \in {-1, FileLen} /\ http_len = -1 /\ FileLen \in Nat
      BY <2>4, AnswerHolds, ParameterAssumption DEF Answer
    <3>2. ReadFrom < FileLen /\ ReadFrom \in Int
      BY <3>1 DEF Answer, ReadFrom, TypeOK
    <3>3. ~AtEof /\ ~AtEof'
      BY <2>2, <3>1, <3>2 DEF AtEof
    <3>4. UNCHANGED <<AtEof, Given>>
      BY <2>1, <3>3 DEF AtEof, Given
    <3> QED BY <2>2, <3>4, HiddenStep
  <2> QED BY <2>1, <2>3, <2>4
<1>3. CASE \/ Performing /\ (StatusLine \/ EndTransfer)
           \/ MarkWorking \/ Cancelled \/ UNCHANGED vars
  <2>1. /\ UNCHANGED <<http_off, http_len, outbuf>>
        /\ pc' = pc \/ (pc = "cancel" /\ pc' = "restart")
    BY <1>3 DEF StatusLine, EndTransfer, MarkWorking, Cancelled, LeaveCancel, vars
  <2>2. UNCHANGED ReadFrom
    BY <2>1 DEF ReadFrom, InRead
  <2>3. UNCHANGED <<AtEof, Given>>
    BY <2>1, <2>2 DEF AtEof, Given
  <2> QED BY <2>2, <2>3, HiddenStep
<1>4. CASE Close \/ (\E off \in Offs : CallSeek(off))
  <2>1. /\ UNCHANGED <<http_off, http_len>> /\ pc \in {"idle", "returned"}
        /\ pc' \in {"closed", "restart", "cancel_unpause", "cancel"}
    BY <1>4 DEF Close, CallSeek, Idle
  <2>2. UNCHANGED ReadFrom /\ Given' = <<>>
    BY <2>1 DEF ReadFrom, InRead, Given
  <2>3. UNCHANGED AtEof
    BY <2>1, <2>2 DEF AtEof
  <2> QED BY <2>2, <2>3, CallStep
<1>5. ASSUME NEW len \in Lens, CallRead(len) PROVE Stream!Next
  <2>1. /\ UNCHANGED <<http_off, http_len>> /\ pc \in {"idle", "returned"}
        /\ pc' \in {"unpause", "read"} /\ Len(outbuf') = 0 /\ http_off \in Nat
    BY <1>5 DEF CallRead, Idle, TypeOK
  <2>2. UNCHANGED ReadFrom /\ Given' = <<>>
    BY <2>1 DEF ReadFrom, InRead, Given
  <2>3. UNCHANGED AtEof
    BY <2>1, <2>2 DEF AtEof
  <2> QED BY <2>2, <2>3, CallStep
<1> QED
  BY <1>1, <1>2, <1>3, <1>4, <1>5, ReturnStep, SeekStepSeen DEF Steps

(* With an obliging server the HTTP stream is a seekable stream: every read *)
(* returns the bytes at the stream's offset, short only with end of file    *)
(* set, and every seek puts it where it was told.                           *)
THEOREM HttpIsStream == Obliging => (Spec => ImplementsStream)
<1> SUFFICES ASSUME Obliging PROVE Spec => ImplementsStream OBVIOUS
<1>1. RInv /\ [Next]_vars => [Stream!Next]_(Stream!vars)
  BY StepsAre, StepSeen DEF RInv
<1> QED
  BY <1>1, InitSeen, ObligingInvariant, PTL DEF Spec, ImplementsStream, Stream!Spec

(* A request to abort never outlives the seek that makes it: where seeks    *)
(* stay before the end and nothing breaks, a chunk always comes to take it. *)
NoAbortIsLeft == Idle \/ pc = "read" => state # "ABORT_REQUESTED"

(* What http_stale_abort refutes for a seek past the end cannot happen.     *)
THEOREM AbortsAreMet == Obliging => (Spec => []NoAbortIsLeft)
<1> SUFFICES ASSUME Obliging PROVE Spec => []NoAbortIsLeft OBVIOUS
<1>1. RInv => NoAbortIsLeft
  BY DEF RInv, Calls, Settled, NoAbortIsLeft
<1> QED BY <1>1, ObligingInvariant, PTL

(* A read returns what it was asked for unless the resource ends, as the    *)
(* tests expect of sl_http_read_cb; they use such a server and seek before  *)
(* the end.                                                                 *)
THEOREM ShortReadsAreEnds == Obliging => (Spec => ShortReadIsEnd)
<1> SUFFICES ASSUME Obliging PROVE Spec => ShortReadIsEnd OBVIOUS
<1>1. RInv /\ [Next]_vars
         => [(pc = "read" /\ pc' = "returned") =>
               (Len(outbuf) = outbuf_size \/ http_off >= FileLen)]_vars
  <2> SUFFICES ASSUME RInv, [Next]_vars, pc = "read", pc' = "returned"
               PROVE  Len(outbuf) = outbuf_size \/ http_off >= FileLen
    OBVIOUS
  <2>1. Steps
    BY StepsAre DEF RInv
  <2>2. ReadFull \/ ReadShort
    <3>1. ~Callback
      BY DEF Callback, Unpause, CancelUnpause, DeliverChunk
    <3> QED
      BY <2>1, <3>1 DEF Steps, StatusLine, HeaderLine, EndTransfer, MarkWorking, Cancelled,
         LeaveCancel, Restart, CallRead, CallSeek, Idle, Close, vars
  <2>3. CASE ReadFull
    BY <2>3 DEF ReadFull
  <2>4. CASE ReadShort
    <3>1. http_off = FileLen
      BY <2>4 DEF ReadShort, Over, RInv, Progress, InSeek
    <3> QED BY <3>1, ParameterAssumption
  <2> QED BY <2>2, <2>3, <2>4
<1> QED BY <1>1, ObligingInvariant, PTL DEF Spec, ShortReadIsEnd

=============================================================================
