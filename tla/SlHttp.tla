------------------------------- MODULE SlHttp -------------------------------
(***************************************************************************)
(* http.c: a stream over an HTTP resource, driven by libcurl.  A read runs  *)
(* the transfer until its buffer is full and pauses it inside libcurl's     *)
(* write callback; a seek aborts the transfer through the same callback and *)
(* adds the handle again with another range.                                *)
(*                                                                         *)
(* libcurl and the server are external.  libcurl hands over the body in     *)
(* chunks; a chunk whose callback answered PAUSE is held and offered again, *)
(* whole, by curl_easy_pause; a callback that returns anything else than    *)
(* the size it was given ends the transfer; a finished handle stays         *)
(* finished until it is removed and added again; the removal that the write *)
(* callback itself attempts is refused (CURLM_RECURSIVE_API_CALL).  The     *)
(* byte at offset o of the resource is o.  The loops of curl_multi_perform  *)
(* have one action per callback or end of transfer: a call of it that does  *)
(* nothing is not a step.                                                   *)
(*                                                                         *)
(* An operator whose name starts with Bug is a mutated form of the          *)
(* definition that follows it; no specification uses it.                    *)
(***************************************************************************)
EXTENDS Integers, Sequences

CONSTANTS FileLen, ChunkLen, Lens, Offs,
          PageLen,        \* length of the page that comes with an error status
          RangeSupport,   \* whether servers honour a Range header
          LengthKnown,    \* the server tells the length of the resource
          Faults          \* what may fail: "break" (a connection), "page" (the
                          \* server, with an error page), "line" (one it sends),
                          \* "multi" (libcurl)

ASSUME ParameterAssumption ==
    /\ FileLen \in Nat /\ ChunkLen \in Nat \ {0} /\ PageLen \in Nat
    /\ Lens \subseteq Nat /\ Offs \subseteq Nat
    /\ RangeSupport \subseteq BOOLEAN /\ LengthKnown \in BOOLEAN
    /\ Faults \subseteq {"break", "page", "multi", "line"}

VARIABLES
    http_off, http_len, http_status, http_range_allowed,    \* struct sl_http_s
    curlbuf_off, state,
    outbuf, outbuf_size,      \* the bytes in the caller's buffer, and its size
    range,                    \* CURLOPT_RANGE, or NoRange
    ranged,                   \* the server at hand honours a Range header
    phase, head, xoff, held,  \* the transfer: its phase, header lines to come,
                              \* offset of the next chunk, chunk held by a pause
    pc, target                \* the call in progress, the offset it seeks

meta     == <<http_len, http_status, http_range_allowed>>
options  == <<range, ranged>>
buffers  == <<curlbuf_off, outbuf, outbuf_size>>
transfer == <<phase, head, xoff, held>>
vars     == <<http_off, meta, buffers, state, options, transfer, pc, target>>

NoRange  == -1
InRead   == pc \in {"unpause", "read"}
InSeek   == pc \in {"cancel_unpause", "cancel", "restart"}
Idle     == pc \in {"idle", "returned"}

sl_http_eof_cb == http_off >= http_len /\ http_len >= 0

(* sl_http_open                                                             *)
Init ==
    /\ http_off = 0 /\ http_len = -1 /\ http_status = 0
    /\ http_range_allowed = "UNKNOWN"
    /\ curlbuf_off = 0 /\ state = "READY"
    /\ outbuf = <<>> /\ outbuf_size = 0
    /\ range = NoRange /\ ranged \in RangeSupport
    /\ phase = "added" /\ head = {} /\ xoff = 0 /\ held = <<>>
    /\ pc = "idle" /\ target = 0

-----------------------------------------------------------------------------
(* sl_http_write_cb_                                                        *)

Running == phase = "body" /\ held = <<>>

BugAborting == FALSE
Aborting    == state = "ABORT_REQUESTED"

BugAdvance(n) == http_off' = http_off + 1
Advance(n)    == http_off' = http_off + n

(* The callback has refused the chunk: the transfer fails.                  *)
Abort ==
    /\ state' = "ABORTED"
    /\ phase' = "done" /\ head' = {} /\ held' = <<>>
    /\ UNCHANGED <<http_off, buffers>>

BugTakeRest(chunk) ==
    LET n == Len(chunk) - curlbuf_off
    IN  /\ outbuf' = outbuf \o SubSeq(chunk, curlbuf_off + 1, Len(chunk))
        /\ Advance(n)
        /\ held' = <<>> /\ UNCHANGED <<curlbuf_off, outbuf_size, state, phase, head>>

(* The rest of the chunk fits and leaves room.                              *)
TakeRest(chunk) ==
    LET n == Len(chunk) - curlbuf_off
    IN  /\ outbuf' = outbuf \o SubSeq(chunk, curlbuf_off + 1, Len(chunk))
        /\ Advance(n)
        /\ curlbuf_off' = 0
        /\ held' = <<>> /\ UNCHANGED <<outbuf_size, state, phase, head>>

BugTakeAndPause(chunk) ==
    LET n == outbuf_size - Len(outbuf)
    IN  /\ outbuf' = outbuf \o SubSeq(chunk, curlbuf_off + 1, curlbuf_off + n)
        /\ Advance(n)
        /\ curlbuf_off' = curlbuf_off + Len(outbuf')
        /\ state' = "PAUSED"
        /\ held' = chunk /\ UNCHANGED <<outbuf_size, phase, head>>

(* The chunk fills the caller's buffer: remember where, and pause.          *)
TakeAndPause(chunk) ==
    LET n == outbuf_size - Len(outbuf)
    IN  /\ outbuf' = outbuf \o SubSeq(chunk, curlbuf_off + 1, curlbuf_off + n)
        /\ Advance(n)
        /\ curlbuf_off' = curlbuf_off + n
        /\ state' = "PAUSED"
        /\ held' = chunk /\ UNCHANGED <<outbuf_size, phase, head>>

WriteCb(chunk) ==
    \/ Aborting /\ Abort
    \/ /\ ~Aborting /\ Len(chunk) - curlbuf_off < outbuf_size - Len(outbuf)
       /\ TakeRest(chunk)
    \/ /\ ~Aborting /\ Len(chunk) - curlbuf_off >= outbuf_size - Len(outbuf)
       /\ TakeAndPause(chunk)

-----------------------------------------------------------------------------
(* sl_http_header_cb_                                                       *)

Line(key, num) == [key |-> key, num |-> num]

(* What a server may answer; strtoull reads the "*" of an unknown length    *)
(* in Content-Range as 0, NoTotal stands for one with nothing after the "/" *)
(* or without it, and 1 and 0 for "bytes" and anything else.                *)
NoTotal == -1

FullHeaders ==
    {Line("Date", 0)}
    \cup (IF LengthKnown THEN {Line("Content-Length", FileLen)} ELSE {})

Totals == {IF LengthKnown THEN FileLen ELSE 0}
          \cup (IF "line" \in Faults THEN {NoTotal} ELSE {})

PartialHeaders(total) ==
    {Line("Date", 0), Line("Content-Length", FileLen - range),
     Line("Content-Range", total)}

AcceptRanges == {Line("Accept-Ranges", IF ranged THEN 1 ELSE 0)}

(* 500 stands for any status that brings a page of its own as the body.     *)
Statuses ==
    (IF ~ranged \/ range = NoRange THEN {200}
     ELSE IF range < FileLen THEN {206} ELSE {416})
    \cup (IF "page" \in Faults THEN {500} ELSE {})

(* The status line; on 416 the callback returns 0 and ends the transfer.    *)
StatusLine ==
    /\ phase = "added"
    /\ http_status' \in Statuses
    /\ phase' = IF http_status' = 416 THEN "done" ELSE "body"
    /\ head' \in CASE http_status' = 200 -> {FullHeaders, FullHeaders \cup AcceptRanges}
                   [] http_status' = 206 -> {PartialHeaders(n) : n \in Totals}
                   [] http_status' = 416 -> {{}}
                   [] http_status' = 500 -> {{Line("Content-Length", PageLen)}}
    /\ xoff' = IF http_status' = 206 THEN range ELSE 0
    /\ UNCHANGED <<http_off, http_len, http_range_allowed, buffers, state, options,
                   held, pc, target>>

BugRangeAllowed(line) ==
    CASE http_range_allowed # "UNKNOWN" -> http_range_allowed
      [] line.key = "Content-Range"     -> "YES"
      [] http_off # 0                   -> "NO"
      [] line.key = "Accept-Ranges"     -> IF line.num = 1 THEN "YES" ELSE "NO"
      [] OTHER                          -> "UNKNOWN"

RangeAllowed(line) ==
    IF http_range_allowed # "UNKNOWN"               THEN http_range_allowed
    ELSE IF line.key = "Content-Range"              THEN "YES"
    ELSE IF http_off # 0 /\ http_status = 200       THEN "NO"
    ELSE IF line.key # "Accept-Ranges"              THEN "UNKNOWN"
    ELSE IF line.num = 1                            THEN "YES" ELSE "NO"

BugTellsLength(line) == line.key \in {"Content-Range", "Content-Length"}

TellsLength(line) ==
    \/ http_status = 206 /\ line.key = "Content-Range" /\ line.num # NoTotal
    \/ http_status = 200 /\ line.key = "Content-Length"

(* Any other line, in any order.                                            *)
HeaderLine ==
    \E line \in head :
        /\ phase = "body"
        /\ head' = head \ {line}
        /\ http_range_allowed' = RangeAllowed(line)
        /\ http_len' = IF http_len < 0 /\ TellsLength(line) THEN line.num ELSE http_len
        /\ UNCHANGED <<http_off, http_status, buffers, state, options, phase, xoff,
                       held, pc, target>>

-----------------------------------------------------------------------------
(* What curl_multi_perform may do, in a read or in the loop of              *)
(* sl_cancel_transfer_.                                                     *)

Performing == (pc = "read" /\ Len(outbuf) < outbuf_size) \/ pc = "cancel"

OnPage    == http_status = 500
BodyLen   == IF OnPage THEN PageLen ELSE FileLen
BodyAt(o) == IF OnPage THEN FileLen ELSE o      \* no byte of the resource

DeliverChunk ==
    /\ Running /\ head = {} /\ xoff < BodyLen
    /\ \E n \in 1 .. ChunkLen :
         /\ xoff + n <= BodyLen
         /\ WriteCb([i \in 1 .. n |-> BodyAt(xoff + i - 1)])
         /\ xoff' = xoff + n
    /\ UNCHANGED <<meta, options, pc, target>>

(* The body is complete, or the connection breaks.                          *)
EndTransfer ==
    /\ \/ Running /\ head = {} /\ xoff = BodyLen
       \/ "break" \in Faults /\ phase # "done" /\ held = <<>>
    /\ phase' = "done" /\ head' = {}
    /\ UNCHANGED <<http_off, meta, buffers, state, options, xoff, held, pc, target>>

Perform == Performing /\ (StatusLine \/ HeaderLine \/ DeliverChunk \/ EndTransfer)

-----------------------------------------------------------------------------
(* sl_http_read_cb                                                          *)

CallRead(len) ==
    /\ Idle
    /\ outbuf' = <<>> /\ outbuf_size' = len
    /\ pc' = IF state = "PAUSED" THEN "unpause" ELSE "read"
    /\ UNCHANGED <<http_off, meta, curlbuf_off, state, options, transfer, target>>

(* curl_easy_pause(CURLPAUSE_CONT); nothing may be paused any more.         *)
Unpause ==
    /\ pc = "unpause"
    /\ pc' = "read"
    /\ IF held = <<>> THEN UNCHANGED <<http_off, buffers, state, phase, head, held>>
                      ELSE WriteCb(held)
    /\ UNCHANGED <<meta, options, xoff, target>>

BugMayBeWorking == TRUE
MayBeWorking    == state = "READY"

(* curl_multi_perform has returned and the transfer is still running.       *)
MarkWorking ==
    /\ pc = "read" /\ outbuf_size > 0 /\ phase # "done"
    /\ MayBeWorking /\ state # "WORKING"
    /\ state' = "WORKING"
    /\ UNCHANGED <<http_off, meta, buffers, options, transfer, pc, target>>

ReadFull ==
    /\ pc = "read" /\ Len(outbuf) = outbuf_size
    /\ pc' = "returned"
    /\ UNCHANGED <<http_off, meta, buffers, state, options, transfer, target>>

BugOver == phase = "done" /\ state = "WORKING"
Over    == phase = "done"

(* No handle is running: a short read.                                      *)
ReadShort ==
    /\ pc = "read" /\ Len(outbuf) < outbuf_size /\ Over
    /\ state' = "READY" /\ pc' = "returned"
    /\ UNCHANGED <<http_off, meta, buffers, options, transfer, target>>

(* A call of curl_multi fails.                                              *)
ReadError ==
    /\ "multi" \in Faults /\ pc = "read" /\ Len(outbuf) < outbuf_size
    /\ pc' = "returned"
    /\ UNCHANGED <<http_off, meta, buffers, state, options, transfer, target>>

ReadStep == Unpause \/ MarkWorking \/ ReadFull \/ ReadShort

-----------------------------------------------------------------------------
(* sl_http_seek_cb, and sl_cancel_transfer_ in its middle                   *)

BugForgetChunk == UNCHANGED curlbuf_off
ForgetChunk    == curlbuf_off' = 0

(* An offset below 0 is refused before anything is touched.                 *)
SeekRefused == Idle /\ UNCHANGED vars

CallSeek(off) ==
    /\ Idle
    /\ target' = off
    /\ \/ state = "READY"  /\ pc' = "restart" /\ UNCHANGED state
       \/ state = "PAUSED" /\ pc' = "cancel_unpause" /\ state' = "ABORT_REQUESTED"
       \/ /\ state \notin {"READY", "PAUSED"}
          /\ pc' = "cancel" /\ state' = "ABORT_REQUESTED"
    /\ UNCHANGED <<http_off, meta, buffers, options, transfer>>

CancelUnpause ==
    /\ pc = "cancel_unpause"
    /\ IF held = <<>> THEN UNCHANGED <<http_off, buffers, state, phase, head, held>>
                      ELSE WriteCb(held)
    /\ pc' = IF state' = "ABORTED" THEN "restart" ELSE "cancel"
    /\ UNCHANGED <<meta, options, xoff, target>>

(* The loop ends when no handle is running, or a call fails.                *)
LeaveCancel ==
    /\ pc = "cancel"
    /\ pc' = "restart"
    /\ UNCHANGED <<http_off, meta, buffers, state, options, transfer, target>>

Cancelled   == phase = "done" /\ LeaveCancel
CancelError == "multi" \in Faults /\ LeaveCancel

BugAddHandle == UNCHANGED transfer
AddHandle    == phase' = "added" /\ head' = {} /\ held' = <<>> /\ xoff' = 0

Restart ==
    /\ pc = "restart"
    /\ range' = target /\ http_off' = target
    /\ ForgetChunk /\ AddHandle
    /\ pc' = "idle"
    /\ UNCHANGED <<meta, state, outbuf, outbuf_size, ranged, target>>

SeekStep == CancelUnpause \/ Cancelled \/ Restart

-----------------------------------------------------------------------------
(* sl_http_close; the cleanup of a handle takes it out of the multi handle. *)
Close ==
    /\ Idle
    /\ pc' = "closed"
    /\ UNCHANGED <<http_off, meta, buffers, state, options, transfer, target>>

Closed == pc = "closed" /\ UNCHANGED vars

Seeks == \E off \in Offs : CallSeek(off)
Reads == \E len \in Lens : CallRead(len)

Next == Perform \/ ReadStep \/ ReadError \/ SeekStep \/ CancelError
        \/ Reads \/ Seeks \/ SeekRefused \/ Close \/ Closed

Spec == Init /\ [][Next]_vars

(* The server answers or the connection breaks, and the caller's thread     *)
(* runs; calls of curl_multi need not fail.                                 *)
FairSpec == Spec /\ WF_vars(Perform) /\ WF_vars(ReadStep) /\ WF_vars(SeekStep)

(* A caller that comes to the end of its seeks and goes on reading, as the  *)
(* loops of check_streamlike_http.c do.                                     *)
ReaderSpec ==
    /\ FairSpec
    /\ WF_vars(\E len \in Lens \ {0} : CallRead(len))
    /\ <>[][~Seeks /\ ~Close /\ ~CallRead(0)]_vars

-----------------------------------------------------------------------------
(* The offset into the chunk at hand never leaves the chunks libcurl gives, *)
(* no read overruns its buffer, and the rest stays in range.                *)
TypeOK ==
    /\ http_off \in Nat /\ http_len \in Nat \cup {-1}
    /\ http_status \in {0, 200, 206, 416, 500}
    /\ http_range_allowed \in {"UNKNOWN", "YES", "NO"}
    /\ state \in {"READY", "WORKING", "PAUSED", "ABORT_REQUESTED", "ABORTED"}
    /\ curlbuf_off \in 0 .. ChunkLen
    /\ outbuf \in Seq(Nat) /\ outbuf_size \in Nat /\ Len(outbuf) <= outbuf_size
    /\ range \in Offs \cup {NoRange} /\ ranged \in RangeSupport /\ target \in Offs \cup {0}
    /\ phase \in {"added", "body", "done"} /\ xoff \in Nat
    /\ held \in Seq(Nat) /\ Len(held) <= ChunkLen
    /\ pc \in {"idle", "returned", "unpause", "read", "cancel_unpause", "cancel",
               "restart", "closed"}

(* The bytes that follow a seek are the right ones unless the server ignored*)
(* the range, and then sl_seekable denies that the stream can seek.         *)
Honoured == http_range_allowed # "NO"

(* A read delivers the bytes of the resource from the stream's offset on,   *)
(* whatever seeks, pauses, aborts, error pages and broken connections came  *)
(* before; only the body of an error page takes their place.                *)
BytesAtOffset ==
    InRead /\ Honoured /\ ~OnPage =>
        \A i \in 1 .. Len(outbuf) : outbuf[i] = http_off - Len(outbuf) + i - 1

(* What the transfer gives next, first the rest of a held chunk, is the     *)
(* byte at the stream's offset: nothing is lost or repeated over a pause.   *)
TransferInStep ==
    phase = "body" /\ head = {} /\ ~InSeek =>
        /\ curlbuf_off <= Len(held)
        /\ Honoured /\ ~OnPage => xoff - (Len(held) - curlbuf_off) = http_off

(* A transfer paused in libcurl is known to be paused: nothing else would   *)
(* unpause it, and a read would spin for ever.                              *)
NoLostPause == held # <<>> => state = "PAUSED" \/ pc = "cancel_unpause"

(* End of file is reported only at or past the end of the resource.         *)
EofIsEarned == sl_http_eof_cb => http_off >= FileLen

(* What sl_http_seekable_cb knows of the server is true, in whichever order *)
(* the header lines come and whichever transfer brought them.               *)
SeekableIsTrue ==
    /\ http_range_allowed = "YES" => ranged
    /\ http_range_allowed = "NO"  => ~ranged

(* To its user the stream is a seekable stream over the resource.           *)
ReadFrom == IF InRead THEN http_off - Len(outbuf) ELSE http_off

Stream == INSTANCE SeekableStream WITH
             pos <- ReadFrom,
             eof <- ReadFrom >= http_len /\ http_len >= 0,
             out <- IF pc = "returned" THEN outbuf ELSE <<>>
ImplementsStream == Stream!Spec

(* Reads and seeks end, also over broken connections.                       *)
ReadReturns == InRead ~> pc = "returned"
SeekReturns == InSeek ~> pc = "idle"

(* A caller that reads until sl_eof gets there, whatever it sought before.  *)
ReaderReachesEof == <>[](sl_http_eof_cb \/ pc = "closed")

(* check_streamlike_http.c:167: a read returns what it was asked for unless *)
(* the resource ends.                                                       *)
ShortReadIsEnd ==
    [][(pc = "read" /\ pc' = "returned") =>
          (Len(outbuf) = outbuf_size \/ http_off >= FileLen)]_vars

=============================================================================
