---------------------------- MODULE SlHttpProofs ----------------------------
(***************************************************************************)
(* Proofs about SlHttp, for every length of the resource, of a chunk and of *)
(* an error page, every set of lengths and offsets, every server and every  *)
(* fault.                                                                   *)
(*                                                                         *)
(* That the transfer is in step with the stream's offset when the body      *)
(* begins depends on the answer to the range: a server that ignored it is   *)
(* found out by the first header line, so that Bytes has to say what is     *)
(* known between the status line and that line, and Headers which lines may *)
(* still come.  Chunks says where a held chunk can be: libcurl holds one    *)
(* only for a stream that knows it is paused.                               *)
(***************************************************************************)
EXTENDS SlHttp, TLAPS

(* The header lines that may come after the status line.                    *)
Sent ==
    IF http_status = 200 THEN FullHeaders \cup AcceptRanges
    ELSE IF http_status = 206 THEN UNION {PartialHeaders(n) : n \in Totals}
    ELSE {Line("Content-Length", PageLen)}

Headers ==
    /\ head # {} => /\ phase = "body" /\ head \subseteq Sent
                    /\ http_status \in {200, 206, 500}
                    /\ http_status = 206 => ranged
                    /\ http_status = 200 /\ ranged => http_off = 0
    /\ SeekableIsTrue
    /\ phase = "added" => http_off = (IF range = NoRange THEN 0 ELSE range)

Chunks ==
    /\ phase # "done" => curlbuf_off <= Len(held)
    /\ held # <<>> => phase = "body" /\ head = {} /\ (state = "PAUSED" \/ pc = "cancel_unpause")
    /\ pc = "cancel_unpause" => state = "ABORT_REQUESTED"
    /\ InSeek => target \in Offs

(* The next byte of the transfer is the one at the stream's offset, unless  *)
(* the server ignored the range, which the next header line will tell.      *)
InStep == xoff - (Len(held) - curlbuf_off) = http_off

Bytes ==
    /\ phase = "body" /\ ~OnPage =>
          \/ InStep \/ ~Honoured
          \/ head # {} /\ http_status = 200 /\ http_off # 0 /\ ~ranged
    /\ ~OnPage => \A j \in 1 .. Len(held) : held[j] = xoff - Len(held) + j - 1
    /\ BytesAtOffset
    /\ InRead /\ phase = "added" => outbuf = <<>>

USE DEF meta, options, buffers, transfer

-----------------------------------------------------------------------------
(* Where the elements of a concatenation come from.                         *)
LEMMA AppendFacts ==
    ASSUME NEW q \in Seq(Nat), NEW b \in Seq(Nat)
    PROVE  /\ q \o b \in Seq(Nat)
           /\ Len(q \o b) = Len(q) + Len(b)
           /\ \A i \in 1 .. Len(q) : (q \o b)[i] = q[i]
           /\ \A i \in 1 .. Len(b) : (q \o b)[Len(q) + i] = b[i]
  OBVIOUS

(* What a piece of a sequence adds to another one.                          *)
LEMMA CopyFacts ==
    ASSUME NEW p \in Seq(Nat), NEW q \in Seq(Nat),
           NEW a \in 0 .. Len(q), NEW n \in 0 .. Len(q) - a
    PROVE  LET r == p \o SubSeq(q, a + 1, a + n)
           IN  /\ r \in Seq(Nat) /\ Len(r) = Len(p) + n
               /\ \A i \in 1 .. Len(p) : r[i] = p[i]
               /\ \A i \in 1 .. n : r[Len(p) + i] = q[a + i]
<1> DEFINE b == SubSeq(q, a + 1, a + n)
<1>1. b \in Seq(Nat) /\ Len(b) = n /\ \A i \in 1 .. n : b[i] = q[a + i]
  OBVIOUS
<1> HIDE DEF b
<1>2. /\ p \o b \in Seq(Nat) /\ Len(p \o b) = Len(p) + n
      /\ \A i \in 1 .. Len(p) : (p \o b)[i] = p[i]
      /\ \A i \in 1 .. n : (p \o b)[Len(p) + i] = b[i]
  BY <1>1, AppendFacts
<1> QED BY <1>1, <1>2 DEF b

(* A stream takes n bytes of a chunk from curlbuf_off on.                   *)
Takes(chunk, n) ==
    /\ http_off' = http_off + n
    /\ outbuf' \in Seq(Nat) /\ Len(outbuf') = Len(outbuf) + n
    /\ \A i \in 1 .. Len(outbuf) : outbuf'[i] = outbuf[i]
    /\ \A i \in 1 .. n : outbuf'[Len(outbuf) + i] = chunk[curlbuf_off + i]
    /\ outbuf_size' = outbuf_size /\ phase' = phase /\ head' = head
    /\ Len(outbuf') <= outbuf_size /\ curlbuf_off + n <= Len(chunk)
    /\ \/ /\ held' = <<>> /\ curlbuf_off' = 0 /\ state' = state
          /\ curlbuf_off + n = Len(chunk)
       \/ held' = chunk /\ curlbuf_off' = curlbuf_off + n /\ state' = "PAUSED"

(* The write callback refuses the chunk or takes a piece of it, and then    *)
(* keeps its place in what is left.                                         *)
LEMMA WriteFacts ==
    ASSUME TypeOK, NEW chunk \in Seq(Nat), curlbuf_off <= Len(chunk), WriteCb(chunk)
    PROVE  \/ Abort /\ Aborting
           \/ ~Aborting /\ \E n \in Nat : Takes(chunk, n)
<1> USE DEF TypeOK
<1>1. CASE ~Aborting /\ TakeRest(chunk) /\ Len(chunk) - curlbuf_off < outbuf_size - Len(outbuf)
  <2> DEFINE n == Len(chunk) - curlbuf_off
  <2>1. n \in 0 .. Len(chunk) - curlbuf_off /\ curlbuf_off \in 0 .. Len(chunk) /\ n \in Nat
    BY <1>1
  <2>2. Len(chunk) = curlbuf_off + n
    OBVIOUS
  <2>3. /\ outbuf' = outbuf \o SubSeq(chunk, curlbuf_off + 1, Len(chunk))
        /\ http_off' = http_off + n
        /\ UNCHANGED <<outbuf_size, phase, head>>
        /\ held' = <<>> /\ curlbuf_off' = 0 /\ state' = state
    BY <1>1 DEF TakeRest, Advance
  <2>4. outbuf' = outbuf \o SubSeq(chunk, curlbuf_off + 1, curlbuf_off + n)
    BY <2>2, <2>3
  <2>5. Len(outbuf) + n <= outbuf_size /\ outbuf \in Seq(Nat)
    BY <1>1
  <2> HIDE DEF n
  <2>6. /\ outbuf' \in Seq(Nat) /\ Len(outbuf') = Len(outbuf) + n
        /\ \A i \in 1 .. Len(outbuf) : outbuf'[i] = outbuf[i]
        /\ \A i \in 1 .. n : outbuf'[Len(outbuf) + i] = chunk[curlbuf_off + i]
    BY <2>1, <2>4, <2>5, CopyFacts
  <2>7. Takes(chunk, n)
    BY <2>1, <2>2, <2>3, <2>5, <2>6 DEF Takes
  <2> QED BY <1>1, <2>1, <2>7
<1>2. CASE ~Aborting /\ TakeAndPause(chunk) /\ Len(chunk) - curlbuf_off >= outbuf_size - Len(outbuf)
  <2> DEFINE n == outbuf_size - Len(outbuf)
  <2>1. n \in 0 .. Len(chunk) - curlbuf_off /\ curlbuf_off \in 0 .. Len(chunk) /\ n \in Nat
    BY <1>2
  <2>2. curlbuf_off + n = curlbuf_off + n
    OBVIOUS
  <2>3. /\ outbuf' = outbuf \o SubSeq(chunk, curlbuf_off + 1, curlbuf_off + n)
        /\ http_off' = http_off + n
        /\ UNCHANGED <<outbuf_size, phase, head>>
        /\ held' = chunk /\ curlbuf_off' = curlbuf_off + n /\ state' = "PAUSED"
    BY <1>2 DEF TakeAndPause, Advance
  <2>4. outbuf' = outbuf \o SubSeq(chunk, curlbuf_off + 1, curlbuf_off + n)
    BY <2>2, <2>3
  <2>5. Len(outbuf) + n <= outbuf_size /\ outbuf \in Seq(Nat)
    BY <1>2
  <2> HIDE DEF n
  <2>6. /\ outbuf' \in Seq(Nat) /\ Len(outbuf') = Len(outbuf) + n
        /\ \A i \in 1 .. Len(outbuf) : outbuf'[i] = outbuf[i]
        /\ \A i \in 1 .. n : outbuf'[Len(outbuf) + i] = chunk[curlbuf_off + i]
    BY <2>1, <2>4, <2>5, CopyFacts
  <2>7. Takes(chunk, n)
    BY <2>1, <2>2, <2>3, <2>5, <2>6 DEF Takes
  <2> QED BY <1>2, <2>1, <2>7
<1> QED BY <1>1, <1>2 DEF WriteCb

(* Taking a piece of a chunk keeps what it changes in range.                *)
Changed ==
    /\ http_off \in Nat
    /\ outbuf \in Seq(Nat) /\ outbuf_size \in Nat /\ Len(outbuf) <= outbuf_size
    /\ phase \in {"added", "body", "done"}
    /\ state \in {"READY", "WORKING", "PAUSED", "ABORT_REQUESTED", "ABORTED"}
    /\ curlbuf_off \in 0 .. ChunkLen
    /\ held \in Seq(Nat) /\ Len(held) <= ChunkLen

(* What the write callback takes of a chunk keeps the variables it changes  *)
(* in their ranges.                                                         *)
LEMMA TakesType ==
    ASSUME TypeOK, NEW chunk \in Seq(Nat), Len(chunk) <= ChunkLen, NEW n \in Nat, Takes(chunk, n)
    PROVE  Changed'
<1>1. /\ http_off' \in Nat /\ outbuf' \in Seq(Nat) /\ outbuf_size' \in Nat
      /\ Len(outbuf') <= outbuf_size' /\ phase' \in {"added", "body", "done"}
  BY DEF TypeOK, Takes
<1>2. CASE /\ held' = <<>> /\ curlbuf_off' = 0 /\ state' = state
  <2>1. held' \in Seq(Nat) /\ Len(held') = 0 /\ ChunkLen \in Nat
    BY <1>2, ParameterAssumption
  <2> QED BY <1>1, <1>2, <2>1 DEF TypeOK, Changed
<1>3. CASE held' = chunk /\ curlbuf_off' = curlbuf_off + n /\ state' = "PAUSED"
  <2>1. curlbuf_off' \in 0 .. ChunkLen
    BY <1>3, ParameterAssumption DEF TypeOK, Takes
  <2> QED BY <1>1, <1>3, <2>1 DEF Changed
<1> QED BY <1>2, <1>3 DEF Takes

(* What a chunk that libcurl delivers is.                                   *)
LEMMA DeliverFacts ==
    ASSUME TypeOK, DeliverChunk
    PROVE  \E n \in 1 .. ChunkLen, chunk \in Seq(Nat) :
              /\ Len(chunk) = n /\ WriteCb(chunk)
              /\ ~OnPage => \A j \in 1 .. n : chunk[j] = xoff + j - 1
              /\ xoff' = xoff + n
<1> USE ParameterAssumption DEF TypeOK
<1>1. PICK n \in 1 .. ChunkLen :
         WriteCb([i \in 1 .. n |-> BodyAt(xoff + i - 1)]) /\ xoff' = xoff + n
  BY DEF DeliverChunk
<1> DEFINE chunk == [i \in 1 .. n |-> BodyAt(xoff + i - 1)]
<1>2. n \in Nat /\ \A i \in 1 .. n : BodyAt(xoff + i - 1) \in Nat
  BY DEF BodyAt
<1>3. chunk \in Seq(Nat) /\ Len(chunk) = n
  BY <1>2
<1>4. ~OnPage => \A j \in 1 .. n : chunk[j] = xoff + j - 1
  BY <1>2 DEF BodyAt
<1> QED BY <1>1, <1>3, <1>4

(* What a header line can say, given the status.                            *)
LEMMA LineFacts ==
    ASSUME TypeOK, Headers, NEW line \in head
    PROVE  /\ line.key = "Content-Range" => http_status = 206
           /\ http_status = 206 /\ line.key = "Content-Range"
                 => line.num = NoTotal \/ line.num = IF LengthKnown THEN FileLen ELSE 0
           /\ http_status = 200 /\ line.key = "Content-Length" => line.num = FileLen
           /\ line.key = "Accept-Ranges" => line.num = IF ranged THEN 1 ELSE 0
<1> USE DEF Headers, Line
<1>1. http_status \in {200, 206, 500} /\ line \in Sent
  OBVIOUS
<1>2. CASE http_status = 200
  BY <1>1, <1>2 DEF Sent, FullHeaders, AcceptRanges
<1>3. CASE http_status = 206
  <2>1. PICK n \in Totals : line \in PartialHeaders(n)
    BY <1>1, <1>3 DEF Sent
  <2>2. line.key = "Content-Range" => line.num = n
    BY <2>1 DEF PartialHeaders
  <2> QED BY <1>3, <2>1, <2>2 DEF Totals, PartialHeaders
<1>4. CASE http_status = 500
  BY <1>1, <1>4 DEF Sent
<1> QED BY <1>1, <1>2, <1>3, <1>4

(* The lines that may come change with the answer and the request only.     *)
LEMMA SentFacts == UNCHANGED <<http_status, options>> => Sent' = Sent
<1> SUFFICES ASSUME UNCHANGED <<http_status, options>> PROVE Sent' = Sent OBVIOUS
<1>1. http_status' = http_status /\ ranged' = ranged /\ range' = range
  BY DEF options
<1>2. FullHeaders' = FullHeaders /\ AcceptRanges' = AcceptRanges
  BY <1>1 DEF FullHeaders, AcceptRanges
<1>3. (UNION {PartialHeaders(n) : n \in Totals})' = UNION {PartialHeaders(n) : n \in Totals}
  BY <1>1 DEF PartialHeaders
<1>4. CASE http_status = 200
  BY <1>1, <1>2, <1>4 DEF Sent
<1>5. CASE http_status # 200 /\ http_status = 206
  BY <1>1, <1>3, <1>5 DEF Sent
<1>6. CASE http_status # 200 /\ http_status # 206
  BY <1>1, <1>6 DEF Sent, Line
<1> QED BY <1>4, <1>5, <1>6

(* No step leaves the ranges.                                               *)
LEMMA TypeHolds == TypeOK /\ Headers /\ Chunks /\ [Next]_vars => TypeOK'
<1> SUFFICES ASSUME TypeOK, Headers, Chunks, [Next]_vars PROVE TypeOK' OBVIOUS
<1> USE ParameterAssumption DEF TypeOK, Headers, Chunks, SeekableIsTrue
<1>1. CASE Performing /\ StatusLine
  <2>1. http_status' \in {200, 206, 416, 500} /\ phase' \in {"done", "body"}
    BY <1>1 DEF StatusLine, Statuses
  <2>2. http_status' = 206 => range # NoRange
    BY <1>1 DEF StatusLine, Statuses
  <2>3. xoff' \in Nat
    BY <1>1, <2>2 DEF StatusLine
  <2> QED BY <1>1, <2>1, <2>3 DEF StatusLine
<1>2. CASE Performing /\ HeaderLine
  <2>1. PICK line \in head :
           /\ http_range_allowed' = RangeAllowed(line)
           /\ http_len' = IF http_len < 0 /\ TellsLength(line) THEN line.num ELSE http_len
    BY <1>2 DEF HeaderLine
  <2>2. RangeAllowed(line) \in {"UNKNOWN", "YES", "NO"}
    BY DEF RangeAllowed
  <2>3. TellsLength(line) => line.num \in Nat
    BY LineFacts DEF TellsLength
  <2>4. http_len' \in Nat \cup {-1}
    BY <2>1, <2>3
  <2> QED BY <1>2, <2>1, <2>2, <2>4 DEF HeaderLine
<1>3. CASE Performing /\ DeliverChunk
  <2>1. PICK n \in 1 .. ChunkLen, chunk \in Seq(Nat) :
           Len(chunk) = n /\ WriteCb(chunk) /\ xoff' = xoff + n
    BY <1>3, DeliverFacts
  <2>2. phase = "body" /\ held = <<>> /\ curlbuf_off = 0
        /\ UNCHANGED <<meta, options, pc, target>>
    BY <1>3 DEF DeliverChunk, Running
  <2>3. CASE Abort
    BY <2>1, <2>2, <2>3 DEF Abort
  <2>4. ASSUME NEW m \in Nat, Takes(chunk, m) PROVE TypeOK'
    <3>1. Changed'
      BY <2>1, <2>4, TakesType
    <3>2. xoff' \in Nat
      BY <2>1
    <3> QED BY <2>2, <3>1, <3>2 DEF Changed
  <2> QED BY <2>1, <2>2, <2>3, <2>4, WriteFacts
<1>4. CASE Performing /\ EndTransfer BY <1>4 DEF EndTransfer
<1>5. CASE Unpause
  <2>1. CASE held = <<>>
    BY <1>5, <2>1 DEF Unpause
  <2>2. CASE held # <<>>
    <3>1. held \in Seq(Nat) /\ Len(held) <= ChunkLen /\ curlbuf_off <= Len(held) /\ WriteCb(held)
          /\ phase = "body"
      BY <1>5, <2>2 DEF Unpause
    <3>2. pc' = "read" /\ UNCHANGED <<meta, options, xoff, target>>
      BY <1>5, <2>2 DEF Unpause
    <3>3. CASE Abort
      BY <3>2, <3>3 DEF Abort
    <3>4. ASSUME NEW n \in Nat, Takes(held, n) PROVE TypeOK'
      <4>1. Changed'
        BY <3>1, <3>4, TakesType
      <4> QED BY <3>2, <4>1 DEF Changed
    <3> QED BY <3>1, <3>3, <3>4, WriteFacts
  <2> QED BY <2>1, <2>2
<1>6. CASE MarkWorking BY <1>6 DEF MarkWorking
<1>7. CASE ReadFull BY <1>7 DEF ReadFull
<1>8. CASE ReadShort BY <1>8 DEF ReadShort
<1>9. CASE ReadError BY <1>9 DEF ReadError
<1>10. CASE CancelUnpause
  <2>1. CASE held = <<>>
    BY <1>10, <2>1 DEF CancelUnpause
  <2>2. CASE held # <<>>
    <3>1. held \in Seq(Nat) /\ Len(held) <= ChunkLen /\ curlbuf_off <= Len(held) /\ WriteCb(held)
          /\ phase = "body"
      BY <1>10, <2>2 DEF CancelUnpause
    <3>2. pc' \in {"restart", "cancel"} /\ UNCHANGED <<meta, options, xoff, target>>
      BY <1>10, <2>2 DEF CancelUnpause
    <3>3. CASE Abort
      BY <3>2, <3>3 DEF Abort
    <3>4. ASSUME NEW n \in Nat, Takes(held, n) PROVE TypeOK'
      <4>1. Changed'
        BY <3>1, <3>4, TakesType
      <4> QED BY <3>2, <4>1 DEF Changed
    <3> QED BY <3>1, <3>3, <3>4, WriteFacts
  <2> QED BY <2>1, <2>2
<1>11. CASE LeaveCancel BY <1>11 DEF LeaveCancel
<1>12. CASE Restart
  <2>1. held' = <<>> /\ held' \in Seq(Nat) /\ Len(held') = 0 /\ curlbuf_off' = 0 /\ xoff' = 0
        /\ phase' = "added" /\ pc' = "idle"
    BY <1>12 DEF Restart, ForgetChunk, AddHandle
  <2>2. http_off' = target /\ range' \in Offs \cup {NoRange} /\ target \in Nat
        /\ UNCHANGED <<meta, state, outbuf, outbuf_size, ranged, target>>
    <3>1. target \in Offs
      BY <1>12 DEF Restart, InSeek
    <3> QED BY <1>12, <3>1 DEF Restart
  <2>3. curlbuf_off' \in 0 .. ChunkLen /\ Len(held') <= ChunkLen
    BY <2>1
  <2> QED BY <2>1, <2>2, <2>3
<1>13. ASSUME NEW len \in Lens, CallRead(len) PROVE TypeOK' BY <1>13 DEF CallRead, Idle
<1>14. ASSUME NEW off \in Offs, CallSeek(off) PROVE TypeOK' BY <1>14 DEF CallSeek, Idle
<1>15. CASE Close BY <1>15 DEF Close, Idle
<1>16. CASE UNCHANGED vars BY <1>16 DEF vars
<1> QED
  BY <1>1, <1>2, <1>3, <1>4, <1>5, <1>6, <1>7, <1>8, <1>9, <1>10, <1>11, <1>12,
     <1>13, <1>14, <1>15, <1>16
     DEF Next, Perform, ReadStep, SeekStep, Cancelled, CancelError, Reads, Seeks, SeekRefused, Closed

(* Only lines of the answer at hand come, and each is taken for what it is. *)
LEMMA HeadersHolds == TypeOK /\ Headers /\ Chunks /\ [Next]_vars => Headers'
<1> SUFFICES ASSUME TypeOK, Headers, Chunks, [Next]_vars PROVE Headers' OBVIOUS
<1> USE ParameterAssumption DEF TypeOK, Headers, Chunks, SeekableIsTrue
<1>1. CASE Performing /\ StatusLine
  <2>1. http_status' \in {200, 206, 416, 500} /\ phase = "added"
        /\ phase' = (IF http_status' = 416 THEN "done" ELSE "body")
    BY <1>1 DEF StatusLine, Statuses
  <2>2. (http_status' = 206 => ranged) /\ (http_status' = 200 /\ ranged => range = NoRange)
    BY <1>1 DEF StatusLine, Statuses
  <2>3. UNCHANGED <<http_off, http_len, http_range_allowed, options>>
    BY <1>1 DEF StatusLine
  <2>4. http_status' = 200 => head' \subseteq FullHeaders \cup AcceptRanges
    BY <1>1 DEF StatusLine
  <2>5. http_status' = 206 => \E n \in Totals : head' = PartialHeaders(n)
    BY <1>1 DEF StatusLine
  <2>6. http_status' = 416 => head' = {}
    BY <1>1 DEF StatusLine
  <2>7. http_status' = 500 => head' \subseteq {Line("Content-Length", PageLen)}
    BY <1>1 DEF StatusLine
  <2>8. AcceptRanges' = AcceptRanges /\ FullHeaders' = FullHeaders
    BY <2>3 DEF AcceptRanges, FullHeaders
  <2>9. http_status' = 206 => head' \subseteq Sent'
    <3> SUFFICES ASSUME http_status' = 206 PROVE head' \subseteq Sent' OBVIOUS
    <3>1. PICK n \in Totals : head' = PartialHeaders(n)
      BY <2>5
    <3>2. PartialHeaders(n)' = PartialHeaders(n)
      BY <2>3 DEF PartialHeaders
    <3>3. Sent' = UNION {PartialHeaders(m)' : m \in Totals}
      BY DEF Sent
    <3> QED BY <3>1, <3>2, <3>3
  <2>10. http_status' # 416 => head' \subseteq Sent'
    BY <2>1, <2>4, <2>7, <2>8, <2>9 DEF Sent
  <2> QED BY <2>1, <2>2, <2>3, <2>6, <2>10
<1>2. CASE Performing /\ HeaderLine
  <2>1. PICK line \in head : head' = head \ {line} /\ http_range_allowed' = RangeAllowed(line)
    BY <1>2 DEF HeaderLine
  <2>2. UNCHANGED <<http_off, http_status, options, phase>> /\ phase = "body"
    BY <1>2 DEF HeaderLine
  <2>3. Sent' = Sent
    BY SentFacts, <2>2
  <2>4. RangeAllowed(line) = "YES" => ranged
    BY LineFacts DEF RangeAllowed
  <2>5. RangeAllowed(line) = "NO" => ~ranged
    BY LineFacts DEF RangeAllowed
  <2> QED BY <2>1, <2>2, <2>3, <2>4, <2>5
<1>3. CASE Performing /\ DeliverChunk
  <2>1. PICK n \in 1 .. ChunkLen, chunk \in Seq(Nat) : Len(chunk) = n /\ WriteCb(chunk)
    BY <1>3, DeliverFacts
  <2>2. phase = "body" /\ head = {} /\ held = <<>> /\ UNCHANGED <<meta, options>>
    BY <1>3 DEF DeliverChunk, Running
  <2>3. head' = {} /\ phase' # "added"
    BY <2>1, <2>2, WriteFacts DEF Abort, Takes
  <2> QED BY <2>2, <2>3
<1>4. CASE Performing /\ EndTransfer
  <2>1. Sent' = Sent
    BY SentFacts, <1>4 DEF EndTransfer
  <2> QED BY <1>4, <2>1 DEF EndTransfer
<1>5. CASE Unpause
  <2>1. CASE held = <<>>
    <3>1. UNCHANGED <<http_off, phase, head, meta, options>>
      BY <1>5, <2>1 DEF Unpause
    <3>2. Sent' = Sent
      BY SentFacts, <3>1
    <3> QED BY <3>1, <3>2
  <2>2. CASE held # <<>>
    <3>1. held \in Seq(Nat) /\ curlbuf_off <= Len(held) /\ WriteCb(held) /\ phase = "body"
          /\ head = {}
      BY <1>5, <2>2 DEF Unpause
    <3>2. UNCHANGED <<meta, options, xoff, target>>
      BY <1>5, <2>2 DEF Unpause
    <3>3. head' = {} /\ phase' # "added"
      BY <3>1, WriteFacts DEF Abort, Takes
    <3> QED BY <3>2, <3>3
  <2> QED BY <2>1, <2>2
<1>6. CASE MarkWorking
  <2>1. Sent' = Sent
    BY SentFacts, <1>6 DEF MarkWorking
  <2> QED BY <1>6, <2>1 DEF MarkWorking
<1>7. CASE ReadFull
  <2>1. Sent' = Sent
    BY SentFacts, <1>7 DEF ReadFull
  <2> QED BY <1>7, <2>1 DEF ReadFull
<1>8. CASE ReadShort
  <2>1. Sent' = Sent
    BY SentFacts, <1>8 DEF ReadShort
  <2> QED BY <1>8, <2>1 DEF ReadShort
<1>9. CASE ReadError
  <2>1. Sent' = Sent
    BY SentFacts, <1>9 DEF ReadError
  <2> QED BY <1>9, <2>1 DEF ReadError
<1>10. CASE CancelUnpause
  <2>1. CASE held = <<>>
    <3>1. UNCHANGED <<http_off, phase, head, meta, options>>
      BY <1>10, <2>1 DEF CancelUnpause
    <3>2. Sent' = Sent
      BY SentFacts, <3>1
    <3> QED BY <3>1, <3>2
  <2>2. CASE held # <<>>
    <3>1. held \in Seq(Nat) /\ curlbuf_off <= Len(held) /\ WriteCb(held) /\ phase = "body"
          /\ head = {}
      BY <1>10, <2>2 DEF CancelUnpause
    <3>2. UNCHANGED <<meta, options, xoff, target>>
      BY <1>10, <2>2 DEF CancelUnpause
    <3>3. head' = {} /\ phase' # "added"
      BY <3>1, WriteFacts DEF Abort, Takes
    <3> QED BY <3>2, <3>3
  <2> QED BY <2>1, <2>2
<1>11. CASE LeaveCancel
  <2>1. Sent' = Sent
    BY SentFacts, <1>11 DEF LeaveCancel
  <2> QED BY <1>11, <2>1 DEF LeaveCancel
<1>12. CASE Restart
  <2>1. head' = {} /\ range' = target /\ http_off' = target /\ UNCHANGED <<meta, ranged>>
    BY <1>12 DEF Restart, AddHandle
  <2>2. target # NoRange
    BY DEF NoRange
  <2> QED BY <2>1, <2>2
<1>13. ASSUME NEW len \in Lens, CallRead(len) PROVE Headers'
  <2>1. Sent' = Sent
    BY SentFacts, <1>13 DEF CallRead, Idle
  <2> QED BY <1>13, <2>1 DEF CallRead, Idle
<1>14. ASSUME NEW off \in Offs, CallSeek(off) PROVE Headers'
  <2>1. Sent' = Sent
    BY SentFacts, <1>14 DEF CallSeek, Idle
  <2> QED BY <1>14, <2>1 DEF CallSeek, Idle
<1>15. CASE Close
  <2>1. Sent' = Sent
    BY SentFacts, <1>15 DEF Close, Idle
  <2> QED BY <1>15, <2>1 DEF Close, Idle
<1>16. CASE UNCHANGED vars
  <2>1. Sent' = Sent
    BY SentFacts, <1>16 DEF vars
  <2> QED BY <1>16, <2>1 DEF vars
<1> QED
  BY <1>1, <1>2, <1>3, <1>4, <1>5, <1>6, <1>7, <1>8, <1>9, <1>10, <1>11, <1>12,
     <1>13, <1>14, <1>15, <1>16
     DEF Next, Perform, ReadStep, SeekStep, Cancelled, CancelError, Reads, Seeks, SeekRefused, Closed

(* A chunk is held only while the stream knows it is paused.                *)
LEMMA ChunksHolds == TypeOK /\ Headers /\ Chunks /\ [Next]_vars => Chunks'
<1> SUFFICES ASSUME TypeOK, Headers, Chunks, [Next]_vars PROVE Chunks' OBVIOUS
<1> USE ParameterAssumption DEF TypeOK, Headers, Chunks, SeekableIsTrue
<1>1. CASE Performing /\ StatusLine BY <1>1 DEF StatusLine, InSeek
<1>2. CASE Performing /\ HeaderLine BY <1>2 DEF HeaderLine, InSeek
<1>3. CASE Performing /\ DeliverChunk
  <2>1. PICK n \in 1 .. ChunkLen, chunk \in Seq(Nat) : Len(chunk) = n /\ WriteCb(chunk)
    BY <1>3, DeliverFacts
  <2>2. phase = "body" /\ head = {} /\ held = <<>> /\ curlbuf_off = 0
        /\ pc \in {"read", "cancel"} /\ UNCHANGED <<meta, options, pc, target>>
    BY <1>3 DEF DeliverChunk, Running, Performing
  <2>3. CASE Abort
    BY <2>2, <2>3 DEF Abort, InSeek
  <2>4. ASSUME NEW m \in Nat, Takes(chunk, m) PROVE Chunks'
    <3>1. /\ held' = <<>> \/ (held' = chunk /\ state' = "PAUSED")
          /\ phase' = "body" /\ head' = {} /\ UNCHANGED <<pc, target>>
      BY <2>2, <2>4 DEF Takes
    <3>2. curlbuf_off' <= Len(held')
      BY <2>1, <2>2, <2>4 DEF Takes
    <3> QED BY <2>2, <3>1, <3>2 DEF InSeek
  <2> QED BY <2>1, <2>2, <2>3, <2>4, WriteFacts
<1>4. CASE Performing /\ EndTransfer BY <1>4 DEF EndTransfer, InSeek, Running
<1>5. CASE Unpause
  <2>1. CASE held = <<>>
    BY <1>5, <2>1 DEF Unpause, InSeek
  <2>2. CASE held # <<>>
    <3>1. held \in Seq(Nat) /\ curlbuf_off <= Len(held) /\ WriteCb(held) /\ phase = "body"
          /\ head = {}
      BY <1>5, <2>2 DEF Unpause
    <3>2. CASE Abort /\ Aborting
      BY <1>5, <3>2 DEF Unpause, Abort, InSeek
    <3>3. ASSUME ~Aborting, NEW n \in Nat, Takes(held, n) PROVE Chunks'
      BY <1>5, <3>1, <3>3 DEF Unpause, Takes, Aborting, InSeek
    <3> QED BY <3>1, <3>2, <3>3, WriteFacts
  <2> QED BY <2>1, <2>2
<1>6. CASE MarkWorking BY <1>6 DEF MarkWorking, InSeek, MayBeWorking
<1>7. CASE ReadFull BY <1>7 DEF ReadFull, InSeek
<1>8. CASE ReadShort BY <1>8 DEF ReadShort, InSeek, Over
<1>9. CASE ReadError BY <1>9 DEF ReadError, InSeek
<1>10. CASE CancelUnpause
  <2>1. CASE held = <<>>
    BY <1>10, <2>1 DEF CancelUnpause, InSeek
  <2>2. CASE held # <<>>
    <3>1. held \in Seq(Nat) /\ curlbuf_off <= Len(held) /\ WriteCb(held) /\ phase = "body"
          /\ head = {}
      BY <1>10, <2>2 DEF CancelUnpause
    <3>2. CASE Abort /\ Aborting
      BY <1>10, <3>2 DEF CancelUnpause, Abort, InSeek
    <3>3. ASSUME ~Aborting, NEW n \in Nat, Takes(held, n) PROVE Chunks'
      BY <1>10, <3>1, <3>3 DEF CancelUnpause, Takes, Aborting, InSeek
    <3> QED BY <3>1, <3>2, <3>3, WriteFacts
  <2> QED BY <2>1, <2>2
<1>11. CASE LeaveCancel BY <1>11 DEF LeaveCancel, InSeek
<1>12. CASE Restart BY <1>12 DEF Restart, ForgetChunk, AddHandle, InSeek
<1>13. ASSUME NEW len \in Lens, CallRead(len) PROVE Chunks' BY <1>13 DEF CallRead, Idle, InSeek
<1>14. ASSUME NEW off \in Offs, CallSeek(off) PROVE Chunks' BY <1>14 DEF CallSeek, Idle, InSeek
<1>15. CASE Close BY <1>15 DEF Close, Idle, InSeek
<1>16. CASE UNCHANGED vars BY <1>16 DEF vars, InSeek
<1> QED
  BY <1>1, <1>2, <1>3, <1>4, <1>5, <1>6, <1>7, <1>8, <1>9, <1>10, <1>11, <1>12,
     <1>13, <1>14, <1>15, <1>16
     DEF Next, Perform, ReadStep, SeekStep, Cancelled, CancelError, Reads, Seeks, SeekRefused, Closed

(* Bytes in order stay in order when the next ones are added.               *)
InOrderFrom(q, o) == \A i \in 1 .. Len(q) : q[i] = o + i - 1

Grown(p1, p, q, a, n) ==
    /\ Len(p1) = Len(p) + n
    /\ \A i \in 1 .. Len(p) : p1[i] = p[i]
    /\ \A i \in 1 .. n : p1[Len(p) + i] = q[a + i]

(* A sequence of bytes in order, grown by the next bytes of another one in  *)
(* order, is in order.                                                      *)
LEMMA OrderFacts ==
    ASSUME NEW p \in Seq(Nat), NEW p1 \in Seq(Nat), NEW q \in Seq(Nat),
           NEW a \in Nat, NEW n \in Nat, NEW o \in Int, NEW u \in Int,
           Grown(p1, p, q, a, n), a + n <= Len(q), u + a = o + Len(p),
           InOrderFrom(p, o), InOrderFrom(q, u)
    PROVE  InOrderFrom(p1, o)
<1> SUFFICES ASSUME NEW i \in 1 .. Len(p1) PROVE p1[i] = o + i - 1
  BY DEF InOrderFrom
<1>1. Len(p1) = Len(p) + n
  BY DEF Grown
<1>2. CASE i <= Len(p)
  BY <1>2 DEF Grown, InOrderFrom
<1>3. CASE ~(i <= Len(p))
  <2>1. i - Len(p) \in 1 .. n /\ a + (i - Len(p)) \in 1 .. Len(q) /\ Len(p) + (i - Len(p)) = i
    BY <1>1, <1>3
  <2>2. p1[i] = q[a + (i - Len(p))]
    BY <2>1 DEF Grown
  <2>3. q[a + (i - Len(p))] = u + (a + (i - Len(p))) - 1
    BY <2>1 DEF InOrderFrom
  <2>4. u + (a + (i - Len(p))) - 1 = o + i - 1
    <3>1. i \in Int /\ Len(p) \in Int
      BY <2>1
    <3>2. u + (a + (i - Len(p))) - 1 = (u + a) + (i - Len(p)) - 1
      BY <3>1
    <3>3. (o + Len(p)) + (i - Len(p)) - 1 = o + i - 1
      BY <3>1
    <3> QED BY <3>2, <3>3
  <2> QED BY <2>2, <2>3, <2>4
<1> QED BY <1>2, <1>3

(* Taking a piece of a chunk moves the stream and the transfer together.    *)
LEMMA TakesInStep ==
    ASSUME TypeOK, BytesAtOffset, NEW chunk \in Seq(Nat), NEW n \in Nat, Takes(chunk, n),
           curlbuf_off <= Len(chunk), phase = "body", head = {}, xoff' \in Nat,
           ~OnPage => \A j \in 1 .. Len(chunk) : chunk[j] = xoff' - Len(chunk) + j - 1,
           Honoured /\ ~OnPage => xoff' - (Len(chunk) - curlbuf_off) = http_off,
           InRead' => InRead, UNCHANGED meta
    PROVE  Bytes'
<1> USE DEF TypeOK
<1>1. OnPage' = OnPage /\ Honoured' = Honoured /\ phase' = "body"
  BY DEF OnPage, Honoured, Takes
<1>2. Honoured /\ ~OnPage => InStep'
  <2> SUFFICES ASSUME Honoured, ~OnPage PROVE InStep' OBVIOUS
  <2>1. http_off' = http_off + n /\ xoff' - (Len(chunk) - curlbuf_off) = http_off
    BY DEF Takes
  <2>2. CASE held' = <<>> /\ curlbuf_off' = 0 /\ curlbuf_off + n = Len(chunk)
    <3>1. Len(held') - curlbuf_off' = 0
      BY <2>2
    <3>2. xoff' = http_off + n
      BY <2>1, <2>2
    <3> QED BY <2>1, <3>1, <3>2 DEF InStep
  <2>3. CASE held' = chunk /\ curlbuf_off' = curlbuf_off + n
    BY <2>1, <2>3 DEF InStep
  <2> QED BY <2>2, <2>3 DEF Takes
<1>3. ~OnPage => \A j \in 1 .. Len(held') : held'[j] = xoff' - Len(held') + j - 1
  <2>1. CASE held' = <<>>
    <3>1. Len(held') = 0
      BY <2>1
    <3> QED BY <3>1
  <2>2. CASE held' = chunk
    BY <2>2
  <2> QED BY <2>1, <2>2 DEF Takes
<1>4. BytesAtOffset'
  <2> DEFINE o == http_off - Len(outbuf)
             u == xoff' - Len(chunk)
  <2> SUFFICES ASSUME InRead, Honoured, ~OnPage PROVE BytesAtOffset'
    BY <1>1 DEF BytesAtOffset
  <2>1. /\ outbuf \in Seq(Nat) /\ outbuf' \in Seq(Nat) /\ curlbuf_off \in Nat
        /\ o \in Int /\ u \in Int
        /\ curlbuf_off + n <= Len(chunk) /\ u + curlbuf_off = o + Len(outbuf)
    <3>1. xoff' - (Len(chunk) - curlbuf_off) = http_off
      OBVIOUS
    <3>2. /\ outbuf \in Seq(Nat) /\ http_off \in Nat /\ curlbuf_off \in Nat
          /\ Len(outbuf) \in Nat /\ Len(chunk) \in Nat
      OBVIOUS
    <3>3. outbuf' \in Seq(Nat) /\ curlbuf_off + n <= Len(chunk)
      BY DEF Takes
    <3> QED BY <3>1, <3>2, <3>3
  <2>2. http_off' - Len(outbuf') = o
    BY DEF Takes
  <2>3. Grown(outbuf', outbuf, chunk, curlbuf_off, n)
    BY DEF Takes, Grown
  <2>4. InOrderFrom(outbuf, o)
    BY DEF BytesAtOffset, InOrderFrom
  <2>5. InOrderFrom(chunk, u)
    BY DEF InOrderFrom
  <2> HIDE DEF TypeOK, o, u
  <2>6. InOrderFrom(outbuf', o)
    BY <2>1, <2>3, <2>4, <2>5, OrderFacts
  <2> QED BY <2>2, <2>6 DEF BytesAtOffset, InOrderFrom
<1> QED BY <1>1, <1>2, <1>3, <1>4 DEF Bytes

(* The bytes a read has copied end at the stream's offset.                  *)
LEMMA BytesHolds == TypeOK /\ Headers /\ Chunks /\ Bytes /\ [Next]_vars => Bytes'
<1> SUFFICES ASSUME TypeOK, Headers, Chunks, Bytes, [Next]_vars PROVE Bytes' OBVIOUS
<1> USE ParameterAssumption DEF TypeOK, Headers, Chunks, SeekableIsTrue
<1>1. CASE Performing /\ StatusLine
  <2>1. /\ phase = "added" /\ held = <<>> /\ Len(held) = 0 /\ curlbuf_off = 0
        /\ UNCHANGED <<http_off, http_len, http_range_allowed, buffers, state, options, held, pc, target>>
    BY <1>1 DEF StatusLine
  <2>2. BytesAtOffset'
    <3>1. InRead' => Len(outbuf') = 0
      BY <2>1 DEF Bytes, InRead
    <3> QED BY <3>1 DEF BytesAtOffset
  <2>3. http_status' \in {200, 206, 416, 500} /\ phase' # "added"
    BY <1>1 DEF StatusLine, Statuses
  <2>4. CASE http_status' = 206
    <3>1. range # NoRange /\ xoff' = range
      BY <1>1, <2>4 DEF StatusLine, Statuses
    <3>2. InStep'
      <4>1. http_off = range /\ http_off \in Nat
        BY <2>1, <3>1
      <4>2. Len(held') - curlbuf_off' = 0
        BY <2>1
      <4> QED BY <2>1, <3>1, <4>1, <4>2 DEF InStep
    <3> QED BY <2>1, <2>2, <2>3, <3>2 DEF Bytes
  <2>5. CASE http_status' = 200
    <3>1. (~ranged \/ range = NoRange) /\ xoff' = 0
      BY <1>1, <2>5 DEF StatusLine, Statuses
    <3>2. Line("Date", 0) \in head'
      BY <1>1, <2>5 DEF StatusLine, FullHeaders
    <3>3. http_off = 0 => InStep'
      <4>1. Len(held') - curlbuf_off' = 0
        BY <2>1
      <4> QED BY <2>1, <3>1, <4>1 DEF InStep
    <3> QED BY <2>1, <2>2, <2>3, <2>5, <3>1, <3>2, <3>3 DEF Bytes
  <2>6. CASE http_status' = 500
    BY <2>1, <2>2, <2>3, <2>6 DEF Bytes, OnPage
  <2>7. CASE http_status' = 416
    <3>1. phase' = "done"
      BY <1>1, <2>7 DEF StatusLine
    <3> QED BY <2>1, <2>2, <3>1 DEF Bytes
  <2> QED BY <2>3, <2>4, <2>5, <2>6, <2>7
<1>2. CASE Performing /\ HeaderLine
  <2>1. PICK line \in head : http_range_allowed' = RangeAllowed(line)
    BY <1>2 DEF HeaderLine
  <2>2. phase = "body" /\ held = <<>>
        /\ UNCHANGED <<http_off, http_status, buffers, state, options, phase, xoff, held, pc, target>>
    BY <1>2 DEF HeaderLine
  <2>3. ~Honoured => ~Honoured'
    BY <2>1 DEF Honoured, RangeAllowed
  <2>4. http_status = 200 /\ http_off # 0 /\ ~ranged => ~Honoured'
    BY <2>1, LineFacts DEF Honoured, RangeAllowed
  <2>5. OnPage' = OnPage /\ InStep' = InStep /\ InRead' = InRead
    BY <2>2 DEF OnPage, InStep, InRead
  <2>6. BytesAtOffset'
    BY <2>2, <2>3, <2>5 DEF Bytes, BytesAtOffset
  <2>7. phase' = "body" /\ ~OnPage' => InStep' \/ ~Honoured'
    BY <2>2, <2>3, <2>4, <2>5 DEF Bytes
  <2>8. ~OnPage' => \A j \in 1 .. Len(held') : held'[j] = xoff' - Len(held') + j - 1
    BY <2>2, <2>5 DEF Bytes
  <2> QED BY <2>2, <2>6, <2>7, <2>8 DEF Bytes
<1>3. CASE Performing /\ DeliverChunk
  <2>1. PICK n \in 1 .. ChunkLen, chunk \in Seq(Nat) :
           /\ Len(chunk) = n /\ WriteCb(chunk)
           /\ ~OnPage => \A j \in 1 .. n : chunk[j] = xoff + j - 1
           /\ xoff' = xoff + n
    BY <1>3, DeliverFacts
  <2>2. phase = "body" /\ head = {} /\ held = <<>> /\ curlbuf_off = 0 /\ Len(held) = 0
        /\ UNCHANGED <<meta, options, pc, target>>
    BY <1>3 DEF DeliverChunk, Running
  <2>3. CASE Abort
    BY <2>2, <2>3 DEF Abort, Bytes, BytesAtOffset, InRead, OnPage, Honoured
  <2>4. ASSUME NEW m \in Nat, Takes(chunk, m) PROVE Bytes'
    <3>1. ~OnPage => \A j \in 1 .. Len(chunk) : chunk[j] = xoff' - Len(chunk) + j - 1
      BY <2>1
    <3>2. Honoured /\ ~OnPage => xoff' - (Len(chunk) - curlbuf_off) = http_off
      BY <2>1, <2>2 DEF Bytes, InStep
    <3>3. BytesAtOffset /\ xoff' \in Nat /\ curlbuf_off <= Len(chunk) /\ (InRead' => InRead)
      BY <2>1, <2>2 DEF Bytes, InRead
    <3> QED BY <2>1, <2>2, <2>4, <3>1, <3>2, <3>3, TakesInStep
  <2> QED BY <2>1, <2>2, <2>3, <2>4, WriteFacts
<1>4. CASE Performing /\ EndTransfer
  BY <1>4 DEF EndTransfer, Bytes, BytesAtOffset, InStep, InRead, OnPage, Honoured, Running
<1>5. CASE Unpause
  <2>1. CASE held = <<>>
    BY <1>5, <2>1 DEF Unpause, Bytes, BytesAtOffset, InStep, InRead, OnPage, Honoured
  <2>2. CASE held # <<>>
    <3>1. held \in Seq(Nat) /\ curlbuf_off <= Len(held) /\ WriteCb(held) /\ phase = "body"
          /\ head = {}
      BY <1>5, <2>2 DEF Unpause
    <3>2. UNCHANGED <<meta, options, xoff, target>> /\ (InRead' => InRead)
      BY <1>5, <2>2 DEF Unpause, InRead
    <3>3. CASE Abort
      BY <3>2, <3>3 DEF Abort, Bytes, BytesAtOffset, InRead, OnPage, Honoured
    <3>4. ASSUME NEW n \in Nat, Takes(held, n) PROVE Bytes'
      <4>1. ~OnPage => \A j \in 1 .. Len(held) : held[j] = xoff' - Len(held) + j - 1
        BY <3>2 DEF Bytes
      <4>2. Honoured /\ ~OnPage => xoff' - (Len(held) - curlbuf_off) = http_off
        BY <3>1, <3>2 DEF Bytes, InStep
      <4>3. BytesAtOffset /\ xoff' \in Nat
        BY <3>2 DEF Bytes
      <4> QED BY <3>1, <3>2, <3>4, <4>1, <4>2, <4>3, TakesInStep
    <3> QED BY <3>1, <3>3, <3>4, WriteFacts
  <2> QED BY <2>1, <2>2
<1>6. CASE MarkWorking
  BY <1>6 DEF MarkWorking, Bytes, BytesAtOffset, InStep, InRead, OnPage, Honoured
<1>7. CASE ReadFull BY <1>7 DEF ReadFull, Bytes, BytesAtOffset, InStep, InRead, OnPage, Honoured
<1>8. CASE ReadShort
  BY <1>8 DEF ReadShort, Bytes, BytesAtOffset, InStep, InRead, OnPage, Honoured
<1>9. CASE ReadError
  BY <1>9 DEF ReadError, Bytes, BytesAtOffset, InStep, InRead, OnPage, Honoured
<1>10. CASE CancelUnpause
  <2>1. CASE held = <<>>
    BY <1>10, <2>1 DEF CancelUnpause, Bytes, BytesAtOffset, InStep, InRead, OnPage, Honoured
  <2>2. CASE held # <<>>
    <3>1. held \in Seq(Nat) /\ curlbuf_off <= Len(held) /\ WriteCb(held) /\ phase = "body"
          /\ head = {}
      BY <1>10, <2>2 DEF CancelUnpause
    <3>2. UNCHANGED <<meta, options, xoff, target>> /\ (InRead' => InRead)
      BY <1>10, <2>2 DEF CancelUnpause, InRead
    <3>3. CASE Abort
      BY <3>2, <3>3 DEF Abort, Bytes, BytesAtOffset, InRead, OnPage, Honoured
    <3>4. ASSUME NEW n \in Nat, Takes(held, n) PROVE Bytes'
      <4>1. ~OnPage => \A j \in 1 .. Len(held) : held[j] = xoff' - Len(held) + j - 1
        BY <3>2 DEF Bytes
      <4>2. Honoured /\ ~OnPage => xoff' - (Len(held) - curlbuf_off) = http_off
        BY <3>1, <3>2 DEF Bytes, InStep
      <4>3. BytesAtOffset /\ xoff' \in Nat
        BY <3>2 DEF Bytes
      <4> QED BY <3>1, <3>2, <3>4, <4>1, <4>2, <4>3, TakesInStep
    <3> QED BY <3>1, <3>3, <3>4, WriteFacts
  <2> QED BY <2>1, <2>2
<1>11. CASE LeaveCancel
  BY <1>11 DEF LeaveCancel, Bytes, BytesAtOffset, InStep, InRead, OnPage, Honoured
<1>12. CASE Restart
  <2>1. held' = <<>> /\ Len(held') = 0 /\ phase' = "added" /\ pc' = "idle" /\ UNCHANGED meta
    BY <1>12 DEF Restart, AddHandle
  <2> QED BY <2>1 DEF Bytes, BytesAtOffset, InRead
<1>13. ASSUME NEW len \in Lens, CallRead(len) PROVE Bytes'
  <2>1. outbuf' = <<>> /\ Len(outbuf') = 0 /\ UNCHANGED <<http_off, meta, curlbuf_off, state, options, transfer>>
    BY <1>13 DEF CallRead
  <2> QED BY <2>1 DEF Bytes, BytesAtOffset, InStep, OnPage, Honoured
<1>14. ASSUME NEW off \in Offs, CallSeek(off) PROVE Bytes'
  BY <1>14 DEF CallSeek, Idle, Bytes, BytesAtOffset, InStep, InRead, OnPage, Honoured
<1>15. CASE Close
  BY <1>15 DEF Close, Idle, Bytes, BytesAtOffset, InStep, InRead, OnPage, Honoured
<1>16. CASE UNCHANGED vars
  BY <1>16 DEF vars, Bytes, BytesAtOffset, InStep, InRead, OnPage, Honoured
<1> QED
  BY <1>1, <1>2, <1>3, <1>4, <1>5, <1>6, <1>7, <1>8, <1>9, <1>10, <1>11, <1>12,
     <1>13, <1>14, <1>15, <1>16
     DEF Next, Perform, ReadStep, SeekStep, Cancelled, CancelError, Reads, Seeks, SeekRefused, Closed

(* A transfer does not pass the end of its body, nor does what a read has   *)
(* copied of the resource.                                                  *)
Reached ==
    /\ phase = "body" => xoff <= BodyLen
    /\ InRead /\ Honoured /\ ~OnPage /\ outbuf # <<>> => http_off <= FileLen

(* What follows for the user of the stream.                                 *)
NothingPastTheEnd == InRead /\ Honoured /\ ~OnPage /\ outbuf # <<>> => http_off <= FileLen

(* A piece of a chunk that ends within the body ends there in the stream.   *)
LEMMA TakesReached ==
    ASSUME TypeOK, NEW chunk \in Seq(Nat), NEW n \in Nat, Takes(chunk, n), phase = "body",
           curlbuf_off <= Len(chunk), xoff' \in Nat, xoff' <= BodyLen,
           Honoured /\ ~OnPage => xoff' - (Len(chunk) - curlbuf_off) = http_off,
           InRead' => InRead, UNCHANGED meta
    PROVE  Reached'
<1>1. OnPage' = OnPage /\ Honoured' = Honoured /\ BodyLen' = BodyLen
  BY DEF OnPage, Honoured, BodyLen
<1>2. ASSUME Honoured, ~OnPage PROVE http_off' <= FileLen
  <2>1. /\ http_off' = http_off + n /\ curlbuf_off + n <= Len(chunk)
        /\ xoff' - (Len(chunk) - curlbuf_off) = http_off
    BY <1>2 DEF Takes
  <2>2. /\ http_off \in Nat /\ n \in Nat /\ Len(chunk) \in Nat /\ curlbuf_off \in Nat
        /\ xoff' \in Nat /\ FileLen \in Nat /\ xoff' <= FileLen
    BY <1>2, ParameterAssumption DEF TypeOK, BodyLen
  <2> QED BY <2>1, <2>2
<1> QED BY <1>1, <1>2 DEF Reached

(* The write callback on a chunk that ends within the body.                 *)
LEMMA WriteReached ==
    ASSUME TypeOK, Reached, NEW chunk \in Seq(Nat), WriteCb(chunk), phase = "body",
           curlbuf_off <= Len(chunk), xoff' \in Nat, xoff' <= BodyLen,
           Honoured /\ ~OnPage => xoff' - (Len(chunk) - curlbuf_off) = http_off,
           InRead' => InRead, UNCHANGED meta
    PROVE  Reached'
<1>1. CASE Abort
  BY <1>1 DEF Abort, Reached, OnPage, Honoured
<1>2. ASSUME NEW n \in Nat, Takes(chunk, n) PROVE Reached'
  BY <1>2, TakesReached
<1> QED BY <1>1, <1>2, WriteFacts

(* No step passes the end.                                                  *)
LEMMA ReachedHolds ==
    TypeOK /\ Headers /\ Chunks /\ Bytes /\ Reached /\ [Next]_vars => Reached'
<1> SUFFICES ASSUME TypeOK, Headers, Chunks, Bytes, Reached, [Next]_vars PROVE Reached' OBVIOUS
<1> USE ParameterAssumption DEF TypeOK
<1>1. CASE Performing /\ StatusLine
  <2>1. phase = "added" /\ UNCHANGED <<http_off, outbuf, http_range_allowed, pc>>
    BY <1>1 DEF StatusLine, buffers
  <2>2. InRead' => outbuf' = <<>>
    BY <2>1 DEF Bytes, InRead
  <2>3. phase' = "body" => xoff' <= BodyLen'
    <3>1. http_status' \in Statuses /\ xoff' = (IF http_status' = 206 THEN range ELSE 0)
      BY <1>1 DEF StatusLine
    <3>2. http_status' = 206 => range < FileLen /\ range \in Int
      BY <3>1 DEF Statuses, NoRange
    <3> QED BY <3>1, <3>2 DEF BodyLen, OnPage
  <2> QED BY <2>2, <2>3 DEF Reached
<1>2. CASE Performing /\ HeaderLine
  <2>1. UNCHANGED <<http_off, http_status, outbuf, phase, xoff, pc>>
    BY <1>2 DEF HeaderLine
  <2>2. Honoured' => Honoured
    BY <1>2 DEF HeaderLine, Honoured, RangeAllowed
  <2> QED BY <2>1, <2>2 DEF Reached, InRead, OnPage, BodyLen
<1>3. CASE Performing /\ DeliverChunk
  <2>1. PICK n \in 1 .. ChunkLen, chunk \in Seq(Nat) :
           Len(chunk) = n /\ WriteCb(chunk) /\ xoff' = xoff + n
    BY <1>3, DeliverFacts
  <2>2. /\ phase = "body" /\ head = {} /\ held = <<>> /\ curlbuf_off = 0 /\ Len(held) = 0
        /\ UNCHANGED <<meta, pc>>
    BY <1>3 DEF DeliverChunk, Running, Chunks
  <2>3. xoff' \in Nat /\ xoff' <= BodyLen
    BY <1>3, <2>1 DEF DeliverChunk
  <2>4. Honoured /\ ~OnPage => xoff' - (Len(chunk) - curlbuf_off) = http_off
    BY <2>1, <2>2 DEF Bytes, InStep
  <2>5. curlbuf_off <= Len(chunk) /\ (InRead' => InRead)
    BY <2>1, <2>2 DEF InRead
  <2> QED BY <2>1, <2>2, <2>3, <2>4, <2>5, WriteReached
<1>4. CASE Performing /\ EndTransfer
  BY <1>4 DEF EndTransfer, Reached, InRead, OnPage, Honoured
<1>5. CASE (Unpause \/ CancelUnpause) /\ held # <<>>
  <2>1. /\ held \in Seq(Nat) /\ WriteCb(held) /\ phase = "body" /\ head = {}
        /\ curlbuf_off <= Len(held) /\ UNCHANGED <<meta, xoff>> /\ (InRead' => InRead)
    BY <1>5 DEF Unpause, CancelUnpause, Chunks, InRead
  <2>2. Honoured /\ ~OnPage => xoff' - (Len(held) - curlbuf_off) = http_off
    BY <2>1 DEF Bytes, InStep
  <2>3. xoff' \in Nat /\ xoff' <= BodyLen
    BY <2>1 DEF Reached
  <2> QED BY <2>1, <2>2, <2>3, WriteReached
<1>6. CASE (Unpause \/ CancelUnpause) /\ held = <<>>
  BY <1>6 DEF Unpause, CancelUnpause, Reached, InRead, OnPage, Honoured, BodyLen
<1>7. CASE ReadStep /\ ~Unpause
  BY <1>7 DEF ReadStep, MarkWorking, ReadFull, ReadShort, Reached, InRead, OnPage, Honoured, BodyLen
<1>8. CASE ReadError \/ LeaveCancel
  BY <1>8 DEF ReadError, LeaveCancel, Reached, InRead, OnPage, Honoured, BodyLen
<1>9. CASE Restart
  BY <1>9 DEF Restart, AddHandle, Reached, InRead
<1>10. ASSUME NEW len \in Lens, CallRead(len) PROVE Reached'
  BY <1>10 DEF CallRead, Reached, InRead, OnPage, Honoured, BodyLen
<1>11. ASSUME NEW off \in Offs, CallSeek(off) PROVE Reached'
  BY <1>11 DEF CallSeek, Reached, InRead, OnPage, Honoured, BodyLen
<1>12. CASE Close \/ UNCHANGED vars
  BY <1>12 DEF Close, vars, Reached, InRead, OnPage, Honoured, BodyLen
<1> QED
  BY <1>1, <1>2, <1>3, <1>4, <1>5, <1>6, <1>7, <1>8, <1>9, <1>10, <1>11, <1>12
     DEF Next, Perform, ReadStep, SeekStep, Cancelled, CancelError, Reads, Seeks, SeekRefused, Closed

(* Where a transfer is performed it is not paused: a read has unpaused it,  *)
(* and in the loop of sl_cancel_transfer_ the callback refuses every chunk. *)
Unpaused ==
    /\ pc = "read" /\ Len(outbuf) < outbuf_size => held = <<>>
    /\ pc = "cancel" => \/ state = "ABORT_REQUESTED"
                        \/ state = "ABORTED" /\ phase = "done"

(* What follows for both loops.                                             *)
NoSpin == Performing => held = <<>>

(* A callback that holds its chunk back has filled the caller's buffer.     *)
LEMMA HeldFacts ==
    ASSUME TypeOK, NEW chunk \in Seq(Nat), curlbuf_off <= Len(chunk), WriteCb(chunk)
    PROVE  \/ Aborting /\ state' = "ABORTED" /\ phase' = "done" /\ held' = <<>>
           \/ ~Aborting /\ (held' = <<>> \/ Len(outbuf') = outbuf_size')
<1>1. CASE ~Aborting /\ TakeAndPause(chunk)
  <2>1. PICK n \in Nat : Takes(chunk, n)
    BY <1>1, WriteFacts DEF Aborting
  <2>2. /\ http_off' = http_off + n /\ Len(outbuf') = Len(outbuf) + n
        /\ Len(outbuf) \in Nat /\ http_off \in Nat /\ outbuf_size \in Nat
    BY <2>1 DEF Takes, TypeOK
  <2>3. http_off' = http_off + (outbuf_size - Len(outbuf)) /\ outbuf_size' = outbuf_size
    BY <1>1 DEF TakeAndPause, Advance
  <2> QED BY <1>1, <2>2, <2>3
<1>2. CASE ~Aborting /\ TakeRest(chunk)
  BY <1>2 DEF TakeRest
<1>3. CASE Aborting /\ Abort
  BY <1>3 DEF Abort
<1> QED BY <1>1, <1>2, <1>3 DEF WriteCb

(* No step pauses a transfer under one of the loops.                        *)
LEMMA UnpausedHolds == TypeOK /\ Chunks /\ Unpaused /\ [Next]_vars => Unpaused'
<1> SUFFICES ASSUME TypeOK, Chunks, Unpaused, [Next]_vars PROVE Unpaused' OBVIOUS
<1>1. CASE Performing /\ DeliverChunk
  <2>1. PICK n \in 1 .. ChunkLen, chunk \in Seq(Nat) : Len(chunk) = n /\ WriteCb(chunk)
    BY <1>1, DeliverFacts
  <2>2. curlbuf_off <= Len(chunk) /\ phase = "body" /\ UNCHANGED pc
    BY <1>1, <2>1, ParameterAssumption DEF DeliverChunk, Running, Chunks, TypeOK
  <2>3. pc = "cancel" => Aborting
    BY <2>2 DEF Unpaused, Aborting
  <2>4. \/ Aborting /\ state' = "ABORTED" /\ phase' = "done" /\ held' = <<>>
        \/ ~Aborting /\ (held' = <<>> \/ Len(outbuf') = outbuf_size')
    BY <2>1, <2>2, HeldFacts
  <2>5. outbuf_size' \in Nat
    BY <2>1 DEF WriteCb, Abort, TakeRest, TakeAndPause, TypeOK
  <2> QED BY <2>2, <2>3, <2>4, <2>5 DEF Unpaused
<1>2. CASE (Unpause \/ CancelUnpause) /\ held # <<>>
  <2>1. held \in Seq(Nat) /\ curlbuf_off <= Len(held) /\ WriteCb(held)
    BY <1>2 DEF Unpause, CancelUnpause, Chunks, TypeOK
  <2>2. \/ Aborting /\ state' = "ABORTED" /\ phase' = "done" /\ held' = <<>>
        \/ ~Aborting /\ (held' = <<>> \/ Len(outbuf') = outbuf_size')
    BY <2>1, HeldFacts
  <2>3. outbuf_size' \in Nat
    BY <2>1 DEF WriteCb, Abort, TakeRest, TakeAndPause, TypeOK
  <2>4. CancelUnpause => Aborting
    BY DEF CancelUnpause, Chunks, Aborting
  <2> QED BY <1>2, <2>2, <2>3, <2>4 DEF Unpause, CancelUnpause, Unpaused
<1>3. CASE (Unpause \/ CancelUnpause) /\ held = <<>>
  BY <1>3 DEF Unpause, CancelUnpause, Unpaused, Chunks
<1>4. CASE Performing /\ (StatusLine \/ HeaderLine \/ EndTransfer)
  BY <1>4 DEF StatusLine, HeaderLine, EndTransfer, Running, Unpaused
<1>5. CASE ReadStep /\ ~Unpause
  BY <1>5 DEF ReadStep, MarkWorking, ReadFull, ReadShort, Unpaused
<1>6. CASE ReadError \/ LeaveCancel
  BY <1>6 DEF ReadError, LeaveCancel, Unpaused
<1>7. CASE Restart
  BY <1>7 DEF Restart, Unpaused
<1>8. ASSUME NEW len \in Lens, CallRead(len) PROVE Unpaused'
  BY <1>8 DEF CallRead, Idle, Chunks, Unpaused
<1>9. ASSUME NEW off \in Offs, CallSeek(off) PROVE Unpaused'
  BY <1>9 DEF CallSeek, Unpaused
<1>10. CASE Close \/ UNCHANGED vars
  BY <1>10 DEF Close, vars, Unpaused
<1> QED
  BY <1>1, <1>2, <1>3, <1>4, <1>5, <1>6, <1>7, <1>8, <1>9, <1>10
     DEF Next, Perform, ReadStep, SeekStep, Cancelled, CancelError, Reads, Seeks, SeekRefused, Closed

(* From the call of a read or a seek to its return the position the user    *)
(* sees stays where it is, whatever libcurl hands over meanwhile.           *)
Inside == InRead \/ InSeek

Steady == Inside /\ Inside' => ReadFrom' = ReadFrom

(* The write callback, in a read or in the cancelling of a seek.            *)
LEMMA WriteSteady ==
    ASSUME TypeOK, NEW chunk \in Seq(Nat), curlbuf_off <= Len(chunk), WriteCb(chunk),
           \/ InRead /\ InRead'
           \/ ~InRead /\ ~InRead' /\ Aborting
    PROVE  ReadFrom' = ReadFrom
<1>1. CASE Abort
  BY <1>1 DEF Abort, ReadFrom, buffers
<1>2. ASSUME ~Aborting, NEW n \in Nat, Takes(chunk, n) PROVE ReadFrom' = ReadFrom
  <2>1. /\ http_off' = http_off + n /\ Len(outbuf') = Len(outbuf) + n
        /\ http_off \in Nat /\ Len(outbuf) \in Nat
    BY <1>2 DEF Takes, TypeOK
  <2>2. http_off' - Len(outbuf') = http_off - Len(outbuf)
    BY <2>1
  <2> QED BY <1>2, <2>2 DEF ReadFrom
<1> QED BY <1>1, <1>2, WriteFacts

(* No step in a call moves the position.                                    *)
LEMMA SteadyStep == TypeOK /\ Chunks /\ Unpaused /\ [Next]_vars => Steady
<1> SUFFICES ASSUME TypeOK, Chunks, Unpaused, [Next]_vars, Inside, Inside'
             PROVE  ReadFrom' = ReadFrom
  BY DEF Steady
<1> USE DEF Inside, InRead, InSeek
<1>1. CASE Performing /\ DeliverChunk
  <2>1. PICK n \in 1 .. ChunkLen, chunk \in Seq(Nat) : Len(chunk) = n /\ WriteCb(chunk)
    BY <1>1, DeliverFacts
  <2>2. curlbuf_off <= Len(chunk) /\ phase = "body" /\ UNCHANGED pc
    BY <1>1, <2>1, ParameterAssumption DEF DeliverChunk, Running, Chunks, TypeOK
  <2>3. pc = "cancel" => Aborting
    BY <2>2 DEF Unpaused, Aborting
  <2>4. pc \in {"read", "cancel"}
    BY <1>1 DEF Performing
  <2> QED BY <2>1, <2>2, <2>3, <2>4, WriteSteady
<1>2. CASE (Unpause \/ CancelUnpause) /\ held # <<>>
  <2>1. held \in Seq(Nat) /\ curlbuf_off <= Len(held) /\ WriteCb(held)
    BY <1>2 DEF Unpause, CancelUnpause, Chunks, TypeOK
  <2>2. CancelUnpause => Aborting
    BY DEF CancelUnpause, Chunks, Aborting
  <2>3. (Unpause /\ InRead /\ InRead') \/ (CancelUnpause /\ ~InRead /\ ~InRead')
    BY <1>2 DEF Unpause, CancelUnpause
  <2> QED BY <2>1, <2>2, <2>3, WriteSteady
<1>3. CASE (Unpause \/ CancelUnpause) /\ held = <<>>
  BY <1>3 DEF Unpause, CancelUnpause, ReadFrom, buffers
<1>4. CASE Performing /\ (StatusLine \/ HeaderLine \/ EndTransfer)
  BY <1>4 DEF StatusLine, HeaderLine, EndTransfer, ReadFrom, buffers
<1>5. CASE MarkWorking \/ LeaveCancel
  BY <1>5 DEF MarkWorking, LeaveCancel, ReadFrom, buffers
<1>6. CASE ReadFull \/ ReadShort \/ ReadError \/ Restart
  BY <1>6 DEF ReadFull, ReadShort, ReadError, Restart
<1>7. ASSUME NEW len \in Lens, CallRead(len) PROVE ReadFrom' = ReadFrom
  BY <1>7 DEF CallRead, Idle
<1>8. ASSUME NEW off \in Offs, CallSeek(off) PROVE ReadFrom' = ReadFrom
  BY <1>8 DEF CallSeek, Idle
<1>9. CASE Close \/ UNCHANGED vars
  BY <1>9 DEF Close, vars, ReadFrom
<1> QED
  BY <1>1, <1>2, <1>3, <1>4, <1>5, <1>6, <1>7, <1>8, <1>9
     DEF Next, Perform, ReadStep, SeekStep, Cancelled, CancelError, Reads, Seeks, SeekRefused, Closed

(* The length, once known, is the length of the resource.                   *)
LEMMA LengthHolds ==
    ASSUME LengthKnown, TypeOK, Headers, http_len \in {-1, FileLen}, [Next]_vars
    PROVE  http_len' \in {-1, FileLen}
<1>1. CASE HeaderLine
  <2>1. PICK line \in head :
           http_len' = IF http_len < 0 /\ TellsLength(line) THEN line.num ELSE http_len
    BY <1>1 DEF HeaderLine
  <2>2. TellsLength(line) => line.num = FileLen
    BY LineFacts DEF TellsLength
  <2> QED BY <2>1, <2>2
<1>2. CASE ~HeaderLine
  BY <1>2 DEF Next, Perform, StatusLine, DeliverChunk, EndTransfer, ReadStep, Unpause, MarkWorking,
     ReadFull, ReadShort, ReadError, SeekStep, CancelUnpause, Cancelled, CancelError, LeaveCancel,
     Restart, Reads, CallRead, Seeks, CallSeek, SeekRefused, Close, Closed, vars
<1> QED BY <1>1, <1>2

-----------------------------------------------------------------------------
(* Inductive.                                                               *)
IInv == TypeOK /\ Headers /\ Chunks /\ Bytes

(* What the theorems rest on.                                               *)
LEMMA Invariant == Spec => []IInv
<1>1. Init => IInv
  <2> SUFFICES ASSUME Init PROVE IInv OBVIOUS
  <2>1. held \in Seq(Nat) /\ outbuf \in Seq(Nat) /\ Len(held) = 0 /\ Len(outbuf) = 0
    BY DEF Init
  <2>2. TypeOK
    BY <2>1, ParameterAssumption DEF Init, TypeOK
  <2>3. Headers /\ Chunks
    BY <2>1 DEF Init, Headers, Chunks, SeekableIsTrue, InSeek, NoRange
  <2>4. Bytes
    BY <2>1 DEF Init, Bytes, BytesAtOffset, InRead
  <2> QED BY <2>2, <2>3, <2>4 DEF IInv
<1>2. IInv /\ [Next]_vars => IInv'
  BY TypeHolds, HeadersHolds, ChunksHolds, BytesHolds DEF IInv
<1> QED BY <1>1, <1>2, PTL DEF Spec

(* No read overruns its buffer, the offset into the chunk at hand never     *)
(* leaves it, and the rest stays in range.                                  *)
THEOREM TypeCorrect == Spec => []TypeOK
<1>1. IInv => TypeOK
  BY DEF IInv
<1> QED BY <1>1, Invariant, PTL

(* A read delivers the bytes of the resource from the stream's offset on,   *)
(* whatever seeks, pauses, aborts, error pages and broken connections came  *)
(* before.                                                                  *)
THEOREM BytesAreRight == Spec => []BytesAtOffset
<1>1. IInv => BytesAtOffset
  BY DEF IInv, Bytes
<1> QED BY <1>1, Invariant, PTL

(* Nothing is lost or repeated over a pause.                                *)
THEOREM TransferStaysInStep == Spec => []TransferInStep
<1>1. IInv => TransferInStep
  BY DEF IInv, Chunks, Bytes, InStep, TransferInStep
<1> QED BY <1>1, Invariant, PTL

(* A transfer paused in libcurl is known to be paused.                      *)
THEOREM PauseIsKnown == Spec => []NoLostPause
<1>1. IInv => NoLostPause
  BY DEF IInv, Chunks, NoLostPause
<1> QED BY <1>1, Invariant, PTL

(* What the stream says of the server is true.                              *)
THEOREM SeekableTrue == Spec => []SeekableIsTrue
<1>1. IInv => SeekableIsTrue
  BY DEF IInv, Headers
<1> QED BY <1>1, Invariant, PTL

(* A read delivers no byte past the end of the resource, wherever the       *)
(* stream was sought before and whatever faults came between.               *)
THEOREM NothingPastEnd == Spec => []NothingPastTheEnd
<1>1. Init => Reached
  BY DEF Init, Reached, InRead
<1>2. IInv /\ Reached /\ [Next]_vars => Reached'
  BY ReachedHolds DEF IInv
<1>3. Reached => NothingPastTheEnd
  BY DEF Reached, NothingPastTheEnd
<1> QED BY <1>1, <1>2, <1>3, Invariant, PTL DEF Spec

(* Every step keeps what Unpaused says.                                     *)
LEMMA UnpausedAlways == Spec => []Unpaused
<1>1. Init => Unpaused
  BY DEF Init, Unpaused
<1>2. IInv /\ Unpaused /\ [Next]_vars => Unpaused'
  BY UnpausedHolds DEF IInv
<1> QED BY <1>1, <1>2, Invariant, PTL DEF Spec

(* Neither of the two loops of curl_multi_perform and curl_multi_wait, in a *)
(* read and in the cancelling of a seek, runs on a transfer that is paused, *)
(* and so would spin for ever.                                              *)
THEOREM NeverSpins == Spec => []NoSpin
<1>1. IInv /\ Unpaused => NoSpin
  BY DEF IInv, Chunks, Unpaused, NoSpin, Performing
<1> QED BY <1>1, Invariant, UnpausedAlways, PTL

(* As seen by the user the position moves only when a call returns.         *)
THEOREM PositionIsSteady == Spec => [][Steady]_vars
<1>1. IInv /\ Unpaused /\ [Next]_vars => [Steady]_vars
  BY SteadyStep DEF IInv
<1> QED BY <1>1, Invariant, UnpausedAlways, PTL DEF Spec

(* Where servers tell the length, end of file is reported only at or past   *)
(* the end of the resource.                                                 *)
THEOREM EofIsTrue == LengthKnown => (Spec => []EofIsEarned)
<1> SUFFICES ASSUME LengthKnown PROVE Spec => []EofIsEarned OBVIOUS
<1> DEFINE Known == http_len \in {-1, FileLen}
<1>1. Init => Known
  BY DEF Init
<1>2. IInv /\ Known /\ [Next]_vars => Known'
  BY LengthHolds DEF IInv
<1>3. Known => EofIsEarned
  BY ParameterAssumption DEF EofIsEarned, sl_http_eof_cb
<1> QED BY <1>1, <1>2, <1>3, Invariant, PTL DEF Spec

=============================================================================
