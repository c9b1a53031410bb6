--------------------------- MODULE SlBufferProofs ---------------------------
(***************************************************************************)
(* Proofs about SlBuffer, for every length of the file, capacity, step and  *)
(* set of lengths and offsets, with and without failing seeks, short reads  *)
(* and a filler that another thread runs.                                   *)
(*                                                                         *)
(* InOrder is not inductive: during a seek the buffered bytes belong to the *)
(* position the user is leaving, then the inner stream is elsewhere, then   *)
(* the buffer is empty and the user still holds its old position.           *)
(* Alignment says which of these it is; Control says that the request flag  *)
(* and the two program counters tell.                                       *)
(*                                                                         *)
(* What does not depend on the bytes is proved of AnySpec, in which the     *)
(* inner stream gives any bytes and may be anywhere.                        *)
(***************************************************************************)
EXTENDS SlBuffer, TLAPS

(* The two calls of write_some2_: what the first one has read and the second *)
(* one asks for is part of what circbuf_write2 still wants, and only between *)
(* them is anything read and not yet published.                             *)
TypeInv ==
    /\ TypeOK
    /\ fpc \in {"write_first", "write_rest", "write_fill"} => Len(fgot) + fn <= fleft
    /\ fpc = "write_first" => FirstRun <= fn
    /\ fpc \notin {"write_rest", "write_fill"} => fgot = <<>>

(* How the request flag, filler_started and the two program counters go     *)
(* together.                                                                *)
Control ==
    /\ fpc \notin {"none", "start"} => filler_started
    /\ cpc = "inner_seek" => ~filler_started
    /\ cpc \in {"seek_close", "seek_wait"} => seek_requested
    /\ fpc \in {"inner_seek", "serve"} => seek_requested
    /\ seek_requested => cpc \in {"seek_close", "seek_wait", "seek_woken"}
    /\ ~filler_started => ring = <<>>

(* Who closed the read end, and who was told: a filler sleeps only while it *)
(* is open, and it stays closed after a seek only if that seek failed.      *)
Ended == {"join", "destroyed"}

Requests ==
    /\ fpc = "eof_wait" => ~rdone
    /\ fpc = "loop_request" => rdone
    /\ seek_requested => filler_started
    /\ ~filler_started /\ cpc \notin Ended => ~rdone
    /\ rdone /\ ~seek_requested /\ cpc \notin Ended => seek_result = -1
    /\ fpc = "exited" /\ cpc \notin Ended => seek_result = -1

(* Where no other thread of the user fills, destruction joins whoever does. *)
Joined ==
    /\ ~filler => fpc \in {"none", "exited"}
    /\ cpc = "destroyed" => ~filler

(* Where the buffered bytes begin: at the user's position, and, in a seek   *)
(* the filler has answered, at the position the user is about to take.      *)
Aligned(p) ==
    /\ \A i \in 1 .. Len(ring) : ring[i] = p + i - 1
    /\ \A i \in 1 .. Len(fgot) : fgot[i] = p + Len(ring) + i - 1
    /\ ipos = p + Len(ring) + Len(fgot)

Alignment ==
    /\ cpc \notin Seeking => Aligned(Front)
    /\ cpc \in Seeking /\ fpc # "serve" /\ (seek_requested \/ cpc = "inner_seek") => Aligned(pos)
    /\ fpc = "serve" => IF seek_result = 0 THEN ipos = seek_off ELSE Aligned(pos)
    /\ cpc = "seek_woken" /\ ~seek_requested
          => IF seek_result = 0 THEN Aligned(seek_off) ELSE Aligned(pos)

(* What the call in progress has to keep for its return.                    *)
Delivered ==
    /\ cpc \in Seeking => seek_off \in Offs /\ out = <<>>
    /\ cpc \in Reading => /\ Len(out) + cleft \in Lens
                          /\ \A i \in 1 .. Len(out) : out[i] = pos + i - 1
                          /\ out = <<>> \/ pos + Len(out) <= FileLen
    /\ ring # <<>> /\ (fpc = "serve" => seek_result # 0) => ipos <= FileLen
    /\ fgot # <<>> => ipos <= FileLen

(* Where neither seeks nor reads of the inner stream fail, the write end is *)
(* closed at the end of the file, or for a seek or the destruction.         *)
Filling == {"write_test", "write_wait", "write_retest", "write_load",
            "write_first", "write_rest", "write_fill"}

AtEnd ==
    /\ seek_result = 0
    /\ feof /\ fpc \in Filling => ipos >= FileLen
    /\ fpc = "close" => ipos >= FileLen \/ rdone
    /\ wdone /\ fpc # "serve" => ipos >= FileLen \/ rdone
    /\ ~filler_started => ~wdone
    /\ eof /\ cpc \notin Seeking => ipos >= FileLen

USE DEF circbuf, stream, seek, write2, fill, user

-----------------------------------------------------------------------------
(* What is left of a sequence without its beginning, and that beginning.    *)
LEMMA TakeFacts ==
    ASSUME NEW q \in Seq(Nat), NEW n \in 0 .. Len(q)
    PROVE  /\ SubSeq(q, n + 1, Len(q)) \in Seq(Nat)
           /\ Len(SubSeq(q, n + 1, Len(q))) = Len(q) - n
           /\ \A i \in 1 .. Len(q) - n : SubSeq(q, n + 1, Len(q))[i] = q[i + n]
           /\ SubSeq(q, 1, n) \in Seq(Nat)
           /\ Len(SubSeq(q, 1, n)) = n
  OBVIOUS

(* Where the elements of a concatenation come from.                         *)
LEMMA AppendFacts ==
    ASSUME NEW q \in Seq(Nat), NEW b \in Seq(Nat)
    PROVE  /\ q \o b \in Seq(Nat)
           /\ Len(q \o b) = Len(q) + Len(b)
           /\ \A i \in 1 .. Len(q) : (q \o b)[i] = q[i]
           /\ \A i \in 1 .. Len(b) : (q \o b)[Len(q) + i] = b[i]
  OBVIOUS

(* A call of filler_cb asks for no more than is left of the request.        *)
LEMMA AskedFacts ==
    ASSUME TypeInv, fpc \in {"write_first", "write_fill"}
    PROVE  Asked \in Nat /\ Asked <= fn
BY ParameterAssumption DEF TypeInv, TypeOK, Asked, FirstRun

(* What the filler's read of the inner stream gives: the bytes at its       *)
(* position, as many as it could read.                                      *)
LEMMA ReadFacts ==
    ASSUME TypeInv, WriteFill
    PROVE  \E g \in InnerReads(Asked), b \in Seq(Nat) :
               /\ FillWith(b) /\ Len(b) = g /\ ipos' = ipos + g
               /\ \A i \in 1 .. g : b[i] = ipos + i - 1
               /\ g \in Nat /\ Asked \in Nat /\ g <= Asked
<1>1. PICK g \in InnerReads(Asked) :
          FillWith([i \in 1 .. g |-> ipos + i - 1]) /\ ipos' = ipos + g
  BY DEF WriteFill
<1>2. fpc \in {"write_first", "write_fill"}
  BY <1>1 DEF FillWith, KeepFirst, Publish
<1>3. Asked \in Nat /\ ipos \in Nat /\ FileLen \in Nat
  BY <1>2, AskedFacts, ParameterAssumption DEF TypeInv, TypeOK
<1>4. g \in Nat /\ g <= Asked
  BY <1>3 DEF InnerReads, SmallerOf
<1> DEFINE b == [i \in 1 .. g |-> ipos + i - 1]
<1>5. b \in Seq(Nat) /\ Len(b) = g /\ \A i \in 1 .. g : b[i] = ipos + i - 1
  BY <1>3, <1>4
<1>6. FillWith(b)
  BY <1>1
<1> HIDE DEF b
<1> QED BY <1>1, <1>3, <1>4, <1>5, <1>6

(* What a call of filler_cb leaves behind: its bytes kept, or published     *)
(* together with those kept before.                                         *)
LEMMA FillFacts ==
    ASSUME TypeInv, NEW b \in Seq(Nat), Len(b) <= Asked, FillWith(b)
    PROVE  /\ fpc \in {"write_first", "write_fill"}
           /\ UNCHANGED <<rdone, wdone, stream, seek, user>>
           /\ ring' \in Seq(Nat) /\ fgot' \in Seq(Nat)
           /\ \/ /\ fpc = "write_first" /\ fpc' = "write_rest" /\ Len(b) = Asked
                 /\ fgot = <<>> /\ fgot' = b /\ fn' = fn - Asked
                 /\ UNCHANGED <<ring, woff, fleft, feof>>
              \/ /\ fpc' = "write_test" /\ fgot' = <<>> /\ fn' = 0
                 /\ ring' = ring \o (fgot \o b)
                 /\ woff' = Wrap(woff + (Len(fgot) + Len(b)))
                 /\ fleft' = fleft - (Len(fgot) + Len(b))
                 /\ feof' = (Len(b) < Asked)
<1>1. ring \in Seq(Nat) /\ fgot \in Seq(Nat)
  BY DEF TypeInv, TypeOK
<1>2. UNCHANGED <<rdone, wdone, stream, seek, user>>
  BY DEF FillWith
<1>3. CASE KeepFirst(b)
  BY <1>1, <1>2, <1>3 DEF KeepFirst, TypeInv
<1>4. CASE Publish(b)
  <2>1. fgot \o b \in Seq(Nat) /\ Len(fgot \o b) = Len(fgot) + Len(b)
    BY <1>1, AppendFacts
  <2>2. ring \o (fgot \o b) \in Seq(Nat)
    BY <1>1, <2>1, AppendFacts
  <2>3. /\ fpc \in {"write_first", "write_fill"}
        /\ fpc' = "write_test" /\ fgot' = <<>> /\ fn' = 0
        /\ ring' = ring \o (fgot \o b)
        /\ woff' = Wrap(woff + Len(fgot \o b))
        /\ fleft' = fleft - Len(fgot \o b)
        /\ feof' = (Len(b) < Asked)
    BY <1>4 DEF Publish
  <2>4. fgot' \in Seq(Nat)
    BY <2>3
  <2> QED BY <1>2, <2>1, <2>2, <2>3, <2>4
<1> QED BY <1>3, <1>4 DEF FillWith

(* The buffer over an inner stream that may give any bytes, up to what it   *)
(* is asked for, and be anywhere afterwards: how the two threads wait for,  *)
(* wake and join each other does not depend on the data.                    *)
FillAny ==
    \E b \in Seq(Nat) : Len(b) <= Asked /\ FillWith(b) /\ ipos' \in Nat

AnyNext == Next \/ FillAny
AnySpec == Init /\ [][AnyNext]_vars

(* It moves the filler from one of the two calls to what follows.           *)
LEMMA FillControl ==
    ASSUME FillAny
    PROVE  /\ fpc \in {"write_first", "write_fill"} /\ fpc' \in {"write_rest", "write_test"}
           /\ UNCHANGED <<rdone, wdone, stream, seek, user>>
BY DEF FillAny, FillWith, KeepFirst, Publish

(* The bytes at its position are bytes.                                     *)
LEMMA FillIsAny == TypeInv /\ WriteFill => FillAny
<1> SUFFICES ASSUME TypeInv, WriteFill PROVE FillAny OBVIOUS
<1>1. PICK g \in InnerReads(Asked), b \in Seq(Nat) :
          FillWith(b) /\ Len(b) = g /\ ipos' = ipos + g /\ g \in Nat /\ g <= Asked
  BY ReadFacts
<1>2. ipos' \in Nat
  BY <1>1 DEF TypeInv, TypeOK
<1> QED BY <1>1, <1>2 DEF FillAny

-----------------------------------------------------------------------------
(* The initial state is well formed.                                        *)
LEMMA InitHolds == Init => TypeInv /\ Control
<1> SUFFICES ASSUME Init PROVE TypeInv /\ Control OBVIOUS
<1>1. ring \in Seq(Nat) /\ Len(ring) = 0 /\ out \in Seq(Nat)
  BY DEF Init
<1>2. /\ fleft \in 0 .. StepSize /\ fn \in Nat /\ woff \in 0 .. Capacity
      /\ fgot = <<>> /\ fgot \in Seq(Nat) /\ Len(ring) + Len(fgot) + fn <= Capacity
  BY <1>1, ParameterAssumption DEF Init
<1>3. TypeInv
  <2>1. {rdone, wdone, filler, filler_started, eof, seek_requested, feof} \subseteq BOOLEAN
    BY DEF Init
  <2>2. ipos \in Nat /\ pos \in Nat /\ cleft \in Nat /\ seek_off \in Offs \cup {0}
        /\ seek_result \in {0, -1}
    BY DEF Init
  <2>3. fpc = "none" /\ cpc = "idle"
    BY DEF Init
  <2> QED BY <1>1, <1>2, <2>1, <2>2, <2>3 DEF TypeInv, TypeOK
<1>4. Control
  BY DEF Init, Control
<1> QED BY <1>3, <1>4

(* No step leaves the ranges.                                               *)
LEMMA TypeHolds == TypeInv /\ [AnyNext]_vars => TypeInv'
<1> SUFFICES ASSUME TypeInv, [AnyNext]_vars PROVE TypeInv' OBVIOUS
<1> USE ParameterAssumption DEF TypeInv, TypeOK, FirstRun, Reading, Seeking
<1>1. CASE FillerStart BY <1>1 DEF FillerStart
<1>2. CASE LoopTest BY <1>2 DEF LoopTest
<1>3. CASE LoopTestRequest BY <1>3 DEF LoopTestRequest
<1>4. CASE TestRequest
  <2>1. CASE seek_requested BY <1>4, <2>1 DEF TestRequest
  <2>2. CASE ~seek_requested
    <3>1. fleft' = StepSize /\ feof' = FALSE /\ fpc' = "write_test" /\ fn' = fn /\ fgot' = fgot
      BY <1>4, <2>2 DEF TestRequest, CallWrite2
    <3>2. fleft' \in 0 .. StepSize
      BY <3>1
    <3>3. UNCHANGED <<ipos, circbuf, stream, seek, user>>
      BY <1>4 DEF TestRequest
    <3>4. fgot = <<>>
      BY <1>4 DEF TestRequest
    <3>5. {rdone', wdone', filler', filler_started', eof', seek_requested', feof'} \subseteq BOOLEAN
      BY <3>1, <3>3
    <3> QED BY <3>1, <3>2, <3>3, <3>4, <3>5
  <2> QED BY <2>1, <2>2
<1>5. CASE FillerSeek
  <2>1. seek_result' \in {0, -1} /\ ipos' \in Nat
    BY <1>5 DEF FillerSeek, SeekInner
  <2> QED BY <1>5, <2>1 DEF FillerSeek, FillerSought
<1>6. CASE Serve
  <2>1. /\ ring' \in Seq(Nat) /\ Len(ring') <= Len(ring) /\ woff' \in 0 .. Capacity
        /\ {rdone', wdone'} \subseteq BOOLEAN
    <3>1. CASE seek_result = 0
      <4>1. ring' = <<>> /\ woff' = 0 /\ rdone' = FALSE /\ wdone' = FALSE
        BY <1>6, <3>1 DEF Serve, Answer, circbuf_reset
      <4>2. ring' \in Seq(Nat) /\ Len(ring') = 0 /\ woff' \in 0 .. Capacity
        BY <4>1
      <4>3. {rdone', wdone'} \subseteq BOOLEAN
        BY <4>1
      <4> QED BY <4>2, <4>3
    <3>2. CASE seek_result # 0
      BY <1>6, <3>2 DEF Serve, Answer
    <3> QED BY <3>1, <3>2
  <2>2. cpc' \in Reading \cup Seeking \cup {"idle", "join", "destroyed"}
    BY <1>6 DEF Serve, SignalUser
  <2>3. /\ fleft' = StepSize /\ feof' = FALSE /\ fpc' = "write_test" /\ fn' = fn
        /\ fgot = <<>> /\ fgot' = fgot
    BY <1>6 DEF Serve, CallWrite2
  <2>4. fleft' \in 0 .. StepSize /\ fn' \in Nat /\ Len(ring') + Len(fgot') + fn' <= Capacity
    BY <2>1, <2>3
  <2>5. seek_requested' = FALSE
    BY <1>6 DEF Serve
  <2>6. UNCHANGED <<ipos, stream, seek_off, seek_result, cleft, out>>
    BY <1>6 DEF Serve
  <2>7. {rdone', wdone', filler', filler_started', eof', seek_requested', feof'} \subseteq BOOLEAN
    BY <2>1, <2>3, <2>5, <2>6
  <2> QED BY <2>1, <2>2, <2>3, <2>4, <2>6, <2>7
<1>7. CASE WriteTest BY <1>7 DEF WriteTest
<1>8. CASE WriteWait BY <1>8 DEF WriteWait
<1>9. CASE WriteRetest BY <1>9 DEF WriteRetest
<1>10. CASE WriteLoad
  <2>1. fn' = SmallerOf(Capacity - Len(ring), fleft) /\ fgot = <<>>
        /\ UNCHANGED <<ipos, circbuf, stream, seek, fleft, fgot, feof, user>>
    BY <1>10 DEF WriteLoad
  <2>2. fn' \in Nat /\ fn' <= fleft /\ Len(ring) + fn' <= Capacity /\ Len(fgot) = 0
    BY <2>1 DEF SmallerOf
  <2>3. CASE TwoRuns
    <3>1. fpc' = "write_first" /\ FirstRun <= fn'
      BY <1>10, <2>1, <2>3 DEF WriteLoad, TwoRuns, FirstRun, SmallerOf
    <3>2. FirstRun' = FirstRun
      BY <2>1 DEF FirstRun
    <3> QED BY <2>1, <2>2, <3>1, <3>2
  <2>4. CASE ~TwoRuns
    <3>1. fpc' = "write_fill"
      BY <1>10, <2>4 DEF WriteLoad
    <3> QED BY <2>1, <2>2, <3>1
  <2> QED BY <2>3, <2>4
<1>11. CASE FillAny
  <2>1. PICK b \in Seq(Nat) : Len(b) <= Asked /\ FillWith(b) /\ ipos' \in Nat
    BY <1>11 DEF FillAny
  <2>2. /\ fpc \in {"write_first", "write_fill"} /\ ring' \in Seq(Nat) /\ fgot' \in Seq(Nat)
        /\ UNCHANGED <<rdone, wdone, stream, seek, user>>
    BY <2>1, FillFacts
  <2>3. Len(b) \in Nat /\ Asked \in Nat /\ Len(b) <= Asked /\ Asked <= fn
    BY <2>1, <2>2, AskedFacts
  <2>4. /\ fpc' \in {"write_rest", "write_test"} /\ (fpc' # "write_rest" => fgot' = <<>>)
        /\ woff' \in 0 .. Capacity /\ fleft' \in 0 .. StepSize /\ fn' \in Nat
        /\ feof' \in BOOLEAN
        /\ Len(ring') + Len(fgot') + fn' <= Capacity
        /\ fpc' = "write_rest" => Len(fgot') + fn' <= fleft'
    <3>1. CASE fpc' = "write_rest"
      <4>1. /\ fgot = <<>> /\ fgot' = b /\ fn' = fn - Asked /\ Len(b) = Asked
            /\ UNCHANGED <<ring, woff, fleft, feof>>
        BY <2>1, <3>1, FillFacts
      <4> QED BY <2>2, <2>3, <3>1, <4>1
    <3>2. CASE fpc' # "write_rest"
      <4>1. /\ fpc' = "write_test" /\ fgot' = <<>> /\ fn' = 0
            /\ ring' = ring \o (fgot \o b)
            /\ woff' = Wrap(woff + (Len(fgot) + Len(b)))
            /\ fleft' = fleft - (Len(fgot) + Len(b))
            /\ feof' = (Len(b) < Asked)
        BY <2>1, <3>2, FillFacts
      <4>2. fgot \o b \in Seq(Nat) /\ Len(fgot \o b) = Len(fgot) + Len(b)
        BY AppendFacts
      <4>3. Len(ring') = Len(ring) + (Len(fgot) + Len(b))
        BY <4>1, <4>2, AppendFacts
      <4>4. Len(fgot') = 0 /\ feof' \in BOOLEAN
        BY <4>1
      <4>5. Len(fgot) + Len(b) \in Nat /\ Len(fgot) + Len(b) <= fleft /\ Len(ring) + (Len(fgot) + Len(b)) <= Capacity
        BY <2>2, <2>3
      <4>6. fleft' \in 0 .. StepSize
        BY <4>1, <4>5
      <4>7. woff' \in 0 .. Capacity
        BY <4>1, <4>5, SMTT(30) DEF Wrap
      <4> QED BY <2>2, <4>1, <4>3, <4>4, <4>5, <4>6, <4>7
    <3> QED BY <3>1, <3>2
  <2> QED BY <2>1, <2>2, <2>4
<1>12. CASE CloseWriting BY <1>12 DEF CloseWriting, circbuf_close_write
<1>13. CASE EofCheck BY <1>13 DEF EofCheck
<1>14. CASE FillerSpuriousWake BY <1>14 DEF FillerSpuriousWake
<1>15. CASE StartFilling BY <1>15 DEF StartFilling
<1>16. CASE StartBlockingFill BY <1>16 DEF StartBlockingFill
<1>17. ASSUME NEW len \in Lens, CallRead(len) PROVE TypeInv' BY <1>17 DEF CallRead
<1>18. CASE ReadTest BY <1>18 DEF ReadTest
<1>19. CASE ReadTestDone BY <1>19 DEF ReadTestDone
<1>20. CASE ReadFinish BY <1>20 DEF ReadFinish, ReadReturn
<1>21. CASE ReadWait BY <1>21 DEF ReadWait
<1>22. CASE ReadTake
  <2> DEFINE n == SmallerOf(Len(ring), cleft)
  <2>1. n \in 0 .. Len(ring) /\ n <= cleft
    BY DEF SmallerOf
  <2>2. /\ ring' = SubSeq(ring, n + 1, Len(ring)) /\ out' = out \o SubSeq(ring, 1, n)
        /\ cleft' = cleft - n /\ cpc' = "read_test"
        /\ UNCHANGED <<ipos, woff, rdone, wdone, stream, seek, fill>>
    BY <1>22 DEF ReadTake, Taken
  <2>3. ring \in Seq(Nat) /\ out \in Seq(Nat)
    OBVIOUS
  <2> HIDE DEF n
  <2>4. ring' \in Seq(Nat) /\ Len(ring') = Len(ring) - n
    BY <2>1, <2>2, <2>3, TakeFacts
  <2>5. out' \in Seq(Nat)
    BY <2>1, <2>2, <2>3, TakeFacts, AppendFacts
  <2>6. cleft' \in Nat /\ Len(ring') + Len(fgot') + fn' <= Capacity
    BY <2>1, <2>2, <2>4
  <2>7. FirstRun' = FirstRun
    BY <2>2 DEF FirstRun
  <2> QED BY <2>2, <2>4, <2>5, <2>6, <2>7
<1>23. ASSUME NEW off \in Offs, CallSeek(off) PROVE TypeInv'
  <2>1. seek_requested' \in BOOLEAN /\ cpc' \in Seeking
    <3>1. CASE filler_started BY <1>23, <3>1 DEF CallSeek
    <3>2. CASE ~filler_started BY <1>23, <3>2 DEF CallSeek
    <3> QED BY <3>1, <3>2
  <2>2. out' = <<>> /\ seek_off' \in Offs
    BY <1>23 DEF CallSeek
  <2>3. out' \in Seq(Nat)
    BY <2>2
  <2>4. UNCHANGED <<ipos, circbuf, stream, seek_result, fill, cleft>>
    BY <1>23 DEF CallSeek
  <2> QED BY <2>1, <2>2, <2>3, <2>4
<1>24. CASE UserSeek
  <2>1. seek_result' \in {0, -1} /\ ipos' \in Nat
    BY <1>24 DEF UserSeek, SeekInner
  <2>2. pos' \in Nat /\ eof' \in BOOLEAN
    <3>1. CASE seek_result' = 0
      <4>1. seek_off \in Nat
        OBVIOUS
      <4>2. pos' = seek_off /\ eof' = FALSE
        BY <1>24, <3>1 DEF UserSeek, UserSought, SeekReturn
      <4> QED BY <4>1, <4>2
    <3>2. CASE seek_result' # 0 BY <1>24, <3>2 DEF UserSeek, UserSought, SeekReturn
    <3> QED BY <3>1, <3>2
  <2> QED BY <1>24, <2>1, <2>2 DEF UserSeek, UserSought, SeekReturn
<1>25. CASE SeekClose BY <1>25 DEF SeekClose, SignalFiller
<1>26. CASE UserSpuriousWake BY <1>26 DEF UserSpuriousWake
<1>27. CASE SeekWaitAgain BY <1>27 DEF SeekWaitAgain
<1>28. CASE SeekFinish
  <2>1. pos' \in Nat /\ eof' \in BOOLEAN
    <3>1. CASE seek_result = 0
      <4>1. seek_off \in Nat
        OBVIOUS
      <4>2. pos' = seek_off /\ eof' = FALSE
        BY <1>28, <3>1 DEF SeekFinish, SeekReturn
      <4> QED BY <4>1, <4>2
    <3>2. CASE seek_result # 0 BY <1>28, <3>2 DEF SeekFinish, SeekReturn
    <3> QED BY <3>1, <3>2
  <2> QED BY <1>28, <2>1 DEF SeekFinish, SeekReturn
<1>29. CASE Destroy BY <1>29 DEF Destroy, SignalFiller
<1>30. CASE Join BY <1>30 DEF Join, Joinable
<1>31. CASE UNCHANGED vars BY <1>31 DEF vars
<1>32. CASE WriteRest BY <1>32 DEF WriteRest
<1> QED
  BY <1>1, <1>2, <1>3, <1>4, <1>5, <1>6, <1>7, <1>8, <1>9, <1>10, <1>11, <1>12, <1>13, <1>14,
     <1>15, <1>16, <1>17, <1>18, <1>19, <1>20, <1>21, <1>22, <1>23, <1>24, <1>25, <1>26, <1>27,
     <1>28, <1>29, <1>30, <1>31, <1>32, FillIsAny DEF AnyNext, Next, FillerStep, UserStep, UserCall, Gone

(* Only a user in a seek has a request pending, and only then is it served. *)
LEMMA ControlHolds == TypeInv /\ Control /\ [AnyNext]_vars => Control'
<1> SUFFICES ASSUME TypeInv, Control, [AnyNext]_vars PROVE Control' OBVIOUS
<1> USE DEF TypeInv, TypeOK, Control, Reading, Seeking
<1>1. CASE FillerStart BY <1>1 DEF FillerStart, SeekLockFree
<1>2. CASE LoopTest BY <1>2 DEF LoopTest
<1>3. CASE LoopTestRequest BY <1>3 DEF LoopTestRequest
<1>4. CASE TestRequest BY <1>4 DEF TestRequest, CallWrite2
<1>5. CASE FillerSeek BY <1>5 DEF FillerSeek, FillerSought
<1>6. CASE Serve BY <1>6 DEF Serve, Answer, circbuf_reset, SignalUser, CallWrite2, SeekLockFree
<1>7. CASE WriteTest BY <1>7 DEF WriteTest
<1>8. CASE WriteWait BY <1>8 DEF WriteWait
<1>9. CASE WriteRetest BY <1>9 DEF WriteRetest
<1>10. CASE WriteLoad BY <1>10 DEF WriteLoad
<1>11. CASE FillAny
  <2>1. /\ fpc \in {"write_first", "write_fill"} /\ fpc' \in {"write_rest", "write_test"}
        /\ UNCHANGED <<rdone, wdone, stream, seek, user>>
    BY <1>11, FillControl
  <2> QED BY <2>1
<1>12. CASE CloseWriting BY <1>12 DEF CloseWriting, circbuf_close_write
<1>13. CASE EofCheck BY <1>13 DEF EofCheck
<1>14. CASE FillerSpuriousWake BY <1>14 DEF FillerSpuriousWake
<1>15. CASE StartFilling BY <1>15 DEF StartFilling
<1>16. CASE StartBlockingFill BY <1>16 DEF StartBlockingFill
<1>17. ASSUME NEW len \in Lens, CallRead(len) PROVE Control' BY <1>17 DEF CallRead
<1>18. CASE ReadTest BY <1>18 DEF ReadTest
<1>19. CASE ReadTestDone BY <1>19 DEF ReadTestDone
<1>20. CASE ReadFinish BY <1>20 DEF ReadFinish, ReadReturn
<1>21. CASE ReadWait BY <1>21 DEF ReadWait
<1>22. CASE ReadTake
  <2>1. ring = <<>> => ring' = <<>>
    BY <1>22, TakeFacts DEF ReadTake, Taken, SmallerOf
  <2> QED BY <1>22, <2>1 DEF ReadTake
<1>23. ASSUME NEW off \in Offs, CallSeek(off) PROVE Control' BY <1>23 DEF CallSeek, SeekLockFree
<1>24. CASE UserSeek BY <1>24 DEF UserSeek, UserSought, SeekReturn
<1>25. CASE SeekClose BY <1>25 DEF SeekClose, SignalFiller
<1>26. CASE UserSpuriousWake BY <1>26 DEF UserSpuriousWake
<1>27. CASE SeekWaitAgain BY <1>27 DEF SeekWaitAgain
<1>28. CASE SeekFinish BY <1>28 DEF SeekFinish, SeekReturn
<1>29. CASE Destroy BY <1>29 DEF Destroy, SignalFiller
<1>30. CASE Join BY <1>30 DEF Join, Joinable
<1>31. CASE UNCHANGED vars BY <1>31 DEF vars
<1>32. CASE WriteRest BY <1>32 DEF WriteRest
<1> QED
  BY <1>1, <1>2, <1>3, <1>4, <1>5, <1>6, <1>7, <1>8, <1>9, <1>10, <1>11, <1>12, <1>13, <1>14,
     <1>15, <1>16, <1>17, <1>18, <1>19, <1>20, <1>21, <1>22, <1>23, <1>24, <1>25, <1>26, <1>27,
     <1>28, <1>29, <1>30, <1>31, <1>32, FillIsAny DEF AnyNext, Next, FillerStep, UserStep, UserCall, Gone

(* The read end is closed only with a signal to a sleeping filler.          *)
LEMMA RequestsHolds == TypeInv /\ Control /\ Requests /\ [AnyNext]_vars => Requests'
<1> SUFFICES ASSUME TypeInv, Control, Requests, [AnyNext]_vars PROVE Requests' OBVIOUS
<1> USE DEF TypeInv, TypeOK, Control, Requests, Reading, Seeking, Ended
<1>1. CASE FillerStart BY <1>1 DEF FillerStart, SeekLockFree
<1>2. CASE LoopTest BY <1>2 DEF LoopTest
<1>3. CASE LoopTestRequest BY <1>3 DEF LoopTestRequest
<1>4. CASE TestRequest BY <1>4 DEF TestRequest, CallWrite2
<1>5. CASE FillerSeek
  <2>1. rdone' = rdone /\ seek_requested' = seek_requested /\ fpc' = "serve" /\ cpc' = cpc
        /\ filler_started' = filler_started
    BY <1>5 DEF FillerSeek, FillerSought
  <2> QED BY <1>5, <2>1 DEF FillerSeek, FillerSought
<1>6. CASE Serve BY <1>6 DEF Serve, Answer, circbuf_reset, SignalUser, CallWrite2, SeekLockFree
<1>7. CASE WriteTest BY <1>7 DEF WriteTest
<1>8. CASE WriteWait BY <1>8 DEF WriteWait
<1>9. CASE WriteRetest BY <1>9 DEF WriteRetest
<1>10. CASE WriteLoad BY <1>10 DEF WriteLoad
<1>11. CASE FillAny
  <2>1. /\ fpc \in {"write_first", "write_fill"} /\ fpc' \in {"write_rest", "write_test"}
        /\ UNCHANGED <<rdone, wdone, stream, seek, user>>
    BY <1>11, FillControl
  <2> QED BY <2>1
<1>12. CASE CloseWriting BY <1>12 DEF CloseWriting, circbuf_close_write
<1>13. CASE EofCheck BY <1>13 DEF EofCheck
<1>14. CASE FillerSpuriousWake BY <1>14 DEF FillerSpuriousWake
<1>15. CASE StartFilling BY <1>15 DEF StartFilling
<1>16. CASE StartBlockingFill BY <1>16 DEF StartBlockingFill
<1>17. ASSUME NEW len \in Lens, CallRead(len) PROVE Requests' BY <1>17 DEF CallRead
<1>18. CASE ReadTest BY <1>18 DEF ReadTest
<1>19. CASE ReadTestDone BY <1>19 DEF ReadTestDone
<1>20. CASE ReadFinish BY <1>20 DEF ReadFinish, ReadReturn
<1>21. CASE ReadWait BY <1>21 DEF ReadWait
<1>22. CASE ReadTake BY <1>22 DEF ReadTake
<1>23. ASSUME NEW off \in Offs, CallSeek(off) PROVE Requests'
  BY <1>23 DEF CallSeek, SeekLockFree
<1>24. CASE UserSeek BY <1>24 DEF UserSeek, UserSought, SeekReturn
<1>25. CASE SeekClose BY <1>25 DEF SeekClose, SignalFiller
<1>26. CASE UserSpuriousWake BY <1>26 DEF UserSpuriousWake
<1>27. CASE SeekWaitAgain BY <1>27 DEF SeekWaitAgain
<1>28. CASE SeekFinish BY <1>28 DEF SeekFinish, SeekReturn
<1>29. CASE Destroy BY <1>29 DEF Destroy, SignalFiller
<1>30. CASE Join BY <1>30 DEF Join, Joinable
<1>31. CASE UNCHANGED vars BY <1>31 DEF vars
<1>32. CASE WriteRest BY <1>32 DEF WriteRest
<1> QED
  BY <1>1, <1>2, <1>3, <1>4, <1>5, <1>6, <1>7, <1>8, <1>9, <1>10, <1>11, <1>12, <1>13, <1>14,
     <1>15, <1>16, <1>17, <1>18, <1>19, <1>20, <1>21, <1>22, <1>23, <1>24, <1>25, <1>26, <1>27,
     <1>28, <1>29, <1>30, <1>31, <1>32, FillIsAny DEF AnyNext, Next, FillerStep, UserStep, UserCall, Gone

(* A filler is forgotten only once it has left.                             *)
LEMMA JoinedHolds == TypeInv /\ ~BlockingFill /\ Joined /\ [AnyNext]_vars => Joined'
<1> SUFFICES ASSUME TypeInv, ~BlockingFill, Joined, [AnyNext]_vars PROVE Joined' OBVIOUS
<1> USE DEF TypeInv, TypeOK, Joined, Reading, Seeking
<1>1. CASE FillerStart BY <1>1 DEF FillerStart, SeekLockFree
<1>2. CASE LoopTest BY <1>2 DEF LoopTest
<1>3. CASE LoopTestRequest BY <1>3 DEF LoopTestRequest
<1>4. CASE TestRequest BY <1>4 DEF TestRequest, CallWrite2
<1>5. CASE FillerSeek BY <1>5 DEF FillerSeek, FillerSought
<1>6. CASE Serve BY <1>6 DEF Serve, Answer, circbuf_reset, SignalUser, CallWrite2, SeekLockFree
<1>7. CASE WriteTest BY <1>7 DEF WriteTest
<1>8. CASE WriteWait BY <1>8 DEF WriteWait
<1>9. CASE WriteRetest BY <1>9 DEF WriteRetest
<1>10. CASE WriteLoad BY <1>10 DEF WriteLoad
<1>11. CASE FillAny
  <2>1. /\ fpc \in {"write_first", "write_fill"} /\ fpc' \in {"write_rest", "write_test"}
        /\ UNCHANGED <<rdone, wdone, stream, seek, user>>
    BY <1>11, FillControl
  <2> QED BY <2>1
<1>12. CASE CloseWriting BY <1>12 DEF CloseWriting, circbuf_close_write
<1>13. CASE EofCheck BY <1>13 DEF EofCheck
<1>14. CASE FillerSpuriousWake BY <1>14 DEF FillerSpuriousWake
<1>15. CASE StartFilling BY <1>15 DEF StartFilling
<1>16. CASE StartBlockingFill BY <1>16 DEF StartBlockingFill
<1>17. ASSUME NEW len \in Lens, CallRead(len) PROVE Joined' BY <1>17 DEF CallRead
<1>18. CASE ReadTest BY <1>18 DEF ReadTest
<1>19. CASE ReadTestDone BY <1>19 DEF ReadTestDone
<1>20. CASE ReadFinish BY <1>20 DEF ReadFinish, ReadReturn
<1>21. CASE ReadWait BY <1>21 DEF ReadWait
<1>22. CASE ReadTake BY <1>22 DEF ReadTake
<1>23. ASSUME NEW off \in Offs, CallSeek(off) PROVE Joined' BY <1>23 DEF CallSeek, SeekLockFree
<1>24. CASE UserSeek BY <1>24 DEF UserSeek, UserSought, SeekReturn
<1>25. CASE SeekClose BY <1>25 DEF SeekClose, SignalFiller
<1>26. CASE UserSpuriousWake BY <1>26 DEF UserSpuriousWake
<1>27. CASE SeekWaitAgain BY <1>27 DEF SeekWaitAgain
<1>28. CASE SeekFinish BY <1>28 DEF SeekFinish, SeekReturn
<1>29. CASE Destroy BY <1>29 DEF Destroy, SignalFiller
<1>30. CASE Join BY <1>30 DEF Join, Joinable
<1>31. CASE UNCHANGED vars BY <1>31 DEF vars
<1>32. CASE WriteRest BY <1>32 DEF WriteRest
<1> QED
  BY <1>1, <1>2, <1>3, <1>4, <1>5, <1>6, <1>7, <1>8, <1>9, <1>10, <1>11, <1>12, <1>13, <1>14,
     <1>15, <1>16, <1>17, <1>18, <1>19, <1>20, <1>21, <1>22, <1>23, <1>24, <1>25, <1>26, <1>27,
     <1>28, <1>29, <1>30, <1>31, <1>32, FillIsAny DEF AnyNext, Next, FillerStep, UserStep, UserCall, Gone

ServedAsleep == fpc = "serve" /\ fpc' # "serve" => cpc \in {"seek_wait", "seek_woken"}

(* Whoever serves a request finds the user asleep.                          *)
LEMMA ResetStep == TypeInv /\ Control /\ [AnyNext]_vars => ServedAsleep
<1> SUFFICES ASSUME TypeInv, Control, [AnyNext]_vars
                PROVE ServedAsleep OBVIOUS
<1> USE DEF TypeInv, TypeOK, Control, Reading, Seeking, ServedAsleep
<1>1. CASE FillerStart BY <1>1 DEF FillerStart, SeekLockFree
<1>2. CASE LoopTest BY <1>2 DEF LoopTest
<1>3. CASE LoopTestRequest BY <1>3 DEF LoopTestRequest
<1>4. CASE TestRequest BY <1>4 DEF TestRequest, CallWrite2
<1>5. CASE FillerSeek BY <1>5 DEF FillerSeek, FillerSought
<1>6. CASE Serve BY <1>6 DEF Serve, Answer, circbuf_reset, SignalUser, CallWrite2, SeekLockFree
<1>7. CASE WriteTest BY <1>7 DEF WriteTest
<1>8. CASE WriteWait BY <1>8 DEF WriteWait
<1>9. CASE WriteRetest BY <1>9 DEF WriteRetest
<1>10. CASE WriteLoad BY <1>10 DEF WriteLoad
<1>11. CASE FillAny
  <2>1. /\ fpc \in {"write_first", "write_fill"} /\ fpc' \in {"write_rest", "write_test"}
        /\ UNCHANGED <<rdone, wdone, stream, seek, user>>
    BY <1>11, FillControl
  <2> QED BY <2>1
<1>12. CASE CloseWriting BY <1>12 DEF CloseWriting, circbuf_close_write
<1>13. CASE EofCheck BY <1>13 DEF EofCheck
<1>14. CASE FillerSpuriousWake BY <1>14 DEF FillerSpuriousWake
<1>15. CASE StartFilling BY <1>15 DEF StartFilling
<1>16. CASE StartBlockingFill BY <1>16 DEF StartBlockingFill
<1>17. ASSUME NEW len \in Lens, CallRead(len) PROVE ServedAsleep
  BY <1>17 DEF CallRead
<1>18. CASE ReadTest BY <1>18 DEF ReadTest
<1>19. CASE ReadTestDone BY <1>19 DEF ReadTestDone
<1>20. CASE ReadFinish BY <1>20 DEF ReadFinish, ReadReturn
<1>21. CASE ReadWait BY <1>21 DEF ReadWait
<1>22. CASE ReadTake BY <1>22 DEF ReadTake
<1>23. ASSUME NEW off \in Offs, CallSeek(off) PROVE ServedAsleep
  BY <1>23 DEF CallSeek, SeekLockFree
<1>24. CASE UserSeek BY <1>24 DEF UserSeek, UserSought, SeekReturn
<1>25. CASE SeekClose BY <1>25 DEF SeekClose, SignalFiller
<1>26. CASE UserSpuriousWake BY <1>26 DEF UserSpuriousWake
<1>27. CASE SeekWaitAgain BY <1>27 DEF SeekWaitAgain
<1>28. CASE SeekFinish BY <1>28 DEF SeekFinish, SeekReturn
<1>29. CASE Destroy BY <1>29 DEF Destroy, SignalFiller
<1>30. CASE Join BY <1>30 DEF Join, Joinable
<1>31. CASE UNCHANGED vars BY <1>31 DEF vars
<1>32. CASE WriteRest BY <1>32 DEF WriteRest
<1> QED
  BY <1>1, <1>2, <1>3, <1>4, <1>5, <1>6, <1>7, <1>8, <1>9, <1>10, <1>11, <1>12, <1>13, <1>14,
     <1>15, <1>16, <1>17, <1>18, <1>19, <1>20, <1>21, <1>22, <1>23, <1>24, <1>25, <1>26, <1>27,
     <1>28, <1>29, <1>30, <1>31, <1>32, FillIsAny DEF AnyNext, Next, FillerStep, UserStep, UserCall, Gone

(* A call of filler_cb puts the bytes at the inner stream's position behind *)
(* those that are there, wherever these begin.                              *)
LEMMA FillAligns ==
    ASSUME TypeInv, WriteFill, NEW p \in Nat, Aligned(p)
    PROVE  /\ \A i \in 1 .. Len(ring') : ring'[i] = p + i - 1
           /\ \A i \in 1 .. Len(fgot') : fgot'[i] = p + Len(ring') + i - 1
           /\ ipos' = p + Len(ring') + Len(fgot')
<1>1. PICK g \in InnerReads(Asked), b \in Seq(Nat) :
          /\ FillWith(b) /\ Len(b) = g /\ ipos' = ipos + g
          /\ \A i \in 1 .. g : b[i] = ipos + i - 1
          /\ g \in Nat /\ g <= Asked
  BY ReadFacts
<1>5. ring \in Seq(Nat) /\ fgot \in Seq(Nat) /\ ipos \in Nat
  BY DEF TypeInv, TypeOK
<1>6. CASE fpc' = "write_rest"
  <2>1. fgot = <<>> /\ fgot' = b /\ ring' = ring
    BY <1>1, <1>6, FillFacts
  <2>2. Len(fgot) = 0
    BY <2>1
  <2>3. ipos = p + Len(ring) /\ Len(ring) \in Nat
    BY <1>5, <2>2 DEF Aligned
  <2>4. \A i \in 1 .. Len(fgot') : fgot'[i] = p + Len(ring') + i - 1
    BY <1>1, <2>1, <2>3
  <2>5. ipos' = p + Len(ring') + Len(fgot')
    BY <1>1, <2>1, <2>3
  <2> QED BY <2>1, <2>4, <2>5 DEF Aligned
<1>7. CASE fpc' # "write_rest"
  <2> DEFINE all == fgot \o b
  <2>1. ring' = ring \o all /\ fgot' = <<>>
    BY <1>1, <1>7, FillFacts
  <2>2. /\ all \in Seq(Nat) /\ Len(all) = Len(fgot) + g
        /\ \A i \in 1 .. Len(fgot) : all[i] = fgot[i]
        /\ \A i \in 1 .. g : all[Len(fgot) + i] = b[i]
    BY <1>1, <1>5, AppendFacts
  <2>3. ASSUME NEW i \in 1 .. Len(all) PROVE all[i] = p + Len(ring) + i - 1
    <3>1. CASE i \in 1 .. Len(fgot)
      BY <2>2, <3>1 DEF Aligned
    <3>2. CASE i \notin 1 .. Len(fgot)
      <4> DEFINE j == i - Len(fgot)
      <4>1. j \in 1 .. g /\ Len(fgot) + j = i
        BY <1>1, <1>5, <2>2, <3>2
      <4> HIDE DEF j, all
      <4>2. all[i] = ipos + j - 1
        BY <1>1, <2>2, <4>1
      <4>3. ipos = p + Len(ring) + Len(fgot)
        BY DEF Aligned
      <4>4. j \in Nat /\ Len(fgot) \in Nat /\ Len(ring) \in Nat /\ p \in Nat
        BY <1>5, <4>1
      <4>5. ipos + j - 1 = p + Len(ring) + i - 1
        BY <4>1, <4>3, <4>4, SMTT(30)
      <4> QED BY <4>2, <4>5
    <3> QED BY <3>1, <3>2
  <2> HIDE DEF all
  <2>4. /\ Len(ring') = Len(ring) + Len(all)
        /\ \A i \in 1 .. Len(ring) : ring'[i] = ring[i]
        /\ \A i \in 1 .. Len(all) : ring'[Len(ring) + i] = all[i]
    BY <1>5, <2>1, <2>2, AppendFacts
  <2>5. ASSUME NEW i \in 1 .. Len(ring') PROVE ring'[i] = p + i - 1
    <3>1. CASE i \in 1 .. Len(ring)
      BY <2>4, <3>1 DEF Aligned
    <3>2. CASE i \notin 1 .. Len(ring)
      <4> DEFINE j == i - Len(ring)
      <4>1. j \in 1 .. Len(all) /\ Len(ring) + j = i
        BY <1>5, <2>2, <2>4, <3>2
      <4> HIDE DEF j
      <4>2. ring'[i] = all[j] /\ all[j] = p + Len(ring) + j - 1
        BY <2>3, <2>4, <4>1
      <4>3. j \in Nat /\ Len(ring) \in Nat /\ p \in Nat
        BY <1>5, <4>1
      <4>4. p + Len(ring) + j - 1 = p + i - 1
        BY <4>1, <4>3
      <4> QED BY <4>2, <4>4
    <3> QED BY <3>1, <3>2
  <2>6. Len(fgot') = 0
    BY <2>1
  <2> QED BY <1>1, <1>5, <2>2, <2>4, <2>5, <2>6 DEF Aligned
<1> QED BY <1>6, <1>7

(* User and inner stream move by the bytes the buffer gives and takes.      *)
LEMMA AlignmentHolds == TypeInv /\ Control /\ Alignment /\ [Next]_vars => Alignment'
<1> SUFFICES ASSUME TypeInv, Control, Alignment, [Next]_vars PROVE Alignment' OBVIOUS
<1> USE ParameterAssumption DEF TypeInv, TypeOK, Control, Alignment, Aligned, Front, Reading, Seeking
<1>1. CASE FillerStart BY <1>1 DEF FillerStart, SeekLockFree
<1>2. CASE LoopTest BY <1>2 DEF LoopTest
<1>3. CASE LoopTestRequest BY <1>3 DEF LoopTestRequest
<1>4. CASE TestRequest
  <2>1. /\ fpc = "request" /\ fpc' \in {"inner_seek", "write_test"}
        /\ UNCHANGED <<ipos, ring, fgot, pos, seek_requested, seek_off, seek_result, cpc, out>>
    BY <1>4 DEF TestRequest, CallWrite2, circbuf, stream, seek, write2, user
  <2> QED BY <2>1
<1>5. CASE FillerSeek
  <2>1. /\ fpc = "inner_seek" /\ fpc' = "serve" /\ seek_requested
        /\ UNCHANGED <<ring, fgot, stream, seek_requested, seek_off, user>>
    BY <1>5 DEF FillerSeek, FillerSought
  <2>2. cpc \in Seeking /\ Aligned(pos)
    BY <2>1
  <2>3. CASE seek_result' = 0 /\ ipos' = seek_off
    BY <2>1, <2>2, <2>3
  <2>4. CASE seek_result' = -1 /\ ipos' = ipos
    BY <2>1, <2>2, <2>4
  <2> QED BY <1>5, <2>3, <2>4 DEF FillerSeek, SeekInner
<1>6. CASE Serve
  <2>1. /\ fpc = "serve" /\ cpc \in {"seek_wait", "seek_woken"} /\ cpc' = "seek_woken"
        /\ fpc' = "write_test" /\ ~seek_requested' /\ seek_off \in Nat
        /\ UNCHANGED <<ipos, stream, seek_off, seek_result>>
    BY <1>6 DEF Serve, SignalUser, CallWrite2, SeekLockFree
  <2>2. CASE seek_result = 0
    <3>1. ring' = <<>> /\ ipos = seek_off
      BY <1>6, <2>1, <2>2 DEF Serve, Answer, circbuf_reset
    <3>2. Len(ring') = 0 /\ \A i \in 1 .. Len(ring') : ring'[i] = seek_off + i - 1
      BY <3>1
    <3>3. fgot' = <<>> /\ Len(fgot') = 0
      BY <1>6 DEF Serve, CallWrite2
    <3>4. ipos' = seek_off + Len(ring') + Len(fgot')
      BY <2>1, <3>1, <3>2, <3>3
    <3> QED BY <2>1, <2>2, <3>2, <3>3, <3>4
  <2>3. CASE seek_result # 0
    BY <1>6, <2>1, <2>3 DEF Serve, Answer, CallWrite2
  <2> QED BY <2>2, <2>3
<1>7. CASE WriteTest BY <1>7 DEF WriteTest
<1>8. CASE WriteWait BY <1>8 DEF WriteWait
<1>9. CASE WriteRetest BY <1>9 DEF WriteRetest
<1>10. CASE WriteLoad BY <1>10 DEF WriteLoad
<1>11. CASE WriteFill
  <2> DEFINE After(p) ==
                 /\ \A i \in 1 .. Len(ring') : ring'[i] = p + i - 1
                 /\ \A i \in 1 .. Len(fgot') : fgot'[i] = p + Len(ring') + i - 1
                 /\ ipos' = p + Len(ring') + Len(fgot')
  <2>1. \A p \in Nat : Aligned(p) => After(p)
    BY <1>11, FillAligns
  <2>2. fpc # "serve" /\ fpc' # "serve"
    BY <1>11 DEF WriteFill, FillWith, KeepFirst, Publish
  <2>3. UNCHANGED <<stream, seek, user>>
    BY <1>11 DEF WriteFill, FillWith
  <2>4. Front \in Nat /\ pos \in Nat /\ seek_off \in Nat
    OBVIOUS
  <2>5. /\ cpc \notin Seeking => Aligned(Front)
        /\ cpc \in Seeking /\ (seek_requested \/ cpc = "inner_seek") => Aligned(pos)
        /\ cpc = "seek_woken" /\ ~seek_requested
              => IF seek_result = 0 THEN Aligned(seek_off) ELSE Aligned(pos)
    BY <2>2
  <2> HIDE DEF TypeInv, TypeOK, Control, Alignment, Aligned, After, Front, Seeking
  <2>6. /\ cpc \notin Seeking => After(Front)
        /\ cpc \in Seeking /\ (seek_requested \/ cpc = "inner_seek") => After(pos)
        /\ cpc = "seek_woken" /\ ~seek_requested
              => IF seek_result = 0 THEN After(seek_off) ELSE After(pos)
    BY <2>1, <2>4, <2>5
  <2>7. Front' = Front
    BY <2>3 DEF Front
  <2>8. cpc \notin Seeking => Aligned(Front)'
    BY <2>6, <2>7 DEF After, Aligned
  <2>9. After(pos) => Aligned(pos)'
    BY <2>3 DEF After, Aligned
  <2>10. After(seek_off) => Aligned(seek_off)'
    BY <2>3 DEF After, Aligned
  <2> QED BY <2>2, <2>3, <2>6, <2>8, <2>9, <2>10 DEF Alignment
<1>12. CASE CloseWriting BY <1>12 DEF CloseWriting, circbuf_close_write
<1>13. CASE EofCheck BY <1>13 DEF EofCheck
<1>14. CASE FillerSpuriousWake BY <1>14 DEF FillerSpuriousWake
<1>15. CASE StartFilling BY <1>15 DEF StartFilling
<1>16. CASE StartBlockingFill BY <1>16 DEF StartBlockingFill
<1>17. ASSUME NEW len \in Lens, CallRead(len) PROVE Alignment' BY <1>17 DEF CallRead
<1>18. CASE ReadTest BY <1>18 DEF ReadTest
<1>19. CASE ReadTestDone BY <1>19 DEF ReadTestDone
<1>20. CASE ReadFinish BY <1>20 DEF ReadFinish, ReadReturn
<1>21. CASE ReadWait BY <1>21 DEF ReadWait
<1>22. CASE ReadTake
  <2> DEFINE n == SmallerOf(Len(ring), cleft)
  <2>1. n \in 0 .. Len(ring)
    BY DEF SmallerOf
  <2>2. /\ Len(ring') = Len(ring) - n
        /\ \A i \in 1 .. Len(ring) - n : ring'[i] = ring[i + n]
        /\ Len(out') = Len(out) + n
    <3>1. ring' = SubSeq(ring, n + 1, Len(ring)) /\ out' = out \o SubSeq(ring, 1, n)
      BY <1>22 DEF ReadTake, Taken
    <3>2. ring \in Seq(Nat) /\ out \in Seq(Nat)
      OBVIOUS
    <3> HIDE DEF n
    <3>3. SubSeq(ring, 1, n) \in Seq(Nat) /\ Len(SubSeq(ring, 1, n)) = n
      BY <2>1, <3>2, TakeFacts
    <3>4. Len(out') = Len(out) + n
      BY <3>1, <3>2, <3>3, AppendFacts
    <3>5. /\ Len(ring') = Len(ring) - n
          /\ \A i \in 1 .. Len(ring) - n : ring'[i] = ring[i + n]
      BY <2>1, <3>1, <3>2, TakeFacts, SMTT(30)
    <3> QED BY <3>4, <3>5
  <2>3. cpc = "read_take" /\ cpc' = "read_test" /\ UNCHANGED <<ipos, stream, seek, fill>>
    BY <1>22 DEF ReadTake
  <2>4. Front' = Front + n /\ Front \in Nat
    BY <2>1, <2>2, <2>3, SMTT(30)
  <2>5. /\ \A i \in 1 .. Len(ring) : ring[i] = Front + i - 1
        /\ \A i \in 1 .. Len(fgot) : fgot[i] = Front + Len(ring) + i - 1
        /\ ipos = Front + Len(ring) + Len(fgot)
    BY <2>3
  <2> HIDE DEF n, Front
  <2>6. \A i \in 1 .. Len(ring') : ring'[i] = Front' + i - 1
    <3> TAKE i \in 1 .. Len(ring')
    <3>1. n \in Nat /\ i \in Nat /\ i \in 1 .. Len(ring) - n
      BY <2>1, <2>2
    <3>2. i + n \in 1 .. Len(ring) /\ ring'[i] = ring[i + n]
      BY <2>2, <3>1
    <3>3. ring[i + n] = Front + (i + n) - 1
      BY <2>5, <3>2
    <3> QED BY <2>4, <3>1, <3>2, <3>3
  <2>7. Front' + Len(ring') = Front + Len(ring) /\ Front + Len(ring) \in Nat /\ fgot' = fgot
    BY <2>1, <2>2, <2>3, <2>4
  <2>8. \A i \in 1 .. Len(fgot') : fgot'[i] = Front' + Len(ring') + i - 1
    BY <2>5, <2>7
  <2>9. ipos' = Front' + Len(ring') + Len(fgot')
    BY <2>3, <2>5, <2>7
  <2> QED BY <2>3, <2>6, <2>8, <2>9
<1>23. ASSUME NEW off \in Offs, CallSeek(off) PROVE Alignment'
  BY <1>23 DEF CallSeek, SeekLockFree
<1>24. CASE UserSeek
  <2>1. /\ cpc = "inner_seek" /\ cpc' = "idle" /\ fpc \in {"none", "start"} /\ Len(ring) = 0
        /\ Len(fgot) = 0
        /\ ~seek_requested /\ UNCHANGED <<ring, fgot, fpc, seek_requested, seek_off, out>>
    BY <1>24 DEF UserSeek, UserSought, SeekReturn
  <2>2. Aligned(pos) /\ Front' = pos' /\ seek_off \in Nat
    BY <2>1
  <2>3. CASE seek_result' = 0 /\ ipos' = seek_off
    <3>1. pos' = seek_off
      BY <1>24, <2>3 DEF UserSeek, UserSought, SeekReturn
    <3> QED BY <2>1, <2>2, <2>3, <3>1
  <2>4. CASE seek_result' = -1 /\ ipos' = ipos
    <3>1. pos' = pos
      BY <1>24, <2>4 DEF UserSeek, UserSought, SeekReturn
    <3> QED BY <2>1, <2>2, <2>4, <3>1
  <2> QED BY <1>24, <2>3, <2>4 DEF UserSeek, SeekInner
<1>25. CASE SeekClose BY <1>25 DEF SeekClose, SignalFiller
<1>26. CASE UserSpuriousWake BY <1>26 DEF UserSpuriousWake
<1>27. CASE SeekWaitAgain BY <1>27 DEF SeekWaitAgain
<1>28. CASE SeekFinish BY <1>28 DEF SeekFinish, SeekReturn
<1>29. CASE Destroy BY <1>29 DEF Destroy, SignalFiller
<1>30. CASE Join BY <1>30 DEF Join, Joinable
<1>31. CASE UNCHANGED vars BY <1>31 DEF vars
<1>32. CASE WriteRest BY <1>32 DEF WriteRest
<1> QED
  BY <1>1, <1>2, <1>3, <1>4, <1>5, <1>6, <1>7, <1>8, <1>9, <1>10, <1>11, <1>12, <1>13, <1>14,
     <1>15, <1>16, <1>17, <1>18, <1>19, <1>20, <1>21, <1>22, <1>23, <1>24, <1>25, <1>26, <1>27,
     <1>28, <1>29, <1>30, <1>31, <1>32 DEF Next, FillerStep, UserStep, UserCall, Gone

(* A read collects the bytes at its position, none past the end.            *)
LEMMA DeliveredHolds ==
    TypeInv /\ Control /\ Alignment /\ Delivered /\ [Next]_vars => Delivered'
<1> SUFFICES ASSUME TypeInv, Control, Alignment, Delivered, [Next]_vars PROVE Delivered' OBVIOUS
<1> USE ParameterAssumption DEF TypeInv, TypeOK, Control, Delivered, Reading, Seeking
<1>1. CASE FillerStart BY <1>1 DEF FillerStart, SeekLockFree
<1>2. CASE LoopTest BY <1>2 DEF LoopTest
<1>3. CASE LoopTestRequest BY <1>3 DEF LoopTestRequest
<1>4. CASE TestRequest BY <1>4 DEF TestRequest, CallWrite2
<1>5. CASE FillerSeek
  <2>1. /\ fpc = "inner_seek" /\ fpc' = "serve"
        /\ UNCHANGED <<ring, fgot, stream, seek_requested, seek_off, user>>
    BY <1>5 DEF FillerSeek, FillerSought
  <2>2. seek_result' = 0 \/ (seek_result' = -1 /\ ipos' = ipos)
    BY <1>5 DEF FillerSeek, SeekInner
  <2> QED BY <2>1, <2>2
<1>6. CASE Serve
  <2>1. /\ fpc = "serve" /\ cpc \in Seeking /\ cpc' \in Seeking /\ fpc' = "write_test"
        /\ fgot' = <<>> /\ UNCHANGED <<ipos, seek_off, out>>
    BY <1>6 DEF Serve, SignalUser, CallWrite2, SeekLockFree
  <2>2. seek_result = 0 => ring' = <<>>
    BY <1>6 DEF Serve, Answer, circbuf_reset
  <2>3. seek_result # 0 => ring' = ring
    BY <1>6 DEF Serve, Answer
  <2> QED BY <2>1, <2>2, <2>3
<1>7. CASE WriteTest BY <1>7 DEF WriteTest
<1>8. CASE WriteWait BY <1>8 DEF WriteWait
<1>9. CASE WriteRetest BY <1>9 DEF WriteRetest
<1>10. CASE WriteLoad BY <1>10 DEF WriteLoad
<1>11. CASE WriteFill
  <2>1. PICK g \in InnerReads(Asked), b \in Seq(Nat) :
            FillWith(b) /\ Len(b) = g /\ ipos' = ipos + g /\ g \in Nat /\ Asked \in Nat /\ g <= Asked
    BY <1>11, ReadFacts
  <2>2. fpc \in {"write_first", "write_fill"} /\ fpc' # "serve" /\ UNCHANGED <<stream, seek, user>>
    BY <2>1 DEF FillWith, KeepFirst, Publish
  <2>3. ipos \in Nat /\ FileLen \in Nat
    OBVIOUS
  <2>4. ipos <= FileLen => ipos' <= FileLen
    BY <2>1, <2>3 DEF InnerReads, SmallerOf
  <2>5. ipos > FileLen => ring' = <<>> /\ fgot' = <<>>
    <3> SUFFICES ASSUME ipos > FileLen PROVE ring' = <<>> /\ fgot' = <<>> OBVIOUS
    <3>1. g = 0
      BY <2>1, <2>3 DEF InnerReads, SmallerOf
    <3>2. ring = <<>> /\ fgot = <<>> /\ b = <<>>
      BY <2>1, <2>2, <2>3, <3>1
    <3>3. fgot' = b \/ fgot' = <<>>
      BY <2>1, FillFacts
    <3>4. ring' = ring \/ ring' = ring \o (fgot \o b)
      BY <2>1, FillFacts
    <3> QED BY <3>2, <3>3, <3>4
  <2>6. ring' # <<>> \/ fgot' # <<>> => ipos' <= FileLen
    BY <2>1, <2>3, <2>4, <2>5
  <2> QED BY <2>2, <2>6
<1>12. CASE CloseWriting BY <1>12 DEF CloseWriting, circbuf_close_write
<1>13. CASE EofCheck BY <1>13 DEF EofCheck
<1>14. CASE FillerSpuriousWake BY <1>14 DEF FillerSpuriousWake
<1>15. CASE StartFilling BY <1>15 DEF StartFilling
<1>16. CASE StartBlockingFill BY <1>16 DEF StartBlockingFill
<1>17. ASSUME NEW len \in Lens, CallRead(len) PROVE Delivered'
  <2>1. /\ cpc' = "read_test" /\ cleft' = len /\ out' = <<>>
        /\ UNCHANGED <<ipos, ring, fgot, fpc, seek_result>>
    BY <1>17 DEF CallRead
  <2>2. Len(out') = 0 /\ len \in Nat
    BY <2>1
  <2> QED BY <2>1, <2>2
<1>18. CASE ReadTest BY <1>18 DEF ReadTest
<1>19. CASE ReadTestDone BY <1>19 DEF ReadTestDone
<1>20. CASE ReadFinish BY <1>20 DEF ReadFinish, ReadReturn
<1>21. CASE ReadWait BY <1>21 DEF ReadWait
<1>22. CASE ReadTake
  <2> DEFINE n == SmallerOf(Len(ring), cleft)
  <2>1. n \in 0 .. Len(ring)
    BY DEF SmallerOf
  <2>2. /\ cpc = "read_take" /\ cpc' = "read_test" /\ cleft' = cleft - n
        /\ ring' = SubSeq(ring, n + 1, Len(ring)) /\ out' = out \o SubSeq(ring, 1, n)
        /\ UNCHANGED <<ipos, stream, seek, fill>>
    BY <1>22 DEF ReadTake, Taken
  <2>3. /\ \A i \in 1 .. Len(ring) : ring[i] = pos + Len(out) + i - 1
        /\ ipos = pos + Len(out) + Len(ring) + Len(fgot)
    BY <2>2 DEF Alignment, Aligned, Front
  <2>4. ring \in Seq(Nat) /\ out \in Seq(Nat) /\ pos \in Nat /\ cleft \in Nat /\ ipos \in Nat
    OBVIOUS
  <2> HIDE DEF n
  <2> DEFINE b == SubSeq(ring, 1, n)
  <2>5. b \in Seq(Nat) /\ Len(b) = n /\ \A i \in 1 .. n : b[i] = ring[i]
    BY <2>1, <2>4, TakeFacts
  <2>6. ring = <<>> => ring' = <<>>
    BY <2>1, <2>2, <2>4, TakeFacts
  <2> HIDE DEF b
  <2>7. /\ Len(out') = Len(out) + n
        /\ \A i \in 1 .. Len(out) : out'[i] = out[i]
        /\ \A i \in 1 .. n : out'[Len(out) + i] = b[i]
    <3>1. out' = out \o b
      BY <2>2 DEF b
    <3>2. out \in Seq(Nat) /\ b \in Seq(Nat) /\ Len(b) = n
      BY <2>4, <2>5
    <3> HIDE DEF TypeInv, TypeOK, Control, Delivered, n
    <3> QED BY <3>1, <3>2, AppendFacts
  <2>8. Len(out') + cleft' \in Lens
    BY <2>1, <2>2, <2>4, <2>7
  <2>9. ASSUME NEW i \in 1 .. Len(out') PROVE out'[i] = pos' + i - 1
    <3>1. CASE i \in 1 .. Len(out) BY <2>2, <2>7, <3>1
    <3>2. CASE i \notin 1 .. Len(out)
      <4>1. i - Len(out) \in 1 .. n BY <2>1, <2>4, <2>7, <3>2
      <4>2. out'[Len(out) + (i - Len(out))] = ring[i - Len(out)] BY <2>5, <2>7, <4>1
      <4>3. ring[i - Len(out)] = pos + Len(out) + (i - Len(out)) - 1 BY <2>1, <2>3, <4>1
      <4>4. Len(out) + (i - Len(out)) = i /\ pos + Len(out) + (i - Len(out)) - 1 = pos + i - 1
        <5>1. i \in Int /\ Len(out) \in Int /\ pos \in Int
          BY <2>4
        <5> HIDE DEF TypeInv, TypeOK, Control, Delivered, n
        <5> QED BY <5>1
      <4>5. out'[i] = ring[i - Len(out)]
        BY <4>2, <4>4
      <4> QED BY <2>2, <4>3, <4>4, <4>5
    <3> QED BY <3>1, <3>2
  <2>10. out' = <<>> \/ pos' + Len(out') <= FileLen
    <3>1. CASE ring = <<>>
      <4>1. n = 0 /\ Len(out') = Len(out) BY <2>1, <2>7, <3>1
      <4>2. out = <<>> => out' = <<>> BY <2>2, <2>4, <2>5, <2>7, <4>1, AppendFacts DEF b
      <4> QED BY <2>2, <2>4, <4>1, <4>2
    <3>2. CASE ring # <<>>
      <4>1. ipos <= FileLen BY <2>2, <3>2
      <4> QED BY <2>1, <2>2, <2>3, <2>4, <2>7, <4>1
    <3> QED BY <3>1, <3>2
  <2> QED BY <2>2, <2>6, <2>8, <2>9, <2>10
<1>23. ASSUME NEW off \in Offs, CallSeek(off) PROVE Delivered'
  BY <1>23 DEF CallSeek, SeekLockFree
<1>24. CASE UserSeek BY <1>24 DEF UserSeek, UserSought, SeekReturn
<1>25. CASE SeekClose BY <1>25 DEF SeekClose, SignalFiller
<1>26. CASE UserSpuriousWake BY <1>26 DEF UserSpuriousWake
<1>27. CASE SeekWaitAgain BY <1>27 DEF SeekWaitAgain
<1>28. CASE SeekFinish BY <1>28 DEF SeekFinish, SeekReturn
<1>29. CASE Destroy BY <1>29 DEF Destroy, SignalFiller
<1>30. CASE Join BY <1>30 DEF Join, Joinable
<1>31. CASE UNCHANGED vars BY <1>31 DEF vars
<1>32. CASE WriteRest BY <1>32 DEF WriteRest
<1> QED
  BY <1>1, <1>2, <1>3, <1>4, <1>5, <1>6, <1>7, <1>8, <1>9, <1>10, <1>11, <1>12, <1>13, <1>14,
     <1>15, <1>16, <1>17, <1>18, <1>19, <1>20, <1>21, <1>22, <1>23, <1>24, <1>25, <1>26, <1>27,
     <1>28, <1>29, <1>30, <1>31, <1>32 DEF Next, FillerStep, UserStep, UserCall, Gone

(* A filler without faults stops only at the end or when told to.           *)
LEMMA AtEndHolds ==
    TypeInv /\ Control /\ Requests /\ ~SeekMayFail /\ ~ReadMayFail /\ AtEnd /\ [Next]_vars => AtEnd'
<1> SUFFICES ASSUME TypeInv, Control, Requests, ~SeekMayFail, ~ReadMayFail, AtEnd, [Next]_vars
                PROVE AtEnd' OBVIOUS
<1> USE ParameterAssumption DEF TypeInv, TypeOK, Control, Requests, Ended, AtEnd, Filling, Reading, Seeking
<1>1. CASE FillerStart BY <1>1 DEF FillerStart, SeekLockFree
<1>2. CASE LoopTest BY <1>2 DEF LoopTest
<1>3. CASE LoopTestRequest BY <1>3 DEF LoopTestRequest
<1>4. CASE TestRequest BY <1>4 DEF TestRequest, CallWrite2
<1>5. CASE FillerSeek
  <2>1. fpc = "inner_seek" /\ fpc' = "serve" /\ seek_requested /\ cpc' = cpc
        /\ UNCHANGED <<circbuf, stream>>
    BY <1>5 DEF FillerSeek, FillerSought
  <2>2. seek_result' = 0
    BY <1>5 DEF FillerSeek, SeekInner
  <2> QED BY <2>1, <2>2
<1>6. CASE Serve
  <2>1. cpc \in Seeking /\ cpc' \in Seeking /\ fpc' = "write_test"
    BY <1>6 DEF Serve, SignalUser, CallWrite2
  <2>2. ~wdone'
    BY <1>6 DEF Serve, Answer, circbuf_reset
  <2>3. ~feof' /\ seek_result' = 0
    BY <1>6 DEF Serve, CallWrite2
  <2> QED BY <2>1, <2>2, <2>3
<1>7. CASE WriteTest BY <1>7 DEF WriteTest
<1>8. CASE WriteWait BY <1>8 DEF WriteWait
<1>9. CASE WriteRetest BY <1>9 DEF WriteRetest
<1>10. CASE WriteLoad BY <1>10 DEF WriteLoad
<1>11. CASE WriteFill
  <2>1. PICK g \in InnerReads(Asked), b \in Seq(Nat) :
            FillWith(b) /\ Len(b) = g /\ ipos' = ipos + g /\ g \in Nat /\ Asked \in Nat /\ g <= Asked
    BY <1>11, ReadFacts
  <2>2. /\ fpc \in {"write_first", "write_fill"} /\ fpc' \in {"write_rest", "write_test"}
        /\ UNCHANGED <<rdone, wdone, stream, seek, user>>
    BY <2>1 DEF FillWith, KeepFirst, Publish
  <2>3. ipos \in Nat /\ FileLen \in Nat
    OBVIOUS
  <2>4. g < Asked => ipos + g >= FileLen
    BY <2>1, <2>3 DEF InnerReads, SmallerOf
  <2>5. feof' = feof \/ feof' = (g < Asked)
    <3> HIDE DEF TypeInv, TypeOK, Control, Requests, AtEnd
    <3> QED BY <2>1, FillFacts
  <2>6. feof => ipos >= FileLen
    BY <2>2
  <2>7. ipos' >= ipos /\ ipos' \in Nat
    BY <2>1, <2>3, SMTT(30)
  <2>8. feof' => ipos' >= FileLen
    <3>1. CASE feof' = feof
      BY <2>3, <2>6, <2>7, <3>1
    <3>2. CASE feof' = (g < Asked)
      BY <2>1, <2>4, <3>2
    <3> QED BY <2>5, <3>1, <3>2
  <2>9. ipos >= FileLen => ipos' >= FileLen
    BY <2>3, <2>7
  <2> QED BY <2>2, <2>8, <2>9
<1>12. CASE CloseWriting BY <1>12 DEF CloseWriting, circbuf_close_write
<1>13. CASE EofCheck BY <1>13 DEF EofCheck
<1>14. CASE FillerSpuriousWake BY <1>14 DEF FillerSpuriousWake
<1>15. CASE StartFilling BY <1>15 DEF StartFilling
<1>16. CASE StartBlockingFill BY <1>16 DEF StartBlockingFill
<1>17. ASSUME NEW len \in Lens, CallRead(len) PROVE AtEnd' BY <1>17 DEF CallRead
<1>18. CASE ReadTest BY <1>18 DEF ReadTest
<1>19. CASE ReadTestDone BY <1>19 DEF ReadTestDone
<1>20. CASE ReadFinish BY <1>20 DEF ReadFinish, ReadReturn
<1>21. CASE ReadWait BY <1>21 DEF ReadWait
<1>22. CASE ReadTake BY <1>22 DEF ReadTake
<1>23. ASSUME NEW off \in Offs, CallSeek(off) PROVE AtEnd' BY <1>23 DEF CallSeek, SeekLockFree
<1>24. CASE UserSeek
  <2>1. seek_result' = 0
    BY <1>24 DEF UserSeek, SeekInner
  <2>2. fpc' = fpc /\ eof' = FALSE /\ wdone' = wdone /\ rdone' = rdone /\ ~wdone
        /\ filler_started' = filler_started
    BY <1>24, <2>1 DEF UserSeek, UserSought, SeekReturn
  <2>3. fpc \in {"none", "start"}
    BY <1>24 DEF UserSeek, UserSought
  <2> QED BY <2>1, <2>2, <2>3
<1>25. CASE SeekClose BY <1>25 DEF SeekClose, SignalFiller
<1>26. CASE UserSpuriousWake BY <1>26 DEF UserSpuriousWake
<1>27. CASE SeekWaitAgain BY <1>27 DEF SeekWaitAgain
<1>28. CASE SeekFinish BY <1>28 DEF SeekFinish, SeekReturn
<1>29. CASE Destroy BY <1>29 DEF Destroy, SignalFiller
<1>30. CASE Join BY <1>30 DEF Join, Joinable
<1>31. CASE UNCHANGED vars BY <1>31 DEF vars
<1>32. CASE WriteRest BY <1>32 DEF WriteRest
<1> QED
  BY <1>1, <1>2, <1>3, <1>4, <1>5, <1>6, <1>7, <1>8, <1>9, <1>10, <1>11, <1>12, <1>13, <1>14,
     <1>15, <1>16, <1>17, <1>18, <1>19, <1>20, <1>21, <1>22, <1>23, <1>24, <1>25, <1>26, <1>27,
     <1>28, <1>29, <1>30, <1>31, <1>32 DEF Next, FillerStep, UserStep, UserCall, Gone

(* What each side has done before it sleeps: the filler has closed the      *)
(* write end, the user the read end, and there is a filler to wait for.     *)
Sleeping ==
    /\ fpc \in {"eof_check", "eof_wait", "eof_woken"} => wdone
    /\ cpc \in {"seek_wait", "seek_woken"} /\ seek_requested => rdone
    /\ cpc = "join" => rdone /\ filler
    /\ filler \/ filler_started => fpc # "none"
    /\ cpc \in Reading => fpc # "none" \/ BlockingFill

(* When neither thread can go on: each waits, asleep or for seek_lock, for  *)
(* what only the other one brings about.                                    *)
UserBlocked ==
    \/ cpc = "read_wait" /\ ring = <<>> /\ ~wdone
    \/ cpc = "seek_wait"
    \/ cpc = "seek_woken" /\ ~SeekLockFree
    \/ cpc = "join" /\ fpc # "exited"

FillerBlocked ==
    \/ fpc = "none" /\ ~BlockingFill
    \/ fpc \in {"exited", "eof_wait"}
    \/ fpc \in {"start", "serve", "close", "eof_woken"} /\ ~SeekLockFree
    \/ fpc = "write_wait" /\ Len(ring) >= Capacity /\ ~rdone

NotBothBlocked == ~(UserBlocked /\ FillerBlocked)

(* No step puts a side to sleep too late.                                   *)
LEMMA SleepingHolds == TypeInv /\ Control /\ Sleeping /\ [AnyNext]_vars => Sleeping'
<1> SUFFICES ASSUME TypeInv, Control, Sleeping, [AnyNext]_vars PROVE Sleeping' OBVIOUS
<1> USE DEF TypeInv, TypeOK, Control, Sleeping, Reading, Seeking
<1>1. CASE FillerStart BY <1>1 DEF FillerStart
<1>2. CASE LoopTest BY <1>2 DEF LoopTest
<1>3. CASE LoopTestRequest BY <1>3 DEF LoopTestRequest
<1>4. CASE TestRequest BY <1>4 DEF TestRequest, CallWrite2
<1>5. CASE FillerSeek BY <1>5 DEF FillerSeek, FillerSought
<1>6. CASE Serve BY <1>6 DEF Serve, Answer, circbuf_reset, SignalUser, CallWrite2
<1>7. CASE WriteTest BY <1>7 DEF WriteTest
<1>8. CASE WriteWait BY <1>8 DEF WriteWait
<1>9. CASE WriteRetest BY <1>9 DEF WriteRetest
<1>10. CASE WriteLoad BY <1>10 DEF WriteLoad
<1>11. CASE FillAny
  <2>1. /\ fpc \in {"write_first", "write_fill"} /\ fpc' \in {"write_rest", "write_test"}
        /\ UNCHANGED <<rdone, wdone, stream, seek, user>>
    BY <1>11, FillControl
  <2> QED BY <2>1
<1>12. CASE CloseWriting BY <1>12 DEF CloseWriting, circbuf_close_write
<1>13. CASE EofCheck BY <1>13 DEF EofCheck
<1>14. CASE FillerSpuriousWake BY <1>14 DEF FillerSpuriousWake
<1>15. CASE StartFilling BY <1>15 DEF StartFilling
<1>16. CASE StartBlockingFill BY <1>16 DEF StartBlockingFill
<1>17. ASSUME NEW len \in Lens, CallRead(len) PROVE Sleeping' BY <1>17 DEF CallRead
<1>18. CASE ReadTest BY <1>18 DEF ReadTest
<1>19. CASE ReadTestDone BY <1>19 DEF ReadTestDone
<1>20. CASE ReadFinish BY <1>20 DEF ReadFinish, ReadReturn
<1>21. CASE ReadWait BY <1>21 DEF ReadWait
<1>22. CASE ReadTake BY <1>22 DEF ReadTake
<1>23. ASSUME NEW off \in Offs, CallSeek(off) PROVE Sleeping' BY <1>23 DEF CallSeek
<1>24. CASE UserSeek BY <1>24 DEF UserSeek, UserSought, SeekReturn
<1>25. CASE SeekClose BY <1>25 DEF SeekClose, SignalFiller
<1>26. CASE UserSpuriousWake BY <1>26 DEF UserSpuriousWake
<1>27. CASE SeekWaitAgain BY <1>27 DEF SeekWaitAgain
<1>28. CASE SeekFinish BY <1>28 DEF SeekFinish, SeekReturn
<1>29. CASE Destroy BY <1>29 DEF Destroy, SignalFiller
<1>30. CASE Join BY <1>30 DEF Join, Joinable
<1>31. CASE UNCHANGED vars BY <1>31 DEF vars
<1>32. CASE WriteRest BY <1>32 DEF WriteRest
<1> QED
  BY <1>1, <1>2, <1>3, <1>4, <1>5, <1>6, <1>7, <1>8, <1>9, <1>10, <1>11, <1>12, <1>13, <1>14,
     <1>15, <1>16, <1>17, <1>18, <1>19, <1>20, <1>21, <1>22, <1>23, <1>24, <1>25, <1>26, <1>27,
     <1>28, <1>29, <1>30, <1>31, <1>32, FillIsAny DEF AnyNext, Next, FillerStep, UserStep, UserCall, Gone

(* Where seeks of the inner stream do not fail, none has.                   *)
Unfailed == seek_result = 0

(* A seek that succeeds leaves no failure behind.                           *)
LEMMA UnfailedHolds == ~SeekMayFail /\ Unfailed /\ [AnyNext]_vars => Unfailed'
<1> SUFFICES ASSUME ~SeekMayFail, Unfailed, [AnyNext]_vars PROVE Unfailed' OBVIOUS
<1> USE DEF Unfailed
<1>1. CASE FillerSeek \/ UserSeek
  BY <1>1 DEF FillerSeek, UserSeek, SeekInner
<1>2. CASE FillerStep /\ ~FillerSeek
  BY <1>2 DEF FillerStep, FillerStart, LoopTest, LoopTestRequest, TestRequest, Serve, WriteTest,
     WriteWait, WriteRetest, WriteLoad, WriteRest, WriteFill, FillWith, CloseWriting, EofCheck
<1>3. CASE UserStep /\ ~UserSeek
  BY <1>3 DEF UserStep, ReadTest, ReadTestDone, ReadFinish, ReadReturn, ReadWait, ReadTake,
     SeekClose, SeekWaitAgain, SeekFinish, Join
<1>4. CASE UserCall
  BY <1>4 DEF UserCall, StartFilling, StartBlockingFill, CallRead, CallSeek, Destroy
<1>5. CASE FillAny
  BY <1>5 DEF FillAny, FillWith
<1>6. CASE FillerSpuriousWake \/ UserSpuriousWake \/ UNCHANGED vars
  BY <1>6 DEF FillerSpuriousWake, UserSpuriousWake, vars
<1> QED BY <1>1, <1>2, <1>3, <1>4, <1>5, <1>6 DEF AnyNext, Next, Gone

(* A return of a read or seek is a step of the stream, all else is hidden.  *)
LEMMA StreamStep == TypeInv /\ Delivered /\ [Next]_vars => [Stream!Next]_(Stream!vars)
<1> SUFFICES ASSUME TypeInv, Delivered, [Next]_vars PROVE [Stream!Next]_(Stream!vars) OBVIOUS
<1> USE DEF TypeInv, TypeOK, Reading, Seeking
<1>1. CASE FillerStart BY <1>1 DEF FillerStart, SeekLockFree, Stream!vars
<1>2. CASE LoopTest BY <1>2 DEF LoopTest, Stream!vars
<1>3. CASE LoopTestRequest BY <1>3 DEF LoopTestRequest, Stream!vars
<1>4. CASE TestRequest BY <1>4 DEF TestRequest, CallWrite2, Stream!vars
<1>5. CASE FillerSeek BY <1>5 DEF FillerSeek, FillerSought, Stream!vars
<1>6. CASE Serve
  BY <1>6 DEF Serve, Answer, circbuf_reset, SignalUser, CallWrite2, SeekLockFree, Stream!vars
<1>7. CASE WriteTest BY <1>7 DEF WriteTest, Stream!vars
<1>8. CASE WriteWait BY <1>8 DEF WriteWait, Stream!vars
<1>9. CASE WriteRetest BY <1>9 DEF WriteRetest, Stream!vars
<1>10. CASE WriteLoad BY <1>10 DEF WriteLoad, Stream!vars
<1>11. CASE WriteFill BY <1>11 DEF WriteFill, FillWith, KeepFirst, Publish, Stream!vars
<1>12. CASE CloseWriting BY <1>12 DEF CloseWriting, circbuf_close_write, Stream!vars
<1>13. CASE EofCheck BY <1>13 DEF EofCheck, Stream!vars
<1>14. CASE FillerSpuriousWake BY <1>14 DEF FillerSpuriousWake, Stream!vars
<1>15. CASE StartFilling BY <1>15 DEF StartFilling, Stream!vars
<1>16. CASE StartBlockingFill BY <1>16 DEF StartBlockingFill, Stream!vars
<1>17. ASSUME NEW len \in Lens, CallRead(len) PROVE [Stream!Next]_(Stream!vars)
  <2>1. Stream!Call
    BY <1>17 DEF CallRead, Stream!Call
  <2> QED BY <2>1 DEF Stream!Next
<1>18. CASE ReadTest BY <1>18 DEF ReadTest, Stream!vars
<1>19. CASE ReadTestDone BY <1>19 DEF ReadTestDone, Stream!vars
<1>20. CASE ReadFinish
  <2> DEFINE n == Len(out)
             len == n + cleft
  <2>1. /\ cpc \in Reading /\ cpc' = "idle" /\ out' = out /\ pos' = pos + n
        /\ eof' = (eof \/ cleft # 0)
    BY <1>20 DEF ReadFinish, ReadReturn
  <2>2. len \in Lens /\ n \in 0 .. len /\ cleft \in Nat /\ n \in Nat
    BY <2>1 DEF Delivered
  <2>3. n = 0 \/ pos + n <= FileLen
    BY <2>1 DEF Delivered
  <2>4. out = [i \in 1 .. n |-> pos + i - 1]
    BY <2>1 DEF Delivered
  <2>5. eof' \in BOOLEAN /\ (n < len => eof') /\ (eof' => eof \/ n < len)
    <3>1. n < len <=> cleft # 0
      BY <2>2
    <3>2. eof' \in BOOLEAN
      BY <2>1
    <3> HIDE DEF n, len
    <3> QED BY <2>1, <3>1, <3>2, Zenon
  <2> HIDE DEF n, len
  <2>6. Stream!Read(len)
    BY <2>1, <2>2, <2>3, <2>4, <2>5 DEF Stream!Read
  <2> QED BY <2>2, <2>6 DEF Stream!Next
<1>21. CASE ReadWait BY <1>21 DEF ReadWait, Stream!vars
<1>22. CASE ReadTake BY <1>22 DEF ReadTake, Stream!vars
<1>23. ASSUME NEW off \in Offs, CallSeek(off) PROVE [Stream!Next]_(Stream!vars)
  <2>1. cpc' \in Seeking /\ out' = <<>> /\ pos' = pos /\ eof' = eof
    BY <1>23 DEF CallSeek
  <2>2. Stream!Call
    BY <2>1 DEF Stream!Call
  <2> QED BY <2>2 DEF Stream!Next
<1>24. CASE UserSeek
  <2>1. cpc \in Seeking /\ cpc' = "idle" /\ out' = out
    BY <1>24 DEF UserSeek, UserSought, SeekReturn
  <2>2. seek_off \in Offs /\ out = <<>>
    BY <2>1 DEF Delivered
  <2>3. CASE seek_result' = 0
    <3>1. pos' = seek_off /\ eof' = FALSE
      BY <1>24, <2>3 DEF UserSeek, UserSought, SeekReturn
    <3>2. Stream!Seek(seek_off)
      BY <2>1, <2>2, <3>1 DEF Stream!Seek
    <3> QED BY <2>2, <3>2 DEF Stream!Next
  <2>4. CASE seek_result' # 0
    BY <1>24, <2>1, <2>4 DEF UserSeek, UserSought, SeekReturn, Stream!vars
  <2> QED BY <2>3, <2>4
<1>25. CASE SeekClose BY <1>25 DEF SeekClose, SignalFiller, Stream!vars
<1>26. CASE UserSpuriousWake BY <1>26 DEF UserSpuriousWake, Stream!vars
<1>27. CASE SeekWaitAgain BY <1>27 DEF SeekWaitAgain, Stream!vars
<1>28. CASE SeekFinish
  <2>1. cpc \in Seeking /\ cpc' = "idle" /\ out' = out
    BY <1>28 DEF SeekFinish, SeekReturn
  <2>2. seek_off \in Offs /\ out = <<>>
    BY <2>1 DEF Delivered
  <2>3. CASE seek_result = 0
    <3>1. pos' = seek_off /\ eof' = FALSE
      BY <1>28, <2>3 DEF SeekFinish, SeekReturn
    <3>2. Stream!Seek(seek_off)
      BY <2>1, <2>2, <3>1 DEF Stream!Seek
    <3> QED BY <2>2, <3>2 DEF Stream!Next
  <2>4. CASE seek_result # 0
    BY <1>28, <2>1, <2>4 DEF SeekFinish, SeekReturn, Stream!vars
  <2> QED BY <2>3, <2>4
<1>29. CASE Destroy BY <1>29 DEF Destroy, SignalFiller, Stream!vars
<1>30. CASE Join BY <1>30 DEF Join, Joinable, Stream!vars
<1>31. CASE UNCHANGED vars BY <1>31 DEF vars, Stream!vars
<1>32. CASE WriteRest BY <1>32 DEF WriteRest, Stream!vars
<1> QED
  BY <1>1, <1>2, <1>3, <1>4, <1>5, <1>6, <1>7, <1>8, <1>9, <1>10, <1>11, <1>12, <1>13, <1>14,
     <1>15, <1>16, <1>17, <1>18, <1>19, <1>20, <1>21, <1>22, <1>23, <1>24, <1>25, <1>26, <1>27,
     <1>28, <1>29, <1>30, <1>31, <1>32 DEF Next, FillerStep, UserStep, UserCall, Gone

-----------------------------------------------------------------------------
(* What follows holds whatever bytes the inner stream gives.                *)
LEMMA SpecIsAny == Spec => AnySpec
<1>1. [Next]_vars => [AnyNext]_vars
  BY DEF AnyNext
<1> QED BY <1>1, PTL DEF Spec, AnySpec

(* What the other proofs rest on.                                           *)
LEMMA ControlAny == AnySpec => [](TypeInv /\ Control)
<1>1. Init => TypeInv /\ Control
  BY InitHolds
<1>2. TypeInv /\ Control /\ [AnyNext]_vars => (TypeInv /\ Control)'
  BY TypeHolds, ControlHolds
<1> QED BY <1>1, <1>2, PTL DEF AnySpec

(* The same, over a stream that gives the bytes at its position.            *)
LEMMA ControlAlways == Spec => [](TypeInv /\ Control)
BY SpecIsAny, ControlAny, PTL

(* The read end and the request, likewise.                                  *)
LEMMA RequestsAny == AnySpec => []Requests
<1>1. Init => Requests
  BY DEF Init, Requests, Ended
<1>2. TypeInv /\ Control /\ Requests /\ [AnyNext]_vars => Requests'
  BY RequestsHolds
<1> QED BY <1>1, <1>2, ControlAny, PTL DEF AnySpec

(* What SlBuffer promises of its control over any inner stream: ranges (so  *)
(* the calls of filler_cb fill no more than there is room for), one thread  *)
(* at a time in the inner stream, and no sleep past the awaited event.      *)
THEOREM AnyBytes == AnySpec => [](TypeOK /\ InnerExclusive /\ NoMissedRequest)
<1>1. TypeInv /\ Control /\ Requests => TypeOK /\ InnerExclusive /\ NoMissedRequest
  BY DEF TypeInv, Control, Requests, Ended, InnerExclusive, NoMissedRequest
<1> QED BY <1>1, ControlAny, RequestsAny, PTL DEF AnySpec

(* The buffer never holds more than it was created for, and every variable  *)
(* stays in its range.                                                      *)
THEOREM TypeCorrect == Spec => []TypeOK
BY SpecIsAny, AnyBytes, PTL

(* The user seeks the inner stream itself only before the filler has begun, *)
(* and the lock keeps the filler from beginning meanwhile.                  *)
THEOREM InnerOnce == Spec => []InnerExclusive
BY SpecIsAny, AnyBytes, PTL

(* No side sleeps past the event it waits for, and a filler that has left   *)
(* with a request pending has left after a failed seek.                     *)
THEOREM RequestsAreSeen == Spec => []NoMissedRequest
BY SpecIsAny, AnyBytes, PTL

(* The filler resets the circular buffer only with a request pending, and   *)
(* whoever made it has left seek_lock, which it does by sleeping.           *)
LEMMA ResetAny == AnySpec => ResetIsAlone
<1>1. TypeInv /\ Control /\ [AnyNext]_vars => [ServedAsleep]_vars
  BY ResetStep
<1> QED BY <1>1, ControlAny, PTL DEF AnySpec, ResetIsAlone, ServedAsleep

(* The circular buffer is reset only while the user sleeps in its seek.     *)
THEOREM ResetAlone == Spec => ResetIsAlone
BY SpecIsAny, ResetAny, PTL

(* Where sl_buffer_blocking_fill_buffer is not used, no filler is left when *)
(* the stream is gone.                                                      *)
LEMMA JoinedAny == ~BlockingFill => (AnySpec => []NoUseAfterFree)
<1> SUFFICES ASSUME ~BlockingFill PROVE AnySpec => []NoUseAfterFree OBVIOUS
<1>1. Init => Joined
  BY DEF Init, Joined
<1>2. TypeInv /\ Joined /\ [AnyNext]_vars => Joined'
  BY JoinedHolds
<1>3. Joined => NoUseAfterFree
  BY DEF Joined, NoUseAfterFree
<1> QED BY <1>1, <1>2, <1>3, ControlAny, PTL DEF AnySpec

(* Destruction frees nothing that a threaded filler still uses.             *)
THEOREM FillerIsJoined == ~BlockingFill => (Spec => []NoUseAfterFree)
<1> SUFFICES ASSUME ~BlockingFill PROVE Spec => []NoUseAfterFree OBVIOUS
<1>1. AnySpec => []NoUseAfterFree
  BY JoinedAny
<1> QED BY <1>1, SpecIsAny, PTL

(* If seeks of the inner stream do not fail, whatever one of the two sleeps *)
(* for, in the circular buffer, on seek_cond, for seek_lock or in           *)
(* pthread_join, the other can still bring about.  A user that reads without*)
(* a filler waits for one only where another thread may become it.          *)
LEMMA NoDeadlockAny == ~SeekMayFail => (AnySpec => []NotBothBlocked)
<1> SUFFICES ASSUME ~SeekMayFail PROVE AnySpec => []NotBothBlocked OBVIOUS
<1>1. Init => Sleeping /\ Unfailed
  BY DEF Init, Sleeping, Reading, Unfailed
<1>2. TypeInv /\ Control /\ Sleeping /\ Unfailed /\ [AnyNext]_vars => (Sleeping /\ Unfailed)'
  BY SleepingHolds, UnfailedHolds
<1>3. TypeInv /\ Control /\ Requests /\ Sleeping /\ Unfailed => NotBothBlocked
  <2> SUFFICES ASSUME TypeInv, Control, Requests, Sleeping, Unfailed, UserBlocked
               PROVE  ~FillerBlocked
    BY DEF NotBothBlocked
  <2> USE ParameterAssumption DEF TypeInv, TypeOK, Control, Requests, Ended, Sleeping, Unfailed,
                                  Reading, Seeking, SeekLockFree
  <2>1. CASE cpc = "read_wait" /\ ring = <<>> /\ ~wdone
    <3>1. Len(ring) < Capacity
      BY <2>1
    <3> QED BY <2>1, <3>1 DEF FillerBlocked
  <2>2. CASE cpc = "seek_wait" BY <2>2 DEF FillerBlocked
  <2>3. CASE cpc = "seek_woken" /\ ~SeekLockFree BY <2>3 DEF FillerBlocked
  <2>4. CASE cpc = "join" /\ fpc # "exited" BY <2>4 DEF FillerBlocked
  <2> QED BY <2>1, <2>2, <2>3, <2>4 DEF UserBlocked
<1> QED BY <1>1, <1>2, <1>3, ControlAny, RequestsAny, PTL DEF AnySpec

(* The user in a call and the filler are never both unable to go on.        *)
THEOREM NoDeadlock == ~SeekMayFail => (Spec => []NotBothBlocked)
<1> SUFFICES ASSUME ~SeekMayFail PROVE Spec => []NotBothBlocked OBVIOUS
<1>1. AnySpec => []NotBothBlocked
  BY NoDeadlockAny
<1> QED BY <1>1, SpecIsAny, PTL

(* An empty buffer over an inner stream at its beginning.                   *)
LEMMA InitAligned == Init => Alignment
<1> SUFFICES ASSUME Init PROVE Alignment OBVIOUS
<1>1. ring = <<>> /\ fgot = <<>> /\ ipos = 0 /\ Front = 0
  BY DEF Init, Front, Reading
<1>2. Aligned(Front)
  BY <1>1 DEF Aligned
<1> QED BY <1>2 DEF Init, Alignment, Seeking

(* What is buffered and what is about to be published, seen as one sequence.*)
LEMMA AlignedIsInOrder == TypeInv /\ Alignment => InOrder
<1> SUFFICES ASSUME TypeInv, Alignment, cpc \notin Seeking, fpc # "serve"
             PROVE  /\ \A i \in 1 .. Len(ring \o fgot) : (ring \o fgot)[i] = Front + i - 1
                    /\ ipos = Front + Len(ring \o fgot)
  BY DEF InOrder
<1>1. ring \in Seq(Nat) /\ fgot \in Seq(Nat) /\ Front \in Nat
  BY DEF TypeInv, TypeOK, Front
<1>2. Aligned(Front)
  BY DEF Alignment
<1> DEFINE ahead == ring \o fgot
<1>3. /\ Len(ahead) = Len(ring) + Len(fgot)
      /\ \A i \in 1 .. Len(ring) : ahead[i] = ring[i]
      /\ \A i \in 1 .. Len(fgot) : ahead[Len(ring) + i] = fgot[i]
  BY <1>1, AppendFacts
<1> HIDE DEF ahead
<1>4. ASSUME NEW i \in 1 .. Len(ahead) PROVE ahead[i] = Front + i - 1
  <2>1. CASE i \in 1 .. Len(ring)
    BY <1>2, <1>3, <2>1 DEF Aligned
  <2>2. CASE i \notin 1 .. Len(ring)
    <3> DEFINE j == i - Len(ring)
    <3>1. j \in 1 .. Len(fgot) /\ Len(ring) + j = i
      BY <1>1, <1>3, <2>2
    <3> HIDE DEF j
    <3>2. ahead[i] = Front + Len(ring) + j - 1
      BY <1>2, <1>3, <3>1 DEF Aligned
    <3> QED BY <1>1, <3>1, <3>2, SMTT(30)
  <2> QED BY <2>1, <2>2
<1>5. ipos = Front + Len(ahead)
  BY <1>1, <1>2, <1>3 DEF Aligned
<1> QED BY <1>4, <1>5 DEF ahead

(* A read delivers the bytes at the user's position: what the buffer holds  *)
(* lies between it and the inner stream's, whatever seeks came between.     *)
THEOREM BytesInOrder == Spec => []InOrder
<1>1. Init => Alignment
  BY InitAligned
<1>2. TypeInv /\ Control /\ Alignment /\ [Next]_vars => Alignment'
  BY AlignmentHolds
<1>3. TypeInv /\ Alignment => InOrder
  BY AlignedIsInOrder
<1> QED BY <1>1, <1>2, <1>3, ControlAlways, PTL DEF Spec

(* End of file is reported only when the inner stream has come to its end,  *)
(* if neither its seeks fail nor its reads stop short.                      *)
THEOREM EofIsAtEnd == ~SeekMayFail /\ ~ReadMayFail => (Spec => []EofIsEarned)
<1> SUFFICES ASSUME ~SeekMayFail, ~ReadMayFail PROVE Spec => []EofIsEarned OBVIOUS
<1>1. Init => AtEnd
  BY DEF Init, AtEnd, Filling
<1>2. TypeInv /\ Control /\ Requests /\ AtEnd /\ [Next]_vars => AtEnd'
  BY AtEndHolds
<1>3. AtEnd => EofIsEarned
  BY DEF AtEnd, EofIsEarned
<1> QED BY <1>1, <1>2, <1>3, ControlAlways, SpecIsAny, RequestsAny, PTL DEF Spec

(* To its user the buffer is a seekable stream over the same file: bytes in *)
(* order, a short read only with end of file, a seek that takes effect or   *)
(* changes nothing, whatever faults the inner stream has.                   *)
THEOREM BufferIsStream == Spec => ImplementsStream
<1>1. Init => Stream!Init
  BY DEF Init, Stream!Init
<1>2. Init => Alignment /\ Delivered
  BY InitAligned DEF Init, Delivered, Reading, Seeking
<1>3. TypeInv /\ Control /\ Alignment /\ Delivered /\ [Next]_vars => (Alignment /\ Delivered)'
  BY AlignmentHolds, DeliveredHolds
<1>4. TypeInv /\ Delivered /\ [Next]_vars => [Stream!Next]_(Stream!vars)
  BY StreamStep
<1> QED
  BY <1>1, <1>2, <1>3, <1>4, ControlAlways, PTL DEF Spec, ImplementsStream, Stream!Spec

=============================================================================
