--------------------------- MODULE CircBufProofs ----------------------------
EXTENDS CircBuf, Sequences, TLAPS

(* read_some_ takes as many bytes as there are and were asked for, and      *)
(* leaves the read offset that many slots further.                          *)
LEMMA ReadSomeTakesAll ==
    ASSUME NEW ro \in 0 .. Size, NEW wo \in Offsets, NEW len \in Nat
    PROVE  LET r == read_some_(ro, wo, len)
           IN  /\ r.n = Least(circbuf_get_length(ro, wo), len)
               /\ r.off \in 0 .. Size
               /\ r.off = ro + r.n \/ r.off = ro + r.n - Size
BY SizeAssumption DEF read_some_, Least, circbuf_get_length, Offsets

(* write_some_ fills all the free slots but one, or stores all it is given. *)
LEMMA WriteSomeStoresAll ==
    ASSUME NEW ro \in 0 .. Size, NEW wo \in Offsets, NEW len \in Nat
    PROVE  LET w == write_some_(ro, wo, len)
           IN  /\ w.n = Least(Capacity - circbuf_get_length(ro, wo), len)
               /\ w.off \in Offsets
               /\ w.off = wo + w.n \/ w.off = wo + w.n - Size
BY SizeAssumption DEF write_some_, Full, Least, circbuf_get_length, Offsets, Capacity, Wrap

(* The storage, the offsets and the in-flight transfers are described by    *)
(* IInv from the first state on.                                            *)
LEMMA InitIInv == Init => IInv
<1> SUFFICES ASSUME Init PROVE IInv
  OBVIOUS
<1>1. TypeOK
  <2>1. data \in [Offsets -> Int]
    BY DEF Init, Junk
  <2>2. 0 \in Offsets /\ 0 \in 0 .. Size /\ 0 \in 0 .. Capacity /\ 0 \in Nat
    BY SizeAssumption DEF Offsets, Capacity
  <2>3. cop \in ReadOps /\ pop \in WriteOps
    BY DEF Init, ReadOps, WriteOps
  <2>. QED
    BY <2>1, <2>2, <2>3 DEF Init, TypeOK
<1>2. Occupancy
  BY DEF Init, Occupancy, circbuf_get_length
<1>3. Contents
  BY SizeAssumption DEF Init, Contents, Region, Dist, Offsets
<1>4. InFlight
  BY SizeAssumption DEF Init, InFlight, Capacity
<1>5. NoMissedWakeup
  BY DEF Init, NoMissedWakeup
<1>. QED
  BY <1>1, <1>2, <1>3, <1>4, <1>5 DEF IInv

(* A step of the consumer that moves neither offset nor flag, and does not  *)
(* start a transfer.                                                        *)
QuietConsumer ==
    /\ cpc \in {"idle", "test", "test_done", "check", "wait", "waiting"}
    /\ cpc' \in {"idle", "test", "test_done", "check", "wait", "waiting", "load"}
    /\ cpc' = "wait" => Empty /\ ~wdone
    /\ cpc' = "waiting" => cpc = "wait"
    /\ cop' \in ReadOps /\ cleft' \in Nat /\ coff' = coff
    /\ view' \in 0 .. circbuf_get_length(roff, woff)
    /\ UNCHANGED <<buffer, producer, rtot, wtot>>

(* A step that moves only the consumer's own counters keeps the invariant.  *)
LEMMA QuietConsumerStep == IInv /\ QuietConsumer => IInv'
<1> SUFFICES ASSUME IInv, QuietConsumer PROVE IInv'
  OBVIOUS
<1> USE DEF IInv, QuietConsumer, buffer, producer
<1>0. circbuf_get_length(roff, woff) \in 0 .. Capacity
  BY SizeAssumption DEF TypeOK, circbuf_get_length, Offsets, Capacity
<1>1. TypeOK'
  <2>1. view' \in 0 .. Capacity
    BY <1>0, SizeAssumption DEF Capacity
  <2>. QED
    BY <2>1 DEF TypeOK
<1>2. Occupancy'
  BY DEF Occupancy
<1>3. Contents'
  BY <1>0 DEF Contents, Occupancy, TypeOK
<1>4. InFlight'
  BY DEF InFlight
<1>5. NoMissedWakeup'
  BY DEF NoMissedWakeup, Empty, IsFull
<1>. QED
  BY <1>1, <1>2, <1>3, <1>4, <1>5

QuietProducer ==
    /\ ppc \in {"idle", "test", "check", "wait", "waiting", "retest"}
    /\ ppc' \in {"idle", "test", "check", "wait", "waiting", "retest", "load"}
    /\ ppc' = "wait" => IsFull /\ ~rdone
    /\ ppc' = "waiting" => ppc = "wait"
    /\ pop' \in WriteOps /\ pleft' \in Nat /\ peof' \in BOOLEAN
    /\ UNCHANGED <<buffer, consumer, pn, poff, rtot, wtot>>

(* The same of the producer.                                                *)
LEMMA QuietProducerStep == IInv /\ QuietProducer => IInv'
<1> SUFFICES ASSUME IInv, QuietProducer PROVE IInv'
  OBVIOUS
<1> USE DEF IInv, QuietProducer, buffer, consumer
<1>1. TypeOK'
  BY DEF TypeOK
<1>2. Occupancy'
  BY DEF Occupancy
<1>3. Contents'
  BY DEF Contents
<1>4. InFlight'
  BY DEF InFlight
<1>5. NoMissedWakeup'
  BY DEF NoMissedWakeup, Empty, IsFull
<1>. QED
  BY <1>1, <1>2, <1>3, <1>4, <1>5

(* The bytes the producer is copying lie in free slots, so no byte that is  *)
(* still to be read changes.                                                *)
LEMMA FillKeepsContents ==
    ASSUME IInv, NEW g \in 0 .. pn, FillData(g),
           UNCHANGED <<roff, woff, rtot, wtot, view>>
    PROVE  /\ Contents'
           /\ \A s \in Region(woff, g) : data'[s] = wtot + Dist(woff, s)
           /\ data' \in [Offsets -> Int]
<1> USE DEF IInv
<1>1. data' \in [Offsets -> Int]
  BY SizeAssumption DEF TypeOK, FillData, Region, Dist, Offsets
<1>2. \A s \in Region(woff, g) : data'[s] = wtot + Dist(woff, s)
  BY DEF FillData, Region
<1>3. Region(roff, wtot - rtot) \cap Region(woff, g) = {}
  <2>1. /\ roff \in 0 .. Size /\ woff \in 0 .. Size - 1 /\ Size \in Nat
        /\ wtot - rtot = IF woff >= roff THEN woff - roff ELSE Size + woff - roff
        /\ g \in Nat /\ g <= Size - 1 - (wtot - rtot) /\ wtot - rtot \in Int
    BY SizeAssumption DEF TypeOK, Occupancy, InFlight, circbuf_get_length, Offsets, Capacity
  <2>2. ASSUME NEW s \in 0 .. Size - 1, Dist(roff, s) < wtot - rtot, Dist(woff, s) < g
        PROVE  FALSE
    BY <2>1, <2>2 DEF Dist
  <2>. QED
    BY <2>2 DEF Region, Offsets
<1>4. \A s \in Region(roff, wtot - rtot) : data'[s] = data[s]
  BY <1>3 DEF FillData, Region
<1>5. Contents'
  BY <1>4 DEF Contents, Region, Dist
<1>. QED
  BY <1>1, <1>2, <1>5

(* Filling the free slots, by either kind of write, keeps the invariant:    *)
(* the bytes copied are the next ones of the stream.                        *)
LEMMA FillStep == IInv /\ (WriteSomeFill \/ WriteSome2Fill) => IInv'
<1> SUFFICES ASSUME IInv, WriteSomeFill \/ WriteSome2Fill PROVE IInv'
  OBVIOUS
<1> USE DEF IInv, consumer
<1>1. PICK g \in 0 .. pn :
        /\ FillData(g) /\ pn' = g /\ poff' \in Offsets
        /\ poff' \in {woff + g, woff + g - Size} /\ peof' \in BOOLEAN
        /\ ppc = "fill" /\ ppc' = "publish"
        /\ UNCHANGED <<roff, woff, rdone, wdone, consumer, pop, pleft, rtot, wtot>>
  <2>1. CASE WriteSomeFill
    BY <2>1 DEF WriteSomeFill, TypeOK, InFlight
  <2>2. CASE WriteSome2Fill
    <3>1. PICK g \in 0 .. pn : FillData(g) /\ pn' = g /\ poff' = Wrap(woff + g)
                               /\ peof' = (g < pn)
      BY <2>2 DEF WriteSome2Fill
    <3>2. Wrap(woff + g) \in Offsets /\ Wrap(woff + g) \in {woff + g, woff + g - Size}
      BY SizeAssumption DEF TypeOK, Wrap, Offsets, Capacity
    <3>. QED
      BY <2>2, <3>1, <3>2 DEF WriteSome2Fill, TypeOK
  <2>. QED
    BY <2>1, <2>2
<1>2. /\ Contents' /\ data' \in [Offsets -> Int]
      /\ \A s \in Region(woff, g) : data'[s] = wtot + Dist(woff, s)
  BY <1>1, FillKeepsContents
<1>3. g \in 0 .. Capacity /\ g <= pn
  BY SizeAssumption DEF TypeOK, Capacity
<1>4. TypeOK'
  BY <1>1, <1>2, <1>3 DEF TypeOK
<1>5. Occupancy'
  BY <1>1 DEF Occupancy
<1>6. InFlight'
  <2>1. pn' <= pleft' /\ pn' <= Capacity - (wtot' - rtot')
    BY <1>1, <1>3, SizeAssumption DEF InFlight, TypeOK, Capacity
  <2>2. \A s \in Region(woff', pn') : data'[s] = wtot' + Dist(woff', s)
    BY <1>1, <1>2
  <2>. QED
    BY <1>1, <2>1, <2>2 DEF InFlight
<1>7. NoMissedWakeup'
  BY <1>1 DEF NoMissedWakeup, Empty, IsFull
<1>. QED
  BY <1>2, <1>4, <1>5, <1>6, <1>7

(* Freezing the other thread's offset: the transfer is measured against it, *)
(* and what it owns only grows when that offset moves on.                   *)
LEMMA ReadSomeLoadStep == IInv /\ ReadSomeLoad => IInv'
<1> SUFFICES ASSUME IInv, ReadSomeLoad PROVE IInv'
  OBVIOUS
<1> DEFINE r == read_some_(roff, woff, cleft)
           n == circbuf_get_length(roff, woff)
<1> USE DEF IInv, ReadSomeLoad, buffer, producer
<1>1. n \in 0 .. Capacity /\ n = wtot - rtot /\ cleft \in Nat
  BY SizeAssumption DEF TypeOK, Occupancy, circbuf_get_length, Offsets, Capacity
<1>2. /\ r.n = Least(n, cleft) /\ r.off \in 0 .. Size
      /\ r.off = roff + r.n \/ r.off = roff + r.n - Size
  BY ReadSomeTakesAll DEF TypeOK
<1>3. r.n \in 0 .. Capacity /\ r.n <= n /\ r.n <= cleft
  BY <1>1, <1>2, SizeAssumption DEF Least, Capacity
<1>4. view' = r.n /\ coff' = r.off
  OBVIOUS
<1> HIDE DEF r, n
<1>5. TypeOK'
  BY <1>2, <1>3, <1>4 DEF TypeOK
<1>6. Occupancy'
  BY DEF Occupancy
<1>7. Contents'
  BY <1>1, <1>3, <1>4 DEF Contents
<1>8. InFlight'
  BY <1>2, <1>3, <1>4 DEF InFlight
<1>9. NoMissedWakeup'
  BY DEF NoMissedWakeup, Empty, IsFull
<1>. QED
  BY <1>5, <1>6, <1>7, <1>8, <1>9

(* The producer's measuring of the free slots keeps the invariant: what it  *)
(* is about to fill is free.                                                *)
LEMMA WriteSomeLoadStep == IInv /\ WriteSomeLoad => IInv'
<1> SUFFICES ASSUME IInv, WriteSomeLoad PROVE IInv'
  OBVIOUS
<1> DEFINE w == write_some_(roff, woff, pleft)
           n == circbuf_get_length(roff, woff)
<1> USE DEF IInv, WriteSomeLoad, buffer, consumer
<1>1. n \in 0 .. Capacity /\ n = wtot - rtot /\ pleft \in Nat
  BY SizeAssumption DEF TypeOK, Occupancy, circbuf_get_length, Offsets, Capacity
<1>2. /\ w.n = Least(Capacity - n, pleft) /\ w.off \in Offsets
      /\ w.off = woff + w.n \/ w.off = woff + w.n - Size
  BY WriteSomeStoresAll DEF TypeOK
<1>3. w.n \in 0 .. Capacity /\ w.n <= Capacity - n /\ w.n <= pleft
  BY <1>1, <1>2, SizeAssumption DEF Least, Capacity
<1>4. pn' = w.n /\ poff' = w.off
  OBVIOUS
<1> HIDE DEF w, n
<1>5. TypeOK'
  BY <1>2, <1>3, <1>4 DEF TypeOK
<1>6. Occupancy'
  BY DEF Occupancy
<1>7. Contents'
  BY DEF Contents
<1>8. InFlight'
  BY <1>1, <1>2, <1>3, <1>4 DEF InFlight
<1>9. NoMissedWakeup'
  BY DEF NoMissedWakeup, Empty, IsFull
<1>. QED
  BY <1>5, <1>6, <1>7, <1>8, <1>9

(* An offset moved by n slots sees every slot n closer.                     *)
LEMMA MovedOffset ==
    ASSUME NEW off \in 0 .. Size, NEW n \in 0 .. Capacity, NEW to \in 0 .. Size,
           to = off + n \/ to = off + n - Size, NEW s \in Offsets
    PROVE  /\ Dist(to, s) \in 0 .. Capacity
           /\ Dist(off, s) = IF Dist(to, s) < Size - n THEN Dist(to, s) + n
                                                       ELSE Dist(to, s) + n - Size
BY SizeAssumption DEF Dist, Offsets, Capacity

(* The consumer's publication of its offset keeps the invariant: the bytes  *)
(* it gives up are those it has read.                                       *)
LEMMA PublishReadStep == IInv /\ PublishRead => IInv'
<1> SUFFICES ASSUME IInv, PublishRead PROVE IInv'
  OBVIOUS
<1> USE DEF IInv, PublishRead
<1>1. /\ coff \in 0 .. Size /\ coff \in {roff + view, roff + view - Size}
      /\ view \in 0 .. Capacity /\ view <= cleft /\ cleft \in Nat
      /\ view <= wtot - rtot /\ wtot - rtot <= Capacity
      /\ rtot \in Nat /\ wtot \in Nat /\ roff \in 0 .. Size
  BY SizeAssumption
     DEF TypeOK, InFlight, Contents, Occupancy, circbuf_get_length, Offsets, Capacity
<1>2. TypeOK'
  <2>1. rtot + view \in Nat /\ cleft - view \in Nat /\ 0 \in 0 .. Capacity
    BY <1>1, SizeAssumption DEF Capacity
  <2>. QED
    BY <1>1, <2>1 DEF TypeOK, SignalProducer
<1>3. Occupancy'
  BY <1>1, SizeAssumption
     DEF Occupancy, TypeOK, circbuf_get_length, Offsets, Capacity
<1>4. Contents'
  <2>1. \A s \in Region(coff, wtot - (rtot + view)) :
            data[s] = rtot + view + Dist(coff, s)
    <3> SUFFICES ASSUME NEW s \in Offsets, Dist(coff, s) < wtot - (rtot + view)
                 PROVE  data[s] = rtot + view + Dist(coff, s)
      BY DEF Region
    <3>1. Dist(roff, s) = Dist(coff, s) + view /\ Dist(coff, s) \in Nat
      BY <1>1, MovedOffset, SizeAssumption DEF Capacity
    <3>2. s \in Region(roff, wtot - rtot)
      BY <1>1, <3>1 DEF Region
    <3>. QED
      BY <1>1, <3>1, <3>2 DEF Contents
  <2>. QED
    BY <1>1, <2>1 DEF Contents
<1>5. InFlight'
  BY <1>1, SizeAssumption DEF InFlight, SignalProducer, TypeOK, Capacity
<1>6. NoMissedWakeup'
  BY DEF NoMissedWakeup, Empty, IsFull, SignalProducer, RLockFree
<1>. QED
  BY <1>2, <1>3, <1>4, <1>5, <1>6

(* The producer's publication of its offset keeps the invariant: the bytes  *)
(* it adds are the next ones of the stream.                                 *)
LEMMA PublishWriteStep == IInv /\ PublishWrite => IInv'
<1> SUFFICES ASSUME IInv, PublishWrite PROVE IInv'
  OBVIOUS
<1> USE DEF IInv, PublishWrite
<1>1. /\ poff \in Offsets /\ poff \in {woff + pn, woff + pn - Size}
      /\ pn \in 0 .. Capacity /\ pn <= pleft /\ pleft \in Nat
      /\ pn <= Capacity - (wtot - rtot)
      /\ rtot \in Nat /\ wtot \in Nat /\ roff \in 0 .. Size /\ woff \in Offsets
      /\ view <= wtot - rtot /\ view \in 0 .. Capacity
  BY DEF TypeOK, InFlight, Contents
<1>2. TypeOK'
  <2>1. wtot + pn \in Nat /\ pleft - pn \in Nat /\ 0 \in 0 .. Capacity
    BY <1>1, SizeAssumption DEF Capacity
  <2>. QED
    BY <1>1, <2>1 DEF TypeOK, SignalConsumer
<1>3. Occupancy'
  BY <1>1, SizeAssumption
     DEF Occupancy, circbuf_get_length, Offsets, Capacity
<1>4. Contents'
  <2>1. \A s \in Region(roff, wtot + pn - rtot) : data[s] = rtot + Dist(roff, s)
    <3> SUFFICES ASSUME NEW s \in Offsets, Dist(roff, s) < wtot + pn - rtot
                 PROVE  data[s] = rtot + Dist(roff, s)
      BY DEF Region
    <3>1. CASE Dist(roff, s) < wtot - rtot
      BY <3>1 DEF Contents, Region
    <3>2. CASE Dist(roff, s) >= wtot - rtot
      <4>1. Dist(roff, s) = wtot - rtot + Dist(woff, s) /\ Dist(woff, s) \in Nat
        BY <1>1, <3>2, SizeAssumption
           DEF Occupancy, circbuf_get_length, Dist, Offsets, Capacity
      <4>2. s \in Region(woff, pn)
        BY <1>1, <4>1 DEF Region
      <4>. QED
        BY <1>1, <4>1, <4>2 DEF InFlight
    <3>3. Dist(roff, s) \in Int
      BY <1>1, SizeAssumption DEF Dist, Offsets
    <3>. QED
      BY <1>1, <3>1, <3>2, <3>3
  <2>. QED
    BY <1>1, <2>1 DEF Contents
<1>5. InFlight'
  BY <1>1, SizeAssumption DEF InFlight, SignalConsumer, Capacity
<1>6. NoMissedWakeup'
  BY DEF NoMissedWakeup, Empty, IsFull, SignalConsumer, WLockFree
<1>. QED
  BY <1>2, <1>3, <1>4, <1>5, <1>6

(* Measuring the bytes to dispose of keeps the invariant.                   *)
LEMMA CallDisposeStep == IInv /\ (\E len \in Lens : CallDisposeSome(len)) => IInv'
<1> SUFFICES ASSUME IInv, NEW len \in Lens, CallDisposeSome(len) PROVE IInv'
  OBVIOUS
<1> DEFINE n == circbuf_get_length(roff, woff)
<1> USE DEF IInv, CallDisposeSome, buffer, producer
<1>1. n \in 0 .. Capacity /\ n = wtot - rtot /\ len \in Nat
  BY SizeAssumption, ClientAssumption
     DEF TypeOK, Occupancy, circbuf_get_length, Offsets, Capacity
<1>2. /\ view' \in 0 .. Capacity /\ view' <= n /\ cleft' = view'
      /\ coff' = Wrap(roff + view')
  BY <1>1, SizeAssumption DEF dispose_some_, Least, Capacity
<1>3. coff' \in 0 .. Size /\ coff' \in {roff + view', roff + view' - Size}
  BY <1>2, SizeAssumption DEF Wrap, TypeOK, Capacity
<1> HIDE DEF n
<1>4. cleft' \in Nat /\ view' <= cleft'
  BY <1>2, SizeAssumption DEF Capacity
<1>5. TypeOK'
  BY <1>2, <1>3, <1>4 DEF TypeOK, ReadOps
<1>6. Occupancy'
  BY DEF Occupancy
<1>7. Contents'
  BY <1>1, <1>2 DEF Contents
<1>8. InFlight'
  BY <1>3, <1>4 DEF InFlight
<1>9. NoMissedWakeup'
  BY DEF NoMissedWakeup, Empty, IsFull
<1>. QED
  BY <1>5, <1>6, <1>7, <1>8, <1>9

(* The two closes signal under the lock of the condition they change.       *)
LEMMA CloseStep == IInv /\ (CloseRead \/ CloseWrite) => IInv'
<1> SUFFICES ASSUME IInv, CloseRead \/ CloseWrite PROVE IInv'
  OBVIOUS
<1> USE DEF IInv, consumer, producer
<1>1. CASE CloseRead
  <2> USE <1>1 DEF CloseRead, SignalProducer, RLockFree
  <2>1. TypeOK'
    BY DEF TypeOK
  <2>2. Occupancy' /\ Contents'
    BY DEF Occupancy, Contents
  <2>3. InFlight'
    BY DEF InFlight
  <2>4. NoMissedWakeup'
    BY DEF NoMissedWakeup, Empty, IsFull
  <2>. QED
    BY <2>1, <2>2, <2>3, <2>4
<1>2. CASE CloseWrite
  <2> USE <1>2 DEF CloseWrite, SignalConsumer, WLockFree
  <2>1. TypeOK'
    BY DEF TypeOK
  <2>2. Occupancy' /\ Contents'
    BY DEF Occupancy, Contents
  <2>3. InFlight'
    BY DEF InFlight
  <2>4. NoMissedWakeup'
    BY DEF NoMissedWakeup, Empty, IsFull
  <2>. QED
    BY <2>1, <2>2, <2>3, <2>4
<1>. QED
  BY <1>1, <1>2

(* A reset, with both threads outside their calls, keeps the invariant.     *)
LEMMA ResetStep == IInv /\ Reset => IInv'
<1> SUFFICES ASSUME IInv, Reset PROVE IInv'
  OBVIOUS
<1> USE DEF IInv, Reset, producer
<1>1. TypeOK'
  <2>1. 0 \in Offsets /\ 0 \in 0 .. Size /\ 0 \in 0 .. Capacity
    BY SizeAssumption DEF Offsets, Capacity
  <2>. QED
    BY <2>1 DEF TypeOK
<1>2. Occupancy'
  BY DEF Occupancy, TypeOK, circbuf_get_length
<1>3. Contents'
  BY SizeAssumption DEF Contents, TypeOK, Region, Dist, Offsets
<1>4. InFlight'
  BY SizeAssumption DEF InFlight, TypeOK, Capacity
<1>5. NoMissedWakeup'
  BY DEF NoMissedWakeup
<1>. QED
  BY <1>1, <1>2, <1>3, <1>4, <1>5

(* The invariant is inductive.                                              *)
LEMMA NextIInv == IInv /\ [Next]_vars => IInv'
<1> SUFFICES ASSUME IInv, [Next]_vars PROVE IInv'
  OBVIOUS
<1>1. CASE \/ ReadTest \/ ReadTestDone \/ ReadCheck \/ ReadWait \/ ReadSpuriousWake
           \/ Inspect \/ \E len \in Lens : CallRead(len) \/ CallReadSome(len)
  <2>1. circbuf_get_length(roff, woff) \in Nat
    BY SizeAssumption DEF IInv, TypeOK, circbuf_get_length, Offsets
  <2>2. \A len \in Lens : input_some_(roff, woff, len) \in 0 .. circbuf_get_length(roff, woff)
    BY SizeAssumption, ClientAssumption
       DEF IInv, TypeOK, input_some_, circbuf_get_length, Least, Offsets
  <2>3. view \in 0 .. circbuf_get_length(roff, woff)
    BY <2>1, SizeAssumption DEF IInv, TypeOK, Contents, Occupancy, Capacity
  <2>4. QuietConsumer
    BY <1>1, <2>1, <2>2, <2>3, ClientAssumption
       DEF QuietConsumer, ReadTest, ReadTestDone, ReadCheck, ReadWait, ReadSpuriousWake,
           Inspect, InputSome, CallRead, CallReadSome, IInv, TypeOK, ReadOps
  <2>. QED
    BY <2>4, QuietConsumerStep
<1>2. CASE \/ WriteTest \/ WriteCheck \/ WriteWait \/ WriteRetest \/ WriteSpuriousWake
           \/ Supply
  <2>1. QuietProducer
    BY <1>2, ClientAssumption
       DEF QuietProducer, WriteTest, WriteCheck, WriteWait, WriteRetest,
           WriteSpuriousWake, Supply, CallWrite, IInv, TypeOK
  <2>. QED
    BY <2>1, QuietProducerStep
<1>3. CASE UNCHANGED vars
  BY <1>3 DEF vars, buffer, consumer, producer, IInv, TypeOK, Occupancy, Contents,
              InFlight, NoMissedWakeup, Empty, IsFull
<1>. QED
  BY <1>1, <1>2, <1>3, CallDisposeStep, ReadSomeLoadStep, PublishReadStep,
     WriteSomeLoadStep, FillStep, PublishWriteStep, CloseStep, ResetStep
     DEF Next, ConsumerStep, ProducerStep, Consume

(* The inductive invariant holds in every reachable state, for every size,  *)
(* every set of lengths and every number of bytes.                          *)
THEOREM InvariantHolds == Spec => []IInv
BY InitIInv, NextIInv, PTL DEF Spec

(* Type correctness of the buffer and of the two threads.                   *)
THEOREM TypeCorrect == Spec => []TypeOK
<1>1. IInv => TypeOK
  BY DEF IInv
<1>. QED
  BY <1>1, InvariantHolds, PTL

(* The offsets account for exactly the bytes published and not yet released,*)
(* which are never more than fit.                                           *)
THEOREM OccupancyHolds == Spec => []Occupancy
<1>1. IInv => Occupancy
  BY DEF IInv
<1>. QED
  BY <1>1, InvariantHolds, PTL

(* circbuf.c never loses, repeats, reorders or overwrites a byte that is    *)
(* still to be read or is being read.                                       *)
THEOREM BytesInOrder == Spec => []Contents
<1>1. IInv => Contents
  BY DEF IInv
<1>. QED
  BY <1>1, InvariantHolds, PTL

(* A call works from an offset that may be out of date, and still moves its *)
(* own offset over slots it owns and publishes only what it has copied.     *)
THEOREM TransfersHold == Spec => []InFlight
<1>1. IInv => InFlight
  BY DEF IInv
<1>. QED
  BY <1>1, InvariantHolds, PTL

(* The unlocked copies of the producer and of the consumer are never on a   *)
(* common slot.                                                             *)
THEOREM RaceFree == Spec => []NoDataRace
<1>1. IInv => NoDataRace
  <2> SUFFICES ASSUME IInv, NEW s \in Offsets,
                      Dist(roff, s) < view, Dist(woff, s) < pn
               PROVE  FALSE
    BY DEF NoDataRace, Region
  <2>. QED
    BY SizeAssumption DEF IInv, TypeOK, Occupancy, Contents, InFlight,
                          circbuf_get_length, Dist, Offsets, Capacity
<1>. QED
  BY <1>1, InvariantHolds, PTL

(* No signal is lost: a thread that sleeps has not missed the event it      *)
(* waits for.                                                               *)
THEOREM WakeupsHold == Spec => []NoMissedWakeup
<1>1. IInv => NoMissedWakeup
  BY DEF IInv
<1>. QED
  BY <1>1, InvariantHolds, PTL

(* When neither thread can finish its call: each sleeps until the other one *)
(* signals, or waits for a lock that the other one holds.                   *)
ConsumerBlocked == cpc = "waiting" \/ (cpc = "publish" /\ ~RLockFree)
ProducerBlocked == ppc = "waiting" \/ (ppc = "publish" /\ ~WLockFree)

NotBothBlocked == ~(ConsumerBlocked /\ ProducerBlocked)

(* The two lock and condition pairs never leave both threads stuck: whoever *)
(* holds a lock lets go of it by itself, and the buffer cannot be empty for *)
(* the consumer and full for the producer.                                  *)
THEOREM NoDeadlock == Spec => []NotBothBlocked
<1>1. IInv => NotBothBlocked
  <2> SUFFICES ASSUME IInv, ConsumerBlocked, ProducerBlocked PROVE FALSE
    BY DEF NotBothBlocked
  <2>1. cpc = "waiting" /\ ppc = "waiting"
    BY DEF ConsumerBlocked, ProducerBlocked, RLockFree, WLockFree
  <2>2. Empty /\ IsFull
    BY <2>1 DEF IInv, NoMissedWakeup
  <2>3. roff \in 0 .. Size /\ woff \in Offsets
    BY DEF IInv, TypeOK
  <2>. QED
    BY <2>2, <2>3, SizeAssumption DEF Empty, IsFull, Full, Offsets
<1>. QED
  BY <1>1, InvariantHolds, PTL

-----------------------------------------------------------------------------
(* The buffer implements the byte queue.                                    *)

(* n bytes of the stream, from byte a on.                                   *)
Stretch(a, n) == [i \in 1 .. n |-> a + i - 1]

(* A stretch of n bytes is a sequence of length n.                          *)
LEMMA StretchIsSeq ==
    ASSUME NEW a \in Nat, NEW n \in Nat
    PROVE  Stretch(a, n) \in Seq(Nat) /\ Len(Stretch(a, n)) = n
BY DEF Stretch

(* The first k bytes of a stretch are a stretch.                            *)
LEMMA StretchPrefix ==
    ASSUME NEW a \in Nat, NEW n \in Nat, NEW k \in 0 .. n
    PROVE  SubSeq(Stretch(a, n), 1, k) = Stretch(a, k)
BY DEF Stretch

(* So are those after the first k.                                          *)
LEMMA StretchRest ==
    ASSUME NEW a \in Nat, NEW n \in Nat, NEW k \in 0 .. n
    PROVE  SubSeq(Stretch(a, n), k + 1, n) = Stretch(a + k, n - k)
BY DEF Stretch

(* Two stretches that follow each other are one.                            *)
LEMMA StretchJoin ==
    ASSUME NEW a \in Nat, NEW n \in Nat, NEW k \in Nat
    PROVE  Stretch(a, n) \o Stretch(a + n, k) = Stretch(a, n + k)
BY DEF Stretch

(* What the queue of the refinement mapping is, in the terms of the totals. *)
Mapped ==
    /\ rtot \in Nat /\ wtot \in Nat /\ view \in 0 .. wtot - rtot
    /\ wtot - rtot \in 0 .. Capacity
    /\ Shown(circbuf_get_length(roff, woff)) = Stretch(rtot, wtot - rtot)
    /\ Shown(view) = Stretch(rtot, view)

(* In every reachable state the queue of the mapping is the stretch of the  *)
(* stream from rtot to wtot.                                                *)
LEMMA InvMaps == IInv => Mapped
<1> SUFFICES ASSUME IInv PROVE Mapped
  OBVIOUS
<1> DEFINE n == wtot - rtot
<1>1. /\ rtot \in Nat /\ wtot \in Nat /\ n \in 0 .. Capacity /\ view \in 0 .. n
      /\ circbuf_get_length(roff, woff) = n /\ roff \in 0 .. Size
  BY SizeAssumption
     DEF IInv, TypeOK, Contents, Occupancy, circbuf_get_length, Offsets, Capacity
<1>2. ASSUME NEW k \in 0 .. n PROVE Shown(k) = Stretch(rtot, k)
  <2>1. ASSUME NEW i \in 1 .. k PROVE data[Wrap(roff + i - 1)] = rtot + i - 1
    <3> DEFINE s == Wrap(roff + i - 1)
    <3>1. s \in Offsets /\ Dist(roff, s) = i - 1
      BY <1>1, SizeAssumption DEF Wrap, Dist, Offsets, Capacity
    <3>2. s \in Region(roff, n)
      BY <1>1, <3>1 DEF Region
    <3>. QED
      BY <1>1, <3>1, <3>2 DEF IInv, Contents
  <2>. QED
    BY <2>1 DEF Shown, Stretch
<1>. QED
  BY <1>1, <1>2 DEF Mapped

(* A write in progress means that writing is still open.                    *)
WritesWhileOpen == ppc # "idle" => ~wdone

(* A producer inside a call has not closed its end.                         *)
LEMMA WritingIsOpen == Spec => []WritesWhileOpen
<1>1. Init => WritesWhileOpen
  BY DEF Init, WritesWhileOpen
<1>2. WritesWhileOpen /\ [Next]_vars => WritesWhileOpen'
  BY DEF WritesWhileOpen, Next, vars, buffer, consumer, producer, ConsumerStep, ProducerStep,
         Consume, Inspect, Supply, ReadTest, ReadTestDone, ReadCheck, ReadWait, ReadSomeLoad,
         PublishRead, SignalProducer, ReadSpuriousWake, CallRead, CallReadSome,
         CallDisposeSome, InputSome, CloseRead, WriteTest, WriteCheck, WriteWait,
         WriteRetest, WriteSomeLoad, WriteSomeFill, WriteSome2Fill, PublishWrite,
         WriteSpuriousWake, CallWrite, CloseWrite, Reset
<1>. QED
  BY <1>1, <1>2, PTL DEF Spec

(* The initial states are initial states of the queue.                      *)
LEMMA InitMaps == Init => Queue!Init
<1> SUFFICES ASSUME Init PROVE Queue!Init
  OBVIOUS
<1>1. Mapped /\ Stretch(0, 0) = <<>>
  BY InitIInv, InvMaps DEF Stretch
<1>. QED
  BY <1>1 DEF Mapped, Init, Queue!Init

(* Steps that neither move bytes nor open, close or change what is shown.   *)
LEMMA InternalMaps ==
    ASSUME Mapped, Mapped', UNCHANGED <<rtot, wtot, view, rdone, wdone>>
    PROVE  UNCHANGED Queue!vars
BY DEF Mapped, Queue!vars

(* A step that moves neither total nor a flag is at most a look of the      *)
(* consumer at the queue.                                                   *)
LEMMA LookMaps ==
    ASSUME Mapped, Mapped', UNCHANGED <<rtot, wtot, rdone, wdone>>
    PROVE  Queue!Next
<1>1. view' \in 0 .. wtot - rtot /\ wtot - rtot \in Nat
  BY DEF Mapped
<1>2. Shown(view)' = SubSeq(Shown(circbuf_get_length(roff, woff)), 1, view')
  BY <1>1, StretchPrefix DEF Mapped
<1>3. Len(Shown(circbuf_get_length(roff, woff))) = wtot - rtot
  BY <1>1, StretchIsSeq DEF Mapped
<1>4. Queue!Look(view')
  BY <1>2 DEF Mapped, Queue!Look
<1>. QED
  BY <1>1, <1>3, <1>4 DEF Queue!Next

(* The consumer's publication is a removal from the queue.                  *)
LEMMA PublishReadMaps ==
    ASSUME Mapped, Mapped', PublishRead
    PROVE  Queue!Next
<1> DEFINE n == wtot - rtot
<1>1. rtot' = rtot + view /\ wtot' = wtot /\ view' = 0 /\ UNCHANGED <<rdone, wdone>>
  BY DEF PublishRead
<1>2. view \in 0 .. n /\ n \in Nat /\ rtot \in Nat /\ wtot \in Nat
  BY DEF Mapped
<1>3. wtot' - rtot' = n - view
  BY <1>1, <1>2
<1>4. SubSeq(Stretch(rtot, n), view + 1, n) = Stretch(rtot', wtot' - rtot')
  BY <1>1, <1>2, <1>3, StretchRest
<1>5. Len(Stretch(rtot, n)) = n /\ Len(Stretch(rtot, view)) = view
  <2>1. view \in Nat
    BY <1>2
  <2>. QED
    BY <1>2, <2>1, StretchIsSeq
<1>6. Stretch(rtot', view') = <<>>
  BY <1>1 DEF Stretch
<1>7. Queue!Release
  BY <1>1, <1>4, <1>5, <1>6 DEF Mapped, Queue!Release
<1>. QED
  BY <1>7 DEF Queue!Next

(* The producer's publication is an addition to the queue.                  *)
LEMMA PublishWriteMaps ==
    ASSUME IInv, Mapped, Mapped', WritesWhileOpen, PublishWrite
    PROVE  Queue!Next
<1> DEFINE n == wtot - rtot
<1>1. /\ wtot' = wtot + pn /\ rtot' = rtot /\ view' = view /\ ~wdone
      /\ UNCHANGED <<rdone, wdone>>
  BY DEF PublishWrite, WritesWhileOpen
<1>2. /\ n \in Nat /\ rtot \in Nat /\ wtot \in Nat /\ pn \in 0 .. Capacity
      /\ n + pn <= Capacity
  BY SizeAssumption DEF Mapped, IInv, TypeOK, InFlight, Capacity
<1>3. wtot' - rtot' = n + pn /\ rtot + n = wtot
  BY <1>1, <1>2
<1>4. Stretch(rtot, n) \o Stretch(wtot, pn) = Stretch(rtot', wtot' - rtot')
  <2>1. pn \in Nat
    BY <1>2, SizeAssumption DEF Capacity
  <2>2. Stretch(rtot, n) \o Stretch(rtot + n, pn) = Stretch(rtot, n + pn)
    BY <1>2, <2>1, StretchJoin
  <2>. QED
    BY <1>1, <1>3, <2>2
<1>5. Len(Stretch(rtot, n)) = n
  BY <1>2, StretchIsSeq
<1>6. Queue!Send(pn)
  BY <1>1, <1>2, <1>4, <1>5 DEF Mapped, Queue!Send, Stretch
<1>. QED
  BY <1>2, <1>6 DEF Queue!Next

(* Closing an end of the buffer closes that end of the queue.               *)
LEMMA CloseMaps ==
    ASSUME Mapped, Mapped', CloseRead \/ CloseWrite
    PROVE  Queue!Next
<1>1. CASE CloseRead
  <2>1. Queue!CloseRead
    BY <1>1 DEF CloseRead, consumer, Mapped, Queue!CloseRead
  <2>. QED
    BY <2>1 DEF Queue!Next
<1>2. CASE CloseWrite
  <2>1. Queue!CloseWrite
    BY <1>2 DEF CloseWrite, Mapped, Queue!CloseWrite
  <2>. QED
    BY <2>1 DEF Queue!Next
<1>. QED
  BY <1>1, <1>2

(* A reset of the buffer is a reset of the queue.                           *)
LEMMA ResetMaps ==
    ASSUME Mapped, Mapped', Reset
    PROVE  Queue!Next
<1>1. /\ rtot' = wtot /\ wtot' = wtot /\ view' = 0 /\ rdone' = FALSE /\ wdone' = FALSE
      /\ wtot' - rtot' = 0
  BY DEF Reset, Mapped
<1>2. Stretch(rtot', 0) = <<>>
  BY DEF Stretch
<1>3. Queue!Reset
  BY <1>1, <1>2 DEF Mapped, Queue!Reset
<1>. QED
  BY <1>3 DEF Queue!Next

(* Every step is a step of the queue or is hidden from it.                  *)
LEMMA NextMaps ==
    ASSUME IInv, Mapped, Mapped', WritesWhileOpen, [Next]_vars
    PROVE  [Queue!Next]_(Queue!vars)
<1>1. CASE \/ ReadTest \/ ReadTestDone \/ ReadCheck \/ ReadWait \/ ReadSpuriousWake
           \/ WriteTest \/ WriteCheck \/ WriteWait \/ WriteRetest \/ WriteSomeLoad
           \/ WriteSomeFill \/ WriteSome2Fill \/ WriteSpuriousWake \/ Supply
           \/ UNCHANGED vars
  <2>1. UNCHANGED <<rtot, wtot, view, rdone, wdone>>
    BY <1>1 DEF ReadTest, ReadTestDone, ReadCheck, ReadWait, ReadSpuriousWake, WriteTest,
                WriteCheck, WriteWait, WriteRetest, WriteSomeLoad, WriteSomeFill,
                WriteSome2Fill, WriteSpuriousWake, Supply, CallWrite, buffer, consumer, vars
  <2>. QED
    BY <2>1, InternalMaps
<1>2. CASE ReadSomeLoad \/ Consume \/ Inspect
  <2>1. UNCHANGED <<rtot, wtot, rdone, wdone>>
    BY <1>2 DEF ReadSomeLoad, Consume, Inspect, CallRead, CallReadSome, CallDisposeSome,
                InputSome, buffer
  <2>. QED
    BY <2>1, LookMaps
<1>. QED
  BY <1>1, <1>2, PublishReadMaps, PublishWriteMaps, CloseMaps, ResetMaps
     DEF Next, ConsumerStep, ProducerStep

(* The circular buffer is a bounded byte queue: every step of its two       *)
(* threads sends the next bytes, shows or releases the front, opens or      *)
(* closes an end, or changes nothing a client can see.                      *)
THEOREM BufferIsQueue == Spec => ImplementsQueue
<1>1. Init => Queue!Init
  BY InitMaps
<1>2. IInv /\ Mapped /\ Mapped' /\ WritesWhileOpen /\ [Next]_vars => [Queue!Next]_(Queue!vars)
  BY NextMaps
<1>. QED
  BY <1>1, <1>2, InvMaps, InvariantHolds, WritingIsOpen, PTL DEF Spec, ImplementsQueue, Queue!Spec

=============================================================================
