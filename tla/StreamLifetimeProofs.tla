------------------------ MODULE StreamLifetimeProofs ------------------------
(***************************************************************************)
(* Proofs about StreamLifetime, for any number of objects and streams, any  *)
(* classes and any depth of nesting.                                        *)
(*                                                                         *)
(* SoleOwner and FillerReadsLive are not inductive: that the destruction of *)
(* a stream leaves no filler behind that reads it depends on who owns the   *)
(* buffer above it.  Chained says who: the object that owns a stream owns   *)
(* the buffer over it too, one level further out, so that destructors,      *)
(* which work from the outside, have destroyed the buffer before.           *)
(***************************************************************************)
EXTENDS StreamLifetime, TLAPS

(* The inner stream of a buffer is live, and what is not live has none.     *)
InnersLive ==
    /\ \A s \in live : under[s] # Null => under[s] \in live
    /\ \A s \in Streams \ live : under[s] = Null

(* Whoever owns the inner stream of a live buffer owns the buffer.          *)
Chained ==
    \A s \in live, o \in Objects, n \in Levels :
        under[s] # Null /\ under[s] = self[o][n]
            => n + 1 \in Levels /\ self[o][n + 1] = s

(* What an object owns above its first level is a buffer, and only buffers  *)
(* have fillers.                                                            *)
BuffersAbove ==
    /\ \A o \in Objects, n \in Levels :
          n > 1 /\ self[o][n] # Null => under[self[o][n]] # Null
    /\ \A s \in filling : under[s] # Null

IInv == TypeOK /\ SoleOwner /\ InnersLive /\ Chained /\ BuffersAbove

-----------------------------------------------------------------------------
(* What a failing sl_buffer_create2 leaves, wherever it fails: the inside   *)
(* of the circular buffer from the moment there is one.                     *)
LEMMA FailLeaves ==
    ASSUME NEW i \in 0 .. Len(BufferSteps) - 1
    PROVE  LeftByFail(i) \in {{}, {"cbuf_data", "cbuf_sync"}}
<1>1. Len(BufferSteps) = 7 BY DEF BufferSteps
<1>2. /\ BufferSteps[1] = {"context"} /\ BufferSteps[2] = Circbuf
      /\ BufferSteps[3] = {"stream"}
      /\ BufferSteps[4] = {"eof_lock"} /\ BufferSteps[5] = {"eof_cond"}
      /\ BufferSteps[6] = {"seek_lock"} /\ BufferSteps[7] = {"seek_cond"}
  BY DEF BufferSteps
<1>3. BufferSteps[1] \subseteq FreedByFail
  BY <1>1, <1>2 DEF FreedByFail, BufferParts
<1>4. \A j \in 1 .. 7 : BufferSteps[j] \subseteq FreedByFail \cup {"cbuf_data", "cbuf_sync"}
  BY <1>1 DEF FreedByFail, BufferParts
<1>5. LeftByFail(i) \subseteq {"cbuf_data", "cbuf_sync"}
  BY <1>1, <1>4 DEF LeftByFail
<1>6. CASE i \in {0, 1}
  BY <1>3, <1>6 DEF LeftByFail
<1>7. CASE i \in 2 .. 6
  <2>1. Circbuf \in {BufferSteps[j] : j \in 1 .. i}
    BY <1>2, <1>7
  <2>2. {"cbuf_data", "cbuf_sync"} \subseteq LeftByFail(i)
    BY <2>1 DEF LeftByFail, FreedByFail, Circbuf
  <2> QED BY <2>2, <1>5
<1> QED BY <1>1, <1>6, <1>7

(* Whatever a create or destroy function leaves is part of a stream.        *)
LEMMA LeftoversAreParts ==
    /\ \A o \in Objects, n \in Levels : LeftByDestroy(o, n) \subseteq SUBSET (FileParts \cup BufferParts)
    /\ \A i \in 0 .. Len(BufferSteps) - 1 : LeftByFail(i) \subseteq BufferParts
<1>1. {"eof_lock", "eof_cond"} \subseteq BufferParts
  <2>1. BufferSteps[4] = {"eof_lock"} /\ BufferSteps[5] = {"eof_cond"} /\ Len(BufferSteps) = 7
    BY DEF BufferSteps
  <2> QED BY <2>1 DEF BufferParts
<1>2. {"stream"} \subseteq FileParts
  BY DEF FileParts
<1>3. \A o \in Objects, n \in Levels : LeftByDestroy(o, n) \subseteq SUBSET (FileParts \cup BufferParts)
  BY <1>1, <1>2 DEF LeftByDestroy
<1>4. {"cbuf_data", "cbuf_sync"} \subseteq BufferParts
  <2>1. BufferSteps[2] = Circbuf /\ Len(BufferSteps) = 7
    BY DEF BufferSteps
  <2> QED BY <2>1 DEF BufferParts, Circbuf
<1>5. \A i \in 0 .. Len(BufferSteps) - 1 : LeftByFail(i) \subseteq BufferParts
  BY <1>4, FailLeaves
<1> QED BY <1>3, <1>5

-----------------------------------------------------------------------------
(* The invariant holds before there is any object.                          *)
LEMMA InitHolds == Init => IInv
<1> SUFFICES ASSUME Init PROVE IInv OBVIOUS
<1> USE DEF Init, NoPointers
<1>1. TypeOK BY ParameterAssumption DEF TypeOK, Levels
<1>2. SoleOwner /\ InnersLive /\ Chained /\ BuffersAbove
  BY DEF SoleOwner, InnersLive, Chained, BuffersAbove
<1> QED BY <1>1, <1>2 DEF IInv

(* What the actions that create, move and destroy streams use of the       *)
(* invariant.                                                               *)
LEMMA Basics ==
    ASSUME IInv
    PROVE  /\ \A o \in Objects : Depth[o] \in Levels /\ left[o] \in 0 .. MaxDepth /\ left[o] <= Depth[o]
           /\ \A o \in Objects : o \in dtor => left[o] \in Levels
           /\ \A o \in Objects, n \in Levels :
                 /\ self[o][n] # Null => self[o][n] \in live
                 /\ n > left[o] => self[o][n] = Null
           /\ \A o, p \in Objects, n, m \in Levels :
                 self[o][n] # Null /\ self[p][m] = self[o][n] => o = p /\ n = m
           /\ Null \notin Streams /\ live \subseteq Streams /\ filling \subseteq live
           /\ \A n \in Levels : n \in Int /\ 1 <= n /\ n <= MaxDepth
           /\ MaxDepth \in Int /\ 1 <= MaxDepth
           /\ \A n \in Int : 1 <= n /\ n <= MaxDepth => n \in Levels
           /\ TypeOK
BY ParameterAssumption DEF IInv, TypeOK, SoleOwner, Levels

(* The actions that touch no pointer.                                       *)
LEMMA QuietHolds ==
    ASSUME IInv, UNCHANGED <<self, live, under>>, TypeOK',
           filling' \subseteq filling \/ \E o \in Objects : StartReading(o)
    PROVE  IInv'
<1>1. SoleOwner' /\ InnersLive' /\ Chained'
  BY DEF IInv, SoleOwner, InnersLive, Chained
<1>2. \A o \in Objects, n \in Levels :
          n > 1 /\ self'[o][n] # Null => under'[self'[o][n]] # Null
  BY DEF IInv, BuffersAbove
<1>3. \A s \in filling' : under'[s] # Null
  <2>1. CASE filling' \subseteq filling
    BY <2>1 DEF IInv, BuffersAbove
  <2>2. ASSUME NEW o \in Objects, StartReading(o)
        PROVE  \A s \in filling' : under'[s] # Null
    BY <2>2, Basics DEF IInv, StartReading, BuffersAbove, Outer
  <2> QED BY <2>1, <2>2
<1> QED BY <1>1, <1>2, <1>3 DEF IInv, BuffersAbove

(* Opening a file or HTTP stream keeps the invariant.                       *)
LEMMA NewLeafHolds ==
    ASSUME IInv, NEW o \in Objects, NEW s \in Streams, NewLeaf(o, s)
    PROVE  IInv'
<1>0. /\ 1 \in Levels /\ s # Null /\ s \notin live /\ live' = live \cup {s}
      /\ left[o] = 0 /\ Depth[o] = 1 /\ (\A n \in Levels : self[o][n] = Null)
      /\ under' = under /\ filling' = filling /\ closing' = closing
  BY Basics DEF NewLeaf, Fresh, threads
<1>1. \A q \in Objects, n \in Levels :
          self'[q][n] = IF q = o /\ n = 1 THEN s ELSE self[q][n]
  BY <1>0, Basics DEF NewLeaf, TypeOK
<1>2. \A q \in Objects : left'[q] = IF q = o THEN 1 ELSE left[q]
  BY Basics DEF NewLeaf, TypeOK
<1>3. TypeOK'
  <2>1. self' \in [Objects -> [Levels -> Streams \cup {Null}]]
    BY Basics DEF TypeOK, NewLeaf
  <2>2. left' \in [Objects -> 0 .. MaxDepth]
    BY <1>0, Basics DEF TypeOK, NewLeaf
  <2>3. /\ \A q \in Objects : left'[q] <= Depth[q]
        /\ \A q \in Objects, n \in Levels : n > left'[q] => self'[q][n] = Null
    BY <1>0, <1>1, <1>2, Basics
  <2>4. dtor' \subseteq {q \in Objects : left'[q] > 0}
    BY <1>2, Basics DEF TypeOK, NewLeaf
  <2>5. heap' \in [Streams -> SUBSET (FileParts \cup HttpParts \cup BufferParts)]
    BY Basics DEF TypeOK, NewLeaf
  <2> QED BY <2>1, <2>2, <2>3, <2>4, <2>5, <1>0, Basics DEF TypeOK
<1>4. SoleOwner'
  BY <1>0, <1>1, Basics DEF SoleOwner
<1>5. InnersLive'
  BY <1>0 DEF IInv, InnersLive
<1>6. Chained'
  BY <1>0, <1>1, Basics DEF IInv, Chained, InnersLive
<1>7. BuffersAbove'
  BY <1>0, <1>1, Basics DEF IInv, BuffersAbove
<1> QED BY <1>3, <1>4, <1>5, <1>6, <1>7 DEF IInv

(* Wrapping a stream in a buffer keeps the invariant.                       *)
LEMMA NewBufferHolds ==
    ASSUME IInv, NEW o \in Objects, NEW p \in Objects, NEW s \in Streams, NewBuffer(o, p, s)
    PROVE  IInv'
<1> DEFINE t == self[p][Depth[p]]
<1>0. /\ o # p /\ s # Null /\ s \notin live /\ live' = live \cup {s}
      /\ Depth[o] = Depth[p] + 1
      /\ left[o] = 0 /\ (\A n \in Levels : self[o][n] = Null)
      /\ left[p] = Depth[p]
      /\ filling' = filling /\ closing' = closing
      /\ t # Null
  BY Basics DEF NewBuffer, Fresh, threads, Wraps, InUse, Outer
<1>1. \A q \in Objects, n \in Levels :
          self'[q][n] = IF q = o THEN (IF n = Depth[o] THEN s ELSE self[p][n])
                        ELSE IF q = p THEN Null ELSE self[q][n]
  BY <1>0, Basics DEF NewBuffer, TakeMember, TypeOK, NoPointers
<1>2. t \in live /\ t # s
  BY <1>0, Basics
<1>3. under'[s] = t /\ \A u \in live : under'[u] = under[u]
  BY <1>0, Basics DEF NewBuffer, TypeOK, Outer
<1>4. TypeOK'
  <2>1. self' \in [Objects -> [Levels -> Streams \cup {Null}]]
    BY Basics DEF NewBuffer, TakeMember, TypeOK, NoPointers
  <2>2. left' \in [Objects -> 0 .. MaxDepth]
    BY Basics DEF NewBuffer, TypeOK
  <2>3. \A q \in Objects : left'[q] = IF q = o THEN Depth[o] ELSE left[q]
    BY Basics DEF NewBuffer, TypeOK
  <2>4. \A q \in Objects : left'[q] <= Depth[q]
    BY <2>3, Basics
  <2>5. \A q \in Objects, n \in Levels : n > left'[q] => self'[q][n] = Null
    BY <1>0, <1>1, <2>3, Basics
  <2>6. dtor' \subseteq {q \in Objects : left'[q] > 0}
    BY <2>3, Basics DEF TypeOK, NewBuffer
  <2>7. heap' \in [Streams -> SUBSET (FileParts \cup HttpParts \cup BufferParts)]
    BY Basics DEF TypeOK, NewBuffer
  <2>8. under' \in [Streams -> Streams \cup {Null}]
    BY <1>2, Basics DEF TypeOK, NewBuffer, Outer
  <2> QED BY <2>1, <2>2, <2>4, <2>5, <2>6, <2>7, <2>8, <1>0, Basics DEF TypeOK
<1>5. SoleOwner'
  <2>1. \A q \in Objects, n \in Levels :
            self'[q][n] # Null => self'[q][n] \in live'
    BY <1>0, <1>1, Basics
  <2>2. ASSUME NEW q \in Objects, NEW r \in Objects, NEW n \in Levels, NEW m \in Levels,
               self'[q][n] # Null, self'[r][m] = self'[q][n]
        PROVE  q = r /\ n = m
    BY <1>0, <1>1, <2>2, Basics
  <2> QED BY <2>1, <2>2 DEF SoleOwner
<1>6. InnersLive'
  <2>1. \A u \in Streams \ live' : under'[u] = Null
    BY <1>0, Basics DEF IInv, InnersLive, NewBuffer, TypeOK
  <2> QED BY <2>1, <1>0, <1>2, <1>3 DEF IInv, InnersLive
<1>7. Chained'
  <2> SUFFICES ASSUME NEW u \in live', NEW q \in Objects, NEW n \in Levels,
                      under'[u] # Null, under'[u] = self'[q][n]
               PROVE  n + 1 \in Levels /\ self'[q][n + 1] = u
    BY Zenon DEF Chained
  <2>1. CASE u = s
    <3>1. self'[q][n] = t
      BY <2>1, <1>3
    <3>2. q = o /\ n # Depth[o] /\ self[p][n] = t
      BY <3>1, <1>0, <1>1, <1>2, Basics
    <3>3. n = Depth[p]
      BY <3>2, <1>0, Basics
    <3> QED BY <3>2, <3>3, <2>1, <1>0, <1>1, Basics
  <2>2. CASE u # s
    <3>1. u \in live /\ u # Null /\ under[u] # Null /\ under[u] \in live /\ under'[u] = under[u]
      BY <2>2, <1>0, <1>3, Basics DEF IInv, InnersLive
    <3>2. CASE q = o
      <4>1. n # Depth[o] /\ under[u] = self[p][n]
        BY <3>1, <3>2, <1>0, <1>1
      <4>2. n + 1 \in Levels /\ self[p][n + 1] = u
        BY <4>1, <3>1 DEF IInv, Chained
      <4>3. n + 1 # Depth[o]
        BY <4>2, <3>1, <1>0, Basics
      <4> QED BY <4>2, <4>3, <3>2, <1>1
    <3>3. CASE q # o
      <4>1. q # p /\ under[u] = self[q][n]
        BY <3>1, <3>3, <1>1
      <4>2. n + 1 \in Levels /\ self[q][n + 1] = u
        BY <4>1, <3>1 DEF IInv, Chained
      <4> QED BY <4>1, <4>2, <3>3, <1>1
    <3> QED BY <3>2, <3>3
  <2> QED BY <2>1, <2>2
<1>8. BuffersAbove'
  <2>1. \A u \in filling' : under'[u] # Null
    BY <1>0, <1>3, Basics DEF IInv, BuffersAbove
  <2>2. ASSUME NEW q \in Objects, NEW n \in Levels, n > 1, self'[q][n] # Null
        PROVE  under'[self'[q][n]] # Null
    <3>1. CASE q = o /\ n = Depth[o]
      BY <3>1, <1>0, <1>1, <1>3
    <3>2. CASE q = o /\ n # Depth[o]
      <4>1. self'[q][n] = self[p][n]
        BY <3>2, <1>1
      <4> QED BY <4>1, <2>2, <1>3, Basics DEF IInv, BuffersAbove
    <3>3. CASE q # o
      <4>1. self'[q][n] = self[q][n]
        BY <3>3, <2>2, <1>1
      <4> QED BY <4>1, <2>2, <1>3, Basics DEF IInv, BuffersAbove
    <3> QED BY <3>1, <3>2, <3>3
  <2> QED BY <2>1, <2>2 DEF BuffersAbove
<1> QED BY <1>4, <1>5, <1>6, <1>7, <1>8 DEF IInv

(* A move hands a whole chain over; what the target owned has no owner any  *)
(* more.                                                                    *)
LEMMA MoveHolds ==
    ASSUME IInv, NEW o \in Objects, NEW p \in Objects,
           MoveConstruct(o, p) \/ MoveAssign(o, p)
    PROVE  IInv'
<1>0. /\ live' = live /\ under' = under /\ filling' = filling /\ closing' = closing
      /\ dtor' = dtor /\ heap' = heap /\ Move(o, p) /\ Depth[o] = Depth[p]
      /\ left[p] = Depth[p]
      /\ \A q \in Objects : left'[q] = IF q = o THEN Depth[o] ELSE left[q]
      /\ left' \in [Objects -> 0 .. MaxDepth]
  BY Basics DEF MoveConstruct, MoveAssign, InUse, SameType, objects, threads, TypeOK
<1>1. \A q \in Objects, n \in Levels :
          self'[q][n] = IF q = p THEN Null ELSE IF q = o THEN self[p][n] ELSE self[q][n]
  BY <1>0, Basics DEF Move, TypeOK, NoPointers
<1>2. TypeOK'
  <2>1. self' \in [Objects -> [Levels -> Streams \cup {Null}]]
    <3>1. self[p] \in [Levels -> Streams \cup {Null}] /\ NoPointers \in [Levels -> Streams \cup {Null}]
      BY Basics DEF TypeOK, NoPointers
    <3>2. [self EXCEPT ![o] = self[p]] \in [Objects -> [Levels -> Streams \cup {Null}]]
      BY <3>1, Basics DEF TypeOK
    <3>3. self' = [[self EXCEPT ![o] = self[p]] EXCEPT ![p] = NoPointers]
      BY <1>0 DEF Move
    <3> QED BY <3>1, <3>2, <3>3
  <2>2. \A q \in Objects : left'[q] <= Depth[q]
    BY <1>0, Basics
  <2>3. \A q \in Objects, n \in Levels : n > left'[q] => self'[q][n] = Null
    BY <1>0, <1>1, Basics
  <2>4. dtor' \subseteq {q \in Objects : left'[q] > 0}
    <3>1. \A q \in dtor : q \in Objects /\ left[q] > 0
      BY Basics DEF TypeOK
    <3> QED BY <3>1, <1>0, Basics
  <2> QED BY <2>1, <2>2, <2>3, <2>4, <1>0, Basics DEF TypeOK
<1>3. SoleOwner'
  <2>1. \A q \in Objects, n \in Levels : self'[q][n] # Null => self'[q][n] \in live'
    BY <1>0, <1>1, Basics
  <2>2. ASSUME NEW q \in Objects, NEW r \in Objects, NEW n \in Levels, NEW m \in Levels,
               self'[q][n] # Null, self'[r][m] = self'[q][n]
        PROVE  q = r /\ n = m
    BY <1>0, <1>1, <2>2, Basics
  <2> QED BY <2>1, <2>2 DEF SoleOwner
<1>4. InnersLive'
  BY <1>0 DEF IInv, InnersLive
<1>5. Chained'
  <2> SUFFICES ASSUME NEW u \in live, NEW q \in Objects, NEW n \in Levels,
                      under[u] # Null, under[u] = self'[q][n]
               PROVE  n + 1 \in Levels /\ self'[q][n + 1] = u
    BY <1>0 DEF Chained
  <2>1. q # p
    BY <1>1
  <2>2. \E r \in Objects : self'[q][n] = self[r][n] /\ \A m \in Levels : self'[q][m] = self[r][m]
    BY <2>1, <1>1
  <2> QED BY <2>2 DEF IInv, Chained
<1>6. BuffersAbove'
  <2>1. ASSUME NEW q \in Objects, NEW n \in Levels, n > 1, self'[q][n] # Null
        PROVE  under'[self'[q][n]] # Null
    <3>1. \E r \in Objects : self'[q][n] = self[r][n]
      BY <2>1, <1>1
    <3> QED BY <3>1, <2>1, <1>0 DEF IInv, BuffersAbove
  <2> QED BY <2>1, <1>0 DEF IInv, BuffersAbove
<1> QED BY <1>2, <1>3, <1>4, <1>5, <1>6 DEF IInv

(* A destructor works from the outside, so that no buffer is over the       *)
(* stream it destroys.                                                      *)
LEMMA DestroyPartHolds ==
    ASSUME IInv, NEW o \in Objects, DestroyPart(o)
    PROVE  IInv'
<1> DEFINE k == left[o]
           t == self[o][k]
<1>0. /\ k \in Levels /\ t # Null /\ t \in live /\ t \notin filling
      /\ live' = live \ {t} /\ filling' = filling /\ closing' = closing \ {t}
      /\ under' = [under EXCEPT ![t] = Null]
      /\ self' = [self EXCEPT ![o][k] = Null]
      /\ left' = [left EXCEPT ![o] = k - 1]
  BY Basics DEF DestroyPart, PartAt, NextPart, PartDone, Joined
<1>1. \A q \in Objects, n \in Levels :
          self'[q][n] = IF q = o /\ n = k THEN Null ELSE self[q][n]
  BY <1>0, Basics DEF TypeOK
<1>2. \A u \in Streams : under'[u] = IF u = t THEN Null ELSE under[u]
  BY <1>0, Basics DEF TypeOK
<1>3. \A q \in Objects : left'[q] = IF q = o THEN k - 1 ELSE left[q]
  BY <1>0, Basics DEF TypeOK
<1>4. \A u \in live : under[u] # t
  <2> SUFFICES ASSUME NEW u \in live, under[u] = t PROVE FALSE
    OBVIOUS
  <2>1. k + 1 \in Levels /\ self[o][k + 1] = u
    BY <1>0 DEF IInv, Chained
  <2> QED BY <2>1, <1>0, Basics
<1>5. TypeOK'
  <2>1. self' \in [Objects -> [Levels -> Streams \cup {Null}]]
    BY <1>0, Basics DEF TypeOK
  <2>2. left' \in [Objects -> 0 .. MaxDepth]
    BY <1>0, Basics DEF TypeOK, Levels
  <2>3. \A q \in Objects : left'[q] <= Depth[q]
    BY <1>0, <1>3, Basics
  <2>4. \A q \in Objects, n \in Levels : n > left'[q] => self'[q][n] = Null
    BY <1>0, <1>1, <1>3, Basics
  <2>5. dtor' \subseteq {q \in Objects : left'[q] > 0}
    <3>1. dtor' = IF k = 1 THEN dtor \ {o} ELSE dtor
      BY DEF DestroyPart, PartDone
    <3>2. k # 1 => k - 1 > 0
      BY <1>0, Basics
    <3> QED BY <3>1, <3>2, <1>3, Basics DEF TypeOK
  <2>6. heap' \in [Streams -> SUBSET (FileParts \cup HttpParts \cup BufferParts)]
    <3>1. PICK rest \in LeftByDestroy(o, k) : heap' = [heap EXCEPT ![t] = rest]
      BY DEF DestroyPart, PartAt, NextPart
    <3>2. rest \in SUBSET (FileParts \cup BufferParts)
      BY <1>0, LeftoversAreParts
    <3> QED BY <3>1, <3>2, Basics DEF TypeOK
  <2>7. under' \in [Streams -> Streams \cup {Null}]
    BY <1>0, Basics DEF TypeOK
  <2> QED BY <2>1, <2>2, <2>3, <2>4, <2>5, <2>6, <2>7, <1>0, Basics DEF TypeOK
<1>6. SoleOwner'
  <2>1. \A q \in Objects, n \in Levels : self'[q][n] # Null => self'[q][n] \in live'
    BY <1>0, <1>1, Basics
  <2>2. ASSUME NEW q \in Objects, NEW r \in Objects, NEW n \in Levels, NEW m \in Levels,
               self'[q][n] # Null, self'[r][m] = self'[q][n]
        PROVE  q = r /\ n = m
    BY <1>1, <2>2, Basics
  <2> QED BY <2>1, <2>2 DEF SoleOwner
<1>7. InnersLive'
  BY <1>0, <1>2, <1>4, Basics DEF IInv, InnersLive
<1>8. Chained'
  <2> SUFFICES ASSUME NEW u \in live, u # t, NEW q \in Objects, NEW n \in Levels,
                      under'[u] # Null, under'[u] = self'[q][n]
               PROVE  n + 1 \in Levels /\ self'[q][n + 1] = u
    BY <1>0 DEF Chained
  <2>1. under[u] # Null /\ under[u] = self[q][n]
    BY <1>1, <1>2, Basics
  <2>2. n + 1 \in Levels /\ self[q][n + 1] = u
    BY <2>1 DEF IInv, Chained
  <2> QED BY <2>2, <1>1
<1>9. BuffersAbove'
  <2>1. ASSUME NEW q \in Objects, NEW n \in Levels, n > 1, self'[q][n] # Null
        PROVE  under'[self'[q][n]] # Null
    <3>1. self'[q][n] = self[q][n] /\ self[q][n] # t /\ self[q][n] \in Streams
      BY <2>1, <1>0, <1>1, Basics
    <3> QED BY <3>1, <2>1, <1>2 DEF IInv, BuffersAbove
  <2>2. \A u \in filling : u # t /\ under'[u] # Null
    BY <1>0, <1>2, Basics DEF IInv, BuffersAbove
  <2> QED BY <2>1, <2>2, <1>0 DEF BuffersAbove
<1> QED BY <1>5, <1>6, <1>7, <1>8, <1>9 DEF IInv

(* A failing constructor leaves memory behind and nothing else.             *)
LEMMA FailuresHold ==
    ASSUME IInv, NEW o \in Objects, NEW p \in Objects, NEW s \in Streams,
           FopenFails(o, s) \/ BufferFails(o, p, s)
    PROVE  IInv'
<1>1. UNCHANGED <<self, left, dtor, live, under, filling, closing>>
  BY DEF FopenFails, BufferFails, objects, threads
<1>2. \E rest \in SUBSET (FileParts \cup HttpParts \cup BufferParts) :
          heap' = [heap EXCEPT ![s] = rest]
  BY LeftoversAreParts DEF FopenFails, BufferFails, FileParts
<1>3. TypeOK'
  BY <1>1, <1>2, Basics DEF TypeOK
<1> QED BY <1>1, <1>3, QuietHolds

(* The invariant is inductive.                                              *)
LEMMA StepHolds == IInv /\ [Next]_vars => IInv'
<1> SUFFICES ASSUME IInv, [Next]_vars PROVE IInv' OBVIOUS
<1>1. CASE UNCHANGED vars
  BY <1>1 DEF vars, objects, threads, IInv, TypeOK, SoleOwner, InnersLive, Chained, BuffersAbove
<1>2. ASSUME NEW o \in Objects, Throws(o) PROVE IInv'
  BY <1>2, <1>1 DEF Throws
<1>3. ASSUME NEW o \in Objects, StartReading(o) PROVE IInv'
  <2>1. Outer(o) \in live
    BY <1>3, Basics DEF StartReading, Outer
  <2>2. UNCHANGED <<self, left, dtor, live, under, closing, heap>> /\ filling' = filling \cup {Outer(o)}
    BY <1>3 DEF StartReading, objects
  <2>3. TypeOK'
    BY <2>1, <2>2, Basics DEF TypeOK
  <2> QED BY <1>3, <2>2, <2>3, QuietHolds
<1>4. ASSUME NEW o \in Objects, Destroy(o) PROVE IInv'
  <2>1. UNCHANGED <<self, left, live, under, filling, closing, heap>> /\ dtor' = dtor \cup {o} /\ left[o] > 0
    BY <1>4, Basics DEF Destroy, threads, InUse
  <2>2. TypeOK'
    BY <2>1, Basics DEF TypeOK
  <2> QED BY <2>1, <2>2, QuietHolds
<1>5. ASSUME NEW o \in Objects, CloseForJoin(o) PROVE IInv'
  <2>1. /\ UNCHANGED <<self, left, dtor, live, under, filling, heap>>
        /\ closing' = closing \cup {PartAt(o)} /\ PartAt(o) \in live
    BY <1>5, Basics DEF CloseForJoin, objects
  <2>2. TypeOK'
    BY <2>1, Basics DEF TypeOK
  <2> QED BY <2>1, <2>2, QuietHolds
<1>6. ASSUME NEW o \in Objects, SkipPart(o) PROVE IInv'
  <2> DEFINE k == left[o]
  <2>1. /\ UNCHANGED <<self, live, under, filling, closing, heap>>
        /\ o \in dtor /\ self[o][k] = Null /\ left' = [left EXCEPT ![o] = k - 1]
        /\ dtor' = IF k = 1 THEN dtor \ {o} ELSE dtor
    BY <1>6 DEF SkipPart, PartAt, NextPart, PartDone, threads
  <2>2. k \in Levels /\ k <= Depth[o]
    BY <2>1, Basics
  <2>3. \A q \in Objects : left'[q] = IF q = o THEN k - 1 ELSE left[q]
    BY <2>1, Basics DEF TypeOK
  <2>4. left' \in [Objects -> 0 .. MaxDepth]
    BY <2>1, <2>2, Basics DEF TypeOK, Levels
  <2>5. \A q \in Objects : left'[q] <= Depth[q]
    BY <2>2, <2>3, Basics
  <2>6. \A q \in Objects, n \in Levels : n > left'[q] => self[q][n] = Null
    BY <2>1, <2>2, <2>3, Basics
  <2>7. dtor' \subseteq {q \in Objects : left'[q] > 0}
    <3>1. k # 1 => k - 1 > 0
      BY <2>2, Basics
    <3> QED BY <3>1, <2>1, <2>3, Basics DEF TypeOK
  <2>8. TypeOK'
    BY <2>1, <2>4, <2>5, <2>6, <2>7, Basics DEF TypeOK
  <2> QED BY <2>1, <2>8, QuietHolds
<1>7. ASSUME NEW s \in Streams, FillerExits(s) PROVE IInv'
  <2>1. UNCHANGED <<self, left, dtor, live, under, closing, heap>> /\ filling' = filling \ {s}
    BY <1>7 DEF FillerExits, objects
  <2>2. TypeOK'
    BY <2>1, Basics DEF TypeOK
  <2> QED BY <2>1, <2>2, QuietHolds
<1> QED
  BY <1>1, <1>2, <1>3, <1>4, <1>5, <1>6, <1>7, NewLeafHolds, NewBufferHolds, MoveHolds,
     DestroyPartHolds, FailuresHold DEF Next

(* The invariant holds in every reachable state.                            *)
THEOREM Inductive == Spec => []IInv
BY InitHolds, StepHolds, PTL DEF Spec

(* Every pointer, part and thread is of its kind.                           *)
THEOREM TypeCorrect == Spec => []TypeOK
<1>1. IInv => TypeOK BY DEF IInv
<1> QED BY <1>1, Inductive, PTL

(* streamlikexx.cpp, buffer.hpp: a stream has one owner at most, however    *)
(* objects are wrapped, moved, assigned and destroyed.                      *)
THEOREM OneOwner == Spec => []SoleOwner
<1>1. IInv => SoleOwner BY DEF IInv
<1> QED BY <1>1, Inductive, PTL

(* buffer.hpp: no destructor destroys a stream that a filler still reads.   *)
THEOREM FillersAreSafe == Spec => []FillerReadsLive
<1>1. IInv => FillerReadsLive
  BY DEF IInv, FillerReadsLive, InnersLive, BuffersAbove, TypeOK
<1> QED BY <1>1, Inductive, PTL

(* file.c, http.c, buffer.c: what is left of streams that are gone.         *)
THEOREM LeaksKnown == Spec => []OnlyKnownLeaks
<1> DEFINE Known == {{}, {"FILE"}, {"cbuf_data", "cbuf_sync"}, {"eof_lock", "eof_cond"}, {"stream"}}
<1>1. Init => OnlyKnownLeaks
  BY DEF Init, OnlyKnownLeaks
<1>2. IInv /\ OnlyKnownLeaks /\ [Next]_vars => OnlyKnownLeaks'
  <2> SUFFICES ASSUME IInv, OnlyKnownLeaks, [Next]_vars PROVE OnlyKnownLeaks' OBVIOUS
  <2>1. \A s \in Streams \ live : heap[s] \in Known
    BY DEF OnlyKnownLeaks
  <2>2. ASSUME live \subseteq live', NEW s \in Streams, NEW rest, heap' = [heap EXCEPT ![s] = rest],
               s \in live' \/ rest \in Known
        PROVE  OnlyKnownLeaks'
    BY <2>1, <2>2, Basics DEF OnlyKnownLeaks, TypeOK
  <2>3. CASE heap' = heap /\ live' = live
    BY <2>3, <2>1 DEF OnlyKnownLeaks
  <2>4. CASE UNCHANGED vars
    BY <2>3, <2>4 DEF vars
  <2>5. ASSUME NEW o \in Objects,
               \/ Throws(o) \/ StartReading(o) \/ Destroy(o) \/ CloseForJoin(o) \/ SkipPart(o)
               \/ \E p \in Objects : MoveConstruct(o, p) \/ MoveAssign(o, p)
        PROVE  OnlyKnownLeaks'
    BY <2>3, <2>5 DEF Throws, StartReading, Destroy, CloseForJoin, SkipPart, MoveConstruct,
                      MoveAssign, vars, threads
  <2>6. ASSUME NEW s \in Streams, FillerExits(s) PROVE OnlyKnownLeaks'
    BY <2>3, <2>6 DEF FillerExits
  <2>7. ASSUME NEW o \in Objects, NEW p \in Objects, NEW s \in Streams,
               NewLeaf(o, s) \/ NewBuffer(o, p, s)
        PROVE  OnlyKnownLeaks'
    BY <2>2, <2>7 DEF NewLeaf, NewBuffer
  <2>8. ASSUME NEW o \in Objects, NEW s \in Streams, FopenFails(o, s) PROVE OnlyKnownLeaks'
    BY <2>2, <2>8 DEF FopenFails
  <2>9. ASSUME NEW o \in Objects, NEW p \in Objects, NEW s \in Streams, BufferFails(o, p, s)
        PROVE  OnlyKnownLeaks'
    <3>1. \E rest \in Known : heap' = [heap EXCEPT ![s] = rest]
      BY <2>9, FailLeaves DEF BufferFails
    <3> QED BY <3>1, <2>2, <2>9 DEF BufferFails
  <2>10. ASSUME NEW o \in Objects, DestroyPart(o) PROVE OnlyKnownLeaks'
    <3> DEFINE t == PartAt(o)
    <3>1. live' = live \ {t} /\ \E rest \in LeftByDestroy(o, NextPart(o)) : heap' = [heap EXCEPT ![t] = rest]
      BY <2>10 DEF DestroyPart
    <3>2. LeftByDestroy(o, NextPart(o)) \subseteq Known
      BY DEF LeftByDestroy
    <3> QED BY <3>1, <3>2, <2>1, Basics DEF OnlyKnownLeaks, TypeOK
  <2> QED BY <2>4, <2>5, <2>6, <2>7, <2>8, <2>9, <2>10 DEF Next
<1> QED BY <1>1, <1>2, Inductive, PTL DEF Spec

(* streamlikexx.cpp: a stream that is still there loses its owner only when *)
(* another is assigned over it.                                             *)
THEOREM LossesAreAssignments == Spec => LostByAssignmentOnly
<1> DEFINE Kept == \A s \in (Owned \cap live') \ Owned' :
                      left' = left /\ \E o \in Objects, n \in Levels : self[o][n] = s /\ InUse(o)
<1>1. IInv /\ [Next]_vars => [Kept]_vars
  <2> SUFFICES ASSUME IInv, Next PROVE Kept
    OBVIOUS
  <2>1. CASE self' = self
    BY <2>1 DEF Owned
  <2>2. ASSUME NEW o \in Objects,
               \/ Throws(o) \/ StartReading(o) \/ Destroy(o) \/ CloseForJoin(o) \/ SkipPart(o)
               \/ \E s \in Streams : FopenFails(o, s)
               \/ \E p \in Objects, s \in Streams : BufferFails(o, p, s)
        PROVE  Kept
    BY <2>1, <2>2 DEF Throws, StartReading, Destroy, CloseForJoin, SkipPart, FopenFails,
                      BufferFails, vars, objects
  <2>3. ASSUME NEW s \in Streams, FillerExits(s) PROVE Kept
    BY <2>1, <2>3 DEF FillerExits, objects
  <2>4. ASSUME NEW o \in Objects, NEW s \in Streams, NewLeaf(o, s) PROVE Kept
    <3>1. \A n \in Levels : self[o][n] = Null
      BY <2>4, Basics DEF NewLeaf
    <3>2. \A q \in Objects, n \in Levels : q # o => self'[q][n] = self[q][n]
      BY <2>4, Basics DEF NewLeaf, TypeOK
    <3> QED BY <2>4, <3>1, <3>2, Basics DEF Owned, NewLeaf
  <2>5. ASSUME NEW o \in Objects, NEW p \in Objects, NEW s \in Streams, NewBuffer(o, p, s)
        PROVE  Kept
    <3>1. /\ \A n \in Levels : self[o][n] = Null
          /\ \A n \in Levels : n = Depth[o] => self[p][n] = Null
          /\ live' = live \cup {s}
      BY <2>5, Basics DEF NewBuffer, InUse, Wraps
    <3>2. \A q \in Objects, n \in Levels :
              self'[q][n] = IF q = o THEN (IF n = Depth[o] THEN s ELSE self[p][n])
                            ELSE IF q = p THEN Null ELSE self[q][n]
      BY <2>5, Basics DEF NewBuffer, TakeMember, TypeOK, NoPointers, InUse, Wraps
    <3>3. \A q \in Objects, n \in Levels : self[q][n] # Null => self[q][n] \in Owned'
      BY <3>1, <3>2 DEF Owned
    <3>4. \A u \in live' : u # Null
      BY <3>1, Basics
    <3> QED BY <3>3, <3>4 DEF Owned
  <2>6. ASSUME NEW o \in Objects, NEW p \in Objects, MoveConstruct(o, p) PROVE Kept
    <3>1. /\ \A n \in Levels : self[o][n] = Null
          /\ live' = live /\ o # p
      BY <2>6, Basics DEF MoveConstruct, InUse
    <3>2. \A q \in Objects, n \in Levels :
              self'[q][n] = IF q = o THEN self[p][n] ELSE IF q = p THEN Null ELSE self[q][n]
      BY <2>6, <3>1, Basics DEF MoveConstruct, Move, TypeOK, NoPointers
    <3>3. \A q \in Objects, n \in Levels : self[q][n] # Null => self[q][n] \in Owned'
      BY <3>1, <3>2 DEF Owned
    <3> QED BY <3>1, <3>3, Basics DEF Owned
  <2>7. ASSUME NEW o \in Objects, NEW p \in Objects, MoveAssign(o, p) PROVE Kept
    <3>1. InUse(o) /\ live' = live /\ left' = left
      BY <2>7 DEF MoveAssign
    <3>2. \A q \in Objects, n \in Levels :
              self'[q][n] = IF q = p THEN Null ELSE IF q = o THEN self[p][n] ELSE self[q][n]
      BY <2>7, Basics DEF MoveAssign, Move, TypeOK, NoPointers
    <3>3. \A q \in Objects, n \in Levels : q # o => self[q][n] \in Owned' \cup {Null}
      BY <3>2 DEF Owned
    <3> QED BY <3>1, <3>3, Basics DEF Owned
  <2>8. ASSUME NEW o \in Objects, DestroyPart(o) PROVE Kept
    <3>1. left[o] \in Levels /\ PartAt(o) = self[o][left[o]] /\ live' = live \ {PartAt(o)}
      BY <2>8, Basics DEF DestroyPart, PartAt, NextPart
    <3>2. \A q \in Objects, n \in Levels :
              self'[q][n] = IF q = o /\ n = left[o] THEN Null ELSE self[q][n]
      BY <2>8, <3>1, Basics DEF DestroyPart, NextPart, TypeOK
    <3>3. \A q \in Objects, n \in Levels : self[q][n] # PartAt(o) => self[q][n] \in Owned'
      BY <3>1, <3>2 DEF Owned
    <3> QED BY <3>1, <3>3 DEF Owned
  <2> QED BY <2>2, <2>3, <2>4, <2>5, <2>6, <2>7, <2>8 DEF Next
<1> QED BY <1>1, Inductive, PTL DEF Spec, LostByAssignmentOnly

=============================================================================
