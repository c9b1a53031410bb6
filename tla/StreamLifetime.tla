--------------------------- MODULE StreamLifetime ---------------------------
(***************************************************************************)
(* Who owns a stream, and how long it lives: the create and destroy         *)
(* functions of file.c, http.c and buffer.c, and the C++ classes that own   *)
(* what they create, hand it over by moves and destroy it.                  *)
(*                                                                         *)
(* A StreamlikeBuffer<T> is an object of class T's depth plus one: it holds *)
(* a pointer of its own and, as its member mInnerStream, an object of class *)
(* T.  self[o][n] is the pointer at depth n of object o; depth 1 is a       *)
(* StreamlikeFile or a StreamlikeHttp, Depth[o] the outermost buffer.       *)
(*                                                                         *)
(* An operator whose name starts with Bug is a mutated form of the          *)
(* definition that follows it; no specification uses it.                    *)
(***************************************************************************)
EXTENDS Integers, Sequences

CONSTANTS Objects,      \* places for C++ objects
          Leaf,         \* Leaf[o] is "file" or "http": the innermost class
          Depth,        \* Depth[o] - 1 buffers around it
          MaxDepth,
          Streams,      \* addresses of streamlike_t
          Null

Levels == 1 .. MaxDepth

ASSUME ParameterAssumption ==
    /\ MaxDepth \in Nat \ {0} /\ Depth \in [Objects -> Levels]
    /\ Leaf \in [Objects -> {"file", "http"}]
    /\ Null \notin Streams

VARIABLES
    self,       \* the pointers of each object
    left,       \* how many of its parts exist: 0 where there is no object
    dtor,       \* the objects whose destructor runs
    live,       \* the streams created and not yet destroyed
    under,      \* the inner_stream of a buffer
    filling,    \* the buffers whose filler thread runs
    closing,    \* those whose destruction waits for it
    heap        \* the parts allocated for a stream and not yet freed

objects == <<self, left, dtor>>
threads == <<filling, closing>>
vars    == <<objects, live, under, threads, heap>>

NoPointers == [n \in Levels |-> Null]

InUse(o)       == left[o] = Depth[o] /\ o \notin dtor
SameType(o, p) == Leaf[o] = Leaf[p] /\ Depth[o] = Depth[p]
Fresh(s)       == s \notin live /\ heap[s] = {}

Init ==
    /\ self = [o \in Objects |-> NoPointers]
    /\ left = [o \in Objects |-> 0]
    /\ dtor = {} /\ live = {} /\ filling = {} /\ closing = {}
    /\ under = [s \in Streams |-> Null]
    /\ heap = [s \in Streams |-> {}]

-----------------------------------------------------------------------------
(* What a stream consists of, in the order it is allocated.                 *)

FileParts == {"FILE", "stream"}
HttpParts == {"stream", "http", "curl", "curlm"}

Circbuf == {"cbuf", "cbuf_data", "cbuf_sync"}

(* sl_buffer_create2; circbuf_init gives back what it took when it fails.   *)
BufferSteps == <<{"context"}, Circbuf, {"stream"}, {"eof_lock"}, {"eof_cond"},
                 {"seek_lock"}, {"seek_cond"}>>

BufferParts == UNION {BufferSteps[i] : i \in 1 .. Len(BufferSteps)}

(* The label fail: free(cbuf) is not circbuf_destroy(cbuf).                 *)
BugFreedByFail == BufferParts \ (Circbuf \cup {"context"})
FreedByFail    == BufferParts \ {"cbuf_data", "cbuf_sync"}

LeftByFail(i) == (UNION {BufferSteps[j] : j \in 1 .. i}) \ FreedByFail

(* What the destroy functions leave: eof_lock and eof_cond are not fields   *)
(* of sl_buffer_t; a failing fclose has released its FILE all the same.     *)
(* sl_buffer_destroy also returns early, and leaves more, if pthread_join   *)
(* or the destruction of seek_lock or seek_cond fails.  That is left out:   *)
(* the thread is joined once and by another thread, and the filler that     *)
(* used the lock and the condition is gone, so that none of them can fail.  *)
LeftByDestroy(o, n) ==
    IF n > 1 THEN {{"eof_lock", "eof_cond"}}
    ELSE IF Leaf[o] = "file" THEN {{}, {"stream"}} ELSE {{}}

-----------------------------------------------------------------------------
(* Constructors.                                                            *)

(* StreamlikeFile, StreamlikeHttp                                           *)
NewLeaf(o, s) ==
    /\ left[o] = 0 /\ Depth[o] = 1 /\ Fresh(s)
    /\ self' = [self EXCEPT ![o][1] = s]
    /\ left' = [left EXCEPT ![o] = 1]
    /\ live' = live \cup {s}
    /\ heap' = [heap EXCEPT ![s] = IF Leaf[o] = "file" THEN FileParts ELSE HttpParts]
    /\ UNCHANGED <<dtor, under, threads>>

(* sl_fopen has opened the file, sl_fopen2 has no memory.                   *)
FopenFails(o, s) ==
    /\ left[o] = 0 /\ Depth[o] = 1 /\ Leaf[o] = "file" /\ Fresh(s)
    /\ heap' = [heap EXCEPT ![s] = {"FILE"}]
    /\ UNCHANGED <<objects, live, under, threads>>

(* p is the argument of StreamlikeBuffer<T>::StreamlikeBuffer(T&&).         *)
Wraps(o, p) == Leaf[o] = Leaf[p] /\ Depth[o] = Depth[p] + 1
Outer(p)    == self[p][Depth[p]]

BugTakeMember(o, p, s) ==
    self' = [self EXCEPT ![o] = [self[p] EXCEPT ![Depth[o]] = s]]

BugTakeOuterOnly(o, p, s) ==
    self' = [self EXCEPT ![o][Depth[o]] = s, ![p] = NoPointers]

(* Streamlike(createSelf(getSelf(inner))), mInnerStream(forward(inner))     *)
TakeMember(o, p, s) ==
    self' = [self EXCEPT ![o] = [self[p] EXCEPT ![Depth[o]] = s], ![p] = NoPointers]

NewBuffer(o, p, s) ==
    /\ left[o] = 0 /\ InUse(p) /\ Wraps(o, p) /\ Outer(p) # Null /\ Fresh(s)
    /\ TakeMember(o, p, s)
    /\ left' = [left EXCEPT ![o] = Depth[o]]
    /\ live' = live \cup {s}
    /\ under' = [under EXCEPT ![s] = Outer(p)]
    /\ heap' = [heap EXCEPT ![s] = BufferParts]
    /\ UNCHANGED <<dtor, threads>>

(* The constructor throws and p keeps its stream.                           *)
BufferFails(o, p, s) ==
    /\ left[o] = 0 /\ InUse(p) /\ Wraps(o, p) /\ Outer(p) # Null /\ Fresh(s)
    /\ \E i \in 0 .. Len(BufferSteps) - 1 :
         heap' = [heap EXCEPT ![s] = LeftByFail(i)]
    /\ UNCHANGED <<objects, live, under, threads>>

(* A constructor that throws before anything is taken, as it does over a    *)
(* stream that has been moved from.                                         *)
Throws(o) == left[o] = 0 /\ UNCHANGED vars

-----------------------------------------------------------------------------
(* Moves, of a whole chain of buffers at once.                              *)

BugMove(o, p) == self' = [self EXCEPT ![o] = self[p]]
Move(o, p)    == self' = [self EXCEPT ![o] = self[p], ![p] = NoPointers]

MoveConstruct(o, p) ==
    /\ left[o] = 0 /\ InUse(p) /\ SameType(o, p)
    /\ Move(o, p)
    /\ left' = [left EXCEPT ![o] = Depth[o]]
    /\ UNCHANGED <<dtor, live, under, threads, heap>>

(* operator= destroys nothing; o and p may be the same object.              *)
MoveAssign(o, p) ==
    /\ InUse(o) /\ InUse(p) /\ SameType(o, p)
    /\ Move(o, p)
    /\ UNCHANGED <<left, dtor, live, under, threads, heap>>

-----------------------------------------------------------------------------
(* The filler thread, and destructors.                                      *)

(* startReadingThread throws if there is no stream or already a filler.     *)
StartReading(o) ==
    /\ InUse(o) /\ Depth[o] > 1
    /\ Outer(o) # Null /\ Outer(o) \notin filling
    /\ filling' = filling \cup {Outer(o)}
    /\ UNCHANGED <<objects, live, under, closing, heap>>

Destroy(o) ==
    /\ InUse(o)
    /\ dtor' = dtor \cup {o}
    /\ UNCHANGED <<self, left, live, under, threads, heap>>

(* ~StreamlikeBuffer destroys its stream, then mInnerStream.                *)
BugNextPart(o) == Depth[o] + 1 - left[o]
NextPart(o)    == left[o]

PartAt(o) == self[o][NextPart(o)]

(* sl_buffer_destroy tells the filler to leave, and waits.                  *)
CloseForJoin(o) ==
    /\ o \in dtor /\ PartAt(o) \in filling
    /\ closing' = closing \cup {PartAt(o)}
    /\ UNCHANGED <<objects, live, under, filling, heap>>

FillerExits(s) ==
    /\ s \in filling \cap closing
    /\ filling' = filling \ {s}
    /\ UNCHANGED <<objects, live, under, closing, heap>>

PartDone(o) ==
    /\ left' = [left EXCEPT ![o] = left[o] - 1]
    /\ dtor' = IF left[o] = 1 THEN dtor \ {o} ELSE dtor

(* A part that has been moved from has nothing to destroy.                  *)
SkipPart(o) ==
    /\ o \in dtor /\ PartAt(o) = Null
    /\ PartDone(o)
    /\ UNCHANGED <<self, live, under, threads, heap>>

BugJoined(s) == TRUE
Joined(s)    == s \notin filling

DestroyPart(o) ==
    /\ o \in dtor /\ PartAt(o) # Null /\ Joined(PartAt(o))
    /\ PartDone(o)
    /\ self' = [self EXCEPT ![o][NextPart(o)] = Null]
    /\ live' = live \ {PartAt(o)}
    /\ under' = [under EXCEPT ![PartAt(o)] = Null]
    /\ closing' = closing \ {PartAt(o)}
    /\ \E rest \in LeftByDestroy(o, NextPart(o)) :
         heap' = [heap EXCEPT ![PartAt(o)] = rest]
    /\ UNCHANGED filling

-----------------------------------------------------------------------------
Next ==
    \/ \E o \in Objects :
         \/ Throws(o) \/ StartReading(o)
         \/ Destroy(o) \/ CloseForJoin(o) \/ SkipPart(o) \/ DestroyPart(o)
         \/ \E s \in Streams : NewLeaf(o, s) \/ FopenFails(o, s)
         \/ \E p \in Objects : MoveConstruct(o, p) \/ MoveAssign(o, p)
         \/ \E p \in Objects, s \in Streams : NewBuffer(o, p, s) \/ BufferFails(o, p, s)
    \/ \E s \in Streams : FillerExits(s)

Spec == Init /\ [][Next]_vars

-----------------------------------------------------------------------------
(* Pointers, parts and threads are of the kind they should be, and a part   *)
(* that does not exist points nowhere.                                      *)
TypeOK ==
    /\ self \in [Objects -> [Levels -> Streams \cup {Null}]]
    /\ left \in [Objects -> 0 .. MaxDepth]
    /\ \A o \in Objects : left[o] <= Depth[o]
    /\ \A o \in Objects, n \in Levels : n > left[o] => self[o][n] = Null
    /\ dtor \subseteq {o \in Objects : left[o] > 0}
    /\ live \subseteq Streams
    /\ under \in [Streams -> Streams \cup {Null}]
    /\ filling \subseteq live /\ closing \subseteq live
    /\ heap \in [Streams -> SUBSET (FileParts \cup HttpParts \cup BufferParts)]

(* No two objects own a stream, and none owns one that is destroyed: no     *)
(* destructor runs twice for a stream, whatever was moved where.            *)
SoleOwner ==
    \A o, p \in Objects : \A n, m \in Levels :
        self[o][n] # Null =>
            /\ self[o][n] \in live
            /\ self[p][m] = self[o][n] => o = p /\ n = m

(* A filler thread reads a stream that exists, also the filler of a buffer  *)
(* that nobody can reach any more.                                          *)
FillerReadsLive == \A s \in filling : under[s] \in live

Owned == {self[o][n] : o \in Objects, n \in Levels}

(* A stream gets lost only by an assignment to its owner, a step in which   *)
(* no object comes or goes: moves into new objects, wrapping in a buffer,   *)
(* failing constructors and destructors lose none.                          *)
LostByAssignmentOnly ==
    [][\A s \in (Owned \cap live') \ Owned' :
          left' = left /\ \E o \in Objects, n \in Levels : self[o][n] = s /\ InUse(o)]_vars

(* What stays allocated without a stream is exactly: the FILE of a failed   *)
(* sl_fopen, the inside of the circular buffer of a failed                  *)
(* sl_buffer_create2, the two unused eof objects of every destroyed buffer, *)
(* and the streamlike_t whose fclose failed.                                *)
OnlyKnownLeaks ==
    \A s \in Streams \ live :
        heap[s] \in {{}, {"FILE"}, {"cbuf_data", "cbuf_sync"}, {"eof_lock", "eof_cond"},
                     {"stream"}}

=============================================================================
