# Formal models of libstreamlike

TLA+ specifications of the circular buffer, the buffered stream and the HTTP stream of
libstreamlike, of a buffer over an HTTP stream, and of the creation, ownership and
destruction of streams; TLC configurations that check them on small instances; and proofs,
checked by TLAPS, of every safety property for every instance, up to the refinement of a
seekable stream by a buffer over HTTP. Paths below are relative to the repository
(`src/streamlike/...` in it).

## 1. The system

| component | state it keeps | operations | interacts with |
|---|---|---|---|
| circular buffer, `util/circbuf.c` | storage, `roff`, `woff`, `rdone`, `wdone`, two lock/condition pairs | read, read_some, input_some, dispose_some, close_read (consumer); write, write2, write_some, write_some2, close_write (producer); reset | one producer thread, one consumer thread; `write2` calls back into the producer's source |
| buffered stream, `buffer.c` | filler thread handle, `filler_started`, `pos`, `eof`, the seek request (`seek_requested`, `seek_off`, `seek_result`), `seek_lock`/`seek_cond` | create, threaded and blocking fill, read, seek, tell, eof, destroy | the filler thread reads the inner stream into the circular buffer; the user's thread reads from it and hands seeks to the filler |
| HTTP stream, `http.c` | curl easy/multi handles, state READY/WORKING/PAUSED/ABORT_REQUESTED/ABORTED, offset, length, leftover bytes of the last callback | open, read, seek, tell, eof, destroy, library init/cleanup | libcurl drives its write and header callbacks |
| file stream, `file.c` | a `FILE*` | open, close; one stdio call per callback | stdio |
| stream interface, `streamlike.h` | table of callbacks | inline wrappers | all streams |
| C++ wrappers, `*xx.cpp`, `*.hpp` | an owned `streamlike_t`; a `StreamlikeBuffer<T>` also its inner `T` | constructors, moves, destructors, startReadingThread | the C streams |
| logging, test helpers, test server | - | - | - |

What is hard, and what has to hold:

* **Circular buffer.** The two threads copy into and out of the storage without a lock
  and meet only through offsets. No slot may be copied by both, no byte lost, repeated
  or reordered, a full buffer not mistaken for an empty one; a thread that goes to sleep
  must not miss the signal it needs; blocking calls must return.
* **Buffered stream.** A seek must catch a filler that may be anywhere: not started,
  waiting for space, inside the inner stream, sleeping at end of file. The buffered bytes
  must always be the ones between the user's position and the inner stream's; only one
  thread may use the inner stream; the buffer may be reset only when nobody uses it;
  destruction must not free what the filler uses; everything must end.
* **HTTP stream.** The state machine must survive pauses, aborts, seeks after aborts,
  transfers that end without a callback, and must deliver the bytes at its offset.
* **Buffer over HTTP.** The transfer is paused for as long as the buffer is full, and the
  user reads, seeks and destroys meanwhile: the pause must be lifted or aborted, and the
  buffer must see a read or a seek of the inner stream as one step.
* **C++ wrappers.** A stream must have one owner across wrapping and moves, and a filler
  must be joined before the stream it reads is destroyed; a creation that fails half way
  must give back what it took.

`PROJECT.json` lists each hazard at its line with the properties that watch it.

## 2. The modules

| module | what it is |
|---|---|
| `CircBufOps` | the offset arithmetic of `circbuf.c` as operators: `read_some_`, `write_some_`, `input_some_`, `dispose_some_`, `circbuf_get_length`, the full test |
| `CircBuf` | the buffer with its two threads: one action per access to a variable of the other thread |
| `ByteQueue` | what the buffer promises: a bounded FIFO that keeps the bytes it shows to the consumer |
| `CircBufProofs` | the theorems about `CircBuf` |
| `SlBuffer` | `buffer.c`: filler thread, reads, seeks, end of file, destruction |
| `SlBufferProofs` | the theorems about `SlBuffer` |
| `SeekableStream` | what `streamlike.h` promises the user of a readable, seekable stream |
| `SlHttp` | `http.c`: reads, seeks and the cancelling of transfers, with libcurl and the server as the environment |
| `SlHttpProofs` | the theorems about `SlHttp` |
| `SlHttpRefinement` | the theorem that `SlHttp` is a `SeekableStream` when its server is obliging |
| `BufferedHttp` | `SlBuffer` with `SlHttp` as its inner stream |
| `BufferedHttpProofs` | the theorems about `BufferedHttp`, on top of those about its two parts |
| `StreamLifetime` | who owns a stream and how long it lives: create, destroy, the C++ classes |
| `StreamLifetimeProofs` | the theorems about `StreamLifetime` |
| `MCCircBuf`, `MCSlBuffer`, `MCSlHttp`, `MCBufferedHttp`, `MCStreamLifetime` | the sets used by the configurations of the same name |

Operators called `Bug...` are plausible mistakes, kept next to the definition they
mutate; with one of them in its place TLC refutes the property that watches it. No
specification uses them.

### CircBuf

Variables `data roff woff rdone wdone` are the fields of `circbuf_s`. `cpc` and `ppc` say
where each thread is in its call, `cop`/`pop` which call it is, `cleft`/`pleft` how many
bytes of it remain, `coff`/`poff` are the local copies of the offset it will publish.
`view` is the number of bytes from `roff` on that the consumer may be reading (its
`memcpy`, or the pointer `circbuf_input_some` gave it), `pn` the number from `woff` on that
the producer may be writing. A byte is named by its position in the producer's stream;
`rtot` and `wtot` count the bytes released and published, for the properties.

A critical section with one access is one action, guarded by the lock being free; the
wait loops keep the lock between the test and the sleep (`pc = "wait"`). Signals move a
sleeping peer back to its test, and a thread may wake spuriously. The `volatile` loads and
stores are single, sequentially consistent accesses: they are aligned machine words, every
store of one happens inside a critical section, and the code is read for the x86-64
builds it targets. The consumer's copy may happen at any moment between freezing `woff`
and publishing, because `Contents` and `ImplementsQueue` say that the bytes do not change
in that time; the producer's copy is one step between its load and its publication.

`circbuf_reset` is legal only while neither client is in a call (circbuf.h), which is its
guard here; `SlBuffer` shows that `buffer.c` respects it (`ResetIsAlone`). After closing
its own end a producer writes no more; a consumer may go on reading.

### SlBuffer

The circular buffer appears as the queue that `CircBuf` implements (`ring`), with
`rdone`, `wdone` and the tests of them that `circbuf_read` and `circbuf_write2` make
without a lock; a wait for bytes or space is a guard, because `CircBuf` shows that no
wakeup is lost. `fpc` walks through `fill_buffer` and its `circbuf_write2`, `cpc` through
the user's read, seek or destroy. `seek_lock` is held exactly in the steps excluded by
`SeekLockFree`; the sections that the other thread cannot look into are single actions.
The inner stream is a file of `FileLen` bytes whose byte at offset o is o; constants allow
it to read short and to fail a seek. `BlockingFill` lets another thread of the user's run
the filler at any time, before or during a read or a seek, and again after it has returned.
Without it a user that reads before filling has begun would wait for itself; that call is
left out. A second filler beside a running one is left out too: the circular buffer has one
producer.

`write_some2_` (`circbuf.c:341-372`) calls its callback, and with it the inner stream, once or
twice for one request: if the free slots reach the end of the storage and the consumer is not
at its beginning (`TwoRuns`), first for the slots up to the end (`FirstRun`, at `write_first`)
and then, unless that came short, for those at the beginning (at `write_fill`). The second call
is for 0 bytes when the first took all that was asked for (line 369) or only one slot is left
in front (line 372); the inner stream is called then too. `woff` is there to tell these cases,
`fn` is what the calls still to be made ask for, and `fgot` has the bytes of the first call,
which nobody sees before the offset is published. The publication (`circbuf.c:391-396`) is one
step with the last call: between the two the filler touches nothing that the user's thread
reads. In `CircBuf` both calls and what they may bring are one step, `WriteSome2Fill`, since
there the callback touches nothing but the slots that the producer owns.

### SlHttp

`http_off http_len http_status http_range_allowed curlbuf_off state` are fields of
`sl_http_s`; `outbuf` holds the bytes copied to the caller so far. `phase head xoff held`
are the transfer: whether its handle has just been added, delivers or is done, the header
lines to come (in any order), the offset of the next chunk, and the chunk libcurl holds
because the callback paused. `pc` walks through a read (`unpause`, `read`) or a seek
(`cancel_unpause`, `cancel`, `restart`); `returned` is idle after a read. `WriteCb` is the
write callback, `StatusLine` and `HeaderLine` the header callback. `ranged` says whether the
server at hand honours ranges and does not change.

Of libcurl the model assumes what the code relies on: a paused chunk is offered again whole
and synchronously by `curl_easy_pause`; a callback that does not return the size it was given
ends the transfer; a finished handle stays so until it is added again; and the removal of the
handle inside the write callback (`http.c:97`) is refused, as libcurl does since 7.59 (in the
paused case the seek removes and adds the handle right afterwards, so that the refusal makes no
difference there). `Faults` says what may go wrong: the connection breaks, a call of `curl_multi` fails, the server
answers with a page of its own (status 500 stands for every status with a body that
is not the resource; its bytes are all `FileLen`, which no byte of the resource is), or sends a
`Content-Range` without a length (no `/`, or nothing after it), which the code skips. A seek to
an offset below 0 returns -1 and touches nothing (`SeekRefused`).

### BufferedHttp

One instance of each module, `Http` with all lengths the filler may ask for, 0 included, and
`Buffer` with `Http!ReadFrom` as the position of its inner stream. A call of the inner stream
is the step of `buffer.c` that enters it together with `CallRead` or `CallSeek` of `http.c`,
the steps of `http.c` and libcurl while the thread stays at `write_first`, `write_fill` or
`inner_seek`, and the step that leaves it. A request of the filler is up to two such reads,
one after the other (`WriteLoad` enters the first, `WriteRest` the second). The other thread
goes on meanwhile. `HttpFault` (a failing call of `curl_multi`) is outside the fairness.

`ImplementsBuffer` says that this is a behaviour of `SlBuffer`, in which the inner stream
reads or seeks in one step and delivers the bytes at its position: what the runs of
`SlBuffer` show then holds for a buffer over HTTP. The refinement needs a server with
ranges that sends no error page, because otherwise the bytes are not those of the resource.

### StreamLifetime

`self[o][n]` is the `self` pointer of object o at depth n: 1 for the file or HTTP stream in
the middle, `Depth[o]` for the outermost buffer. `left[o]` counts the parts of o that exist;
a destructor takes them away from the outside, which is the order in which
`~StreamlikeBuffer` and then the destructor of `mInnerStream` run. Moves take the whole
chain, as the defaulted members do, and `MoveAssign(o, o)` is legal. `under` is the
`inner_stream` of a buffer; `filling` has the buffers with a filler thread; `CloseForJoin`,
`FillerExits` and `DestroyPart` are the three moments of `sl_buffer_destroy` that matter.
`heap` has what is allocated for a stream, in the order of `sl_buffer_create2`
(`BufferSteps`), which may fail before any of them. `sl_buffer_destroy` always goes to its end
here (section 6).

## 3. The runs

| run | shows | bounds |
|---|---|---|
| `circbuf` | type, occupancy, order of the bytes, absence of races, in-flight transfers, no missed wakeup, refinement of `ByteQueue`; a blocked call returns | 4 slots (3 bytes), lengths 2 and 4 (below and above what fits; partial transfers make the others), 6 bytes offered: the offsets go round the storage more than once, also in the middle of a read, and every branch of the copies is taken |
| `buffer` | order, exclusive use of the inner stream, no missed request, reset, refinement of `SeekableStream`, with a threaded filler or one run by another thread at any time, and an inner stream that reads short or fails to seek | file of 5 bytes, buffer of 3, step of 4 (larger than the buffer), lengths 1, 2, 4, offsets 0, 2 and 6 (past the end): requests that wrap and that do not, with a second read of 0, 1 or 2 bytes, and first reads that come short |
| `buffer_live` | end of file is earned, destroy frees nothing in use, reads, seeks and destruction end | the same, threaded filler, no faults |
| `http` | bytes, offsets, pauses, end of file and seekability are right, reads and seeks end, over error pages, broken connections, failing calls, `Content-Range` without a length and servers with and without ranges | resource of 5 bytes, chunks of 1 to 3, pages of 2, reads of 0, 1, 3 and 4, offsets 0, 2 and 6 (past the end) |
| `http_stream` | refinement of `SeekableStream`; a caller that reads until `sl_eof` gets there | the same without faults, offsets 0, 2, 4, a server with ranges |
| `buffered_http` | a buffer over HTTP implements `SlBuffer`; its reads, seeks and destruction end; the inner stream is closed only when no thread will use it | resource of 4 bytes, chunks of 1 to 3, buffer of 2, step of 4, reads of 1 and 4, offsets 1 and 6 (past the end), broken connections and failing calls: transfers are paused inside a chunk, aborted while paused, and end early |
| `lifetime` | one owner, no filler over a destroyed stream, streams lost by assignment only, nothing left behind but what is known | two leaf objects, two buffers over such a leaf (each can be moved into the other) and a buffer over a buffer; four streams |
| `buffer_short_read` | **violation**: a read returns short, with end of file set, before the end of the data | as `buffer`, no faults |
| `buffer_failed_seek` | **violation**: after a failed seek the next one waits for ever | the same, seeks may fail |
| `buffer_blocking_fill` | **violation**: destroy frees what a blocking filler uses | the same, with `BlockingFill` |
| `http_stale_abort` | **violation**: a read after two seeks delivers nothing | as `http`, no faults, a server with ranges |
| `http_no_length` | **violation**: end of file at once | the same, `LengthKnown = FALSE` |

The only bound in a guard is `MaxBytes` (bytes offered to `CircBuf`); `SlBuffer` and `SlHttp`
have finitely many states without one (a transfer delivers at most the whole resource, and
a seek sets the offset anew). Deadlock is checked in every run.

The five violations are behaviours of the code:

1. `circbuf.c:176` tests the offsets and then `wdone` without the lock. If the producer
   publishes its last bytes and closes between the two loads, the read returns short.
   `sl_buffer_read_cb` takes that for end of file (`buffer.c:430`). The next read does
   deliver the bytes.
2. When the inner seek fails (`buffer.c:79`) the buffer stays closed for reading, so the
   filler writes nothing and ends. The next seek has nobody to answer it.
3. `sl_buffer_blocking_fill_buffer` leaves `filler` NULL, so that `sl_buffer_destroy`
   neither closes the buffer nor waits.
4. `sl_cancel_transfer_` sets ABORT_REQUESTED, and only a write callback clears it. After a
   read, a seek past the end and a seek back, the transfer cancelled by the second seek ends
   with 416 before any body, and the request to abort hits the next transfer instead: its
   read returns 0 bytes, and so do all later ones until another seek.
5. A `Content-Range` that ends in `/*` sets the length to 0 (`http.c:279`), and end of file is
   reported from then on.

Met on the way, without a run: a seek past the end of an HTTP stream whose length is not known
yet ends with 416, which tells no length, so that reads return 0 with neither end of file nor
an error (`sl_http_error_cb` reports no error of any kind, so a broken connection looks the
same), where `streamlike.h:103` says that a short read means one of them. `sl_buffer_create2`
allocates `eof_lock` and `eof_cond`, which no field holds: each buffer leaves them behind, and
a failed creation leaves the inside of its circular buffer (`OnlyKnownLeaks` names every such
case). Move assignment destroys nothing, so that the stream that was owned is lost, with its
filler if it has one. `circbuf.h:112` describes `circbuf_read_some` as stopping at the end of
the storage, where the code goes on from its beginning. A seek on a server that ignores ranges
returns 0 and the next read delivers other bytes; `BytesAtOffset` shows that `sl_seekable`
denies seeking by then (the code has a TODO to test it).

## 4. Fairness

`CircBuf`: each thread takes its enabled steps (the operating system schedules both), and does
not wake spuriously for ever. A blocked call also needs its peer, which is an assumption about
the client: the consumer keeps consuming or closes; the producer closes or, while reading is
open, keeps supplying bytes. `SlBuffer` needs only that the two threads run; the user may stop
calling at any time. `SlHttp` (`FairSpec`): the caller's thread runs and the server answers or
the connection breaks; failing `curl_multi` calls are never forced. `BufferedHttp`: both
threads run, also inside the inner stream, the server answers or the connection breaks, and
spurious wakeups do not go on for ever; the user may stop calling, and failing calls are not
forced. `StreamLifetime` has no liveness: a caller need never destroy anything. `ReaderSpec`
adds a caller that stops seeking and goes on reading, as the loops of the tests do.

## 5. The proofs

`CircBufProofs` proves for every `Size` of at least 2 (circbuf_init refuses 0 and adds
one), every set of positive lengths and every `MaxBytes`:

* `TypeCorrect`, `OccupancyHolds` (`Occupancy`), `BytesInOrder` (`Contents`),
  `TransfersHold` (`InFlight`), `RaceFree` (`NoDataRace`) and `WakeupsHold`
  (`NoMissedWakeup`), each as `Spec => []...`;
* `NoDeadlock`: the two threads are never both stuck, asleep or before the other's lock
  (the buffer cannot be empty for the one and full for the other);
* `BufferIsQueue` (`ImplementsQueue`, the refinement of `ByteQueue`).

They follow from one inductive invariant, `IInv`. `Contents` alone is not inductive: that a
publication moves an offset over the right bytes depends on what the thread computed earlier
from an offset that has moved since. `InFlight` records that: the new offset is the old one
plus the number of bytes (or that minus `Size`), the producer's bytes fit in what is free now,
since the consumer can only have freed more, and once copied they are the next bytes of the
stream. Two lemmas about the operators carry the arithmetic: `ReadSomeTakesAll` and
`WriteSomeStoresAll` (a transfer moves as many bytes as the other side allows, and its offset
by that number), and `MovedOffset` says how distances change. Steps that only move a thread's
program counter are treated together (`QuietConsumer`, `QuietProducer`). For the refinement,
`Mapped` says that the queue of the mapping is the stretch of the stream from `rtot` to `wtot`
(`InvMaps`, from `Occupancy` and `Contents`), so that a step is judged by what it does to the
two totals and to what is shown; that nothing is sent once writing is closed needs
`WritesWhileOpen`. The assumptions are `SizeAssumption` and `ClientAssumption`, which TLC
evaluates in every `circbuf` run.

`StreamLifetimeProofs` proves for any number of objects and streams, any classes and any
depth of nesting: `TypeCorrect`, `OneOwner` (`SoleOwner`), `FillersAreSafe`
(`FillerReadsLive`), `LeaksKnown` (`OnlyKnownLeaks`) and `LossesAreAssignments`
(`LostByAssignmentOnly`). That a destructor leaves no filler behind that reads what it
destroys is not inductive: it depends on who owns the buffer above a stream. `Chained` says
so (the owner of a stream owns the live buffer over it, one level further out), and since
destructors work from the outside, the buffer has been destroyed, and its filler joined,
before. `BuffersAbove` and `InnersLive` tie the fillers to live inner streams. The steps that
touch no pointer are one lemma (`QuietHolds`). The assumption is `ParameterAssumption`.

`SlBufferProofs` proves for every length of the file, capacity, step and set of lengths and
offsets, with or without failing seeks, short reads and blocking fills:

* `TypeCorrect`, `BytesInOrder` (`InOrder`), `InnerOnce` (`InnerExclusive`), `ResetAlone`
  (`ResetIsAlone`), `RequestsAreSeen` (`NoMissedRequest`) and `BufferIsStream`
  (`ImplementsStream`, the refinement of `SeekableStream`);
* `FillerIsJoined` (`NoUseAfterFree`) if `BlockingFill` is FALSE, and `EofIsAtEnd`
  (`EofIsEarned`) if neither `SeekMayFail` nor `ReadMayFail`: the runs `buffer_live` and
  `buffer_blocking_fill` show why those conditions are there;
* `NoDeadlock` if not `SeekMayFail`: the user in a call and the filler are never both stuck.
  `UserBlocked` and `FillerBlocked` are the steps at which a thread waits, with the negation
  of what it waits for, because the provers do not reason about ENABLED. The run
  `buffer_failed_seek` is the deadlock that a failed seek brings.

`InOrder` says nothing during a seek and is not inductive. `TypeInv` adds to the types that
the two reads of a request together bring no more than it asks for, and that bytes are read
and not yet published only between them; the lemmas `AskedFacts` and `FillFacts` treat both
reads at once. `Alignment` follows the bytes through one: until the filler has sought they
belong to the user's old position; between its seek and its answer the inner stream is
elsewhere or nothing has happened, as `seek_result` says; after the answer the buffer is empty
at the new position, which the user has still to take, or as it was. Which of these it is can
be read off the request flag and the two program counters, because of `Control`: a request is
pending only while its user is in a seek, is served only while pending, and a user seeks by
itself only before the filler has begun, when the buffer is empty. `Requests` follows the read
end: it is closed for a seek or a destruction and left closed by a failed seek only.
`Delivered` adds what a call has to keep until it returns, and with it each return is a step
of `SeekableStream` and every other step is hidden. What does not depend on the bytes (types,
`InnerExclusive`, `NoMissedRequest`, `ResetIsAlone`, `NoUseAfterFree`, `NoDeadlock`) is proved
of a weaker specification, `AnySpec`, whose inner stream gives any bytes and may be anywhere
afterwards (`AnyBytes` and the lemmas `...Any`); `Spec` implements it. `Sleeping` adds to
`Control` who owes a sleeper its wakeup. The assumption is `ParameterAssumption`.

`SlHttpProofs` proves for every length of the resource, of a chunk and of an error page, every
set of lengths and offsets, every server and every fault: `TypeCorrect`, `BytesAreRight`
(`BytesAtOffset`), `TransferStaysInStep` (`TransferInStep`), `PauseIsKnown` (`NoLostPause`)
and `SeekableTrue` (`SeekableIsTrue`); `NothingPastEnd` (what a read delivers of the resource
ends at its end, also after a seek past it), `NeverSpins` (no loop drives a transfer that is
paused in libcurl, which would never go on) and the action property `PositionIsSteady` (until
a read or a seek returns, the position it began from stays); and `EofIsTrue` (`EofIsEarned`)
if `LengthKnown`, a condition the run `http_no_length` shows to be needed. The inductive
invariant has three parts besides the types. `Chunks` says where a chunk can be held: in a
body whose headers have all come, for a stream that knows it is paused or is just being woken
to abort. `Headers` says which lines may still come and what is known of the server: between
the status line and the first header line of a server that ignored the range, nobody has
noticed yet. `Bytes` says that the transfer is in step with the offset except in that gap, and
that what a read has copied ends at the offset; the callback is treated once for both of its
callers (`WriteFacts`, `TakesInStep`). `Reached` and `Unpaused` add where a transfer that has
delivered something is, and that a transfer is only driven after its pause was lifted. The
assumption is `ParameterAssumption`.

`SlHttpRefinement` proves `HttpIsStream` (`ImplementsStream`, the refinement of
`SeekableStream`) for every length of the resource and of a chunk and every set of lengths and
offsets, where the server is `Obliging`: it honours ranges and tells the length, nothing fails,
the resource is not empty and no seek goes to its end or past it. The comment of the module
says what goes wrong without each of these. The invariant adds to the one of `SlHttpProofs`
that the length is known before the first byte comes (`Answer`), that a transfer ends by itself
at the end of the resource only (`Progress`), and what a call may find (`Settled`): a transfer
that has not begun, is paused with a chunk in hand or has ended, so that an abort always meets
a chunk. The run `http_stale_abort` shows what happens where that fails; with it,
`AbortsAreMet` (no request to abort is left when a seek has returned) and `ShortReadsAreEnds`
(`ShortReadIsEnd`, the property which that run refutes) hold.

`BufferedHttpProofs` proves of a buffer over an HTTP stream, for all the parameters of both:

* `UsesHttpStream` (`Spec => Http!Spec`): the two threads of the buffer together use the
  stream as a single caller does, so that every theorem about `SlHttp` holds of it;
  `InnerFree`: a thread about to call it finds it open and free, although nothing locks it;
  `InnerOutlives` (`InnerOutlivesFiller`);
* over every server: `AnyServer` (the types of the buffer, `InnerExclusive` and
  `NoMissedRequest`), `ResetAlone`, `FillerIsJoined` (`NoUseAfterFree`)
  and `NoDeadlock`, because the composition implements `AnySpec` of `SlBufferProofs`;
* with an `HonestServer`, `RefinesBuffer` (`ImplementsBuffer`), so that every theorem about
  `SlBuffer` holds of the two together, and `UserSeesStream` (the refinement of
  `SeekableStream`).

The invariant speaks of neither bytes nor transfers: `Turns` says that `http.c` is in a read
or seek exactly while a thread of `buffer.c` waits for one, with the same argument (of
the two reads of a request, the length of the one that is under way, `Asked`), and
`Owners` which thread that may be (the filler once it runs, for a request of a user that
waits; before that the user). The rest comes from `SlHttpProofs`: that a read is one step of
`SlBuffer` needs `BytesAtOffset` and `NothingPastTheEnd`, that nothing is seen before it
needs `Steady`. `HonestServer` has ranges honoured and no error page, without which the bytes
are not those of the resource; unlike `Obliging` it lets connections break and calls fail, the
length be unknown and seeks go past the end, because `SlBuffer` lets its inner stream read
short. The theorems about the parts are taken from instances of the proof modules (`HP`,
`BP`), whose definitions are those of `Http` and `Buffer` under another name, as the lemmas
`SameHttp` and `SameBuffer` prove. The assumption is `ParameterAssumption` of `BufferedHttp`.

Only model-checked: liveness (out of the prover's reach), and the five violations, which TLC
finds. The invariants used here were checked with TLC on the instances of the runs before
they were proved.

## 6. Not modelled, and the plan

Every invariant and every refinement that a run checks is now a theorem too. What could
still be said:

* that `circbuf_read` and `circbuf_write2` inside `buffer.c` are the queue of `SlBuffer` step
  by step: today `SlBuffer` starts from the queue that `BufferIsQueue` proves of `CircBuf`;
* a buffer over another buffer, which `StreamLifetime` has and the data modules do not: since
  `SlBuffer` implements `SeekableStream`, one would show that `SeekableStream` is all it asks
  of an inner stream.

Not modelled:

* Global initialisation and cleanup of libcurl (one cleanup ends it for every open stream;
  what libcurl does then is not ours to say), and whences other than SL_SEEK_SET, which
  `sl_http_seek_cb` ignores and `sl_buffer_seek_cb` asserts away.
* Header names, which the callback matches by their beginning: the lines are a small set.
* The callbacks of a buffer that return a constant (input, error, length, seekable,
  checkpoints), and the slots `write` and `flush` that its creation leaves unset.
* `pthread_mutex_destroy` on a mutex whose initialisation failed, and the unchecked
  allocation of the thread handle (`buffer.c:384`): undefined behaviour when memory is out.
* The early returns of `sl_buffer_destroy` (`buffer.c:306-310`, `329-334`, `343-347`), which
  leave the circular buffer, the locks or the context allocated: they need a failing
  `pthread_join`, `pthread_mutex_destroy` or `pthread_cond_destroy`, and here the filler is
  joined once and by another thread, and nobody holds the lock or waits afterwards. With such a
  failure `OnlyKnownLeaks` would have to name what is left.
* Two fillers at once over one buffer, which breaks the one-producer rule of `circbuf.h`.
* The data callbacks of `file.c`, one stdio call each: external, as the inner stream of
  `SlBuffer`. Logging, tests and the test server have no behaviour of the library.
