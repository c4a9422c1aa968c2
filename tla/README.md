# Yardstick: TLA+ models, checks and proofs

Yardstick is a small profiling library. Threads of an application emit events
(ticks, regions, counters); each thread puts them into a queue of its own; one
background thread drains the queues, encodes the events and sends them over
websockets to viewers in a browser. This directory holds TLA+ modules translated
from the code, configurations that TLC checks, and proofs checked by TLAPS.

## 1. Inventory

Paths are relative to the repository. "Hard" names what a test would hardly
reach; "correct when" is what the properties are meant to say.

| component | state | operations | interacts with |
|---|---|---|---|
| event queue, `src/ConcurrentQueue.h`, `src/Atomics.h` | `_sequence[]`, `_buffer[]`, `_enque`, `_deque` | `TryEnque`, `Enque`, `TryDeque` | owner thread and background thread, shared memory only |
| thread registry, `src/ThreadState.*` | `_threads` list, `_threadsLock`, a queue per thread | construction and destruction of a `ThreadState`, `Enque`, `Deque` | registers itself in the global state, posts the signal when full |
| global state, `src/GlobalState.*`, `src/Signal.h`, `src/Spinlock.h`, `src/yardstick.cpp` | `_active`, `_stateLock`, `_allocator`, `_backgroundThread`, `_signal` | `Initialize`, `Shutdown`, `ListenWebsocket`, `ThreadMain`, `FlushThreads`, `ProcessThread` | owns the sink, walks the registry |
| websocket sink, `src/WebsocketSink.*` | `_server`, `_memory`, `_sessions` list; per session a 4096-byte buffer and a table of strings already sent | `Listen`, `Close`, `Update`, `Flush`, `WriteEvent`, callbacks of the server | called by the background thread and, in `Listen`, by any thread; called back by webby |
| webby, `src/webby/webby.c` | listening socket, table of connections, per connection a state machine and two buffers | `WebbyServerInit`, `Update`, `Shutdown`, `WebbyRead`, `WebbyWrite`, socket frames | calls the sink's `ws_connected`, `ws_frame`, `ws_closed` |
| wire protocol, `src/Protocol.*`, `src/PointerHash.h` | none | `EncodeEvent`, `EncodeSize` | decoded by the viewer |
| circular byte buffer, `src/ConcurrentCircularBuffer.h` | two positions, bytes | `TryWrite`, `Read` | none: no code uses it |
| viewer, `tools/web/js/ysProtocol.js`, `ysState.js`, the button of `index.html` | websocket, button, strings, counters, frames | `connect`, `disconnect`, event handlers | decodes the wire protocol |
| viewer views, clock, build files, webby demo | | | not modelled, see section 6 |

**Event queue.** Hard: every step of one thread between two steps of another;
a target loaded before the others moved on; 32-bit counters that wrap; a full
and an empty buffer. Correct when the plain `_buffer` accesses never meet on
one slot, values leave in the order they entered, `false` is only ever returned
by a full (empty) queue, and all of it together is a bounded FIFO queue.

**Global state and registry.** Hard: initialize, shutdown and listen racing
(the first check of `Initialize` is made without the lock); `Post` without the
mutex of the condition variable; threads coming and going while the background
thread walks the list; a full queue while shutting down. Correct when the
library is always wholly on or wholly off, the walk visits live objects and
ends, shutdown and `Enque` return, and accepted events reach the sink.

**Sink and webby.** Hard: sessions hold pointers to connections that webby
moves when it compacts its table, and the data pointers of the two buffers move
with them; a session list with one-way links; a connection that closes without
a session; `Listen` replacing the server while the background thread uses it;
a callback that reads more than the peer sent; frames and requests that arrive in
any pieces; a socket that is blocking for some calls and not for others; a
response larger than the buffer it is written through. Correct when every session
belongs to exactly the open websocket it was created for, every connection owns
its buffers, each pass over the connections ends, and what one side writes is what
the other side reads.

**Protocol and viewer.** Hard: sizes computed in one place and bytes written in
another, 16-bit string lengths, a decoder in another language; values arriving
out of order; a late `onclose`. Correct when the decoder reads back what was
encoded, every string comes before the events that name it, no event or amount is
lost, and the button tells whether there is a connection.

**Circular buffer.** Hard: each side decides by a position of the other that it
loaded before; a copy in two parts around the end of the array; full and empty look
alike. Correct when the copies never meet and it is a bounded stream of bytes.

`PROJECT.json` lists the hazards one by one, each at its line, with the
properties that cover it or the reason none does yet.

## 2. Plan

In this order; all of it is done.

1. `ConcurrentQueue` with the abstract `BoundedQueue`; one and several threads on
   each side; proofs of the invariant and the refinement. *done*
2. `GlobalState`: registry, lifecycle and background thread, safety and
   liveness. *done*
3. Proofs of the lifecycle invariant of `GlobalState`. *done*
4. `WebbyServer`: the connection table of webby, its pass over the connections
   and the state machine of a connection, with what `WebbyRead` waits for. *done*
5. `WebsocketSink`, composed with `WebbyServer`: the sink's callbacks joined to
   the steps that call them; the session list, `Listen` and `Close`, failing
   allocations. *done*
6. `Protocol` and `SessionStream` with the abstract `EventStream`: encoder, sizes
   and reader; the session buffer, the table of strings already sent, the
   flush. *done*
7. `WebbyResponse` and `WebsocketFrames`: what webby reads and writes on one
   connection. *done*
8. `CircularBuffer` with the abstract `ByteStream`, and the proofs of its invariant,
   exclusion and refinement. *done*
9. `Viewer`: the connection object, the button, the counter and frame stores. *done*
10. `GlobalStateProofs`, second part: the walk over the registry, and when it is
    safe. *done*
11. `WebsocketSinkProofs`: the table of connections, whose messages are served, the
    list of sessions. *done*
12. `Induction` and `SessionStreamProofs`: encoder and reader, names before events,
    the refinement of `EventStream`. *done*
13. `WebbyConnectionProofs`: frames, messages and responses of one connection.
    *done*
14. `ViewerProofs`: button, frames, charts, amounts. *done*

`GlobalState` uses the queue through its abstract specification. `WebsocketSink`
extends `WebbyServer`: a callback happens inside one step of the background thread.
`SessionStream` extends `Protocol` and holds both ends, the session and the viewer's
reader. Every module that a theorem is about writes recursion as recursive
functions, which is what the proofs can reason about (section 5).

## 3. The modules

### ConcurrentQueue, BoundedQueue, MCQueue, ConcurrentQueueProofs

One action per access to shared memory:

| code (`ConcurrentQueue.h`) | action |
|---|---|
| call of `TryEnque` or `Enque` | `StartEnque` |
| `target = _enque.load()` | `EnqueLoad` |
| `_sequence[slot].load()` and the branches on `delta` | `EnqueCheck` |
| `compare_exchange_weak`, success or failure | `EnqueClaim`, `EnqueClaimFails` |
| `_buffer[slot] = value` | `EnqueWrite` |
| `_sequence[slot].store(target + 1)` | `EnquePublish` |
| `return false`, or the loop of `Enque` | `EnqueGiveUp`, `EnqueRetry` |
| `TryDeque`, likewise | `DequeLoad`, `DequeCheck`, `DequeClaim`, `DequeClaimFails`, `DequeRead`, `DequeRelease` |

* Counters are kept unwrapped (tickets) and compared modulo `Modulus`, the way
  the code compares 32-bit words: `Delta` is the signed difference, `SameWord`
  the test of `compare_exchange`. The buffer size divides `Modulus`, so slots
  agree. The header of the module argues this in full.
* `BoundedQueue` is what a user of the queue relies on: at most `Capacity`
  values, first in first out. A value enters at the producer's successful
  `compare_exchange` and leaves at the consumer's.
* The steps interleave, as they do under sequential consistency. The code asks
  for acquire and release ordering on the sequence numbers, which is what makes
  the buffer accesses ordered; weaker reorderings of the counters themselves are
  not modelled.
* `SizeAssumption` asks for at least two slots. The code's `static_assert`
  admits one; with one slot "ready for ticket t + 1" and "published under ticket
  t" are the same number. `ThreadState` uses 512.
* `MaxTickets` bounds the run, not the algorithm: a call starts only below it.

### GlobalState, MCGlobalState, GlobalStateProofs

| code | action |
|---|---|
| `Initialize`: unlocked checks; under the lock; start of the thread | `InitializeCheck`, `InitializeLocked`, `InitializeStart` |
| `Shutdown`: lock and `_active`; `_ready = 1`; `notify_all`; `join` | `ShutdownLock`, `ShutdownPost`, `ShutdownNotify`, `ShutdownJoin` |
| `ListenWebsocket`: `Close` first, then the new server or none | `ListenLock`, `ListenDone` |
| a new thread's `ThreadState`, its end | `RegisterThread`, `DeregisterThread` |
| emit functions and `tick` | `EmitEvent`, then `IsActive`, `TryEnque`, `EnquePost`, `EnqueNotify` for `ThreadState::Enque` |
| `ThreadMain`: loop test | `MainLoop` |
| `Signal::Wait(100)` | `WaitPredicate`, `WaitBlock`, `WaitTimeout`, `WaitClear` |
| `FlushThreads`, `ProcessThread` | `FlushThreads`, `ProcessEvent`, `ProcessDone` |
| sink `Flush` and `Update` | `SinkPass` |
| a call of the sink that waits for a viewer, in `WebbyRead` or in a send; its end | `CallSink`, `ViewerAnswers` |

* `wait_for` reads its predicate and goes to sleep in two steps (`WaitPredicate`,
  `WaitBlock`), because `Post` stores `_ready` and notifies without the mutex: a
  notification between them is lost, as in the code. Spurious wake-ups are left
  out; they do what the time limit does, sooner. The Win32 build of `Signal`
  (`PulseEvent`) is not modelled.
* A queue takes and gives events in single steps, at the stores that publish and
  release a slot. This rests on the refinement proved for `ConcurrentQueue`: each
  queue has one producer, its owner, and one consumer, the background thread.
* `RegisterThread` and `DeregisterThread` run wholly under `_threadsLock` and
  touch only what it protects: one step each, possible while the lock is free. The
  memory of a `ThreadState` that has ended may be used for a new one.
* A `ThreadState` that was destroyed may be read by the walk: what `_next` then
  holds is any pointer (`ProcessDone`).
* While a server listens, a call into the sink, `WriteEvent`, `Flush` or `Update`, may
  find a viewer that does not send what `WebbyRead` was asked for, or does not read what
  it is sent. The background thread then makes no step (`blocked`) until that viewer
  answers, or its connection fails, which it need never do.
* An allocator is only null or not null. An event is "tracked" or "other", so
  that a property can follow one event per queue.
* Two initialize calls that pass the unlocked check together both return
  `Success`, and the later one replaces the allocator; the model has this, and
  the lifecycle properties hold nevertheless. Events still queued at shutdown
  stay queued and are sent after the next initialize.

### WebbyServer, MCWebbyServer (proofs in WebsocketSinkProofs)

| code (`webby.c`) | action |
|---|---|
| `WebbyServerUpdate`: the descriptor sets and `select` | `Select` |
| `wb_on_incoming`, a connection taken or not | `Accept`, `AcceptNone` |
| the loop over the connections | `EnterClient`, `SkipClient`, `LoopDone` |
| `wb_update_client`, `WBC_REQUEST` with `wb_fill_buffer`, `wb_peek_request_size`, `wb_setup_request` | `ReadRequest` |
| `WBC_SEND_CONTINUE` | `SendContinue` |
| `WBC_SERVE` | `BeginServe`, then `RespondError` or `RespondUpgrade` |
| `WBC_WEBSOCKET` | `ReadFrame`, then `CloseFrame`, `PingFrame` or `DataFrame`, then `FrameDone` |
| `WebbyRead`: from the buffers; each `recv`; an error | `Read`, `ReadMore`, `ReadFails` |
| closing and compacting | `CloseStale`, `KeepAlive`, `UpdateDone` |
| the sink's writes between two passes, when one fails | `WriteFails` |
| viewers (external) | `Connect`, `Send`, `HangUp` |

* Bytes are pieces: a request or a frame header comes in two, of which the second
  completes it and tells its kind, and a body is one more. A piece keeps the name
  of its sender, so that a property can say whose request is served. Responses are
  not kept.
* Every slot has two buffers in `memory`, reached through `data`, which moves
  with the record, as the pointers in `header_buf` and `io_buf` do.
* `dispatch`, `ws_connect` and `ws_frame` answer as the sink's callbacks do: no
  page is found, every upgrade is accepted, and a frame is read with `FrameRead`
  pieces asked for, more than any payload has.
* `recv` of a peer that has ended returns 0. `WebbyRead` takes that for no
  progress and asks again: no step of the model is possible then, where the code
  spins.
* `reset_connection` forgets what was buffered behind the message just served;
  with a frame cut in two, what is taken for a header next may say anything
  (`Opcode`).

### WebsocketSink, MCWebsocketSink, WebsocketSinkProofs

| code (`WebsocketSink.cpp`) | action |
|---|---|
| `Update`: nothing without a server | `Update`, which is webby's `Select` |
| webby's steps without a callback | `Serve` |
| `webby_connected` with `CreateSession` | `Connected`, with `CreateSession` or, when an allocation fails, `NoSession` |
| `webby_frame` | `Framed` |
| `webby_closed` with `FindSession` and `DestroySession` | `Closed` |
| `WriteEvent` and `Flush` on a list that is damaged, or to a viewer that has gone | `WriteFaults`, `WriteFailed` |
| `Listen` with `Close` | `Listen` |

* A session is a record at an address that can be handed out again; a freed one
  keeps its contents. The program stops at its first access to memory it does not
  own, and `fault` says what that was: a null pointer, freed memory, an endless list.
* `CreateSession` leaves `_prev` of the old head null, so `_prev` is null in every
  session, as in the code. `_table` is never freed in the code; the leak has no
  effect on the model.
* `mishaps` is a history variable: a websocket's record was moved, a session was
  destroyed that was not the head, a session could not be created.
* `Listen` comes between two passes here; that nothing keeps it from coming during
  one is in `GlobalState`.

### Protocol, SessionStream, EventStream, MCSessionStream, SessionStreamProofs

| code | action or operator |
|---|---|
| `EncodeEvent`, `EncodeSize` (`Protocol.cpp`) | `Encode`, `EncodeSize` |
| `YsEventReader.read` (`ysProtocol.js`) | `ReadEvent` |
| `WriteEvent`, `WriteSessionEvent`, `WriteSessionString` (`WebsocketSink.cpp`) | `WriteEvent`, with `WriteSessionEvent`, `WriteSessionString` |
| `Flush`, `FlushSession` | `Flush`, `FlushSession` |
| `onmessage` of `YsProtocol`, `handleEvent` of `YsState` | `Receive`, `Read` |

* Encoded data is a sequence of fields with their widths. The reader looks at byte
  offsets; at one where no field of the width it reads begins, it gets `Garbage`.
* `Bit` is the code's `1 << (index & 5)` in the byte `index >> 3`: of eight handles
  in a byte, pairs share a bit. In the runs 0 and 2 do.
* `EncodeEvent` compares every field it writes with the room there is, but not a
  string's bytes: `Checked` is what it compares, `Put` writes the rest wherever it
  comes to lie. That it never lies behind the buffer is part of `StreamIntact`.
  Where an encoder fails, nothing more of the event is written (`WriteNames`).
* `AllEvents` are the events the library emits: each type with the fields that
  `Protocol.cpp` writes for it. `StreamAssumption` takes `Events` from them and asks
  for a buffer that holds the longest, 29 bytes; the code's has 4096.
* The size of a string has 16 bits, as in the code (`StringEvent` wraps it): of a
  longer one, such as the one of 65596 bytes in the runs, the viewer gets the beginning.
  Numbers keep their value; the viewer's `getUint64` is exact up to 2^53, which
  times and counters of the program are taken to respect.
* `EventStream` promises that the viewer sees each event emitted, once, in order.

### CircularBuffer, ByteStream, MCCircularBuffer, CircularBufferProofs

| code (`ConcurrentCircularBuffer.h`) | action |
|---|---|
| call of `TryWrite`; `_read.load()`; the comparison | `StartWrite`, `WriteLoad`, `WriteCheck` |
| the two `memcpy` calls; `_write.store()` | `WriteCopy`, `WriteWrap`, `WritePublish` |
| call of `Read` with the load of `_write`; the comparison | `StartRead`, `ReadCheck` |
| the two `memcpy` calls; `_read.store()` | `ReadCopy`, `ReadWrap`, `ReadAdvance` |

`log` and `consumed` are history variables. A side's load of its own position is part
of the comparison: no other thread stores it.

### WebbyResponse, MCWebbyResponse (proofs in WebbyConnectionProofs)

`BeginResponse`, `WriteBody` and `EndResponse` are `WebbyBeginResponse`, `WebbyWrite` and
`WebbyEndResponse`, all through `Push` and `Flush` (`wb_push`, `wb_flush`); the actions
`Take...` are an HTTP client (external). Two bytes stand for the head and three for the
header of a chunk; the bytes of bodies are numbered, so that order, loss and
repetition show. The handler is supposed to write what it announced: `WriteBody` does not
go beyond the announced length and `EndResponse` waits for it, which webby leaves to
its user.

### WebsocketFrames, MCWebsocketFrames, WebbyConnectionProofs

| code (`webby.c`) | action |
|---|---|
| `WBC_WEBSOCKET`: `wb_fill_buffer`, `scan_websocket_frame`, the pong | `ReadFrame`, with `FillBuffer`, `Scans`, `Scanned`, `TakeFrame`, `NoHeaderYet` |
| the same where no frame begins | `ReadAstray` |
| `ws_frame` calling `WebbyRead` | `HandlerRead` |
| `WebbyRead`, which waits for all it was asked for; the mask | `WebbyRead`, with `Consume`, `Incoming`, `Unmasked` |
| `discard_incoming_data`, `reset_connection` | `FrameDone` |
| `WebbyBeginSocketFrame`, `WebbyWrite`, `WebbyEndSocketFrame` | `BeginSocketFrame`, `Write`, `EndSocketFrame`, with `MakeHeader` |
| `make_connection_blocking`, `make_connection_nonblocking` with `blocking_count` | `MakeBlocking`, `MakeNonblocking` |
| the peer (external) | `SendFrame`, `Receive` |

* Everything is bytes here: headers are numbers, payloads and keys are named by their
  frame and place, so that reading one byte too many, or unmasking with the wrong byte
  of the key, shows.
* Frames may be sent at any time, any number of them together. `reset_connection`
  forgets what is buffered behind a frame, and a handler that asks for more than its
  frame has takes bytes of the next one. `astray` is a history variable: it remembers
  which of the two has happened. From then on what is taken for a header may say
  anything (`ReadAstray`).
* A handler asks for any of the numbers in `Reads`, as often as it wants. The sink's
  asks for 1024 bytes (`WebsocketSink.cpp:111`), more than the payload of most frames,
  and stays in `WebbyRead` until they come. Handlers end the messages they begin.
  `Lengths` are what the `int payload_len` of `ws_frame` can hold, 0 to 2^31 - 1.

### Viewer, MCViewer, ViewerProofs

| code (`ysProtocol.js`, `ysState.js`, `index.html`) | action |
|---|---|
| the button: `connect`, `disconnect` | `ClickConnect`, `ClickDisconnect` |
| `onopen`, `onerror`, `onclose` | `OnOpen`, `OnError`, `OnClose` |
| `handleEvent`: header, tick, counter set, counter add | `Header`, `Tick`, `CounterSet`, `CounterAdd` |
| `startFrame`, `endFrame`, `setValue`, `findIndexByTime` | `StartFrame`, `EndFrame`, `Inserted`, `FindIndex` |

* Handlers run one at a time; what may come next is what the state of each
  `WebSocket` allows. `onclose` of a socket may come after `connect` has made the next
  one, and then forgets the wrong socket; `late` remembers it, and the properties of
  the button and the frames are about the other behaviours.
* `setValue` searches from the end and never puts a value before the first one;
  `Inserted` does the same, and `ChartExact` says what charts may rely on.
* A frame started by a header may have a negative length: a header carries the time of
  the connection, ticks still queued are earlier.
* `FindIndex` is the loop of `findIndexByTime` as a function of the range that is left
  to search, `<<start, count>>`.
* Minimum, maximum and average of a counter are left out, and so are regions, which
  the state only hands on.

The altered definitions marked "for comparison" in all modules are not part of the
specifications: they are plausible mistakes, used to see that
the properties notice them.

## 4. The runs

| run | instance | question |
|---|---|---|
| `queue_spsc` | one producer, one consumer, 2 slots, counters modulo 6, 9 tickets | is the queue correct, through one and a half wraps of its counters, as `ThreadState` uses it? |
| `queue_mpmc` | two and two threads, 2 slots, 4 tickets | is it correct when threads lose `compare_exchange` races? |
| `global` | 1 emitter whose `ThreadState` comes and goes, 2 controllers with 2 calls each, 2-slot queues, fair | do racing initialize, shutdown and listen leave the library wholly on or off, is the walk on live objects, do shutdown, `Enque` and the walk end, and does every event arrive? |
| `viewers_in_turn` | 2 clients one after the other in 1 slot, all kinds of messages, 3 pieces each, 2 calls of `listen_web`, fair | is what a connection is served for what its client sent, are the sessions the open websockets, do passes end, are sockets closed and upgrades answered? |
| `viewers_at_once` | 3 clients, 2 slots, allocations that fail, `listen_web` | is every socket in one slot, do sessions match websockets, and has every invalid access a known cause? |
| `circular` | 4 cells, writes and reads of 0 to 4 bytes, 6 bytes | do the copies of the two threads stay apart, and is it a bounded stream? |
| `stream` | 4 events of all types, 36-byte buffer, strings of 0, 3, 29 and 65596 bytes, two of which share a bit, fair | do encoder, sizes, string table and reader agree, and does every event arrive? |
| `response` | 4-byte buffer, lengths 0, 3, 9 and chunks, 5 calls, fair | does the client get whole responses, in order? |
| `frames` | frames of 0 to 126 bytes and pings, one or two at a time, reads of 62 and 1024 bytes, messages with parts of 0 to 65536 bytes, 2 operations, fair | are frames found and unmasked as long as nobody reads past one and none is forgotten, messages understood, and the socket in the right mode? |
| `viewer` | 3 sockets, times 0 to 2, 4 events, fair | does the button tell the truth and come back, and are frames and counters right whatever the order of values? |
| `two_threads_hang_shutdown` | 2 emitters alive at once, fair | a violation: see below |
| `webby_shared_buffers` | 3 clients in 2 slots | a violation: see below |

**Bounds.** Two slots are the smallest buffer the queue's algorithm supports and give
every combination of full, empty, being written and being read; nine tickets
with modulus 6 take each slot through four generations and the counters past
their wrap. Two threads per side are enough for a thread to lose a race to its
own side and to the other; four tickets use each slot twice. Two controllers
give every race of two lifecycle calls, and two calls each reach initialize,
shutdown, initialize again. A flush batch of 3 stands for 512: `--count`
ends the loop after `FlushBatch - 1` events, and with a queue of the same order
the limit is reached. `global` lets one `ThreadState` exist at a time, several one
after the other: with two, the registry is broken (below) and nothing else could be
learnt.

A table of two slots gives a connection before and one after the one that is
closed, and is full with two of three clients; the third takes the slot that was
vacated. Buffers of three pieces hold a message and the beginning of the next one,
and can be full without a whole request. `viewers_in_turn` has one slot because with
two the buffers get shared (below) and nothing else could be learnt; three pieces a
client let a request with a body through, or an upgrade and the beginning of a frame;
the second client meets whatever the first one left.

Four cells let writes and reads of up to three bytes go around the end at every
position, and a fourth byte be refused; six bytes pass the end of the array twice. In
`stream` a 36-byte buffer holds the longest event and little more, so that events and
strings meet the end of it in many ways; a string of 29 bytes fills it exactly, and one of
65596, of which 60 are left, goes around it. A
4-byte buffer in `response` is filled exactly, passed by one byte and passed by more
than its length. The lengths in `frames` are those at which the form of a header
changes; `BufSize = 14` is the longest header, the smallest buffer in which any
frame can be found. A read of 62 bytes ends inside of the payloads of 64 and of 126 bytes,
goes on where it ended, and asks for too much of what is then left; 1024, what the sink's
handler asks for, is more than any payload there. Three sockets in `viewer` are enough for the end of one to be
heard of after the next connect, and once more.

**Deadlock** is checked for the queues, the circular buffer and the session stream.
In the other runs the system may stop: every thread has ended and every controller
used up its calls, every viewer has gone, or a handler has written all it wants.

**Fairness.** In `GlobalState`, threads inside the library keep running: weak fairness
for the background thread, for an emitter inside `Enque` and for a controller
inside a call. Those steps are not blocked by other threads, except for
`Initialize` spinning on `_stateLock` and `join`, about which weak fairness
promises nothing until they stay possible. Those of the background thread may be
blocked by viewers, which owe nothing: `FlushEnds`, `ShutdownReturns`, `EnqueReturns` and
`EventsFlushed` say what they say of behaviours in which no viewer blocks it for ever
(`ViewersAnswer`), and `MCGlobalViewer.cfg` shows that the code does not see to that. Nothing is assumed of threads outside
the library, and nothing of a thread spinning on `_threadsLock`, which is unfair.
In `WebsocketSink`, weak fairness of `Background` says that this thread keeps calling
`WebbyServerUpdate` and running in it; clients owe nothing and may stop anywhere. In
`SessionStream` the background thread flushes in every round (`ThreadMain`) and the
browser handles messages that have come. In `WebbyResponse` the client reads what it
is sent. In `WebsocketFrames` bytes that were sent arrive, `WebbyRead` returns once what
it was asked for is there, and handlers return unless they wait in it: `FramesHandled`
exempts those that ask for more than their frame. In
`Viewer` a connection attempt is answered by the browser, one way or the other, and a
socket that failed or is closing is closed; an open connection may last for ever.

`PassEnds`, `HungUpClosed` and `UpgradeAnswered` except `pc = "reading"`, a
`WebbyRead` that waits for bytes a client owes (`MCGlobalViewer.cfg`).

**Disagreements found.**

* `two_threads_hang_shutdown`: `RegisterThread` (`GlobalState.cpp:121`) writes
  `_threads->_next = thread`; `_prev` is meant. Two registered threads then point
  at each other, `FlushThreads` never leaves the list, keeps `_threadsLock`, and
  `Shutdown` waits in `join` for ever. The header and a comment of `Shutdown` say
  that shutdown completes. The property gives the code every benefit: it only
  speaks of behaviours in which no thread ever ends.
* `webby_shared_buffers`: when connection 0 of 2 is closed, the `memmove`
  (`webby.c:1373`) copies record 1 over record 0 with its buffer pointers. Slot 1
  keeps the same pointers, the next client is accepted into it, and both connections
  read into one buffer: a request is served that another client wrote into.

**Where the properties stop.** Some properties of the passing runs hold on a condition
that the code does not see to. For each, a configuration kept beside the runs has the property
without its condition, and `tlc -config <configuration> <module>` prints the behaviour that
violates it.

* `MCGlobalViewer.cfg`, `MCGlobalState` (`ShutdownAlwaysReturns`): `webby_frame`
  (`WebsocketSink.cpp:111`) asks for 1024 bytes of every frame, and `WebbyRead`
  (`webby.c:1642`) waits for them on the background thread. A viewer that sends one short
  frame and nothing more keeps that thread, and the `join` in `Shutdown`, for ever.
  `webby.h:210` and webby's `README.md:36` warn of it: "you will end up blocking forever".
  When the viewer hangs up, the loop takes the 0 of `recv` for no progress and goes on.
* `MCSinkMoved.cfg`, `MCWebsocketSink` (`WritesToOwnViewer`): a session holds the address of
  its connection (`WebsocketSink.cpp:128`). When webby moves the record down, the session
  still names the one above, where the next viewer is accepted, and is then sent what is
  meant for the first. webby's `README.md:35` promises frames "over the connection".
* `MCStreamNames.cfg`, `MCSessionStream` (`NamesAlwaysKnown`): handles that differ only in
  the bit of value 2, such as 0 and 2, share a bit of the string table
  (`WebsocketSink.cpp:177`), and so do those that are the same modulo 2^15. The second
  string is never sent, although the code means to "flush any strings"
  (`WebsocketSink.cpp:218`) before the event.
* `MCResponseEmptyWrite.cfg`, `MCWebbyResponse` (`CompleteWhenEnded` with an empty write):
  `WebbyWrite` of no bytes in a chunked response writes the chunk that ends it
  (`webby.c:1702`), while `webby.h:217` allows any number of calls that add up.
* `MCFramesAhead.cfg`, `MCWebsocketFrames` (`StateRetained`): `reset_connection` forgets
  bytes buffered behind a frame (`webby.c:1283`), while the comment above it means "to
  retain the socket state".

**Disagreements the models contain without a configuration of their own.** Each is a behaviour
of the models; the conditions in the properties, or the constants, say where it is.

* `Shutdown` never calls `WebsocketSink::Close`, so after `listen_web` and `shutdown`
  the server, its memory and its port remain; `yardstick.h:148` says that it "frees
  any resources".
* `listen_web` closes and reopens the server on the caller's thread, also during a pass
  of the background thread; webby's `README.md` says "No threading".
* `CreateSession` does not set `_prev` of the old head (`WebsocketSink.cpp:125`):
  destroying a session that is not the head leaves it in the list (`FaultsExplained`).
* When a session could not be created, `webby_closed` passes null to `DestroySession`
  (`WebsocketSink.cpp:102`), which looks into it (`FaultsExplained`).
* `websocket_pong` (`webby.c:33`) is a continuation frame with a length of 10, not a
  pong: `MessagesIntact` speaks of clients that were not sent one.

## 5. The proofs

`ConcurrentQueueProofs`, for any threads, values, buffer size of at least two and
counter range (an even multiple of the buffer size larger than twice of it):

* `Invariance`: `Spec /\ []NoLag => []IInv`. The properties are not inductive: a
  step that finds its slot ready is only safe because of what every other slot
  and every other thread's target say. `IInv` adds that the tickets
  `deque .. deque + BufferSize - 1` cover every slot once, what the slot of each
  of them holds (`Window`), and what each thread knows of its target
  (`ProducerInv`, `ConsumerInv`). One lemma per action; the arithmetic of slots
  (`SlotDistance`, `SlotCovered`) and of wrapped differences
  (`DeltaIsDifference`, `SameWordIsEqual`) is in lemmas of its own.
* `NoLag` is the hypothesis the algorithm really has: no thread sleeps between
  its load and its `compare_exchange` while the others do 2^31 operations. Else
  the words could be equal and the tickets different.
* `BufferExclusion`, `InOrderDelivery`, `RefusalMeansFull`, `EmptyMeansEmpty`
  and `Refinement` (the queue implements `BoundedQueue`) follow from it.
* `SingleProducerConsumer`: with one thread on each side nobody can be overtaken,
  so the invariant and `NoLag` hold without hypothesis. This is how every queue of
  the library is used, which is why `NoLag` is no property of a run.

`GlobalStateProofs`, for any number of emitters, controllers, calls and any queue
size:

* `Invariance` of the types and of `Holder`, which says what the controller holding
  `_stateLock` has done so far, and from it `Lifecycle`: between calls the library is
  on, with an allocator and one background thread, or off with neither.
  `LifecycleConsistent` alone is not inductive, since it says nothing of the moments
  at which the lock is held.
* `NoDanglingWalk` is false of the code in general: `RegisterThread` links a new
  `ThreadState` wrongly (section 4), so that one that is destroyed stays reachable.
  Two theorems say from which side that can be avoided. `WalkWhileAllLive`: as long
  as no `ThreadState` is destroyed, for any number of them. `LiveLinks` is the
  invariant: whatever the wrong links are, they lead to registered objects.
  `WalkAlone`: when they come and go but never two exist at once; `Alone` says that
  the list then is the one object and nothing else.

`CircularBufferProofs`, for any set of bytes, any size of the buffer and any sizes of
requests, without hypothesis:

* `Invariance`: `Spec => []IInv`. `CellExclusion` says nothing of what a thread loaded
  long ago. `IInv` adds that the positions are those of the bytes accepted and read
  (`Contents`), and that the tail a thread loaded is a position the other side has
  passed since, at most (`WriterKnows`, `ReaderKnows`): the writer can only
  underestimate what is free, the reader what is there. The arithmetic of masked
  positions is in lemmas of its own (`MaskSame`, `MaskAdd`, `MaskDiff`, `MaskSplit`);
  `Fits`, `Takes` and `Apart` say that the bytes from the first unread one to the last
  one being written never share a cell; one lemma per action follows.
* `Exclusion`: the copies never meet on a cell. `Refinement`: the buffer implements
  `ByteStream`; only `WritePublish` and `ReadAdvance` are visible steps.

Size is any positive number in the proofs; the code's `& kBufferMask` is `% Size`
because `kBufferSize` is a power of two (the `static_assert`).

`WebsocketSinkProofs`, for any number of slots, clients, pieces and addresses, any
`FrameRead`, any allocations that fail and any number of calls of `listen_web`:

* `TableInvariance` (of `WebbyServer`): `TableInv` has the types, `SocketsAccounted`
  (each open socket is in one record below the count), `PassInv` (where the pass can
  be, and that neither the count it has read nor the record it serves changes under
  it) and `PeersInv` (a socket that waits to be accepted is not open yet, and its
  client has not gone). Each of them is needed for the others: a socket in two records
  would remain in one when the other is closed. `Soundness` has the same for webby
  with the sink, with the types of the sessions (`TablesSound`).
* `MessageIntact` is false of the code (`webby_shared_buffers`), and again the
  theorems say under what conditions it holds: `MessagesWhileBuffersOwned`, as long as
  no two records have the same buffers (`OwnBuffers`); `MessagesUnlessMoved`, as long
  as every record that is closed is the last, so that `memmove` has nothing to move
  (`LastOnly`): viewers that leave last in, first out; `SinkMessagesUnlessMoved`, the
  same with the sink's callbacks, its failed writes and `listen_web`. `MessageInv` says whose pieces each buffer holds, as far as it is used.
* `SessionsFollow` (`SessionsMatch`) and `FaultCauses` (`FaultsExplained`), without
  hypothesis: `SessionsMatch` speaks of states without mishap itself. `ListInv` says
  what the list looks like before and after the first of them. Before a session is
  destroyed that is not the newest the list is a `Stack`: its sessions in the order of
  creation, each linked to the one before; after it, it is a `Trap`: from `_sessions`
  on, every walk ends in freed memory or never. Without a mishap it matches webby's
  websockets, one session each (`Match`). That the walks of `FindSession` and `Flush`
  end is an induction over the stack (`StackWalk`).

`SessionStreamProofs`, for any handles, string lengths and events, and any buffer of
at least 29 bytes:

* `Invariance`: there is a log of encoded items, a string or an event each, such
  that the messages under way and the buffer are pieces of it, cut between items
  (`Sound`), and that the viewer has read it up to an item and is at the byte where
  the next one begins (`Reading`). `Inv` says that such a log exists; it needs no
  history variable. What is proved of `Encode` and `ReadEvent` for one item
  (the reader, at the item's first byte, finds every field at its offset, and ends
  at the item's last) carries over to all messages through `Offset`, whose
  properties (`OffsetsExist` and the lemmas after it) are inductions over the length
  of the data.
* `EncodingAgrees` (`StreamIntact`): nothing is written behind the buffer and every
  string that arrives has its bytes, or the first `size % 65536` of them. `EncodeEvent`
  does not look at the room for a string's bytes; that it is there follows from what
  `MakeRoom` and the comparison in `WriteSessionString` leave.
* `NamesSentFirst` (`NamesKnown`): a bit of the string table that is set is that of a
  string under way or known. With handles that share no bit this is the string itself;
  with others it may be another one (section 4).
* `Refinement`: session and viewer implement `EventStream`. None of the three has a
  hypothesis.

`WebbyConnectionProofs`, for frames of any length an `int` holds, any reads, writes and
buffers (of at least 14 bytes for frames, of at least one for responses):

* `Mode` (`ModeFits`): `blocking_count` is the number of users of the socket.
* `FramesFound` (`FramesIntact`), for any frames, any number of them on their way, and
  handlers that ask for anything: `FramesInv` says that buffer and wire together are what
  is still to come of the frames that were sent, and while a frame is handled, which part
  of its payload was taken from where. It is inductive as long as `astray` is empty,
  which is what the property speaks of: once a handler has asked for more than its
  frame, or part of the next one was forgotten, the code itself has lost its place
  (section 4). The number that a header's bytes make is the length they were made from
  (`Number`), for each of the three forms; what frames behind the current one begin with
  is an induction over their number (`Flattened`, `Grouped`).
* `MessagesUnderstood` (`MessagesIntact`), whatever happens to the frames that come in:
  `Lies` and `Laid` say that what the client is to receive is the rest of a list of whole
  fragments. The property speaks of clients that were sent no pong, for the reason given
  in section 4.
* `BodiesInOrder` and `ResponsesComplete` (`BodyInOrder`, `CompleteWhenEnded` of
  `WebbyResponse`): `Before(z, e)` is the set of pairs of bytes and a client such that
  the client, taking the bytes piece by piece, becomes `e` with `z` left over (the
  least set closed under `Step`); the invariant says that the bytes on the wire and in
  the I/O buffer lead in this way from where the client is to where the server is.
  Hypothesis: no call of `WebbyWrite` passes 0 bytes, since in a chunked response that
  writes the chunk which ends it (section 4).

`ViewerProofs`, for any number of sockets, times and events, without hypothesis:

* `Invariance`: types, the button, `OpenFrame` (which frame is open, and when it
  began), the order of a counter's values, and their sum.
* `ButtonTells` (`ButtonTrue`): inductive by itself. `FramesLieEndToEnd` (`FramesTile`).
* `ChartsAreExact` (`ChartExact`): the values behind the first are in time order;
  `SearchFinds` is an induction over the count: a range in order is halved until
  nothing is left, at the place looked for.
* `AmountsAreConserved` (`AmountsConserved`): `InsertedTotal` says that a value adds its
  amount to the sum wherever it is inserted.

**Induction.** The library's induction theorems take an operator as a parameter,
which the installed provers cannot instantiate. `Induction` states them with sets
instead, from the library's facts on well-founded orders: a set of numbers that is
not empty has a least member (`LeastMember`), a set that has 0 and with each number
the next has them all (`SetInduction`), and a function that a recursive equation
describes exists (`RecursionExists`, `FixedPointExists`), so that the models' recursive
functions are what their equations say. `RECURSIVE` operators are beyond it, which is
why the models have none in what is proved about.

**Hypotheses.** The conditions above that are not an `ASSUME` of a model are ones that
the code needs and does not ensure: `NoLag` for several threads on a side of the queue,
the two about `ThreadState`s (their links are wrong), `OwnBuffers` and `LastOnly` (records
are moved with their buffers), writes of at least one byte (an empty one ends the
response). Except for `NoLag`, a run or a configuration of section 4 shows that the code goes wrong
without them; the theorems say how far it can be relied on in spite of that. The bounds of the models
(`MaxBytes`, `MaxEvents`, `MaxCalls` and so on) are constants of any size in the theorems.

**Only model-checked**: the liveness properties, since the prover has no rule for
fairness and `ENABLED`: `FlushEnds`, `ShutdownReturns`, `EnqueReturns` and
`EventsFlushed` (`global`), `PassEnds`, `HungUpClosed` and `UpgradeAnswered`
(`viewers_in_turn`), `EventsArrive` (`stream`), `ButtonComesBack` (`viewer`),
`RepliesArrive` (`response`) and `FramesHandled` (`frames`); `SessionsMatchAlways`
(`viewers_in_turn`), which is true of a table of one slot only; and the two violations,
which are counterexamples. Every other property of a passing run is stated by a theorem.

## 6. Not modelled

* Of webby: `SIGPIPE` of a write to a viewer that has gone, which ends the process
  outside of any state of the model. A `send` that blocks because a viewer does not read
  is in `GlobalState` (`CallSink`); elsewhere clients read what they are sent. `fcntl` and
  `select` do not fail; so a socket that was accepted is configured (`Accept`). Header parsing, SHA-1, base64 and URL decoding are pure functions of bytes with
  no state of the server.
* Of the global state: the Win32 build of `Signal`; the reads of `_active` and
  `_allocator` that race with their stores are interleaved as if they were atomic.
* Of the viewer: statistics of counters, regions, the text of errors, and the views,
  page and style sheet (rendering).
* Left out for good: the clock wrappers and `Algorithm.h` (no state), build files,
  webby's demo program, and the `NO_YS` build, in which the library is empty.

Four hazards of `PROJECT.json` have no property. A library that is shut down between
`IsActive` and `TryEnque` keeps the event in its queue, and nothing in the repository
says what should become of it. `Listen` during a pass has nothing in the code that
keeps the two apart, so that no property of it could hold. A server that outlives
`Shutdown` is in the model and needs no property to be seen. A write to a viewer that has
gone ends the process. Where the properties of a
hazard leave out part of it, its note says which.
