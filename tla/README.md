# Verification of the link management programs

This directory holds TLA+ models of the programs of this repository, TLC runs
that check them on small instances, and theorems checked by TLAPS. Paths below
are relative to the repository.

## The system

Two independent programs run on a DE1-SoC board (a dual-core ARM next to an
FPGA). `video` relays a video stream: as a **server** it receives UDP datagrams
and writes them, each behind a two-byte length, to a hardware FIFO; as a
**client** it reads such frames from a hardware FIFO and sends each as a
datagram. `androidServer` exchanges short messages with an Android app.

| Component | Code | State | Operations | What makes it correct |
|---|---|---|---|---|
| Circular buffer | `VideoServer/src/buffer.c` | `buffer`, `head`, `tail`, `full`, `max` | `send_data_buffer`, `read_data_buffer`, `get_space`, `fill_level`, `buffer_is_empty`, `init_buffer` | it is a bounded queue of bytes; no unread byte is overwritten |
| Server threads | `VideoServer/src/server.c` | the buffer, shared without a lock; the locals of two loops | `recv_video`, `send_packet_buffer`; `fifo_write_thread` | the above under every interleaving; bytes reach the FIFO once and in order; a datagram is dropped only for lack of room |
| Handshake | `server.c`, `client.c` | `connectionStatus`, `clientAddr`; the client's loop | `wait_init`, `recv_video`, `run_client`, `run_test_client` | one client per server, clients stream only when acknowledged, retries succeed |
| Client relay | `client.c` | position in the byte stream | `empty_fifo`, `video_send_loop`, `send_video_packet`, choices 3, 4, 6 of `run_test_client` | in step with the frames, each becomes one datagram, in order; emptying the FIFO brings it in step |
| FIFO driver | `fifo.c` | mapped registers | `write_fifo_blocking`, `read_fifo_blocking`, `send_data_fifo`, `read_data_fifo`, mapping | nothing is written to a full or read from an empty FIFO |
| UDP helpers | `connection.c` | a socket | `recv_data`, `recv_data_timeout`, `send_data`, `addrMatch` | used by the handshake |
| Entry, options | `video.c` | two ints of flags | `main` | selects the mode |
| Android server | `androidServer/src/androidServer.c` | `sockfd`, `connfd`, `connfd2`, `connected` | `startServer`, `serverRead`, `serverSend` | a typed line gets into no connection serverRead reads; no descriptor is lost over reconnects; EXIT restarts the server |

How they interact: the receive thread and the fifo thread share the circular
buffer; the server and the clients exchange datagrams; the server's FIFO feeds
the FPGA, which feeds the client's FIFO on the same or another board. The
behaviour that is hard: the unlocked buffer between two threads on two cores;
UDP that loses, copies and reorders; timeouts that race with answers; locals
read before they are written; a stream whose framing depends on every byte;
socket numbers that one thread closes while the other holds them.
`PROJECT.json` lists these hazards at their lines.

## Modules

| Module | Models | Status |
|---|---|---|
| `BufferIndex` | the index arithmetic of `buffer.c`: the step of a cursor, the split, `get_space` | done |
| `ByteQueue`, `CircularBuffer` | what the buffer promises, and the functions of `buffer.c` called one at a time | done |
| `ServerThreads` | the two threads of the server and the buffer, one shared access per action | done |
| `BufferTheorems`, `ServerThreadsProofs`, `CircularBufferProofs` | theorems about `BufferIndex`, `ServerThreads` and `CircularBuffer` | done |
| `Handshake` | server states, clients, test menu, UDP, stop and restart of the server | done |
| `ServerThreadsWeak` | `ServerThreads` with stores that become visible out of order | done |
| `FrameRelay`, `Relay` | what the client promises in step with its frames, and the client behind its FIFO | done |
| `AndroidServer` | two threads, sockets, `connected`, reconnects of the app | done |
| `HandshakeProofs`, `AndroidServerProofs` | theorems about `Handshake` and `AndroidServer` | done |
| `RelayTheorems`, `RelayProofs` | theorems about streams of frames, and about `Relay` | done |
| `LeastNumber` | what the proofs use for induction | done |

`MC*.tla` and the `.cfg` files give the constants small values. Definitions
called "Mutant of X" are changed forms of X that no specification uses: each
shows that a plausible mistake in the code breaks one of the properties.

### ServerThreads

`head`, `tail`, `full` and the bytes are plain memory. An action is one access
of a thread to something the *other* thread stores: the load of `full`, the two
loads of the other's cursor in `get_space` (the comparison and the formula load
it separately, as the unoptimised build does), the copy of a segment, the store
to a cursor, the load and the store of `full = head == tail`. `rpc` and `fpc`
say where each thread is.

| Action | Code |
|---|---|
| `RecvVideo`, `SendPacket` | `server.c:92-98`, `server.c:109-114` |
| `SpaceFull`, `SpaceCompare`, `SpaceCompute` | `buffer.c:36-44`, receive thread |
| `CopySegment`, `AdvanceHead`, `CompareFull`, `StoreFull` | `buffer.c:11-23`; `StoreFull` also goes on to the second part of a split and to the second call |
| `EmptyFull`, `EmptyCompare`, `EmptyCompute` | `buffer.c:36-44` and `64`, fifo thread |
| `ReadByte`, `AdvanceTail`, `ClearFull`, `WriteFifo` | `buffer.c:29-31`, `fifo.c:98-103` |
| `DrainFifo` | the FPGA (external) |

A byte is its position in the stream of all bytes ever put into the buffer, so
"the right byte" is a comparison of numbers. `written`, `read`, `room` and
`falseFull` are history: no guard but the bound `ByteLimit` reads them.
`print_buffer_fill_level` only reads and prints and is left out. `-nf` (no fifo
thread) is the same model with the fifo thread never scheduled, which the
safety properties cover.

*Memory order.* `ServerThreads` executes each thread's accesses in program order
and makes them visible at once. C promises neither for plain variables; the
Makefile sets no optimisation, so the compiler keeps the order, but the ARM
cores may reorder the copy and the store to `head`. `ServerThreads` says what
the code does when they do not. `ServerThreadsWeak` says what it does when they
do: after `CopyDelayed` some of the copied slots stay `stale` for the other core
until `Arrive`, and `ReadOlder` takes the older byte from one of them. All other
steps are those of `ServerThreads`; only this one reordering is modelled.

*Integers.* `head`, `tail` and `max` are `size_t`, the result of `get_space` is
an `int`. With `VIDEO_BUFFER_SIZE = 20000000` sums stay far below 2^32, and a
difference below zero comes back as the same negative number through the
conversion to `int`, so mathematical integers are exact.

### CircularBuffer and ByteQueue

Here each function runs to its end. The refinement mapping takes the
`fill_level` bytes from `tail` on as the abstract queue, so `IsByteQueue` says
at once that both parts of a split land in the right slots, that the cursors
wrap, that `full` tells a full buffer from an empty one, and that `get_space`
counts correctly. Both specifications show the argument of the last send, so the
queue must hold those bytes and not just some bytes. The callers keep their side of the contract (enough space,
not empty) as the callers in `server.c` do. Unlike the server, the model fills
the buffer to the last byte: that is where `full` matters.

### Handshake

A datagram is its addresses and the kind of its body. What the code looks at is
the first byte and whether the datagram is empty; `VIDEO_LIKE_INIT` is video
whose first byte happens to be 49, possible because `send_video_packet` adds no
header. Locals read before they are written (`srcAddr`, `response`, `data[0]`)
start with any value. The network is a set: a datagram may be read in any
order, read and kept (a duplicate), lost (`Lose`, bounded by `MaxLosses`) or
never read. A handler (`WaitInit`, `RecvVideo`, `Answered`, `TimedOut`) is one
action, since a process shares nothing with another but the network. `Crash`
stands for `exit(1)` in `recv_data` or a kill; the socket's queue may be lost
with it; `Restart` is `run_server` from its start.

### Relay and FrameRelay

The stream in front of a client is `taken \o fifo \o rest`: what it has read of
the frame in hand, the hardware FIFO, and what the server on the other side of
the FPGA has still to write of its own frame. A byte carries its value, which
the client reads, and its place in its frame (`pos`, `left`), which only the
properties read. The amount of choice 3 is an `int` that
`send_video_packet` takes as a `short` (`client.c:139`, `178`): `ShortBits` and
`SendAmount` model what becomes of it. The FPGA between the two FIFOs is not in this repository; it is
taken to pass on bytes one by one, or, as the FIFO has no back pressure
(`hps_soc_system.h:45`), to lose one when the FIFO is full (`Overflow`).

| Action | Code |
|---|---|
| `BeginFrame`, `PassByte`, `ServerStops` | `server.c:108-137`, `connection.c:61` |
| `EmptyFifo`, `Acknowledged` | `client.c:165-176`, `client.c:45-47` |
| `ReadHeader`, `ReadPayload`, `SendVideoPacket` | `client.c:60-69`, `71-74`, `76` |
| `Choose`, `ReadAmount`, `SendAmount` | `client.c:94-160`; choices 1, 2 and 5 do not touch the FIFO |
| `Restart` | `run_client` from its start, with or without `-d` |

`FrameRelay` is the promise: in step, the frames on their way are a queue;
`Forward` sends the oldest as a datagram, `Put` adds one, and only a failure
(`Slip`: a lost byte, a server or a client stopped) ends that. Out of step it
promises nothing (`Drift`), and whether the client gets into step is chance
(`CatchStep`) or the work of `empty_fifo` (`EmptyingFindsStep`). The mapping is
`InStep` and `Pending`, which is empty when the client is out of step, so a loop
that lost the step by itself, on whatever payload, would refine neither `Put` nor
`Forward`. Since payloads take every value, including those that look like
lengths, the property is not about lucky data.

### AndroidServer

An action is one system call or one access to `connected`. `fd` is what the
process's descriptor numbers stand for; the kernel gives out the lowest free
one. `rpc` is the read thread (before the threads exist, the main thread in
`startServer`), `spc` the send thread, and `target` the value of `connfd` that
`serverSend` passed to `serverSendFunc` before it waited in `getchar`. `len` and
`cli` are written by `accept` and read by nothing else. The first two
connections of the code differ only in who accepts them, and so do they here
(`by`).

The app is external: it opens a connection to listen on, then one per message,
ends with EXIT or without a word, and may be started again. `SPLIT` is an EXIT of
which the server reads only the beginning. A write to a connection whose other
end is closed is lost the first time and raises SIGPIPE the second, which ends
the server. `Fails` bounds failing calls: `socket`, `bind` or `listen` end the
program, `accept` returns -1 and the code goes on with it.

`LinesGoToTheApp` needs `failures = 0`. With a failing `accept` after an EXIT,
`connfd` is -1, the old number is free, and the next message may get it while a
line for the old connection is still being typed. Which run of the app gets the
line is not promised: a line begun for one app may go to the next.

Nor is the connection `startServer` accepts always the one on which an app
listens. If an app starts while the EXIT of the one before is still in the queue,
`close(sockfd)` (line 85) drops its first connection; the next one it opens, a
message, is then the first that the restarted server accepts, and lines are
written into it. `atListen`, a history variable, tells this case: `OwnLine` says
that it can only happen to an app that ran already when the server listened
again.

Not in the model: lines longer than `MAX` characters, messages that do not end
in a zero byte, and a failing `pthread_create`.

## Runs

| Run | Result | Shows |
|---|---|---|
| `threads` | passes | type, inductive invariant, `UnreadIntact`, `SpaceNotOverstated`, `StreamInOrder`, `FullOnlyByRace` under every interleaving |
| `threads_live` | passes | `AcceptedReachesFifo`: every byte of a frame the buffer had room for is itself written to the FIFO, up to the race below |
| `threads_empty_read` | violated | `send_data_buffer` can set `full` on a drained buffer; the fifo thread reads a stale byte and then replays the whole array |
| `threads_drop` | violated | `get_space` can mix two values of `tail` and drop a datagram that fits |
| `buffer` | passes | `buffer.c` implements `ByteQueue` |
| `handshake` | passes | `StreamerIsTheClient`, `OneClientPerRun` |
| `handshake_live` | passes | `RetriesReachServer` |
| `handshake_retry` | violated | a client whose INIT_ACK was lost retries for ever |
| `handshake_init` | violated | video may be answered as an INIT |
| `threads_weak` | violated | a reordered store to `head` hands the fifo thread a byte that was never put there |
| `relay` | passes | `IsFrameRelay`, `EmptyingFindsStep`, `FramesAreSent` |
| `android` | passes | `ClosesWhatItOpened`, `LinesGoToTheApp`, `ExitRestarts` |

What is surprising in `threads`: `send_packet_buffer` asks for strictly more
room than it needs, so between the two threads the buffer is never full, and
the only way `full` is ever set is the race (`FullOnlyByRace`). Hence the
condition `~falseFull` of `StreamInOrder`: until that race happens, every byte
goes to the FIFO once and in order; `threads_empty_read` shows what happens
then. `AcceptedReachesFifo` is about the byte itself, not about how far `tail`
has moved, and has the same limit: once `full` was set on a drained buffer,
`tail` may pass a byte that was accepted without its being taken, or the fifo
thread may replay the array, and nothing is promised. `UnreadIntact` and
`SpaceNotOverstated` have no such condition; but once the replay has made `read`
exceed `written` they say little, since no byte counts as unread and `Free`
exceeds `Max`.

`StreamerIsTheClient` speaks of clients that heard something from the network.
One that has not may leave its loop after a timeout because `srcAddr` and
`response` (`client.c:31-45`) are uninitialised; that this is so is read off
`Init` and `TimedOut`, and nothing is claimed of such a client. Nor does it ask
that the acknowledgement be of the present run: the code cannot tell a late
INIT_ACK of an earlier run of the server, and with one a client streams to a
server that does not know it. `RetriesReachServer` is about lost INITs;
a lost INIT_ACK is `handshake_retry`.

`IsFrameRelay` and `EmptyingFindsStep` say what holds when nothing outside goes
wrong. An `empty_fifo` that ends in mid-frame, an overflow of the FIFO, choice 3
of the menu, a program stopped in mid-frame: each is a step of `Relay`, and each
ends the promise (`clean`, `Slip`). So they are excluded, not caught. What is caught is a
client that would lose the step by itself, or start out of step although the FIFO
was emptied between two frames.

### Bounds

* `threads`: `Max = 6`, datagrams of 0, 1 and 3 bytes (frames of 3 and 5),
  `ByteLimit = 12`: two laps. Frames are split at the end of the array in header
  and in payload, end exactly at it, and are dropped. What a longer run could
  add depends on positions modulo `Max` and on the distance of the cursors only;
  the theorems remove the bounds.
* `threads_live`: `Max = 5`, `ByteLimit = 9`, so that the last frame wraps.
* `FifoDepth = 1` makes the fifo thread wait often; the real FIFO has 2048.
* `buffer`: four slots, two values: enough to tell two neighbouring bytes and
  the first and second part of a split apart.
* `handshake`: one client, one tester, three datagrams on their way to the
  server (`MaxInFlight`), one loss, two stops of the server. A late answer, its
  duplicate and two later runs of the server can coexist.
* `handshake_live`: two clients, `MaxInFlight = 1`, one loss, one stop.
* `relay`: bytes of two values and payloads of one or two bytes, so that payload
  bytes look like lengths, one length is too large (3) and one is zero; a FIFO of
  three bytes, less than the longest frame, so that it fills up in the middle of
  one. Choice 3 reads one byte, or three, which as a `short` of the model
  (`MaxShort = 2`) is negative. Frames and restarts are not bounded; `MaxLosses = 1` bounds lost bytes,
  and since the client may be restarted any number of times, being out of step
  for more than one reason is covered.
* `android`: four runs of the app, a queue of three, two failing calls, and four
  descriptors, one more than the server ever needs, so that a lost one shows in
  `ClosesWhatItOpened` and not as a failing call. Lines are not bounded.

### Fairness

* `ServerThreads!FairSpec`: the scheduler runs both threads (weak fairness of
  each thread's steps; the fifo thread polls, so it always has one) and the FPGA
  empties its FIFO. A datagram need never arrive. Neither thread ever waits for
  the other, so no more is needed.
* `Handshake!FairSpec`: the server is started again; each datagram that is not
  lost is read by a server that keeps reading; a client goes on (strong, because
  the bound `MaxInFlight`, not the code, may disable it) and, if answers keep
  being there while it keeps asking, one arrives within a timeout (strong: the
  timeout of three seconds is long against the delay of a network). Nobody has
  to use the test menu, and losing is never required.
* `Relay!FairSpec`: bytes of a frame once begun go through (weak: the FPGA and
  the fifo thread run), and the send loop runs (weak: it polls with `usleep`).
  The server need not begin another frame, and the handshake may last for ever.
* `AndroidServer!FairSpec`: both threads run (weak: each waits only in calls that
  return when their condition holds), and the app does not run for ever without
  closing, so that `read` on a silent connection returns. Nobody has to type,
  start the app or send a message.

Deadlock is checked everywhere but in `android`: a server that ended by SIGPIPE
or `exit`, or one whose app is never started again, does stop.

## Proofs

A theorem holds for every value of the constants that the named assumptions
admit. They ask for no more than the code gives:

| Module | Assumed |
|---|---|
| `BufferIndex`, `CircularBuffer` | `Max >= 1`; bytes have some value |
| `ServerThreads` | lengths of packets are naturals, `FifoDepth >= 1`, `ByteLimit` is a natural |
| `Handshake` | testers are clients; the server and nobody are no clients; the bounds are naturals and something may be in flight |
| `AndroidServer` | three descriptors or more, a backlog of one or more; the bounds are naturals |
| `Relay` | `1 <= MAX_PACKET_SIZE < Base * Base`, so that two bytes tell every length, and `MAX_PACKET_SIZE` is a `short`; `FifoDepth >= 1`; amounts and the bound are naturals |

What is proved of the runs' properties, and where:

| Theorem | Property |
|---|---|
| `ServerThreadsProofs`: `TypeCorrect`, `InvCorrect`, `UnreadStaysIntact`, `SpaceIsNeverOverstated`, `StreamStaysInOrder`, `FullIsOnlyARace` | every property of the run `threads` |
| `CircularBufferProofs`: `TypeCorrect`, `BufferIsByteQueue` | every property of `buffer`: the refinement of `ByteQueue` |
| `HandshakeProofs`: `TypeCorrect`, `OneClientAcknowledged`, `StreamersAreAcknowledged` | every property of `handshake` |
| `AndroidServerProofs`: `TypeCorrect`, `ClosesAreRight`, `LinesAreForTheApp` | the invariants of `android` |
| `RelayProofs`: `TypeCorrect`, `EmptyingStep`, `RelayIsFrameRelay` | the invariants of `relay` and the refinement of `FrameRelay` |

### The two threads

`BufferTheorems` proves what is needed of `%`: from the division theorem and
the absence of a multiple of `Max` strictly between `-Max` and `Max` other than
zero follow that positions less than a lap apart have different slots
(`StepInjective`) and that either formula of `get_space` is bounded by the true
room under the condition it needs (`SpaceBound`).

`ServerThreadsProofs` proves that `IInv` is inductive. `UnreadIntact` and
`SpaceNotOverstated` are not inductive by themselves; the strengthening is

* `CursorsTrackStream`: `head` and `tail` are `written` and `read` modulo `Max`;
* `RoomKept`: while a datagram is being put, what is still to come fits with a
  slot to spare, which the fifo thread can only improve;
* `BytesInPlace`: the published bytes and the segment just copied are in their
  slots;
* `MeetsIsFull`: if the fifo thread has passed, or will pass, its test with
  `head = tail`, then `full` is set or about to be. This is what keeps `read`
  moving over a falsely full buffer from breaking the arithmetic;
* `SpaceLoads`: what `get_space` saw in its first two loads stays true until the
  third: `full` stays false and a `tail` not above `head` cannot pass it.

There is one lemma per conjunct, with a case per action that can disturb it.
From it follow `UnreadStaysIntact` and `SpaceIsNeverOverstated`. A second
inductive argument on top of it, with `NeverRanAhead`, gives
`StreamStaysInOrder` and `FullIsOnlyARace`.

### The buffer as a queue

`Inv` adds one thing to the types: `full` is set only where the cursors meet. A
cursor and a count determine the other cursor, but the other way round `head =
tail` stands for an empty and for a full buffer; `LevelIsUnique` shows that with
`full` the count is determined too, so that a send adds its length to
`fill_level` and a read takes one off (`SendLevel`, `ReadLevel`). The rest is
where the bytes are: the slots a send stores into, split or not, are the next
ones behind the queue and none that is in it (`SendPlaces`).

### The handshake

`TypeOK` needs `Routes`, since it says whose address `recvfrom` can return.
`OneClientPerRun` becomes inductive with `AcksPast` (no acknowledgement of a run
that has not begun) and `IperfNeverWaits`. `StreamerIsTheClient` needs the
network too: `Routes` says that what the server sends are INIT_ACKs to clients
it has acknowledged in this run or an earlier one, which duplication, loss and
a restart leave true, and `HeardAcked` that what a client heard was such an
answer. Clients, losses and restarts are as many as one likes.

### The android server

`Opened` says of each point of the read thread which of the three sockets are
open and under which of the three numbers: while a message that said EXIT is
being closed, the listener and the connection are closed and opened again
before `connfd2` is, and that is why `close(connfd2)` hits the right one.
`SameNumbers` carries `LinesGoToTheApp`: the kernel gives out the lowest free
number (`LowestFree`), so, if no call fails, every restart gives the listener,
the connection and the message the numbers 1, 2 and 3 of the first. A line typed
for an old `connfd` therefore finds a connection under 2, or nothing. The property
alone is not inductive, since it says nothing about the numbers to come.
`OwnFirst` carries its other half, which connection that is: it follows the front
of the queue from `listen`, when the queue is empty and every app is an old one, to
the `accept` of `startServer`.

### The relay

`RelayTheorems` is about streams of bytes alone. `StartOf` counts the bytes with
position 0; a frame added at the end adds one payload at the end
(`FrameAppended`), and a whole frame at the front is the first payload and
leaves the others (`FrameInFront`). Whole streams can be joined (`WholeConcat`) and
cut where a frame ends (`WholeSuffix`), one from which a byte was cut out is whole no
more (`LossShows`), and as many bytes as the first one announces are the first
frame (`FirstFrame`, from `WholeRuns`, which follows the positions through a frame).

`RelayProofs` has the inductive invariant. `EmptyingFindsStep` and the bound on
`dataBuffer` in `TypeOK` are not inductive; the strengthening is

* `BytesTrue`: the first two bytes of a frame, wherever they are by now, tell its
  length. Choice 3 makes up bytes for which this fails, but it sends them before
  the loop can see them;
* `EndOfFrame(rest)`: what the server has still to write is the end of a frame;
* `Phase`: what the client has in hand at each point. In particular the length
  in front of a payload was valid, in step or out of it.

In step, two bytes read where a frame begins are that frame's length
(`LengthTold`), so no length is found invalid (`HeaderInStep`), and what the
client holds when it sends is the first frame of the stream (`SendInStep`). The
refinement then goes action by action: `BeginFrame` is `Put`, `SendVideoPacket` is
`Forward`, the other steps of the loop leave the stream as it is, a lost byte and a
stopped program are `Slip`. `ServerStops` is the delicate one: if the stream is
still whole without the frame in hand, then the client had nothing of that
frame, and it is the last of the queue (`StopShortens`).

### Induction

The induction theorems of the library take an operator as a parameter and cannot
be used. `LeastNumber` proves instead that a nonempty set of naturals has a
least member; "count down to the least number for which it fails" then replaces
each induction (`RankReached`, `WholeFits`, `WholeRuns`).

### Only model-checked

* Liveness, which is outside the prover's reach: `AcceptedReachesFifo`,
  `RetriesReachServer`, `ExitRestarts`, `FramesAreSent`.
* The five violations: a counterexample is its own proof. `ServerThreadsWeak` has
  no other property.
* That the values of the constants in the code satisfy the assumptions: they
  are `VIDEO_BUFFER_SIZE = 20000000`, `MAX_PACKET_SIZE = 2000`, 256, 32767 and 2048.

## Not modelled, and why

* `main` and option parsing in both programs: straight-line code; its results
  are constants and initial states.
* `open_physical_memory_device`, mapping, creation of UDP sockets: each call
  succeeds or ends the program. `send_data_fifo` is never called.
* `hps.h`, `hps_soc_system.h`, `hps_linux.h`: generated addresses and sizes. Two
  copies of `hps.h` make up 22734 of the repository's 24687 lines of code, and
  there is no behaviour in them to model; of the remaining lines the map names
  the handlers, loops and buffer operations.
* `androidServer/src/fifo`: not compiled into the android server, and the same
  driver as `VideoServer`'s.
* Printing; `free_buffer` and `close_server`, which a running server never
  reaches in its normal mode; `close_client`, behind a loop without an exit.
* Composition of `Handshake` and `Relay`: they share only the moment at which
  the handshake ends, which `Relay` leaves open (`Acknowledged`), and the
  content of a datagram, which `Handshake` leaves open (`VideoBodies`).
* Composition of `ServerThreads` and `Relay`: `Relay` takes the server's output
  to be whole frames, which is `StreamInOrder`; when that fails
  (`threads_empty_read`) the client is out of step as after a lost byte.

## Plan

Every safety property of a passing run is proved. What could be added:

1. For `ServerThreads`, a queue like `ByteQueue` as its abstract specification
   until `falseFull`, with `written` and `read` as the ends of the queue. Today
   `StreamInOrder` says the same of the fifo thread only.
2. For `ServerThreadsWeak`, the theorem that a barrier before the store to `head`
   (no `stale` slot when it is stored) gives back what `ServerThreads` promises.
