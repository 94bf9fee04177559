# A TLA+ model of jcu-unio

jcu-unio is a C++ wrapper of libuv: an event loop to which any thread may hand
tasks, handles (TCP sockets, timers) that live on the loop thread and report
through an event emitter, and an SSL socket that runs OpenSSL over any stream
socket. This directory models its own logic in TLA+, checks it with TLC on
small instances and proves its safety with TLAPS. libuv, OpenSSL and the C++
runtime are external: they appear as the library's code uses them.

## 1. Inventory

| Component | Source (`src/unio/`) | State | Operations | Module |
|---|---|---|---|---|
| Loop and task queue | `src/loop.cc`, `inc/jcu-unio/loop.h` | deque of tasks, recursive mutex, `uv_async_t` | `init`, `uninit`, `sendQueuedTask`, `processQueuedTask` | `LoopQueue` |
| Handle initialisation | `inc/jcu-unio/handle.h`, `src/handle.cc`, `emitter.h` (InitEvent) | `init_mtx_`, `inited_`, InitEvent listeners | `create`, `init`, `emitInit`, `on/once<InitEvent>` | `HandleInit` |
| Event emitter | `inc/jcu-unio/emitter.h` | per event a `std::list` of listeners | `on`, `once`, `off`, `offAll`, `emit` | `Emitter` |
| TCP socket, request references | `src/net/tcp_socket.cc`, `inc/jcu-unio/uv_helper.h` | uv handle, `connected_`, `read_buffer_`, heap objects per request, self reference | `connect`, `write`, `disconnect`, `read`, `cancelRead`, `bind`/`listen`, `accept`, `close`, libuv's callbacks | `TcpSocket` |
| Buffer and the read path | `src/buffer.cc`, alloc and read callbacks | capacity, position, limit | `position`, `limit`, `flip`, `clear`, `expand`, `allocCallback`, `readCallback` | `ReadBuffer` |
| Timer | `src/timer.cc` | uv timer, repeat value, self reference | `start`, `stop`, `again`, `setRepeat`, `close`, `timerCallback` | `Timer` |
| TLS engine | `src/net/openssl_provider.cc` | `state_`, SSL object, BIO pair | `beginHandshake`, `getHandshakeStatus`, `wrap`, `unwrap`, `shutdown` | `SslEngine` |
| SSL socket | `src/net/ssl_socket.cc` | parent, outbound buffer, inbound buffer, `connect_event_`, `handshaked_`, `closing_` | `connect`, `read`, `cancelRead`, `write`, `disconnect`, `close`, `setSocketOutboundBuffer`, `tlsProcess`, the parent's events | `SslSocket` |
| Life of any Handle | contract of the classes above | life, held, pending | | `HandleLife` (abstract) |
| Example programs | `src/example/*.cc` | `is_first_send_`, a socket, a helper thread | `create`, `start`, the listeners, `main` | `ExampleClient` |
| Event classes, parameters, resource bases, logger | `inc/jcu-unio/*.h`, `src/log.cc` | none that others depend on | | not modelled |

How the parts meet. A handle's `create()` sends a task to the loop that calls
`init()`; later calls happen on the loop thread. `TCPSocket::read` also goes
through the queue. libuv's callbacks enter through `uv_helper.h`, whose request
objects own a `shared_ptr` to the socket, and end in callbacks of the program or
in `emit`. An `SSLSocket` registers listeners with its parent socket, so the
parent's emitter owns it, and drives an engine from the parent's events.

What is hard here:

* two mutexes (the loop's, held while tasks run, and `init_mtx_`, held while
  InitEvent callbacks run and while a task is sent) taken in both orders;
* work sent before the loop starts, while it drains and while it is shut down;
* program callbacks that re-enter the object that called them: the emitter's
  iterator, a socket closed inside its read event, `tlsProcess` inside itself;
* objects that own themselves through a pending request or a uv handle;
* requests that fail at once, later, or because of `close()`;
* one outbound buffer shared by handshake, data and shutdown of TLS.

`PROJECT.json` lists each as a hazard, at its line, with the properties for it.

## 2. Modules

`LoopQueue <- HandleInit` (EXTENDS; `HandleInit` refines `LoopQueue`),
`LoopQueue <- ExampleClient` (EXTENDS, with `HandleLife` as its socket),
`SslEngine <- SslSocket` (EXTENDS), and `TcpSocket`, `Timer`, `SslSocket` each
INSTANCE `HandleLife` with a refinement mapping. `LoopQueueProofs`,
`HandleInitProofs`, `TcpSocketProofs`, `ReadBufferProofs`, `EmitterProofs`,
`TimerProofs`, `SslSocketProofs` and `ExampleClientProofs` hold the theorems, each
about the module of its name; `MCEmitter` adds the
symmetry set. The other modules are instantiated by their `.cfg` directly.

**LoopQueue.** A thread in `sendQueuedTask` goes through lock, push, signal; the
loop thread through init, poll, drain, one task at a time, and `uninit`, either
from a task (as the tests' TearDown does) or from a libuv callback. The mutex is
recursive and held during tasks, so a task may send. `uv_async_send` coalesces.
`sent`, `ran` and `uninitMark` are history. A task may be sent after `uninit` too:
it is queued and, once the drain in progress is over, never runs.

**HandleInit.** One handle on that loop. Registration is a sequence of steps
(lock `init_mtx_`, append or send, unlock), `init()` another (lock, `_init`, each
callback, mark `inited_`, unlock); both mutexes are explicit. Four constants say
what the program does: `ManualInit` (it calls `init()` itself), `SharesEarly` (other
threads register meanwhile), `TaskRegisters` (tasks register InitEvent callbacks), and
`Sharing`, who uses the handle before its InitEvent. `handlers_` has no lock and the
code no check, so this is a matter of the program: `"none"`, the loop thread alone, any
event included (as `SSLSocket::setParent` and the examples do); `"initEvent"`, all
threads, but only to register InitEvent callbacks; `"free"`, anything from any thread,
as in the unit tests. Registering an InitEvent
callback inside an InitEvent callback of the same handle locks a non-recursive
mutex twice and is excluded. A program that calls `init()` by hand leaves the queued
`init()` of `create()` behind it; with `SharesEarly = FALSE` no other thread
registers between the two (`AheadOfTask`), which is what keeps the locks apart.

**Emitter.** An emission is a frame with its iterator; a callback may register, emit
and remove the listeners of events that are not being emitted. An `on()` listener may
emit its own event again, so that several iterators walk one list, and once-listeners
in it are called and erased by the innermost. `OnceReemits` lets a once-listener emit
its own event as well, `OffInCallback` lets callbacks remove listeners from an emission
in progress.

**TcpSocket.** Every operation and callback; program code runs in frames of a
stack, so any operation may be called from any callback. A request is unused, with
libuv, done or refused; `ref` is its heap object. libuv's rules (what it refuses,
the order in which `uv_close` cancels) are external. The socket is used after its
InitEvent. A connection is `"up"`, then `"ended"` once libuv has reported the end of the
stream or a read error; after that it may refuse a request or not. `CancelEarly` lets the program cancel a read whose task has not run.

**ReadBuffer.** `VectorBuffer` with size arithmetic modulo `Word`, under any calls
of the program between `allocCallback` and `readCallback` pairs.

**Timer.** Time is "due or not": an armed timer may fire in any order with calls.
The timer is closed once, after InitEvent (`uv_close` aborts otherwise).

**SslEngine, SslSocket.** A TLS record is the unit of data; outbound records are
numbered, inbound ones are a handshake flight, a bad record, application data that
takes one or two reads, or close_notify. The BIO pair holds `BioCap` inbound records, the
outbound buffer `OutCap`, and one read of the parent brings up to `MaxCoalesced`. The parent follows the contract checked for `TcpSocket`; it
may also end (end of stream or a read error), of which the SSL socket tells nobody.
`setSocketOutboundBuffer` is called while no write is pending.
The socket's own code is a stack of continuations, so that re-entrance through the
program's callbacks is explicit. Constants describe the program (`Pipelines`,
`ReadsLate`, `WritesLate`, `Callbacks`, and `ClosesEarly`: it closes or disconnects
while `connect()` awaits its handshake), the protocol (`Tls13`) and the peer
(`PeerRejects`). In the mapping to `HandleLife` a `connect()` is pending until its
callback is called at the end of the handshake, not only until the parent is connected.

**ExampleClient.** The two programs of `src/example`, told apart by `secure`: `main`
creates the client, starts a helper thread that sends `uninit` after its sleep, and
runs the loop; the listeners connect, read, write, queue `disconnect` and close. The
loop is `LoopQueue`'s own actions, the socket `HandleLife`'s, so the module asks what
the two promise together. Abstractions: `uv_tcp_init` succeeds; the error branch of
the SocketReadEvent listeners is dead, because a TCP socket reports errors as
ErrorEvent; TLS is the outcome of handshake and disconnect that `SslSocket` allows; the
sleep may end at any time.

**HandleLife.** The abstract promise: after a successful init the library holds
the object; operations are handed down only while it is open and are all answered
before the one CloseEvent; the object is released after it; and a close that was
begun is carried through.

## 3. Runs

| Run | States | What it shows |
|---|---|---|
| `LoopQueue` | 32,896 | mutual exclusion, FIFO, no lost wake-up, `uninit` drains; every task sent before `uninit` runs, sends return, `uninit` ends the loop |
| `HandleInit` | 154,947 | with two threads besides the loop and manual `init()`: `_init` runs once, no InitEvent callback lost or doubled, no lock cycle, no race on the listener map if only InitEvent registrations are shared, all callbacks fire and registrations return |
| `HandleInitManual` | violation | manual `init()` with another thread registering: lock cycle |
| `TcpSocket` | 476,413 | answers exactly once, no dangling or leaked request object (but one), no read without a buffer, `isConnected` only of an open socket whose connect succeeded, implements `HandleLife` (one CloseEvent, after all answers; a close is carried through), a `read()` on a connection starts reading |
| `TcpSocketWriteLeak` | violation | a write refused at once leaks its `WriteRef` and the socket |
| `ReadBuffer` | 5,409 | what is offered to libuv lies in the allocation, capacity bounded, event shows what was read |
| `Emitter` | 331,575 | with emissions nested across events and, from `on()` listeners, in the same event: once-listeners once, iterator valid, every listener present at the start is reached |
| `Timer` | 279 | a one-shot timer fires at most once per start, an armed timer fires, implements `HandleLife` |
| `SslSocketCareful` | 606,139 | one operation at a time over TLS 1.2, two records per read: connect answered, records in order, nothing left in the BIO, what arrives during the handshake is kept, implements `HandleLife` with the connect that awaits its handshake |
| `SslSocketAny` | 718,484 | any use, TLS 1.3, a peer that rejects or ends: connect answered at most once, a disconnect that shut TLS down closes |
| `SslSocketRejected` | violation | a failed handshake is never reported |
| `ExampleClient` | 5,613 | a queued disconnect ends in the release of the socket, `uninit` ends `uv_run` unless a peer keeps a connection open, and nothing is left over then except after the peer's end or for a task that came too late |

**Bounds.** Three threads are needed for two senders to race each other and the
drain; four or five sends allow a task sent before init, during a drain, from a
task, and the uninit. Three requests are a connect, a write and a disconnect, or two
queued writes; two reads allow a read during a read event. Four listeners on two
events allow a once-listener between others and registration during nested
emissions of either. `Word = 8` with sizes 2 and 5 makes all comparisons of
`expand` and wrap-around in `limit - position` occur. SSL bounds let a BIO and a
buffer fill, records coalesce or arrive in parts, and a flight be larger than
the buffer. Three SocketReadEvents make the echo client answer one and ask for two
disconnects, the second on a socket that is shut down or closed; six sends are then
enough for every task of the example. Deadlock is checked except in `Timer`, where a program that never calls
it and one that has used up its bounds look alike.

**Fairness.** LoopQueue: weak, for each sender inside `sendQueuedTask` and the loop
thread; threads are scheduled, tasks return. HandleInit: weak for the threads, and
strong for the loop thread, separately for its own steps and for `init()`, which
compete for the loop mutex and `init_mtx_`: a thread that asks for a mutex again and
again gets it. TcpSocket: the loop runs its tasks, callbacks return
and, once closing, libuv cancels and calls back; the network owes nothing. Timer: as
TcpSocket, and time passes. SslSocket: its code runs on, and the parent answers,
which for a write on an open connection supposes that the peer goes on reading; no
liveness needs the peer to send. ExampleClient: both threads run, the helper's sleep
ends and libuv answers what it was given; the peer need not do anything.

## 4. What the code does not do

Three disagreements with what the repository says are runs (`findings`):
`HandleInitManual`, `TcpSocketWriteLeak`, `SslSocketRejected`. Other settings of
the same modules show where a property of a passing run depends on how the
library is used. Change the constant in the named configuration, or check the
named property there, to see the trace:

| Configuration | Change | Violated | Because |
|---|---|---|---|
| `HandleInit` | `Sharing = "free"` | `NoHandlersRace` | `handlers_` has no lock (`emitter.h:107`): a listener of another event, registered by the loop thread or, as in `tcp_socket_unittest.cc:38`, by another, meets a `once<InitEvent>` or the emission |
| `HandleInit` | `TaskRegisters = TRUE` | `NoLockCycle` | a task holds the loop mutex when it registers and waits for `init_mtx_` (`handle.h:48`) |
| `TcpSocket` | `CancelEarly = TRUE` | `ReadingHasBuffer` | the queued start runs after the cancel cleared the buffer (`tcp_socket.cc:165`) |
| `TcpSocket` | check `ConnectedMeansUp` | it | neither the end of the stream nor a read error clears `connected_` (`tcp_socket.cc:145-153`): `isConnected()` goes on reporting a connection that is gone |
| `ReadBuffer` | check `SocketCanRead` | it | the limit is taken before `expand` (`tcp_socket.cc:124-133`): a grown buffer is offered at its old size |
| `Emitter` | `OnceReemits = TRUE` | `OnceCalledOnce` | a once-listener is erased after its call (`emitter.h:75-77`), so its own emission of the event reaches it again, as when an ErrorEvent listener retries a write that libuv refuses |
| `Emitter` | `OffInCallback = TRUE` | `IteratorValid` | the iterator is used after the erase |
| `SslSocketCareful` | `Callbacks = {FALSE}` | `ConnectAnswered` | the connect event is only given to a callback (`ssl_socket.cc:187`) |
| `SslSocketCareful` | `PeerRejects = TRUE` | `WireOrder` | the alert of a failed handshake goes into the buffer under the pending first flight (`ssl_socket.cc:175`) |
| `SslSocketCareful` | `WritesLate = TRUE` | `WireOrder` | the result of `wrap` is ignored (`ssl_socket.cc:115`): a write after the disconnect sends the old bytes of the buffer |
| `SslSocketCareful` | `WriteSize = {2}` | `Flushed`, `WireOrder` | `wrap` reads the BIO once (`openssl_provider.cc:227`); the rest of a write larger than the buffer waits, and `tlsProcess` may send it from the buffer of the pending write (the `TODO` of `ssl_socket.cc:116`) |
| `SslSocketCareful` | `Tls13 = TRUE` | `WireOrder` | the last flight and close_notify together exceed the buffer of one record; with `OutCap = 2` it holds |
| `SslSocketCareful` | `Tls13 = TRUE` | `Flushed` | after the client's last flight the status is not NeedWrap (`openssl_provider.cc:151`); it leaves with the next write |
| `SslSocketCareful` | `Pipelines = TRUE` | `WireOrder` | the shared outbound buffer is reused under a pending write (`ssl_socket.cc:114`) |
| `SslSocketCareful` | check `AppDelivered` | it | `SSL_pending` knows only the record being read (`openssl_provider.cc:260`): a second record of the same read waits for the next one, although `socket.h:119` promises an event when there is data; with `MaxCoalesced = 1` it holds |
| `SslSocketCareful` | check `InputKept` (a PROPERTY) | it | what waits there fills the BIO pair, and `BIO_write` takes only what fits (`openssl_provider.cc:241`); with `MaxCoalesced = 1` it holds |
| `SslSocketCareful` | `MaxCoalesced = 3` | `EarlyInputKept` | a read that brings more than the BIO pair holds is cut; the read buffers of the examples, 8192 bytes against 17 kB, rule that out |
| `SslSocketCareful` | `ReadsLate = TRUE` | `ConnectAnswered`, `EarlyInputKept` | with a read buffer set before the handshake ends the loop goes on to `SSL_read` first (`openssl_provider.cc:252-256`): a close_notify behind the last flight is taken for an error, `tlsProcess` no longer reports the connect (`ssl_socket.cc:185-187`), and what comes after fills the BIO pair |
| `SslSocketCareful` | `ClosesEarly = TRUE` | `LifeContract` | a close during the handshake never calls the callback of `connect()` (`ssl_socket.cc:71-76`, `187`, `241-250`), which `stream_socket.h:40` promises when the connect is complete |
| `SslSocketCareful` | check `DisconnectComplete` (a PROPERTY) | it | the callback may run before close_notify is written (`ssl_socket.cc:222`) |

Read from the code, outside the properties: `socket.h:132-145` says that a write
without a callback emits an event, while `SSLSocket::write` calls the empty function
(`ssl_socket.cc:118`), so the model always passes a callback; and a `read()` before
the connection exists does nothing, because the result of `uv_read_start` is ignored
(`tcp_socket.cc:166`), so `ReadStarts` speaks of reads on a connection.

## 5. Proofs

All theorems hold for every value of the constants that satisfies the ASSUMEs of
the modules (any threads, tasks, number of sends, requests, listeners, sizes). Where a
theorem needs a discipline of the program it is written as its ASSUME, and a
configuration of section 3 or 4 shows that the property fails without it. Each
inductive invariant was first checked with TLC on the constants of the component's run.

**LoopQueueProofs**: `TypeCorrect`, `MutualExclusionHolds`, `FIFOHolds`,
`NoLostWakeupHolds`, `UninitDrainsHolds`. None of the properties is inductive
alone. The inductive `IInv` adds: a thread in a send carries a task (`ArgInv`); the
loop thread is not sending while it waits for the mutex or looks at the deque
(`LoopPcInv`); who is in the critical section owns the mutex, at the depth its
place says, two when a task sends (`OwnerInv`); and uninit is not marked beyond what
was sent (`MarkInv`).

**HandleInitProofs**: `HandleTypeCorrect`; `HandleRefinesLoop` (`HSafety =>
Safety`: each step of the composition is a step of the queue or leaves it alone,
so the queue's theorems carry over, as `HandleFIFO` shows); `NoLockCycleHolds`: under
`Disciplined` (`~SharesEarly` and no registration from tasks; manual `init()` is
allowed) the two mutexes never wait for each other; and `InitOnceHolds`, which needs no
discipline: `OnceInv` says that `_init` has run only if `inited_` is set or `init()` is
between its lock and its mark. The invariant of the former, `KInv`, says who holds
`init_mtx_` (`LockInv`), that whoever sends under it found `inited_` set while `init()` runs only before that
(`PlaceInv`), that there is one init task (`OneInit`), and that no other thread is inside a
registration while a queued `init()` is left behind a manual one (`AheadInv`).
`HandleInitManual` shows the assumption is needed. `NoHandlersRaceHolds` assumes
`Sharing # "free"`; its `UseInv` says that outside `init_mtx_` only the loop thread uses
the map, from a callback of InitEvent on or while no other thread has the handle. `InitEventNotLostHolds` assumes nothing: each
callback is in the hands of one thread (`CarryInv`), then in the listener list or in the
loop's queue and never in both (`PathInv`), and has been called exactly if `emitInit`'s
walk has passed it or its task has run (`CallInv`).

**TcpSocketProofs**: `ResultsOnce`, `ObjectsAlive`, `ObjectsFreed`, `IsConnectedSound`,
`ReadFindsBuffer` (assumes `~CancelEarly`) and `SocketKeepsLife`, the refinement of
`HandleLife`'s safety part. The invariant relates the request objects to what libuv
holds: init is the first task and nobody uses the socket before it (`TaskInv`), libuv
has requests only of a live handle (`UvInv`) and each pending write once in its queue
(`QueueInv`), its callbacks do not nest, except that a refusal is reported inside
another callback (`StackInv`), and there is one connect at a time (`ConnectInv`). To a
request a step can only do six things (libuv takes it, refuses it or answers it, a
callback begins or returns, or it is left alone), and each part is proved preserved by
these rather than by every action anew.

**TimerProofs**: `FiresOncePerStart` and `TimerKeepsLife`. An armed timer's repeat value
agrees with its history (`RepeatInv`), and `HandleRef` holds the timer from init to the
end of `closeCallback` (`HoldInv`).

**EmitterProofs**: `IteratorsStayValid`, `OnceIsOnce` and `EmitIsComplete`, for `Careful`
programs (`~OnceReemits /\ ~OffInCallback`: a once-listener does not emit its own event,
and callbacks remove listeners only of events not being emitted). A listener is in one
place of one list (`ListInv`), emissions of one event nest only inside its `on()`
listeners (`NestInv`), so that what an inner one erases is never where an outer one
stands, a listener that runs has been counted (`TurnInv`), a once-listener that was called is being called or is gone (`CountInv`), and what an emission has still
to call comes after its iterator in the list (`ReachInv`).

**SslSocketProofs**. For any program and peer: `ConnectReportedOnce`.
`ConnectInv` says what may run on top of the connect callback: reports and disconnects,
and `tlsProcess` only once the state is no longer `handshaked`, so that it cannot report
again; and while the connect event is kept and its callback is not running, nothing has been
reported. The other theorems are about what BIO pair, buffers and wire hold together. They
rest on `EngineInvariant`, again for any program and peer: the read loop's code and
`tlsProcess` run only as the outermost frame, but for the `tlsProcess` of a `disconnect()`
(`ShapeInv`), which frame runs and `state_` agree with OpenSSL's state (`EngineInv`), and
before the connection there are no records (`FreshInv`). Then each takes the least it needs
of program and peer, and section 4 has the trace for each hypothesis it cannot do without:

| Theorem | Property | For | Invariant |
|---|---|---|---|
| `SslKeepsLife` | the safety part of `LifeContract` | a program that awaits the answer of `connect()` before it closes or disconnects (`~ClosesEarly`), any peer | `AwaitInv`: while the connect is unanswered the parent is open |
| `ConnectIsAnswered` | `ConnectAnswered` | connects with a callback, the read buffer set once connected, a peer that does not reject | `AnswerInv`: the callback is kept, or was called; `ReportInv`: from the end of the handshake to the answer the code is on its way to `tlsProcess` |
| `EarlyInputIsKept` | `EarlyInputKept` | the same, and one read fits the BIO pair (`MaxCoalesced <= BioCap`) | `EarlyInv`: until the handshake ends, each read finds the BIO empty, and leaves it so |
| `WireKeepsOrder` | `WireOrder` | a peer that does not reject, and a `CarefulWriter`: no write or disconnect under a pending write, none after the disconnect or an error, and writes and close_notify fit the buffer together with TLS 1.3's last flight | `WireInv` |
| `BioIsFlushed` | `Flushed` | TLS 1.2, each write fits the buffer | `FlushInv`: what is in the BIO is one record, and `tlsProcess` runs next |

`FlowInvariant` proves `PipeInv` and `WireInv` together, because they hold each other up.
`PipeInv` follows the peer's records through net, input and BIO: the peer is at most one
flight ahead of what OpenSSL consumed, and no data overtakes a flight. `WireInv` counts the
client's: what OpenSSL made is on the wire, in the outbound buffer or in the BIO, in this
order, and the buffer is not in use when something is put into it (`Counted`). The peer
sends a flight only after it received one (`PeerBehind`), which is why the client's answer
finds the buffer free, without any help of the program; after the handshake it is the
program's discipline that keeps it free (`OnlyTold`), and only close_notify on its way out
or TLS 1.3's last flight is left in the BIO (`Leftover`).

**ExampleClientProofs**: `ClientRefinesLoop` and `ClientFIFO`, as for `HandleInit`, and
`ExitsReleasedHolds`: client code runs only inside a callback or a task (`PcInv`), the init
task is in the queue until the socket is opened (`NewInv`), and an open socket is
connecting, reading, ended by its peer, or about to read or to close (`LiveInv`), so
that `uv_run` cannot return and leave it, but for the cases the property names.

**ReadBufferProofs**: `TypeCorrect`, `OfferFitsHolds`, `CapBoundedHolds`,
`CapGrowsHolds` (capacity never shrinks), `EventShowsReadHolds`, and
`FixedBufferOffersAll`: a buffer created at its full size is always offered
entirely, which is the half of `SocketCanRead` that is true.

Only model-checked: all liveness (fairness and ENABLED are out of the prover's
reach), and so the fairness part of the refinements to `HandleLife`. Every invariant of a
passing run, and every action property, is a theorem.

## 6. Not modelled

Logger, event classes, connect and bind parameters and resource bases
(no behaviour others depend on); the OpenSSL context, provider and `tls1Prf`
(configuration and computation); the server role of the engine (no caller); a limit of
the outbound half of the BIO pair, which `SSL_write` meets only with more than 17 kB in
one call (`openssl_provider.cc:218-220`);
a failing `BIO_new_bio_pair`; an SSL write with a null callback (it throws);
`setSocketOutboundBuffer` under a pending write, and an SSL socket over a parent whose
init failed; the ownership of the caller's buffers. Loss of input when the
BIO pair is full is in the model; `EarlyInputKept` asks for none only until the end of the
handshake, because later it does happen (`InputKept`, section 4). Of the program it is
assumed that sockets and timers are used after InitEvent, on the loop thread; that it does not connect after close; that it calls
`uninit` once.

## 7. Plan

Done, in this order: the loop queue; handle initialisation over it; the socket; the
buffer; the emitter; the timer; the TLS engine and socket; the proofs above; then the
end of the parent's stream and the outbound buffer in `SslSocket`, removal in the
emitter's callbacks, manual `init()` with several threads, and the example programs over
loop and life contract; then the proofs about the socket, the timer, the emitter, the
SSL socket and the examples; last, those about the records of the SSL socket. Further work
would need the library to change first: a buffer per write and a loop over `wrap` would let
`WireKeepsOrder` and `BioIsFlushed` drop their hypotheses, a failed handshake that is
reported would let `ConnectIsAnswered` hold for every peer, a close that answers a pending
connect would let `SslKeepsLife` hold for every program, and a read loop that goes on until
OpenSSL has nothing left would make `AppDelivered` and `InputKept` properties of a run.
