# RingSwarm in TLA+

A verification project for RingSwarm, a C++20 peer-to-peer node built on
coroutines, a thread pool and libuv. Paths are relative to the repository
(`src/` of it holds the program). The repository has no README, tests or
design notes: what the code promises is in its assertions
(`Assert(expr, "what must hold")`), and these are what the properties quote.

To repeat the work, in this directory:

    tlc -workers 2 -config MCClientTransport_ping.cfg MCClientTransport
    tlapm ClientTransportProofs.tla

and so for every run of section 3 and every `*Proofs` module.

## 1. The system

`main` (main.cpp:44-69) creates a pool of 16 worker threads and one event loop
thread, starts a server on a port, opens connections to it, sends two pings on
each at once, waits for them all, and stops the loop and then the pool.

| part | state | operations | talks to |
|---|---|---|---|
| worker pool, `async/ThreadPool` | stack of coroutine handles, stop flag, two condition variables | worker loop, `resumeCoroutine`, `waitEmpty`, `blockingStop` | everything that resumes a coroutine |
| event loop, `async/EventLoop`, `EventLoopLock` | two mutexes, the lock's owner, a wake-up pipe, stop flags | loop thread, `acquireEventLoopLock` and its release, `stop` | every thread that touches a socket |
| coroutine runtime, `async/Promise`, `Coroutine`, `ChainedAwaitObject`, `FinalAwait`, ... | per coroutine: caller, exception, `mayBeChecked`, `checked` | start, await, suspend, resume, end, check, destroy | the pool; all coroutines |
| blocking wait, `async/SyncCoroutineWaiter` | a flag and a condition variable | `wait` | `main`, `~NodeContext` |
| TCP transport, `transport/PlainSocketTransport` | one read in progress (buffer, size, offset, handle), read and write flags | `connect`, `rawRead`, `rawWrite`, `close`, libuv callbacks | event loop, pool, RPC |
| TCP server, `transport/PlainSocketServer` | listening socket, callback | `listen`, accept | event loop, node |
| RPC client, `proto/ClientTransport` | map tag -> request, a lock, the waiter coroutine, what is unread of a body | `sendSmallRequest`, `sendRequest`, `rawRead`, `waitForAnyResponse` | transport, pool |
| RPC server, `proto/ServerHandler` | map tag -> handler, finished handlers, write lock with its waiters, two mutexes | `listen`, `handleRequest`, methods, `acquireWriteLock` | transport, pool |
| node, `core/NodeContext` | lists of running and of finished connection handlers, two mutexes | `addServer`, `handleServerConnection`, destructor | TCP server, RPC server, blocking wait |
| buffers, `transport/Buffer` and subclasses | data, length, offset (32 bit) | typed reads and writes | RPC |
| overlay and wrapper transports | the transport they hold | forward | RPC server |
| cryptography, identities | values | hash, sign, compare, format | nothing concurrent |

Interactions. A coroutine starts on its caller's thread and runs until it
suspends; whoever can resume it pushes its handle on the pool's stack; any
worker pops and resumes it. Callbacks of sockets run on the loop thread and
only push handles. A thread other than the loop's takes the event loop's lock
to start a read or to close a socket. The RPC client and server share nothing
but the byte stream.

What is hard here: coroutines that resume one another on different threads; a
right (to read the socket, to write to it, to use the loop) that is passed from
one coroutine to another and must be neither lost nor doubled; tags and map
entries that are used again while messages under way still name them; handles
that outlive what they point to; the end of a connection while handlers run;
wake-ups that may be lost; shutdown. `PROJECT.json` lists every such place with
its line under `hazards`.

What makes each part correct:

- worker pool: what is scheduled is run once; no worker sleeps while a
  coroutine waits; stopping returns.
- event loop: two threads never hold the lock; the loop and a holder overlap as
  little as possible; who asks for the lock gets it; stopping returns.
- coroutine runtime: an awaiting coroutine is resumed once, after the awaited
  one has ended; results and exceptions reach it; nothing is destroyed early.
- TCP transport: one reader, resumed once, with all its bytes or the exception;
  one writer.
- RPC client: a call returns, and only with its own response.
- RPC server: responses do not mix; every request started is answered; a
  handler's entry lives as long as the handler; the end of the connection
  leaves nothing behind.
- node: a handler that ended is checked once and destroyed; the destructor
  returns.

## 2. The modules

| module | models | checked by |
|---|---|---|
| `RpcCalls` | what `sendSmallRequest` promises its callers (abstract) | as a property of `client_ping` |
| `ClientTransport` | `proto/ClientTransport.cpp` with the peer as its environment | `client_ping`, `client_bodies`, `client_stale` |
| `ClientTransportProofs` | theorems about `ClientTransport` | TLAPS |
| `ServerHandler` | `proto/ServerHandler.cpp`, `shadow/PingHandler.cpp`, `shadow/GetNodeHandler.cpp` with the client as its environment | `server_ping`, `server_getnode`, `server_reuse`, `server_close` |
| `ServerHandlerProofs` | theorems about `ServerHandler` | TLAPS |
| `ThreadPool` | `async/ThreadPool.cpp` and the stop in main.cpp | `pool` |
| `ThreadPoolProofs` | theorems about `ThreadPool` | TLAPS |
| `EventLoop` | `async/EventLoop.cpp`, `EventLoopLock.cpp` | `loop` |
| `EventLoopProofs` | theorems about `EventLoop` | TLAPS |
| `AwaitChain` | what `co_await f()` promises (abstract) | as a property of `join` |
| `Coroutines` | `async/Promise.h`, `Coroutine.h`, `ChainedAwaitObject.h`, `AwaitResumeResult.h`, `FinalAwait.h`, `ResumeSuspendAwaitObject.h`, `SyncCoroutineWaiter.h` | `join` |
| `CoroutinesProofs` | theorems about `Coroutines` | TLAPS |
| `ByteStream` | what a connected `Transport` promises (abstract) | as a property of `socket` |
| `PlainSocket` | `transport/PlainSocketTransport.cpp` | `socket` |
| `PlainSocketProofs` | theorems about `PlainSocket` | TLAPS |
| `NodeContext` | `core/NodeContext.cpp`, the callback and the end of `transport/PlainSocketServer.cpp` | `node` |
| `NodeContextProofs` | theorems about `NodeContext` | TLAPS |
| `Buffer` | `transport/Buffer.h`, `Buffer.cpp`, `proto/RequestBuffer.h` | TLAPS |
| `BufferProofs` | theorems about `Buffer` | TLAPS |

`MC*` modules and the `.cfg` files instantiate them. A definition whose comment
begins with "Mutant:" is no part of its module's specification: it is the next
definition with a plausible mistake, and shows that a property can tell the
two apart.

### ClientTransport

One action per stretch of code between two points where another thread can
matter: the spin of `reserveRequestState`, its lock, its scan (`Spin`, `Lock`,
`ScanFails`, `Insert`), the suspend callback up to the write and after it
(`Send`, `Suspend`), the waiter coroutine's turn (`Receive*`), the rest of
`sendRequest` after its resumption (`Resume*`, `Unlock`, `Return`), and the read
of a body (`StartBody`, `ReadBody`, `FinishBody*`). `pending` is the map, from
tags to addresses; `state` is what is at the addresses and keeps the contents of
an entry that was freed, so that the read of line 60 sees what the address
holds by then. `crash` names what ended the process: a failed assertion, an
exception in a coroutine nobody awaits, an undefined step; the action that
leads there is part of the specification, and the properties say which ends are
impossible.

The coroutines run on a pool of `Workers` threads. A request keeps its worker at
the places in `OnWorker`, also while it spins (line 123); to resume one that is
suspended, or the waiter, takes a worker that is free (`FreeWorker`). The spin is
taken as written: a compiler that drops the empty loop leaves the retry of line
133, which keeps the worker in the same way.

Two kinds of behaviour: with `RespLens = {0}` the server answers as the handlers
of this repository do, without a body; with `{0, 1}` it also answers with one,
which `sendSmallRequest` is written for. `rh` is the header a request copied with a
body to read; its field `from` is a ghost that says whose response it was, and
`Misread` that some request took another's for its own.

The responses under way are a set: the server may answer in any order, so any
order of taking them is one of the orders of the stream.

### ServerHandler

The listener's loop is a sequence of actions with its own program counter;
each handler has another. `finished` holds addresses of entries, as the code's
vector of references does, and is never emptied, as in the code: `Reapable`
says when a pass over it does what was meant, and `ReapStale` is what happens
otherwise. The client is the one of `ClientTransport.cpp`: it gives a request the
lowest tag no unanswered request has. `keeping` is `handlersKeepingLock`; its
second release in `FallThrough` takes it from whoever holds it.

What the drain at the end of a connection does to a handler depends on whether
the handler is suspended. One that takes the write lock at once never suspends
in its method: it runs on a worker through `acquire`, `granted` and `writing` until
it parks (`OnPool`), and to resume it is undefined (`double_resume`). One that had
to wait is suspended at the co_await of its method, while it waits and after
the lock was handed to it (`waiting`, `handed`, `sending`; `AwaitsMethod`): to resume it
is the failed assertion of Promise.h:80.

### ThreadPool and EventLoop

A mutex is a variable that names its holder; a condition variable is the set of
threads asleep on it, a notification is a step of its own outside the lock, and
wake-ups may be spurious. In `EventLoop` a run of libuv ends when a byte is in
the pipe, `uv_stop` was called or some socket is ready, and empties the pipe.
`runs` is a ghost that counts the runs begun under one holder.

### Coroutines and AwaitChain

A chain of coroutines: number 0 is `waitHelper` of the blocking wait, each calls
and awaits the next one, the last suspends itself. A coroutine starts on the
thread of its caller, so `Ready` waits until the call has returned; from then on
it runs on the thread of whoever resumes it, and its end (`Unhandled`,
`Finalize`, `SuspendFinally`, `Transfer`) interleaves with the co_await of the one
before it (`Ready`, `Store`, `Take`). `SuspendFinally` is the moment at which
`done()` becomes true, before `FinalAwait::await_suspend` reads the caller:
`TransferDestroyed` is what that read does in a frame that another thread has
taken and destroyed in between. An exception that leaves a coroutine which has
no stored caller is thrown on at whoever runs it. Where that is the body of its
caller, inside the call or inside `resumeSuspended` (`InCall`), the exception goes on
there without a co_await, and may be caught (`Escape`); on the way it destroys a
promise that nobody has checked, which a build with assertions ends at
Promise.h:102 (`unchecked_destroy`): both outcomes are in the model. Where it is a
worker or `main`, the process ends (`Unhandled`). `held` chooses between the two ways the program
resumes a suspended coroutine: through the pool, as a transport does, or by
`resumeSuspended` on the thread of the one that awaits it, as the RPC listener
does with its handlers.

`AwaitChain` has two steps for each coroutine, its end and the taking of its
outcome, or one in which it fails inside its call, and says in which order they
come and what an outcome may become on its way. `Coroutines` implements it with the results as a ghost and the destroyed
frames as what was taken.

### PlainSocket and ByteStream

`read` has the members `rawRead` publishes for the callbacks, `co` the coroutine,
`socket` what libuv knows of the connection. The steps of a read are those
between which a callback or another thread can come: the flag and the buffer
(`Start`), the suspend callback under the lock (`Request`), the caller's `Join`, the
resumption (`Return`). A read that finds the socket closing resets the members and
throws the exception out of its call (`FailAtOnce`); whoever called may catch it,
as `ServerHandler::listen` does at line 51. The callbacks are whole actions: they run one after the
other on the loop's thread. `conn` has the same for `connect` and remembers whose
error callback is installed. Bytes are numbers in the order the peer sent
them, so that a byte that is lost, doubled or moved in the buffer shows.

`ByteStream` reads and writes with no socket in between: a read in progress
returns the next bytes or fails, once and for ever; each write reaches the peer
with its first bytes, perhaps none.

### NodeContext

The loop's thread, one worker coroutine for each connection and the main
thread, with both mutexes and the two lists. A context is in one list at a
time; `taken` are those whose coroutine the destructor has moved into its waiter,
and their context goes on to `finishedHandlers` without it. Steps that close or
destroy a transport need `loop.pc = "idle"`: they take the event loop's lock,
which waits until no callback runs. A handler's `listen` ends at any time, because
its connection does or because its next read finds it closed (`ListenEnds`). `late` is a ghost: the connections that were
added after the destructor's loop over the transports.

### Buffer

A buffer is a value, an operation a function from a buffer to a buffer;
`Minus` and `Plus` are the arithmetic of `uint32_t` with its wrap-around. The
representation of an integer in memory is a pair of constants, `Encode` and
`Decode`. The module has no behaviour and no run: its theorems hold for every
width.

## 3. The runs

| run | question | bounds | result |
|---|---|---|---|
| `client_ping` | Is the hand-over of the waiter safe and live, does the connection implement `RpcCalls`, when do spinning callers take every worker? | 4 calls, 2 tags, 2 addresses, 2 workers, no bodies | holds, 167 000 states |
| `client_bodies` | What is left with bodies? | 4 calls, 2 tags, 4 addresses, 16 workers, body lengths 0 and 1, symmetry | holds, 48 000 states: no stale waiter; one reader, own responses, no unknown response and no header read inside a body before a header was misread |
| `client_stale` | Is the socket read by one coroutine at a time with bodies? | 3 calls, 2 tags, 3 addresses, body lengths 0 and 1 | violated |
| `server_ping` | Are responses kept apart, handlers' entries alive, the pings answered? | 3 requests, 3 tags, 3 addresses, one request whose body is late | holds, 344 000 states |
| `server_getnode` | Is the write lock safe with a method that does not take it? | the same with `GetNode` | violated |
| `server_reuse` | Does the listener destroy only handlers that were awaited? | 3 requests, 2 tags | violated |
| `server_close` | Does the end of the connection resume only handlers that have ended? | 3 requests, 2 tags | violated |
| `pool` | Is every resumption run once, is no worker idle, does stopping return? | 3 workers, 1 other thread, 2 resumptions | holds, 40 000 states |
| `loop` | Is the lock exclusive and live, does stopping return? | 3 threads, one turn each and one for `stop`, a pipe of 4 bytes | holds, 7 500 states |
| `join` | Does every co_await go on after the end it waits for, does no exception get lost, does the blocking wait return? | 4 coroutines, one of which catches, 2 suspensions | holds, 1 350 states |
| `socket` | Do the callbacks and the reader agree, is the transport a byte stream, does a read return when the socket closes? | 3 reads of 0 to 2 bytes, 4 bytes from the peer, 2 writes of 1 or 2 bytes | holds, 46 000 states |
| `node` | Is each handler's coroutine checked once and after its end, does the destructor return? | 3 connections | holds, 68 000 states |

Why the bounds are enough. Two tags and two workers with four callers are the
least with two suspended requests that hold the tags and two spinning callers
that take the workers. With one spinning caller a request is resumed and frees
its tag, two callers race for it, and the one that loses starts again. Tags and addresses are used a
second time while their first user still has a reference. `client_bodies` has as
many workers as the program, so that all callers run at once; its two further
addresses let the allocator choose, and its four callers are one that was given
the address of another, one that misreads, and two more to meet what the
misread left behind. Three requests on the
server are one that writes, one that waits, and one that releases or reuses a
tag. Three workers are one that runs a long coroutine, one that is being
notified and one that sleeps; two resumptions fill the stack in front of the
null handles. Three threads at the loop are a holder, one that waits, and
`main` that stops; the pipe holds a byte of every turn. Four coroutines are the
helper, one that passes an exception on, one that catches and the one that
suspends; two suspensions let the second meet a caller that is stored and the
first one that is not. A read of two bytes can be filled in two steps and fail
between them; the third read follows one that was complete and one that was
empty; four bytes are enough for two reads and one too many. Three connections
are one that has ended, one that runs, and one that arrives while the
destructor is at work.

The passing runs say what holds *until the process ends* where the process can
end: `crash` values that no property excludes (a data race on the client's map,
a closed connection, a second pass over `finishedHandlers`) are reachable, and
listed among the hazards. The liveness properties of `client_ping`, `join`, `socket` and
`node` name the remaining exceptions as definitions of their own, so that nothing else can
hide behind them:

- `Starved`: every tag is taken and every worker spins for one, so that none is
  left to resume the waiter or a request that would free a tag
  (ClientTransport.cpp:123). `EnoughWorkers` says that this takes at least as many
  calls at once as there are tags and workers together, which in the program
  is 65535 and 16 (main.cpp:49).
- `CallerLost`: a coroutine ends between `await_ready` and `await_suspend` of the one
  that awaits it, on another thread. The caller is stored too late and nobody
  resumes it (ChainedAwaitObject.h:21-27).
- `NotificationLost`: `doneFlag` is set and notified without the mutex, between the
  waiter's test and its sleep (SyncCoroutineWaiter.h:87-88, 103). In `join` it is
  not terminal: a spurious wake-up, for which no fairness is assumed, still helps.
- `Refused`: `connect` suspends although libuv refused the connect at once
  (PlainSocketTransport.cpp:69-79).
- `Deadlocked`: a connection arrives, and its callback waits on the loop's thread
  for a mutex that the destructor holds while it waits for the loop
  (NodeContext.cpp:15, 56-57; 73, 79).
- `Overlooked`: a connection that was accepted after the destructor's loop over
  the transports stays open until its peer closes it (NodeContext.cpp:57, 63-67).

Nothing in the repository states the contrary of any of them, so they are
hazards and not findings.

The violated properties are assertions of the code:

- `client_stale`: `sendRequest` copies the header through a reference whose entry
  it has erased (ClientTransport.cpp:60). With bodies, a caller whose entry's
  address was given to another request reads that request's header, and two
  coroutines read the socket: "simultaneous read on tcp socket"
  (PlainSocketTransport.cpp:85). This misread (`Misread`) is where disorder begins:
  with a fourth caller it also leads to a response with an unknown tag and to a
  header read in the middle of a body, because the tag that is freed at the end
  of the body is another caller's; with a fifth, the waiter finds an entry whose
  handle is not stored yet and schedules a null handle, which a worker skips
  (ThreadPool.cpp:28): the waiter stays parked and who waits is not resumed.
- `server_getnode`: every handler releases the write lock
  (ServerHandler.cpp:71-78), `handleGetNode` never took it: "simultaneous write
  to tcp socket" (PlainSocketTransport.cpp:139).
- `server_reuse`: a refused request falls through (ServerHandler.cpp:36-42), and a
  client that reuses a tag as soon as it has the response is refused while the
  old handler has not parked: "coroutine must be checked before destruction"
  (Promise.h:102).
- `server_close`: the drain at ServerHandler.cpp:56-60 resumes handlers wherever
  they are, also one that waits in `acquireWriteLock` while another writes: its
  method has not ended, and "check coroutine only after it exits"
  (Promise.h:80) fails.

Another observation made with `EventLoop`, outside the run's bounds: with a pipe
smaller than the number of turns, the loop thread may leave at the flag `stop`
has set while `main` spins on the full pipe with the lock taken
(EventLoop.cpp:83).

## 4. Fairness

- `ClientTransport`: weak fairness of every request that is on a worker, because
  the operating system runs every worker; of taking some handle while a worker
  is free (`TakeHandle`), but not of taking a particular one, because the pool's
  stack gives the last one pushed; and of the peer's responses (unless it
  closes). No fairness of calls. Each request calls once, so handles run out and
  every one is taken in the end; a spinning caller finds a tag unless the workers
  are lost (`Starved`).
- `ServerHandler`: weak fairness of the listener and of every handler; none of the
  client, which may stop sending or never close.
- `ThreadPool`: weak fairness of every thread, strong fairness of taking `popLock`:
  a mutex that is free again and again is obtained. None of spurious wake-ups
  and of scheduling.
- `EventLoop`: the same; none of socket events, so the loop must be woken by the
  pipe alone.

- `Coroutines`: weak fairness of every thread, and of the event the last coroutine
  waits for; none of spurious wake-ups.
- `PlainSocket`: weak fairness of the coroutines, of the callbacks that report an
  end or a close, of an answer to a connect that was begun, and of `try_write`
  (the peer reads). None of data, errors, closing or new calls.
- `NodeContext`: strong fairness of the callback, the handlers and the destructor,
  which obtain a mutex or the loop's lock that is free again and again; weak
  fairness of the end of a connection that was closed by the destructor
  (`socket` shows that its reader is resumed). None of connections that arrive or
  of peers that close.

## 5. The proofs

Eight modules hold the theorems, one for each component. They are about the
specifications the runs use, without bounds: any number of requests, tags,
threads, coroutines or connections. The assumptions are the named ones of each
model about its constants (numbers are numbers, `None` is nobody), which TLC
evaluates in every run of the model; where a theorem needs more, its statement
says so.

| module | invariants of runs | refinement | further hypothesis |
|---|---|---|---|
| `ClientTransportProofs` | `TypeOK`, `WaiterFreed`, `ResponseExpected`, `HeaderAligned`, `OrderUntilMisread` | `RpcCalls`, until `Misread` | none |
| | `ReadExclusive`, `WaiterPresent`, `OwnResponse`, `NoStrandedRequest` | `RpcCalls` | `RespLens = {0}` |
| | `EnoughWorkers` | | `RespLens = {0}`, finitely many calls |
| `ServerHandlerProofs` | `TypeOK`, `EntryLive` | | none |
| | `WriteExclusive` and `WriteLockOwned`, until `Lockless`; `HandlersChecked`, until `TagReused` | | none |
| | `WriteExclusive`, `WriteLockOwned` | | `Methods = {"Ping"}` |
| `ThreadPoolProofs` | `TypeOK`, `ScheduledOnce`, `NoIdleWorker`, `EnoughToStop` | | none |
| `EventLoopProofs` | `TypeOK`, `HoldersExclusive`, `OverlapBounded` | | none |
| `CoroutinesProofs` | `TypeOK`, `AwaitsAfterEnd`, `ErrorKept` | `AwaitChain` | none |
| `PlainSocketProofs` | `TypeOK`, `ReadRequested` | `ByteStream` | none |
| `NodeContextProofs` | `TypeOK`, `CheckedOnce` | | none |
| `BufferProofs` | (no behaviour) | | `Machine` |

Each module has the same layout: the parts of the inductive invariant `IInv`,
lemmas about what the proofs keep needing, one lemma per action with one step
per part, `Invariance` (`Spec => []IInv`), and the theorems about the properties,
which follow from it. None of the properties is inductive as it stands.

### ClientTransport

`ClientTransportProofs` proves, for any sets of callers and of addresses, any
number of tags and any lengths of bodies, that the specification satisfies
`TypeOK`, `WaiterFreed`, `ResponseExpected` and `HeaderAligned`, and
(`SoundUntilMisread`) that `ReadExclusive` and `OwnResponse` hold until a header is
misread: the stale read of line 60 is the only way to two readers of the socket
and to a response in the hands of the wrong call. With `RespLens = {0}` nothing is
misread, and `ReadExclusive`, `WaiterPresent`, `OwnResponse` and
`NoStrandedRequest` hold without condition. That hypothesis is in the theorems:
with bodies `ReadExclusive` is false (`client_stale`), a waiter is missing at the end
of every body, and a request is pending without a waiter while another reads
its body. The other assumptions are the named ones of `ClientTransport`,
which TLC evaluates in each of its runs.

None of these invariants is inductive: nothing in "the waiter is parked when a
request resumes" says why. The inductive invariant has two layers:

    IInv == BaseInv /\ (Misread \/ Orderly \/ Stuck)

`BaseInv` holds in every state, whatever was misread:

- `Types`, and `RefInv`: whoever was given an entry has its address;
- `HeaderOnce`: a request copies one header in its life, so a misread is for ever
  (`MisreadStays`);
- `LockInv`: the lock is held by exactly the request whose coroutine is between
  its two ends;
- `ReservedInv`: while there is a waiter the map is not empty, and a request about
  to suspend that finds a waiter is not alone in the map; `WaiterFreed` follows;
- `ReaderInv`: while the process runs at most one request reads a body, no waiter
  reads next to it, and the bytes are there.

`Orderly` holds until a header is misread:

- `EntryInv`: the requests that have an entry (`Has`: those that wait, and the one
  that has a body to read, `OwesBody`) and the entries of the map correspond one to
  one, by tag and by address;
- `MessageInv`: what is under way for a request carries the tag of its entry, is
  under way once, and not for a request that is scheduled already;
- `WaiterInv`: the waiter is parked exactly while one request is scheduled, with
  its own response, and there is a waiter exactly while a request is suspended
  and no body is to be read;
- `BodyInv`: what is unread is the body of the one request that has one to read or
  is scheduled with one, and nothing else; whoever reads copied its own header;
- `Survives`: the process ended, if at all, by a closed connection or by the race
  on the map.

`Stuck` is the end of the process at the end of the first body (line 87): the
waiter that is resumed there was moved away.

The heart of it is `SuspendOrderly` and `ResumeOrderly`: the code asks the size of
the map (lines 37 and 53) where it means "is another request suspended". The
two agree because whoever has an entry is suspended, has a body to read, or is
inside the lock, and only the one who asks is inside the lock.
`StartBodyOrderly` is where the layers part: the header at the address is the
request's own, and then everything stays in order, or another's, and then
`Misread` holds from there on. `PlainInv` is `BaseInv`, `Orderly` and "nobody reads a
body", which is inductive with `RespLens = {0}`.

With three calls, `ResponseExpected` and `HeaderAligned` hold without their
exception `Misread`, and an earlier version of the model stated them so; the
attempt to prove them showed that more callers break them (section 3).

`CallsUntilMisread` and `Refinement` map a call to how far it has come
(`Progress`): `SendIssues`, `RespondAnswers` and `ReturnReturns` are the three steps of
`RpcCalls`, `QuietStep` says that no other step is seen. A call that returns, with
a body or without, was answered because nothing of it is under way any more
(`MessageInv`). `NextRefines` shows it of every step of an orderly connection;
`CallsUntilMisread` is what follows for bodies of any length, `Refinement` what
follows without bodies, where the connection is orderly for ever.

`WorkersSuffice` counts: `TagHolders` maps the tags injectively to the requests that
have their entries (`EntryInv`), these are under way and do not spin, and the
spinning callers come on top.

### ServerHandler

`EntryLive` holds for every set of methods and for clients that use a tag again
at once, also where the process ends. It needs `StreamInv` (each header is read
once), `CurrentInv` (the request the listener is about has no handler yet, and
the entry emplaced for it is at its tag), `WaitersInv` and `LiveInv` (a handler
that has not ended refers to the entry of its own tag). `EmplaceLive` is the heart:
the entry a new request gets is not one of a live handler, because either its
tag was free or the request was refused.

`WriteExclusive` is false with `GetNode` (run `server_getnode`). `LockUntilLockless` says
from when on: until a handler begins whose method does not take the lock
(`Lockless`), both properties of the lock hold, whatever the client sends; with
`Methods = {"Ping"}` they hold for ever (`WritesExclude`, `LockOwned`). The invariant is
`OwnInv`: exactly one handler owns the lock while it is taken, and it is taken
while somebody waits; a handler owns it from the grant to its release, through
the hand-over of lines 71-78, which does not free it.

`HandlersChecked` is false where a client uses a tag again at once (run
`server_reuse`). `UncheckedOnlyReused` says that nothing else breaks it: if a handler
is destroyed unchecked, the client has given out the tag of an answered request
again before the handler of that request was reaped (`TagReused`). Unanswered
requests have tags of their own (`SentInv`), a request is answered by a handler
that writes or has written (`AnsweredInv`), and an entry of the map keeps a
handler of its own tag that has not ended (`MapInv`, `CoroInv`): whom the
assignment of line 47 destroys has the tag of the new request, and has been
answered.

### ThreadPool

`ScheduledOnce` counts; its invariant says instead that no two places hold the
same handle (`StackInv`, `RunningInv`) and that one of them does (`KeptInv`), which
`TakenInv` keeps true across the two steps in which a worker reads and pops the
top of the stack. `NoIdleWorker` is inductive with these. `EnoughToStop` needs
`RoomInv`: since the stop flag is set, the workers that may still take a handle
are no more than the handles on the stack and those `blockingStop` still pushes;
a worker that pops leaves both sides at once, and cannot come back.

### EventLoop

`RunsInv` is what bounds the overlap: while a thread has `eventLoopExitedLock` the
loop thread enters at most one run, because after it stops in front of that
lock; `WokenInv` is why this run does not sleep: the holder's byte stays in the
pipe until the loop polls. `HoldersExclusive` follows from `LockInv`, which says that
the lock and its owner agree with the places of the threads, null locks
included.

### Coroutines

`IInv` describes a chain of any length by its neighbours. `ActiveInv`: whatever is
active runs below coroutines that await. `AwaitInv`: what the place of a coroutine
says of the one it awaits, in particular that this frame exists until the result
is taken. `CallerInv`: a coroutine is suspended exactly while its callee knows it as
caller and has not transferred to it; this is where the two ways of going on
(found done, or resumed by `FinalAwait`) exclude each other. `ErrorInv`: at most one
frame carries the exception. `ResultInv`: what a coroutine ends with is what it has
taken, unless it was caught.

Each action changes up to two frames by a nested update. The operators
`<Action>Does` state what it does field by field, `<Action>Effect` proves that from
the action, and `<Action>DoesKeeps` proves the invariant from the effect alone.
`MovesAwait` and `MovesCaller` cover the many steps that only move one coroutine.
`Refinement` follows with `StepMaps`: `Finalize` ends a coroutine, `Take` and `Return`
take its outcome, `Escape` does both (the exception leaves the call), and `EndsKept`
says that every other step does neither.
`CallerLost` and the accesses to a destroyed frame are in these behaviours: the
theorems hold with them.

`OutcomesTravelUp` is the same from end to end: a coroutine that has ended has
destroyed every one below it and ends with the outcome of each, unless one in
between caught an exception, whether the outcomes went up by co_awaits or out of
calls that threw. `TravelInv` adds what makes it inductive: an outcome
was taken from everything below whoever has one.

### PlainSocket

`BufferInv` (between two reads the members are reset, during a read there is room),
`ClosedInv` (a closing socket is not read) and `DataInv` (the buffer holds the bytes
that follow those of the last read) make `ReadRequested` inductive. `Refinement`
maps a read to its size, what the caller got, and the position before the bytes
in the buffer: the partial fills of a read stutter, its last byte returns them
(`DataReturns`), and a failure drops them (`RaiseFails`, or `RequestFails` where the read
never starts). `WriterInv` says that nothing
of the write in progress has reached the peer, so that it is accepted once.
`WritesInOrder` adds what the peer sees of the bytes: of each write a prefix, and
nothing of an earlier write after a later one.

### NodeContext

`LockInv` ties the mutexes to the places of the callback, the handlers and the
destructor. `OwnInv` says in which list a handler's context is, by the handler's
place, and `CheckInv` who has checked it: nobody, the waiter, or the cleanup that
runs. All parts but the types are only claimed while the process lives, and
`CheckedOnce` says that it does not end by a wait for a coroutine that is gone.

### Buffer

`BufferProofs` proves, for any modulus above 4, any set of bytes and any encoding
of integers in 4 bytes whose decoding gives the integer back (`Machine`, the only
hypothesis; a `uint32_t` on every platform meets it):

- for a `Sound` buffer (the offset inside, the data as long as the length) the
  bounds check is exact (`BoundsExact`), reads and writes keep it sound
  (`SoundKept`), and what was written is read again, byte arrays and strings
  (`ReadsWhatWasWritten`, `StringsReturn`, `StringFits`);
- which buffers are sound: those of `ConstructorsSound`, and a message exactly
  when header and payload fit the width of the length (`MessageSound`);
- and what the check is worth for the others: nothing, because the difference of
  length and offset wraps (`BeyondEndPasses`) or because a buffer that was moved
  from keeps its length (`MovedFromPasses`).

The argument goes through `RemainingExact` (no wrap inside) and `PutExact` (a write
changes its own bytes only); the rest is composition.

### Only model-checked

All liveness (`CallsReturn`, `PingsAnswered`, `CloseEndsListen`, `StopReturns`,
`AcquireReturns`, `WaitReturns`, `DestructorReturns`): it is under fairness and beyond
the prover. Every safety property of a passing run has its theorem.

## 6. Abstractions

- A co_await of another coroutine is one step in `ClientTransport`,
  `ServerHandler`, `PlainSocket` and `NodeContext`: its caller goes on when it is
  done. That the runtime does so, up to `CallerLost`, is what `join` shows.
- A call into libuv under the event loop's lock is one step in `PlainSocket` and
  `NodeContext`; that the lock excludes the loop, up to the one overlapping run,
  is what `loop` shows.
- An exception in a coroutine without a stored caller is thrown at whoever runs
  it: `Coroutines` and `PlainSocket` have both what the caller's body then sees and
  the end at Promise.h:102 of a build with assertions; a worker or `main` does
  not catch it, and the process ends. In `ServerHandler` and `NodeContext` the end of
  a connection is an exception that `listen` catches.
- The result of a co_await is always touched, as every caller in the repository
  does; its value is not told apart from other values.
- The data callback's branch for `UV_ENOBUFS` needs an empty buffer; `ReadRequested`
  says that libuv reads only while there is room, so the model leaves it out.
- `rawWrite` without the event loop's lock is a step at any time; that it uses
  libuv's handle next to the loop's thread is not told apart.
- Messages are records of tag, length and, as a ghost, the request they answer;
  bytes, commands of no effect, and `maxResponseSize`, which nothing reads, are
  left out. `assertFullyUsed` at the start of `sendRequest` throws before anything
  is reserved and is left out too.
- An entry of a `std::map` is an address from a small set, free when no tag leads
  to it; an allocation may take any free one.
- The write of a request or response is one step of the byte stream;
  `ServerHandler` has its begin and end, to see two writes overlap. Partial
  writes are the transport's.
- The length limit of a request, the unknown method and the tag in use are the
  same branch in the code; the model takes it for method 0 and for a tag in
  use.
- An address sanitizer's view (read of freed memory is an error) is not taken:
  such a read sees what the address holds.

## 7. Plan

Every component with behaviour of its own has its module, and every safety
property of a passing run its theorem. Next:

- Composition: client and server over one stream (`ClientTransport` with
  `ServerHandler` in place of its peer).

Not modelled:

- cryptography and identities: sequential values without shared state; OpenSSL is
  trusted;
- the wrapper transports: they forward every call to the transport they hold, and
  the encryption of the overlay is commented out;
- `ClientHandler`, which has no operation of its own and which nothing creates;
- vectors and maps in a `Buffer` (`write`, `readVec`, `readMap`): no request or
  response of this version has any;
- a server that cannot bind or listen: the error is logged and the server has no
  connections;
- the vendored libraries, `uvw` and libuv below their callbacks, logging and thread
  names.
