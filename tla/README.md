# Sinetlib in TLA+

TLA+ models of [Sinetlib](../src/README.md), a multi-threaded reactor network library in
C++ with an asynchronous log and a small HTTP server, the TLC runs that check them, and
proofs of their central invariants that TLAPS checks.

    tlc -workers 2 -config MCLooper.cfg MCLooper      # a run
    tlapm LooperProofs.tla                            # the proofs of a module

`PROJECT.json` lists the runs, maps every definition to the lines it models, names for
every property a plausible bug that it catches (operators marked `Mutant:` in the
modules), and lists the hazards of the code with the properties that watch them.

## 1. The system

| Part | State | Operations | Talks to | Modelled by |
|---|---|---|---|---|
| `Looper` (net/looper) | `quit_`, `is_handle_task_`, eventfd, `task_queue_` | `Start`, `RunTask`, `AddTask`, `HandleTask`, `WakeUp`, `HandleWakeUp`, `Quit` | every thread posts tasks to it; it polls `Epoller` and calls `EventBase::HandleEvent` | `Looper`, abstractly `TaskExecutor` |
| `moodycamel::ConcurrentQueue` (base/concurrentqueue.h, vendored) | a lock-free sub-queue per producing thread, a hash table from threads to sub-queues, a list of free blocks | `enqueue`, `try_dequeue` | `Looper` | `FreeList`, `ImplicitProducer` and `ProducerHash`, composed in `ConcurrentQueue`; abstractly `BlockPool` and `ProducerFifo`; by what it promises in `Looper` |
| `Epoller`, `EventBase` (net) | fd to event base map; events watched and reported | `Add`, `Mod`, `Del`, `Poll`; `HandleEvent` | kernel, callbacks | inside `Server`, `Connection`, `Looper` |
| `Server` (net/server) | `connection_map_` | `Start`, `HandelNewConnection`, `RemoveConnection4CloseCB`, `RemoveConnection` | takes loops from `ThreadPool`, posts `Register` to them; they post the removals back | `Server` |
| `ThreadPool`, `LooperThread` (net) | `loopers_`, `next_`; `loop_` behind a mutex | `Start`, `TakeOutLoop`; `GetLoop`, `ThreadFunc` | `Server` | `TakeOutLoop` in `Server`; the threads in `LooperThread` |
| `Connection` (net/connection) | buffers, events watched, callbacks | `Register`, `Send`, `Shutdown`, `HandleRead`, `HandleWrite`, `HandleClose` | its loop, the socket, the user | lifetime in `Server`, bytes in `Connection` |
| `IOBuffer` (net/iobuffer) | storage, `read_index_`, `write_index_` | `Append`, `Retrieve`, `Prepend`, `ReadFd`, ... | `Connection`, HTTP parser | `IOBuffer`, abstractly `ByteQueue`; as a sequence in `Connection` and `HttpServer` |
| `TimerQueue` (net/timerqueue) | heap of timers, timerfd | `AddTimer`, `HandelTimerExpired`, `ResetTimerfd` | its loop, the clocks | `TimerQueue` |
| `AsyncLogger` (log/asynclogger) | four buffer pointers, two vectors, mutex and condition, `is_running_` | `Append`, `ThreadFunc`, `Stop` | every thread logs; one backend thread writes | `AsyncLogger`, abstractly `LogSink` |
| `LogFile`, `AppendFile` (log) | `count_`; the buffer of a `FILE` | `Append`, `Flush`, the close | `AsyncLogger`'s backend, the disk | `LogFile` |
| `Logger`, `LogStream` (log) | a line being formatted | `<<`, `~Logger` | `AsyncLogger` | the abort of `LOG_FATAL` in `LogFile`; formatting not modelled |
| `HttpServer`, `HttpParser` (http) | parser state per connection | `OnMessage`, `ParseRequest`, `OnRequest`, `Reset` | `Connection`, `Router` | `HttpServer` |
| `Router`, `Route`, `Matcher` (http) | routes in order; a pattern per matcher | `Match`, `Init` | `HttpServer` | `Router` |
| `HttpResponse`, `File`, `FileHandler` (http) | a response while it is made | `AppendHeaderToBuffer`, `AppendBodyToBuffer`, `ReadToBuffer` | `HttpServer`, the file system | `HttpResponse` |
| `util`, `any` (base) | none beyond a call | system calls, formatting of dates | | in the actions that call them; formatting not modelled |

How they interact: the main thread's loop accepts a connection, takes a loop of the pool
in turn and posts `Connection::Register` to it as a task. From then on the events of the
connection are handled in that loop's thread. When the connection closes, that thread
posts `RemoveConnection(fd)` back to the main loop, which drops the last reference held by
`connection_map_`; the connection is destroyed, and its descriptor closed, where the last
`shared_ptr` goes, in whichever thread that is. Any thread logs.

What is hard here, and what would be correct:

* **Looper**: `AddTask` is an enqueue and then a wakeup, `try_dequeue` scans its producers
  without a lock, and the base thread itself may post. Correct: no task waits while the
  loop sleeps with nobody about to wake it; each task runs once and in the order of its
  poster; the loop stops after `Quit`.
* **ConcurrentQueue**: no lock anywhere. A block that is popped and pushed again looks as if it had never
  left; consumers count themselves in before they know that there is anything; the index doubles while
  they read it; a thread that meets a full hash table goes on in the old one or waits for another's
  allocation. Correct: no free block is handed out twice or lost; a sub-queue is a queue; a thread always
  finds its own sub-queue, and `try_dequeue` finds them all.
* **LooperThread**: the thread is started by the first of the members, before the mutex and the condition
  that it uses are constructed. Correct: owner and thread exclude each other, no notification is lost,
  `GetLoop` returns a loop that lives.
* **Server**: a removal names a descriptor and runs later in another thread, while
  descriptors are reused; handlers are bound to a raw `this`. Correct: removals hit the
  connection that was closed; what is registered is alive; callbacks come in order, from one
  thread; closed connections are destroyed.
* **Connection**: writes are cut short, direct and buffered writes mix, the peer goes on
  between the poll and the handlers. Correct: nothing is lost, doubled or reordered; output
  drains; a shutdown loses nothing and happens.
* **AsyncLogger**: four buffers circulate between two sides. Correct: none is held twice,
  none is missing when needed; the log is an ordered queue that drops only from a backlog;
  `Stop` returns, with what was logged before it written. Below it, a round is several appends to a
  file whose buffer is flushed now and then, and the disk may be full or the program abort between any
  two. Correct: a crash costs only what was not in a finished round.
* **TimerQueue**: the clock goes on between any two reads of it, and callbacks add timers to
  the heap they are popped from. Correct: every timer runs, once, in order, not early.
* **IOBuffer**: bytes are moved to the front or to a larger storage, and a header may be put in
  front of them. Correct: it is a queue; the indices stay in the storage; the storage
  grows with what is held and not with what has passed through.
* **HTTP**: requests arrive cut anywhere or several at once, the parser takes up where it stopped,
  its result is not always set, and the parameters of the routes that are tried share one map.
  Correct: handlers get the client's requests whole, once, in order, with the parameters of their own
  route; answers go out in the order of the requests, as long as they say they are; a connection is kept
  as long as it should. A file's length is announced before it is opened, and it may be gone by then.

`PROJECT.json` lists all hazards at their lines, those no property covers yet with the reason.

## 2. The modules

### TaskExecutor, Looper, LooperProofs, MCLooper

`TaskExecutor` is what a loop promises: a queue per posting thread, tasks started once and
in order, no order between threads, and tasks that run inline. `Looper` is `Looper` in
detail. `pc` is where the base thread is: before `Start` (`setup`), in `epoll_wait`
(`poll`), in the callbacks of events (`dispatch`), in `HandleTask` between two tasks
(`drain`) or in a task (`call`), or out of the loop (`done`). `eventfd`, `quit`,
`is_handle_task` are the members; `task_queue` has a FIFO per producer; `unscanned` holds
the producers that the running `try_dequeue` has still to visit, so it may answer "empty"
while a producer visited before has enqueued. Another thread's `AddTask` is two
steps, `AddTaskEnqueue` and `AddTaskWakeUp`; the base thread posts from `dispatch` and
`call` (`BaseAddTask`, `BaseRunTask`). A task that is posted before `Start` (`EarlyTasks`)
has no wakeup in the code and waits for the first poll to end.

Abstracted: what a task does is what it posts; events other than the wakeup are
one, `PollOther`, which also stands for the timeout. The queue is a `ProducerFifo` per producer, which
`ImplicitProducer` is shown to implement, and `AddTask` always gets its memory (the result of
`enqueue` is ignored at looper.cpp:86).

### LooperThread

`LooperThread` extends `Looper` by how a loop comes to run: in the main thread (`owner = "absent"`), or in
a thread of a pool. There `owner` is where the thread that made the `LooperThread` is, from the
constructor of `mutex_` on through `GetLoop` to the join of its destructor, and `thread` where `ThreadFunc`
is; `mutex` is the word of the mutex. The thread may run before the mutex is there, and finds any bytes:
a mutex that looks free or one that looks taken, which nobody unlocks. `touched` says that it was as fast
as that, and excuses it in the properties: what the program does then is undefined, and all that the model
allows is that the thread locks something, that its lock is overwritten, or that it sleeps for ever.
The run `looper` checks the properties of `Looper` under `LooperThread`'s specification (`AllSpec`), and
`LooperProofs` carries the proofs over to it.

### FreeList, BlockPool, ImplicitProducer, ProducerFifo, ImplicitProducerProofs, ProducerHash, ConcurrentQueue, ConcurrentQueueProofs

The vendored queue as far as the loops use it: each thread enqueues without a token, and `try_dequeue` visits
all producers. It has three mechanisms, each with steps of at most one access to what other threads
read or write, but for three that join two which nothing can come between to any effect: `GetReload` (the test that sends a
thread back, and the next read of the head, when it has a reference to nothing), `RewindBlockIndexTail` (the tail
goes back and the entry is cleared, which no consumer looks for) and `ResizeFails` (the count, and the flag that others wait for).

* `FreeList` is the stack of free blocks, whose nodes carry a count of those that look at them; the top
  bit asks the last of them to push the node. `BlockPool` is its promise: a block in use is handed to
  nobody else.
* `ImplicitProducer` is the sub-queue of one thread: `enqueue` with the circular index of blocks, its
  doubling, the pool and the allocation, both of which may fail, and `dequeue` by any number of
  consumers, with the optimistic count, what was overcommitted, the search in the index, and the block that
  goes back with its last element. It takes its blocks from a `BlockPool`. `ProducerFifo` is its
  promise, and what `Looper` builds on.
* `ProducerHash` is `get_or_add_implicit_producer`: open addressing, a table that is put before a full one,
  entries that move to the newest table when they are found in an older one, one thread that allocates
  while the others use what room is left or wait, allocations that fail, and the list of producers.

`ConcurrentQueue` puts them together. They share no variable: the sub-queue sees the free list through
`BlockPool`, and the hash table hands out producers without looking into them. So `part` chooses at the start
which of them moves, and the state space is the sum of theirs. `ConcurrentQueueProofs` has the proofs about
the composition, with the inductive invariants of the free list and of the hash table; that of the sub-queue is in
`ImplicitProducerProofs`.

Abstracted: atomics are sequentially consistent, although the code asks for less at many places; indices do
not wrap at 2^64; probing is one step (the module says why). An element is its number. Left out: the recycling of producers of threads that end, which is compiled out
(concurrentqueue.h:202), and explicit producers, tokens, bulk operations, moves and swaps, which the
program never calls. In the program a queue has one consumer, its loop; the models allow more, which is what
the queue promises and more than the loops need: that consumers do not lose or overtake one another
(`CountsAgree`, `NeverOvertakes`) is no hazard of this program. Two that
come at once to an empty sub-queue may for a while make each other miss, so nothing is said about
when `try_dequeue` succeeds.

### Server, ServerProofs, MCServer

The lifetime of connections over all threads. A connection is its number in the order of
accepts; `conn_sockfd_`, `loop_`, `connection_map_` (a function from descriptors) and
`next_` are the members, `epoll[l]` what is registered with loop `l`, `writing` the
connections that watch EPOLLOUT, `tasks[l][m]` the queue of loop `l` for the tasks of loop
`m` (what `TaskExecutor` promises), and `doing[l]` the callback loop `l` is in.
`Alive(c)` is derived: the map, a queued `Register` or a running one holds a
`shared_ptr`, or the handler does (as `InCall` says); a descriptor is open
while its connection is alive, and accept returns any that is not (`Fds` is
smaller than the number of connections, so they are reused) or -1 (`NoFd`).
Steps: `HandelNewConnection`, `RunRegister` and `EstablishedCallback`, `HandleReadMessage`,
`HandleWrite`, `HandleClose` (hang-up), `HandleReadNothing` (a failed read that closes)
and then `WriteAfterRead`, `HandleCloseReturn`, and `RemoveConnection` in the main thread. With the
empty pool the main loop does it all.

A registration that `epoll_ctl` refuses (`Register`) leaves a connection that is announced and never watched.

Left out: failures of `epoll_ctl` to change or delete a registration that is there; the destruction of a `Server`; users that keep a
`shared_ptr` of their own.

### Connection, ConnectionProofs, MCConnection

The two streams of one connection. Bytes are numbered. `outSocket` and `inSocket` are the
socket's buffers, with room for `Room` bytes; `received` is what the peer has read,
`consumed` what the user has taken. All handlers run in one thread, so each is one
step, but the poll is another: `revents` is what the poll reported, and the peer reads,
sends, finishes or resets at any time in between, as `HandleEvent` looks at hang-ups
first, then input, then output. `Send` writes at once if nothing waits and buffers the
rest; `Shutdown` closes the writing side only when EPOLLOUT is not watched.
The user's calls may come between any two steps, as other callbacks of the same loop do.

### TimerQueue, TimerQueueProofs, MCTimerQueue

The heap as the order in which its timers get to the top, the expiries, `timerfd_` (when
the timerfd fires, or `Off`), and the rounds of `HandelTimerExpired` as steps: the read of
the timerfd and the clock, the test, the callback, the pop, the reset. `Tick` may happen
between any two, `AddTimer` may come from events and from callbacks, and the clock may go
on between its two reads of it. A gap of zero disarms the timerfd; a negative one is an
error that is ignored, and leaves it as it is.

### LogSink, AsyncLogger, AsyncLoggerProofs, MCAsyncLogger

`LogSink` is the promise: messages leave in order, each at most once; a run of messages is
dropped only from a backlog, whose oldest are written. `AsyncLogger` is the code: `Append`
under the mutex (`AppendToCurrent`, `AppendToNext`), the backend thread as `LoopTest`,
`Wait`, a `Swap` that is reached at once, notified or timed out, and `WriteBuffers`, which
runs outside the mutex; `Stop` and the `Join` of its owner. Buffers are the numbers
`1..BufCount` and `heap` says what each holds; `new` takes one nobody holds.
A message is one unit of a buffer's `Capacity`.

In `AsyncLogger` `WriteBuffers` is one step: the vector it works on and the two spare pointers belong to
the backend alone until the next `Swap`.

### LogFile

`LogFile` extends `AsyncLogger` by what lies below: a round writes its buffers one by one into the buffer
of a `FILE` (`WriteBuffer`, with `written` as the loop's `i`), and ends with a flush (`RoundEnd`); every
`FlushEvery`-th append flushes, too, and the thread closes the file when it returns. `disk` is what a crash
would leave behind. `LOG_FATAL` aborts at any moment, which is why it needs no action: a crash in a state
leaves the `disk` of that state. So the message of `LOG_FATAL` itself, which is still in the buffers of the log, is lost:
`CrashLosesNoRound` is about the rounds before it. `DiskFills` and `DiskClears` come at any time. What becomes of the buffer of a `FILE` when
the disk is full is a matter of the C library: it may keep what it could not write, or throw it away, as glibc does. The
model has both, for a flush (`Flush`, `Discard`) and for a write, after which the buffer has the first part of what was there and the
rest is given up (`KeepFirst`), or `AppendFile::Append` goes on and the buffer has the end of it, if anything (`KeepLast`).
`lost` is what was thrown away or given up; a disk that fills up in the middle of a write is taken for one that fills up just before or
after. The backend's actions are those of `AsyncLogger` with their effect on the file, so that
`LogFile` is a refinement of it without a mapping; `AsyncLoggerProofs` has the proofs of both.

### ByteQueue, IOBuffer, IOBufferProofs, MCIOBuffer

`ByteQueue` is what a buffer promises, and what `Connection` takes it for: bytes put at the end or at
the front, taken from the front. `IOBuffer` has `buffer_`, `read_index_` and `write_index_` as
the record `buf` and each member function as a function on such records, since they
call one another: `Append_` is `EnsureWritable` and a copy, `EnsureWritable` may `MakeSpace`, which
moves or grows, `Shrink` appends to a fresh buffer and swaps, `ReadFd` fills the room there is and
appends what went into `extra_buf`. The actions `Call...` are the public calls. Nothing in
the code checks their lengths: a caller retrieves no more than is there (the comment at iobuffer.h:75)
and prepends no more than there is room for in front, which are the guards of `CallRetrieve` and
`CallPrepend`. `asked` is a history variable for `BoundedStorage`. A byte is the
number in which it was put, so a byte that is lost, repeated or moved is seen.

### Router, HttpServer, MCHttpServer

One connection of the HTTP server. A request is a sequence of tokens (the text of a line, the end of a
line, a part of the body), and `OnMessage` brings any number of the next ones into the input buffer,
be it a line without its end or a request and a half. `ParseRequest` is one action per turn of its loop
(`NoLineYet`, `RequestLine`, `BadRequestLine`, `Header`, `EndOfHeaders`, `Body`), and `MessageDone` what
`OnMessage` does with its result: the refusal and the answer, either or both. `ok`
starts as any member of `Uninitialised`, as it does in the code. `Router` is `Router::Match` as
functions: routes in order, the matchers of a route in order, and `match_map` through all of
them, cleared when a route fails. `MatcherOf` is what `Matcher::Init` makes of a pattern: its names and the
number of its groups, which `Match` pairs from the end (matcher.cpp:94). That is right when every group
from the first named one on is named; other patterns, with groups inside the braces or behind them, get
their parameters paired wrongly, and are not among those of the run.
`HttpResponse` has the responses and the handlers of the repository as functions: the page of example/http.cpp,
the default 404, and `FileHandler`, whose file may be there, be a directory, be missing, or be there when
its size is taken and not when it is read (`Files`; each request meets any of them).

Abstracted: a request line is well formed or not; a header line has a colon (one without is taken for the
empty line); what a pattern accepts is a set of texts, and what its groups hold is the group's number and
the text; a response is its status, its length, whether its header says that the connection closes and
whether it does, and how much body followed. `HEAD` is answered like `GET`, as in the code. Answers fit into the
socket: nothing waits for EPOLLOUT, so that `Shutdown` does shut down, and what is sent after it fails. A
Content-Length that is not a number, at which `stoi` throws, is left out, and so are a file that is cut short between
`stat` and `mmap`, at whose end the process gets SIGBUS, a directory that cannot
be opened, and a second `GetFileHandler`, which overwrites the one prefix of the server (httpserver.h:24-28).

## 3. The runs

| Run | Bounds | Shows |
|---|---|---|
| `looper` | base and two other threads, three tasks and an early one, an eventfd that is full at 2; a loop of the main thread or a `LooperThread` | type; a start-up that is safe unless the thread is too early; no lost wakeup; own tasks first; refinement of `TaskExecutor`; posted tasks run; `Quit` stops the loop; `GetLoop` returns |
| `concurrent_queue` | free list: 3 threads, 2 nodes; sub-queue: 2 consumers, 3 blocks of 2, 7 elements, 2 dequeues in vain, an index of 2 that doubles; hash: 3 threads, 2 of which collide, a table of 2, 1 allocation that fails | types; no block lost or in two places, counters of `dequeue` right; a thread has one sub-queue that is found, and tables have room; refinement of `BlockPool` and of `ProducerFifo`; calls for a producer return |
| `server` | 4 connections, 2 descriptors, an empty pool and one of two loops | type; descriptors, removals and registrations name their own connection, which is alive; callbacks in order and thread; with one thread no handler outlives its connection; accepted means announced, closed means destroyed |
| `server_dangling` | 2 connections, the same pools | **violated** `HandlerOnLiveConnection` |
| `iobuffer` | a reserve of 1, 2 bytes at first, an `extra_buf` of 2, lengths up to 3, 6 bytes put | type, which is that the indices are in the storage; bytes are moved to the front only, into enough room; storage bounded; refinement of `ByteQueue` |
| `http_server` | up to 3 requests of 7 kinds, 3 routes, files of 4 kinds, `ok` unset to either value, clients that wait or not and send in one piece or not | type; handlers get the client's requests whole and in order with the parameters of their route; answers in order, as long as announced, closing as they say; requests without a body are answered |
| `http_keep_alive` | up to 2 requests, `ok` true when unset | **violated** `KeepAliveKept` |
| `async_logger` | 7 messages, buffers of 2, 8 buffers, dropping above 3; a flush every 2 appends, a `FILE` with room for 1, a disk that is full once | type; buffers apart and sufficient; a crash loses no finished round; refinement of `LogSink`; messages leave; `Stop` returns and a backend that is in time writes the residue |
| `connection` | sockets of 2 bytes, messages of up to 3, 5 bytes out and 2 in | type; streams intact, over a shutdown too; EPOLLOUT watched exactly when output waits; replies mean written; output drains |
| `connection_shutdown` | 4 bytes out, 1 in | **violated** `ShutdownCloses` |
| `timer_queue` | 4 timers, intervals 0, 1 and 3, 5 ticks | each runs once, in order, not early |
| `timer_queue_stall` | 2 timers, intervals 1 and 2, 5 ticks | **violated** `TimersRun` |

Why these bounds are enough. *Looper*: two posters are what it takes for one to enqueue
behind the scan that has passed it, and three tasks for a poster to be between its steps
while another has a task taken and the base posts a third. The eventfd of the run is full at 2, which that of the program, of 64
bits, never gets: with a small one the model has more behaviours, and the properties hold in them, too.
*ConcurrentQueue*: three threads are one that reads a node, one that pops it and one that pushes it again,
and two nodes are enough for the head to come back to the first. Seven elements are three blocks and the
begin of a fourth, so that a block comes back from the pool and the index, of two entries, doubles with its
oldest entry in the middle; two consumers empty a block together, and may overtake each other between the
count and the comparison, also when one has come in vain before. Three threads fill a table of two, so that a bigger one is made, entries move to it and a
thread waits for it.
*Server*: with more connections than descriptors every descriptor is reused while removals and registrations of
its earlier user may be queued; two loops are the least that run at once beside the main
one. *AsyncLogger*: seven messages fill three buffers and begin a fourth, which a backend that comes
late takes in one round: more than `DropAbove`, so that dropping happens. A round has several
buffers, appends that flush and appends that do not, and parts of messages that the `FILE` has no room for;
`BufCount` is never exhausted. The spell of a full disk may begin and end anywhere.
*Connection*: a message longer than the room is cut in three.
*IOBuffer*: a length may be below, at and above each of the sizes, and six bytes pass
through a storage of three, so that it moves, grows, is emptied and shrinks. *HttpServer*:
three requests are one before, one in the middle of and one after any message; the kinds differ in
everything that the code branches on, and a request can fail in the second matcher of a route after
the first has stored a parameter of it.
*TimerQueue*: four timers can be due together, be added by callbacks and wait.

CHECK_DEADLOCK is off where a system may stop: all messages sent, all connections closed,
the loop quit.

### What the violations say

* `HandlerOnLiveConnection` (eventbase.cpp:37-48, connection.cpp:16-18): the callbacks of a
  connection's event base are bound to a raw `this`. When a read fails, `HandleRead` closes
  the connection and posts its removal; the main thread may run it, and destroy the
  connection, while `HandleEvent` goes on to `write_callback_`. `README.md:15`
  promises lifetimes managed by smart pointers. It needs a pool: `AloneIsSafe` holds.
* `KeepAliveKept` (httpparser.cpp:188-213): the body is parsed where it is and never retrieved
  from the buffer, so the next request of a connection that is kept alive is parsed from the body on
  and refused, contrary to `README.md:16`. For the same reason `PlainRequestsAnswered` is
  about requests without a body.
* `ShutdownCloses` (connection.cpp:82-88): a `Shutdown` with output pending does nothing,
  and nothing takes it up later, contrary to `README.md:137`. A response that is not
  keep-alive and does not fit the socket buffer leaves its connection open.
* `TimersRun` (timerqueue.cpp:40-55, 71-81): a timer whose time has come when the timerfd
  is armed for it leaves the timerfd off. It stays on top of the heap, and as later timers
  are not earlier, none of them arms the timerfd either.

One more disagreement has no run of its own, as it takes one step: `HandelNewConnection` (server.cpp:48) does
not look at the result of `Accept`, so an accept that fails with an error util.cpp:51-58 lets pass
announces a connection with descriptor -1. `Server` has these connections (`NoFd`), and its
properties hold with them.

A second one is in the condition of `StopWritesResidue`: when `Stop` clears `is_running_` while the backend
writes, or before it has begun its first round, the backend leaves its loop without another one, and what was
appended meanwhile stays in the buffers, although the comment at asynclogger.h:40 says that the notification
is there to have the residue written.

A third one shows in `http_server`: a valid request that arrives in two messages
may get a 400, when the stack happens to hold a zero for `ok` (httpparser.cpp:118), and be served as
well. `AnswersInOrder` allows the refusal and says what must hold in spite of it.

### Fairness

* *Looper*: weak fairness of the base thread's steps (the thread is scheduled, tasks and
  callbacks return) and of the posters' second step (`AddTask` finishes). The poll's timeout is not
  assumed except by the properties that name it (`PollTimeout`): the prompt part of `PostedTasksRun` holds
  without it, `QuitStops` and the early tasks need it or another event.
* *LooperThread*: owner and thread are scheduled. Strong fairness of the thread's steps says that it gets a
  mutex that it finds free again and again; nothing makes a wait wake up by itself (`SpuriousWakeUp`), and
  no owner has to destroy its `LooperThread`.
* *ConcurrentQueue*: each thread in `get_or_add_implicit_producer` is scheduled, for `CallsReturn`. The other
  two mechanisms have safety properties only.
* *Server*: weak fairness of each loop's current callback and task, which is what
  `PostedTasksRun` shows of a loop. Nothing is assumed of clients.
* *AsyncLogger*, *LogFile*: the backend is scheduled, a notified wait ends, and a `Stop` comes to its join. `TimeoutComes`
  (the `wait_for`) and `DiskRecovers` (somebody makes room) are assumed only where a property names them.
* *Connection*: the loop polls and handles what is reported; the peer reads.
* *TimerQueue*: time goes on, the loop polls, handlers return.
* *HttpServer*: what the client sends arrives in the end, and the loop runs its callbacks.

## 4. The proofs

TLAPS proves, for every value of the constants that satisfies the named assumptions:

| Theorem | Says |
|---|---|
| `LooperProofs!TypeCorrect` | `Spec => []TypeOK` |
| `LooperProofs!WakeupsAreKept` | `Spec => []NoLostWakeup` |
| `LooperProofs!OwnTasksAreFirst` | `Spec => []OwnTasksFirst` |
| `LooperProofs!LoopRefinesExecutor` | `Spec => RefinesExecutor`: every step of the loop is a step of `TaskExecutor` or a stutter |
| `LooperProofs!StartUpsAreSafe` | `AllSpec => []StartUpIsSafe` |
| `LooperProofs!ThreadRunsALooper` | `AllSpec => Spec`: a `LooperThread` runs a `Looper` |
| `LooperProofs!AllTypesCorrect` | `AllSpec => []AllTypeOK` |
| `LooperProofs!ThreadLoopsRefineExecutor` | `AllSpec => RefinesExecutor`, and `ThreadLoopsAreSafe` with the two above it |
| `ImplicitProducerProofs!CountsStayRight` | `Spec => []CountsAgree`, for finitely many consumers |
| `ImplicitProducerProofs!NoneOvertakes` | `Spec => []NeverOvertakes`, for finitely many consumers |
| `ImplicitProducerProofs!ImplementsFifo` | `Spec => RefinesFifo`: the sub-queue is a `ProducerFifo`, for finitely many consumers, any blocks and any sizes of them and of the first index |
| `ImplicitProducerProofs!TypeCorrect` | `Spec => []TypeOK`, under the same hypotheses |
| `AsyncLoggerProofs!TypeCorrect` | `Spec => []TypeOK` |
| `AsyncLoggerProofs!BuffersSuffice` | `Spec => []EnoughBuffers` |
| `AsyncLoggerProofs!BuffersStayApart` | `Spec => []BuffersDisjoint` |
| `AsyncLoggerProofs!FileLogIsALog` | `LogSpec => Spec`: the log with its file is an `AsyncLogger` |
| `AsyncLoggerProofs!FileLogBuffersApart` | `LogSpec => [](BuffersDisjoint /\ EnoughBuffers)` |
| `AsyncLoggerProofs!RoundsReachTheDisk` | `LogSpec => []RoundsAreFlushed` |
| `IOBufferProofs!IndicesInBounds` | `Spec => []TypeOK` |
| `IOBufferProofs!MovesAreSafe` | `Spec => []MoveIsSafe` |
| `IOBufferProofs!StorageIsBounded` | `Spec => []BoundedStorage` |
| `IOBufferProofs!BufferIsAQueue` | `Spec => RefinesQueue`: every call is a step of `ByteQueue` or a stutter |
| `ConcurrentQueueProofs!FreeListIsAPool` | `Spec => RefinesPool`: the list is a `BlockPool`, for finitely many threads and any blocks |
| `ConcurrentQueueProofs!SubQueueIsAFifo` | `Spec => RefinesFifo`: `ImplementsFifo`, in the composed queue |
| `ConcurrentQueueProofs!ProducersAreFound` | `Spec => []ProducersFound`, for finitely many threads, any hashes and any first table |
| `ConcurrentQueueProofs!NothingIsLost` | `Spec => []NothingLost`, for finitely many threads, blocks and consumers |
| `ConcurrentQueueProofs!TypesRight` | `Spec => []TypeOK`, under the hypotheses of the others |
| `ServerProofs!TypeCorrect` | `Spec => []TypeOK` |
| `ServerProofs!DescriptorsAreOwn` | `Spec => []DescriptorsNameTheirOwn` |
| `ServerProofs!CallbacksComeInOrder` | `Spec => []CallbacksInOrder` |
| `ServerProofs!AloneNoHandlerOutlives` | `Spec => []AloneIsSafe` |
| `ConnectionProofs!TypeCorrect` | `Spec => []TypeOK` |
| `ConnectionProofs!OutputIsWatched` | `Spec => []WatchedIffPending` |
| `ConnectionProofs!NothingIsLostOrReordered` | `Spec => []StreamsIntact` |
| `ConnectionProofs!RepliesAreWritten` | `Spec => ReplyMeansWritten` |
| `TimerQueueProofs!TimersRunOnceInOrder` | `Spec => []RunOnceInOrder` |

*Looper.* `NoLostWakeup` and `OwnTasksFirst` speak of the loop at the poll, and are not
inductive: what makes them true there is what `try_dequeue` found in the round before. The
invariant is `TypeOK /\ OthersCovered /\ BaseDrained`. A queue is `Covered` when it is empty,
the eventfd is readable, or its only task is one whose poster is still to write the eventfd.
`OthersCovered` says so of all queues of other threads at the poll, and, in `HandleTask`, of
those the running `try_dequeue` has visited; `BaseDrained` says of the base thread's queue that
it is empty once it has been visited, and at the poll holds early tasks only. A visited
queue can only be filled by an `AddTask` that is then between its steps, which is where the
order of enqueue and wakeup is used. Assumptions: `Base` is not one of the others, the eventfd
counts to at least 1.

*LooperThread.* `StartUpIsSafe` says nothing of who holds the lock. The invariant adds that, unless the thread
was too early, the word of the mutex names the one between lock and unlock (`LockIsHeld`), that the thread can
be no further than the constructor allows (`NotYet`), and that the address is stored exactly from the thread's
locked section on (`PointerIsKnown`). That `AllSpec` implies `Spec` is one lemma: every step leaves the loop
alone, is a step of it, or is the destructor, which is `Quit`. From it all that is proved of a `Looper`
follows for the loops of a pool.

*ImplicitProducer.* `dequeue` never looks at the head before it takes from it, so nothing says directly that there is an
element. A consumer that has counted itself in as number `k`, after it had read that `n` others came for nothing,
goes on if `k - n` is less than the tail. `CountsAgree` is inductive with the types and with `NumbersOK` (numbers are
distinct, and what was read of the overcommit is no more than there is now). For `NeverOvertakes` the invariant adds
`HasBound`: there is a number `k`, that of the greatest consumer which was granted an element, such that the
consumers granted one, with those of smaller numbers that have still to compare, fit under the tail, and
for every consumer of a greater number they fit under its own difference. It holds for any number of
consumers and any interleaving of the reads, which the run has for two.

`ImplementsFifo` needs to know where every element is. The invariant `QueueOK` says it in five parts, and was model-checked
on the instance of the run before it was proved. `ElementsOK`: no two consumers have the same element (`HandsApart`); no two entries have
the same key or block (`LiveEntries`); an element that is *unread*, which is one that the head has not come to or whose consumer has not
read it yet, is in its slot of the block of the entry with its base for a key (`Stored`); the consumers
that have told a block that their element is gone and the slots that are not done with make up the block
(`Counted`), so that the one which counts last has the block to itself, clears its entry, and gives it back when no entry
has it (`Emptying`). `Filling`: the producer's new entry has no block until the block is empty and nobody's. `IndexOK`: in the
newest index the keys follow one another around the ring, from the slot of the tail's block back (`Ring`, with
`KeysAt` and `FilledAt`), every entry there is occurs once (`Complete`), and in the indices that were full and doubled all entries had a
block and their keys are whole turns of the ring apart (`Older`, `Aligned`). `Finding`: a consumer that looks for its entry has an
index which contains it, and starts from an entry that has had a block. From the last two follows why a consumer may
look in an index that is out of date: whatever its capacity, the quotient of the difference of two keys is the way between
their slots, modulo that capacity, and an old entry that got a new key meanwhile got it a whole number of turns of the larger ring on, which
is one of turns of the smaller ring (`SlotFound`, `EntryIsFound`). That the index doubles in the
order of the ring is `GrowIndex`; with the old entries copied from the front of the array it is false, which is the mutant of the run.
There is one lemma per action, and `Shown` says which of a consumer's fields is what the abstract queue sees it have. The
hypothesis is `Sizes`: a block size of at least two, a first index of at least one entry, finitely many consumers and a
null that is no number. The static_asserts of the queue (concurrentqueue.h:711, 714) ask for more, powers of two; they are needed for the masks
of the code, which are remainders in the model. `MaxEnqueues` and `MaxMisses` bound the run only; `TypeCorrect` alone asks that the first is a number, as
`TypeOK` names it. Blocks are taken from a `BlockPool`, which `FreeListIsAPool` shows the free list to be.

*AsyncLogger.* `EnoughBuffers` counts what the backend finds in its round. The invariant
adds `Circulation` (which pointers may be null in which state, and that the backend's spare
pointers are given away only for buffers that come in the same round) and `Apart`, the
disjointness of all that is held, the vectors' elements included. Assumptions: at
least four buffers, `DropAbove` of at least two. The latter is what the proof shows the code needs:
were it one, the backend might keep less than it has to take back.

*LogFile.* Each action of `LogFile` is one of `AsyncLogger` or leaves its variables alone, so the invariants of
`AsyncLogger` hold. `RoundsAreFlushed` is inductive with three facts: the disk is full only if it has become so, the
file's buffer is empty when the thread has ended, and `Stop` returns only then.

*IOBuffer.* The invariant is `TypeOK`, `BoundedStorage` and that the storage is never smaller than the
reserve. `RetrieveAll` and `MakeSpace` put the indices behind the reserve without a look at
the storage, which is why the last is needed: `Shrink`, the only call that makes a storage smaller,
starts from a fresh buffer. That moves go to the front is arithmetic from the test in
`MakeSpace`: it moves only if there is room in front beyond the reserve. Each function has a
lemma that says what it does to a buffer's indices and size, and each call uses those of the functions it
calls. Assumptions: the sizes are natural numbers, the reserve and the first storage of zero bytes included.

That it is a `ByteQueue` needs a second lemma for each function, of what is readable in the buffer it
returns: the same bytes after a move or a resize, the others and the new ones after a copy. With them each call is
one step of the queue, and `EnsureWritable` and `Shrink` are stutters.

*ConcurrentQueue.* Its theorems are about the composed specification, which is the one the run checks. Each has the hypotheses
of its mechanism: `ListBounds`, `SubQueueSizes` and `HashSizes`. They are hypotheses of the theorems and not assumptions of a module
because a run reaches the mechanisms through instances; `MCConcurrentQueue.cfg` satisfies them. A step of another mechanism
leaves an invariant as it is. For the sub-queue, every behaviour of the composition is one of `ImplicitProducer`, so that the theorems above hold of it.

*FreeList.* The compare-exchange of `try_get` exchanges the head for a next that it read long before, and succeeds
whenever the head is the node it was. `FreeListIsAPool` says that this is safe. The reason is the counts: what a
thread holds a reference to does not get a new next (`RefsRight`, `LocalsRight`). The count of a node is the number of
the threads that hold it, and one more as long as it is on the list, is being inserted or has just been popped, or it is
that number with the top bit when a request is out for it; `next` is written while the count is the top bit alone, and
then nobody can come to hold it. A node has one owner at most among the threads that push it or have popped it
(`OneOwner`). The list is known without following it: `InList` are the nodes nobody uses or owns and without a
request, and `ListLinked` says that their nexts stay among them, meet none twice and do not lead back to the head. The
hypothesis is `ListBounds`: finitely many threads, and fewer than the count has room for below its top bit (31
bits in the code), and a null that is no node.

That no node is lost (`NoneLost`, a part of `NothingLost`) needs the converse, that the head leads to all of `InList`. What can be reached is
a recursive function; `ListLinked` has a rank for each node instead (`Ranked`), such that every node on the list but the head is the
next of one with a smaller rank. A push of a new head adds one to the ranks of the others, a pop keeps them. As long as
the walk from the head has not met all nodes, one of those left with the smallest rank is the next of one that it has met
(`NextOne`), so each step of the walk meets a new one (`WalkGoesOn`) and as many steps as there are nodes meet all. This is the only
place where the nodes have to be finite.

*ProducerHash.* Two things are hard: that a thread finds its slot again, in the newest table or an older one, and that there
is a free slot in the table it goes to. For the first, `SlotsFound` says that a slot with the key of a thread is where probing for
it ends and has the only producer the thread was given; an insertion takes a slot that was free, which can end no other thread's
probe earlier, since a probe would have ended there before (`SlotKeeps`). For the second, the code looks
at `hashCount` as it was when the thread added itself, which may be long ago, and at a table that was the newest some time ago. No
bound of a table by `hashCount` is therefore inductive. The invariant is about all numbers at once: for every `n`, at
most `n` threads are among the first `n` (`AmongFirst`), which are those whose own number is no more than `n` and those that have a slot, or
the right to one, in a table of which three quarters are no more than `n`. A thread comes in with a number that is one more than those counted;
a failed allocation takes back one that is counted and has no slot. With `n` three quarters of a table, there are fewer keys
than slots (`RoomLeft`), so that probing ends. Hypotheses (`HashSizes`): finitely many threads, hashes that are numbers, a first table of at least
one slot, and 0 is no thread's id.

*Server.* `DescriptorsNameTheirOwn` is about what is queued between loops, and is not inductive: that no other connection has the
descriptor which a removal names is because the map still holds the closed one, which keeps the
descriptor open. The invariant says what the queues may hold (`QueuesHold`: registrations of connections of that loop
that are not announced, each once, and removals), that the map holds all that is not closed (`MapHolds`), that a removal
under way is the only one for its entry and finds a closed connection of its sender there (`RemovalsHold`), that what is registered with a
loop is its own and not closed (`Placed`), and that no two live connections share a descriptor (`LiveApart`). `AloneHeld`
carries `AloneIsSafe`: without a pool the map holds a connection until the handler that closed it has returned, since
the removal is a task of the same loop. Assumptions: the main loop is none of the pool's, pools are sequences of I/O loops, and -1 and null are
neither descriptors nor connections.

*Connection.* `StreamsIntact` says after a reset only that what arrived is a prefix, which a step could not
keep by itself; the invariant has the equation for a connection that is not reset (`OutIntact`, `InIntact`: what was
received, is in the socket and waits in the buffer is what was sent), the bytes that still wait after the writing side was shut are those sent
after the `Shutdown` (`ShutAfterWritten`), and a reset leaves the socket empty (`Ends`). The lemmas about moving a piece from one
sequence to the next are proved once for both directions. `ReplyMeansWritten` is an action property and follows from the same invariant.

*TimerQueue.* The timerfd and its races have no part in the invariant: whenever it fires, what is run depends on
the heap and the clock. The invariant is that the heap is ordered and holds each timer once (`HeapOrdered`), that what has run is over,
in order, and was due before all that is in the heap (`RanOrdered`), and that a timer is in the heap or has run, and both
only while its callback runs, when it is on top (`RanOrWaiting`). The last is where it matters that a timer added by a callback
cannot come on top of the one being run, which is popped after the callback: its expiry is the present or later, and the one
being run is over. Assumption: intervals are not negative.

Only model-checked, and why:

* All liveness properties: ENABLED and fairness are not in the prover's reach.
* The refinement of `LogSink`, and `CrashLosesNoRound` but for its part above: they speak of the messages of all buffers
  in a row, a recursive definition (`FlattenSeq`).
* `HttpServer`: what has arrived and what the parser takes up are folds over the tokens of the requests, and routes and
  matchers are tried by folds, so that its properties would need induction over data.

## 5. Plan

The order of the modules was: what every other part runs on first (`Looper`), then what crosses
threads (`Server`, `AsyncLogger`, `LooperThread`, the queue), then the state machines within one thread
(`Connection`, `TimerQueue`, `IOBuffer`, `HttpServer`), then what they end in (`LogFile`, `HttpResponse`). Left:

1. `Matcher::Init`: the check of the braces, and patterns with groups that the code pairs wrongly, against a
   reference definition.

### Not modelled

* The formatting of `LogStream` and of dates, the types of contents and the listing of directories, the `any`
  type: computations within one call that keep no state. A piece of a log line that does not fit its stream is
  dropped by them without a word; that is in the list of hazards.
* What the vendored queue has and the program does not call (section 2), and orders of memory weaker than
  sequential consistency.
* The destruction of a `Server` and of a `ThreadPool`, which no program of the repository reaches: its loops run
  for ever. That of one `LooperThread` is in `LooperThread`.
* A system clock that is set (`TimerQueue` has one clock), and `quit_` as a plain variable whose read the compiler
  could hoist: every call in the loop is opaque to it.
* The examples, but for the page of http.cpp.
