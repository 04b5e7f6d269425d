# A verification of the web server

TLA+ modules, TLC runs and TLAPS proofs for the multi-reactor HTTP server under `src/WebServer`, the load generator
under `src/WebBench`, and the older servers under `src/WebServer/old_version`. Every definition is translated from the
code; `PROJECT.json` maps each one to its lines.

## The system

`main.cpp` runs a main reactor that accepts connections and hands each to one of `thread_num` sub reactors. A reactor
owns its connections, their epoll registrations and their timers, and is touched by other threads through one mailbox
only. Two things are shared by all threads: the log and the page cache.

| component | state | operations | talks to |
|---|---|---|---|
| `EventLoop`, `Poller` | `pending_functions_`, `is_stop_`, the eventfd, the flag for running functions | `Loop`, `QueueInLoop`, `RunInLoop`, `StopLoop`, `WakeUp`, `PerformPendingFunctions` | any thread queues functions; epoll wakes it |
| `EventLoopThread` | `sub_loop_`, its thread | `StartLoop`, `Worker`, destructor | creates and stops an `EventLoop` |
| `WebServer`, `EventLoopThreadPool` | listening socket, round robin index | `HandleNewConnect`, `GetNextLoop` | queues `Register` in a loop |
| `HttpConnection`, `Channel`, `Poller` tables | parse and process state, buffers, events, tables by descriptor | `Register`, `HandleRead`, `HandleWrite`, `HandleUpdate`, `Delete` | epoll, timers, cache |
| `Timer`, `TimerHeap` | heap of timers with a deleted flag, a clock modulo 10000 s | `AddTimer`, `Release`, `HandleExpireEvent` | closes connections |
| `LFUCache` | list of lists by frequency, two maps | `Get`, `Set` | `BuildResponse` of every IO thread; `MemoryPool` |
| `MemoryPool` | blocks, free list | `allocate`, `deAllocate` | `LFUCache` |
| `LogStream`, `Logging` | a line of 4 KB on the stack of who logs | `operator<<`, `FormatLevel`, destructor | hands its line to `AsyncLogging` |
| `AsyncLogging`, `LogFile` | current, next and filled buffers, worker, file | `WriteLog`, `Stop`, `Worker` | every thread logs |
| `ThreadPool` | ring of tasks, one mutex and condition | `Start`, `Add`, `Destroy`, `Free`, `Run` | built with the server, used by nothing |
| `SkipList` | nodes with a pointer per level, a file | insert, delete, search, dump, load | a header of its own |
| `FtpConnection`, `FileOperator`, `UserManager` | session state, working directory, open file; the files | one command or piece of data per readable event | files the server has |
| WebBench | options, request, children with alarms, a pipe | `ParseArg`, `BuildRequest`, `WebBench`, `Worker` | an HTTP server |
| old `HTTPServer`, `FTPServer` | maps by descriptor in two loops, held by counted pointers; timers | accept, read, write, expire, delete | their own reactor, the same FTP session |
| `BlockQueue`, `WorkerThreadPool`; test clients; command line | | | see the end |

What is hard here: the wakeup of a loop is written after the mailbox is unlocked; epoll is edge-triggered and
`EpollMod` skips the system call when nothing changed, so a readiness that comes at the wrong moment may be lost;
descriptors are used again at once; handlers are bound to plain pointers; the same timer may be given up, due and
renewed in one iteration; the log hands buffers from thread to thread and its file may fail; `Get` and `Set` of the
cache lock separately; a request comes in as many reads as the network likes; two threads stop and join each other; a
pool is shut down while its threads are still being created; a list is walked while it is changed; an alarm rings
between a test and the call it was to interrupt; a process ends while its file is half written.

What makes each part correct: the mailbox is a queue that loses nothing and never sleeps on work; StartLoop, Stop and
Join return; the tables name living connections only, and each open one has at most one live timer; no event and no
output is forgotten; no timer closes early and none that is due stays; each buffer of the log has one holder and the
file has the records in order, in whole lines; the cache's lists and maps agree and it evicts what was used least; a
request is understood as it was sent; a pool runs its tasks in order and once, and drains before it ends; every level
of the skip list is a part of the one below, and a start holds what the file says; a benchmark's totals are of reads and
failures that happened; who waits for an answer gets the one to its request; an uploaded file is what was sent. The hazards in `PROJECT.json` name the line where each could go wrong.

## Modules

| module | models | state and actions |
|---|---|---|
| `TaskQueue` | what the mailbox promises | a queue, `Submit`, `Execute`, `Close` |
| `EventLoop` | `event_loop.cpp`, `Poller::Poll` | `lpc` is the line of `Loop()`; `counter` and `edge` are the eventfd and its place on epoll's ready list; `QueueInLoop` and `WakeUpFrom` are the push and the later write of another thread; implements `TaskQueue` |
| `EventLoopThread` | `event_loop_thread.cpp` | extends `EventLoop` with the owner's and the IO thread's program counters; implements it |
| `Acceptor` | `webserver.cpp`, `event_loop_thread_pool.cpp` | the backlog, the listening socket's edge (`ready`) and registration (`interest`), the channel's two masks, `next_`, each sub loop's mailbox; one action for each way an `accept` of the loop in `HandleNewConnect` ends; `batch` and `cutShort` are history |
| `LogLine` | `log_stream.cpp`, `logging.cpp` | operators: a statement is its level and pieces, a piece its size, and a line is a function of it |
| `AsyncLogging` | `async_logging.cpp`, `LogFile` | extends `LogLine`; buffers are identities, `content` what is in them; one action for a record (with each way of changing buffers), one for a fatal one, one for each step of `Worker`, where a write to the file may fail part of the way |
| `HttpConnection` | `http_connection.cpp` without parsing, `channel.cpp`, `poller.cpp` | `conn` has the fields of connection and channel, `sock` the kernel's side; a handler is an action, `HandleUpdate` the next |
| `TimerHeap` | `timer.cpp`, `timer_heap.cpp` | timers carry their creation as history; `HandleExpire` and `PopTimer` look at the top only |
| `LFUCache` | `lfu_cache.cpp` and its use in `BuildResponse` | the chain of lists, `kmap`, `fmap`; `GetMiss` and `Set` are separate steps of a thread; `newer`, which of two nodes was used later, is history |
| `MemoryPool` | `memory_pool.cpp` | slots are a block and a place in it; a locked section is a step, each look without a lock a step before it |
| `HttpParser` | `HandleRead`, `ParseRequestLine`, `ParseRequestHeader`, `BuildResponse` | the stream, `read_buffer`, the two states and the scan's local indices; `HandleRead` is one action whatever the read returned |
| `ThreadPool` | `thread_pool.cpp` | the ring and its indices; a locked section is a step, but for the wait, the task, and the two halves of `++` and `--` of the count of threads, which `Start` changes with no lock |
| `SkipList` | `SkipList.h` | `forward`; a writer links or unlinks one level a step, a walker looks at one node a step; `file` is the text of `STORE_FILE`, in lines of characters, with what `_fileWriter` still has to write; `Restart` ends the process anywhere, tears that text anywhere and loads it |
| `WebBench` | `web_bench.cpp` | a step of a child is a system call and the code up to the next; `AlarmHandler` comes between any two, and `BeginRead` stands between the test of the flag and the read; `answered`, `closed` and `lost` are what happened to a child, its two counts what it says |
| `OldHttp` | old `httpConnection.cc` | parsing on read, one file name and one write handler until the socket may be written to; `in` is `inBuffer_` in lines, `Turn` one turn of the loop of `handleRead`, `out` what `outBuffer_` kept of a cut answer |
| `FtpSession` | `ftp_connection.cpp`, `file_operator.cc`, `user_manager.cc` and the old copies | a tree of files; a path is a sequence of the pieces the code glues, `Resolve` is what the kernel makes of it; an open file is a path, a place in it and a buffer, for two sessions may have one open; one action per command |
| `OldServer` | old `HTTPServer.cc`, `FTPServer.cc` and their reactor | extends both; the loops' queues, `channelMap`, timers; who holds a channel is counted, and its descriptor closed with the last holder |
| `MC...` | | values for TLC: requests, statements, command lines, scripts, trees, symmetry |
| `...Proofs` | | proofs of `EventLoop` with `EventLoopThread`, `AsyncLogging`, `HttpConnection`, `Acceptor`, `OldServer`; `PageCacheProofs` of `LFUCache` and `MemoryPool`, `OrderedProofs` of `TimerHeap` and `SkipList`, `WorkerProofs` of `ThreadPool` and `WebBench` (whose specification is `BenchSpec`, for two are in one module there) |

`HttpConnection` and `HttpParser` divide `HandleRead` between them: the first knows the three ways parsing can end and
everything about sockets, the second knows nothing of sockets but what a read returns. `HttpConnection` lets any set of
timers be due; `TimerHeap` says which are. `Acceptor` puts connections into mailboxes, each a `TaskQueue` that
`EventLoop` implements, and takes no more of what follows than that a closed connection gives its descriptor back;
`HttpConnection.Accept` is that hand-over seen from the sub reactor. `LFUCache` is the one caller of `MemoryPool`, whose
two-fold `OverrunBound` says what the cache's mutex adds.

`old_version` is modelled where it is another program: its two servers, its reactor and the FTP session they serve,
which the new tree holds a port of. Its log, cache, memory pool and thread pool are earlier texts of the code above.

## Runs

| run | checks | instance |
|---|---|---|
| `event_loop` | `NoLostWakeup`, `NoLostStop`, the refinement of `TaskQueue` with its liveness, `StartAndJoinReturn`, under start, use and destruction of an IO thread | owner and one user, 3 functions, 1 socket, 2 stops |
| `async_log` | `OneHolder`, `AssertionsHold`, `InOrderOnce`, `LinesWhole`, `EventuallyWritten`, `StopEnds` | 2 writers, 6 records of 7 kinds, buffers of 21, lines of 20, batches cut from 4 on, a disk that may be full |
| `acceptor` | `OnePlace`, `WaitsBehindRefusal`, `EventuallyRegistered` | 3 sub loops, 5 connections, 3 descriptors |
| `connections` | `TablesAreCurrent`, `HandledIsAlive`, `OneTimer`, `NoLostEvent`, `OutputSent` | 2 connections, 2 descriptors, responses of 2 send buffers |
| `timer_heap` | `NeverEarly`, `NoneExpiredLeft` | 2 connections, timeouts 1 and 3, period 5, time to 8, 3 timers |
| `lfu` | `CacheIsConsistent`, `EvictsLeastUsed` | 2 threads, 5 files, capacity 2, 3 uses, 2 double stores |
| `memory_pool` | `OneOwner`, `OverrunBound` | 3 threads, 2 blocks of 2 slots, a list of at most 2 |
| `http_parser` | `WholeReadsUnderstood`, `BuiltWhenSent` | up to 2 requests of 3 kinds, every split of their text |
| `thread_pool` | `InOrderOnce`, `DrainedIfAnyWasLeft`, `DestroyReturns` | 2 workers, 3 tasks, a ring of 2, 2 threads that may shut it down |
| `skip_list` | `WellLinked`, `SearchIsRight`, `Reloaded` | 3 keys, one of them with a `:`, 2 levels, 2 dumping threads, values that are empty, a `:` and two lines, a file with every odd kind of line |
| `web_bench` | `TotalsAreReal`, `ParentEnds` | 10 command lines, 2 clients, 2 requests each, 1 failing call each |
| `old_server` | `HandlerIsAlive`, `ClosedWhenDue`, `NoLostEdge`, `AnswersMatch`, `UploadKept`, `RemovedAsReported` | 2 HTTP clients over 2 descriptors, timeouts 1 and 2 on a clock of 2, 9 scripts of requests that are taken or refused; or 2 FTP sessions with 4 and 2 messages, 5 in all, over 3 trees |

Why the bounds are enough. Three functions are one running, one in the swapped vector and one in the mailbox, and two
threads put a second write between a first one's push and write; two stops are the destructor's and a callback's, in
either order around `Loop()`. A buffer of the log takes two short lines or one other, and six records fill the two
buffers, take from the heap, and make a batch that is cut, with records accepted on both sides of it; the kinds are a
line that just fits, one with no room for its end, two that lose a piece, one of a level nobody knows, which is fatal,
and one that is not kept. Two connections over two descriptors let one be closed and its descriptor be used again while
the other's events are handled; two send buffers make an answer that is sent whole, in part, and not at all. A period of
5 with times up to 8 wraps within the life of a timer. Four nodes hold a full cache of two, and two nodes that no key
leads to; a fifth file is always missing. Two requests are enough for what one leaves to the next. Five connections go
once round three loops and on, in one batch or several, and three descriptors make the fourth open connection one that
is refused. Three threads can all have looked before the last slot of a block is cut; they do reach the bound of
`OverrunBound`, which is therefore tight. In the second block the memory of an older one is compared with. Three tasks
through a ring of two fill it and go round it; two workers make one that leaves and one that stays, two closers a second
`Destroy`. Three keys are one before, at and behind the place of a change, and two levels a node in both and one
in the lower; their texts and values make a line that is split at the wrong `:`, one that is two lines, and, torn, one
that is another pair. Two children make a total that is a sum, and a parent that still reads when one has died. Two
descriptors let one be used again while the other's close is still queued. The scripts refuse a request for its first
line, for its version and for a header, in one piece and in several, in front of one that is taken; two clients share
the timers and descriptors, and nine scripts rather than every one keep the run within minutes. Four messages are a
login, a command and its data, or three commands that build on each other; the second session's two are a login and an
upload to the first one's file, or a removal of its directory; the trees have a name that is two others glued together.

Bounds of the models, named in their guards: `MaxStops`, `Offered` (and the heap `Buffers`, by `Replaceable`),
`MaxOutput`, `MaxTime`, `MaxTimers`, `MaxFreq`, `MaxTwice`, `Nodes`, `MaxRequests`, `MaxArrivals`, `MaxBlocks`,
`MaxFree`, `MaxRounds`, `MaxLost`, `MaxSends`, `MaxMessages`, `Scripts`, `FtpSends`; the texts a load meets are in
`KeyText` and `Values` (`Known`), and what two dumps at once leave is in `Files`. Constants of the code made small: `Capacity`, `MaxBatch`,
`KeptOfBatch`, `FlushEvery`, `LineSize` and the sizes of a line's parts, `MaxLevel`, `queue_size`, `BlockPieces`,
`ExpiredTime`, `KeepAliveTime`, `Wrap`, `Period`, `MaxFdNum`. `memory_pool` uses the symmetry of its threads, `lfu` that
of threads and files, `skip_list` that of the dumping threads; none has a liveness property.

Deadlock is not checked where the system may stop: a loop that returned, a log that was stopped, a loop whose
connections are silent, time that ends at its bound, a peer that sends no more, clients that connect no more, a pool at
its last block, a pool of threads that was destroyed, a benchmark that ended, a server that crashed. `lfu` and
`skip_list` check it.

### Fairness

Weak fairness of the loop thread (`LoopStep`), of an IO thread and its owner in the middle of `StartLoop`, `Worker` and
the destructor, of the log's worker and of a thread in the middle of `QueueInLoop` or `Join`; in `Acceptor` of the main
thread (`MainStep`) and of each sub loop's `Register`, which is what the liveness of `TaskQueue` grants; in `ThreadPool`
of each worker that is not waiting for a signal (`WorkerStep`) and of a closer that joins (`JoinAndFree`); in `WebBench`
of parent and children (`Probe`, `Fork`, `ReadLine`, `ChildStep`), of the alarm, and of the one read the alarm
interrupts. Each is a thread or process the scheduler runs, none of whose steps waits for a lock for ever. Nobody is
bound to queue, log, stop, connect, close, send or answer, and no wait of the pool is bound to end without a signal.
Sockets may wake a loop at any time, and no property counts on it. `OutputSent` assumes a peer that reads (`PeerReads`),
as its statement says. The log's wait has a timeout in the code, which is why its worker may always go on.

## Proofs

For every value of the constants, from the assumptions named in the modules:

- `EventLoopProofs`: `TypeCorrect`, `WakeupNeverLost`, `StopNeverLost`, `LoopIsATaskQueue`. `NoLostWakeup` speaks of
  the blocked loop only and is not inductive: the loop may drain the eventfd, or use up its edge, long before. The
  invariant `LoopInv` adds `PendingCovered`: while something is pending, a wakeup is coming or the loop is in a phase
  that swaps or writes first. The refinement shows that a push is `Submit`, the start of a function `Execute`, the
  return of the loop `Close`, and every other step leaves the abstract queue as it is. `ThreadUsesItsLoop` is a second
  refinement, of `EventLoop` by `EventLoopThread`, step by step; `ThreadNeverMisses` then takes the invariants over to
  the composed system the run checks.
- `AsyncLoggingProofs`: `BuffersHaveOneHolder`, `WorkerAssertionsHold` (needs a cut to keep two buffers at least).
  `LogInv` adds `Rounds`, that the worker has a batch buffer for each spare it gave away (the second spare went only
  if `next_buffer_` was missing, which it is only if a writer queued a buffer since), and `SparesEmpty`. It holds with
  fatal records and with writes that fail.
- There too: `RecordsKeepTheirOrder`, `LinesAreWhole`. `OrderInv` adds to `LogInv` that buffers nobody fills are empty
  (`FreshIsEmpty`), that the worker has written no more of its batch than there is (`Progress`), and that the file, the
  rest of the batch, the filled buffers and the current one, one behind the other (`Whole`), are the records in the
  order they were accepted, less those dropped. The assumptions on constants are those of the code: no
  line is longer than a buffer (`kSmallBufferSize` 4000, `kLargeBufferSize` a thousand times that), and each statement
  is made of pieces (`Piece`). What `FlattenSeq`, `FoldLeft` and `IntToString` compute, which is defined by recursion,
  is proved by taking the least place at which it would be wrong.
- `HttpConnectionProofs`: `TypeCorrect`, `TablesStayCurrent`, `HandlersAreAlive`, `OneLiveTimer`, `NoEventIsLost`, for
  any set of connections and descriptors. None of them is inductive alone, and `ConnInv` is the first four with five
  more. Open connections have descriptors of their own and those not yet registered are queued (`Opened`); a socket
  outside the epoll set reports nothing (`Silent`); `timer_` refers to the only timer there is (`TimerKnown`); events
  are handled between a poll and the pending functions, from `events_` that the poll emptied (`Handling`). The argument:
  a connection leaves the tables in the one step in which its one timer is used up; with the timer goes the last
  reference, and with it the descriptor; so whoever gets the descriptor next finds the tables empty there. A second
  timer, or a handler that left without one, would break all three at once. For `NoEventIsLost` the fifth, `Watching`,
  follows a connection through its phases: while it waits, `last_events_` is what the kernel has and what has happened
  of it is on the ready list; once reported, it is what the connection waits for; and when its update is due, the
  handler has used up all there was, so that what came since has made an edge, unless the registration changes and
  epoll_ctl looks again. What a handler makes of its connection is a lemma each (`Handled`, `Served`), proved apart from
  what the step does to the tables.
- `OrderedProofs`, of the timers: `TimerTypeCorrect`, `OneLiveTimer`, `NeverClosedEarly`, `ExpiredArePopped`. The
  invariant is `Lag`: since a timer was made, its clock has not gone further than time has, because wrapping only takes
  it back.
- `OrderedProofs`, of the skip list: `LevelsStayLinked`, `SearchesAreRight`, `FilesAreReloaded`, for any keys, texts,
  height and file and any number of dumping threads. `WellLinked` speaks of the list between two writers, and every
  walker reads it during one. `ListInv` therefore says what a level holds at any moment (`Members`): the nodes made for
  it, less those a writer has still to link in there or has taken off already. Every pointer leads to a member of its
  level behind its node (`Upwards`) and passes over none (`NonePassed`), which one write to one pointer keeps
  (`LinkKeeps`, `UnlinkKeeps`), because the writer's `update` still names the place before the key (`WriterIsRight`); a
  node nobody has linked leads nowhere (`Bare`). `ChainIs` makes sequences of that: a chain whose pointers rise and
  pass none is the members in order. It is an induction along the list, done by the least node for which it would fail.
  `WalkInv` is what a walker knows: undisturbed, it stands before its key on the level it is at, and while no delete ran,
  at a node that is there. `DumpInv` says of a dump that nobody disturbs and that has the stream to itself what it has
  written so far: if the texts are plain, the lines of the nodes it has passed, one each (`OneLine`), which the load
  splits as they were joined (`PlainIsRead`). `LoadInv` says that the list holds the last value of each key in the lines
  read (`ReadSoFar`), whatever they are: torn, mixed, or a line without a delimiter, which inserts the pair before it
  once more (`ReadAgain`).
- `PageCacheProofs`, of the pool: `PoolTypeCorrect`, `SlotsHaveOneOwner`, `OverrunIsBounded`. `OverrunInv` counts: a
  thread is late when it looked at a place with room, whether or not it compared it yet, and has not cut; once the block
  is used up, the slots cut behind it and the late threads are together fewer than the threads there are. `SerialInv` is
  what one caller at a time sees.
- `PageCacheProofs`, of the cache: `ListsAndMapsAgree`, `LeastUsedIsEvicted`, for any number of threads, files and nodes
  and any capacity. `CacheInv` says of the lists that they are in order of frequency, none of them empty, and each
  `Filed`: its nodes are different, have been used as often as the list says, and lie in the order of their last use
  (`ListsInv`); that nodes in use are those with a key (`NodesInv`); that the maps have the same keys and lead to the
  key's node and its frequency (`MapsInv`); and, while no key was stored twice, that the nodes in use are those a key
  leads to and no more than the capacity (`SizeInv`). That the last node of the first list is the least used one is then
  a fact about the chain alone (`VictimIsLeast`). `AddFreq`, `Del` and `Add` have a lemma each, of any chain.
- `AcceptorProofs`: `TypeCorrect`, `EachInOnePlace` (from `PlaceInv`: no queue repeats, no connection is in two places,
  and those that have arrived are just those that are somewhere), `WaitsBehindRefusalOnly` (from `Armed`: while the main
  thread polls, the socket is watched and its two masks agree) and `BatchesAreBalanced` (from `Dealt`: the loops between
  where a batch began and `next_`, going round, have one connection more than the others).
- `WorkerProofs`, of the pool: `TypeCorrect`, `TakenInOrder`, `GracefulDrains`. `RingInv` relates the ring, read from `head_`
  on modulo its size, to the history of what `Add` accepted and workers took. `DrainInv` says that after a graceful
  `Destroy` a worker leaves only when the ring is empty, and that nothing is added any more, so that whoever had not
  left when it came stands for the draining.
- `WorkerProofs`, of the load generator: `BenchTypeIsInvariant`, `BenchIsInvariant`, `TotalsAreTrue`, for any command
  lines, clients, requests and failing calls. The totals exist only at the end, so `BenchInv` follows them there. Of a
  child it says (`Fair`) that it counted no success without a read that returned, of an answer or of the end of the
  stream, but one that its alarm explains, none less but for a socket that could not be closed, and that its failures are the server's and the network's and at most the one of the call the alarm met, which is still to come
  while `hit` holds and which `End` takes back, or takes from the others when the alarm met no call. Of the parent it
  says (`Accounted`) that there is a set of children it has read, whose counts its totals are the sums of, and a
  sequence of other children whose lines are those in the pipe; no child is there twice, and as many are to be read as
  were forked and are not in the set. At the end that set is everyone who was forked. That the sums then compare as
  their terms do is a lemma about `SumFunction` (`SumsDifferByOnes`), which the community modules define by recursion
  over an element chosen from a set: that such a function exists is proved for the subsets of at most k elements, one
  k after the other (`SumsExist`), and everything else term by term along it (`EachSubset`).
- `OldServerProofs`: `TypeCorrect`, `HandlersAreAlive`, `TimersCloseWhenDue`, `NoEdgeIsLost`, for any number of
  connections, descriptors and timers. All tables of this server are keyed by descriptor, and a descriptor is closed
  with the last holder of its channel. `ServerInv` therefore says first that no two connections have one descriptor
  (`OneDescriptor`), that what a map holds for a descriptor has that descriptor (`MapsPoint`) and that whatever a queue,
  the heap or the IO loop leads to has one (`HeldIsOpen`); then where a connection is while it goes from loop to loop
  (`OnItsWay`), that it has one node in the heap (`OneNode`), that events are of channels in the poller
  (`EventsAreOfChannels`) and these in the main loop's map (`InPollerIsInMap`). One lemma, `ReleaseKeeps`, is what every
  step needs: closing what nobody holds takes no descriptor from whoever is held.

Only model-checked: all liveness, for fairness and ENABLED are out of the prover's reach; everything of `HttpParser`,
`OldHttp` and `FtpSession`, and with it `AnswersMatch`, `UploadKept` and `RemovedAsReported` of `OldServer`. The first of
these three is about a fold over the lines of several reads, the last two about a fold inside a fold over a directory
tree. What `Scan` of the parser computes for every input would be an induction over data. No module uses a
RECURSIVE operator.

## What was met while reading

Where the code does not do what it, its documentation or its name says. The models do what the code does, and their
properties are stated around it.

In the server:

- A peer that ends its side before its answer is all sent never gets the rest, and the connection is not closed then
  (`http_connection.cpp:236`, against the comment of line 192). `OutputSent` speaks of peers that do not.
- Two threads that store the same file leave a node no key leads to; evicting both erases one key, after which the
  size is past the capacity, the test `==` never holds, and nothing is evicted again (`lfu_cache.cpp:157`, against
  README.md:113). `CacheIsConsistent` bounds the size as long as no file was stored twice; the rest of it holds always.
- A request line that is not complete is answered with 400 (`http_connection.cpp:275`, against the comments of lines
  175 and 273), as are headers that come in two reads (line 357) and a request behind another in one read, whose first
  letter is dropped (line 454). `WholeReadsUnderstood` speaks of requests that come whole and alone.
- `Loop()` sets `is_stop_ = false` (`event_loop.cpp:60`), so a stop given before the thread enters it is forgotten, and
  the destructor's `Join` waits for ever. `EventLoopThread` models it; `StartAndJoinReturn` speaks of a stop that is
  still set. The destructor uses `sub_loop_`, a pointer to an object on the other thread's stack, with no lock
  (`event_loop_thread.cpp:18`).
- `StopLoop` writes `event_fd_` after `is_stop_` is set; by then the loop may have returned and been destroyed
  (`event_loop.cpp:85`). `EventLoop` keeps the two steps apart and lets the write go on.
- `GetNextLoop` is called for the `accept` that fails too (`webserver.cpp:89`, before the test of line 92). Clients that
  come one at a time therefore advance `next_` by two each: with an even number of sub reactors, half of these get
  nothing, where `src/WebServer/README.md:77` counts on the round robin to balance the load. `BatchesAreBalanced` is of
  one call of `HandleNewConnect` only.
- A connection refused ends `HandleNewConnect` before `accept` has no more (`webserver.cpp:92` to `112`): those behind
  it wait until the next client brings an edge. `WaitsBehindRefusal` is proved: nothing else makes them wait.
- `src/WebServer/README.md:189` calls the memory pool thread-safe, with a lock for getting a slot. `allocate` looks at
  `freeSlot_` and at the end of the block with none, so that several threads run past the end of a block, by at most
  what `OverrunBound` says. The server is spared by the mutex of the cache, its only caller.
- `WholeReadsUnderstood` is of requests of three kinds; a file name of several words and a value of great length are
  not among them.
- The timers' clock wraps every 10000 s (`timer.cpp:20`), so a timer may be late by hours. `NeverEarly` is proved;
  that it is closed in time does not hold and is promised nowhere but in the timeout's name.
- `Poll` returns only with an event, so a loop without traffic never closes a silent connection (`poller.cpp:36`).
- `ReturnErrorMessage` writes over output of an earlier request that is still unsent (`http_connection.cpp:265`).
  Content-Length is the file's now, the body the cache's (line 525). A `Content-length` that is no number throws out of
  the handler (line 134). Every POST is answered with 500 (line 467), where README.md:13 lists POST as supported.

In the log:

- A record that is fatal joins the worker with the mutex the worker needs, and both wait for ever
  (`async_logging.cpp:41`). `StopEnds` excepts it. `LOG(FATAL)` is not fatal; an unknown level is
  (`logging.cpp:110` to `117`).
- `Stop` does not drain: records accepted in the worker's last round are not written (`async_logging.cpp:94`), which
  `EventuallyWritten` excepts. `buffers_` has no limit. A failed `fwrite` loses the rest of its buffer
  (`async_logging.h:34`). A piece that fills the line leaves no room for the newline, and two lines become one.
- `IntToString` never writes the sign (`log_stream.cpp:33`, against the comment of line 32). `logging.cpp:56` tests the
  address of the function `open_log`, so the option of README.md:109 has no effect.
- The build defines `NDEBUG` (`CMakeLists.txt`): the assertions `AssertionsHold` is about are not in the binary, so
  nothing but the invariant stands behind them.

In `ThreadPool`, `SkipList` and WebBench:

- `immediate_shutdown` is 0, as is `shutdown_` before any shutdown, so a worker that finds a task before one leaves with
  it taken by nobody (`thread_pool.cpp:135`). `DrainedIfAnyWasLeft` says what remains true. A second `Destroy` returns
  with the mutex locked (line 84), which `DestroyReturns` excepts; the count of threads is changed with and without it.
- A search with no lock may miss a key that is there all the time, because a smaller one is being linked
  (`SkipList.h:231`), and touch a node that is being freed (line 222); both are what `SearchIsRight` allows, and no
  more.
- The file of a dump cannot say everything the list can hold (`SkipList.h:350` to `352`, `370`): a key with a `:` in it
  comes back as a shorter key with a longer value, a value with a newline as a value and another pair, an empty value
  not at all. A process that ends during a dump leaves a file that is torn, and `trunc` has already emptied the one
  before it; a line cut behind its `:` is no pair, one cut behind the first letters of its value is a wrong one. Two
  threads that dump at once find one `_fileWriter` open (line 362) and use it with no lock; the model does not say what
  that leaves, but takes any of `Files`. `Reloaded` says that a start loads the file as it is, and names in `Plain` what
  a dump keeps.
- The alarm of a child may ring between the test of `is_expired` and the read, which nothing then ends
  (`web_bench.cpp:298`). The parent keeps the pipe's writing end open, so that a child that dies without its line makes
  it read for ever (line 610). A `read` of 0, from a server that has closed the connection without an answer, is counted
  as a success (lines 246 to 249, 309 to 313). `--get`, `--head`, `--options`, `--trace`, `--force`, `--reload` and
  `--keep_alive` have a flag, for which `getopt_long` returns 0, for which the switch has no case: the program prints its
  usage, which lists them, and exits (lines 63 to 86 and 394). With a proxy the children still connect to `host`, which is
  empty then (lines 199, 225, 268), and with `-k` they try for ever. A negative number of clients makes the parent sleep as if it were the child.
  `ParentEnds` names these.

In the older servers:

- A client that resets before it has a timer is never closed: EPOLLERR is not looked at (`Channel.cc:62`). Error answers
  say they close and nothing does; a POST is never answered and gets no timer; of several requests read at once the
  last is answered; what comes with the end of the stream is dropped (`httpConnection.cc:106`). `NoLostEdge` is about
  events, not about these.
- `parseError` drops what has been read (`httpConnection.cc:193`), not what is still to come of the request it refuses:
  headers that come in a later read are taken for a request and answered with another 400 (lines 118 to 122 and 150),
  and a client that waits takes that for its next answer. `AnswersMatch` excepts it from there on (`Straggles`). A line
  refused for its version has been passed, so its refusal waits for another CRLF (line 167); a header with no `: `
  swallows the lines up to the next one that has it (line 180). The rest of a cut answer is left in `outBuffer_`
  (`Util.cc:168`), where the next answer drops it (line 249) and the next refusal sends it in front of itself (line 318).
- FTP has no message boundaries, and an upload no reply: data that comes with the command becomes part of the name, an
  end that comes with data part of the file. `UploadKept` speaks of the file that the name as it was read leads to, and of
  what was sent from then on. Two sessions that upload to one name truncate the file under each other and write over each
  other (`ftp_connection.cpp:257`); `UploadKept` excepts the two, and a file that was removed. `rmdir` and `ls` of what
  is not there crash; `rmdir` looks for what is inside a directory with no slash between the names, so it finds
  neighbours: `RemovedAsReported` says that its lists are what went, not that this was what was asked. `touch` always
  reports success; a last short block is never downloaded. Nobody ignores SIGPIPE (`HTTPServer.cc:31`): writing to a
  client that has reset may end the server.

## Not modelled

- `test` clients (`http_client.cc`, `ftp_client.cc`): send a line, print the answer.
- `BlockQueue` and `WorkerThreadPool`: an earlier design. Nothing pushes into the queue and nothing creates the pool;
  alone they have no behaviour but a wait.
- Command line, socket options, listening, mime types: read or set once, before any thread starts.
- `FileOperator`'s operations that no command reaches, and `FileManager`, which nothing uses. The manager files are in
  no target, and `ftp_connection.cpp` includes a header only `old_version` has: `old_version` is where they run.
- `old_version`'s log, cache, memory pool, thread pool and loop threads, whose newer texts are modelled; its other
  reactors and its clients.
- `thread` and `epoll_ctl` calls are taken to succeed, memory to be there.
- An old HTTP request is cut between its lines only, and a client does not leave between the read and the write of one
  handler.
- An FTP client sends a command when the last was read; one that does not only makes longer junk names.

Two hazards have no property, for what should hold does not or needs two models in one: see their notes in
`PROJECT.json`.

What would add most next: proofs for `HttpParser`; output of `HttpConnection` as requests rather
than amounts, for the answers that overwrite what is unsent; several `EventLoopThread`s composed with `Acceptor`, for
the order in which the pool ends them.
