# coKV: TLA+ models and proofs

coKV is a key-value server in C++: a coroutine runtime (coroutines, a scheduler
with worker threads, an epoll-based event manager, timers, hooked system calls)
and on top of it a TCP server whose connections each own a skip list. This
directory holds TLA+ models of it, the TLC configurations that check them, and
TLAPS proofs. `PROJECT.json` maps every definition to the source lines it
models. Every path below is relative to `src/`.

## The system

| Component | State | Operations | Hard behaviour | Correct when |
|---|---|---|---|---|
| `Selfco` (selfco/) | `m_ctx`, `m_state`, `m_cb`, thread-local current coroutine | `resuem`, `yield`, `yieldtohold`, `reset`, `MainFunc` | the state field is stored before the context is saved; TERM is overwritten by the last `yield` | a coroutine is resumed only from a saved context, at most once at a time |
| `Scheduler` (scheduler/) | `m_tasks`, active and idle counters, `m_stopping`, `m_autostop`, `m_threadpoll` | `addTask`, `run`, `start`, `stop`, `stopping` | workers share the list under one mutex but read coroutine states outside it; shutdown reads several variables at different moments | no task is lost or run twice, every task is served, shutdown leaves nothing behind and ends |
| `Thread`, locks (thread/, lock/) | `m_thread`; `m_locked` of each guard | `join`; `lock`, `unlock`, scope entry and exit | the flag decides whether the lock is touched | exclusion; a guard releases only what it took |
| `IOManager` (iomananger/) | per descriptor `events`, read and write context; `m_pendingEventCount`; epoll's interest list | `addEvent`, `delEvent`, `cancelEvent`, `cancelAll`, `idle` | the registration exists in three copies; reports of `epoll_wait` are served after the lock was free | the copies agree, a waiting coroutine has one wake-up source, no edge is lost |
| `TimerManager` (time/) | `m_timers`, `m_tickled`, each timer's `m_next`, `m_cb` | `addTimer`, `cancel`, `refresh`, `reset`, `listExpiredCb` | cancellation races with expiry; the lock is released inside a loop | a timer fires once (or periodically), never after a completed `cancel` |
| hook, `FdManager` (hook/, fd_manager/) | `FdCtx` per descriptor | `io_func`, `accept`, `close`, `get`, `del` | retry loop across suspensions, timeouts, close against waiting coroutines, reuse of numbers | a call returns the result of its own descriptor, nobody closes another's |
| `TcpServer`, `Socket` (tcp_server/, socket/) | listening socket, `mIsStop` | `start`, `stop`, `handleAccept` | stop flag against a blocked accept; an orderly end closes twice | a connection that waits is accepted, stays open until its client ends it, and then gives its descriptor back |
| `KVS` (KVserver/) | per connection `rbuf`, `wbuf`, `kvlist`, `skipptr`; the static position of `strtok` | `handleClient`, tokenising, five commands | connections on different threads share `strtok` | each connection executes its own requests on its own data |
| `SkipList` (skiplist/) | nodes with forward pointers, level, count | insert, delete, search, get, dump, load | pointer surgery on several levels | it behaves as a dictionary; no pointer to freed memory |

Calls go downwards: `KVS::handleClient` runs in a coroutine of an `IOManager`,
its `recv` and `send` are hooked; `io_func` registers the descriptor with
`addEvent` and yields; a worker without tasks runs `IOManager::idle`, whose
`trigerEvent` puts the coroutine back into the task list with `addTask`.

## Modules

| Module | Models |
|---|---|
| `CoroutinePool` | abstract: a job goes new, queued, running, then waiting and queued again any number of times, then done |
| `Scheduler` | task list, worker loop, coroutine switch, and the parts of `IOManager` that decide when a worker idles, wakes a job and shuts down |
| `SchedulerProofs`, `SchedulerShutdownProofs` | its theorems |
| `ScopedLock`, `ScopedLockProofs` | the three guard templates over one lock, and their theorems |
| `IOManager`, `IOManagerProofs` | the registry of events per descriptor and its table, epoll, the retry loop of the hooked calls; what holds for any number of workers or of directions |
| `TcpService` | abstract: a connection waits, is open until its client ends it, and is closed once |
| `Connections` | the acceptor, handlers, hooked accept, recv, send and close, `FdManager`, the registry and the kernel's descriptor table together; implements `TcpService` on one worker |
| `ConnectionsProofs` | its theorems for one worker |
| `TimerManager`, `TimerManagerProofs` | the timer set, its operations and the collection of expired timers; what holds for any number of threads |
| `KVMap` | abstract: a dictionary with the five commands and their replies |
| `SkipList` | pure operators: the skip list as a record with nodes, pointers and levels |
| `KVStore`, `KVStoreProofs` | `kvstore_parser_protocol` on a skip list; implements `KVMap`, which is proved for every set of keys and any number of levels |
| `KVServer`, `KVServerProofs` | `handleClient` of several connections: recv, `strtok`, execute, send; what one thread guarantees |
| `MC*` | instances for TLC |

Each action is what a thread does between two points where another thread can
see an intermediate state: a critical section, an atomic counter update, one
store of a shared field, or the context switch itself. Operators whose comment
calls them defective variants are used only to test that the properties can
fail.

### Scheduler

One job is a coroutine with its function. `pc` follows `Scheduler::run`:

```
fetch -> resume -> body -> yield -> switch -> after -> settle -> fetch
      -> idle -> check -> check2 -> poll <-> count, poll -> unidle -> fetch
```

* `Fetch` is the scan of `m_tasks` with the removal and the increment of the
  active counter (one critical section). `Resume` is `resuem`: EXEC, then the
  context is loaded. `Hold` and `SwitchOut` are the two halves of `yield`.
  `AfterResume` and `Settle` are the code after `resuem()` returns.
* `CheckQueue` and `CheckPending` are the two reads of `IOManager::stopping`.
  `Trigger` and `Uncount` are the two effects of serving an event.
* `Arm` is `addEvent` followed by a yield. Which event it is belongs to
  `IOManager`; here a job is "armed".
* `LeaveRun`: the branch of `run()` that leaves the loop tests for TERM, but the
  last `yield` of a finished coroutine has stored HOLD. The idle coroutine is
  resumed once more, `MainFunc` returns, and the context has `uc_link ==
  nullptr`. The manual pages say that the thread exits; glibc ends the
  process. `NullLink` is "thread" or "process". With "thread" everything after
  the loop can be studied; with "process" the model shows what glibc does.
* `ctx` tells whether a saved context exists. Loading one that is in use or
  whose function has returned makes `fate` "corrupt" and nothing is claimed
  afterwards.

Not in this model: `tickle` (it changes no shared variable of the model and no
step waits for it), the branches of `run()` for READY and TERM that no coroutine
can reach, a second call of `stop()`, and timers (`TimerManager`). The mutex guards are taken to
start with `m_locked == false`; what happens otherwise is `ScopedLock`. With
`use_caller` the caller's thread executes no task, because `stop()` resumes the
scheduler coroutine from itself; `Workers` are the threads of the pool.
Instances with `Workers = {}` (`IOManager` with one thread and its default
`use_caller`) violate `DrainedAtDone`, against the comment at
`scheduler/scheduler.cpp:8`; `DrainedAtDoneCorrect` therefore asks for a worker.

### ScopedLock

A guard decides by its own `m_locked` whether it touches the lock. The read and
write guards initialise the flag, the plain guard does not: `Garbage` is the set
of values it may find. Threads construct, lock again, unlock early and destroy
guards in any order. Fairness is not needed: the properties are safety.

### IOManager

For each descriptor: `events` (the mask), `waiter` (the coroutine of each
direction) and `interest` (what epoll was told) are the three copies. `listed`
is epoll's ready list; an edge-triggered descriptor leaves it when it is
reported. `reports` are what each worker's last `epoll_wait` returned and is not
served yet; other operations come in between. `Serve` is one turn of the loop in
`idle`, `TryOk`, `TryAgain`, `AddEvent` and `Resume` are `io_func`. At most one
coroutine uses one direction of one descriptor, which the assertions of
`addEvent` demand. `Cancels` are the events `cancelEvent` is called for; the call
may be late, as the timer of `io_func` is. Trigger and counter update are one
step here because the context mutex is held; their order matters to shutdown
and is in `Scheduler`.

`size` and `latest` are `m_fdContexts`. A thread that finds the table too small
(`TryAgain` leads to `Grow`) resizes it to `fd * 1.5` under the write lock,
whatever its size is by then, so the table may shrink; contexts that are cut off
are not freed, and a later growth makes new ones (a descriptor gets at most
`MaxContexts` of them after its first, a bound). `target` is the context
`addEvent` has looked up, `ptr` the one epoll knows. A connection that its peer
resets (`Break`) makes every call return at once and adds EPOLLERR and EPOLLHUP
to its reports (`RealEvents`).

A call from outside looks the context up under the read lock and works on it under the
context's mutex; `DelEvent`, `CancelEvent` and `CancelAll` are one step, because all that a resize in between
changes is which context later calls find.

Left out: failures of `epoll_ctl` other than a missing or present descriptor, and
the callback variant of `addEvent`, which nothing uses. Closing and reuse of
descriptor numbers is `Connections`. The timeout of `io_func` cannot occur: no
code calls `setTimeout`, and `getTimeout` compares RECV and SEND with SO_RCVTIMEO
and so always returns `m_sendTimeout`, which is -1.

### Connections

The components meet over descriptor numbers, so this module composes them, each
as far as a number's life depends on it. `table` is the kernel's: `Accept` takes the
lowest free number, `CloseFd` frees the number a socket object holds, whoever has
it now. `fdctx` is `FdManager::m_datas`, `waiter`, `interest` and `pending` are the
registry of `IOManager`, `fd` is `Socket::m_sockfd`, `seen` the `FdCtx` that `io_func`
keeps over its retries, `op` the event its call may wait for. A handler answers what it
receives; the answer may fill the buffers (`full`), and the next one then waits until
the client has read.

```
acceptor: queued -> loop -> call -> try -> lookup -> (create) -> spawn -> loop, ... -> close -> closefd -> done
handler:  queued -> call -> try (-> add -> wait -> woken -> try) -> call, ... -> close -> cancel -> del -> closefd -> done
```

The steps are the critical sections of `FdManager` and `IOManager` and the system
calls. `RecvEnd` sets `closes` to 2, as `handleClient` calls `close()` twice. A
failed assertion of `addEvent` makes `fate` "abort"; waking a coroutine that does
not wait makes it "corrupt"; nothing is claimed afterwards.

`ConnOne` has one worker, as `tcp_server/text.cpp` has: its
`IOManager(2)` counts the caller, who executes no task. The handler is that of `KVS`, whose
server this is about; `TcpServer::handleClient`, which `tcp_server/text.cpp` runs, differs
after a short `send`, where it returns without closing. On one worker nothing comes between
the two closes and every property holds. `KVserver/text.cpp` runs two workers: the
acceptor may be given the number between the two closes, the second one closes the
new connection, and its handler then registers on the number of whoever comes next
(`ConnTwo`).

When two of the three connections of `ConnOne` are open no number is left. `accept` then
returns EMFILE without waiting, `handleAccept` tries again at once, and the only thread never
serves the handlers whose end would free a number: a third connection stays in the backlog, and
the two open ones are not served, until somebody calls `stop()`. `Accepted` and `Released` therefore
exclude that the numbers run out for good (`Exhausted`). What they say is that nothing else keeps
a connection waiting. `stop()` does not wake the acceptor, so
the server accepts one more connection before it stops; whoever else waits then is
refused, because the acceptor closes the listening socket.

Left out: what is received and sent (`KVServer`), a send to a client that has reset the
connection (SIGPIPE, which nothing ignores, ends the process), a restart after `stop()`, growth of the table of `FdManager`, descriptors of other origin, and
old reports of epoll (`IOManager`).

### TimerManager

`timers` is `m_timers`; `next`, `ms` and `hascb` are the fields of each timer.
Every operation of a `Timer` is one critical section. `addTimer` is two steps,
because the constructor reads the clock before the lock is taken, and
`listExpiredCb` is a loop: `ReadClock`, then `Collect` takes the expired timers
out, then one `Handle` per timer in the order of the set. `Collect` keeps the
write lock (`owner`); the first recurring timer is put back by `addTimer`, which
unlocks, so the rest of the loop runs while other threads work on the set. An
access that may overlap one of theirs is a data race: `fate` may become
"corrupt" and nothing is claimed afterwards. `batch` is what a thread has in its
hands, `copies` counts the callbacks in `cbs` or in the task list. A worker polls
only when it has found no task, as `Scheduler::run` does.

`erased` and `collected` are history: which timers a `cancel()` has found, and
which were called. A `cancel()` that comes too late finds nothing; then the
callback is still called, and `CancelIsFinal` says nothing of it.

With two recurring timers and two threads a `cancel()` in the unlocked part of
the loop removes the callback of a timer that the loop then puts back: it stays
in the set for ever without a callback, and `idle()` never sees the set empty.
No text of the repository says otherwise, so this is a hazard and not a violated
run; `OneThreadCancels` and `OneRecurringCancels` prove that it takes two threads and
two recurring timers.

Left out: `m_tickled` and the wake-up of a sleeping worker (`idle` polls without
sleeping unless it is stopping), a wall clock that goes back,
`detectClockRollover`, which nothing calls, and the comparator's cases for null
timers, which the set never holds.

### KVStore, SkipList, KVMap

`SkipList` keeps nodes under addresses that are allocated and freed; `Walk` and
`Update` follow the forward pointers as the code does, so an unlinked level or a
pointer to a freed node shows. insert and delete hold the list's mutex from
start to end and are one operator each. The level of a new node is any of
`1 .. MaxLevel`, which is what `get_random_level` returns. Keys are integers
(only their order matters), a reply is a text, a value or a number. The state of
`KVStore` includes the request, so that refinement of `KVMap` means: the effect
and the reply are those of this request. An empty reply to a successful SKDEL or
SKMOD is what the code sends. `Set` has no branch for the reply FAILED: `insert_element` returns 1
only for a key that is there, and the key has just been searched.

### KVServer

Connections run on threads and give them up only in recv and send. `saved` is the
static variable of `strtok`: a call loads it (`NextToken`) and stores it (`Scan`).
`kvlist` holds pointers, read when the request is executed. `Bare` are requests
sent without a zero byte: the buffer is cleared in its first byte only, so their
last word may run on into an older request. The runs take terminated requests;
with any bare request `OwnRequest` fails even on one thread. A request without a word is not
executed, and what `wbuf` still holds is sent for it (replies are `KVStore`). `SendAgain` is
a send that waits for the client. `KvSize` is the room in `kvlist`, 1024 bytes or 128 pointers, which the code never
compares with the number of words: requests are assumed to fit, and `KvlistFits` says that
then nothing is written beyond it. It fails on two threads, where a list may get the words of
two requests.

## Runs

| Run | Instance | Shows |
|---|---|---|
| SchedPool | 2 workers, 2 jobs, 1 wait each, all pinnings, `NullLink` thread | the counters are exact, no job is lost or doubled, shutdown leaves nothing behind, `CoroutinePool` is implemented; every queued job is served, submitted jobs finish, `stop()` completes |
| SchedStale | 2 workers | **violated**: a coroutine is resumed before its context is saved |
| SchedExit | 2 workers, glibc | **violated**: a worker ends the process while another has work |
| LockRW | 4 threads, read and write guards | exclusion, and the flags agree with the lock |
| IoBoth | 1 descriptor, both directions, 1 worker, 6 edges and a reset | registration copies agree, no null scheduler is used, no wake-up is lost |
| IoEach | descriptors 3 and 4, one direction each, a table of 3 contexts, 2 workers, 2 calls of del / cancel / cancelAll, one connection may be reset | old reports, late cancellations and a shrinking table do no harm, one wake-up source, exact counter, no wake-up is lost |
| ConnOne | acceptor and 3 connections, 3 numbers, 1 worker, 2 requests of one client | nobody uses or closes another's descriptor, the counter is exact, `TcpService` is implemented; unless the numbers run out for good, waiting connections are accepted and ended ones give their number back |
| ConnTwo | 3 connections, 4 numbers, 2 workers | **violated**: the assertion of `addEvent` fails after a double close |
| TimerTwo | 2 threads that operate and poll, 1 recurring and 1 one-shot timer, periods 0 and 1, clock to 2 | no timer is lost, a one-shot timer is called once, an erased one never returns, expired timers leave the set |
| KvStore | 3 keys, 2 values, levels 0..3 | structure and refinement of `KVMap` |
| KvOneThread | 2 connections, 1 thread, 0 to 3 words, room for 3 | own requests are executed and answered, `kvlist` is not overrun |
| KvTwoThreads | 2 connections, 2 threads | **violated**: words of another connection's request |

A violated run states what a comment or a test of the repository says; the
quotations are in `PROJECT.json`, "findings".

**Bounds.** Two workers are the least number at which a queued coroutine can
meet its own half-saved context, or a leaving worker another one's work; two jobs
let one wait while the other runs, and one job can submit the other. The
safety properties of this run are proved for any number of both. In `IOManager`
six edges let each direction be ready three times, before, between and after the
registrations; with a table of three contexts and the descriptors 3 and 4 a resize for 3 (to 4) cuts
off what a resize for 4 (to 6) has made; two calls let a cancellation meet a report and a new
registration. With periods 0 and 1 a timer expires at once or has to wait, the clock's
two ticks let a recurring timer expire again after it was put back, and an old
reading of the clock meets a newer one; one recurring timer is enough to drop the
lock in the loop with the other timer still to be handled. Three keys and levels 0 to 3 give every shape of a deletion: first,
middle and last node, lower and higher than its neighbours, and the last node of
a level. Requests of one, two and three words are those of the five commands, and the longest fill `kvlist`.
Three connections and three numbers, one of them the listening socket's, let a number be used again, let
the numbers run out and leave somebody waiting when they have; in `ConnTwo` the third connection inherits
the wrongly closed number. One client sends twice, so that an answer can fill the buffers and the
next one has to wait; the safety properties are proved for any number of clients
and requests. `Accepted` and `Released` ask that again and again nobody waits, and no ended
connection is open: for finitely many connections, each made once, the same as asking it of each.
The runs stop when the bounds are used up, hence `CHECK_DEADLOCK FALSE` where a
system may be silent; `LockRW` and `KvStore` never stop.

**Fairness.** Weak fairness of every worker and of the owner: they are kernel
threads. Strong fairness of `Trigger` for each job: a registered event occurs, and
epoll keeps it reportable until a polling worker has taken it, so a worker that
polls again and again cannot miss it for ever. In `IOManager`: weak fairness of
workers and coroutines only; nothing forces an arrival or a call, and `WakesUp` is
about a direction that is ready. In `TimerManager`: a
worker runs the tasks it finds and otherwise polls (`epoll_wait` does not sleep for
ever), and a thread inside an operation goes on; nobody is forced to start an
operation, and the clock need not advance. In `KVServer`: a coroutine that has a thread goes
on; clients may be silent. In `Connections`: weak fairness of a coroutine on a thread,
strong fairness of a queued task (`run()` takes tasks in their order) and of a registered
descriptor that stays ready (a worker that polls again and again sees it); a client reads what it
is sent, even after it has ended its side; no client has to connect, send or end, and nobody has to stop the server.

With two directions on one descriptor *and* two workers `NoCrash` fails: a report
of both directions is served after one of them was served from an older report.
With WRITE in `Cancels` it fails as well, because the guard of `cancelEvent`
(`!ctx->events & ev`) never holds for WRITE. Both are recorded as hazards: no text
of the repository says what should happen. Likewise `CopiesAgree` fails when
`cancelEvent` is called on a descriptor that both directions wait for, because it
passes epoll the old mask, and `Exclusion` fails for plain guards whose uninitialised `m_locked` is
found true.

## Theorems

All theorems hold for every value of the constants under the named assumptions of
the modules (finite sets of workers or threads, model values distinct).

* `SchedulerProofs`: `TypeCorrect`, `ActiveCountCorrect`, `OnePlaceCorrect`,
  `Refinement` (`Spec => PoolSpec`). The counter is the cardinality of the workers
  in a slice; a step moves one worker between labels, and lemmas about moving one
  element relate the two. The invariant behind `OnePlace` adds that the sets of
  queued, armed, held and done jobs are disjoint and that a submitted job is in
  one of them. Refinement follows from it: each action changes the place of one
  job as `CoroutinePool` allows, or of none.
* `SchedulerShutdownProofs`: `PendingCountCorrect`, `LastWorkerLeavesQuietCorrect`,
  `DrainedAtDoneCorrect` (with at least one worker), `OneWorkerNoStaleResume`,
  `OneWorkerExitQuiet` (with one worker). `stopping()` reads the queue and the
  counter at different moments, so "queue empty and counter zero" is not inductive
  by itself: a worker between the reads knows only that both flags were set. The
  invariant says what is left to do when every other worker is in its idle loop or
  gone, and that a worker past its loop implies the shutdown flags.
* `ScopedLockProofs`: `ExclusionCorrect`, `FlagExactCorrect`, with `m_locked`
  initialised, and `TypeCorrect` for all three guards, initialised or not.
* `IOManagerProofs`: `TypeCorrect`, `NoNullScheduler`, `CopiesStayEqual`,
  `PendingIsExact`, `OneWakeSourceCorrect`, in two settings. `Separate`: one direction
  per descriptor and `cancelEvent` called for READ where the descriptor is read, with any number of workers,
  descriptors, calls and any table that grows and shrinks. `Single`: both directions of a
  descriptor, with at most one worker, no call from outside and a table that is large enough. Outside both
  the hazards named above break the properties. The invariant says that a
  coroutine which waits is registered in one context or about to be resumed, that what
  epoll points to and what the three copies say agree, and that the counter
  is the number of registrations. What each setting adds is about reports:
  in `Separate` a report names only the one direction a coroutine has, so serving it late
  finds that one or nothing; in `Single` what a report names is still registered when
  it is served.
* `ConnectionsProofs`: `TypeCorrect`, `DescriptorsAreOwned`,
  `PendingIsExact`, `ServiceKept` (`Spec => ServiceSpec`), with one worker, for any number of connections,
  descriptors and requests. With one worker a coroutine is never interrupted by
  another, so whoever is in the middle of a call is the only one, and every other one is
  queued, waiting or over. That makes "each open number has one owner, whose `FdCtx` and
  registration they are" inductive: between the two closes nobody can be given the
  number. Each step is then a step of `TcpService` or leaves its state alone.
* `KVStoreProofs`: `TypeCorrect`, `ListLinkedCorrect`, `ListTrimmedCorrect`,
  `SearchFindsKeys`, `Refinement` (`Spec => MapSpec`), for every set of keys and values and
  any number of levels and nodes. A descent is a recursive function over
  the levels; instead of an induction over it, the proof shows that on a well-formed list it
  ends at the last node before the key on each level, which follows from the function's
  equation and the greatest level where this would fail. `WellFormed` says that on each
  level the pointers connect exactly the nodes that reach it, in the order of
  their keys, that freed nodes are cleared, that the level is that of the highest node
  and that the count is exact; insert and delete preserve it, and the dictionary a
  well-formed list stands for changes as `KVMap` says.
* `TimerManagerProofs`: `TypeCorrect`, `KeptCorrect`, `OneShotOnceCorrect`, `CancelIsFinalCorrect`,
  `OneThreadCancels` and `OneRecurringCancels`. The invariant behind them tells where a timer can be: in
  the set or in the hands of one thread, never both and never two, and a timer that
  is over (erased, or a one-shot one that was called) is in neither. The lock is not
  needed for this, only that the set is accessed by whole operations: whatever
  overlaps is "corrupt". That no cancelled timer stays in the set needs the lock. It
  holds for one thread, and for any number with one recurring timer: a thread loses the
  lock by putting that timer back, and has then only timers in its hands that do not
  return to the set.
* `KVServerProofs`: `TypeCorrect`; `OwnRequestCorrect` and `KvlistFitsCorrect`: on one thread, and with
  terminated requests, every connection executes its own request, and `kvlist` has room
  for whatever is put there. The invariant says how far the splitting has come: between
  the calls of `strtok` its position is that of the only connection that runs.

Model-checked only: everything under fairness (`Served`, `Finishes`, `ShutsDown`,
`WakesUp`, `Answered`, `Expires`, `Accepted`, `Released`), which is outside what the prover
handles. Every safety property of the passing runs is a theorem; the instances of the
runs are instances of the theorems' settings.

## Plan

Done, in this order: `Scheduler` with `CoroutinePool` and its proofs (everything
else runs on it), `ScopedLock`, `IOManager`, `SkipList` / `KVStore` / `KVMap`,
`KVServer`, `TimerManager`, `Connections` / `TcpService`, growth of the context table
and reset connections in `IOManager`.

The proofs of `IOManager`, `Connections` and the skip list came last. What could be
proved next: `OneWakeSource` in a third setting of `IOManager`, with both directions
of several descriptors that make one worker grow the table.

## Not modelled

* `dump_file` and `load_file`: the server calls neither, and `load_file` converts keys
  with `stoi`, which does not compile for the server's string keys. `display_list`
  only prints.
* The timeout of hooked calls, which cannot be set (see `IOManager` above).
* Requests with fewer words than their command needs: they read `kvlist` entries that
  are stale or uninitialised, and no text says what the server should answer. Requests with more
  words than `kvlist` has room for. What `wbuf` holds when it is sent for an empty request.
* `TcpServer::handleClient` of the base class, which `KVS` overrides.
* `socket/address.cpp` (formatting), `util/`, the test programs and
  `skiplist/skiplist.cpp` (an older copy nothing compiles).
