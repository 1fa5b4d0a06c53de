# Corlib: models, checks and proofs

TLA+ models of `src/corlib`, a coroutine library for Linux: ucontext fibers, an
N:M scheduler, an epoll-driven `IOManager`, timers, and hooked system calls that
let blocking-style code run on fibers; of the part of `src/libco` that the
repository compares it with; and of the benchmark's clients and servers.  Each
module is translated from the C++ code.  TLC checks small instances; TLAPS
proves safety for every number of threads, fibers, timers and descriptors.

Line numbers without a directory are those of `src/corlib`.

## 1. The system

| Component | Files | State | Operations |
|---|---|---|---|
| Scheduler | `scheduler.h/.cpp` | `m_tasks`, `m_activeThreadCount`, `m_idleThreadCount`, `m_stopping`, the threads | `scheduleLock`, `run`, `start`, `stop`, `tickle`, `stopping` |
| Fiber | `fiber.h/.cpp` | `m_state`, `m_mutex`, context, `t_fiber`, `t_thread_fiber`, `t_scheduler_fiber` | `resume`, `yield`, `MainFunc`, `reset` |
| IOManager, idle side | `ioscheduler.cpp` 348-493 | epoll set, tickle pipe, `m_pendingEventCount` | `idle`, `tickle`, `stopping`, `onTimerInsertedAtFront` |
| IOManager, event table | `ioscheduler.cpp` 11-345 | `m_fdContexts`, each with its `events` and two `EventContext`s | `addEvent`, `delEvent`, `cancelEvent`, `cancelAll`, `triggerEvent`, `contextResize` |
| Timers | `timer.h/.cpp` | `m_timers` (a set ordered by deadline), `m_tickled`, `m_previouseTime` | `addTimer`, `addConditionTimer`, `cancel`, `refresh`, `reset`, `getNextTimer`, `listExpiredCb` |
| Hooked socket calls | `hook.cpp` 88-200, 278-391 | a `timer_info` per call | `do_io` (read, write, recv, send, accept ...), `connect_with_timeout` |
| Hooked descriptor calls | `hook.cpp` 257-276, 453-629 | through FdCtx | `socket`, `close`, `fcntl`, `ioctl`, `setsockopt` |
| Hooked sleeps | `hook.cpp` 203-254 | none | `sleep`, `usleep`, `nanosleep` |
| FdManager, FdCtx | `fd_manager.h/.cpp` | `m_datas`; flags and timeouts of a descriptor | `get`, `del`, `init`, setters |
| Thread, Semaphore | `thread.h/.cpp` | `m_id`, the start handshake | constructor, `run`, `join` |
| FiberSemaphore, locks | `mutex.h/.cpp` | `m_concurrency` and the list of waiting fibers; `m_locked` of a guard | `wait`, `tryWait`, `notify`, `reset`; the guards' `lock`, `unlock` |
| Example server | `main.cpp` | one listening socket | accept, receive, reply |
| libco | `libco/co_routine.cpp` and others | `pCallStack`, shared stacks, the timeout wheel, the active list, epoll | `co_resume`, `co_yield`, `co_poll`, `co_cond_*`, `co_eventloop` |
| Benchmark | `client/`, `epoll/`, `libevent/`, `libco/main.cpp` | connections, counters, the pool of idle tasks | connect, send, receive, count; accept, read, write, close |

`libco/` is a vendored library with the benchmark's server on it; the `build/`
directories are generated.  corlib uses neither.

How they interact.  A worker thread runs `Scheduler::run`: it takes a task under
`m_mutex`, runs it, and with no task it resumes its idle fiber, which is
`IOManager::idle`: test `stopping()`, sleep in `epoll_wait` until the first
deadline, collect expired callbacks, trigger ready events, yield back.  A fiber
that blocks in a hooked call leaves a timer in the heap or an event in the table
and yields; the timer's callback, itself a task, or `triggerEvent` hands the
fiber to `scheduleLock`.  `scheduleLock` and a timer inserted in front call
`tickle()`, which writes to a pipe in the epoll set.  `stop()` sets `m_stopping`,
tickles every thread and joins.

What is hard about it:

* a fiber is scheduled before it has yielded: another worker can take it while
  it is still on its stack.  `Fiber::m_mutex` alone keeps the second out;
* `resume` and `yield` save to and restore from contexts chosen by thread-local
  pointers, while fibers move between threads;
* the counters that `tickle()` and `stopping()` decide by change at other steps
  than the state they count;
* wake-ups are conditional (an empty queue, an idle count, `m_tickled`) and edge
  triggered, so each can be lost or spent on the wrong thread;
* one waiting fiber can be woken by an event, its timer, a cancel and `close()`,
  each of another thread, and timer callbacks run late, from the task queue;
* `idle()` applies the result of `epoll_wait` to a table that other threads have
  changed since;
* descriptor numbers are reused, with state kept per number in three places;
* vectors grow after the lock under which they were found too small is released;
* a semaphore parks fibers, its spinlock and the locks stop threads, and
  `FiberSemaphore::reset` takes no lock at all;
* libco's coroutines share stacks, and its items move between the wheel, the
  active list and the condition's list.

Two places of the commit do not compile: the stray `W` in `ioscheduler.cpp`
404-406, and `mutex.cpp`, whose `corlib::Semaphore` meets the one of `thread.h`.
The models take `std::function<void()>` in the first, and `thread.h`'s class in
the second.  `CMakeLists.txt` does not set `NDEBUG`, so `assert` is taken to be on.

What each component owes, in a sentence: the scheduler, that a fiber is run by one
thread at a time, woken once per wait, and finished before `stop()` returns; the
fibers, that a switch lands on the stack that `t_fiber` names; timers, not early,
once, never after a cancel, and not slept through; the event table, that a waiter
is woken once and no edge lost; the hooked calls, that they return, tell the truth
and time out on their own timer; the descriptors, that no call blocks a worker and
the user sees what the user set; the semaphore, that units are neither lost nor
doubled; libco, that frames survive sharing and waits end in time; the servers,
that every connection is handled, and by one.

## 2. Modules

| Module | Models | Checked by run |
|---|---|---|
| `IOScheduler` | run loop, queue, counters, idle loop, tickle, stop, fiber states and `m_mutex` | `sched`, `sched_early_exit` (`MCIOScheduler`) |
| `TaskPool` | what the scheduler promises: a fiber is ready, running, waiting, done, on one worker at a time | `sched` |
| `FiberSwitch` | one thread's execution: contexts, `resume`, `yield`, the thread-local pointers, start-up of threads, `run`, `stop` | `semaphore` |
| `FiberSemaphore` | `FiberSemaphore`, the locks and guards, on the threads of `FiberSwitch` | `semaphore` (`MCFiberSemaphore`) |
| `TimerManager` | the timer set and the calls on it, `listExpiredCb` step by step, a clock that is set back | `timer_calls` |
| `TimerService` | what timers promise: not early, a one-shot once, a cancelled one never | `timer_calls` |
| `TimerWakeup` | how the first deadline reaches `epoll_wait`: `m_tickled`, the pipe, the timeout | `wakeup_safety` (`MCTimerWakeup`) |
| `FdEvents` | the event table and the event half of `idle()` on edge-triggered epoll | `fd_table` |
| `FdTables` | growth of `m_datas` and `m_fdContexts` | `tables` (`MCFdTables`) |
| `HookIO` | `do_io`: readers of one descriptor, timeouts, late callbacks, close, reuse | `hook` |
| `HookConnect` | `connect_with_timeout` | `connect` |
| `SocketFlags` | FdCtx and the kernel's O_NONBLOCK under socket, accept, close, fcntl, ioctl, setsockopt | `flags` (`MCSocketFlags`) |
| `CoRoutine` | libco: call stack, resume, yield, reset, free, shared stacks | `libco` |
| `CoEventLoop` | libco: poll, conditions, timeout wheel, event loop | `libco` |
| `EchoClients` | the benchmark's clients and their TCP connections | `echo` |
| `EventServer` | the servers of corlib, epoll and libevent | `echo` |
| `LibcoServer` | the server on libco with its pool of tasks | `echo` |
| `EchoServers` | clients against one of the servers | `echo` (`MCEchoServers`) |
| `*Proofs` | proofs about `IOScheduler`, `TimerManager` and `TimerWakeup` (`TimerProofs`), `FdEvents` and `HookConnect` (`FdEventsProofs`), `FdTables` and `SocketFlags` (`FdTablesProofs`), `HookIO`, `FiberSwitch` and `FiberSemaphore` (`FiberSemaphoreProofs`), `CoRoutine` and `CoEventLoop` (`CoEventLoopProofs`), the servers (`EchoProofs`) | - |

Modules are composed in two ways.  `FiberSemaphore` extends `FiberSwitch`,
`CoEventLoop` extends `CoRoutine`, and `EchoServers` joins clients and servers:
the steps of one are steps of the whole.  The rest is composed by abstraction.
`IOScheduler` has timers and events as sets of fibers; `TimerManager` and
`FdEvents` open up those two sets, `TimerWakeup` the sleep, `FiberSwitch` the
switch of stacks; `HookIO` and `HookConnect` use the event table as the fiber
registered and the scheduler as the set of fibers it will resume, which is what
`OneWakeUp`, `WokenOnce` and `AwaitedOnce` entitle them to.  `EventServer` takes `IOManager`,
and `LibcoServer` the event loop, for what they promise.

### IOScheduler

`pc[t]` names the next step of thread t; each step is one critical section, one
access to an atomic, or one system call.

| `pc` | code | actions |
|---|---|---|
| `user` | the application's thread | `MainSchedule`, `Stop` |
| `halt`, `join`, `done` | `Scheduler::stop`, scheduler.cpp 177-227 | `StopTickle`, `StopRun`, `Join` |
| `fetch` | the pass over `m_tasks`, 105-134 | `Fetch` |
| `lock`, `run`, `armed` | resume under `m_mutex`, 137-145; user code; between registering and yielding | `LockFiber`, `Spawn`, `Sleep`, `WaitEvent`, `Yield`, `Finish` |
| `cb`, `dec` | a timer callback as a task; `m_activeThreadCount--` | `RunCb`, `Dec` |
| `empty`, `unidle` | the idle fiber is resumed, 160-172 | `GoIdle`, `Unidle` |
| `timers?`, `pending?`, `drained?` | the three reads of `stopping()`, ioscheduler.cpp 360-366, scheduler.cpp 247-251 | `CheckTimers`, `CheckPending`, `CheckDrained` |
| `sleep`, `expire`, `process`, `settle` | `IOManager::idle`, 368-486 | `EpollReturn`, `EpollTimeout`, `ListExpiredCb`, `ScheduleCb`, `Drain`, `Trigger`, `Settle`, `IdleYield` |
| `tickle`, `write` | `IOManager::tickle`, 348-358 | `TickleCheck`, `TickleWrite` |

A fiber stands for its `Fiber` object and for the timer or event it waits by;
`Pin` is the thread argument of `scheduleLock`.  A callback that a timer leaves
in the queue is a task of kind `cb`.

### FiberSwitch, FiberSemaphore

`exec[t]` is the stack the processor of thread t is on, which no code reads;
`ctx[f]` the stack whose registers `f->m_ctx` holds.  `resume` and `yield` save and
restore by the variables the code chooses by (`tFiber`, `tThread`, `tSched`,
`runInScheduler`), so that a wrong choice shows as a thread on one stack with
another fiber's name.  `at[f]` is the place in `run()`, in `main()` or in the
start-up of a thread (`Create`, `SetId`, `Signal`, `Started`: the constructor's
handshake).  `Stop` may be called twice, and `resume` sets `aborted` when its
assertion fails.

A task of `FiberSemaphore` makes a list of calls, one of a set of scenarios.
`wait` and `notify` hold the spinlock over several steps, `reset()` is one store
without it; `Park` is the yield after the lock is released.  A guard is a record
of its kind and `m_locked`; a lock taken by a thread that has it follows what the
kind of lock does then, and a thread that waits for a lock runs nothing else.

### TimerManager

The mutex makes each call a step, except `reset()`, which releases it half-way,
and `listExpiredCb`, which reads the clock before taking it.  The set has the
comparator of the code: two timers with one deadline are one key, for `insert`
and for `find`.  A clock reading is `tick * Unit + reads`: milliseconds, and a
reading counter instead of nanoseconds, so that deadlines are equal exactly
where the code computes them from equal readings.

### TimerWakeup

Deadlines are instants of an integer clock.  A worker reads the first one
(`GetNextTimer`, which resets `m_tickled`), sleeps until it or `MAX_TIMEOUT`, and
drains the pipe; anybody may insert (`addTimer`, then `Tickle` and `Write`) and
cancel.  An edge of the pipe wakes one sleeper.  Two insertions tickle nobody, and
are modelled as such: `Refresh`, and the recurring timers that `listExpiredCb`
(`Expire`) puts back by the reading of the clock it made before the lock (`seen`).

### FdEvents, FdTables

A step is one critical section of `FdContext::mutex`.  The kernel is external:
`interest`, conditions that arise and pass, a ready list that an edge or an
`epoll_ctl` puts a descriptor on and `epoll_wait` takes it off.  `batch[w]` is the
array a worker got from `epoll_wait`, applied one entry at a time while others
change the table; each entry knows (for the properties alone) whether it is still
right.  A failed `assert` ends the process (`aborted`).  `FdTables` has the sizes of
the two vectors and the gap between the shared and the exclusive lock; a descriptor
is `closing` between `del` and the system call of `close()`, open without an FdCtx.

### HookIO, HookConnect

`pc[f]` walks through `do_io`: the system call, `addConditionTimer`, `addEvent`
and yield, resumption, retry.  `Expire`, `Callback` and `CallbackCancel` are the
three steps in which a timeout takes effect, and any number of steps may lie
between them.  A call that has returned has dropped its `timer_info`, so that
`weak_ptr::lock` stops callbacks that have not begun.

`close()` has the three steps of hook.cpp 453-473: `CancelAll` (`StartClose` in
`HookConnect`), `Del`, `Close`. A fiber that registers between the first and the
last (`slipped`) stays in the table for a descriptor that epoll no longer has
(`watched`), and is then `Orphaned`: `epoll_ctl` fails in every cancel, its own
timer's included (ioscheduler.cpp 277-282). `HookConnect` has also a `rival`,
another fiber that waits for WRITE on the connecting socket: `addEvent` then
fails for `connect`, and what wakes the rival may wake `connect`. `blind` and
`reused` are the calls that others make look at SO_ERROR without an outcome, and
those whose number has become another socket's.

### SocketFlags

Per descriptor number, what the kernel has and what `m_datas` has.  History
variables keep what the user asked for (`wants`) and in which of the named ways
the two records have come apart (`odd`).  Sockets are opened, closed and given a
timeout with and without hooks, and a hooked `setsockopt` may fail after the FdCtx
has been told (`SetTimeoutFails`).

### CoRoutine, CoEventLoop

`content[k]` says whose frames lie on a shared stack, and `saved[c]` whether the
buffer of a coroutine is newer than its last run; the code reads neither.
`co_swap` copies out and back as 620-690 of `co_routine.cpp` do, by `occupy`.  The
wheel has a slot per millisecond and puts a deadline beyond it on its last slot;
`Process` walks the active list, puts back what is not due, and resumes.  A
coroutine that waits has one item, named after it.

### EchoClients, EventServer, LibcoServer

A connection is in the backlog or has one descriptor; a request or reply is one
message that is there or not; a RST comes some time after its cause.  `limit`, the
descriptors left to the server, lets `accept` fail.  `client.cpp` runs its clients
as threads, which one failure ends together, `client2.cpp` as processes
(`threads`).  `EventServer` finds what is ready in one turn and handles it in the
next steps, so that a turn may hold a number that was closed meanwhile;
`oneShot` tells corlib's events from the level-triggered ones.  `LibcoServer` has
the stack of idle tasks, the hooks' table of descriptors and `errno`, one for the
thread.

## 3. Runs

| Run | Instance | Question |
|---|---|---|
| `sched` | 1 pool thread + caller as worker, 2 fibers, one pinned to the caller, 1 wait each | `OneWakeUp`, `OneRunner`, `CountersAgree`; `TaskPool` implemented; `StopReturns`, `FibersFinish` |
| `sched_early_exit` | 1 pool thread + caller, 1 fiber, 2 waits | *violation* of `StopDrains` |
| `semaphore` | 1 pool thread + caller, 3 tasks, 6 scenarios, 2 calls of the application's, initial count 0 of a 3-bit `size_t` | `TypeOK`, `OwnStack`, `UnitsKept`, `GuardsExclude`, `AbortsOnlyLate`, `NotifiedReturns` |
| `timer_calls` | 2 timers of either kind, periods 0 and 1, 3 readings in 3 ticks, 1 clock step back | `TypeOK`, `ArmedInHeap`; `TimerService` implemented; `ListReturns` |
| `wakeup_safety` | 2 workers, 1 other thread, `MAX_TIMEOUT` 2, time to 3 | `NoOversleep` |
| `fd_table` | 1 descriptor, both directions, 3 waiters, 2 workers | `WokenOnce`, `PendingAgrees`, `NoLostEdge`, `AssertionsHold`, `EventServed` |
| `tables` | 2 threads, numbers 2 to 4, first sizes 2 | `CtxStays`, `EventsFound` |
| `hook` | 2 readers, both with timeout, 2 arrivals, number reused once | `OneWake`, `OwnTimeout`, `ReaderWakes`, `TimeoutWakes` |
| `connect` | 1 connect with timeout, another writer, close, number reused | `ConnectTruth`, `ConnectReturns` |
| `flags` | 2 numbers, timeouts 0, 1, 2, calls with and without hooks | `NeverBlocks`, `UserView` |
| `libco` | 2 coroutines, 1 shared stack, 1 descriptor, a wheel of 2, timeouts 2 and none, time to 2, 5 calls | `TypeOK`, `StackIntact`, `OnTime`, `WakersKept`, `WaitsEnd` |
| `echo` | 2 clients, 1 or 2 descriptors, 3 requests each, 1 or 2 idle tasks, every server | `TypeOK`, `OneHandler`, `NobodyHangs` |

Where a type invariant is proved and shows nothing else, no run checks it again, and
so are `ResumeReady` of `IOScheduler` and `Punctual` of `TimerWakeup`.

What they show:

* **Scheduler.**  A live fiber is in exactly one place from which it will be
  resumed (`OneWakeUp`): an entry of the queue, a worker, an expired callback, a
  timer or an event, in particular between its `addTimer`/`addEvent` and its yield,
  when another worker may already have it.  The assertion of `resume()` holds, a
  stack never has two runners, and the counters agree with the threads at every
  step.  `stop()` returns, and a fiber finishes as long as one worker stays.
* **Switches and semaphore.**  Every thread is on the stack of its `t_fiber`, from
  the start of the threads to the end of `stop()`, though a fiber moves from one
  thread to another at each wait, and a fiber that nobody runs has its own
  registers in `m_ctx`.  The semaphore's units are conserved, a notified fiber
  returns even if it is scheduled before it has yielded, and guards exclude.
* **Timers.**  The set holds the armed timers whatever calls interleave with
  `reset()` and `listExpiredCb`, and a timer is listed neither early nor after
  it was cancelled.  When all workers sleep, somebody wakes for the first deadline,
  whichever way its timer came into the heap.
* **Event table.**  A waiter is woken at most once, `m_pendingEventCount` is the
  number of waiters, and no edge is lost although `idle()` takes events out and
  puts the rest back with `EPOLL_CTL_MOD`.
* **Hooked calls.**  One resumption per wait whatever wakes it; `ETIMEDOUT` only
  after an own timer; no reader sleeps on data or past its timer unless it has
  registered inside a `close()`; `connect()` tells the truth about a socket that
  nobody else writes to or closes.
* **Descriptors.**  A socket of a hooked thread is non-blocking in the kernel and
  shows its user's settings; an FdCtx is not lost when its table grows.
* **libco.**  A coroutine that runs finds its own frames on the shared stack; a
  wait ends by its event, a signal or its deadline, neither earlier nor later,
  also when its deadline lies beyond the wheel or the clock goes back.
* **Servers.**  A descriptor number that is closed and given out again has one
  handler in every server, and no client waits for ever, nor does a server keep the
  connection of a client that is gone, or die of SIGPIPE: none writes twice to a
  connection without reading.

### Disagreements between code and documentation

One is a run with a counterexample, `sched_early_exit`: `stopping()`
(ioscheduler.cpp 360-366) reads heap, pending count and queue one after the other.
Between two reads a fiber moves from one to the next, all three look empty, and
`stop()` returns with a fiber left.

The other ones met are named exceptions in the properties.  A passing run says that,
of what its module models, these are the only ones; section 5 lists what no module
models.

* `AssertionsHold` leaves out `stale` entries: `idle()` triggers what `epoll_wait`
  returned rather than the part of it that is still registered (470), and
  `assert(events & event)` (44) fails when another worker or a cancel was faster.
* `EventsFound` leaves out two threads that resize at once (`raced`): `addEvent`
  resizes `m_fdContexts` to `fd * 1.5` without a second look at the size (147),
  and the one with the smaller descriptor makes it smaller.
* `FibersFinish` leaves out that all workers are gone (the run above).  A
  sleeper that has been counted too late misses a tickle (ioscheduler.cpp 351:
  the worker has seen the empty queue, `m_idleThreadCount` is not yet raised) and
  comes back only with the timeout of `epoll_wait`, up to `MAX_TIMEOUT`.  The
  liveness properties hold because of that cap.
* `StopReturns` leaves out an entry pinned to a worker that has left through the
  same race; the other worker then tickles and polls for ever.
* `AbortsOnlyLate`: a second `stop()` after a late `notify()` resumes the scheduler
  fiber, which has ended (scheduler.cpp 210), and the assertion of `resume` fails.
  A second `stop()` after the early return that `sched_early_exit` shows fails in the
  same way, for the work that is left; `FiberSemaphore` has neither timers nor events,
  and only the late `notify()` shows there.
* `UnitsKept` leaves out a `reset()` during a `wait` or `notify` (`raced`):
  `FiberSemaphore::reset` takes no lock (mutex.h 440), so that the count it clears is
  written back, or taken below zero.
* `GuardsExclude` and `NotifiedReturns` leave out `misused` guards: one inside
  another of the same task, or one held over a wait.  `RWMutex` ignores `EDEADLK`
  (mutex.h 293) and the thread that unlocks need not be the one that locked.
* `ArmedInHeap` leaves out a timer cancelled between the halves of `reset()`
  (timer.cpp 74-80), which comes back without a callback, and two timers with one
  deadline (`clash`).  Two recurring timers of equal period that expire in one
  call get the same deadline (182), and one disappears.
* `ListReturns` leaves out a rollover: `rollover` stays true (172) while line 183
  puts a recurring timer back, so the loop does not end.  It also leaves out a
  recurring timer of period 0 (`Spins`): `now + 0` is due again at once (172, 182), and
  `listExpiredCb` puts it back for ever, under the lock.
* `EventServed` and `NoLostEdge` leave out `orphaned` descriptors: an `addEvent`
  between `cancelAll` (hook.cpp 467) and the system call of `close()` (472)
  registers for a descriptor that the kernel then forgets.  `ReaderWakes`,
  `TimeoutWakes` and `ConnectReturns` leave out the same fiber (`Orphaned`): it sleeps
  on, past its timeout and on the data of the number's next socket.
* `TimeoutWakes` leaves out a callback collected before the fiber slept: with a
  timeout so short that it runs before `addEvent` (hook.cpp 149-162), or left over
  from an earlier round of the retry loop (the `timer_info` is shared), it is spent
  and the call waits for data alone.  Nor does `OwnTimeout` say that the call was
  not woken by data first: a callback already in the queue may still mark it (183).
* `do_io` does not look again after the wait whether the descriptor was closed
  (113); `HookIO` lets it read from the number's next file.
* `ConnectTruth` admits `failed`: the test of line 314 (`n != -1 && ...`) never
  holds, and an error the system call returns at once is taken for a connection.
  It leaves out calls that others make return 0 (`blind`): WRITE is registered
  already by a fiber that sends on the connecting socket, `addEvent` fails
  (ioscheduler.cpp 154), and SO_ERROR is asked for at once (hook.cpp 359-378); the
  event is cancelled by that fiber's timer, or by a `close()` that has not come to its
  system call; or the error is taken by that fiber's `send`.  And it leaves out a
  call whose number was closed and reused meanwhile (`reused`).
* `NeverBlocks` and `UserView` leave out `ioctl(FIONBIO)`, which goes to the kernel
  (hook.cpp 599) where `fcntl` does not, `SOCK_NONBLOCK` at birth (fd_manager.cpp
  60-66), an FdCtx left behind by a `close()` without hooks (hook.cpp 455-458), and
  three timeouts: {0, 0}, which takes the timeout away for the kernel and is kept as
  0 ms (hook.cpp 622); one set without hooks, of which the FdCtx does not hear
  (609-612); and one that the kernel refuses, which the FdCtx has then (622, 626).
* libco: `StackIntact` and `WaitsEnd` leave out stacks whose occupant was freed or
  reset (`vacated`), after which nothing is copied back (co_routine.cpp 545, 593,
  671).  `WakersKept` leaves out a signal to a coroutine that was taken early
  from the wheel's last slot (`overtaken`: it goes back to the wheel and sleeps on),
  and a descriptor polled by two (`contested`: the second registration is refused
  and the first to leave deletes the other's).
* `NobodyHangs` leaves out `spun`: `readwrite_routine` takes the end of a connection
  for EAGAIN when `errno` is left over from another call (libco/main.cpp 78-81), and
  polls the closed connection for ever.

### Bounds

* Scheduler: two workers and two fibers give every pair of steps that can race:
  runner against taker, adder against sleeper, one `stopping()` against the other.
  A third worker is a second copy of one of these; the proofs cover any number.
  One wait per fiber is enough to be in every place; `sched_early_exit` has two, so
  that a fiber comes back to a heap that has been found empty.
* Semaphore: two threads, one of them the caller's, let a fiber be woken by the
  second while the first has not left it, and let both stand in a lock; the scenarios
  are three contenders for the count, for a reset, for each kind of lock, and for a
  lock held over a wait.  A third thread multiplies the states by twelve and adds
  copies of these races.  `SizeMax` is 7 so that a count below zero wraps and stays apart
  from any count the tasks can reach.
* Timers: two timers are what key equality needs; three readings are two
  insertions and an expiry, or one and two, the lister's among them; periods 0 and
  1 and three ticks let a timer be due at once, due, not due, and overtaken; `Hour`
  is one tick, so that the one step back can be a rollover or less.
* Wake-up: with `MAX_TIMEOUT` 2 and time to 3 a sleep may end by the cap, by a
  deadline before it, and beyond it, and a timer may be put back or refreshed to
  before and after another worker's timeout.
* Events: descriptors do not interact (each context has its mutex), three waiters
  leave room for READ, WRITE and one registration after another has gone.
* Hooks: two timed readers, so that a callback can meet another waiter; one whose
  timer has run out early waits like one without a timeout.  One registration is
  there at a time, so that a third reader adds only another call that fails.  Two
  arrivals let both readers be woken by data, or one be woken whose data the other
  takes, which gives a second round; `close()`, which wakes as well, happens to each of
  two files.  In `HookConnect` every action is about one fiber and its socket, so that
  one fiber shows what any number would; the proofs have any number.
* Tables: first sizes 2 and numbers 2 to 4 make both vectors grow once or twice;
  `3 -> 4` and `4 -> 6` are sizes that can come in the wrong order.
* libco: two coroutines on one stack evict each other; a wheel of two slots with a
  timeout of two puts an item beyond it; five calls are two waits, a signal and
  two of `co_reset`, `co_free`, `co_create`.
* Echo: two clients and one or two descriptors let a number be reused and the
  descriptors run out; three requests are one more than the server answers and
  one that meets the RST.  `MCEchoServers` takes one value of `threads` with libco's
  server, which resets no client: only `Exit` asks for it, and is not reached there.

### Fairness

Weak fairness of every worker's step and of tickling: the operating system runs
every thread, and no step of `run` or `idle` waits for another thread except the
fiber mutex, whose holder is a running worker.  User code is assumed to come to
an end.  `TimerDue`, `Expire`, `Tick`: the clock goes on.  `EventReady`, in
`IOScheduler`, and `Decide`, in `HookConnect`: the peer answers in the end, without
which a blocking call has no reason to return; `HookIO` and `FdEvents` do not
assume it, their properties begin with data there.  `EpollTimeout`: `epoll_wait`
has a timeout of at most `MAX_TIMEOUT` (5 s).  `FiberSemaphore`: each thread's
steps, those of `main` included: the program that owns the scheduler goes on to its
next call and in the end to `stop()`, where its thread becomes a worker.  `CoEventLoop`: the single thread
runs, the loop is entered, a resumed coroutine goes on to its next wait or its end;
nothing makes a descriptor ready.  `EchoServers`: the server and each client run,
`TimeUp` is a client's own step, and a poll with a timeout times out.
Elsewhere the application need not call `stop()`, schedule or close anything, nor end
a `close()` it has begun.  Strong fairness is not used.

`CHECK_DEADLOCK FALSE` is set where a bound ends the calls (timers, event table,
hooks, connect, libco), where all tasks have ended or a lock is misused for good
(semaphore), and where all clients are gone (echo).  `IOScheduler` terminates by the
explicit step `Terminated` and is checked for deadlock.

## 4. Proofs

Every theorem is about the specification of its module (`Spec`; `ConnectSpec` of
`HookConnect`, which is proved beside `FdEvents`), without fairness, for all values
of the constants that satisfy the named assumptions there: finite sets of threads or
descriptors where they are counted, special values that are not threads, tasks or
timeouts, `Timed` among the fibers, first table sizes of at least 2.

| Module | Theorem | Says |
|---|---|---|
| `IOSchedulerProofs` | `TypeCorrect`, `FiberRunByOne`, `ResumeAssertion`, `CountersCorrect`, `WakeUpOnce` | `[]TypeOK`, `[]OneRunner`, `[]ResumeReady`, `[]CountersAgree`, `[]OneWakeUp` |
| `IOSchedulerProofs` | `StopQuietHolds` | `[]StopQuiet`: what is true when `stop()` has returned, early or not |
| `IOSchedulerProofs` | `Refinement` | `Spec` implies `TaskPool`'s under the mapping of `ImplementsTaskPool` |
| `TimerProofs` | `TimerTypesHold`, `ArmedInHeapHolds` | `[]TypeOK`, `[]ArmedInHeap` |
| `TimerProofs` | `TimersRefine` | `Spec` implies `TimerService`'s under the mapping of `ImplementsService` |
| `TimerProofs` | `WakeupTypesHold`, `NoOversleepHolds`, `PunctualHolds` | `[]WakeupTypes`, `[]NoOversleep`, `Punctual` |
| `FiberSemaphoreProofs` | `SemaphoreTypesHold`, `OwnStackHolds`, `AbortsOnlyLateHolds` | `[]TypeOK`, `[]OwnStack`, `[]AbortsOnlyLate` |
| `FiberSemaphoreProofs` | `UnitsKeptHolds`, `GuardsExcludeHolds` | `[]UnitsKept`, `[]GuardsExclude` |
| `FdEventsProofs` | `EventTypesHold`, `WokenOnceHolds`, `PendingAgreesHolds`, `NoLostEdgeHolds`, `AssertionsHoldAlways` | `[]TypeOK`, `[]WokenOnce`, `[]PendingAgrees`, `[]NoLostEdge`, `[]AssertionsHold` |
| `FdEventsProofs` | `AwaitedOnceHolds` | `AwaitedOnce`: an action property, the states a waiter goes through |
| `FdEventsProofs` | `ConnectTypesHold`, `ConnectTruthHolds`, `ConnectAwaitedHolds` | `[]ConnectTypes`, `[]ConnectTruth`, `[]ConnectAwaited` |
| `FdTablesProofs` | `TableTypesHold`, `CtxStaysHolds`, `EventsFoundHolds` | `[]TypeOK`, `[]CtxStays`, `[]EventsFound` |
| `HookIOProofs` | `HookTypesHold`, `WokenOnce`, `OwnTimeoutHolds` | `[]TypeOK`, `[]OneWake`, `[]OwnTimeout` |
| `HookIOProofs` | `ClosedWakesHolds`, `TimeoutKeptHolds` | `[]ClosedWakes`, `[]TimeoutKept` |
| `FdTablesProofs` | `FlagTypesHold`, `NeverBlocksHolds`, `UserViewHolds` | `[]SocketTypes`, `[]NeverBlocks`, `[]UserView` |
| `CoEventLoopProofs` | `LoopTypesHold`, `StackIntactHolds` | `[]TypeOK`, `[]StackIntact` |
| `CoEventLoopProofs` | `OnTimeHolds`, `WakersKeptHolds`, `OneLinkHolds` | `[]OnTime`, `[]WakersKept`, `[]Linked` |
| `EchoProofs` | `EchoTypesHold`, `OneHandlerHolds`, `AttendedHolds`, `ExchangeHolds` | `[]TypeOK`, `[]OneHandler`, `[]Attended`, `[]Exchange` |
| `EchoProofs` | `OnceThroughHolds` | `OnceThrough`: an action property, the stages of a connection |

`StopQuiet`, `AwaitedOnce`, `ConnectAwaited`, `ClosedWakes`, `TimeoutKept`, `Attended`,
`Exchange` and `OnceThrough` are defined beside their proofs; the other properties in
the models, where the runs check them but for those that section 3 names.  Between
them the theorems state every invariant of every passing run and both refinements.

Each module has an inductive invariant (`IndInv`, or `ConnectInv`), the lemmas that
the initial predicate implies it and that the next-state relation keeps it, with
one step per action, and the theorems as its consequences.  What the invariant adds
to the properties, and why:

* **IOScheduler**: `TypeOK /\ Shape /\ Wake /\ OneRunner /\ CountersAgree`.
  `OneRunner` needs `Shape` (a worker holds a task exactly at certain values of its
  `pc`) to know which fiber a step runs, and `Wake` to know that the fiber a worker
  takes is held by nobody else.  `Wake` writes `OneWakeUp` as pairwise exclusion of
  the places a fiber can be in, which a step changes one at a time, instead of a
  singleton.  `CountersAgree` needs the finiteness in `Shape` and that steps move
  one element.  `Shape` also says that two workers never hold the same event from
  `epoll_wait`; that is what makes `Trigger` wake once.  One lemma per conjunct
  (`TypeStep`, `ShapeStep`, `RunnerStep`, `WakeStep`, `CountStep`); `QueueAppended` and
  `QueueRemoved` say what `scheduleLock` and `Fetch` do to the entries, `WakeMove`
  what it takes for a fiber to go from one place to another.
* **StopQuiet**: `sched_early_exit` shows that `stop()` may return with work left.
  The theorem says what it cannot leave: a thread of the pool is at its end once
  `Join` has seen it there (`Joined`), so no worker is inside a task or between
  `listExpiredCb` or `epoll_wait` and what it does with the result, and `Wake` puts
  every live fiber in the queue, the heap or the event table.
* **Refinement**: the state is mapped to a status per fiber.  `StatusKnown`
  derives from the invariant which status each place gives; `StepMaps` then goes
  through the actions: each leaves every status alone or moves one fiber by one
  step of `TaskPool`.
* **FiberSwitch**: `OwnStack` follows from what `run()` knows at each place
  (`Place`): a thread inside a task holds the mutex of its fiber (`Mutexes`), so that
  the fiber is on no other thread and the registers `resume` and `yield` save are
  those of the fiber the thread is on.  `RootPlace` says the same of the caller,
  whose scheduler fiber exists before `stop()` enters it; `InOrder` that `start()`
  makes one worker after the other and each has stored its identifier before it
  signals.  That `resume()` finds its fiber READY needs more: an idle fiber ends
  only when the scheduler is stopping with nothing active (`Ended`), and
  `m_activeThreadCount` is the number of threads that have taken a task (`Counted`).
* **FiberSemaphore**: a unit on its way to a waiter is counted once because a fiber
  has one ticket at most, in the queue, with a thread, or on the list of waiters
  (`Tickets`).  While a thread holds the spinlock in `wait` or `tryWait`, `m_concurrency`
  is what it has read.  `GuardsExclude` compares fibers and `RWMutex` threads: a fiber with a
  locked guard is on its thread (`Guarded`), because it neither waits nor returns with
  one; the latter is `Nested`, the scopes of C++ followed through the calls.
* **TimerManager**: as long as no two deadlines have met, `find(t)` finds t or
  nothing, because the timers in the set and those between the halves of `reset()`
  have different deadlines (`Keys`).  A deadline lies beyond one period of its timer
  (`Deadlines`), so that none that `reset()` computes is negative, and the reading
  `listExpiredCb` works with is of the past unless the clock was set back
  (`Readings`), which is why no timer is listed early in `TimerService`.
* **TimerWakeup**: insertions that tickle nobody need none: a refreshed deadline is
  later than the one it replaces, and whoever puts a timer back is an awake worker.
  The invariant has `TickledWakes`, what `m_tickled` means (somebody has tickled or is
  about to, and no worker has gone back to `epoll_wait` since), `FirstSeen`, that
  the first deadline is in some sleeper's timeout otherwise, and that
  `m_idleThreadCount`, which `tickle()` trusts, is the number of idle workers.  That
  a non-empty heap has a first deadline is the well-foundedness of the naturals.
* **FdEvents**: `Table` compares slots in place of counting them (no waiter in two,
  none woken that is still in one); `Watch` relates the table to epoll: what epoll
  watches is registered, and is all that is registered unless the descriptor was
  closed; `Batches` says which entries of a batch are still right, and that
  only one worker has such an entry, which both `NoLostEdge` and `AssertionsHold` need.
  `AwaitedOnce` follows from `Table`, step by step: whoever `Remove` takes out of a
  slot had not been woken, and `Wake` looks at the same slots.
* **FdTables**: `CtxStays` is about descriptors nobody is closing.  `Places`, that a thread resizes only for a descriptor beyond the
  size it has read, with `Larger(n) > n` from 2 on, and `OutdatedRaced`, that an
  entry can only drop out under a thread when two have resized.
* **HookIO**: `Marked`, that a timer is in the history before its callback marks.
  `ClosedWakes` and `TimeoutKept` are inductive beside it; `Kept`, that only a
  registration inside a `close()` can be without epoll, is what `ClosedWakes` needs when
  the descriptor is closed.  `TimeoutKept` is what is left of `TimeoutWakes` without its premises: a fiber may sleep past its timeout because a
  callback ran too early, never because a timer was lost.
* **HookConnect**: `Apart` (registered or queued, not both) and `Decided`: the attempt
  of a fiber that was woken is over, unless its timer woke it or it is `blind` or
  `reused`; `ConnectKept`, like `Kept` above; `ConnectAwaited`, that a fiber
  that waits can still be found by what is to wake it, or registered inside a `close()`.
* **SocketFlags**: `Good`, of one descriptor at a time; a call changes one and leaves
  the others as they were (`Frame`).  `UserView` alone says nothing of a timeout as
  long as a socket is outside it for its mode.
* **CoRoutine**: `Frames`, where everybody's frames are: those of a stack's occupant
  in place, those of the others that have begun in their buffers.  It is kept
  because no coroutine is on the call stack twice and the running one occupies its
  stack (`Resumed`), so that `co_swap` copies out what has changed.
* **CoEventLoop**: `Linked`, an item is on one list at most and there once, which
  rests on `Placed`, that its coroutine waits and is not on the call stack.  `Reasons`
  says why an item is on the active list: its event, a signal, or a timeout of this
  turn, for which the wheel has come to `loopNow`; hence `OnTime`, since the walk
  resumes what it does not put back.  That no slot is late when the wheel turns, by
  however much, is `Advanced`: the slots left move closer by what `start` gains.
  `Without` and `FlattenSeq` are recursive functions; what they return is
  proved for the least length at which it could fail (`UpTo`).
* **EchoServers**: `OneHandler` counts, the invariant compares.  A connection is in
  one place (`Connections`); the servers of events know exactly the open descriptors,
  each from one place (`Known`); the tasks of libco's server hold exactly the open
  ones, and different ones (`Held`, `Holds`), where `Placed` says which coroutines
  hold something.  `accept` reuses the lowest number that is free; that nobody
  handles it any more is the "exactly".  That there is a lowest one is the
  well-foundedness of the naturals.
* **Exchange, OnceThrough**: both servers do the same things to a connection
  (`Calls`): accept, recv when they have no request in hand, send when they have one,
  close when they have none.  `EventCalls` and `TaskCalls` show that from the
  servers' steps; what follows is said once, of the calls.  `ClosedIsGone` keeps a
  closed connection from coming back.

The assumptions are those of the models.  `SwitchAssumption`: workers and tasks are
finite, and the caller is not among the workers nor a thread's fiber among the tasks'.
`SizesAssumption`: `m_concurrency` starts with a value it can hold.
`ScenariosAssumption`: a task's calls name its guards only within their scopes,
which the compiler sees to.  `TimersAssumption` and `ClockAssumption`: periods and
units are numbers, and one unit has room for all readings.  `EchoAssumption` and
`TasksAssumption`: null is no client, descriptor or coroutine, `accept_routine` is no
task, and tasks are finite.

`CosAssumption` and `LoopAssumption`: coroutines and descriptors are finite, the
wheel has a slot, and timeouts are not negative.

Only model-checked: liveness (`StopReturns`, `FibersFinish`, `ListReturns`,
`EventServed`, `ReaderWakes`, `TimeoutWakes`, `ConnectReturns`, `NotifiedReturns`,
`WaitsEnd`, `NobodyHangs`), which TLAPS does not prove from fairness or `ENABLED`, and
`StopDrains`, which does not hold.  What a recursive definition computes for every input is
proved only for the two above; modules with theorems have no `RECURSIVE` operator.

## 5. Not modelled

* `Fiber::reset`: nothing in the repository calls it.
* The base class's `idle()` and `tickle()` beyond the switch: `IOManager` replaces
  them.  In a plain `Scheduler` the hooked `sleep(1)` of `idle()` (241) asks
  `IOManager::GetThis()` for a timer and gets null.
* `yield()` on a main fiber, whose `m_runInScheduler` is not initialised (fiber.cpp
  62): tasks alone wait in the models.
* The conversions of `sleep`, `usleep`, `nanosleep` and of timevals: arithmetic on
  one value.  `sleep` wraps above 49 days, `usleep` drops what is below 1 ms.
* `Timer::reset` writes `m_ms` and `m_next` without the lock; the models make the
  two writes one step.
* That a task loses the thread it asked for at its first wait is in `IOScheduler`,
  and no property is about it.
* A bound on the total time of a call whose retries each start a new timer
  (hook.cpp 188), and which file a reader finds when its number was reused.
* Failing allocation and `epoll_ctl` failing for lack of memory; signals other than
  SIGPIPE; `errno` across a change of threads (hook.cpp 185), which depends on the
  compiler.
* `fcntl` commands that are handed on unchanged; logging.
* libco: the hooks' waits on blocking descriptors, the poll that merges several
  descriptors, more than 128 nested resumes, environment variables, name resolution,
  kqueue, the example programs.
* Benchmark: the counters (a `recv` of 0 counts as a reply), their sum in
  `client2.cpp`, the set-up of sockets.
* `IOScheduler` gives a fiber no second event while a worker still holds the first in
  its batch; that race is `FdEvents`'.
* The descriptors above FD_SETSIZE that libevent's server closes at once
  (libevent/main.cpp 48-49); a process has 1024 by default, FD_SETSIZE itself.
* Generated files.
