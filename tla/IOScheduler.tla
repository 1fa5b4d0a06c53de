---------------------------- MODULE IOScheduler ----------------------------
(***************************************************************************)
(* The coroutine scheduler of corlib as an application runs it: the run    *)
(* loop and task queue of class Scheduler (scheduler.h, scheduler.cpp)     *)
(* with the idle loop, tickle and stopping test that IOManager overrides   *)
(* (ioscheduler.cpp), and the resume/yield protocol of class Fiber.        *)
(*                                                                         *)
(* A thread is a worker executing Scheduler::run, or the thread that       *)
(* created the scheduler (Main), which becomes a worker inside stop() when *)
(* use_caller is set.  Every step of a thread is one critical section, one *)
(* access to an atomic counter or one system call, so any two threads may  *)
(* interleave between them.  pc[t] names the next such step.               *)
(*                                                                         *)
(* A fiber is in user code until it blocks in a hooked call: sleep() puts  *)
(* a timer in the heap whose callback reschedules the fiber, a socket call *)
(* that would block registers the fiber on a descriptor event.  Deadlines  *)
(* and descriptors are abstract here; the heap and the descriptor table    *)
(* have modules of their own.                                              *)
(***************************************************************************)
EXTENDS Naturals, FiniteSets, SequencesExt

CONSTANTS
  Pool,       \* threads created by Scheduler::start (m_threads)
  Main,       \* the thread that constructs the scheduler and calls stop()
  UseCaller,  \* m_useCaller: Main also executes run()
  Fibers,     \* the fibers the application creates
  Pin,        \* Pin[f]: the thread argument scheduleLock(f, thread) is given
  AnyThread,  \* the value -1 of ScheduleTask::thread
  NoTask,     \* a ScheduleTask after reset()
  NoThread,   \* the owner of an unlocked Fiber::m_mutex
  MaxWaits    \* bound: how often one fiber blocks in a hooked call

Workers == IF UseCaller THEN Pool \cup {Main} ELSE Pool
Threads == Pool \cup {Main}

ASSUME ThreadsAssumption ==
  /\ IsFiniteSet(Pool) /\ Main \notin Pool
  /\ UseCaller \in BOOLEAN
  /\ Workers # {}                       \* assert(threads > 0)
  /\ AnyThread \notin Threads /\ NoThread \notin Threads
ASSUME FibersAssumption ==
  /\ Pin \in [Fibers -> Workers \cup {AnyThread}]
  /\ MaxWaits \in Nat

\* A queue entry is a fiber to resume, or the callback a timer left for it.
ScheduleTask == [kind : {"fiber", "cb"}, fiber : Fibers,
                 thread : Workers \cup {AnyThread}]
ASSUME TaskAssumption == NoTask \notin ScheduleTask

FiberTask(f, thr) == [kind |-> "fiber", fiber |-> f, thread |-> thr]
CbTask(f) == [kind |-> "cb", fiber |-> f, thread |-> AnyThread]

VARIABLES
  mTasks,       \* m_tasks, the task queue
  mActive,      \* m_activeThreadCount
  mIdle,        \* m_idleThreadCount
  mStopping,    \* m_stopping
  mPending,     \* m_pendingEventCount
  pc,           \* the next step of each thread
  cont,         \* where a thread continues after tickle() returns
  task,         \* the local variable task of run()
  idleTerm,     \* the state of a worker's idle fiber is TERM
  nticks,       \* tickles stop() has still to send
  spawned,      \* fibers handed to scheduleLock so far
  fiberState,   \* Fiber::m_state
  fiberLock,    \* the thread that holds Fiber::m_mutex
  waits,        \* how often a fiber has blocked (history, for MaxWaits)
  timers,       \* fibers with a sleep timer in the heap
  due,          \* those of timers whose deadline has passed
  events,       \* fibers registered on a descriptor event
  ready,        \* those of events on the ready list of epoll
  bytes,        \* the tickle pipe holds unread bytes
  edge,         \* the tickle pipe is on the ready list of epoll
  cbs,          \* a worker's vector cbs of expired timer callbacks
  got,          \* descriptor events epoll_wait returned to a worker
  gotTickle     \* epoll_wait also returned the tickle pipe to it

queueVars  == <<mTasks, mActive, mIdle, mStopping, mPending, spawned>>
threadVars == <<pc, cont, task, idleTerm, nticks>>
fiberVars  == <<fiberState, fiberLock, waits>>
waitVars   == <<timers, due, events, ready>>
epollVars  == <<bytes, edge, cbs, got, gotTickle>>
vars == <<queueVars, threadVars, fiberVars, waitVars, epollVars>>

PC == {"user", "halt", "join", "done",                    \* Main: stop()
       "fetch", "lock", "run", "armed", "dec", "cb",      \* run()
       "empty", "unidle", "exit",
       "timers?", "pending?", "drained?",                 \* stopping()
       "sleep", "expire", "process", "settle",            \* idle()
       "tickle", "write"}                                 \* tickle()

-----------------------------------------------------------------------------
Goto(t, l) == pc' = [pc EXCEPT ![t] = l]

(* scheduleLock: append under the queue mutex; tickle only when the queue  *)
(* was empty.  The thread then continues at l.                             *)
scheduleLock(t, entry, l) ==
  /\ mTasks' = Append(mTasks, entry)
  /\ IF mTasks = <<>>
     THEN Goto(t, "tickle") /\ cont' = [cont EXCEPT ![t] = l]
     ELSE Goto(t, l) /\ UNCHANGED cont

(* IOManager::tickle: nothing to wake when no thread counts as idle.       *)
TickleCheck(t) ==
  /\ pc[t] = "tickle"
  /\ Goto(t, IF mIdle > 0 THEN "write" ELSE cont[t])
  /\ UNCHANGED <<queueVars, cont, task, idleTerm, nticks, fiberVars, waitVars,
                 epollVars>>

TickleWrite(t) ==
  /\ pc[t] = "write"
  /\ bytes' = TRUE /\ edge' = TRUE
  /\ Goto(t, cont[t])
  /\ UNCHANGED <<queueVars, cont, task, idleTerm, nticks, fiberVars, waitVars,
                 cbs, got, gotTickle>>

-----------------------------------------------------------------------------
(* The application thread: schedules fibers, then calls stop().            *)

MainSchedule(f) ==
  /\ pc[Main] = "user" /\ f \notin spawned
  /\ spawned' = spawned \cup {f}
  /\ scheduleLock(Main, FiberTask(f, Pin[f]), "user")
  /\ UNCHANGED <<mActive, mIdle, mStopping, mPending, task, idleTerm, nticks,
                 fiberVars, waitVars, epollVars>>

Stop ==
  /\ pc[Main] = "user"
  /\ mStopping' = TRUE
  /\ nticks' = Cardinality(Workers)
  /\ Goto(Main, "halt")
  /\ UNCHANGED <<mTasks, mActive, mIdle, mPending, spawned, cont, task,
                 idleTerm, fiberVars, waitVars, epollVars>>

StopTickle ==
  /\ pc[Main] = "halt" /\ nticks > 0
  /\ nticks' = nticks - 1
  /\ Goto(Main, "tickle") /\ cont' = [cont EXCEPT ![Main] = "halt"]
  /\ UNCHANGED <<queueVars, task, idleTerm, fiberVars, waitVars, epollVars>>

(* m_schedulerFiber->resume() when the caller is a worker too.             *)
StopRun ==
  /\ pc[Main] = "halt" /\ nticks = 0
  /\ Goto(Main, IF UseCaller THEN "fetch" ELSE "join")
  /\ UNCHANGED <<queueVars, cont, task, idleTerm, nticks, fiberVars, waitVars,
                 epollVars>>

Join ==
  /\ pc[Main] = "join"
  /\ \A w \in Pool : pc[w] = "exit"
  /\ Goto(Main, "done")
  /\ UNCHANGED <<queueVars, cont, task, idleTerm, nticks, fiberVars, waitVars,
                 epollVars>>

-----------------------------------------------------------------------------
(* Scheduler::run.                                                         *)

(* The first entry of the queue that worker w may take.                    *)
IsFirstFor(w, i) ==
  /\ i \in 1..Len(mTasks)
  /\ mTasks[i].thread \in {AnyThread, w}
  /\ \A j \in 1..(i - 1) : mTasks[j].thread \notin {AnyThread, w}

(* Where run() goes with the task it has taken.                            *)
Dispatch(entry) == IF entry = NoTask THEN "empty"
                   ELSE IF entry.kind = "fiber" THEN "lock" ELSE "cb"

(* One pass over the queue under its mutex: take an entry, or none.        *)
(* tickle_me holds exactly when an entry was skipped or entries remain.    *)
Fetch(w) ==
  /\ pc[w] = "fetch"
  /\ \/ \E i \in 1..Len(mTasks) :
          /\ IsFirstFor(w, i)
          /\ task' = [task EXCEPT ![w] = mTasks[i]]
          /\ mTasks' = RemoveAt(mTasks, i)
          /\ mActive' = mActive + 1
          /\ cont' = [cont EXCEPT ![w] = Dispatch(mTasks[i])]
          /\ Goto(w, IF Len(mTasks) > 1 THEN "tickle" ELSE Dispatch(mTasks[i]))
     \/ /\ \A i \in 1..Len(mTasks) : ~IsFirstFor(w, i)
        /\ cont' = [cont EXCEPT ![w] = "empty"]
        /\ Goto(w, IF mTasks # <<>> THEN "tickle" ELSE "empty")
        /\ UNCHANGED <<task, mTasks, mActive>>
  /\ UNCHANGED <<mIdle, mStopping, mPending, spawned, idleTerm, nticks,
                 fiberVars, waitVars, epollVars>>

\* Mutant: run() resumes without taking the fiber's mutex.
ResumeUnlocked(w) ==
  /\ pc[w] = "lock"
  /\ fiberState' = [fiberState EXCEPT ![task[w].fiber] = "RUNNING"]
  /\ fiberLock' = [fiberLock EXCEPT ![task[w].fiber] = w]
  /\ Goto(w, "run")
  /\ UNCHANGED <<queueVars, cont, task, idleTerm, nticks, waits, waitVars,
                 epollVars>>

(* Take the fiber's mutex; resume it unless it has terminated.             *)
LockFiber(w) ==
  /\ pc[w] = "lock"
  /\ LET f == task[w].fiber IN
       /\ fiberLock[f] = NoThread
       /\ IF fiberState[f] = "TERM"
          THEN Goto(w, "dec") /\ UNCHANGED <<fiberState, fiberLock>>
          ELSE /\ fiberLock' = [fiberLock EXCEPT ![f] = w]
               /\ fiberState' = [fiberState EXCEPT ![f] = "RUNNING"]
               /\ Goto(w, "run")
  /\ UNCHANGED <<queueVars, cont, task, idleTerm, nticks, waits, waitVars,
                 epollVars>>

(* A running fiber creates another one and schedules it.                   *)
Spawn(w, f) ==
  /\ pc[w] = "run" /\ f \notin spawned
  /\ spawned' = spawned \cup {f}
  /\ scheduleLock(w, FiberTask(f, Pin[f]), "run")
  /\ UNCHANGED <<mActive, mIdle, mStopping, mPending, task, idleTerm, nticks,
                 fiberVars, waitVars, epollVars>>

(* Hooked sleep(): addTimer, which tickles when the timer is the first of  *)
(* the heap and none did since getNextTimer; then yield.                   *)
Sleep(w) ==
  /\ pc[w] = "run" /\ waits[task[w].fiber] < MaxWaits
  /\ timers' = timers \cup {task[w].fiber}
  /\ waits' = [waits EXCEPT ![task[w].fiber] = @ + 1]
  /\ cont' = [cont EXCEPT ![w] = "armed"]
  /\ \/ Goto(w, "tickle")
     \/ Goto(w, "armed")
  /\ UNCHANGED <<queueVars, task, idleTerm, nticks, fiberState, fiberLock, due,
                 events, ready, epollVars>>

(* A socket call that would block: addEvent without callback; then yield.  *)
WaitEvent(w) ==
  /\ pc[w] = "run" /\ waits[task[w].fiber] < MaxWaits
  /\ events' = events \cup {task[w].fiber}
  /\ mPending' = mPending + 1
  /\ waits' = [waits EXCEPT ![task[w].fiber] = @ + 1]
  /\ Goto(w, "armed")
  /\ UNCHANGED <<mTasks, mActive, mIdle, mStopping, spawned, cont, task,
                 idleTerm, nticks, fiberState, fiberLock, timers, due, ready,
                 epollVars>>

(* yield() back to run(), which drops the fiber's mutex.                   *)
Yield(w) ==
  /\ pc[w] = "armed"
  /\ fiberState' = [fiberState EXCEPT ![task[w].fiber] = "READY"]
  /\ fiberLock' = [fiberLock EXCEPT ![task[w].fiber] = NoThread]
  /\ Goto(w, "dec")
  /\ UNCHANGED <<queueVars, cont, task, idleTerm, nticks, waits, waitVars,
                 epollVars>>

(* The fiber's function returns: MainFunc sets TERM and yields.            *)
Finish(w) ==
  /\ pc[w] = "run"
  /\ fiberState' = [fiberState EXCEPT ![task[w].fiber] = "TERM"]
  /\ fiberLock' = [fiberLock EXCEPT ![task[w].fiber] = NoThread]
  /\ Goto(w, "dec")
  /\ UNCHANGED <<queueVars, cont, task, idleTerm, nticks, waits, waitVars,
                 epollVars>>

(* A timer callback, in a fresh fiber: reschedule the sleeper anywhere.    *)
RunCb(w) ==
  /\ pc[w] = "cb"
  /\ scheduleLock(w, FiberTask(task[w].fiber, AnyThread), "dec")
  /\ UNCHANGED <<mActive, mIdle, mStopping, mPending, spawned, task, idleTerm,
                 nticks, fiberVars, waitVars, epollVars>>

Dec(w) ==
  /\ pc[w] = "dec"
  /\ mActive' = mActive - 1
  /\ task' = [task EXCEPT ![w] = NoTask]
  /\ Goto(w, "fetch")
  /\ UNCHANGED <<mTasks, mIdle, mStopping, mPending, spawned, cont, idleTerm,
                 nticks, fiberVars, waitVars, epollVars>>

(* No task: leave run() if the idle fiber has ended, else resume it.       *)
GoIdle(w) ==
  /\ pc[w] = "empty"
  /\ IF idleTerm[w]
     THEN Goto(w, IF w = Main THEN "join" ELSE "exit") /\ UNCHANGED mIdle
     ELSE Goto(w, "timers?") /\ mIdle' = mIdle + 1
  /\ UNCHANGED <<mTasks, mActive, mStopping, mPending, spawned, cont, task,
                 idleTerm, nticks, fiberVars, waitVars, epollVars>>

-----------------------------------------------------------------------------
(* IOManager::stopping, one read after the other, by an idle worker.       *)

CheckTimers(w) ==
  /\ pc[w] = "timers?"
  /\ Goto(w, IF timers = {} THEN "pending?" ELSE "sleep")
  /\ UNCHANGED <<queueVars, cont, task, idleTerm, nticks, fiberVars, waitVars,
                 epollVars>>

CheckPending(w) ==
  /\ pc[w] = "pending?"
  /\ Goto(w, IF mPending = 0 THEN "drained?" ELSE "sleep")
  /\ UNCHANGED <<queueVars, cont, task, idleTerm, nticks, fiberVars, waitVars,
                 epollVars>>

(* Scheduler::stopping under the queue mutex; if it holds idle() returns.  *)
CheckDrained(w) ==
  /\ pc[w] = "drained?"
  /\ IF mStopping /\ mTasks = <<>> /\ mActive = 0
     THEN Goto(w, "unidle") /\ idleTerm' = [idleTerm EXCEPT ![w] = TRUE]
     ELSE Goto(w, "sleep") /\ UNCHANGED idleTerm
  /\ UNCHANGED <<queueVars, cont, task, nticks, fiberVars, waitVars, epollVars>>

-----------------------------------------------------------------------------
(* IOManager::idle.  A worker at "sleep" is in or about to enter           *)
(* epoll_wait.                                                             *)

(* epoll_wait returns what is on the ready list; the entries are edge      *)
(* triggered, so they leave the list.                                      *)
EpollReturn(w) ==
  /\ pc[w] = "sleep"
  /\ ready # {} \/ (edge /\ bytes)
  /\ got' = [got EXCEPT ![w] = ready]
  /\ gotTickle' = [gotTickle EXCEPT ![w] = edge /\ bytes]
  /\ ready' = {} /\ edge' = FALSE
  /\ Goto(w, "expire")
  /\ UNCHANGED <<queueVars, cont, task, idleTerm, nticks, fiberVars, timers,
                 due, events, bytes, cbs>>

(* ... or, with nothing to return, it ends when the time until the first   *)
(* deadline, at most MAX_TIMEOUT, is over.                                 *)
EpollTimeout(w) ==
  /\ pc[w] = "sleep"
  /\ ready = {} /\ ~(edge /\ bytes)
  /\ Goto(w, "expire")
  /\ UNCHANGED <<queueVars, cont, task, idleTerm, nticks, fiberVars, waitVars,
                 epollVars>>

\* Mutant: the callbacks are cleared before they are collected.
ListExpiredDrops(w) ==
  /\ pc[w] = "expire"
  /\ timers' = timers \ due /\ due' = {}
  /\ Goto(w, "process")
  /\ UNCHANGED <<queueVars, cont, task, idleTerm, nticks, fiberVars, events,
                 ready, bytes, edge, got, gotTickle, cbs>>

ListExpiredCb(w) ==
  /\ pc[w] = "expire"
  /\ cbs' = [cbs EXCEPT ![w] = due]
  /\ timers' = timers \ due /\ due' = {}
  /\ Goto(w, "process")
  /\ UNCHANGED <<queueVars, cont, task, idleTerm, nticks, fiberVars, events,
                 ready, bytes, edge, got, gotTickle>>

ScheduleCb(w, f) ==
  /\ pc[w] = "process" /\ f \in cbs[w]
  /\ cbs' = [cbs EXCEPT ![w] = @ \ {f}]
  /\ scheduleLock(w, CbTask(f), "process")
  /\ UNCHANGED <<mActive, mIdle, mStopping, mPending, spawned, task, idleTerm,
                 nticks, fiberVars, waitVars, bytes, edge, got, gotTickle>>

Drain(w) ==
  /\ pc[w] = "process" /\ cbs[w] = {} /\ gotTickle[w]
  /\ bytes' = FALSE
  /\ gotTickle' = [gotTickle EXCEPT ![w] = FALSE]
  /\ UNCHANGED <<queueVars, threadVars, fiberVars, waitVars, edge, cbs, got>>

\* Mutant: triggerEvent leaves the registration behind.
TriggerKeeps(w, f) ==
  /\ pc[w] = "process" /\ cbs[w] = {} /\ f \in got[w]
  /\ got' = [got EXCEPT ![w] = @ \ {f}]
  /\ scheduleLock(w, FiberTask(f, AnyThread), "settle")
  /\ UNCHANGED <<mActive, mIdle, mStopping, mPending, spawned, task, idleTerm,
                 nticks, fiberVars, waitVars, bytes, edge, cbs, gotTickle>>

(* triggerEvent removes the registration and schedules the fiber; the      *)
(* pending count drops after it returns.                                   *)
Trigger(w, f) ==
  /\ pc[w] = "process" /\ cbs[w] = {} /\ f \in got[w]
  /\ got' = [got EXCEPT ![w] = @ \ {f}]
  /\ events' = events \ {f}
  /\ scheduleLock(w, FiberTask(f, AnyThread), "settle")
  /\ UNCHANGED <<mActive, mIdle, mStopping, mPending, spawned, task, idleTerm,
                 nticks, fiberVars, timers, due, ready, bytes, edge, cbs,
                 gotTickle>>

\* Mutant: the pending count is not lowered after an event was triggered.
SettleLeaks(w) ==
  /\ pc[w] = "settle"
  /\ Goto(w, "process")
  /\ UNCHANGED <<queueVars, cont, task, idleTerm, nticks, fiberVars, waitVars,
                 epollVars>>

Settle(w) ==
  /\ pc[w] = "settle"
  /\ mPending' = mPending - 1
  /\ Goto(w, "process")
  /\ UNCHANGED <<mTasks, mActive, mIdle, mStopping, spawned, cont, task,
                 idleTerm, nticks, fiberVars, waitVars, epollVars>>

IdleYield(w) ==
  /\ pc[w] = "process" /\ cbs[w] = {} /\ got[w] = {} /\ ~gotTickle[w]
  /\ Goto(w, "unidle")
  /\ UNCHANGED <<queueVars, cont, task, idleTerm, nticks, fiberVars, waitVars,
                 epollVars>>

\* Mutant: the idle counter is not lowered when the idle fiber returns.
UnidleLeaks(w) ==
  /\ pc[w] = "unidle"
  /\ Goto(w, "fetch")
  /\ UNCHANGED <<queueVars, cont, task, idleTerm, nticks, fiberVars, waitVars,
                 epollVars>>

(* run() resumes after the idle fiber has yielded or ended.                *)
Unidle(w) ==
  /\ pc[w] = "unidle"
  /\ mIdle' = mIdle - 1
  /\ Goto(w, "fetch")
  /\ UNCHANGED <<mTasks, mActive, mStopping, mPending, spawned, cont, task,
                 idleTerm, nticks, fiberVars, waitVars, epollVars>>

-----------------------------------------------------------------------------
(* The environment: a deadline passes, the kernel makes an event ready.    *)

TimerDue(f) ==
  /\ f \in timers \ due
  /\ due' = due \cup {f}
  /\ UNCHANGED <<queueVars, threadVars, fiberVars, timers, events, ready,
                 epollVars>>

EventReady(f) ==
  /\ f \in events \ ready
  /\ \A w \in Workers : f \notin got[w]
  /\ ready' = ready \cup {f}
  /\ UNCHANGED <<queueVars, threadVars, fiberVars, timers, due, events,
                 epollVars>>

-----------------------------------------------------------------------------
Init ==
  /\ mTasks = <<>> /\ mActive = 0 /\ mIdle = 0
  /\ mStopping = FALSE /\ mPending = 0
  /\ pc = [t \in Threads |-> IF t = Main THEN "user" ELSE "fetch"]
  /\ cont = [t \in Threads |-> "fetch"]
  /\ task = [t \in Threads |-> NoTask]
  /\ idleTerm = [t \in Threads |-> FALSE]
  /\ nticks = 0 /\ spawned = {}
  /\ fiberState = [f \in Fibers |-> "READY"]
  /\ fiberLock = [f \in Fibers |-> NoThread]
  /\ waits = [f \in Fibers |-> 0]
  /\ timers = {} /\ due = {} /\ events = {} /\ ready = {}
  /\ bytes = FALSE /\ edge = FALSE
  /\ cbs = [t \in Threads |-> {}] /\ got = [t \in Threads |-> {}]
  /\ gotTickle = [t \in Threads |-> FALSE]

MainStep ==
  \/ \E f \in Fibers : MainSchedule(f)
  \/ Stop \/ StopTickle \/ StopRun \/ Join

RunStep(w) ==
  \/ Fetch(w) \/ LockFiber(w) \/ RunCb(w) \/ Dec(w) \/ GoIdle(w)
  \/ Yield(w) \/ Finish(w)

BlockStep(w) ==
  \/ Sleep(w) \/ WaitEvent(w)
  \/ \E f \in Fibers : Spawn(w, f)

IdleStep(w) ==
  \/ CheckTimers(w) \/ CheckPending(w) \/ CheckDrained(w)
  \/ EpollReturn(w) \/ EpollTimeout(w) \/ ListExpiredCb(w)
  \/ \E f \in Fibers : ScheduleCb(w, f) \/ Trigger(w, f)
  \/ Drain(w) \/ Settle(w) \/ IdleYield(w) \/ Unidle(w)

TickleStep(t) == TickleCheck(t) \/ TickleWrite(t)

EnvStep == \E f \in Fibers : TimerDue(f) \/ EventReady(f)

(* The program is over when stop() has returned.                           *)
Terminated == pc[Main] = "done" /\ UNCHANGED vars

Next ==
  \/ MainStep
  \/ \E w \in Workers : RunStep(w) \/ BlockStep(w) \/ IdleStep(w)
  \/ \E t \in Threads : TickleStep(t)
  \/ EnvStep
  \/ Terminated

(* The operating system runs every thread, user code of a fiber ends, a    *)
(* deadline passes and an awaited event arrives.  That epoll_wait returns  *)
(* is its timeout of at most MAX_TIMEOUT milliseconds.                     *)
Fairness ==
  /\ WF_vars(StopTickle \/ StopRun \/ Join)
  /\ \A w \in Workers : WF_vars(RunStep(w)) /\ WF_vars(IdleStep(w))
  /\ \A t \in Threads : WF_vars(TickleStep(t))
  /\ \A f \in Fibers : WF_vars(TimerDue(f)) /\ WF_vars(EventReady(f))

Spec == Init /\ [][Next]_vars
FairSpec == Spec /\ Fairness

-----------------------------------------------------------------------------
(* The types; the counters stay natural numbers although the code lowers   *)
(* them apart from the state they count, and what is due or ready is among *)
(* the timers and events that exist.                                       *)
TypeOK ==
  /\ mTasks \in Seq(ScheduleTask)
  /\ mActive \in Nat /\ mIdle \in Nat /\ mPending \in Nat
  /\ mStopping \in BOOLEAN
  /\ pc \in [Threads -> PC] /\ cont \in [Threads -> PC]
  /\ task \in [Threads -> ScheduleTask \cup {NoTask}]
  /\ idleTerm \in [Threads -> BOOLEAN]
  /\ nticks \in Nat /\ spawned \subseteq Fibers
  /\ fiberState \in [Fibers -> {"READY", "RUNNING", "TERM"}]
  /\ fiberLock \in [Fibers -> Workers \cup {NoThread}]
  /\ waits \in [Fibers -> 0..MaxWaits]
  /\ due \subseteq timers /\ timers \subseteq Fibers
  /\ ready \subseteq events /\ events \subseteq Fibers
  /\ bytes \in BOOLEAN /\ edge \in BOOLEAN
  /\ cbs \in [Threads -> SUBSET Fibers] /\ got \in [Threads -> SUBSET Fibers]
  /\ gotTickle \in [Threads -> BOOLEAN]

(* The step a thread takes next, a pending tickle left aside.              *)
At(t) == IF pc[t] \in {"tickle", "write"} THEN cont[t] ELSE pc[t]

(* Worker w has taken an entry for f and f has not armed a wake-up since.  *)
Holds(w, f) ==
  /\ At(w) \in {"lock", "cb", "run"}
  /\ task[w] # NoTask /\ task[w].fiber = f

(* Every place from which fiber f will be resumed.                         *)
WakePlaces(f) ==
  {<<"queue", i>> : i \in {k \in 1..Len(mTasks) : mTasks[k].fiber = f}}
    \cup {<<"worker", w>> : w \in {v \in Workers : Holds(v, f)}}
    \cup {<<"expired", w>> : w \in {v \in Workers : f \in cbs[v]}}
    \cup {<<"heap", g>> : g \in timers \cap {f}}
    \cup {<<"epoll", g>> : g \in events \cap {f}}

IsSingleton(S) == \E p \in S : S = {p}

Live(f) == f \in spawned /\ fiberState[f] # "TERM"

(* A fiber is neither lost nor resumed twice for one wait: from the moment *)
(* it is scheduled until it terminates exactly one queue entry, worker,    *)
(* expired callback, timer or registered event stands for it, whatever     *)
(* runs between its addTimer or addEvent and its yield (sleep, do_io).     *)
OneWakeUp ==
  \A f \in Fibers : IF Live(f) THEN IsSingleton(WakePlaces(f))
                               ELSE WakePlaces(f) = {}

(* assert(m_state == READY) in Fiber::resume: a worker that obtains the    *)
(* mutex of the fiber it took never finds it running or terminated, also   *)
(* when the wake-up overtook the fiber's own yield on another worker.      *)
ResumeReady ==
  \A w \in Workers :
    pc[w] = "lock" /\ fiberLock[task[w].fiber] = NoThread
      => fiberState[task[w].fiber] = "READY"

(* A fiber's mutex is held exactly by the one worker that executes it, so  *)
(* no stack is ever run by two threads.                                    *)
OneRunner ==
  \A f \in Fibers :
    /\ fiberLock[f] = NoThread <=> fiberState[f] # "RUNNING"
    /\ \A w \in Workers :
         fiberLock[f] = w <=> /\ At(w) \in {"run", "armed"}
                              /\ task[w] # NoTask /\ task[w].fiber = f

IdlePC == {"timers?", "pending?", "drained?", "sleep", "expire", "process",
           "settle", "unidle"}

(* The counters that tickle() and stopping() read agree with the threads:  *)
(* one active per task taken, one idle per thread inside its idle fiber,   *)
(* one pending per registered event or trigger not yet settled.            *)
CountersAgree ==
  /\ mActive = Cardinality({w \in Workers : task[w] # NoTask})
  /\ mIdle = Cardinality({w \in Workers : At(w) \in IdlePC})
  /\ mPending = Cardinality(events)
                  + Cardinality({w \in Workers : At(w) = "settle"})

(* When stop() returns nothing is left: queue, heap and event table are    *)
(* empty and every fiber that was scheduled has run to its end.            *)
StopDrains ==
  pc[Main] = "done" =>
    /\ mTasks = <<>> /\ timers = {} /\ events = {}
    /\ \A f \in spawned : fiberState[f] = "TERM"

\* Worker w has left run(), and never takes another entry.
Left(w) == w \in Workers /\ idleTerm[w]

(* stop() returns once it has been called, unless an entry of the queue    *)
(* asks for a worker that has left: the others then look for one to take   *)
(* it for ever (StopDrains is about workers that leave too early).         *)
StopReturns ==
  pc[Main] = "halt" ~> \/ pc[Main] = "done"
                       \/ \E i \in 1..Len(mTasks) : Left(mTasks[i].thread)

(* Every fiber that was scheduled runs to its end, or no worker is left    *)
(* that may run it: it never stays behind in the queue, the heap or the    *)
(* event table beside a worker that sleeps or spins.  A fiber that asks    *)
(* for the caller's thread waits for stop(), which makes it a worker.      *)
FibersFinish ==
  \A f \in Fibers :
    f \in spawned /\ (Pin[f] = Main => mStopping)
              ~> \/ fiberState[f] = "TERM" \/ Left(Pin[f])
                 \/ \A w \in Workers : Left(w)

-----------------------------------------------------------------------------
(* The scheduler implements TaskPool: a fiber waits from addTimer/addEvent *)
(* until its callback or triggerEvent has rescheduled it.                  *)

\* A worker has fiber f, or the callback of its expired timer, at l.
WorkerAt(f, l) == \E w \in Workers : At(w) = l /\ task[w].fiber = f

\* A callback that will reschedule f is collected, queued or running.
CbPending(f) ==
  \/ \E w \in Workers : f \in cbs[w]
  \/ \E i \in 1..Len(mTasks) : mTasks[i].kind = "cb" /\ mTasks[i].fiber = f
  \/ WorkerAt(f, "cb")

FiberStatus(f) ==
  IF f \notin spawned THEN "new"
  ELSE IF fiberState[f] = "TERM" THEN "done"
  ELSE IF WorkerAt(f, "run") THEN "running"
  ELSE IF f \in timers \cup events \/ CbPending(f) THEN "waiting" ELSE "ready"

Abstract == INSTANCE TaskPool WITH
  Nobody <- NoThread,
  status <- [f \in Fibers |-> FiberStatus(f)],
  runner <- fiberLock

(* The scheduler is a task pool: each fiber moves from ready to running to *)
(* waiting and back in that order, whatever the threads interleave.        *)
ImplementsTaskPool == Abstract!Spec

=============================================================================
