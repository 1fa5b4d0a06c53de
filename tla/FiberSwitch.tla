---------------------------- MODULE FiberSwitch ----------------------------
(***************************************************************************)
(* What one thread executes: corlib's Fiber (fiber.cpp), the thread-local  *)
(* pointers t_fiber, t_thread_fiber and t_scheduler_fiber, and the code    *)
(* that switches between fibers: Scheduler's constructor, start, run and   *)
(* stop (scheduler.cpp) and the start-up of a Thread (thread.cpp).         *)
(*                                                                         *)
(* exec[t] is the stack the processor of thread t is on; the code never    *)
(* reads it.  ctx[f] is the stack whose registers f->m_ctx holds.  The     *)
(* scheduler uses its caller (use_caller), so that Root has a scheduler    *)
(* fiber besides its main fiber.  What a task does between two switches is *)
(* left to the modules that extend this one.  The queue is not pinned here *)
(* and idle() waits for nothing: IOScheduler has both.                     *)
(***************************************************************************)
EXTENDS Naturals, Sequences, FiniteSets, SequencesExt

CONSTANTS Workers,   \* the threads start() creates
          Root,      \* the thread that owns the scheduler
          Tasks,     \* the callbacks given to the scheduler, and their fibers
          None       \* no thread, fiber or task

Threads == Workers \cup {Root}
main(t) == <<"main", t>>
idle(t) == <<"idle", t>>
Sched   == <<"scheduler", Root>>
Fibers  == Tasks \cup {main(t) : t \in Threads} \cup {idle(t) : t \in Threads}
                 \cup {Sched}
RunStack(t) == IF t = Root THEN Sched ELSE main(t)

\* Root creates the workers, and the fibers of the tasks are no thread's.
ASSUME SwitchAssumption ==
  /\ IsFiniteSet(Workers) /\ IsFiniteSet(Tasks) /\ Root \notin Workers
  /\ None \notin Threads \cup Fibers
  /\ \A t \in Threads : {main(t), idle(t), Sched} \cap Tasks = {}

\* m_runInScheduler.  A main fiber's is never initialised, nor read: a main
\* fiber is neither resumed nor yields.
runInScheduler(f) == f # Sched

VARIABLES exec, tFiber, tThread, tSched,
          ctx, state,
          mutex,       \* Fiber::m_mutex: the thread that holds it
          at,          \* where run(), main() and the threads' starters are
          task,        \* run()'s variable task
          queue, active, stopFlag,
          tid, sem,    \* Thread::m_id and Thread::m_semaphore
          threadIds,   \* m_threadIds
          aborted      \* the assertion in resume() has failed

cpu        == <<exec, tFiber, tThread, tSched, ctx, state>>
pool       == <<queue, active, stopFlag>>
starters   == <<tid, sem, threadIds>>
switchVars == <<cpu, mutex, at, task, pool, starters, aborted>>

-----------------------------------------------------------------------------
\* Switching.

\* swapcontext(&from->m_ctx, &to->m_ctx) on thread t
swapcontext(t, from, to) ==
  /\ ctx' = [ctx EXCEPT ![from] = exec[t]]
  /\ exec' = [exec EXCEPT ![t] = ctx[to]]

\* Mutant: every fiber returns to the thread's main fiber.
ResumeFromMain(t, f) ==
  IF state[f] = "READY"
    THEN /\ state' = [state EXCEPT ![f] = "RUNNING"]
         /\ tFiber' = [tFiber EXCEPT ![t] = f]
         /\ swapcontext(t, tThread[t], f)
         /\ UNCHANGED <<tThread, tSched, aborted>>
    ELSE aborted' = TRUE /\ UNCHANGED cpu

resume(t, f) ==
  IF state[f] = "READY"
    THEN /\ state' = [state EXCEPT ![f] = "RUNNING"]
         /\ tFiber' = [tFiber EXCEPT ![t] = f]
         /\ swapcontext(t, IF runInScheduler(f) THEN tSched[t] ELSE tThread[t], f)
         /\ UNCHANGED <<tThread, tSched, aborted>>
    ELSE aborted' = TRUE /\ UNCHANGED cpu

\* last is "TERM" when MainFunc ends with a yield, and "READY" otherwise
yield(t, f, last) ==
  LET to == IF runInScheduler(f) THEN tSched[t] ELSE tThread[t]
  IN  /\ state' = [state EXCEPT ![f] = last]
      /\ tFiber' = [tFiber EXCEPT ![t] = to]
      /\ swapcontext(t, f, to)
      /\ UNCHANGED <<tThread, tSched>>

yieldToReady(t) == yield(t, tFiber[t], "READY")
MainFuncEnds(t) == yield(t, tFiber[t], "TERM")

On(t, f) == ~aborted /\ exec[t] = f
Goes(f, place) == at' = [at EXCEPT ![f] = place]

-----------------------------------------------------------------------------
\* A worker starts: Thread's constructor, Thread::run and Scheduler::start.

Create(w) ==
  /\ On(Root, main(Root)) /\ at[main(Root)] = "start"
  /\ w = SetToSeq(Workers)[Len(threadIds)]
  /\ at' = [at EXCEPT ![main(w)] = "new", ![main(Root)] = "started"]
  /\ UNCHANGED <<cpu, mutex, task, pool, starters, aborted>>

SetId(w) ==
  /\ ~aborted /\ at[main(w)] = "new"
  /\ tid' = [tid EXCEPT ![w] = w]
  /\ Goes(main(w), "signal")
  /\ UNCHANGED <<cpu, mutex, task, pool, sem, threadIds, aborted>>

Signal(w) ==
  /\ ~aborted /\ at[main(w)] = "signal"
  /\ sem' = [sem EXCEPT ![w] = @ + 1]
  /\ Goes(main(w), "enter")
  /\ UNCHANGED <<cpu, mutex, task, pool, tid, threadIds, aborted>>

\* Mutant: the constructor does not wait.
StartedEarly(w) ==
  /\ On(Root, main(Root)) /\ at[main(Root)] = "started"
  /\ w = SetToSeq(Workers)[Len(threadIds)]
  /\ threadIds' = Append(threadIds, tid[w])
  /\ Goes(main(Root), IF Len(threadIds') = Cardinality(Threads) THEN "user" ELSE "start")
  /\ UNCHANGED <<cpu, mutex, task, pool, tid, sem, aborted>>

\* The constructor's wait() returns; start() leaves its loop with the last
\* worker.
Started(w) ==
  /\ On(Root, main(Root)) /\ at[main(Root)] = "started" /\ sem[w] > 0
  /\ sem' = [sem EXCEPT ![w] = @ - 1]
  /\ threadIds' = Append(threadIds, tid[w])
  /\ Goes(main(Root), IF Len(threadIds') = Cardinality(Threads) THEN "user" ELSE "start")
  /\ UNCHANGED <<cpu, mutex, task, pool, tid, aborted>>

\* run() before its loop: a worker's Fiber::GetThis() makes its main fiber,
\* which is its scheduler fiber too; the idle fiber is made.
Enter(t) ==
  /\ ~aborted /\ at[RunStack(t)] = "enter"
  /\ IF t = Root
       THEN exec[t] = Sched /\ UNCHANGED <<exec, tFiber, tThread, tSched>>
       ELSE /\ exec' = [exec EXCEPT ![t] = main(t)]
            /\ tFiber' = [tFiber EXCEPT ![t] = main(t)]
            /\ tThread' = [tThread EXCEPT ![t] = main(t)]
            /\ tSched' = [tSched EXCEPT ![t] = main(t)]
  /\ state' = [state EXCEPT ![RunStack(t)] = "RUNNING", ![idle(t)] = "READY"]
  /\ Goes(RunStack(t), "take")
  /\ UNCHANGED <<ctx, mutex, task, pool, starters, aborted>>

-----------------------------------------------------------------------------
\* Scheduler::run

\* start() holds m_mutex until every worker has its id
Unlocked == at[main(Root)] \notin {"start", "started"}
stopping == stopFlag /\ queue = <<>> /\ active = 0

Take(t) ==
  LET me == RunStack(t)
  IN  /\ On(t, me) /\ at[me] = "take" /\ Unlocked /\ queue # <<>>
      /\ task' = [task EXCEPT ![t] = Head(queue)]
      /\ queue' = Tail(queue)
      /\ active' = active + 1
      /\ Goes(me, "task")
      /\ UNCHANGED <<cpu, mutex, stopFlag, starters, aborted>>

\* Mutant: a fiber that is locked is skipped.
RunTaskTries(t) ==
  LET me == RunStack(t)
      f  == task[t]
  IN  /\ On(t, me) /\ at[me] = "task"
      /\ Goes(me, "done")
      /\ IF mutex[f] # None THEN UNCHANGED <<cpu, mutex, aborted>>
         ELSE /\ mutex' = [mutex EXCEPT ![f] = t]
              /\ IF state[f] = "TERM" THEN UNCHANGED <<cpu, aborted>> ELSE resume(t, f)
      /\ UNCHANGED <<task, pool, starters>>

\* Both branches of run(): a callback gets a new fiber, a fiber is resumed
\* unless it has ended, each under the fiber's m_mutex.
RunTask(t) ==
  LET me == RunStack(t)
      f  == task[t]
  IN  /\ On(t, me) /\ at[me] = "task" /\ mutex[f] = None
      /\ mutex' = [mutex EXCEPT ![f] = t]
      /\ Goes(me, "done")
      /\ IF state[f] = "TERM" THEN UNCHANGED <<cpu, aborted>> ELSE resume(t, f)
      /\ UNCHANGED <<task, pool, starters>>

Done(t) ==
  LET me == RunStack(t)
  IN  /\ On(t, me) /\ at[me] = "done"
      /\ mutex' = [mutex EXCEPT ![task[t]] = None]
      /\ active' = active - 1
      /\ task' = [task EXCEPT ![t] = None]
      /\ Goes(me, "take")
      /\ UNCHANGED <<cpu, queue, stopFlag, starters, aborted>>

ResumeIdle(t) ==
  LET me == RunStack(t)
  IN  /\ On(t, me) /\ at[me] = "take" /\ Unlocked /\ queue = <<>>
      /\ state[idle(t)] # "TERM"
      /\ resume(t, idle(t))
      /\ UNCHANGED <<mutex, at, task, pool, starters>>

\* idle() gives the thread back when it is woken, and ends when the pool is
\* stopping.
Idle(t) ==
  /\ On(t, idle(t)) /\ Unlocked
  /\ IF stopping THEN MainFuncEnds(t) ELSE yieldToReady(t)
  /\ UNCHANGED <<mutex, at, task, pool, starters, aborted>>

\* run() returns: the scheduler fiber ends and goes back to the main fiber,
\* a worker's thread ends
Leave(t) ==
  LET me == RunStack(t)
  IN  /\ On(t, me) /\ at[me] = "take" /\ Unlocked /\ queue = <<>>
      /\ state[idle(t)] = "TERM"
      /\ Goes(me, "left")
      /\ IF t = Root
           THEN MainFuncEnds(t)
           ELSE /\ exec' = [exec EXCEPT ![t] = None]
                /\ UNCHANGED <<tFiber, tThread, tSched, ctx, state>>
      /\ UNCHANGED <<mutex, task, pool, starters, aborted>>

-----------------------------------------------------------------------------
\* Scheduler::stop, called by Root's main fiber

\* Mutant: stop() does not ask stopping() first.
StopAgain ==
  /\ On(Root, main(Root)) /\ at[main(Root)] \in {"user", "stopped"}
  /\ stopFlag' = TRUE
  /\ Goes(main(Root), "join")
  /\ resume(Root, Sched)
  /\ UNCHANGED <<mutex, task, queue, active, starters>>

Stop ==
  /\ On(Root, main(Root)) /\ at[main(Root)] \in {"user", "stopped"}
  /\ IF stopping
       THEN Goes(main(Root), "end") /\ UNCHANGED <<cpu, stopFlag, aborted>>
       ELSE /\ stopFlag' = TRUE
            /\ Goes(main(Root), "join")
            /\ resume(Root, Sched)
  /\ UNCHANGED <<mutex, task, queue, active, starters>>

Join ==
  /\ On(Root, main(Root)) /\ at[main(Root)] = "join"
  /\ \A w \in Workers : at[main(w)] = "left"
  /\ Goes(main(Root), "stopped")
  /\ UNCHANGED <<cpu, mutex, task, pool, starters, aborted>>

-----------------------------------------------------------------------------
\* The scheduler is constructed and its tasks are in its queue.  Without
\* workers start() has nothing to do.
Starting == IF Workers = {} THEN "user" ELSE "start"

SwitchInit ==
  /\ exec = [t \in Threads |-> IF t = Root THEN main(Root) ELSE None]
  /\ tFiber = [t \in Threads |-> IF t = Root THEN main(Root) ELSE None]
  /\ tThread = [t \in Threads |-> IF t = Root THEN main(Root) ELSE None]
  /\ tSched = [t \in Threads |-> IF t = Root THEN Sched ELSE None]
  /\ ctx = [f \in Fibers |-> f]
  /\ state = [f \in Fibers |-> IF f = main(Root) THEN "RUNNING" ELSE "READY"]
  /\ mutex = [f \in Tasks |-> None]
  /\ at = [f \in {main(t) : t \in Threads} \cup {Sched} |->
             IF f = main(Root) THEN Starting ELSE IF f = Sched THEN "enter" ELSE "none"]
  /\ task = [t \in Threads |-> None]
  /\ queue = SetToSeq(Tasks) /\ active = 0 /\ stopFlag = FALSE
  /\ tid = [w \in Workers |-> None] /\ sem = [w \in Workers |-> 0]
  /\ threadIds = <<Root>>
  /\ aborted = FALSE

ThreadStep(t) == Enter(t) \/ Take(t) \/ RunTask(t) \/ Done(t) \/ ResumeIdle(t)
                   \/ Idle(t) \/ Leave(t)
StartStep(w) == Create(w) \/ SetId(w) \/ Signal(w) \/ Started(w)

-----------------------------------------------------------------------------
\* Beside the types: start() stores the identifier of every worker it creates,
\* never the -1 that m_id starts as (scheduler.cpp:76-77, thread.cpp:52 and 88-95).
SwitchTypeOK ==
  /\ exec \in [Threads -> Fibers \cup {None}]
  /\ {tFiber, tThread, tSched} \subseteq [Threads -> Fibers \cup {None}]
  /\ ctx \in [Fibers -> Fibers]
  /\ state \in [Fibers -> {"READY", "RUNNING", "TERM"}]
  /\ mutex \in [Tasks -> Threads \cup {None}]
  /\ task \in [Threads -> Tasks \cup {None}]
  /\ queue \in Seq(Tasks) /\ active \in 0..Cardinality(Threads)
  /\ stopFlag \in BOOLEAN /\ aborted \in BOOLEAN
  /\ tid \in [Workers -> Workers \cup {None}] /\ sem \in [Workers -> 0..1]
  /\ threadIds \in Seq(Threads)

\* t_fiber is the fiber whose stack the thread is on, no stack is on two
\* threads, and a fiber that is off every thread has its own stack in its
\* m_ctx (fiber.cpp:140-194: the saving and the restoring side are chosen by
\* different variables, and one wrong choice overwrites another fiber's
\* registers).
OwnStack ==
  /\ \A t \in Threads : exec[t] # None => exec[t] = tFiber[t]
  /\ \A s, t \in Threads : s # t /\ exec[s] # None => exec[s] # exec[t]
  /\ \A f \in Fibers : (\A t \in Threads : exec[t] # f) => ctx[f] = f
=============================================================================
